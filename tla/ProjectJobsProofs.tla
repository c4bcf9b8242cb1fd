-------------------------- MODULE ProjectJobsProofs --------------------------
(***************************************************************************)
(* Proofs about ProjectJobs for every set of jobs, names and files, every  *)
(* number of lines, every size of the pipes and every set of events.  PInv *)
(* is inductive: each group of actions has a lemma that says so.  With     *)
(* PInv every step is one of ProjectStore, or none.                        *)
(***************************************************************************)
EXTENDS ProjectJobs, TLAPS

(* Steps by which the script only goes on. *)
LEMMA ProceedKeeps ==
  ASSUME PInv, NEW j \in Jobs,
         \/ Accept(j) \/ AcceptNew(j) \/ OpenSession(j) \/ GetDataset(j)
         \/ GetDependencies(j) \/ DownloadNew(j) \/ DependenciesNew(j) \/ Wait(j)
         \/ Join(j) \/ Prepare(j)
  PROVE  PInv'
<1>. USE ProjectAssumption DEF PInv
<1>1. ProjectTypeOK'
  <2>1. pc' \in [Jobs -> {"queued", "ended"} \cup Active]
    <3>1. \E x \in {"accepted", "session", "dataset", "ready", "joining", "parsing", "prepared"} : pc' = [pc EXCEPT ![j] = x]
      BY DEF Accept, AcceptNew, OpenSession, GetDataset, GetDependencies, DownloadNew,
             DependenciesNew, Wait, Join, Prepare, Go, Proceed, HistoryUnchanged,
             runVars, icatVars
    <3>2. QED
      BY <3>1 DEF ProjectTypeOK, Active, Preparing, Storing
  <2>2. result' \in [Jobs -> {"none", "stored", "exists", "failed", "undone"}]
    BY DEF ProjectTypeOK, Accept, AcceptNew, OpenSession, GetDataset, GetDependencies,
           DownloadNew, DependenciesNew, Wait, Join, Prepare, Go, Proceed,
           HistoryUnchanged, runVars, icatVars
  <2>3. left' \in [Jobs -> [Streams -> 0..Lines]]
    BY DEF ProjectTypeOK, Accept, AcceptNew, OpenSession, GetDataset, GetDependencies,
           DownloadNew, DependenciesNew, Wait, Join, Prepare, Go, Proceed,
           HistoryUnchanged, runVars, icatVars
  <2>4. pipe' \in [Jobs -> [Streams -> 0..PipeSize]]
    BY DEF ProjectTypeOK, Accept, AcceptNew, OpenSession, GetDataset, GetDependencies,
           DownloadNew, DependenciesNew, Wait, Join, Prepare, Go, Proceed,
           HistoryUnchanged, runVars, icatVars
  <2>5. tee' \in [Jobs -> [Streams -> {"off", "on", "done", "dead"}]]
    BY DEF ProjectTypeOK, Accept, AcceptNew, OpenSession, GetDataset, GetDependencies,
           DownloadNew, DependenciesNew, Wait, Join, Prepare, Go, Proceed,
           HistoryUnchanged, runVars, icatVars
  <2>6. quincy' \in [Jobs -> {"off", "on", "ok", "bad"}]
    BY DEF ProjectTypeOK, Accept, AcceptNew, OpenSession, GetDataset, GetDependencies,
           DownloadNew, DependenciesNew, Wait, Join, Prepare, Go, Proceed,
           HistoryUnchanged, runVars, icatVars
  <2>7. name' \in [Jobs -> Names \cup {"unknown"}]
    BY DEF ProjectTypeOK, Accept, AcceptNew, OpenSession, GetDataset, GetDependencies,
           DownloadNew, DependenciesNew, Wait, Join, Prepare, Go, Proceed,
           HistoryUnchanged, runVars, icatVars
  <2>8. stored' \in [Jobs -> SUBSET Files]
    BY DEF ProjectTypeOK, Files, Accept, AcceptNew, OpenSession, GetDataset,
           GetDependencies, DownloadNew, DependenciesNew, Wait, Join, Prepare, Go,
           Proceed, HistoryUnchanged, runVars, icatVars
  <2>9. /\ complete' \subseteq there' /\ there' \subseteq Jobs
        /\ job' \cup cut' \cup dead' \cup abandoned' \cup unheard' \subseteq Jobs
    BY DEF ProjectTypeOK, Known, Accept, AcceptNew, OpenSession, GetDataset,
           GetDependencies, DownloadNew, DependenciesNew, Wait, Join, Prepare, Go,
           Proceed, HistoryUnchanged, runVars, icatVars
  <2>10. /\ \A k \in there' : name'[k] # "unknown"
         /\ \A k, l \in there' : k # l => name'[k] # name'[l]
    BY DEF ProjectTypeOK, Known, Accept, AcceptNew, OpenSession, GetDataset,
           GetDependencies, DownloadNew, DependenciesNew, Wait, Join, Prepare, Go,
           Proceed, HistoryUnchanged, runVars, icatVars
  <2>11. QED
    BY <2>1, <2>2, <2>3, <2>4, <2>5, <2>6, <2>7, <2>8, <2>9, <2>10 DEF ProjectTypeOK
<1>2. ThreadsInv'
  BY DEF ProjectTypeOK, ThreadsInv, Accept, AcceptNew, OpenSession, GetDataset,
         GetDependencies, DownloadNew, DependenciesNew, Wait, Join, Prepare, Go,
         Proceed, HistoryUnchanged, runVars, icatVars
<1>3. ASSUME NEW k \in Jobs PROVE Known(k)'
  BY DEF ProjectTypeOK, Known, Active, Preparing, Storing, Accept, AcceptNew,
         OpenSession, GetDataset, GetDependencies, DownloadNew, DependenciesNew, Wait,
         Join, Prepare, Go, Proceed, HistoryUnchanged, runVars, icatVars
<1>4. QED
  BY <1>1, <1>2, <1>3

(* The script ends before it has a dataset, or after it is complete. *)
LEMMA FailsKeeps ==
  ASSUME PInv, NEW j \in Jobs,
         \/ Fails(j) \/ ParseFails(j) \/ AlreadyExists(j) \/ AlreadyExistsNew(j)
         \/ StoreProvenance(j)
  PROVE  PInv'
<1>. USE ProjectAssumption DEF PInv
<1>1. ProjectTypeOK'
  <2>1. pc' \in [Jobs -> {"queued", "ended"} \cup Active]
    <3>1. \E x \in {"ended"} : pc' = [pc EXCEPT ![j] = x]
      BY DEF Fails, ParseFails, AlreadyExists, AlreadyExistsNew, StoreProvenance,
             Ends, HistoryUnchanged, runVars, icatVars
    <3>2. QED
      BY <3>1 DEF ProjectTypeOK, Active, Preparing, Storing
  <2>2. result' \in [Jobs -> {"none", "stored", "exists", "failed", "undone"}]
    BY DEF ProjectTypeOK, Fails, ParseFails, AlreadyExists, AlreadyExistsNew,
           StoreProvenance, Ends, HistoryUnchanged, runVars, icatVars
  <2>3. left' \in [Jobs -> [Streams -> 0..Lines]]
    BY DEF ProjectTypeOK, Fails, ParseFails, AlreadyExists, AlreadyExistsNew,
           StoreProvenance, Ends, HistoryUnchanged, runVars, icatVars
  <2>4. pipe' \in [Jobs -> [Streams -> 0..PipeSize]]
    BY DEF ProjectTypeOK, Fails, ParseFails, AlreadyExists, AlreadyExistsNew,
           StoreProvenance, Ends, HistoryUnchanged, runVars, icatVars
  <2>5. tee' \in [Jobs -> [Streams -> {"off", "on", "done", "dead"}]]
    BY DEF ProjectTypeOK, Fails, ParseFails, AlreadyExists, AlreadyExistsNew,
           StoreProvenance, Ends, HistoryUnchanged, runVars, icatVars
  <2>6. quincy' \in [Jobs -> {"off", "on", "ok", "bad"}]
    BY DEF ProjectTypeOK, Fails, ParseFails, AlreadyExists, AlreadyExistsNew,
           StoreProvenance, Ends, HistoryUnchanged, runVars, icatVars
  <2>7. name' \in [Jobs -> Names \cup {"unknown"}]
    BY DEF ProjectTypeOK, Fails, ParseFails, AlreadyExists, AlreadyExistsNew,
           StoreProvenance, Ends, HistoryUnchanged, runVars, icatVars
  <2>8. stored' \in [Jobs -> SUBSET Files]
    BY DEF ProjectTypeOK, Files, Fails, ParseFails, AlreadyExists, AlreadyExistsNew,
           StoreProvenance, Ends, HistoryUnchanged, runVars, icatVars
  <2>9. /\ complete' \subseteq there' /\ there' \subseteq Jobs
        /\ job' \cup cut' \cup dead' \cup abandoned' \cup unheard' \subseteq Jobs
    BY DEF ProjectTypeOK, Known, Fails, ParseFails, AlreadyExists, AlreadyExistsNew,
           StoreProvenance, Ends, HistoryUnchanged, runVars, icatVars
  <2>10. /\ \A k \in there' : name'[k] # "unknown"
         /\ \A k, l \in there' : k # l => name'[k] # name'[l]
    BY DEF ProjectTypeOK, Known, Fails, ParseFails, AlreadyExists, AlreadyExistsNew,
           StoreProvenance, Ends, HistoryUnchanged, runVars, icatVars
  <2>11. QED
    BY <2>1, <2>2, <2>3, <2>4, <2>5, <2>6, <2>7, <2>8, <2>9, <2>10 DEF ProjectTypeOK
<1>2. ThreadsInv'
  BY DEF ProjectTypeOK, ThreadsInv, Fails, ParseFails, AlreadyExists,
         AlreadyExistsNew, StoreProvenance, Ends, HistoryUnchanged, runVars, icatVars
<1>3. ASSUME NEW k \in Jobs PROVE Known(k)'
  BY DEF ProjectTypeOK, Known, Active, Preparing, Storing, Fails, ParseFails,
         AlreadyExists, AlreadyExistsNew, StoreProvenance, Ends, HistoryUnchanged,
         runVars, icatVars
<1>4. QED
  BY <1>1, <1>2, <1>3

(* Quincy starts. *)
LEMMA StartKeeps ==
  ASSUME PInv, NEW j \in Jobs,
         StartQuincy(j)
  PROVE  PInv'
<1>. USE ProjectAssumption DEF PInv
<1>1. ProjectTypeOK'
  <2>1. pc' \in [Jobs -> {"queued", "ended"} \cup Active]
    BY DEF ProjectTypeOK, Active, Preparing, Storing, StartQuincy, Go,
           HistoryUnchanged, Each, icatVars
  <2>2. result' \in [Jobs -> {"none", "stored", "exists", "failed", "undone"}]
    BY DEF ProjectTypeOK, StartQuincy, Go, HistoryUnchanged, Each, icatVars
  <2>3. left' \in [Jobs -> [Streams -> 0..Lines]]
    BY DEF ProjectTypeOK, StartQuincy, Go, HistoryUnchanged, Each, icatVars
  <2>4. pipe' \in [Jobs -> [Streams -> 0..PipeSize]]
    BY DEF ProjectTypeOK, StartQuincy, Go, HistoryUnchanged, Each, icatVars
  <2>5. tee' \in [Jobs -> [Streams -> {"off", "on", "done", "dead"}]]
    BY DEF ProjectTypeOK, StartQuincy, Go, HistoryUnchanged, Each, icatVars
  <2>6. quincy' \in [Jobs -> {"off", "on", "ok", "bad"}]
    BY DEF ProjectTypeOK, StartQuincy, Go, HistoryUnchanged, Each, icatVars
  <2>7. name' \in [Jobs -> Names \cup {"unknown"}]
    BY DEF ProjectTypeOK, StartQuincy, Go, HistoryUnchanged, Each, icatVars
  <2>8. stored' \in [Jobs -> SUBSET Files]
    BY DEF ProjectTypeOK, Files, StartQuincy, Go, HistoryUnchanged, Each, icatVars
  <2>9. /\ complete' \subseteq there' /\ there' \subseteq Jobs
        /\ job' \cup cut' \cup dead' \cup abandoned' \cup unheard' \subseteq Jobs
    BY DEF ProjectTypeOK, Known, StartQuincy, Go, HistoryUnchanged, Each, icatVars
  <2>10. /\ \A k \in there' : name'[k] # "unknown"
         /\ \A k, l \in there' : k # l => name'[k] # name'[l]
    BY DEF ProjectTypeOK, Known, StartQuincy, Go, HistoryUnchanged, Each, icatVars
  <2>11. QED
    BY <2>1, <2>2, <2>3, <2>4, <2>5, <2>6, <2>7, <2>8, <2>9, <2>10 DEF ProjectTypeOK
<1>2. ThreadsInv'
  BY DEF ProjectTypeOK, ThreadsInv, StartQuincy, Go, HistoryUnchanged, Each, icatVars
<1>3. ASSUME NEW k \in Jobs PROVE Known(k)'
  BY DEF ProjectTypeOK, Known, Active, Preparing, Storing, StartQuincy, Go,
         HistoryUnchanged, Each, icatVars
<1>4. QED
  BY <1>1, <1>2, <1>3

(* Quincy exits. *)
LEMMA QuincyKeeps ==
  ASSUME PInv, NEW j \in Jobs,
         \/ ExitQuincy(j) \/ QuincyFails(j)
  PROVE  PInv'
<1>. USE ProjectAssumption DEF PInv
<1>1. ProjectTypeOK'
  <2>1. pc' \in [Jobs -> {"queued", "ended"} \cup Active]
    BY DEF ProjectTypeOK, Active, Preparing, Storing, ExitQuincy, QuincyFails,
           ProcessOnly, Each, icatVars
  <2>2. result' \in [Jobs -> {"none", "stored", "exists", "failed", "undone"}]
    BY DEF ProjectTypeOK, ExitQuincy, QuincyFails, ProcessOnly, Each, icatVars
  <2>3. left' \in [Jobs -> [Streams -> 0..Lines]]
    <3>. DEFINE L == [Streams -> 0..Lines]
    <3>1. left' = left \/ left' = [left EXCEPT ![j] = Each(0)]
      BY DEF ExitQuincy, QuincyFails
    <3>2. Each(0) \in L
      BY DEF Each
    <3>3. left \in [Jobs -> L]
      BY DEF ProjectTypeOK
    <3>. HIDE DEF L
    <3>4. left' \in [Jobs -> L]
      BY <3>1, <3>2, <3>3
    <3>5. QED
      BY <3>4 DEF L
  <2>4. pipe' \in [Jobs -> [Streams -> 0..PipeSize]]
    BY DEF ProjectTypeOK, ExitQuincy, QuincyFails, ProcessOnly, Each, icatVars
  <2>5. tee' \in [Jobs -> [Streams -> {"off", "on", "done", "dead"}]]
    BY DEF ProjectTypeOK, ExitQuincy, QuincyFails, ProcessOnly, Each, icatVars
  <2>6. quincy' \in [Jobs -> {"off", "on", "ok", "bad"}]
    BY DEF ProjectTypeOK, ExitQuincy, QuincyFails, ProcessOnly, Each, icatVars
  <2>7. name' \in [Jobs -> Names \cup {"unknown"}]
    BY DEF ProjectTypeOK, ExitQuincy, QuincyFails, ProcessOnly, Each, icatVars
  <2>8. stored' \in [Jobs -> SUBSET Files]
    BY DEF ProjectTypeOK, Files, ExitQuincy, QuincyFails, ProcessOnly, Each, icatVars
  <2>9. /\ complete' \subseteq there' /\ there' \subseteq Jobs
        /\ job' \cup cut' \cup dead' \cup abandoned' \cup unheard' \subseteq Jobs
    BY DEF ProjectTypeOK, Known, ExitQuincy, QuincyFails, ProcessOnly, Each, icatVars
  <2>10. /\ \A k \in there' : name'[k] # "unknown"
         /\ \A k, l \in there' : k # l => name'[k] # name'[l]
    BY DEF ProjectTypeOK, Known, ExitQuincy, QuincyFails, ProcessOnly, Each, icatVars
  <2>11. QED
    BY <2>1, <2>2, <2>3, <2>4, <2>5, <2>6, <2>7, <2>8, <2>9, <2>10 DEF ProjectTypeOK
<1>2. ThreadsInv'
  <2>1. CASE ExitQuincy(j)
    BY <2>1 DEF ProjectTypeOK, ThreadsInv, ProcessOnly, ExitQuincy
  <2>2. CASE QuincyFails(j)
    BY <2>2 DEF ProjectTypeOK, ThreadsInv, ProcessOnly, QuincyFails
  <2>3. QED
    BY <2>1, <2>2
<1>3. ASSUME NEW k \in Jobs PROVE Known(k)'
  BY DEF ProjectTypeOK, Known, Active, Preparing, Storing, ExitQuincy, QuincyFails,
         ProcessOnly, Each, icatVars
<1>4. QED
  BY <1>1, <1>2, <1>3

(* Quincy prints a line. *)
LEMMA PrintKeeps ==
  ASSUME PInv, NEW j \in Jobs, NEW s \in Streams,
         PrintLine(j, s)
  PROVE  PInv'
<1>. USE ProjectAssumption DEF PInv
<1>1. ProjectTypeOK'
  <2>1. pc' \in [Jobs -> {"queued", "ended"} \cup Active]
    BY DEF ProjectTypeOK, Active, Preparing, Storing, PrintLine, ProcessOnly, icatVars
  <2>2. result' \in [Jobs -> {"none", "stored", "exists", "failed", "undone"}]
    BY DEF ProjectTypeOK, PrintLine, ProcessOnly, icatVars
  <2>3. left' \in [Jobs -> [Streams -> 0..Lines]]
    BY DEF ProjectTypeOK, PrintLine, ProcessOnly, icatVars
  <2>4. pipe' \in [Jobs -> [Streams -> 0..PipeSize]]
    BY DEF ProjectTypeOK, PrintLine, ProcessOnly, icatVars
  <2>5. tee' \in [Jobs -> [Streams -> {"off", "on", "done", "dead"}]]
    BY DEF ProjectTypeOK, PrintLine, ProcessOnly, icatVars
  <2>6. quincy' \in [Jobs -> {"off", "on", "ok", "bad"}]
    BY DEF ProjectTypeOK, PrintLine, ProcessOnly, icatVars
  <2>7. name' \in [Jobs -> Names \cup {"unknown"}]
    BY DEF ProjectTypeOK, PrintLine, ProcessOnly, icatVars
  <2>8. stored' \in [Jobs -> SUBSET Files]
    BY DEF ProjectTypeOK, Files, PrintLine, ProcessOnly, icatVars
  <2>9. /\ complete' \subseteq there' /\ there' \subseteq Jobs
        /\ job' \cup cut' \cup dead' \cup abandoned' \cup unheard' \subseteq Jobs
    BY DEF ProjectTypeOK, Known, PrintLine, ProcessOnly, icatVars
  <2>10. /\ \A k \in there' : name'[k] # "unknown"
         /\ \A k, l \in there' : k # l => name'[k] # name'[l]
    BY DEF ProjectTypeOK, Known, PrintLine, ProcessOnly, icatVars
  <2>11. QED
    BY <2>1, <2>2, <2>3, <2>4, <2>5, <2>6, <2>7, <2>8, <2>9, <2>10 DEF ProjectTypeOK
<1>2. ThreadsInv'
  BY DEF ProjectTypeOK, ThreadsInv, PrintLine, ProcessOnly, icatVars
<1>3. ASSUME NEW k \in Jobs PROVE Known(k)'
  BY DEF ProjectTypeOK, Known, Active, Preparing, Storing, PrintLine, ProcessOnly,
         icatVars
<1>4. QED
  BY <1>1, <1>2, <1>3

(* A thread copies a line, or ends. *)
LEMMA TeeKeeps ==
  ASSUME PInv, NEW j \in Jobs, NEW s \in Streams,
         \/ TeeLine(j, s) \/ TeeEnds(j, s) \/ TeeDies(j, s)
  PROVE  PInv'
<1>. USE ProjectAssumption DEF PInv
<1>1. ProjectTypeOK'
  <2>1. pc' \in [Jobs -> {"queued", "ended"} \cup Active]
    BY DEF ProjectTypeOK, Active, Preparing, Storing, TeeLine, TeeEnds, TeeDies,
           ProcessOnly, icatVars
  <2>2. result' \in [Jobs -> {"none", "stored", "exists", "failed", "undone"}]
    BY DEF ProjectTypeOK, TeeLine, TeeEnds, TeeDies, ProcessOnly, icatVars
  <2>3. left' \in [Jobs -> [Streams -> 0..Lines]]
    BY DEF ProjectTypeOK, TeeLine, TeeEnds, TeeDies, ProcessOnly, icatVars
  <2>4. pipe' \in [Jobs -> [Streams -> 0..PipeSize]]
    <3>1. CASE TeeLine(j, s)
      BY <3>1 DEF ProjectTypeOK, TeeLine
    <3>2. CASE TeeEnds(j, s)
      BY <3>2 DEF ProjectTypeOK, TeeEnds
    <3>3. CASE TeeDies(j, s)
      BY <3>3 DEF ProjectTypeOK, TeeDies
    <3>4. QED
      BY <3>1, <3>2, <3>3
  <2>5. tee' \in [Jobs -> [Streams -> {"off", "on", "done", "dead"}]]
    <3>1. CASE TeeLine(j, s)
      BY <3>1 DEF ProjectTypeOK, TeeLine
    <3>2. CASE TeeEnds(j, s)
      BY <3>2 DEF ProjectTypeOK, TeeEnds
    <3>3. CASE TeeDies(j, s)
      BY <3>3 DEF ProjectTypeOK, TeeDies
    <3>4. QED
      BY <3>1, <3>2, <3>3
  <2>6. quincy' \in [Jobs -> {"off", "on", "ok", "bad"}]
    BY DEF ProjectTypeOK, TeeLine, TeeEnds, TeeDies, ProcessOnly, icatVars
  <2>7. name' \in [Jobs -> Names \cup {"unknown"}]
    BY DEF ProjectTypeOK, TeeLine, TeeEnds, TeeDies, ProcessOnly, icatVars
  <2>8. stored' \in [Jobs -> SUBSET Files]
    BY DEF ProjectTypeOK, Files, TeeLine, TeeEnds, TeeDies, ProcessOnly, icatVars
  <2>9. /\ complete' \subseteq there' /\ there' \subseteq Jobs
        /\ job' \cup cut' \cup dead' \cup abandoned' \cup unheard' \subseteq Jobs
    BY DEF ProjectTypeOK, Known, TeeLine, TeeEnds, TeeDies, ProcessOnly, icatVars
  <2>10. /\ \A k \in there' : name'[k] # "unknown"
         /\ \A k, l \in there' : k # l => name'[k] # name'[l]
    BY DEF ProjectTypeOK, Known, TeeLine, TeeEnds, TeeDies, ProcessOnly, icatVars
  <2>11. QED
    BY <2>1, <2>2, <2>3, <2>4, <2>5, <2>6, <2>7, <2>8, <2>9, <2>10 DEF ProjectTypeOK
<1>2. ThreadsInv'
  <2>1. CASE TeeLine(j, s)
    BY <2>1 DEF ProjectTypeOK, ThreadsInv, ProcessOnly, TeeLine
  <2>2. CASE TeeEnds(j, s)
    BY <2>2 DEF ProjectTypeOK, ThreadsInv, ProcessOnly, TeeEnds
  <2>3. CASE TeeDies(j, s)
    BY <2>3 DEF ProjectTypeOK, ThreadsInv, ProcessOnly, TeeDies
  <2>4. QED
    BY <2>1, <2>2, <2>3
<1>3. ASSUME NEW k \in Jobs PROVE Known(k)'
  BY DEF ProjectTypeOK, Known, Active, Preparing, Storing, TeeLine, TeeEnds, TeeDies,
         ProcessOnly, icatVars
<1>4. QED
  BY <1>1, <1>2, <1>3

(* The name is read. *)
LEMMA ParseKeeps ==
  ASSUME PInv, NEW j \in Jobs,
         Parse(j)
  PROVE  PInv'
<1>. USE ProjectAssumption DEF PInv
<1>1. ProjectTypeOK'
  <2>1. pc' \in [Jobs -> {"queued", "ended"} \cup Active]
    BY DEF ProjectTypeOK, Active, Preparing, Storing, Parse, Go, Each, icatVars
  <2>2. result' \in [Jobs -> {"none", "stored", "exists", "failed", "undone"}]
    BY DEF ProjectTypeOK, Parse, Go, Each, icatVars
  <2>3. left' \in [Jobs -> [Streams -> 0..Lines]]
    BY DEF ProjectTypeOK, Parse, Go, Each, icatVars
  <2>4. pipe' \in [Jobs -> [Streams -> 0..PipeSize]]
    BY DEF ProjectTypeOK, Parse, Go, Each, icatVars
  <2>5. tee' \in [Jobs -> [Streams -> {"off", "on", "done", "dead"}]]
    BY DEF ProjectTypeOK, Parse, Go, Each, icatVars
  <2>6. quincy' \in [Jobs -> {"off", "on", "ok", "bad"}]
    BY DEF ProjectTypeOK, Parse, Go, Each, icatVars
  <2>7. name' \in [Jobs -> Names \cup {"unknown"}]
    BY DEF ProjectTypeOK, Parse, Go, Each, icatVars
  <2>8. stored' \in [Jobs -> SUBSET Files]
    BY DEF ProjectTypeOK, Files, Parse, Go, Each, icatVars
  <2>9. /\ complete' \subseteq there' /\ there' \subseteq Jobs
        /\ job' \cup cut' \cup dead' \cup abandoned' \cup unheard' \subseteq Jobs
    BY DEF ProjectTypeOK, Known, Parse, Go, Each, icatVars
  <2>10. /\ \A k \in there' : name'[k] # "unknown"
         /\ \A k, l \in there' : k # l => name'[k] # name'[l]
    <3>1. PICK n \in Names : name' = [name EXCEPT ![j] = n]
      BY DEF Parse
    <3>2. j \notin there /\ there' = there
      BY DEF Known, Parse, Go, icatVars
    <3>3. QED
      BY <3>1, <3>2 DEF ProjectTypeOK
  <2>11. QED
    BY <2>1, <2>2, <2>3, <2>4, <2>5, <2>6, <2>7, <2>8, <2>9, <2>10 DEF ProjectTypeOK
<1>2. ThreadsInv'
  <2>1. j \in cut' => j \in dead
    BY DEF ProjectTypeOK, ThreadsInv, Parse, Go, Streams
  <2>2. cut' \subseteq dead'
    BY <2>1 DEF ThreadsInv, Parse
  <2>3. \A k \in Jobs \ {j} : /\ pc'[k] = pc[k] /\ pipe'[k] = pipe[k] /\ tee'[k] = tee[k]
                              /\ quincy'[k] = quincy[k]
    BY DEF ProjectTypeOK, Parse, Go
  <2>4. pc'[j] = "parsed" /\ \A s \in Streams : tee'[j][s] = "off"
    BY DEF ProjectTypeOK, Parse, Go, Each
  <2>5. QED
    BY <2>2, <2>3, <2>4 DEF ThreadsInv, Parse
<1>3. ASSUME NEW k \in Jobs PROVE Known(k)'
  <2>1. PICK n \in Names \cup {"unknown"} : name' = [name EXCEPT ![j] = n] /\ n # "unknown"
    BY DEF Parse
  <2>2. QED
    BY <2>1 DEF ProjectTypeOK, Known, Parse, Go, icatVars
<1>4. QED
  BY <1>1, <1>2, <1>3

(* The dataset is created. *)
LEMMA CreateKeeps ==
  ASSUME PInv, NEW j \in Jobs,
         \/ Create(j) \/ CreateUnheard(j)
  PROVE  PInv'
<1>. USE ProjectAssumption DEF PInv
<1>1. ProjectTypeOK'
  <2>1. pc' \in [Jobs -> {"queued", "ended"} \cup Active]
    <3>1. \E x \in {"writing", "ended"} : pc' = [pc EXCEPT ![j] = x]
      BY DEF Create, CreateUnheard, Go, Ends, Taken, HistoryUnchanged, runVars
    <3>2. QED
      BY <3>1 DEF ProjectTypeOK, Active, Preparing, Storing
  <2>2. result' \in [Jobs -> {"none", "stored", "exists", "failed", "undone"}]
    BY DEF ProjectTypeOK, Create, CreateUnheard, Go, Ends, Taken, HistoryUnchanged,
           runVars
  <2>3. left' \in [Jobs -> [Streams -> 0..Lines]]
    BY DEF ProjectTypeOK, Create, CreateUnheard, Go, Ends, Taken, HistoryUnchanged,
           runVars
  <2>4. pipe' \in [Jobs -> [Streams -> 0..PipeSize]]
    BY DEF ProjectTypeOK, Create, CreateUnheard, Go, Ends, Taken, HistoryUnchanged,
           runVars
  <2>5. tee' \in [Jobs -> [Streams -> {"off", "on", "done", "dead"}]]
    BY DEF ProjectTypeOK, Create, CreateUnheard, Go, Ends, Taken, HistoryUnchanged,
           runVars
  <2>6. quincy' \in [Jobs -> {"off", "on", "ok", "bad"}]
    BY DEF ProjectTypeOK, Create, CreateUnheard, Go, Ends, Taken, HistoryUnchanged,
           runVars
  <2>7. name' \in [Jobs -> Names \cup {"unknown"}]
    BY DEF ProjectTypeOK, Create, CreateUnheard, Go, Ends, Taken, HistoryUnchanged,
           runVars
  <2>8. stored' \in [Jobs -> SUBSET Files]
    BY DEF ProjectTypeOK, Files, Create, CreateUnheard, Go, Ends, Taken,
           HistoryUnchanged, runVars
  <2>9. /\ complete' \subseteq there' /\ there' \subseteq Jobs
        /\ job' \cup cut' \cup dead' \cup abandoned' \cup unheard' \subseteq Jobs
    BY DEF ProjectTypeOK, Known, Create, CreateUnheard, Go, Ends, Taken,
           HistoryUnchanged, runVars
  <2>10. /\ \A k \in there' : name'[k] # "unknown"
         /\ \A k, l \in there' : k # l => name'[k] # name'[l]
    <3>1. there' = there \cup {j} /\ name' = name /\ \A k \in there : name[k] # name[j]
      BY DEF Create, CreateUnheard, Taken, runVars
    <3>2. name[j] # "unknown"
      BY DEF Create, CreateUnheard, Go, Known
    <3>3. QED
      BY <3>1, <3>2 DEF ProjectTypeOK
  <2>11. QED
    BY <2>1, <2>2, <2>3, <2>4, <2>5, <2>6, <2>7, <2>8, <2>9, <2>10 DEF ProjectTypeOK
<1>2. ThreadsInv'
  BY DEF ProjectTypeOK, ThreadsInv, Create, CreateUnheard, Go, Ends, Taken,
         HistoryUnchanged, runVars
<1>3. ASSUME NEW k \in Jobs PROVE Known(k)'
  BY DEF ProjectTypeOK, Known, Active, Preparing, Storing, Create, CreateUnheard, Go,
         Ends, Taken, HistoryUnchanged, runVars
<1>4. QED
  BY <1>1, <1>2, <1>3

(* Its files are written. *)
LEMMA WriteKeeps ==
  ASSUME PInv, NEW j \in Jobs,
         \/ WriteListed(j) \/ WriteOther(j)
  PROVE  PInv'
<1>. USE ProjectAssumption DEF PInv
<1>1. ProjectTypeOK'
  <2>1. pc' \in [Jobs -> {"queued", "ended"} \cup Active]
    BY DEF ProjectTypeOK, Active, Preparing, Storing, WriteListed, WriteOther,
           PutFile, HistoryUnchanged, runVars
  <2>2. result' \in [Jobs -> {"none", "stored", "exists", "failed", "undone"}]
    BY DEF ProjectTypeOK, WriteListed, WriteOther, PutFile, HistoryUnchanged, runVars
  <2>3. left' \in [Jobs -> [Streams -> 0..Lines]]
    BY DEF ProjectTypeOK, WriteListed, WriteOther, PutFile, HistoryUnchanged, runVars
  <2>4. pipe' \in [Jobs -> [Streams -> 0..PipeSize]]
    BY DEF ProjectTypeOK, WriteListed, WriteOther, PutFile, HistoryUnchanged, runVars
  <2>5. tee' \in [Jobs -> [Streams -> {"off", "on", "done", "dead"}]]
    BY DEF ProjectTypeOK, WriteListed, WriteOther, PutFile, HistoryUnchanged, runVars
  <2>6. quincy' \in [Jobs -> {"off", "on", "ok", "bad"}]
    BY DEF ProjectTypeOK, WriteListed, WriteOther, PutFile, HistoryUnchanged, runVars
  <2>7. name' \in [Jobs -> Names \cup {"unknown"}]
    BY DEF ProjectTypeOK, WriteListed, WriteOther, PutFile, HistoryUnchanged, runVars
  <2>8. stored' \in [Jobs -> SUBSET Files]
    <3>1. PICK f \in Files : stored' = [stored EXCEPT ![j] = @ \cup {f}]
      BY DEF WriteListed, WriteOther, PutFile, Files
    <3>2. QED
      BY <3>1 DEF ProjectTypeOK
  <2>9. /\ complete' \subseteq there' /\ there' \subseteq Jobs
        /\ job' \cup cut' \cup dead' \cup abandoned' \cup unheard' \subseteq Jobs
    BY DEF ProjectTypeOK, Known, WriteListed, WriteOther, PutFile, HistoryUnchanged,
           runVars
  <2>10. /\ \A k \in there' : name'[k] # "unknown"
         /\ \A k, l \in there' : k # l => name'[k] # name'[l]
    BY DEF ProjectTypeOK, Known, WriteListed, WriteOther, PutFile, HistoryUnchanged,
           runVars
  <2>11. QED
    BY <2>1, <2>2, <2>3, <2>4, <2>5, <2>6, <2>7, <2>8, <2>9, <2>10 DEF ProjectTypeOK
<1>2. ThreadsInv'
  BY DEF ProjectTypeOK, ThreadsInv, WriteListed, WriteOther, PutFile,
         HistoryUnchanged, runVars
<1>3. ASSUME NEW k \in Jobs PROVE Known(k)'
  <2>1. PICK f \in Files : PutFile(j, f)
    BY DEF WriteListed, WriteOther, Files
  <2>2. pc[j] = "writing"
    BY DEF WriteListed, WriteOther
  <2>3. QED
    BY <2>1, <2>2 DEF ProjectTypeOK, Known, PutFile, HistoryUnchanged
<1>4. QED
  BY <1>1, <1>2, <1>3

(* It is marked complete, or the write fails. *)
LEMMA CompleteKeeps ==
  ASSUME PInv, NEW j \in Jobs,
         \/ SetComplete(j) \/ WriteFails(j)
  PROVE  PInv'
<1>. USE ProjectAssumption DEF PInv
<1>1. ProjectTypeOK'
  <2>1. pc' \in [Jobs -> {"queued", "ended"} \cup Active]
    <3>1. \E x \in {"complete", "undoing"} : pc' = [pc EXCEPT ![j] = x]
      BY DEF SetComplete, WriteFails, Go, HistoryUnchanged, runVars
    <3>2. QED
      BY <3>1 DEF ProjectTypeOK, Active, Preparing, Storing
  <2>2. result' \in [Jobs -> {"none", "stored", "exists", "failed", "undone"}]
    BY DEF ProjectTypeOK, SetComplete, WriteFails, Go, HistoryUnchanged, runVars
  <2>3. left' \in [Jobs -> [Streams -> 0..Lines]]
    BY DEF ProjectTypeOK, SetComplete, WriteFails, Go, HistoryUnchanged, runVars
  <2>4. pipe' \in [Jobs -> [Streams -> 0..PipeSize]]
    BY DEF ProjectTypeOK, SetComplete, WriteFails, Go, HistoryUnchanged, runVars
  <2>5. tee' \in [Jobs -> [Streams -> {"off", "on", "done", "dead"}]]
    BY DEF ProjectTypeOK, SetComplete, WriteFails, Go, HistoryUnchanged, runVars
  <2>6. quincy' \in [Jobs -> {"off", "on", "ok", "bad"}]
    BY DEF ProjectTypeOK, SetComplete, WriteFails, Go, HistoryUnchanged, runVars
  <2>7. name' \in [Jobs -> Names \cup {"unknown"}]
    BY DEF ProjectTypeOK, SetComplete, WriteFails, Go, HistoryUnchanged, runVars
  <2>8. stored' \in [Jobs -> SUBSET Files]
    BY DEF ProjectTypeOK, Files, SetComplete, WriteFails, Go, HistoryUnchanged, runVars
  <2>9. /\ complete' \subseteq there' /\ there' \subseteq Jobs
        /\ job' \cup cut' \cup dead' \cup abandoned' \cup unheard' \subseteq Jobs
    BY DEF ProjectTypeOK, Known, SetComplete, WriteFails, Go, HistoryUnchanged, runVars
  <2>10. /\ \A k \in there' : name'[k] # "unknown"
         /\ \A k, l \in there' : k # l => name'[k] # name'[l]
    BY DEF ProjectTypeOK, Known, SetComplete, WriteFails, Go, HistoryUnchanged, runVars
  <2>11. QED
    BY <2>1, <2>2, <2>3, <2>4, <2>5, <2>6, <2>7, <2>8, <2>9, <2>10 DEF ProjectTypeOK
<1>2. ThreadsInv'
  BY DEF ProjectTypeOK, ThreadsInv, SetComplete, WriteFails, Go, HistoryUnchanged, runVars
<1>3. ASSUME NEW k \in Jobs PROVE Known(k)'
  BY DEF ProjectTypeOK, Known, Active, Preparing, Storing, SetComplete, WriteFails,
         Go, HistoryUnchanged, runVars
<1>4. QED
  BY <1>1, <1>2, <1>3

(* It is removed again. *)
LEMMA UndoKeeps ==
  ASSUME PInv, NEW j \in Jobs,
         \/ DeleteFiles(j) \/ DeleteDataset(j) \/ UndoFails(j)
  PROVE  PInv'
<1>. USE ProjectAssumption DEF PInv
<1>1. ProjectTypeOK'
  <2>1. pc' \in [Jobs -> {"queued", "ended"} \cup Active]
    BY DEF ProjectTypeOK, Active, Preparing, Storing, DeleteFiles, DeleteDataset,
           UndoFails, Ends, HistoryUnchanged, runVars, icatVars
  <2>2. result' \in [Jobs -> {"none", "stored", "exists", "failed", "undone"}]
    BY DEF ProjectTypeOK, DeleteFiles, DeleteDataset, UndoFails, Ends,
           HistoryUnchanged, runVars, icatVars
  <2>3. left' \in [Jobs -> [Streams -> 0..Lines]]
    BY DEF ProjectTypeOK, DeleteFiles, DeleteDataset, UndoFails, Ends,
           HistoryUnchanged, runVars, icatVars
  <2>4. pipe' \in [Jobs -> [Streams -> 0..PipeSize]]
    BY DEF ProjectTypeOK, DeleteFiles, DeleteDataset, UndoFails, Ends,
           HistoryUnchanged, runVars, icatVars
  <2>5. tee' \in [Jobs -> [Streams -> {"off", "on", "done", "dead"}]]
    BY DEF ProjectTypeOK, DeleteFiles, DeleteDataset, UndoFails, Ends,
           HistoryUnchanged, runVars, icatVars
  <2>6. quincy' \in [Jobs -> {"off", "on", "ok", "bad"}]
    BY DEF ProjectTypeOK, DeleteFiles, DeleteDataset, UndoFails, Ends,
           HistoryUnchanged, runVars, icatVars
  <2>7. name' \in [Jobs -> Names \cup {"unknown"}]
    BY DEF ProjectTypeOK, DeleteFiles, DeleteDataset, UndoFails, Ends,
           HistoryUnchanged, runVars, icatVars
  <2>8. stored' \in [Jobs -> SUBSET Files]
    BY DEF ProjectTypeOK, Files, DeleteFiles, DeleteDataset, UndoFails, Ends,
           HistoryUnchanged, runVars, icatVars
  <2>9. /\ complete' \subseteq there' /\ there' \subseteq Jobs
        /\ job' \cup cut' \cup dead' \cup abandoned' \cup unheard' \subseteq Jobs
    BY DEF ProjectTypeOK, Known, DeleteFiles, DeleteDataset, UndoFails, Ends,
           HistoryUnchanged, runVars, icatVars
  <2>10. /\ \A k \in there' : name'[k] # "unknown"
         /\ \A k, l \in there' : k # l => name'[k] # name'[l]
    BY DEF ProjectTypeOK, Known, DeleteFiles, DeleteDataset, UndoFails, Ends,
           HistoryUnchanged, runVars, icatVars
  <2>11. QED
    BY <2>1, <2>2, <2>3, <2>4, <2>5, <2>6, <2>7, <2>8, <2>9, <2>10 DEF ProjectTypeOK
<1>2. ThreadsInv'
  BY DEF ProjectTypeOK, ThreadsInv, DeleteFiles, DeleteDataset, UndoFails, Ends,
         HistoryUnchanged, runVars, icatVars
<1>3. ASSUME NEW k \in Jobs PROVE Known(k)'
  BY DEF ProjectTypeOK, Known, Active, Preparing, Storing, DeleteFiles, DeleteDataset,
         UndoFails, Ends, HistoryUnchanged, runVars, icatVars
<1>4. QED
  BY <1>1, <1>2, <1>3

(* The job is killed. *)
LEMMA KillKeeps ==
  ASSUME PInv, NEW j \in Jobs,
         Kill(j)
  PROVE  PInv'
<1>. USE ProjectAssumption DEF PInv
<1>1. ProjectTypeOK'
  <2>1. pc' \in [Jobs -> {"queued", "ended"} \cup Active]
    BY DEF ProjectTypeOK, Active, Preparing, Storing, Kill, Ends, Each, icatVars
  <2>2. result' \in [Jobs -> {"none", "stored", "exists", "failed", "undone"}]
    BY DEF ProjectTypeOK, Kill, Ends, Each, icatVars
  <2>3. left' \in [Jobs -> [Streams -> 0..Lines]]
    BY DEF ProjectTypeOK, Kill, Ends, Each, icatVars
  <2>4. pipe' \in [Jobs -> [Streams -> 0..PipeSize]]
    BY DEF ProjectTypeOK, Kill, Ends, Each, icatVars
  <2>5. tee' \in [Jobs -> [Streams -> {"off", "on", "done", "dead"}]]
    BY DEF ProjectTypeOK, Kill, Ends, Each, icatVars
  <2>6. quincy' \in [Jobs -> {"off", "on", "ok", "bad"}]
    BY DEF ProjectTypeOK, Kill, Ends, Each, icatVars
  <2>7. name' \in [Jobs -> Names \cup {"unknown"}]
    BY DEF ProjectTypeOK, Kill, Ends, Each, icatVars
  <2>8. stored' \in [Jobs -> SUBSET Files]
    BY DEF ProjectTypeOK, Files, Kill, Ends, Each, icatVars
  <2>9. /\ complete' \subseteq there' /\ there' \subseteq Jobs
        /\ job' \cup cut' \cup dead' \cup abandoned' \cup unheard' \subseteq Jobs
    BY DEF ProjectTypeOK, Known, Kill, Ends, Each, icatVars
  <2>10. /\ \A k \in there' : name'[k] # "unknown"
         /\ \A k, l \in there' : k # l => name'[k] # name'[l]
    BY DEF ProjectTypeOK, Known, Kill, Ends, Each, icatVars
  <2>11. QED
    BY <2>1, <2>2, <2>3, <2>4, <2>5, <2>6, <2>7, <2>8, <2>9, <2>10 DEF ProjectTypeOK
<1>2. ThreadsInv'
  BY DEF ProjectTypeOK, ThreadsInv, Kill, Ends, Each, icatVars
<1>3. ASSUME NEW k \in Jobs PROVE Known(k)'
  BY DEF ProjectTypeOK, Known, Active, Preparing, Storing, Kill, Ends, Each, icatVars
<1>4. QED
  BY <1>1, <1>2, <1>3

(* The initial states satisfy the invariant, *)
LEMMA InitPInv == ProjectInit => PInv
  BY ProjectAssumption
  DEF ProjectInit, PInv, ProjectTypeOK, ThreadsInv, Known, Each, Active, Preparing,
      Storing

(* and every step keeps it. *)
LEMMA NextPInv == PInv /\ [ProjectNext]_projectVars => PInv'
<1>. SUFFICES ASSUME PInv, [ProjectNext]_projectVars PROVE PInv'
  OBVIOUS
<1>1. ASSUME NEW j \in Jobs, Step(j) \/ QuincyFails(j) \/ Kill(j) PROVE PInv'
  BY <1>1, ProceedKeeps, FailsKeeps, StartKeeps, QuincyKeeps, PrintKeeps, TeeKeeps, ParseKeeps,
     CreateKeeps, WriteKeeps, CompleteKeeps, UndoKeeps, KillKeeps
  DEF Step, Main, Process, Tee
<1>2. CASE UNCHANGED projectVars
  BY <1>2 DEF projectVars, runVars, icatVars, PInv, ProjectTypeOK, ThreadsInv, Known,
              Active,
              Preparing, Storing
<1>3. QED
  BY <1>1, <1>2 DEF ProjectNext

(* The invariant holds in every reachable state. *)
THEOREM InvariantHolds == ProjectSpec => []PInv
  BY InitPInv, NextPInv, PTL DEF ProjectSpec

(* Every variable keeps its type, and no two datasets have the same name. *)
THEOREM TypeCorrect == ProjectSpec => []ProjectTypeOK
<1>1. PInv => ProjectTypeOK
  BY DEF PInv
<1>2. QED
  BY <1>1, InvariantHolds, PTL

(* A project that is marked complete has all its files and the whole log,  *)
(* but for undos that were cut off and threads that died.                  *)
THEOREM CompletesAreWhole == ProjectSpec => []CompleteIsWhole
<1>1. PInv => CompleteIsWhole
  BY DEF PInv, ProjectTypeOK, ThreadsInv, Known, CompleteIsWhole
<1>2. QED
  BY <1>1, InvariantHolds, PTL

(* A script that ends leaves a complete project or nothing, but for those  *)
(* that were killed, failed to undo or missed an answer.                   *)
THEOREM PartialsAreAbandoned == ProjectSpec => []PartialIsAbandoned
<1>1. PInv => PartialIsAbandoned
  BY DEF PInv, ProjectTypeOK, Known, PartialIsAbandoned
<1>2. QED
  BY <1>1, InvariantHolds, PTL

(* Provenance refers to complete projects. *)
THEOREM ProvenanceKept == ProjectSpec => []ProvenanceHolds
<1>1. PInv => ProvenanceHolds
  BY DEF PInv, Known, ProvenanceHolds
<1>2. QED
  BY <1>1, InvariantHolds, PTL
-----------------------------------------------------------------------------
(* Jobs end: what can be said of it without fairness.                      *)

(* Quincy, its pipes and its threads do not wait for each other. *)
LEMMA Flow ==
  ASSUME PInv, NEW j \in Jobs, pc[j] \in {"running", "joining"}
  PROVE  \/ Flows(j)
         \/ \E s \in Streams : tee[j][s] = "dead" /\ left[j][s] > 0 /\ pipe[j][s] = PipeSize
<1>. USE ProjectAssumption DEF PInv
<1>0. /\ left[j] \in [Streams -> 0..Lines] /\ pipe[j] \in [Streams -> 0..PipeSize]
      /\ tee[j] \in [Streams -> {"off", "on", "done", "dead"}]
      /\ \A s \in Streams : tee[j][s] # "off"
      /\ \A s \in Streams : tee[j][s] = "done" => quincy[j] \in {"ok", "bad"}
      /\ quincy[j] \in {"on", "ok", "bad"} /\ (pc[j] = "joining" => quincy[j] # "on")
  BY DEF ProjectTypeOK, ThreadsInv
<1>1. CASE quincy[j] # "on"
  <2>1. CASE \E s \in Streams : tee[j][s] = "on"
    BY <1>0, <1>1, <2>1 DEF Flows
  <2>2. CASE \A s \in Streams : tee[j][s] # "on"
    BY <1>0, <1>1, <2>2 DEF Flows
  <2>3. QED
    BY <2>1, <2>2
<1>2. CASE quincy[j] = "on" /\ left[j] = Each(0)
  BY <1>2 DEF Flows
<1>3. CASE quincy[j] = "on" /\ left[j] # Each(0)
  <2>1. PICK s \in Streams : left[j][s] > 0
    <3>1. \E s \in Streams : left[j][s] # 0
      BY <1>0, <1>3 DEF Each
    <3>2. QED
      BY <1>0, <3>1
  <2>2. CASE pipe[j][s] < PipeSize
    BY <1>3, <2>1, <2>2 DEF Flows
  <2>3. CASE ~(pipe[j][s] < PipeSize)
    <3>1. pipe[j][s] = PipeSize /\ pipe[j][s] > 0
      BY <1>0, <2>3
    <3>2. tee[j][s] \in {"on", "dead"}
      BY <1>0, <1>3
    <3>3. QED
      BY <2>1, <3>1, <3>2 DEF Flows
  <2>4. QED
    BY <2>2, <2>3
<1>4. QED
  BY <1>1, <1>2, <1>3

(* A job is never stuck but for the pipe of a thread that died, however    *)
(* much quincy prints and however small its pipes are.                     *)
THEOREM JobsNeverStuck == ProjectSpec => []NeverStuck
<1>1. PInv => NeverStuck
  BY Flow DEF NeverStuck
<1>2. QED
  BY <1>1, InvariantHolds, PTL

(* The script goes on to a later stage. *)
LEMMA LaterStage ==
  ASSUME PInv, NEW j \in Jobs,
         \/ Accept(j) \/ AcceptNew(j) \/ OpenSession(j) \/ GetDataset(j) \/ GetDependencies(j)
         \/ DownloadNew(j) \/ DependenciesNew(j) \/ Fails(j) \/ StartQuincy(j) \/ Wait(j)
         \/ Join(j) \/ Parse(j) \/ ParseFails(j) \/ Prepare(j) \/ Create(j) \/ CreateUnheard(j)
         \/ AlreadyExists(j) \/ AlreadyExistsNew(j) \/ SetComplete(j) \/ WriteFails(j)
         \/ DeleteDataset(j) \/ UndoFails(j) \/ StoreProvenance(j) \/ Kill(j)
  PROVE  Stage[pc[j]] < Stage[pc'[j]]
<1>1. pc \in [Jobs -> {"queued", "ended"} \cup Active]
  BY DEF PInv, ProjectTypeOK
<1>2. CASE \E how : Ends(j, how) /\ pc[j] # "ended"
  <2>1. pc'[j] = "ended" /\ pc[j] \in Active \cup {"queued"}
    BY <1>1, <1>2 DEF Ends
  <2>2. QED
    BY <2>1 DEF Active, Preparing, Storing, Stage
<1>3. CASE \/ Accept(j) \/ AcceptNew(j) \/ OpenSession(j) \/ GetDataset(j) \/ GetDependencies(j)
           \/ DownloadNew(j) \/ DependenciesNew(j) \/ StartQuincy(j) \/ Wait(j) \/ Join(j)
  BY <1>1, <1>3 DEF Accept, AcceptNew, OpenSession, GetDataset, GetDependencies, DownloadNew,
                    DependenciesNew, StartQuincy, Wait, Join, Go, Stage
<1>4. CASE Parse(j) \/ Prepare(j) \/ Create(j) \/ SetComplete(j) \/ WriteFails(j)
  BY <1>1, <1>4 DEF Parse, Prepare, Create, SetComplete, WriteFails, Go, Stage
<1>5. CASE \/ Fails(j) \/ ParseFails(j) \/ CreateUnheard(j) \/ AlreadyExists(j)
           \/ AlreadyExistsNew(j) \/ DeleteDataset(j) \/ UndoFails(j) \/ StoreProvenance(j)
           \/ Kill(j)
  BY <1>2, <1>5 DEF Fails, ParseFails, CreateUnheard, AlreadyExists, AlreadyExistsNew,
                    DeleteDataset, UndoFails, StoreProvenance, Kill, Active, Preparing, Storing
<1>6. QED
  BY <1>3, <1>4, <1>5

(* Quincy and its threads have less left to do. *)
LEMMA LessWork ==
  ASSUME PInv, NEW j \in Jobs,
         \/ ExitQuincy(j) \/ QuincyFails(j)
         \/ \E s \in Streams : PrintLine(j, s) \/ TeeLine(j, s) \/ TeeEnds(j, s) \/ TeeDies(j, s)
  PROVE  Work(j)' < Work(j)
<1>. DEFINE On(x) == IF x = "on" THEN 1 ELSE 0
<1>0. /\ left \in [Jobs -> [Streams -> 0..Lines]] /\ Lines \in Nat
      /\ pipe \in [Jobs -> [Streams -> 0..PipeSize]] /\ PipeSize \in Nat
      /\ tee \in [Jobs -> [Streams -> {"off", "on", "done", "dead"}]]
      /\ quincy \in [Jobs -> {"off", "on", "ok", "bad"}]
  BY ProjectAssumption DEF PInv, ProjectTypeOK
<1>1. \A s \in Streams : Load(j, s) \in Nat
  BY <1>0 DEF Load
<1>2. ASSUME NEW s \in Streams, Load(j, s)' \in Nat, Load(j, s)' < Load(j, s),
             \A r \in Streams \ {s} : Load(j, r)' = Load(j, r), quincy' = quincy
      PROVE  Work(j)' < Work(j)
  <2>1. CASE s = "stdout"
    BY <1>1, <1>2, <2>1 DEF Work, Streams
  <2>2. CASE s = "stderr"
    BY <1>1, <1>2, <2>2 DEF Work, Streams
  <2>3. QED
    BY <2>1, <2>2 DEF Streams
<1>3. ASSUME quincy[j] = "on", quincy'[j] # "on",
             \A s \in Streams : Load(j, s)' \in Nat /\ Load(j, s)' <= Load(j, s)
      PROVE  Work(j)' < Work(j)
  <2>1. /\ Load(j, "stdout")' \in Nat /\ Load(j, "stdout")' <= Load(j, "stdout")
        /\ Load(j, "stderr")' \in Nat /\ Load(j, "stderr")' <= Load(j, "stderr")
        /\ Load(j, "stdout") \in Nat /\ Load(j, "stderr") \in Nat
    BY <1>1, <1>3 DEF Streams
  <2>2. QED
    BY <1>3, <2>1 DEF Work
<1>4. CASE ExitQuincy(j)
  BY <1>0, <1>1, <1>3, <1>4 DEF ExitQuincy, Load
<1>5. CASE QuincyFails(j)
  <2>1. /\ quincy[j] = "on" /\ quincy'[j] # "on" /\ pipe' = pipe /\ tee' = tee
        /\ \A s \in Streams : left'[j][s] = 0
    BY <1>0, <1>5 DEF QuincyFails, Each
  <2>2. \A s \in Streams : Load(j, s)' \in Nat /\ Load(j, s)' <= Load(j, s)
    BY <1>0, <2>1 DEF Load
  <2>3. QED
    BY <1>3, <2>1, <2>2
<1>6. ASSUME NEW s \in Streams, PrintLine(j, s) PROVE Work(j)' < Work(j)
  <2>1. /\ left'[j][s] = left[j][s] - 1 /\ pipe'[j][s] = pipe[j][s] + 1 /\ left[j][s] > 0
        /\ tee' = tee /\ quincy' = quincy
        /\ \A r \in Streams \ {s} : left'[j][r] = left[j][r] /\ pipe'[j][r] = pipe[j][r]
    BY <1>0, <1>6 DEF PrintLine
  <2>2. Load(j, s)' \in Nat /\ Load(j, s)' < Load(j, s)
    BY <1>0, <2>1 DEF Load
  <2>3. QED
    BY <1>2, <2>1, <2>2 DEF Load
<1>7. ASSUME NEW s \in Streams, TeeLine(j, s) \/ TeeEnds(j, s) \/ TeeDies(j, s)
      PROVE  Work(j)' < Work(j)
  <2>1. /\ left' = left /\ quincy' = quincy
        /\ \A r \in Streams \ {s} : pipe'[j][r] = pipe[j][r] /\ tee'[j][r] = tee[j][r]
    BY <1>0, <1>7 DEF TeeLine, TeeEnds, TeeDies
  <2>2. CASE TeeLine(j, s)
    <3>1. pipe'[j][s] = pipe[j][s] - 1 /\ pipe[j][s] > 0 /\ tee' = tee
      BY <1>0, <2>2 DEF TeeLine
    <3>2. Load(j, s)' \in Nat /\ Load(j, s)' < Load(j, s)
      BY <1>0, <2>1, <3>1 DEF Load
    <3>3. QED
      BY <1>2, <2>1, <3>2 DEF Load
  <2>3. CASE TeeEnds(j, s)
    <3>1. pipe' = pipe /\ tee[j][s] = "on" /\ tee'[j][s] = "done"
      BY <1>0, <2>3 DEF TeeEnds
    <3>2. Load(j, s)' \in Nat /\ Load(j, s)' < Load(j, s)
      BY <1>0, <2>1, <3>1 DEF Load
    <3>3. QED
      BY <1>2, <2>1, <3>2 DEF Load
  <2>4. CASE TeeDies(j, s)
    <3>1. pipe'[j][s] = pipe[j][s] - 1 /\ pipe[j][s] > 0 /\ tee[j][s] = "on" /\ tee'[j][s] = "dead"
      BY <1>0, <2>4 DEF TeeDies
    <3>2. Load(j, s)' \in Nat /\ Load(j, s)' < Load(j, s)
      BY <1>0, <2>1, <3>1 DEF Load
    <3>3. QED
      BY <1>2, <2>1, <3>2 DEF Load
  <2>5. QED
    BY <1>7, <2>2, <2>3, <2>4
<1>8. QED
  BY <1>4, <1>5, <1>6, <1>7

(* Every step of a job brings it nearer to its end and leaves the others.  *)
LEMMA LeadOn ==
  ASSUME PInv, NEW j \in Jobs, Step(j) \/ QuincyFails(j) \/ Kill(j)
  PROVE  /\ Progress(j)
         /\ \A k \in Jobs \ {j} :
               UNCHANGED <<pc[k], left[k], pipe[k], tee[k], quincy[k], stored[k]>>
<1>. USE DEF PInv, ProjectTypeOK
<1>1. \A k \in Jobs \ {j} :
         UNCHANGED <<pc[k], left[k], pipe[k], tee[k], quincy[k], stored[k]>>
  BY DEF Step, Main, Process, Tee, Accept, AcceptNew, OpenSession, GetDataset, GetDependencies,
         DownloadNew, DependenciesNew, Fails, StartQuincy, Wait, Join, Parse, ParseFails, Prepare,
         Create, CreateUnheard, AlreadyExists, AlreadyExistsNew, SetComplete, WriteFails,
         DeleteFiles, DeleteDataset, UndoFails, StoreProvenance, Kill, WriteListed, WriteOther,
         PutFile, ExitQuincy, QuincyFails, PrintLine, TeeLine, TeeEnds, TeeDies, ProcessOnly,
         Proceed, Go, Ends, runVars, icatVars
<1>2. ASSUME \/ ExitQuincy(j) \/ QuincyFails(j)
             \/ \E s \in Streams : PrintLine(j, s) \/ TeeLine(j, s) \/ TeeEnds(j, s) \/ TeeDies(j, s)
      PROVE  Progress(j)
  <2>1. UNCHANGED <<pc, stored>>
    BY <1>2 DEF ExitQuincy, QuincyFails, PrintLine, TeeLine, TeeEnds, TeeDies, ProcessOnly,
                icatVars
  <2>2. QED
    BY <1>2, <2>1, LessWork DEF Progress
<1>3. ASSUME WriteListed(j) \/ WriteOther(j) PROVE Progress(j)
  <2>1. PICK f \in Files : f \notin stored[j] /\ PutFile(j, f) /\ pc[j] = "writing"
    BY <1>3 DEF WriteListed, WriteOther, Files
  <2>2. QED
    BY <2>1 DEF PutFile, Progress
<1>4. ASSUME DeleteFiles(j) PROVE Progress(j)
  BY <1>4 DEF DeleteFiles, Progress
<1>5. ASSUME \/ Accept(j) \/ AcceptNew(j) \/ OpenSession(j) \/ GetDataset(j) \/ GetDependencies(j)
             \/ DownloadNew(j) \/ DependenciesNew(j) \/ Fails(j) \/ StartQuincy(j) \/ Wait(j)
             \/ Join(j) \/ Parse(j) \/ ParseFails(j) \/ Prepare(j) \/ Create(j) \/ CreateUnheard(j)
             \/ AlreadyExists(j) \/ AlreadyExistsNew(j) \/ SetComplete(j) \/ WriteFails(j)
             \/ DeleteDataset(j) \/ UndoFails(j) \/ StoreProvenance(j) \/ Kill(j)
      PROVE  Progress(j)
  BY <1>5, LaterStage DEF Progress
<1>6. QED
  BY <1>1, <1>2, <1>3, <1>4, <1>5 DEF Step, Main, Process, Tee

(* No step of a job is taken back or repeated, for any number of lines,    *)
(* any pipes and any failures.                                             *)
THEOREM JobsLeadOn == ProjectSpec => StepsLeadOn
<1>. DEFINE LeadsOn ==
       \A j \in Jobs :
          \/ UNCHANGED <<pc[j], left[j], pipe[j], tee[j], quincy[j], stored[j]>>
          \/ Progress(j)
<1>1. PInv /\ [ProjectNext]_projectVars => [LeadsOn]_projectVars
  <2>. SUFFICES ASSUME PInv, ProjectNext PROVE LeadsOn
    OBVIOUS
  <2>1. PICK j \in Jobs : Step(j) \/ QuincyFails(j) \/ Kill(j)
    BY DEF ProjectNext
  <2>2. QED
    BY <2>1, LeadOn
<1>2. QED
  BY <1>1, InvariantHolds, PTL DEF ProjectSpec, StepsLeadOn
-----------------------------------------------------------------------------
(* Readers see the project of one job go one step on. *)
StoreMoves(i) ==
    \/ Project(i)' = Project(i) /\ UNCHANGED unheard
    \/ Project(i) = "absent" /\ Project(i)' = "partial" /\ UNCHANGED unheard
    \/ Project(i) = "partial" /\ Project(i)' \in {"whole", "removed"} /\ UNCHANGED unheard
    \/ Project(i) = "partial" /\ Project(i)' = "whole" /\ unheard' = unheard \cup {i}
    \/ i \in unheard /\ Project(i) = "whole" /\ Project(i)' = "partial" /\ UNCHANGED unheard

LEMMA OneProject ==
  ASSUME NEW i \in Jobs, \A k \in Jobs \ {i} : Project(k)' = Project(k), StoreMoves(i)
  PROVE  [Store!StoreNext]_(Store!storeVars)
<1>1. CASE Project(i)' = Project(i) /\ UNCHANGED unheard
  BY <1>1 DEF Store!storeVars
<1>2. ASSUME NEW x, NEW y, Project(i) = x, Project(i)' = y PROVE Store!Becomes(i, x, y)
  BY <1>2 DEF Store!Becomes
<1>3. QED
  BY <1>1, <1>2
  DEF StoreMoves, Store!StoreNext, Store!Build, Store!Finish, Store!FinishUnheard,
      Store!Spoil, Store!Remove

(* Every step is one of ProjectStore, or none. *)
LEMMA StoreStep ==
  PInv /\ [ProjectNext]_projectVars => [Store!StoreNext]_(Store!storeVars)
<1>. SUFFICES ASSUME PInv, [ProjectNext]_projectVars
              PROVE  [Store!StoreNext]_(Store!storeVars)
  OBVIOUS
<1>. USE DEF PInv
<1>1. ASSUME NEW j \in Jobs, Step(j) \/ QuincyFails(j) \/ Kill(j)
      PROVE  /\ \A k \in Jobs \ {j} : Project(k)' = Project(k)
             /\ StoreMoves(j)
  <2>. USE DEF StoreMoves
  <2>1. CASE \/ Accept(j) \/ AcceptNew(j) \/ OpenSession(j) \/ GetDataset(j) \/ GetDependencies(j)
             \/ DownloadNew(j) \/ DependenciesNew(j) \/ Wait(j) \/ Join(j) \/ Prepare(j)
             \/ StartQuincy(j) \/ Parse(j)
    <3>1. UNCHANGED <<icatVars, result, unheard>>
      BY <2>1 DEF Accept, AcceptNew, OpenSession, GetDataset, GetDependencies,
                  DownloadNew,
           DependenciesNew, Wait, Join, Prepare, StartQuincy, Parse, Go, Proceed,
           HistoryUnchanged
    <3>2. QED
      BY <3>1 DEF ProjectTypeOK, Project, icatVars
  <2>2. CASE \/ ExitQuincy(j) \/ QuincyFails(j)
             \/ \E s \in Streams : PrintLine(j, s) \/ TeeLine(j, s) \/ TeeEnds(j, s) \/ TeeDies(j, s)
    <3>1. UNCHANGED <<icatVars, result, unheard>>
      BY <2>2 DEF ExitQuincy, QuincyFails, PrintLine, TeeLine, TeeEnds, TeeDies,
                  ProcessOnly
    <3>2. QED
      BY <3>1 DEF Project, icatVars
  <2>3. CASE \/ Fails(j) \/ ParseFails(j) \/ AlreadyExists(j) \/ AlreadyExistsNew(j)
             \/ StoreProvenance(j)
    <3>1. /\ UNCHANGED <<there, complete, stored, unheard>> /\ pc[j] # "ended"
          /\ \E x : x # "undone" /\ result' = [result EXCEPT ![j] = x]
      BY <2>3 DEF Fails, ParseFails, AlreadyExists, AlreadyExistsNew, StoreProvenance,
                  Ends, HistoryUnchanged,
           icatVars, Active, Preparing, Storing
    <3>2. result[j] = "none"
      BY <3>1 DEF Known
    <3>3. QED
      BY <3>1, <3>2 DEF ProjectTypeOK, Project
  <2>4. CASE Create(j) \/ CreateUnheard(j)
    <3>1. pc[j] = "prepared" /\ result[j] = "none" /\ j \notin there /\ j \notin complete
      BY <2>4 DEF Create, CreateUnheard, Go, Known, ProjectTypeOK
    <3>2. QED
      BY <2>4, <3>1 DEF Create, CreateUnheard, Go, Ends, HistoryUnchanged, ProjectTypeOK, Project
  <2>5. CASE WriteListed(j) \/ WriteOther(j)
    <3>1. pc[j] = "writing" /\ j \notin complete
      BY <2>5 DEF WriteListed, WriteOther, Known
    <3>2. PICK f \in Files : PutFile(j, f)
      BY <2>5 DEF WriteListed, WriteOther, Files
    <3>3. QED
      BY <3>1, <3>2 DEF PutFile, HistoryUnchanged, ProjectTypeOK, Project
  <2>6. CASE SetComplete(j) \/ WriteFails(j)
    <3>1. pc[j] = "writing" /\ j \notin complete /\ j \in there
      BY <2>6 DEF SetComplete, WriteFails, Go, Known
    <3>2. QED
      BY <2>6, <3>1 DEF SetComplete, WriteFails, Go, HistoryUnchanged, ProjectTypeOK, Project
  <2>7. CASE DeleteFiles(j) \/ DeleteDataset(j) \/ UndoFails(j)
    <3>1. j \in there /\ (j \in complete => j \in unheard)
      BY <2>7 DEF DeleteFiles, DeleteDataset, UndoFails, Known
    <3>2. Files # {}
      BY ProjectAssumption DEF Files
    <3>3. QED
      BY <2>7, <3>1, <3>2
      DEF DeleteFiles, DeleteDataset, UndoFails, Ends, HistoryUnchanged, ProjectTypeOK,
          Project, icatVars
  <2>8. CASE Kill(j)
    <3>1. result[j] = "none"
      BY <2>8 DEF Kill, Known, Active, Preparing, Storing
    <3>2. QED
      BY <2>8, <3>1 DEF Kill, Ends, ProjectTypeOK, Project, icatVars
  <2>9. QED
    BY <1>1, <2>1, <2>2, <2>3, <2>4, <2>5, <2>6, <2>7, <2>8 DEF Step, Main, Process, Tee
<1>2. CASE UNCHANGED projectVars
  BY <1>2 DEF projectVars, icatVars, Project, Store!storeVars
<1>3. QED
  BY <1>1, <1>2, OneProject DEF ProjectNext

(* ProjectJobs implements ProjectStore: readers see a project built once,  *)
(* and kept once it is whole, unless its script missed that it is.         *)
THEOREM StoreImplemented == ProjectSpec => ImplementsStore
<1>1. ProjectInit => Store!StoreInit
  BY DEF ProjectInit, Store!StoreInit, Project
<1>2. QED
  BY <1>1, StoreStep, InvariantHolds, PTL
    DEF ProjectSpec, ImplementsStore, Store!StoreSpec
=============================================================================
