------------------------- MODULE IngestDaemonProofs -------------------------
(***************************************************************************)
(* Proofs about IngestDaemon for every set of triggers, dependencies, jobs *)
(* and daemons and every set of events.  DInv, with the types, is          *)
(* inductive.  The steps of a job, of Kill and of Forgotten have lemmas of *)
(* their own, which the steps of a daemon rest on.                         *)
(***************************************************************************)
EXTENDS IngestDaemon, TLAPS

(* The part of DInv that speaks of jobs and datasets only. *)
JobInv ==
    /\ IngestTypeOK
    /\ OneWriter
    /\ OnlyDirectoriesUndone
    /\ CheckHolds
    /\ QuietIsSettled
    /\ DependenciesExist

(* What a step of a job may do, as the daemons see it. *)
JobStep(K) ==
    /\ input' = input
    /\ \A j \in Jobs \ K : jpc'[j] = jpc[j]
    /\ \A j \in Jobs : jpc[j] = "none" <=> jpc'[j] = "none"
    /\ \A j \in Jobs : jpc[j] = "ended" => jpc'[j] = "ended"

SettledStays == \A t \in Triggers : Settled(t) => Settled(t)'

(* A simple dependency refers to nothing. *)
LEMMA SimpleHasNoDeps == \A t \in Simple : DepsOf(t) = {}
  BY IngestAssumption DEF DepsOf

(* What an input refers to is an input itself. *)
LEMMA DepsAreSimple ==
  \A t \in Triggers : DepsOf(t) \subseteq Simple /\ DepsOf(t) \subseteq Triggers
  BY IngestAssumption DEF DepsOf

(* A job does not touch a dataset that is settled. *)
LEMMA IngestSettles ==
  ASSUME JobInv, NEW j \in Jobs, Ingest(j)
  PROVE  SettledStays
<1>. USE IngestAssumption DEF JobInv, IngestTypeOK, SettledStays, Settled, Running
<1>1. CASE StartJob(j)
  BY <1>1 DEF StartJob
<1>2. CASE Refuse(j)
  BY <1>2 DEF Refuse
<1>3. CASE CheckDependencies(j)
  BY <1>3 DEF CheckDependencies
<1>4. CASE DependencyMissing(j)
  BY <1>4 DEF DependencyMissing
<1>5. CASE Create(j)
  BY <1>5 DEF Create
<1>6. CASE AlreadyExists(j)
  BY <1>6 DEF AlreadyExists
<1>7. CASE Complete(j)
  BY <1>7 DEF Complete, Go, OneWriter
<1>8. CASE WriteFails(j)
  BY <1>8 DEF WriteFails, OneWriter, EndsWithError
<1>9. CASE Undo(j)
  BY <1>9 DEF Undo, OneWriter
<1>10. CASE StoreProvenance(j)
  BY <1>10 DEF StoreProvenance
<1>11. CASE ProvenanceFails(j)
  BY <1>11 DEF ProvenanceFails
<1>12. QED
  BY <1>1, <1>2, <1>3, <1>4, <1>5, <1>6, <1>7, <1>8, <1>9, <1>10, <1>11 DEF Ingest

(* The steps of a job keep JobInv. *)
LEMMA IngestKeepsJobInv ==
  ASSUME JobInv, NEW j \in Jobs, Ingest(j)
  PROVE  JobInv' /\ JobStep({j})
<1>. USE IngestAssumption DEF JobInv, IngestTypeOK, Running
<1>s. SettledStays
  BY IngestSettles
<1>1. CASE StartJob(j)
  <2>. USE <1>1 DEF StartJob, Go
  <2>1. IngestTypeOK' /\ JobStep({j})
    BY DEF JobStep
  <2>2. OneWriter' /\ OnlyDirectoriesUndone' /\ CheckHolds'
    BY DEF OneWriter, OnlyDirectoriesUndone, CheckHolds, DepsOf
  <2>3. QuietIsSettled'
    BY <1>s DEF QuietIsSettled, SettledStays, Settled
  <2>4. DependenciesExist'
    BY DEF DependenciesExist, DepsOf
  <2>5. QED
    BY <2>1, <2>2, <2>3, <2>4
<1>2. CASE Refuse(j) \/ DependencyMissing(j) \/ ProvenanceFails(j)
  <2>. USE <1>2 DEF Refuse, DependencyMissing, ProvenanceFails, EndsWithError
  <2>1. IngestTypeOK' /\ JobStep({j})
    BY DEF JobStep
  <2>2. OneWriter' /\ OnlyDirectoriesUndone' /\ CheckHolds'
    BY DEF OneWriter, OnlyDirectoriesUndone, CheckHolds, DepsOf
  <2>3. QuietIsSettled'
    BY <1>s DEF QuietIsSettled, SettledStays, Settled
  <2>4. DependenciesExist'
    BY DEF DependenciesExist, DepsOf
  <2>5. QED
    BY <2>1, <2>2, <2>3, <2>4
<1>3. CASE CheckDependencies(j)
  <2>. USE <1>3 DEF CheckDependencies, Go
  <2>1. IngestTypeOK' /\ JobStep({j})
    BY DEF JobStep
  <2>2. OneWriter' /\ OnlyDirectoriesUndone' /\ CheckHolds'
    BY DEF OneWriter, OnlyDirectoriesUndone, CheckHolds, DepsOf
  <2>3. QuietIsSettled'
    BY <1>s DEF QuietIsSettled, SettledStays, Settled
  <2>4. DependenciesExist'
    BY DEF DependenciesExist, DepsOf
  <2>5. QED
    BY <2>1, <2>2, <2>3, <2>4
<1>4. CASE Create(j)
  <2>. USE <1>4 DEF Create, AtCreate
  <2>0. input[j] \in Triggers
    OBVIOUS
  <2>1. IngestTypeOK' /\ JobStep({j})
    BY <2>0 DEF JobStep
  <2>2. OneWriter' /\ OnlyDirectoriesUndone'
    BY <2>0 DEF OneWriter, OnlyDirectoriesUndone
  <2>3. \A d \in DepsOf(input[j]) : dataset[d] # "absent"
    BY SimpleHasNoDeps DEF CheckHolds
  <2>4. \A t \in Triggers : dataset[t] # "absent" => dataset'[t] # "absent"
    BY <2>0
  <2>5. CheckHolds'
    <3>1. \A k \in Jobs : jpc[k] \in {"checked", "writing"} =>
             \A d \in DepsOf(input[k]) : dataset'[d] # "absent"
      BY <2>4, DepsAreSimple DEF CheckHolds
    <3>2. \A d \in DepsOf(input[j]) : dataset'[d] # "absent"
      BY <2>0, <2>3, <2>4, DepsAreSimple
    <3>3. QED
      BY <3>1, <3>2 DEF CheckHolds, DepsOf
  <2>6. QuietIsSettled'
    BY <1>s, <2>1 DEF QuietIsSettled, SettledStays, Settled
  <2>7. DependenciesExist'
    BY <2>0, <2>3, <2>4, DepsAreSimple DEF DependenciesExist, DepsOf
  <2>8. QED
    BY <2>1, <2>2, <2>5, <2>6, <2>7
<1>5. CASE AlreadyExists(j)
  <2>. USE <1>5 DEF AlreadyExists, AtCreate
  <2>1. IngestTypeOK' /\ JobStep({j})
    BY DEF JobStep
  <2>2. OneWriter' /\ OnlyDirectoriesUndone' /\ CheckHolds'
    BY DEF OneWriter, OnlyDirectoriesUndone, CheckHolds, DepsOf
  <2>3. QuietIsSettled'
    BY <1>s DEF QuietIsSettled, SettledStays, Settled
  <2>4. DependenciesExist'
    BY DEF DependenciesExist, DepsOf
  <2>5. QED
    BY <2>1, <2>2, <2>3, <2>4
<1>6. CASE Complete(j)
  <2>. USE <1>6 DEF Complete, Go
  <2>0. input[j] \in Triggers
    OBVIOUS
  <2>1. IngestTypeOK' /\ JobStep({j})
    BY <2>0 DEF JobStep
  <2>2. \A t \in Triggers : dataset[t] # "absent" <=> dataset'[t] # "absent"
    BY <2>0 DEF OneWriter
  <2>3. OneWriter' /\ OnlyDirectoriesUndone'
    BY <2>0 DEF OneWriter, OnlyDirectoriesUndone
  <2>4. CheckHolds'
    BY <2>2, DepsAreSimple DEF CheckHolds, DepsOf
  <2>5. QuietIsSettled'
    BY <1>s, <2>0 DEF QuietIsSettled, SettledStays, Settled
  <2>6. DependenciesExist'
    BY <2>2, DepsAreSimple DEF DependenciesExist, DepsOf
  <2>7. QED
    BY <2>1, <2>3, <2>4, <2>5, <2>6
<1>7. CASE WriteFails(j)
  <2>. USE <1>7 DEF WriteFails, EndsWithError
  <2>0. input[j] \in Triggers
    OBVIOUS
  <2>1. IngestTypeOK' /\ JobStep({j})
    BY <2>0 DEF JobStep
  <2>2. \A t \in Triggers : dataset[t] # "absent" <=> dataset'[t] # "absent"
    BY <2>0 DEF OneWriter
  <2>3. OneWriter' /\ OnlyDirectoriesUndone'
    BY <2>0, <2>2 DEF OneWriter, OnlyDirectoriesUndone
  <2>4. CheckHolds'
    BY <2>2, DepsAreSimple DEF CheckHolds, DepsOf
  <2>5. QuietIsSettled'
    BY <1>s, <2>0 DEF QuietIsSettled, SettledStays, Settled
  <2>6. DependenciesExist'
    BY <2>2, DepsAreSimple DEF DependenciesExist, DepsOf
  <2>7. QED
    BY <2>1, <2>3, <2>4, <2>5, <2>6
<1>8. CASE Undo(j)
  <2>. USE <1>8 DEF Undo, EndsWithError
  <2>0. input[j] \in Triggers /\ input[j] \notin Simple
    BY DEF OnlyDirectoriesUndone
  <2>1. IngestTypeOK' /\ JobStep({j})
    BY <2>0 DEF JobStep
  <2>2. /\ \A t \in Simple : dataset'[t] = dataset[t]
        /\ \A t \in Triggers : dataset[t] = "absent" => dataset'[t] = "absent"
    BY <2>0 DEF OneWriter
  <2>3. OneWriter' /\ OnlyDirectoriesUndone'
    BY <2>0 DEF OneWriter, OnlyDirectoriesUndone
  <2>4. CheckHolds'
    BY <2>2, DepsAreSimple DEF CheckHolds, DepsOf
  <2>5. QuietIsSettled'
    BY <1>s, <2>0 DEF QuietIsSettled, SettledStays, Settled
  <2>6. DependenciesExist'
    BY <2>2, DepsAreSimple DEF DependenciesExist, DepsOf
  <2>7. QED
    BY <2>1, <2>3, <2>4, <2>5, <2>6
<1>9. CASE StoreProvenance(j)
  <2>. USE <1>9 DEF StoreProvenance, Go
  <2>1. IngestTypeOK' /\ JobStep({j})
    BY DEF JobStep
  <2>2. OneWriter' /\ OnlyDirectoriesUndone' /\ CheckHolds'
    BY DEF OneWriter, OnlyDirectoriesUndone, CheckHolds, DepsOf
  <2>3. QuietIsSettled'
    BY <1>s DEF QuietIsSettled, SettledStays, Settled
  <2>4. DependenciesExist'
    BY DEF DependenciesExist, DepsOf
  <2>5. QED
    BY <2>1, <2>2, <2>3, <2>4
<1>10. QED
  BY <1>1, <1>2, <1>3, <1>4, <1>5, <1>6, <1>7, <1>8, <1>9 DEF Ingest

(* Kill of a job keeps JobInv and leaves settled datasets as they are. *)
LEMMA KillKeepsJobInv ==
  ASSUME JobInv, NEW j \in Jobs, Kill(j)
  PROVE  JobInv' /\ JobStep({j}) /\ SettledStays
<1>. USE IngestAssumption DEF JobInv, IngestTypeOK, Running, Kill
<1>1. SettledStays
  BY DEF SettledStays, Settled
<1>2. IngestTypeOK' /\ JobStep({j})
  BY DEF JobStep
<1>3. OneWriter' /\ OnlyDirectoriesUndone' /\ CheckHolds'
  BY DEF OneWriter, OnlyDirectoriesUndone, CheckHolds, DepsOf
<1>4. QuietIsSettled'
  BY <1>1 DEF QuietIsSettled, SettledStays, Settled
<1>5. DependenciesExist'
  BY DEF DependenciesExist, DepsOf
<1>6. QED
  BY <1>1, <1>2, <1>3, <1>4, <1>5

(* So does the deletion of an ended job. *)
LEMMA ForgottenKeepsJobInv ==
  ASSUME JobInv, NEW j \in Jobs, jpc[j] = "ended", Forgotten(j)
  PROVE  JobInv' /\ SettledStays
<1>. USE IngestAssumption DEF JobInv, IngestTypeOK, Running, Forgotten
<1>1. SettledStays
  BY DEF SettledStays, Settled
<1>2. IngestTypeOK'
  OBVIOUS
<1>3. OneWriter' /\ OnlyDirectoriesUndone' /\ CheckHolds'
  BY DEF OneWriter, OnlyDirectoriesUndone, CheckHolds, DepsOf
<1>4. QuietIsSettled'
  BY <1>1 DEF QuietIsSettled, SettledStays, Settled
<1>5. DependenciesExist'
  BY DEF DependenciesExist, DepsOf
<1>6. QED
  BY <1>1, <1>2, <1>3, <1>4, <1>5

(* So does the submission of a job. *)
LEMMA SubmitKeepsJobInv ==
  ASSUME JobInv, NEW d \in Daemons, NEW t \in Triggers, NEW j \in Jobs, Submit(d, t, j)
  PROVE  JobInv' /\ SettledStays
<1>. USE IngestAssumption DEF JobInv, IngestTypeOK, Running, Submit
<1>1. SettledStays
  BY DEF SettledStays, Settled
<1>2. IngestTypeOK'
  OBVIOUS
<1>3. OneWriter' /\ OnlyDirectoriesUndone' /\ CheckHolds'
  BY DEF OneWriter, OnlyDirectoriesUndone, CheckHolds, DepsOf
<1>4. QuietIsSettled'
  BY <1>1 DEF QuietIsSettled, SettledStays, Settled
<1>5. DependenciesExist'
  BY DEF DependenciesExist, DepsOf
<1>6. QED
  BY <1>1, <1>2, <1>3, <1>4, <1>5

(* And so does every step that leaves jobs and datasets alone. *)
LEMMA OthersKeepJobInv ==
  ASSUME JobInv, UNCHANGED ingestVars
  PROVE  JobInv' /\ JobStep({}) /\ SettledStays
  BY DEF JobInv, IngestTypeOK, OneWriter, OnlyDirectoriesUndone, CheckHolds, QuietIsSettled,
         DependenciesExist, DepsOf, Settled, SettledStays, JobStep, ingestVars, Running
-----------------------------------------------------------------------------
(* The part of DInv that speaks of daemons. *)
DaemonInv ==
    /\ TypeOK
    /\ CompletedHasEnded
    /\ JobsKnown
    /\ LooksAtOwn
    /\ DoneIsComplete

(* Steps of jobs and other steps that only look at them. *)
LEMMA DoneStays ==
  ASSUME DoneIsComplete, SettledStays, where' = where, masked' = masked
  PROVE  DoneIsComplete'
  BY DEF DoneIsComplete, SettledStays, Settled

(* A job goes on while the daemons wait. *)
LEMMA JobKeepsDaemonInv ==
  ASSUME DaemonInv, JobInv', NEW K \in SUBSET Jobs, JobStep(K), SettledStays,
         UNCHANGED <<where, shown, daemonVars, masked>>
  PROVE  DaemonInv'
<1>. USE DEF DaemonInv, TypeOK, daemonVars, JobInv
<1>1. TypeOK'
  OBVIOUS
<1>2. CompletedHasEnded'
  BY DEF CompletedHasEnded, JobStep
<1>3. JobsKnown'
  BY DEF JobsKnown, Pending, JobStep
<1>4. LooksAtOwn'
  BY DEF LooksAtOwn, Pending
<1>5. QED
  BY <1>1, <1>2, <1>3, <1>4, DoneStays

(* A daemon ends and forgets everything. *)
LEMMA StopKeepsDaemonInv ==
  ASSUME DaemonInv, NEW d \in Daemons, Stop(d)
  PROVE  DaemonInv'
<1>. USE IngestAssumption DEF DaemonInv, TypeOK, Stop, ingestVars
<1>1. TypeOK'
  BY DEF NoStatus, NoFailures, Loop, IngestTypeOK, Running
<1>2. CompletedHasEnded'
  BY DEF CompletedHasEnded
<1>3. JobsKnown'
  BY DEF JobsKnown, Pending, NoStatus
<1>4. LooksAtOwn'
  BY DEF LooksAtOwn, Pending
<1>5. DoneIsComplete'
  BY DEF DoneIsComplete, Settled
<1>6. QED
  BY <1>1, <1>2, <1>3, <1>4, <1>5

(* Actions of a daemon that leave jobs, and what is said of them, alone.   *)
LEMMA QuietKeepsDaemonInv ==
  ASSUME DaemonInv, NEW d \in Daemons, NEW t,
         \/ CheckPidfile(d) \/ Launch(d) \/ BeginLook(d) \/ NextRound(d) \/ Sigterm(d)
         \/ SkipTrigger(d, t) \/ SubmitFails(d, t) \/ LookAgain(d, t)
         \/ t \in Triggers /\ Age(d, t)
  PROVE  DaemonInv' /\ UNCHANGED ingestVars
<1>0. UNCHANGED <<ingestVars, shown, status, finished, masked>>
  BY DEF CheckPidfile, Launch, BeginLook, NextRound, Sigterm, SkipTrigger, SubmitFails,
         LookAgain, Age, daemonVars
<1>1. /\ dpc' \in [Daemons -> {"off", "launching"} \cup Loop]
      /\ \A e \in Daemons : dpc[e] = "delete" <=> dpc'[e] = "delete"
  <2>1. CASE UNCHANGED dpc
    BY <2>1 DEF DaemonInv, TypeOK
  <2>2. CASE \E from, to \in {"off", "launching", "submit", "look"} : Step(d, from, to)
    BY <2>2 DEF DaemonInv, TypeOK, Step, Loop
  <2>3. QED
    BY <2>1, <2>2 DEF CheckPidfile, Launch, BeginLook, NextRound, Sigterm, SkipTrigger,
         SubmitFails, LookAgain, Age, daemonVars
<1>2. /\ todo' \in [Daemons -> SUBSET Triggers]
      /\ \A e \in Daemons : dpc'[e] \in {"look", "delete"} => todo'[e] \subseteq Pending(e)
  <2>0. todo \in [Daemons -> SUBSET Triggers] /\ dpc \in [Daemons -> {"off", "launching"} \cup Loop]
        /\ \A e \in Daemons : dpc[e] \in {"look", "delete"} => todo[e] \subseteq Pending(e)
    BY DEF DaemonInv, TypeOK, LooksAtOwn
  <2>1. CASE UNCHANGED <<dpc, todo>>
    BY <2>0, <2>1
  <2>2. CASE Did(d, t) /\ UNCHANGED dpc
    BY <2>0, <2>2 DEF Did
  <2>3. CASE \/ Step(d, "look", "submit") /\ BeginRound(d)
             \/ Step(d, "launching", "submit") /\ BeginRound(d)
    BY <2>0, <2>3 DEF Step, BeginRound
  <2>4. CASE \/ Step(d, "launching", "off") /\ UNCHANGED todo
             \/ Step(d, "off", "launching") /\ UNCHANGED todo
    BY <2>0, <2>4 DEF Step
  <2>5. CASE Step(d, "submit", "look") /\ todo' = [todo EXCEPT ![d] = Pending(d)]
    BY <2>0, <2>5 DEF Step, Pending
  <2>6. QED
    BY <2>1, <2>2, <2>3, <2>4, <2>5
    DEF CheckPidfile, Launch, BeginLook, NextRound, Sigterm, SkipTrigger,
         SubmitFails, LookAgain, Age, daemonVars
<1>3. UNCHANGED where
  BY DEF CheckPidfile, Launch, BeginLook, NextRound, Sigterm, SkipTrigger, SubmitFails,
         LookAgain, Age
<1>4. failures' \in [Daemons -> [Triggers -> {"no", "fresh", "old"}]]
  <2>1. CASE UNCHANGED failures
    BY <2>1 DEF DaemonInv, TypeOK
  <2>2. CASE t \in Triggers /\ Age(d, t)
    BY <2>2 DEF DaemonInv, TypeOK, Age
  <2>3. QED
    BY <2>1, <2>2 DEF CheckPidfile, Launch, BeginLook, NextRound, Sigterm, SkipTrigger,
         SubmitFails, LookAgain
<1>5. term' \subseteq Daemons /\ pidfile' \in Daemons \cup {NoDaemon}
  BY DEF DaemonInv, TypeOK, CheckPidfile, Launch, BeginLook, NextRound, Sigterm, SkipTrigger,
         SubmitFails, LookAgain, Age, daemonVars
<1>6. IngestTypeOK'
  BY <1>0 DEF DaemonInv, TypeOK, IngestTypeOK, ingestVars, Running
<1>7. TypeOK'
  BY <1>0, <1>1, <1>2, <1>3, <1>4, <1>5, <1>6 DEF DaemonInv, TypeOK, Loop
<1>8. CompletedHasEnded'
  BY <1>0 DEF DaemonInv, CompletedHasEnded, ingestVars
<1>9. JobsKnown'
  BY <1>0, <1>1 DEF DaemonInv, JobsKnown, Pending, ingestVars
<1>10. LooksAtOwn'
  BY <1>0, <1>2 DEF LooksAtOwn, Pending
<1>11. DoneIsComplete'
  BY <1>0, <1>3 DEF DaemonInv, DoneIsComplete, Settled, ingestVars
<1>12. QED
  BY <1>0, <1>7, <1>8, <1>9, <1>10, <1>11 DEF DaemonInv

(* A trigger file arrives. *)
LEMMA ArriveKeepsDaemonInv ==
  ASSUME DaemonInv, NEW t \in Triggers, Arrive(t)
  PROVE  DaemonInv' /\ UNCHANGED ingestVars
<1>. USE DEF DaemonInv, Arrive
<1>1. TypeOK'
  BY DEF TypeOK, IngestTypeOK, Running, ingestVars, daemonVars
<1>2. CompletedHasEnded' /\ JobsKnown' /\ LooksAtOwn'
  BY DEF CompletedHasEnded, JobsKnown, LooksAtOwn, Pending, ingestVars, daemonVars
<1>3. DoneIsComplete'
  BY DEF TypeOK, DoneIsComplete, Settled, ingestVars
<1>4. QED
  BY <1>1, <1>2, <1>3

(* A daemon submits a job: its identifier was not in use. *)
LEMMA SubmitKeepsDaemonInv ==
  ASSUME DaemonInv, JobInv, NEW d \in Daemons, NEW t \in Triggers, NEW j \in Jobs, Submit(d, t, j)
  PROVE  DaemonInv'
<1>. USE IngestAssumption, DaemonAssumption
     DEF DaemonInv, TypeOK, Submit, Wanted, Did, JobInv
<1>0. JobInv' /\ SettledStays
  BY SubmitKeepsJobInv
<1>1. TypeOK'
  BY <1>0
<1>2. CompletedHasEnded'
  BY DEF CompletedHasEnded
<1>3. \A e \in Daemons, u \in Triggers : status[e][u] # j
  BY DEF JobsKnown, Pending, IngestTypeOK
<1>4. JobsKnown'
  <2>1. \A e \in Daemons : \A u \in Pending(e)' :
          /\ input'[status'[e][u]] = u
          /\ \A f \in Daemons \ {e} : status'[f][u] # status'[e][u]
    BY <1>3 DEF JobsKnown, Pending, IngestTypeOK
  <2>2. \A e \in Daemons : dpc'[e] = "delete" =>
          /\ finished'[e] \in Jobs /\ jpc'[finished'[e]] # "none"
          /\ \A f \in Daemons :
                /\ finished'[f] = finished'[e] => f = e
                /\ \A u \in Triggers : status'[f][u] # finished'[e]
    BY <1>3 DEF JobsKnown, IngestTypeOK
  <2>3. QED
    BY <2>1, <2>2 DEF JobsKnown
<1>5. LooksAtOwn'
  BY DEF LooksAtOwn, Pending
<1>6. DoneIsComplete'
  BY <1>0, DoneStays
<1>7. QED
  BY <1>1, <1>2, <1>4, <1>5, <1>6

(* A daemon collects a completed job. *)
LEMMA CollectKeepsDaemonInv ==
  ASSUME DaemonInv, JobInv, NEW d \in Daemons, NEW t \in Triggers,
         MoveToDone(d, t) \/ KeepTrigger(d, t) \/ MoveToFailures(d, t)
  PROVE  DaemonInv' /\ UNCHANGED ingestVars
<1>. DEFINE j == status[d][t]
<1>0. /\ UNCHANGED ingestVars /\ UNCHANGED <<shown, term, pidfile>>
      /\ dpc[d] = "look" /\ t \in todo[d] /\ shown[j] = "Completed"
      /\ dpc' = [dpc EXCEPT ![d] = "delete"]
      /\ todo' = [todo EXCEPT ![d] = @ \ {t}]
      /\ status' = [status EXCEPT ![d][t] = NoJob]
      /\ finished' = [finished EXCEPT ![d] = j]
  BY DEF MoveToDone, KeepTrigger, MoveToFailures, Collected, Says, Did, Step
<1>1. t \in Pending(d) /\ j \in Jobs /\ jpc[j] = "ended" /\ input[j] = t
  <2>1. t \in Pending(d)
    BY <1>0 DEF DaemonInv, LooksAtOwn
  <2>2. j \in Jobs
    BY <2>1 DEF DaemonInv, TypeOK, Pending
  <2>3. QED
    BY <1>0, <2>1, <2>2 DEF DaemonInv, CompletedHasEnded, JobsKnown
<1>2. \A e \in Daemons, u \in Triggers :
        status'[e][u] = IF e = d /\ u = t THEN NoJob ELSE status[e][u]
  BY <1>0 DEF DaemonInv, TypeOK
<1>3. \A e \in Daemons : /\ dpc'[e] = IF e = d THEN "delete" ELSE dpc[e]
                         /\ todo'[e] = IF e = d THEN todo[d] \ {t} ELSE todo[e]
                         /\ finished'[e] = IF e = d THEN j ELSE finished[e]
  BY <1>0 DEF DaemonInv, TypeOK
<1>4. TypeOK'
  <2>1. IngestTypeOK'
    BY <1>0 DEF DaemonInv, TypeOK, IngestTypeOK, ingestVars, Running
  <2>2. /\ where' \in [Triggers -> {"none", "input", "done", "failures"}]
        /\ failures' \in [Daemons -> [Triggers -> {"no", "fresh", "old"}]]
        /\ masked' \subseteq Triggers
    <3>1. CASE MoveToDone(d, t)
      BY <3>1 DEF DaemonInv, TypeOK, MoveToDone
    <3>2. CASE KeepTrigger(d, t)
      BY <3>2 DEF DaemonInv, TypeOK, KeepTrigger
    <3>3. CASE MoveToFailures(d, t)
      BY <3>3 DEF DaemonInv, TypeOK, MoveToFailures
    <3>4. QED
      BY <3>1, <3>2, <3>3
  <2>3. status' \in [Daemons -> [Triggers -> Jobs \cup {NoJob}]]
    BY <1>0 DEF DaemonInv, TypeOK
  <2>4. QED
    BY <1>0, <1>1, <2>1, <2>2, <2>3 DEF DaemonInv, TypeOK, Loop
<1>5. CompletedHasEnded'
  BY <1>0 DEF DaemonInv, CompletedHasEnded, ingestVars
<1>6. JobsKnown'
  <2>1. \A e \in Daemons : \A u \in Triggers : status'[e][u] # NoJob =>
          /\ status[e][u] # NoJob /\ status'[e][u] = status[e][u]
          /\ status'[e][u] # j
    BY <1>1, <1>2 DEF DaemonInv, JobsKnown, Pending
  <2>2. \A e \in Daemons : \A u \in Pending(e)' :
          /\ input'[status'[e][u]] = u
          /\ \A f \in Daemons \ {e} : status'[f][u] # status'[e][u]
    BY <1>0, <1>2, <2>1 DEF DaemonInv, JobsKnown, Pending, ingestVars
  <2>3. \A e \in Daemons, u \in Triggers : status'[e][u] # j
    BY <1>1, <2>1, IngestAssumption
  <2>4. \A e \in Daemons \ {d} : finished[e] # j
    BY <1>0, <1>1 DEF DaemonInv, TypeOK, JobsKnown, Pending
  <2>5. QED
    BY <1>0, <1>1, <1>2, <1>3, <2>1, <2>2, <2>3, <2>4 DEF DaemonInv, JobsKnown, ingestVars
<1>7. LooksAtOwn'
  BY <1>0, <1>2, <1>3 DEF DaemonInv, TypeOK, LooksAtOwn, Pending
<1>8. DoneIsComplete'
  <2>1. CASE MoveToDone(d, t)
    BY <2>1, <1>0, <1>1
    DEF MoveToDone, DaemonInv, TypeOK, DoneIsComplete, JobInv, QuietIsSettled, Settled, ingestVars
  <2>2. CASE KeepTrigger(d, t) \/ MoveToFailures(d, t)
    BY <2>2, <1>0
    DEF KeepTrigger, MoveToFailures, DaemonInv, TypeOK, DoneIsComplete, Settled, ingestVars
  <2>3. QED
    BY <2>1, <2>2
<1>9. QED
  BY <1>0, <1>4, <1>5, <1>6, <1>7, <1>8 DEF DaemonInv

(* A daemon cancels a job it believes to be queued. *)
LEMMA CancelKeepsDaemonInv ==
  ASSUME DaemonInv, JobInv, NEW d \in Daemons, NEW t \in Triggers, CancelJob(d, t)
  PROVE  DaemonInv' /\ JobInv'
<1>. USE IngestAssumption, DaemonAssumption
     DEF DaemonInv, TypeOK, CancelJob, Says, Did, Step
<1>. DEFINE j == status[d][t]
<1>0. t \in Pending(d) /\ j \in Jobs /\ input[j] = t
  BY DEF LooksAtOwn, JobsKnown, Pending
<1>1. JobInv' /\ (\E K \in SUBSET Jobs : JobStep(K)) /\ SettledStays
  <2>1. CASE UNCHANGED ingestVars
    BY <2>1, OthersKeepJobInv
  <2>2. CASE Kill(j)
    BY <1>0, <2>2, KillKeepsJobInv
  <2>3. QED
    BY <2>1, <2>2
<1>2. TypeOK'
  BY <1>0, <1>1 DEF JobInv, Loop
<1>3. CompletedHasEnded'
  BY <1>1 DEF CompletedHasEnded, JobStep
<1>4. JobsKnown'
  <2>0. \A e \in Daemons, u \in Triggers :
          status'[e][u] = IF e = d /\ u = t THEN NoJob ELSE status[e][u]
    OBVIOUS
  <2>1. \A e \in Daemons : \A u \in Triggers : status'[e][u] # NoJob =>
          status[e][u] # NoJob /\ status'[e][u] = status[e][u] /\ status[e][u] # j
    BY <1>0, <2>0 DEF JobsKnown, Pending
  <2>2. input' = input /\ jpc[j] # "none"
        /\ \A k \in Jobs : jpc[k] = "none" <=> jpc'[k] = "none"
    BY <1>0, <1>1 DEF JobStep, JobInv, IngestTypeOK
  <2>3. \A e \in Daemons, u \in Triggers : status'[e][u] # j
    BY <1>0, <2>1
  <2>4. \A e \in Daemons : dpc[e] = "delete" => finished[e] # j
    BY <1>0 DEF JobsKnown, Pending
  <2>5. \A e \in Daemons \ {d} : dpc'[e] = dpc[e] /\ finished'[e] = finished[e]
    OBVIOUS
  <2>6. \/ dpc'[d] = "delete" /\ finished'[d] = j
        \/ dpc'[d] = "look" /\ finished'[d] = NoJob
    BY DEF JobsKnown
  <2>7. \A e \in Daemons : \A u \in Pending(e)' :
          /\ input'[status'[e][u]] = u
          /\ \A f \in Daemons \ {e} : status'[f][u] # status'[e][u]
    BY <2>0, <2>1, <2>2 DEF JobsKnown, Pending
  <2>8. \A e \in Daemons : dpc'[e] = "delete" =>
          /\ finished'[e] \in Jobs /\ jpc'[finished'[e]] # "none"
          /\ \A f \in Daemons :
                /\ finished'[f] = finished'[e] => f = e
                /\ \A u \in Triggers : status'[f][u] # finished'[e]
    BY <1>0, <2>0, <2>2, <2>3, <2>4, <2>5, <2>6 DEF JobsKnown
  <2>9. \A e \in Daemons : dpc'[e] # "delete" => finished'[e] = NoJob
    BY <2>5, <2>6 DEF JobsKnown
  <2>. HIDE DEF DaemonInv, TypeOK, CancelJob, Says, Did, Step
  <2>10. QED
    BY <2>7, <2>8, <2>9 DEF JobsKnown
<1>5. LooksAtOwn'
  BY DEF LooksAtOwn, Pending
<1>6. DoneIsComplete'
  BY <1>1, DoneStays
<1>7. QED
  BY <1>1, <1>2, <1>3, <1>4, <1>5, <1>6

(* The other jobs stay known when one that no daemon knows is forgotten.   *)
LEMMA OthersStayKnown ==
  ASSUME TypeOK, JobsKnown, NEW j \in Jobs,
         status' = status, \A d \in Daemons, t \in Triggers : status[d][t] # j,
         \A k \in Jobs \ {j} : input'[k] = input[k] /\ jpc'[k] = jpc[k],
         \A d \in Daemons :
            \/ /\ dpc[d] = "delete" <=> dpc'[d] = "delete"
               /\ finished'[d] = finished[d] /\ finished[d] # j
            \/ dpc'[d] # "delete" /\ finished'[d] = NoJob
  PROVE  JobsKnown'
<1>1. \A d \in Daemons : \A t \in Pending(d)' :
         t \in Pending(d) /\ status'[d][t] = status[d][t] /\ status[d][t] \in Jobs \ {j}
  BY DEF TypeOK, Pending
<1>2. \A d \in Daemons : \A t \in Pending(d)' :
        /\ input'[status'[d][t]] = t
        /\ \A e \in Daemons \ {d} : status'[e][t] # status'[d][t]
  BY <1>1 DEF JobsKnown
<1>3. \A d \in Daemons : dpc'[d] = "delete" =>
        /\ dpc[d] = "delete" /\ finished'[d] = finished[d] /\ finished[d] \in Jobs \ {j}
        /\ jpc'[finished[d]] # "none"
  BY DEF JobsKnown
<1>4. \A d, e \in Daemons : dpc'[d] = "delete" /\ finished'[e] = finished'[d] => e = d
  BY <1>3, IngestAssumption DEF JobsKnown
<1>5. \A d \in Daemons : dpc'[d] # "delete" => finished'[d] = NoJob
  BY DEF JobsKnown
<1>6. QED
  BY <1>2, <1>3, <1>4, <1>5 DEF JobsKnown

(* A daemon deletes the job it has collected or cancelled. *)
LEMMA DeleteKeepsDaemonInv ==
  ASSUME DaemonInv, JobInv, NEW d \in Daemons, DeleteJob(d)
  PROVE  DaemonInv' /\ JobInv'
<1>. DEFINE j == finished[d]
<1>0. /\ dpc[d] = "delete" /\ dpc' = [dpc EXCEPT ![d] = "look"]
      /\ finished' = [finished EXCEPT ![d] = NoJob]
      /\ UNCHANGED <<where, todo, status, failures, term, pidfile, masked>>
  BY DEF DeleteJob, Step
<1>1. j \in Jobs
  BY <1>0 DEF DaemonInv, JobsKnown
<1>2. JobInv' /\ SettledStays
  <2>1. CASE UNCHANGED ingestVars
    BY <2>1, OthersKeepJobInv
  <2>2. CASE shown[j] = "Completed" /\ Forgotten(j)
    BY <1>1, <2>2, ForgottenKeepsJobInv DEF DaemonInv, CompletedHasEnded
  <2>3. QED
    BY <2>1, <2>2 DEF DeleteJob
<1>3. /\ \A k \in Jobs \ {j} : input'[k] = input[k] /\ jpc'[k] = jpc[k] /\ shown'[k] = shown[k]
      /\ (jpc'[j] = jpc[j] /\ shown'[j] = shown[j]) \/ shown'[j] = "none"
      /\ shown' \in [Jobs -> {"none", "Queued", "Executing", "Completed"}]
  <2>1. CASE UNCHANGED <<ingestVars, shown>>
    BY <2>1 DEF DaemonInv, TypeOK, ingestVars
  <2>2. CASE Forgotten(j)
    BY <1>1, <2>2 DEF Forgotten, DaemonInv, TypeOK, JobInv, IngestTypeOK
  <2>3. QED
    BY <2>1, <2>2 DEF DeleteJob
<1>4. TypeOK'
  BY <1>0, <1>2, <1>3 DEF DaemonInv, TypeOK, JobInv, Loop
<1>5. CompletedHasEnded'
  BY <1>3 DEF DaemonInv, CompletedHasEnded
<1>6. JobsKnown'
  <2>1. \A e \in Daemons, u \in Triggers : status[e][u] # j
    BY <1>0 DEF DaemonInv, JobsKnown
  <2>2. \A e \in Daemons : e # d => finished[e] # j
    BY <1>0 DEF DaemonInv, JobsKnown
  <2>3. \A e \in Daemons :
            \/ /\ dpc[e] = "delete" <=> dpc'[e] = "delete"
               /\ finished'[e] = finished[e] /\ finished[e] # j
            \/ dpc'[e] # "delete" /\ finished'[e] = NoJob
    BY <1>0, <2>2 DEF DaemonInv, TypeOK
  <2>4. QED
    BY <1>0, <1>1, <1>3, <2>1, <2>3, OthersStayKnown DEF DaemonInv
<1>7. LooksAtOwn'
  BY <1>0 DEF DaemonInv, TypeOK, LooksAtOwn, Pending
<1>8. DoneIsComplete'
  BY <1>0, <1>2, DoneStays DEF DaemonInv
<1>9. QED
  BY <1>2, <1>4, <1>5, <1>6, <1>7, <1>8 DEF DaemonInv

(* The server notices the state of a job. *)
LEMMA UpdateKeepsDaemonInv ==
  ASSUME DaemonInv, NEW j \in Jobs, UpdateStatus(j)
  PROVE  DaemonInv' /\ UNCHANGED ingestVars
<1>0. UNCHANGED <<ingestVars, where, daemonVars, masked>>
      /\ shown' = [shown EXCEPT ![j] = StatusOf(j)]
  BY DEF UpdateStatus
<1>1. TypeOK'
  BY <1>0 DEF DaemonInv, TypeOK, IngestTypeOK, Running, StatusOf, ingestVars, daemonVars
<1>2. CompletedHasEnded'
  BY <1>0 DEF DaemonInv, TypeOK, CompletedHasEnded, StatusOf, ingestVars
<1>3. JobsKnown' /\ LooksAtOwn' /\ DoneIsComplete'
  BY <1>0 DEF DaemonInv, JobsKnown, LooksAtOwn, Pending, DoneIsComplete, Settled, ingestVars,
       daemonVars
<1>4. QED
  BY <1>0, <1>1, <1>2, <1>3 DEF DaemonInv

(* The identifier of a job that no daemon knows becomes free. *)
LEMMA ReuseKeepsDaemonInv ==
  ASSUME DaemonInv, JobInv, NEW j \in Jobs, Reuse(j)
  PROVE  DaemonInv' /\ JobInv'
<1>0. /\ UNCHANGED <<where, daemonVars, masked>> /\ Forgotten(j) /\ jpc[j] = "ended"
      /\ \A d \in Daemons : finished[d] # j /\ \A t \in Triggers : status[d][t] # j
  BY DEF Reuse
<1>1. JobInv' /\ SettledStays
  BY <1>0, ForgottenKeepsJobInv
<1>2. /\ \A k \in Jobs \ {j} : input'[k] = input[k] /\ jpc'[k] = jpc[k] /\ shown'[k] = shown[k]
      /\ shown' \in [Jobs -> {"none", "Queued", "Executing", "Completed"}] /\ shown'[j] = "none"
  BY <1>0 DEF Forgotten, DaemonInv, TypeOK, JobInv, IngestTypeOK
<1>3. TypeOK'
  BY <1>0, <1>1, <1>2 DEF DaemonInv, TypeOK, JobInv, daemonVars
<1>4. CompletedHasEnded'
  BY <1>2 DEF DaemonInv, CompletedHasEnded
<1>5. JobsKnown'
  BY <1>0, <1>2, OthersStayKnown DEF DaemonInv, daemonVars
<1>6. LooksAtOwn'
  BY <1>0 DEF DaemonInv, LooksAtOwn, Pending, daemonVars
<1>7. DoneIsComplete'
  BY <1>0, <1>1, DoneStays DEF DaemonInv
<1>8. QED
  BY <1>1, <1>3, <1>4, <1>5, <1>6, <1>7 DEF DaemonInv
-----------------------------------------------------------------------------
(* The initial states satisfy the invariant. *)
LEMMA InitInv == Init => TypeOK /\ DInv
  BY DaemonAssumption, IngestAssumption
  DEF Init, IngestInit, TypeOK, IngestTypeOK, Running, Loop, NoStatus, NoFailures, DInv,
      OneWriter, OnlyDirectoriesUndone, CheckHolds, QuietIsSettled, CompletedHasEnded,
      JobsKnown, LooksAtOwn, Pending, AskedFor, DependenciesExist, DoneIsComplete

(* No trigger goes back to where it was before it arrived. *)
LEMMA ArrivedStays ==
  ASSUME TypeOK, [Next]_vars, NEW t \in Triggers, where[t] # "none"
  PROVE  where'[t] # "none"
<1>1. CASE UNCHANGED where
  BY <1>1
<1>2. CASE \E u \in Triggers : where' = [where EXCEPT ![u] = "input"]
                            \/ where' = [where EXCEPT ![u] = "done"]
                            \/ where' = [where EXCEPT ![u] = "failures"]
  BY <1>2 DEF TypeOK
<1>3. ASSUME NEW d \in Daemons, Daemon(d), where' # where
      PROVE  \E u \in Triggers : MoveToDone(d, u) \/ MoveToFailures(d, u)
  BY <1>3 DEF Daemon, Stop, CheckPidfile, Launch, SkipTrigger, TriggerUnreadable, SubmitFails,
       Submit, LookAgain, KeepTrigger, MoveThrows, CancelJob, BeginLook, DeleteJob, NextRound,
       StopOnTerm, LoginFails
<1>4. ASSUME Environment, where' # where PROVE \E u \in Triggers : Arrive(u)
  BY <1>4 DEF Environment, Age, Sigterm, Crash, Stop, Job, KillJob, UpdateStatus, Reuse
<1>5. QED
  BY <1>1, <1>2, <1>3, <1>4 DEF Next, vars, MoveToDone, MoveToFailures, Arrive

(* A job is for the trigger it was submitted for, which was in input. *)
LEMMA JobsStayAsked ==
  ASSUME TypeOK, JobInv, DaemonInv, [Next]_vars, NEW j \in Jobs, jpc'[j] # "none"
  PROVE  (jpc[j] # "none" /\ input'[j] = input[j]) \/ where[input'[j]] = "input"
<1>1. CASE UNCHANGED ingestVars
  BY <1>1 DEF ingestVars
<1>2. ASSUME NEW k \in Jobs, Forgotten(k) PROVE jpc[j] # "none" /\ input'[j] = input[j]
  BY <1>2 DEF Forgotten, TypeOK, IngestTypeOK
<1>3. ASSUME NEW k \in Jobs, Ingest(k) \/ Kill(k)
      PROVE  jpc[j] # "none" /\ input'[j] = input[j]
  BY <1>3, IngestKeepsJobInv, KillKeepsJobInv DEF JobStep
<1>4. ASSUME NEW d \in Daemons, NEW t \in Triggers, NEW k \in Jobs, Submit(d, t, k)
      PROVE  (jpc[j] # "none" /\ input'[j] = input[j]) \/ where[input'[j]] = "input"
  BY <1>4 DEF Submit, TypeOK, IngestTypeOK
<1>5. ASSUME NEW d \in Daemons, Daemon(d), ~UNCHANGED ingestVars
      PROVE  \/ \E t \in Triggers, k \in Jobs : Submit(d, t, k)
             \/ \E k \in Jobs : Forgotten(k) \/ Kill(k)
  <2>1. ASSUME NEW t \in Triggers, CancelJob(d, t) PROVE \E k \in Jobs : Kill(k)
    <3>1. t \in Pending(d)
      BY <2>1 DEF CancelJob, Says, DaemonInv, LooksAtOwn
    <3>2. status[d][t] \in Jobs
      BY <3>1 DEF Pending, TypeOK
    <3>3. QED
      BY <1>5, <2>1, <3>2 DEF CancelJob
  <2>2. ASSUME DeleteJob(d) PROVE \E k \in Jobs : Forgotten(k)
    <3>1. finished[d] \in Jobs
      BY <2>2 DEF DeleteJob, Step, DaemonInv, JobsKnown
    <3>2. QED
      BY <1>5, <2>2, <3>1 DEF DeleteJob
  <2>3. QED
    BY <1>5, <2>1, <2>2 DEF Daemon, Stop, CheckPidfile, Launch, SkipTrigger, TriggerUnreadable,
       SubmitFails, LookAgain, Collected, MoveToDone, KeepTrigger, MoveToFailures, MoveThrows,
       BeginLook, NextRound, StopOnTerm, LoginFails
<1>6. ASSUME Environment, ~UNCHANGED ingestVars
      PROVE  \E k \in Jobs : Ingest(k) \/ Kill(k) \/ Forgotten(k)
  BY <1>6 DEF Environment, Arrive, Age, Sigterm, Crash, Stop, Job, KillJob, UpdateStatus, Reuse
<1>7. QED
  BY <1>1, <1>2, <1>3, <1>4, <1>5, <1>6 DEF Next, vars

LEMMA NextAsked ==
  ASSUME TypeOK, JobInv, DaemonInv, AskedFor, TypeOK', [Next]_vars
  PROVE  AskedFor'
<1>. SUFFICES ASSUME NEW j \in Jobs, jpc'[j] # "none" PROVE where'[input'[j]] # "none"
  BY DEF AskedFor
<1>1. input'[j] \in Triggers
  BY DEF TypeOK, IngestTypeOK
<1>2. where[input'[j]] # "none"
  BY JobsStayAsked DEF AskedFor
<1>3. QED
  BY <1>1, <1>2, ArrivedStays

(* The invariant in the parts whose steps the lemmas above treat. *)
LEMMA Parts == TypeOK /\ DInv <=> DaemonInv /\ JobInv /\ AskedFor
  BY DEF TypeOK, DInv, DaemonInv, JobInv

(* Every step keeps it. *)
LEMMA NextInv == TypeOK /\ DInv /\ [Next]_vars => (TypeOK /\ DInv)'
<1>. SUFFICES ASSUME DaemonInv, JobInv, AskedFor, [Next]_vars
              PROVE  DaemonInv' /\ JobInv' /\ AskedFor'
  BY Parts, PTL
<1>0. ASSUME NEW t \in Triggers, Arrive(t) PROVE DaemonInv' /\ JobInv'
  BY <1>0, ArriveKeepsDaemonInv, OthersKeepJobInv
<1>1. ASSUME NEW d \in Daemons, NEW t,
             \/ CheckPidfile(d) \/ Launch(d) \/ BeginLook(d) \/ NextRound(d) \/ Sigterm(d)
             \/ SkipTrigger(d, t) \/ SubmitFails(d, t) \/ LookAgain(d, t)
             \/ t \in Triggers /\ Age(d, t)
      PROVE  DaemonInv' /\ JobInv'
  BY <1>1, QuietKeepsDaemonInv, OthersKeepJobInv
<1>2. ASSUME NEW d \in Daemons, Stop(d) PROVE DaemonInv' /\ JobInv'
  BY <1>2, StopKeepsDaemonInv, OthersKeepJobInv DEF Stop
<1>3. ASSUME NEW d \in Daemons, NEW t \in Triggers, NEW j \in Jobs, Submit(d, t, j)
      PROVE  DaemonInv' /\ JobInv'
  BY <1>3, SubmitKeepsDaemonInv, SubmitKeepsJobInv
<1>4. ASSUME NEW d \in Daemons, NEW t \in Triggers,
             MoveToDone(d, t) \/ KeepTrigger(d, t) \/ MoveToFailures(d, t)
      PROVE  DaemonInv' /\ JobInv'
  BY <1>4, CollectKeepsDaemonInv, OthersKeepJobInv
<1>5. ASSUME NEW d \in Daemons, NEW t \in Triggers, CancelJob(d, t)
      PROVE  DaemonInv' /\ JobInv'
  BY <1>5, CancelKeepsDaemonInv
<1>6. ASSUME NEW d \in Daemons, DeleteJob(d) PROVE DaemonInv' /\ JobInv'
  BY <1>6, DeleteKeepsDaemonInv
<1>7. ASSUME NEW j \in Jobs, Job(j) PROVE DaemonInv' /\ JobInv'
  BY <1>7, IngestKeepsJobInv, IngestSettles, JobKeepsDaemonInv, {j} \in SUBSET Jobs DEF Job
<1>8. ASSUME NEW j \in Jobs, KillJob(j) PROVE DaemonInv' /\ JobInv'
  BY <1>8, KillKeepsJobInv, JobKeepsDaemonInv, {j} \in SUBSET Jobs DEF KillJob
<1>9. ASSUME NEW j \in Jobs, UpdateStatus(j) PROVE DaemonInv' /\ JobInv'
  BY <1>9, UpdateKeepsDaemonInv, OthersKeepJobInv
<1>10. ASSUME NEW j \in Jobs, Reuse(j) PROVE DaemonInv' /\ JobInv'
  BY <1>10, ReuseKeepsDaemonInv
<1>11. ASSUME UNCHANGED vars PROVE DaemonInv' /\ JobInv'
  BY <1>11, OthersKeepJobInv, JobKeepsDaemonInv, {} \in SUBSET Jobs DEF vars
<1>12. ASSUME Next PROVE DaemonInv' /\ JobInv'
  <2>1. ASSUME NEW d \in Daemons, NEW t,
               TriggerUnreadable(d, t) \/ MoveThrows(d, t) \/ StopOnTerm(d) \/ LoginFails(d)
               \/ Crash(d)
        PROVE  Stop(d)
    BY <2>1 DEF TriggerUnreadable, MoveThrows, StopOnTerm, LoginFails, Crash
  <2>2. QED
    BY <1>12, <1>0, <1>1, <1>2, <1>3, <1>4, <1>5, <1>6, <1>7, <1>8, <1>9, <1>10, <2>1
    DEF Next, Daemon, Environment
<1>13. DaemonInv' /\ JobInv'
  BY <1>11, <1>12
<1>14. QED
  BY <1>13, NextAsked DEF DaemonInv

(* Every variable keeps its type, and the invariant holds for ever. *)
THEOREM Invariant == Spec => [](TypeOK /\ DInv)
<1>1. QED
  BY InitInv, NextInv, PTL DEF Spec

(* Every variable of the daemons, the jobs and the catalogue keeps its     *)
(* type.                                                                   *)
THEOREM TypeCorrect == Spec => []TypeOK
  BY Invariant, PTL

(* The invariant itself. *)
THEOREM InvariantHolds == Spec => []DInv
  BY Invariant, PTL

(* A trigger in done has its dataset, complete and settled, unless a job   *)
(* that ended early misled the daemon.                                     *)
THEOREM DoneHaveDatasets == Spec => []DoneIsComplete
<1>1. DInv => DoneIsComplete
  BY DEF DInv
<1>2. QED
  BY <1>1, Invariant, PTL

(* The datasets that a dataset refers to exist. *)
THEOREM DependenciesKept == Spec => []DependenciesExist
<1>1. DInv => DependenciesExist
  BY DEF DInv
<1>2. QED
  BY <1>1, Invariant, PTL
-----------------------------------------------------------------------------
(* A reader sees nothing happen to the dataset of u. *)
Untouched(u) == Content(u)' = Content(u) /\ (u \in Unheard' <=> u \in Unheard)

(* A step that changes one dataset is one of IngestBook if the change is,  *)
LEMMA BookBecomes ==
  ASSUME NEW t \in Triggers, NEW from, NEW to, Content(t) = from, Content(t)' = to,
         \A u \in Triggers \ {t} : Untouched(u), UNCHANGED <<where, masked>>
  PROVE  Book!Becomes(t, from, to)
  BY DEF Book!Becomes, Untouched

(* and none if nobody sees a change. *)
LEMMA BookStays ==
  ASSUME \A u \in Triggers : Untouched(u), UNCHANGED <<where, masked>>
  PROVE  UNCHANGED Book!bookVars
<1>1. Unheard' = Unheard
  BY DEF Unheard, Untouched
<1>2. QED
  BY <1>1 DEF Book!bookVars, Untouched

(* What it makes of the set of those whose job does not know. *)
LEMMA UnheardAfter ==
  ASSUME NEW t \in Triggers, \A u \in Triggers \ {t} : Untouched(u)
  PROVE  /\ (t \in Unheard' <=> t \in Unheard) => Unheard' = Unheard
         /\ t \in Unheard' => Unheard' = Unheard \cup {t}
         /\ t \notin Unheard' => Unheard' = Unheard \ {t}
<1>1. Unheard \subseteq Triggers /\ Unheard' \subseteq Triggers
  BY DEF Unheard
<1>2. \A u \in Triggers \ {t} : u \in Unheard' <=> u \in Unheard
  BY DEF Untouched
<1>3. QED
  BY <1>1, <1>2

(* What IngestBook allows to happen to the dataset of t: a change that its *)
(* job knows of,                                                           *)
KnownChange(t) ==
    /\ t \in Unheard' <=> t \in Unheard
    /\ \/ Content(t)' = Content(t)
       \/ /\ Content(t) = "absent" /\ Content(t)' = "partial" /\ where[t] # "none"
          /\ \A d \in DepsOf(t) : Content(d) # "absent"
       \/ Content(t) = "partial" /\ Content(t)' = "whole"
       \/ Content(t) = "partial" /\ Content(t)' = "absent" /\ t \notin Simple

(* or one that it does not, and what comes of that. *)
UnknownChange(t) ==
    \/ /\ t \in Unheard' /\ t \notin Simple
       /\ Content(t) = "partial" /\ Content(t)' = "whole"
    \/ /\ t \in Unheard /\ t \notin Unheard'
       /\ \/ Content(t)' = Content(t)
          \/ Content(t) = "whole" /\ Content(t)' \in {"partial", "absent"}

BookChange(t) == KnownChange(t) \/ UnknownChange(t)

LEMMA ChangeInBook ==
  ASSUME NEW t \in Triggers, BookChange(t), UNCHANGED <<where, masked>>,
         \A u \in Triggers \ {t} : Untouched(u)
  PROVE  [Book!BookNext]_(Book!bookVars)
<1>1. CASE KnownChange(t)
  <2>0. Unheard' = Unheard
    BY <1>1, UnheardAfter DEF KnownChange
  <2>1. CASE Content(t)' = Content(t)
    BY <1>1, <2>1, BookStays DEF KnownChange, Untouched
  <2>2. CASE /\ Content(t) = "absent" /\ Content(t)' = "partial" /\ where[t] # "none"
             /\ \A d \in DepsOf(t) : Content(d) # "absent"
    <3>1. Book!Becomes(t, "absent", "partial")
      BY <2>2, BookBecomes
    <3>2. \A d \in Simple : <<t, d>> \in Deps =>
             [u \in Triggers |-> Content(u)][d] # "absent"
      BY <2>2, IngestAssumption DEF DepsOf
    <3>3. QED
      BY <2>0, <2>2, <3>1, <3>2 DEF Book!BookNext, Book!Build
  <2>3. CASE Content(t) = "partial" /\ Content(t)' = "whole"
    BY <2>0, <2>3, BookBecomes DEF Book!BookNext, Book!Finish
  <2>4. CASE Content(t) = "partial" /\ Content(t)' = "absent" /\ t \notin Simple
    BY <2>0, <2>4, BookBecomes DEF Book!BookNext, Book!Remove
  <2>5. QED
    BY <1>1, <2>1, <2>2, <2>3, <2>4 DEF KnownChange
<1>2. CASE UnknownChange(t)
  <2>1. CASE t \in Unheard'
    <3>1. Unheard' = Unheard \cup {t}
      BY <2>1, UnheardAfter
    <3>2. t \notin Simple /\ Content(t) = "partial" /\ Content(t)' = "whole"
      BY <1>2, <2>1 DEF UnknownChange
    <3>3. QED
      BY <3>1, <3>2, BookBecomes DEF Book!BookNext, Book!FinishUnheard
  <2>2. CASE t \notin Unheard'
    <3>1. Unheard' = Unheard \ {t} /\ t \in Unheard
      BY <1>2, <2>2, UnheardAfter DEF UnknownChange
    <3>2. CASE Content(t)' = Content(t)
      <4>1. UNCHANGED [u \in Triggers |-> Content(u)]
        BY <3>2 DEF Untouched
      <4>2. QED
        BY <3>1, <4>1 DEF Book!BookNext, Book!Keep
    <3>3. CASE Content(t) = "whole" /\ Content(t)' \in {"partial", "absent"}
      BY <3>1, <3>3, BookBecomes DEF Book!BookNext, Book!Withdraw
    <3>4. QED
      BY <1>2, <2>2, <3>2, <3>3 DEF UnknownChange
  <2>3. QED
    BY <2>1, <2>2
<1>3. QED
  BY <1>1, <1>2 DEF BookChange

(* A step of a job changes its own dataset, and in no other way. *)
LEMMA IngestInBook ==
  ASSUME JobInv, AskedFor, NEW j \in Jobs, Ingest(j)
  PROVE  \E t \in Triggers : /\ BookChange(t)
                             /\ \A u \in Triggers \ {t} : Untouched(u)
<1>0. input[j] \in Triggers /\ jpc[j] # "none" /\ where[input[j]] # "none"
  BY IngestAssumption
  DEF JobInv, IngestTypeOK, Running, Ingest, StartJob, Refuse, CheckDependencies,
      DependencyMissing, Create, AlreadyExists, AtCreate, Complete, WriteFails, Undo,
      StoreProvenance, ProvenanceFails, Go, AskedFor
<1>1. ASSUME NEW t \in Triggers, t = input[j]
      PROVE  BookChange(t) /\ \A u \in Triggers \ {t} : Untouched(u)
  <2>0. dataset \in [Triggers -> {"absent", "partial", "complete"}] /\ writer \in [Triggers -> Jobs \cup {NoJob}]
    BY DEF JobInv, IngestTypeOK
  <2>1. CASE UNCHANGED <<dataset, writer>>
    BY <2>1 DEF BookChange, KnownChange, Untouched, Content, Unheard
  <2>2. CASE Create(j)
    <3>1. \A d \in DepsOf(t) : dataset[d] # "absent"
      BY <1>1, <2>2, SimpleHasNoDeps DEF JobInv, IngestTypeOK, Create, AtCreate, CheckHolds
    <3>2. /\ Content(t) = "absent" /\ Content(t)' = "partial"
          /\ t \notin Unheard /\ t \notin Unheard'
      BY <1>1, <2>0, <2>2 DEF Create, Content, Unheard
    <3>3. \A d \in DepsOf(t) : Content(d) # "absent"
      BY <3>1 DEF Content
    <3>4. \A u \in Triggers \ {t} : Untouched(u)
      BY <1>1, <2>0, <2>2 DEF Create, Untouched, Content, Unheard
    <3>5. BookChange(t)
      BY <1>0, <1>1, <3>2, <3>3 DEF BookChange, KnownChange
    <3>6. QED
      BY <3>4, <3>5
  <2>3. CASE Complete(j) \/ WriteFails(j)
    <3>1. jpc[j] = "writing"
      BY <2>3 DEF Complete, WriteFails, Go
    <3>2. dataset[t] = "partial" /\ t \notin Unheard
      BY <1>1, <3>1 DEF JobInv, OneWriter, Unheard
    <3>3. dataset'[t] \in {"partial", "complete"}
      BY <1>1, <2>0, <2>3 DEF Complete, WriteFails
    <3>4. t \in Simple \/ Complete(j) => t \notin Unheard'
      BY <1>1, <2>0, <2>3 DEF Complete, WriteFails, Unheard
    <3>5. BookChange(t)
      BY <2>3, <3>2, <3>3, <3>4
      DEF BookChange, KnownChange, UnknownChange, Content, Unheard
    <3>6. \A u \in Triggers \ {t} : Untouched(u)
      BY <1>1, <2>0, <2>3 DEF Complete, WriteFails, Untouched, Content, Unheard
    <3>7. QED
      BY <3>5, <3>6
  <2>4. CASE Undo(j)
    <3>1. jpc[j] = "undoing" /\ writer[t] = j /\ t \notin Simple
      BY <1>1, <2>4 DEF Undo, Go, JobInv, OneWriter, OnlyDirectoriesUndone
    <3>2. dataset[t] \in {"partial", "complete"}
      BY <1>1, <2>0, <3>1 DEF JobInv, OneWriter
    <3>3. t \in Unheard <=> dataset[t] = "complete"
      BY <3>1, IngestAssumption DEF Unheard
    <3>4. t \notin Unheard' /\ dataset'[t] \in {"absent", "partial", dataset[t]}
      BY <1>1, <2>0, <2>4 DEF Undo, Unheard
    <3>5. BookChange(t)
      BY <3>1, <3>2, <3>3, <3>4 DEF BookChange, KnownChange, UnknownChange, Content
    <3>6. \A u \in Triggers \ {t} : Untouched(u)
      BY <1>1, <2>0, <2>4 DEF Undo, Untouched, Content, Unheard
    <3>7. QED
      BY <3>5, <3>6
  <2>5. QED
    BY <2>1, <2>2, <2>3, <2>4 DEF Ingest, StartJob, Refuse, CheckDependencies,
       DependencyMissing, AlreadyExists, StoreProvenance, ProvenanceFails, AtCreate
<1>2. QED
  BY <1>0, <1>1

(* A job that is killed leaves its dataset to nobody: one that it was about *)
(* to undo stays as it is.                                                 *)
LEMMA KillInBook ==
  ASSUME JobInv, NEW j \in Jobs, jpc[j] # "none", Kill(j)
  PROVE  \E t \in Triggers : /\ BookChange(t)
                             /\ \A u \in Triggers \ {t} : Untouched(u)
<1>. USE IngestAssumption DEF JobInv, IngestTypeOK, Running
<1>1. input[j] \in Triggers
  OBVIOUS
<1>2. \A u \in Triggers \ {input[j]} : writer[u] # j
  BY DEF OneWriter
<1>3. \A u \in Triggers \ {input[j]} : Untouched(u)
  BY <1>2 DEF Kill, Untouched, Content, Unheard
<1>4. BookChange(input[j])
  BY <1>1 DEF BookChange, KnownChange, UnknownChange, Kill, Content, Unheard
<1>5. QED
  BY <1>1, <1>3, <1>4

(* Every step of IngestDaemon is one of IngestBook or none. *)
LEMMA BookStep == TypeOK /\ DInv /\ [Next]_vars => [Book!BookNext]_(Book!bookVars)
<1>. SUFFICES ASSUME DaemonInv, JobInv, AskedFor, [Next]_vars
              PROVE  [Book!BookNext]_(Book!bookVars)
  BY Parts
<1>1. ASSUME UNCHANGED <<dataset, writer, where, masked>>
      PROVE  [Book!BookNext]_(Book!bookVars)
  BY <1>1, BookStays DEF Untouched, Content, Unheard
<1>2. ASSUME NEW t \in Triggers, Arrive(t) PROVE Book!BookNext
  BY <1>2 DEF Arrive, ingestVars, Book!BookNext, Book!Arrive, Book!Moves, Content, Unheard
<1>3. ASSUME NEW d \in Daemons, NEW t \in Triggers, MoveToDone(d, t) PROVE Book!BookNext
  <2>. DEFINE j == status[d][t]
  <2>1. j \in Jobs /\ input[j] = t /\ jpc[j] = "ended"
    <3>1. t \in Pending(d) /\ shown[j] = "Completed"
      BY <1>3 DEF MoveToDone, Collected, Says, DaemonInv, LooksAtOwn
    <3>2. j \in Jobs /\ input[j] = t
      BY <3>1 DEF DaemonInv, JobsKnown, TypeOK, Pending
    <3>3. QED
      BY <3>1, <3>2 DEF DaemonInv, CompletedHasEnded
  <2>2. UNCHANGED <<[u \in Triggers |-> Content(u)], Unheard>>
    BY <1>3 DEF MoveToDone, Collected, ingestVars, Content, Unheard
  <2>3. Book!Moves(t, "input", "done")
    BY <1>3, <2>2 DEF MoveToDone, Book!Moves
  <2>4. CASE j \in early
    <3>1. masked' = masked \cup {t}
      BY <1>3, <2>4 DEF MoveToDone
    <3>2. QED
      BY <2>3, <3>1 DEF Book!BookNext, Book!DoneMisled
  <2>5. CASE j \notin early
    <3>1. Content(t) = "whole" /\ t \notin Unheard
      BY <1>3, <2>1, <2>5 DEF MoveToDone, JobInv, QuietIsSettled, Content, Unheard, Settled
    <3>2. masked' = masked
      BY <1>3, <2>5 DEF MoveToDone
    <3>3. QED
      BY <2>3, <3>1, <3>2 DEF Book!BookNext, Book!Done
  <2>6. QED
    BY <2>4, <2>5
<1>4. ASSUME NEW d \in Daemons, NEW t \in Triggers, MoveToFailures(d, t) PROVE Book!BookNext
  BY <1>4 DEF MoveToFailures, Collected, ingestVars, Book!BookNext, Book!Fail, Book!Moves,
              Content, Unheard
<1>5. ASSUME NEW d \in Daemons, NEW t \in Triggers, CancelJob(d, t)
      PROVE  [Book!BookNext]_(Book!bookVars)
  <2>1. UNCHANGED <<where, masked>>
    BY <1>5 DEF CancelJob
  <2>2. t \in Pending(d)
    BY <1>5 DEF CancelJob, Says, DaemonInv, LooksAtOwn
  <2>3. status[d][t] \in Jobs /\ input[status[d][t]] = t
    BY <2>2 DEF DaemonInv, JobsKnown, TypeOK, Pending
  <2>4. jpc[status[d][t]] # "none"
    BY <2>3, IngestAssumption DEF DaemonInv, TypeOK, IngestTypeOK
  <2>5. CASE Kill(status[d][t])
    BY <2>1, <2>3, <2>4, <2>5, KillInBook, ChangeInBook
  <2>6. CASE UNCHANGED ingestVars
    BY <1>1, <2>1, <2>6 DEF ingestVars
  <2>7. QED
    BY <1>5, <2>5, <2>6 DEF CancelJob
<1>6. ASSUME NEW j \in Jobs, Job(j) PROVE [Book!BookNext]_(Book!bookVars)
  BY <1>6, IngestInBook, ChangeInBook DEF Job
<1>7. ASSUME NEW j \in Jobs, KillJob(j) PROVE [Book!BookNext]_(Book!bookVars)
  BY <1>7, KillInBook, ChangeInBook DEF KillJob, Running
<1>8. ASSUME NEW d \in Daemons, Daemon(d) PROVE [Book!BookNext]_(Book!bookVars)
  BY <1>8, <1>1, <1>3, <1>4, <1>5
  DEF Daemon, Stop, CheckPidfile, Launch, SkipTrigger, TriggerUnreadable, SubmitFails, Submit,
      LookAgain, Collected, KeepTrigger, MoveThrows, BeginLook, DeleteJob, Forgotten, NextRound,
      StopOnTerm, LoginFails, ingestVars
<1>9. ASSUME Environment PROVE [Book!BookNext]_(Book!bookVars)
  BY <1>9, <1>1, <1>2, <1>6, <1>7
  DEF Environment, Age, Sigterm, Crash, Stop, UpdateStatus, Reuse, Forgotten, ingestVars
<1>10. CASE UNCHANGED vars
  BY <1>1, <1>10 DEF vars, ingestVars
<1>11. QED
  BY <1>8, <1>9, <1>10 DEF Next

(* IngestDaemon implements IngestBook for any number of triggers, daemons  *)
(* and jobs: a trigger moves once, and a dataset that readers of ICAT find *)
(* whole stays as it is, unless its job missed the answer that it is.      *)
THEOREM BookImplemented == Spec => ImplementsBook
<1>1. Init => Book!BookInit
  BY DEF Init, IngestInit, Book!BookInit, Content, Unheard
<1>2. QED
  BY <1>1, BookStep, Invariant, PTL DEF Spec, ImplementsBook, Book!BookSpec
=============================================================================
