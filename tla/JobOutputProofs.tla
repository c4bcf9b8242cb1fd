--------------------------- MODULE JobOutputProofs ---------------------------
(***************************************************************************)
(* Proofs about JobOutput for every set of nodes, jobs and requests and    *)
(* every set of events, and for any choice of the jobs that get a row.     *)
(* JInv is inductive: each group of actions has a lemma that says so, with *)
(* one step per part of JInv.                                              *)
(***************************************************************************)
EXTENDS JobOutput, TLAPS

(* What a request that has begun refers to. *)
LEMMA RequestTypes ==
  ASSUME TypeOK, NEW r \in Requests, req[r].pc # "idle"
  PROVE  /\ req[r].job \in Jobs /\ req[r].late \in BOOLEAN
         /\ req[r].pc # "open" => req[r].node \in Hosts
  BY DEF TypeOK, Idle

(* Excuses last as long as completed jobs stay completed. *)
LEMMA ExcusesStay ==
  ASSUME TypeOK, RequestsExcused, UNCHANGED <<req, short, rebooted>>, swept \subseteq swept',
         \A k \in Jobs : Over(k) =>
            /\ Over(k)'
            /\ k \in unsent \/ dpc[k] # "no" => k \in unsent' \/ dpc'[k] # "no"
  PROVE  RequestsExcused'
<1>1. \A k \in Jobs : Excused(k) => Excused(k)'
  BY DEF Excused
<1>2. short \subseteq Jobs
  BY DEF TypeOK
<1>3. \A r \in Requests : req[r].pc # "idle" => req[r].job \in Jobs
  BY RequestTypes
<1>4. QED
  BY <1>1, <1>2, <1>3 DEF RequestsExcused

(* Steps that change where a job stands, and nothing else. *)
LEMMA PlacesKeep ==
  ASSUME JInv, NEW j \in Jobs,
         \/ Qsub(j) \/ Purge(j) \/ Exit(j) \/ CheckLock(j) \/ PrologueFails(j)
  PROVE  JInv'
<1>. USE OutputAssumption DEF JInv
<1>1. TypeOK'
  <2>1. /\ jpc' \in [Jobs -> Unfinished \cup Finishing \cup Past]
        /\ host' \in [Jobs -> Hosts \cup {NoHost}]
        /\ \A k \in Jobs : jpc'[k] \notin {"unborn", "queued"} => host'[k] # NoHost
    BY DEF TypeOK, OnNode, Unfinished, Finishing, Past, Qsub, Purge, Exit, CheckLock,
       PrologueFails, Go, Ended, ServerUnchanged, serverVars, rowVars, homeVars, jobVars
  <2>2. /\ home' \in [Hosts -> {"missing", "free", "locked"}]
        /\ lockId' \in [Hosts -> Jobs \cup {NoJob}]
    BY DEF TypeOK, OnNode, Unfinished, Finishing, Past, Qsub, Purge, Exit, CheckLock,
       PrologueFails, Go, Ended, ServerUnchanged, serverVars, rowVars, homeVars, jobVars
  <2>3. /\ files' \in [Hosts -> SUBSET Jobs]
        /\ links' \in [Hosts -> SUBSET Jobs]
    BY DEF TypeOK, OnNode, Unfinished, Finishing, Past, Qsub, Purge, Exit, CheckLock,
       PrologueFails, Go, Ended, ServerUnchanged, serverVars, rowVars, homeVars, jobVars
  <2>4. /\ final' \in [Jobs -> Content]
        /\ tmp' \in [Jobs -> Content]
    BY DEF TypeOK, Content, Output, Qsub, Purge, Exit, CheckLock, PrologueFails, Go, Ended,
       ServerUnchanged, serverVars, rowVars, homeVars, jobVars
  <2>5. /\ row' \in [Jobs -> {"none", "Q", "R", "C"}]
        /\ rowNode' \in [Jobs -> Hosts \cup {NoHost}]
        /\ ppc' \in {"idle", "commit", "sweep"}
        /\ listing' \in [Tracked -> {"none", "Q", "R", "C"}]
        /\ dpc' \in [Jobs -> {"no", "checked", "removed", "failed", "deleted"}]
    BY DEF TypeOK, Qsub, Purge, Exit, CheckLock, PrologueFails, Go, Ended, ServerUnchanged,
       serverVars, rowVars, homeVars, jobVars
  <2>6. req' \in [Requests -> {Idle} \cup
                 [pc : {"link", "push", "sending", "unlink", "openTmp"},
                  job : Jobs, node : Hosts, late : BOOLEAN] \cup
                 [pc : {"open"}, job : Jobs, node : Hosts \cup {NoHost}, late : BOOLEAN]]
    BY DEF TypeOK, Qsub, Purge, Exit, CheckLock, PrologueFails, Go, Ended, ServerUnchanged,
       serverVars, rowVars, homeVars, jobVars
  <2>7. /\ again' \subseteq Jobs /\ unsent' \cup unborn' \cup swept' \cup short' \subseteq Jobs
        /\ rebooted' \subseteq Hosts
    BY DEF TypeOK, Qsub, Purge, Exit, CheckLock, PrologueFails, Go, Ended, ServerUnchanged,
       serverVars, rowVars, homeVars, jobVars
  <2>8. QED
    BY <2>1, <2>2, <2>3, <2>4, <2>5, <2>6, <2>7 DEF TypeOK
<1>2. Alone'
  BY DEF TypeOK, Alone, OnNode, Unfinished, Finishing, Past, Qsub, Purge, Exit, CheckLock,
     PrologueFails, Go, Ended, ServerUnchanged, serverVars, rowVars, homeVars, jobVars
<1>3. LockHeld'
  BY DEF TypeOK, Alone, LockHeld, OnNode, Unfinished, Finishing, Past, Qsub, Purge, Exit,
     CheckLock, PrologueFails, Go, Ended, ServerUnchanged, serverVars, rowVars, homeVars,
     jobVars
<1>4. HomesInOrder'
  <2>. USE DEF TypeOK, Alone, LockHeld, HomesInOrder, OnNode, Unfinished, Finishing, Past, Go, Ended, ServerUnchanged, serverVars, rowVars, homeVars, jobVars
  <2>1. CASE Qsub(j)
    BY <2>1 DEF Qsub
  <2>2. CASE Purge(j)
    BY <2>2 DEF Purge
  <2>3. CASE Exit(j)
    BY <2>3 DEF Exit
  <2>4. CASE CheckLock(j)
    BY <2>4 DEF CheckLock
  <2>5. CASE PrologueFails(j)
    BY <2>5 DEF PrologueFails
  <2>6. QED
    BY <2>1, <2>2, <2>3, <2>4, <2>5
<1>5. DeliveredFirst'
  BY DEF TypeOK, HomesInOrder, DeliveredFirst, RowsFollow, OnNode, Unfinished, Finishing,
     Past, Qsub, Purge, Exit, CheckLock, PrologueFails, Go, Ended, ServerUnchanged, serverVars,
     rowVars, homeVars, jobVars
<1>6. RowsFollow' /\ DeletedIsGone'
  BY DEF TypeOK, RowsFollow, DeletedIsGone, Over, OnNode, Unfinished, Finishing, Past, Qsub,
     Purge, Exit, CheckLock, PrologueFails, Go, Ended, ServerUnchanged, serverVars, rowVars,
     homeVars, jobVars
<1>7. RequestsExcused'
  <2>1. /\ UNCHANGED <<req, short, rebooted>> /\ swept \subseteq swept'
        /\ \A k \in Jobs : Over(k) =>
              /\ Over(k)'
              /\ k \in unsent \/ dpc[k] # "no" => k \in unsent' \/ dpc'[k] # "no"
    BY DEF TypeOK, Over, Past, Qsub, Purge, Exit, CheckLock, PrologueFails, Go, Ended,
       ServerUnchanged, serverVars, rowVars, homeVars, jobVars
  <2>2. QED
    BY <2>1, ExcusesStay
<1>8. QED
  BY <1>1, <1>2, <1>3, <1>4, <1>5, <1>6, <1>7

(* Torque starts a job on a free node. *)
LEMMA DispatchKeeps ==
  ASSUME JInv, NEW j \in Jobs, NEW h \in Hosts,
         Dispatch(j, h)
  PROVE  JInv'
<1>. USE OutputAssumption DEF JInv
<1>1. TypeOK'
  <2>1. /\ jpc' \in [Jobs -> Unfinished \cup Finishing \cup Past]
        /\ host' \in [Jobs -> Hosts \cup {NoHost}]
        /\ \A k \in Jobs : jpc'[k] \notin {"unborn", "queued"} => host'[k] # NoHost
    BY DEF TypeOK, OnNode, Unfinished, Finishing, Past, Dispatch, Go, ServerUnchanged,
       serverVars, rowVars, homeVars, jobVars
  <2>2. /\ home' \in [Hosts -> {"missing", "free", "locked"}]
        /\ lockId' \in [Hosts -> Jobs \cup {NoJob}]
    BY DEF TypeOK, OnNode, Unfinished, Finishing, Past, Dispatch, Go, ServerUnchanged,
       serverVars, rowVars, homeVars, jobVars
  <2>3. /\ files' \in [Hosts -> SUBSET Jobs]
        /\ links' \in [Hosts -> SUBSET Jobs]
    BY DEF TypeOK, OnNode, Unfinished, Finishing, Past, Dispatch, Go, ServerUnchanged,
       serverVars, rowVars, homeVars, jobVars
  <2>4. /\ final' \in [Jobs -> Content]
        /\ tmp' \in [Jobs -> Content]
    BY DEF TypeOK, Content, Output, Dispatch, Go, ServerUnchanged, serverVars, rowVars,
       homeVars, jobVars
  <2>5. /\ row' \in [Jobs -> {"none", "Q", "R", "C"}]
        /\ rowNode' \in [Jobs -> Hosts \cup {NoHost}]
        /\ ppc' \in {"idle", "commit", "sweep"}
        /\ listing' \in [Tracked -> {"none", "Q", "R", "C"}]
        /\ dpc' \in [Jobs -> {"no", "checked", "removed", "failed", "deleted"}]
    BY DEF TypeOK, Dispatch, Go, ServerUnchanged, serverVars, rowVars, homeVars, jobVars
  <2>6. req' \in [Requests -> {Idle} \cup
                 [pc : {"link", "push", "sending", "unlink", "openTmp"},
                  job : Jobs, node : Hosts, late : BOOLEAN] \cup
                 [pc : {"open"}, job : Jobs, node : Hosts \cup {NoHost}, late : BOOLEAN]]
    BY DEF TypeOK, Dispatch, Go, ServerUnchanged, serverVars, rowVars, homeVars, jobVars
  <2>7. /\ again' \subseteq Jobs /\ unsent' \cup unborn' \cup swept' \cup short' \subseteq Jobs
        /\ rebooted' \subseteq Hosts
    BY DEF TypeOK, Dispatch, Go, ServerUnchanged, serverVars, rowVars, homeVars, jobVars
  <2>8. QED
    BY <2>1, <2>2, <2>3, <2>4, <2>5, <2>6, <2>7 DEF TypeOK
<1>2. Alone'
  BY DEF TypeOK, Alone, OnNode, Unfinished, Finishing, Past, Dispatch, Go, ServerUnchanged,
     serverVars, rowVars, homeVars, jobVars
<1>3. LockHeld'
  BY DEF TypeOK, Alone, LockHeld, OnNode, Unfinished, Finishing, Past, Dispatch, Go,
     ServerUnchanged, serverVars, rowVars, homeVars, jobVars
<1>4. HomesInOrder'
  BY DEF TypeOK, Alone, LockHeld, HomesInOrder, OnNode, Unfinished, Finishing, Past,
     Dispatch, Go, ServerUnchanged, serverVars, rowVars, homeVars, jobVars
<1>5. DeliveredFirst'
  BY DEF TypeOK, HomesInOrder, DeliveredFirst, RowsFollow, OnNode, Unfinished, Finishing,
     Past, Dispatch, Go, ServerUnchanged, serverVars, rowVars, homeVars, jobVars
<1>6. RowsFollow' /\ DeletedIsGone'
  BY DEF TypeOK, RowsFollow, DeletedIsGone, Over, OnNode, Unfinished, Finishing, Past,
     Dispatch, Go, ServerUnchanged, serverVars, rowVars, homeVars, jobVars
<1>7. RequestsExcused'
  <2>1. /\ UNCHANGED <<req, short, rebooted>> /\ swept \subseteq swept'
        /\ \A k \in Jobs : Over(k) =>
              /\ Over(k)'
              /\ k \in unsent \/ dpc[k] # "no" => k \in unsent' \/ dpc'[k] # "no"
    BY DEF TypeOK, Over, Past, Dispatch, Go, ServerUnchanged, serverVars, rowVars, homeVars,
       jobVars
  <2>2. QED
    BY <2>1, ExcusesStay
<1>8. QED
  BY <1>1, <1>2, <1>3, <1>4, <1>5, <1>6, <1>7

(* The prologue locks the home, and the job starts. *)
LEMMA LockKeeps ==
  ASSUME JInv, NEW j \in Jobs,
         \/ MakeLock(j) \/ WriteId(j)
  PROVE  JInv'
<1>. USE OutputAssumption DEF JInv
<1>1. TypeOK'
  <2>1. /\ jpc' \in [Jobs -> Unfinished \cup Finishing \cup Past]
        /\ host' \in [Jobs -> Hosts \cup {NoHost}]
        /\ \A k \in Jobs : jpc'[k] \notin {"unborn", "queued"} => host'[k] # NoHost
    BY DEF TypeOK, OnNode, Unfinished, Finishing, Past, MakeLock, WriteId, Go,
       ServerUnchanged, serverVars, rowVars, homeVars, jobVars
  <2>2. /\ home' \in [Hosts -> {"missing", "free", "locked"}]
        /\ lockId' \in [Hosts -> Jobs \cup {NoJob}]
    BY DEF TypeOK, OnNode, Unfinished, Finishing, Past, MakeLock, WriteId, Go,
       ServerUnchanged, serverVars, rowVars, homeVars, jobVars
  <2>3. /\ files' \in [Hosts -> SUBSET Jobs]
        /\ links' \in [Hosts -> SUBSET Jobs]
    BY DEF TypeOK, OnNode, Unfinished, Finishing, Past, MakeLock, WriteId, Go,
       ServerUnchanged, serverVars, rowVars, homeVars, jobVars
  <2>4. /\ final' \in [Jobs -> Content]
        /\ tmp' \in [Jobs -> Content]
    BY DEF TypeOK, Content, Output, MakeLock, WriteId, Go, ServerUnchanged, serverVars,
       rowVars, homeVars, jobVars
  <2>5. /\ row' \in [Jobs -> {"none", "Q", "R", "C"}]
        /\ rowNode' \in [Jobs -> Hosts \cup {NoHost}]
        /\ ppc' \in {"idle", "commit", "sweep"}
        /\ listing' \in [Tracked -> {"none", "Q", "R", "C"}]
        /\ dpc' \in [Jobs -> {"no", "checked", "removed", "failed", "deleted"}]
    BY DEF TypeOK, MakeLock, WriteId, Go, ServerUnchanged, serverVars, rowVars, homeVars,
       jobVars
  <2>6. req' \in [Requests -> {Idle} \cup
                 [pc : {"link", "push", "sending", "unlink", "openTmp"},
                  job : Jobs, node : Hosts, late : BOOLEAN] \cup
                 [pc : {"open"}, job : Jobs, node : Hosts \cup {NoHost}, late : BOOLEAN]]
    BY DEF TypeOK, MakeLock, WriteId, Go, ServerUnchanged, serverVars, rowVars, homeVars,
       jobVars
  <2>7. /\ again' \subseteq Jobs /\ unsent' \cup unborn' \cup swept' \cup short' \subseteq Jobs
        /\ rebooted' \subseteq Hosts
    BY DEF TypeOK, MakeLock, WriteId, Go, ServerUnchanged, serverVars, rowVars, homeVars,
       jobVars
  <2>8. QED
    BY <2>1, <2>2, <2>3, <2>4, <2>5, <2>6, <2>7 DEF TypeOK
<1>2. Alone'
  BY DEF TypeOK, Alone, OnNode, Unfinished, Finishing, Past, MakeLock, WriteId, Go,
     ServerUnchanged, serverVars, rowVars, homeVars, jobVars
<1>3. LockHeld'
  BY DEF TypeOK, Alone, LockHeld, OnNode, Unfinished, Finishing, Past, MakeLock, WriteId,
     Go, ServerUnchanged, serverVars, rowVars, homeVars, jobVars
<1>4. HomesInOrder'
  <2>1. CASE MakeLock(j)
    BY <2>1 DEF TypeOK, Alone, HomesInOrder, OnNode, Unfinished, Finishing, Past, MakeLock, Go,
           ServerUnchanged, serverVars
  <2>2. CASE WriteId(j)
    BY <2>2 DEF TypeOK, Alone, LockHeld, HomesInOrder, OnNode, Unfinished, Finishing, Past,
       WriteId, Go,
           ServerUnchanged, serverVars
  <2>3. QED
    BY <2>1, <2>2
<1>5. DeliveredFirst'
  BY DEF TypeOK, HomesInOrder, DeliveredFirst, RowsFollow, OnNode, Unfinished, Finishing,
     Past, MakeLock, WriteId, Go, ServerUnchanged, serverVars, rowVars, homeVars, jobVars
<1>6. RowsFollow' /\ DeletedIsGone'
  BY DEF TypeOK, RowsFollow, DeletedIsGone, Over, OnNode, Unfinished, Finishing, Past,
     MakeLock, WriteId, Go, ServerUnchanged, serverVars, rowVars, homeVars, jobVars
<1>7. RequestsExcused'
  <2>1. /\ UNCHANGED <<req, short, rebooted>> /\ swept \subseteq swept'
        /\ \A k \in Jobs : Over(k) =>
              /\ Over(k)'
              /\ k \in unsent \/ dpc[k] # "no" => k \in unsent' \/ dpc'[k] # "no"
    BY DEF TypeOK, Over, Past, MakeLock, WriteId, Go, ServerUnchanged, serverVars, rowVars,
       homeVars, jobVars
  <2>2. QED
    BY <2>1, ExcusesStay
<1>8. QED
  BY <1>1, <1>2, <1>3, <1>4, <1>5, <1>6, <1>7

(* The epilogue copies the output. *)
LEMMA DeliverKeeps ==
  ASSUME JInv, NEW j \in Jobs,
         \/ Deliver(j) \/ Delivered(j) \/ DeliveryFails(j)
  PROVE  JInv'
<1>. USE OutputAssumption DEF JInv
<1>1. TypeOK'
  <2>1. /\ jpc' \in [Jobs -> Unfinished \cup Finishing \cup Past]
        /\ host' \in [Jobs -> Hosts \cup {NoHost}]
        /\ \A k \in Jobs : jpc'[k] \notin {"unborn", "queued"} => host'[k] # NoHost
    BY DEF TypeOK, OnNode, Unfinished, Finishing, Past, Deliver, Delivered, DeliveryFails,
       Go, serverVars, rowVars, homeVars, jobVars
  <2>2. /\ home' \in [Hosts -> {"missing", "free", "locked"}]
        /\ lockId' \in [Hosts -> Jobs \cup {NoJob}]
    BY DEF TypeOK, OnNode, Unfinished, Finishing, Past, Deliver, Delivered, DeliveryFails,
       Go, serverVars, rowVars, homeVars, jobVars
  <2>3. /\ files' \in [Hosts -> SUBSET Jobs]
        /\ links' \in [Hosts -> SUBSET Jobs]
    BY DEF TypeOK, OnNode, Unfinished, Finishing, Past, Deliver, Delivered, DeliveryFails,
       Go, serverVars, rowVars, homeVars, jobVars
  <2>4. /\ final' \in [Jobs -> Content]
        /\ tmp' \in [Jobs -> Content]
    BY DEF TypeOK, Content, Output, Deliver, Delivered, DeliveryFails, Go, serverVars,
       rowVars, homeVars, jobVars
  <2>5. /\ row' \in [Jobs -> {"none", "Q", "R", "C"}]
        /\ rowNode' \in [Jobs -> Hosts \cup {NoHost}]
        /\ ppc' \in {"idle", "commit", "sweep"}
        /\ listing' \in [Tracked -> {"none", "Q", "R", "C"}]
        /\ dpc' \in [Jobs -> {"no", "checked", "removed", "failed", "deleted"}]
    BY DEF TypeOK, Deliver, Delivered, DeliveryFails, Go, serverVars, rowVars, homeVars, jobVars
  <2>6. req' \in [Requests -> {Idle} \cup
                 [pc : {"link", "push", "sending", "unlink", "openTmp"},
                  job : Jobs, node : Hosts, late : BOOLEAN] \cup
                 [pc : {"open"}, job : Jobs, node : Hosts \cup {NoHost}, late : BOOLEAN]]
    BY DEF TypeOK, Deliver, Delivered, DeliveryFails, Go, serverVars, rowVars, homeVars, jobVars
  <2>7. /\ again' \subseteq Jobs /\ unsent' \cup unborn' \cup swept' \cup short' \subseteq Jobs
        /\ rebooted' \subseteq Hosts
    BY DEF TypeOK, Deliver, Delivered, DeliveryFails, Go, serverVars, rowVars, homeVars, jobVars
  <2>8. QED
    BY <2>1, <2>2, <2>3, <2>4, <2>5, <2>6, <2>7 DEF TypeOK
<1>2. Alone'
  BY DEF TypeOK, Alone, OnNode, Unfinished, Finishing, Past, Deliver, Delivered,
     DeliveryFails, Go, serverVars, rowVars, homeVars, jobVars
<1>3. LockHeld'
  BY DEF TypeOK, Alone, LockHeld, OnNode, Unfinished, Finishing, Past, Deliver, Delivered,
     DeliveryFails, Go, serverVars, rowVars, homeVars, jobVars
<1>4. HomesInOrder'
  <2>. USE DEF TypeOK, Alone, LockHeld, HomesInOrder, OnNode, Unfinished, Finishing, Past, Go, serverVars, rowVars, homeVars, jobVars
  <2>1. CASE Deliver(j)
    BY <2>1 DEF Deliver
  <2>2. CASE Delivered(j)
    BY <2>2 DEF Delivered
  <2>3. CASE DeliveryFails(j)
    BY <2>3 DEF DeliveryFails
  <2>4. QED
    BY <2>1, <2>2, <2>3
<1>5. DeliveredFirst'
  BY DEF TypeOK, HomesInOrder, DeliveredFirst, RowsFollow, OnNode, Unfinished, Finishing,
     Past, Deliver, Delivered, DeliveryFails, Go, serverVars, rowVars, homeVars, jobVars
<1>6. RowsFollow' /\ DeletedIsGone'
  BY DEF TypeOK, RowsFollow, DeletedIsGone, Over, OnNode, Unfinished, Finishing, Past,
     Deliver, Delivered, DeliveryFails, Go, serverVars, rowVars, homeVars, jobVars
<1>7. RequestsExcused'
  <2>1. /\ UNCHANGED <<req, short, rebooted>> /\ swept \subseteq swept'
        /\ \A k \in Jobs : Over(k) =>
              /\ Over(k)'
              /\ k \in unsent \/ dpc[k] # "no" => k \in unsent' \/ dpc'[k] # "no"
    BY DEF TypeOK, Over, Past, Deliver, Delivered, DeliveryFails, Go, serverVars, rowVars,
       homeVars, jobVars
  <2>2. QED
    BY <2>1, ExcusesStay
<1>8. QED
  BY <1>1, <1>2, <1>3, <1>4, <1>5, <1>6, <1>7

(* The epilogue makes the home anew. *)
LEMMA HomeKeeps ==
  ASSUME JInv, NEW j \in Jobs,
         \/ RemoveHome(j) \/ MakeHome(j)
  PROVE  JInv'
<1>. USE OutputAssumption DEF JInv
<1>1. TypeOK'
  <2>1. /\ jpc' \in [Jobs -> Unfinished \cup Finishing \cup Past]
        /\ host' \in [Jobs -> Hosts \cup {NoHost}]
        /\ \A k \in Jobs : jpc'[k] \notin {"unborn", "queued"} => host'[k] # NoHost
    BY DEF TypeOK, OnNode, Unfinished, Finishing, Past, RemoveHome, MakeHome, Go, Ended,
       ServerUnchanged, serverVars, rowVars, homeVars, jobVars
  <2>2. /\ home' \in [Hosts -> {"missing", "free", "locked"}]
        /\ lockId' \in [Hosts -> Jobs \cup {NoJob}]
    BY DEF TypeOK, OnNode, Unfinished, Finishing, Past, RemoveHome, MakeHome, Go, Ended,
       ServerUnchanged, serverVars, rowVars, homeVars, jobVars
  <2>3. /\ files' \in [Hosts -> SUBSET Jobs]
        /\ links' \in [Hosts -> SUBSET Jobs]
    BY DEF TypeOK, OnNode, Unfinished, Finishing, Past, RemoveHome, MakeHome, Go, Ended,
       ServerUnchanged, serverVars, rowVars, homeVars, jobVars
  <2>4. /\ final' \in [Jobs -> Content]
        /\ tmp' \in [Jobs -> Content]
    BY DEF TypeOK, Content, Output, RemoveHome, MakeHome, Go, Ended, ServerUnchanged,
       serverVars, rowVars, homeVars, jobVars
  <2>5. /\ row' \in [Jobs -> {"none", "Q", "R", "C"}]
        /\ rowNode' \in [Jobs -> Hosts \cup {NoHost}]
        /\ ppc' \in {"idle", "commit", "sweep"}
        /\ listing' \in [Tracked -> {"none", "Q", "R", "C"}]
        /\ dpc' \in [Jobs -> {"no", "checked", "removed", "failed", "deleted"}]
    BY DEF TypeOK, RemoveHome, MakeHome, Go, Ended, ServerUnchanged, serverVars, rowVars,
       homeVars, jobVars
  <2>6. req' \in [Requests -> {Idle} \cup
                 [pc : {"link", "push", "sending", "unlink", "openTmp"},
                  job : Jobs, node : Hosts, late : BOOLEAN] \cup
                 [pc : {"open"}, job : Jobs, node : Hosts \cup {NoHost}, late : BOOLEAN]]
    BY DEF TypeOK, RemoveHome, MakeHome, Go, Ended, ServerUnchanged, serverVars, rowVars,
       homeVars, jobVars
  <2>7. /\ again' \subseteq Jobs /\ unsent' \cup unborn' \cup swept' \cup short' \subseteq Jobs
        /\ rebooted' \subseteq Hosts
    BY DEF TypeOK, RemoveHome, MakeHome, Go, Ended, ServerUnchanged, serverVars, rowVars,
       homeVars, jobVars
  <2>8. QED
    BY <2>1, <2>2, <2>3, <2>4, <2>5, <2>6, <2>7 DEF TypeOK
<1>2. Alone'
  BY DEF TypeOK, Alone, OnNode, Unfinished, Finishing, Past, RemoveHome, MakeHome, Go,
     Ended, ServerUnchanged, serverVars, rowVars, homeVars, jobVars
<1>3. LockHeld'
  BY DEF TypeOK, Alone, LockHeld, OnNode, Unfinished, Finishing, Past, RemoveHome, MakeHome,
     Go, Ended, ServerUnchanged, serverVars, rowVars, homeVars, jobVars
<1>4. HomesInOrder'
  <2>. USE DEF TypeOK, Alone, LockHeld, HomesInOrder, OnNode, Unfinished, Finishing, Past, Go, Ended, ServerUnchanged, serverVars, rowVars, homeVars, jobVars
  <2>1. CASE RemoveHome(j)
    BY <2>1 DEF RemoveHome
  <2>2. CASE MakeHome(j)
    BY <2>2 DEF MakeHome
  <2>3. QED
    BY <2>1, <2>2
<1>5. DeliveredFirst'
  BY DEF TypeOK, HomesInOrder, DeliveredFirst, RowsFollow, OnNode, Unfinished, Finishing,
     Past, RemoveHome, MakeHome, Go, Ended, ServerUnchanged, serverVars, rowVars, homeVars,
     jobVars
<1>6. RowsFollow' /\ DeletedIsGone'
  BY DEF TypeOK, RowsFollow, DeletedIsGone, Over, OnNode, Unfinished, Finishing, Past,
     RemoveHome, MakeHome, Go, Ended, ServerUnchanged, serverVars, rowVars, homeVars, jobVars
<1>7. RequestsExcused'
  <2>1. /\ UNCHANGED <<req, short, rebooted>> /\ swept \subseteq swept'
        /\ \A k \in Jobs : Over(k) =>
              /\ Over(k)'
              /\ k \in unsent \/ dpc[k] # "no" => k \in unsent' \/ dpc'[k] # "no"
    BY DEF TypeOK, Over, Past, RemoveHome, MakeHome, Go, Ended, ServerUnchanged, serverVars,
       rowVars, homeVars, jobVars
  <2>2. QED
    BY <2>1, ExcusesStay
<1>8. QED
  BY <1>1, <1>2, <1>3, <1>4, <1>5, <1>6, <1>7

(* A node stops and starts. *)
LEMMA RebootKeeps ==
  ASSUME JInv, NEW h \in Hosts,
         Reboot(h)
  PROVE  JInv'
<1>. USE OutputAssumption DEF JInv
<1>1. TypeOK'
  <2>1. /\ jpc' \in [Jobs -> Unfinished \cup Finishing \cup Past]
        /\ host' \in [Jobs -> Hosts \cup {NoHost}]
        /\ \A k \in Jobs : jpc'[k] \notin {"unborn", "queued"} => host'[k] # NoHost
    BY DEF TypeOK, OnNode, Unfinished, Finishing, Past, Reboot, ServerUnchanged, serverVars,
       rowVars, homeVars, jobVars
  <2>2. /\ home' \in [Hosts -> {"missing", "free", "locked"}]
        /\ lockId' \in [Hosts -> Jobs \cup {NoJob}]
    BY DEF TypeOK, OnNode, Unfinished, Finishing, Past, Reboot, ServerUnchanged, serverVars,
       rowVars, homeVars, jobVars
  <2>3. /\ files' \in [Hosts -> SUBSET Jobs]
        /\ links' \in [Hosts -> SUBSET Jobs]
    BY DEF TypeOK, OnNode, Unfinished, Finishing, Past, Reboot, ServerUnchanged, serverVars,
       rowVars, homeVars, jobVars
  <2>4. /\ final' \in [Jobs -> Content]
        /\ tmp' \in [Jobs -> Content]
    BY DEF TypeOK, Content, Output, Reboot, ServerUnchanged, serverVars, rowVars, homeVars,
       jobVars
  <2>5. /\ row' \in [Jobs -> {"none", "Q", "R", "C"}]
        /\ rowNode' \in [Jobs -> Hosts \cup {NoHost}]
        /\ ppc' \in {"idle", "commit", "sweep"}
        /\ listing' \in [Tracked -> {"none", "Q", "R", "C"}]
        /\ dpc' \in [Jobs -> {"no", "checked", "removed", "failed", "deleted"}]
    BY DEF TypeOK, Reboot, ServerUnchanged, serverVars, rowVars, homeVars, jobVars
  <2>6. req' \in [Requests -> {Idle} \cup
                 [pc : {"link", "push", "sending", "unlink", "openTmp"},
                  job : Jobs, node : Hosts, late : BOOLEAN] \cup
                 [pc : {"open"}, job : Jobs, node : Hosts \cup {NoHost}, late : BOOLEAN]]
    BY DEF TypeOK, Reboot, ServerUnchanged, serverVars, rowVars, homeVars, jobVars
  <2>7. /\ again' \subseteq Jobs /\ unsent' \cup unborn' \cup swept' \cup short' \subseteq Jobs
        /\ rebooted' \subseteq Hosts
    BY DEF TypeOK, Reboot, ServerUnchanged, serverVars, rowVars, homeVars, jobVars
  <2>8. QED
    BY <2>1, <2>2, <2>3, <2>4, <2>5, <2>6, <2>7 DEF TypeOK
<1>2. Alone'
  BY DEF TypeOK, Alone, OnNode, Unfinished, Finishing, Past, Reboot, ServerUnchanged,
     serverVars, rowVars, homeVars, jobVars
<1>3. LockHeld'
  BY DEF TypeOK, Alone, LockHeld, OnNode, Unfinished, Finishing, Past, Reboot,
     ServerUnchanged, serverVars, rowVars, homeVars, jobVars
<1>4. HomesInOrder'
  BY DEF TypeOK, Alone, LockHeld, HomesInOrder, OnNode, Unfinished, Finishing, Past, Reboot,
     ServerUnchanged, serverVars, rowVars, homeVars, jobVars
<1>5. DeliveredFirst'
  BY DEF TypeOK, HomesInOrder, DeliveredFirst, RowsFollow, OnNode, Unfinished, Finishing,
     Past, Reboot, ServerUnchanged, serverVars, rowVars, homeVars, jobVars
<1>6. RowsFollow' /\ DeletedIsGone'
  BY DEF TypeOK, RowsFollow, DeletedIsGone, Over, OnNode, Unfinished, Finishing, Past,
     Reboot, ServerUnchanged, serverVars, rowVars, homeVars, jobVars
<1>7. RequestsExcused'
  <2>1. \A r \in Requests : req'[r].pc = "idle"
    BY DEF Reboot, ServerUnchanged, serverVars, Idle
  <2>2. \A j \in Jobs : Excused(j) => Excused(j)'
    BY DEF TypeOK, Excused, Over, Reboot, ServerUnchanged, serverVars, rowVars, OnNode,
       Unfinished, Finishing, Past
  <2>3. short' = short /\ short \subseteq Jobs
    BY DEF TypeOK, Reboot, ServerUnchanged, serverVars
  <2>4. QED
    BY <2>1, <2>2, <2>3 DEF RequestsExcused
<1>8. QED
  BY <1>1, <1>2, <1>3, <1>4, <1>5, <1>6, <1>7

(* A request begins. *)
LEMMA LookKeeps ==
  ASSUME JInv, NEW j \in Jobs, NEW r \in Requests,
         Look(r, j)
  PROVE  JInv'
<1>. USE OutputAssumption DEF JInv
<1>1. TypeOK'
  <2>1. /\ jpc' \in [Jobs -> Unfinished \cup Finishing \cup Past]
        /\ host' \in [Jobs -> Hosts \cup {NoHost}]
        /\ \A k \in Jobs : jpc'[k] \notin {"unborn", "queued"} => host'[k] # NoHost
    BY DEF TypeOK, OnNode, Unfinished, Finishing, Past, Look, rowVars, JobsUnchanged,
       jobVars, homeVars
  <2>2. /\ home' \in [Hosts -> {"missing", "free", "locked"}]
        /\ lockId' \in [Hosts -> Jobs \cup {NoJob}]
    BY DEF TypeOK, OnNode, Unfinished, Finishing, Past, Look, rowVars, JobsUnchanged,
       jobVars, homeVars
  <2>3. /\ files' \in [Hosts -> SUBSET Jobs]
        /\ links' \in [Hosts -> SUBSET Jobs]
    BY DEF TypeOK, OnNode, Unfinished, Finishing, Past, Look, rowVars, JobsUnchanged,
       jobVars, homeVars
  <2>4. /\ final' \in [Jobs -> Content]
        /\ tmp' \in [Jobs -> Content]
    BY DEF TypeOK, Content, Output, Look, rowVars, JobsUnchanged, jobVars, homeVars
  <2>5. /\ row' \in [Jobs -> {"none", "Q", "R", "C"}]
        /\ rowNode' \in [Jobs -> Hosts \cup {NoHost}]
        /\ ppc' \in {"idle", "commit", "sweep"}
        /\ listing' \in [Tracked -> {"none", "Q", "R", "C"}]
        /\ dpc' \in [Jobs -> {"no", "checked", "removed", "failed", "deleted"}]
    BY DEF TypeOK, Look, rowVars, JobsUnchanged, jobVars, homeVars
  <2>6. req' \in [Requests -> {Idle} \cup
                 [pc : {"link", "push", "sending", "unlink", "openTmp"},
                  job : Jobs, node : Hosts, late : BOOLEAN] \cup
                 [pc : {"open"}, job : Jobs, node : Hosts \cup {NoHost}, late : BOOLEAN]]
    BY DEF TypeOK, Look, rowVars, JobsUnchanged, jobVars, homeVars
  <2>7. /\ again' \subseteq Jobs /\ unsent' \cup unborn' \cup swept' \cup short' \subseteq Jobs
        /\ rebooted' \subseteq Hosts
    BY DEF TypeOK, Look, rowVars, JobsUnchanged, jobVars, homeVars
  <2>8. QED
    BY <2>1, <2>2, <2>3, <2>4, <2>5, <2>6, <2>7 DEF TypeOK
<1>2. Alone'
  BY DEF TypeOK, Alone, OnNode, Unfinished, Finishing, Past, Look, rowVars, JobsUnchanged,
     jobVars, homeVars
<1>3. LockHeld'
  BY DEF TypeOK, Alone, LockHeld, OnNode, Unfinished, Finishing, Past, Look, rowVars,
     JobsUnchanged, jobVars, homeVars
<1>4. HomesInOrder'
  BY DEF TypeOK, Alone, LockHeld, HomesInOrder, OnNode, Unfinished, Finishing, Past, Look,
     rowVars, JobsUnchanged, jobVars, homeVars
<1>5. DeliveredFirst'
  BY DEF TypeOK, HomesInOrder, DeliveredFirst, RowsFollow, OnNode, Unfinished, Finishing,
     Past, Look, rowVars, JobsUnchanged, jobVars, homeVars
<1>6. RowsFollow' /\ DeletedIsGone'
  BY DEF TypeOK, RowsFollow, DeletedIsGone, Over, OnNode, Unfinished, Finishing, Past, Look,
     rowVars, JobsUnchanged, jobVars, homeVars
<1>7. RequestsExcused'
  <2>1. UNCHANGED <<jpc, unsent, dpc, swept, short, rebooted>> /\ rebooted = {}
    BY DEF Look, JobsUnchanged, jobVars, rowVars
  <2>2. row[j] = "C" => /\ Over(j) \/ j \in swept
                        /\ final[j] = "none" => Excused(j)
    BY <2>1 DEF RowsFollow, DeliveredFirst, Excused, Over
  <2>3. /\ req'[r].job = j /\ (req'[r].late => row[j] = "C")
        /\ req'[r].pc # "open" => final[j] = "none"
        /\ \A q \in Requests \ {r} : req'[q] = req[q]
    BY DEF TypeOK, Look
  <2>4. short' = short /\ short \subseteq Jobs /\ \A k \in short : Excused(k)
    BY <2>1 DEF TypeOK, RequestsExcused
  <2>5. ASSUME NEW q \in Requests, req'[q].pc # "idle"
        PROVE  /\ rebooted' = {}
               /\ req'[q].late => jpc'[req'[q].job] \in Past \/ req'[q].job \in swept'
               /\ req'[q].late /\ req'[q].pc # "open" =>
                    \/ req'[q].job \in swept'
                    \/ /\ jpc'[req'[q].job] \in Past
                       /\ req'[q].job \in unsent' \/ dpc'[req'[q].job] # "no"
    <3>1. CASE q = r
      BY <3>1, <2>1, <2>2, <2>3 DEF Excused, Over
    <3>2. CASE q # r
      BY <3>2, <2>1, <2>3, <2>5 DEF RequestsExcused, Excused, Over
    <3>3. QED
      BY <3>1, <3>2
  <2>6. QED
    BY <2>1, <2>4, <2>5 DEF RequestsExcused, Excused, Over
<1>8. QED
  BY <1>1, <1>2, <1>3, <1>4, <1>5, <1>6, <1>7

(* A request goes on. *)
LEMMA PushKeeps ==
  ASSUME JInv, NEW r \in Requests,
         \/ PushLink(r) \/ Push(r) \/ Pushed(r) \/ PushFails(r) \/ Unlink(r)
  PROVE  JInv'
<1>. USE OutputAssumption DEF JInv
<1>1. TypeOK'
  <2>1. /\ jpc' \in [Jobs -> Unfinished \cup Finishing \cup Past]
        /\ host' \in [Jobs -> Hosts \cup {NoHost}]
        /\ \A k \in Jobs : jpc'[k] \notin {"unborn", "queued"} => host'[k] # NoHost
    BY DEF TypeOK, OnNode, Unfinished, Finishing, Past, PushLink, Push, Pushed, PushFails,
       Unlink, At, rowVars, JobsUnchanged, jobVars, homeVars
  <2>2. /\ home' \in [Hosts -> {"missing", "free", "locked"}]
        /\ lockId' \in [Hosts -> Jobs \cup {NoJob}]
    BY DEF TypeOK, OnNode, Unfinished, Finishing, Past, PushLink, Push, Pushed, PushFails,
       Unlink, At, rowVars, JobsUnchanged, jobVars, homeVars
  <2>3. /\ files' \in [Hosts -> SUBSET Jobs]
        /\ links' \in [Hosts -> SUBSET Jobs]
    BY DEF TypeOK, OnNode, Unfinished, Finishing, Past, PushLink, Push, Pushed, PushFails,
       Unlink, At, rowVars, JobsUnchanged, jobVars, homeVars
  <2>4. /\ final' \in [Jobs -> Content]
        /\ tmp' \in [Jobs -> Content]
    BY DEF TypeOK, Content, Output, PushLink, Push, Pushed, PushFails, Unlink, At, rowVars,
       JobsUnchanged, jobVars, homeVars
  <2>5. /\ row' \in [Jobs -> {"none", "Q", "R", "C"}]
        /\ rowNode' \in [Jobs -> Hosts \cup {NoHost}]
        /\ ppc' \in {"idle", "commit", "sweep"}
        /\ listing' \in [Tracked -> {"none", "Q", "R", "C"}]
        /\ dpc' \in [Jobs -> {"no", "checked", "removed", "failed", "deleted"}]
    BY DEF TypeOK, PushLink, Push, Pushed, PushFails, Unlink, At, rowVars, JobsUnchanged,
       jobVars, homeVars
  <2>6. req' \in [Requests -> {Idle} \cup
                 [pc : {"link", "push", "sending", "unlink", "openTmp"},
                  job : Jobs, node : Hosts, late : BOOLEAN] \cup
                 [pc : {"open"}, job : Jobs, node : Hosts \cup {NoHost}, late : BOOLEAN]]
    <3>1. \E x \in {"push", "sending", "unlink", "openTmp"} :
            req' = [req EXCEPT ![r].pc = x] /\ req[r].pc \in {"link", "push", "sending", "unlink"}
      BY DEF PushLink, Push, Pushed, PushFails, Unlink, At
    <3>2. QED
      BY <3>1 DEF TypeOK, Idle
  <2>7. /\ again' \subseteq Jobs /\ unsent' \cup unborn' \cup swept' \cup short' \subseteq Jobs
        /\ rebooted' \subseteq Hosts
    BY DEF TypeOK, PushLink, Push, Pushed, PushFails, Unlink, At, rowVars, JobsUnchanged,
       jobVars, homeVars
  <2>8. QED
    BY <2>1, <2>2, <2>3, <2>4, <2>5, <2>6, <2>7 DEF TypeOK
<1>2. Alone'
  BY DEF TypeOK, Alone, OnNode, Unfinished, Finishing, Past, PushLink, Push, Pushed,
     PushFails, Unlink, At, rowVars, JobsUnchanged, jobVars, homeVars
<1>3. LockHeld'
  BY DEF TypeOK, Alone, LockHeld, OnNode, Unfinished, Finishing, Past, PushLink, Push,
     Pushed, PushFails, Unlink, At, rowVars, JobsUnchanged, jobVars, homeVars
<1>4. HomesInOrder'
  BY DEF TypeOK, Alone, LockHeld, HomesInOrder, OnNode, Unfinished, Finishing, Past,
     PushLink, Push, Pushed, PushFails, Unlink, At, rowVars, JobsUnchanged, jobVars, homeVars
<1>5. DeliveredFirst'
  BY DEF TypeOK, HomesInOrder, DeliveredFirst, RowsFollow, OnNode, Unfinished, Finishing,
     Past, PushLink, Push, Pushed, PushFails, Unlink, At, rowVars, JobsUnchanged, jobVars,
     homeVars
<1>6. RowsFollow' /\ DeletedIsGone'
  BY DEF TypeOK, RowsFollow, DeletedIsGone, Over, OnNode, Unfinished, Finishing, Past,
     PushLink, Push, Pushed, PushFails, Unlink, At, rowVars, JobsUnchanged, jobVars, homeVars
<1>7. RequestsExcused'
  <2>1. PICK x \in {"push", "sending", "unlink", "openTmp"} :
          req' = [req EXCEPT ![r].pc = x] /\ req[r].pc \in {"link", "push", "sending", "unlink"}
    BY DEF PushLink, Push, Pushed, PushFails, Unlink, At
  <2>2. UNCHANGED <<jpc, unsent, dpc, swept, short, rebooted>>
    BY DEF PushLink, Push, Pushed, PushFails, Unlink, JobsUnchanged, jobVars, rowVars
  <2>3. req'[r].job = req[r].job /\ req'[r].late = req[r].late
    BY <2>1 DEF TypeOK, Idle
  <2>4. \A q \in Requests \ {r} : req'[q] = req[q]
    BY <2>1 DEF TypeOK
  <2>5. QED
    BY <2>1, <2>2, <2>3, <2>4 DEF RequestsExcused, Excused, Over
<1>8. QED
  BY <1>1, <1>2, <1>3, <1>4, <1>5, <1>6, <1>7

(* A request is answered. *)
LEMMA OpenKeeps ==
  ASSUME JInv, NEW r \in Requests,
         Open(r)
  PROVE  JInv'
<1>. USE OutputAssumption DEF JInv
<1>1. TypeOK'
  <2>1. /\ jpc' \in [Jobs -> Unfinished \cup Finishing \cup Past]
        /\ host' \in [Jobs -> Hosts \cup {NoHost}]
        /\ \A k \in Jobs : jpc'[k] \notin {"unborn", "queued"} => host'[k] # NoHost
    BY DEF TypeOK, OnNode, Unfinished, Finishing, Past, Open, rowVars, JobsUnchanged,
       jobVars, homeVars
  <2>2. /\ home' \in [Hosts -> {"missing", "free", "locked"}]
        /\ lockId' \in [Hosts -> Jobs \cup {NoJob}]
    BY DEF TypeOK, OnNode, Unfinished, Finishing, Past, Open, rowVars, JobsUnchanged,
       jobVars, homeVars
  <2>3. /\ files' \in [Hosts -> SUBSET Jobs]
        /\ links' \in [Hosts -> SUBSET Jobs]
    BY DEF TypeOK, OnNode, Unfinished, Finishing, Past, Open, rowVars, JobsUnchanged,
       jobVars, homeVars
  <2>4. /\ final' \in [Jobs -> Content]
        /\ tmp' \in [Jobs -> Content]
    BY DEF TypeOK, Content, Output, Open, rowVars, JobsUnchanged, jobVars, homeVars
  <2>5. /\ row' \in [Jobs -> {"none", "Q", "R", "C"}]
        /\ rowNode' \in [Jobs -> Hosts \cup {NoHost}]
        /\ ppc' \in {"idle", "commit", "sweep"}
        /\ listing' \in [Tracked -> {"none", "Q", "R", "C"}]
        /\ dpc' \in [Jobs -> {"no", "checked", "removed", "failed", "deleted"}]
    BY DEF TypeOK, Open, rowVars, JobsUnchanged, jobVars, homeVars
  <2>6. req' \in [Requests -> {Idle} \cup
                 [pc : {"link", "push", "sending", "unlink", "openTmp"},
                  job : Jobs, node : Hosts, late : BOOLEAN] \cup
                 [pc : {"open"}, job : Jobs, node : Hosts \cup {NoHost}, late : BOOLEAN]]
    BY DEF TypeOK, Open, rowVars, JobsUnchanged, jobVars, homeVars
  <2>7. /\ again' \subseteq Jobs /\ unsent' \cup unborn' \cup swept' \cup short' \subseteq Jobs
        /\ rebooted' \subseteq Hosts
    <3>1. req[r].job \in Jobs
      BY RequestTypes DEF Open
    <3>2. QED
      BY <3>1 DEF TypeOK, Open, JobsUnchanged, jobVars, rowVars
  <2>8. QED
    BY <2>1, <2>2, <2>3, <2>4, <2>5, <2>6, <2>7 DEF TypeOK
<1>2. Alone'
  BY DEF TypeOK, Alone, OnNode, Unfinished, Finishing, Past, Open, rowVars, JobsUnchanged,
     jobVars, homeVars
<1>3. LockHeld'
  BY DEF TypeOK, Alone, LockHeld, OnNode, Unfinished, Finishing, Past, Open, rowVars,
     JobsUnchanged, jobVars, homeVars
<1>4. HomesInOrder'
  BY DEF TypeOK, Alone, LockHeld, HomesInOrder, OnNode, Unfinished, Finishing, Past, Open,
     rowVars, JobsUnchanged, jobVars, homeVars
<1>5. DeliveredFirst'
  BY DEF TypeOK, HomesInOrder, DeliveredFirst, RowsFollow, OnNode, Unfinished, Finishing,
     Past, Open, rowVars, JobsUnchanged, jobVars, homeVars
<1>6. RowsFollow' /\ DeletedIsGone'
  BY DEF TypeOK, RowsFollow, DeletedIsGone, Over, OnNode, Unfinished, Finishing, Past, Open,
     rowVars, JobsUnchanged, jobVars, homeVars
<1>7. RequestsExcused'
  <2>1. /\ req[r].job \in Jobs /\ req[r].pc # "idle"
        /\ req' = [req EXCEPT ![r] = Idle]
        /\ UNCHANGED <<jpc, unsent, dpc, swept, final, rebooted>>
    BY RequestTypes DEF Open, JobsUnchanged, jobVars, rowVars
  <2>2. req[r].late /\ final[req[r].job] # "all" => Excused(req[r].job)
    BY <2>1 DEF RequestsExcused, DeliveredFirst, Excused, Over
  <2>3. \A k \in short' : Excused(k)
    BY <2>1, <2>2 DEF Open, RequestsExcused
  <2>4. \A q \in Requests : req'[q] = req[q] \/ req'[q].pc = "idle"
    BY <2>1 DEF TypeOK, Idle
  <2>5. QED
    BY <2>1, <2>3, <2>4 DEF RequestsExcused, Excused, Over
<1>8. QED
  BY <1>1, <1>2, <1>3, <1>4, <1>5, <1>6, <1>7

(* The row of a new job is committed. *)
LEMMA PersistKeeps ==
  ASSUME JInv, NEW j \in Jobs,
         Persist(j)
  PROVE  JInv'
<1>. USE OutputAssumption DEF JInv
<1>1. TypeOK'
  <2>1. /\ jpc' \in [Jobs -> Unfinished \cup Finishing \cup Past]
        /\ host' \in [Jobs -> Hosts \cup {NoHost}]
        /\ \A k \in Jobs : jpc'[k] \notin {"unborn", "queued"} => host'[k] # NoHost
    BY DEF TypeOK, OnNode, Unfinished, Finishing, Past, Persist, NodeIn, JobsUnchanged,
       jobVars, homeVars
  <2>2. /\ home' \in [Hosts -> {"missing", "free", "locked"}]
        /\ lockId' \in [Hosts -> Jobs \cup {NoJob}]
    BY DEF TypeOK, OnNode, Unfinished, Finishing, Past, Persist, NodeIn, JobsUnchanged,
       jobVars, homeVars
  <2>3. /\ files' \in [Hosts -> SUBSET Jobs]
        /\ links' \in [Hosts -> SUBSET Jobs]
    BY DEF TypeOK, OnNode, Unfinished, Finishing, Past, Persist, NodeIn, JobsUnchanged,
       jobVars, homeVars
  <2>4. /\ final' \in [Jobs -> Content]
        /\ tmp' \in [Jobs -> Content]
    BY DEF TypeOK, Content, Output, Persist, NodeIn, JobsUnchanged, jobVars, homeVars
  <2>5. /\ row' \in [Jobs -> {"none", "Q", "R", "C"}]
        /\ rowNode' \in [Jobs -> Hosts \cup {NoHost}]
        /\ ppc' \in {"idle", "commit", "sweep"}
        /\ listing' \in [Tracked -> {"none", "Q", "R", "C"}]
        /\ dpc' \in [Jobs -> {"no", "checked", "removed", "failed", "deleted"}]
    BY DEF TypeOK, Persist, NodeIn, JobsUnchanged, jobVars, homeVars
  <2>6. req' \in [Requests -> {Idle} \cup
                 [pc : {"link", "push", "sending", "unlink", "openTmp"},
                  job : Jobs, node : Hosts, late : BOOLEAN] \cup
                 [pc : {"open"}, job : Jobs, node : Hosts \cup {NoHost}, late : BOOLEAN]]
    BY DEF TypeOK, Persist, NodeIn, JobsUnchanged, jobVars, homeVars
  <2>7. /\ again' \subseteq Jobs /\ unsent' \cup unborn' \cup swept' \cup short' \subseteq Jobs
        /\ rebooted' \subseteq Hosts
    BY DEF TypeOK, Persist, NodeIn, JobsUnchanged, jobVars, homeVars
  <2>8. QED
    BY <2>1, <2>2, <2>3, <2>4, <2>5, <2>6, <2>7 DEF TypeOK
<1>2. Alone'
  BY DEF TypeOK, Alone, OnNode, Unfinished, Finishing, Past, Persist, NodeIn, JobsUnchanged,
     jobVars, homeVars
<1>3. LockHeld'
  BY DEF TypeOK, Alone, LockHeld, OnNode, Unfinished, Finishing, Past, Persist, NodeIn,
     JobsUnchanged, jobVars, homeVars
<1>4. HomesInOrder'
  BY DEF TypeOK, Alone, LockHeld, HomesInOrder, OnNode, Unfinished, Finishing, Past,
     Persist, NodeIn, JobsUnchanged, jobVars, homeVars
<1>5. DeliveredFirst'
  BY DEF TypeOK, HomesInOrder, DeliveredFirst, RowsFollow, OnNode, Unfinished, Finishing,
     Past, Persist, NodeIn, JobsUnchanged, jobVars, homeVars
<1>6. RowsFollow' /\ DeletedIsGone'
  BY DEF TypeOK, RowsFollow, DeletedIsGone, Over, OnNode, Unfinished, Finishing, Past,
     Persist, NodeIn, JobsUnchanged, jobVars, homeVars
<1>7. RequestsExcused'
  <2>1. /\ UNCHANGED <<req, short, rebooted>> /\ swept \subseteq swept'
        /\ \A k \in Jobs : Over(k) =>
              /\ Over(k)'
              /\ k \in unsent \/ dpc[k] # "no" => k \in unsent' \/ dpc'[k] # "no"
    BY DEF TypeOK, Over, Past, Persist, NodeIn, JobsUnchanged, jobVars, homeVars
  <2>2. QED
    BY <2>1, ExcusesStay
<1>8. QED
  BY <1>1, <1>2, <1>3, <1>4, <1>5, <1>6, <1>7

(* The rows follow the jobs, or are swept. *)
LEMMA PollKeeps ==
  ASSUME JInv,
         \/ PollQstat \/ PollCommit \/ PollSweep
  PROVE  JInv'
<1>. USE OutputAssumption DEF JInv
<1>1. TypeOK'
  <2>1. /\ jpc' \in [Jobs -> Unfinished \cup Finishing \cup Past]
        /\ host' \in [Jobs -> Hosts \cup {NoHost}]
        /\ \A k \in Jobs : jpc'[k] \notin {"unborn", "queued"} => host'[k] # NoHost
    BY DEF TypeOK, OnNode, Unfinished, Finishing, Past, PollQstat, PollCommit, PollSweep,
       NodeIn, Shown, JobsUnchanged, jobVars, homeVars
  <2>2. /\ home' \in [Hosts -> {"missing", "free", "locked"}]
        /\ lockId' \in [Hosts -> Jobs \cup {NoJob}]
    BY DEF TypeOK, OnNode, Unfinished, Finishing, Past, PollQstat, PollCommit, PollSweep,
       NodeIn, Shown, JobsUnchanged, jobVars, homeVars
  <2>3. /\ files' \in [Hosts -> SUBSET Jobs]
        /\ links' \in [Hosts -> SUBSET Jobs]
    BY DEF TypeOK, OnNode, Unfinished, Finishing, Past, PollQstat, PollCommit, PollSweep,
       NodeIn, Shown, JobsUnchanged, jobVars, homeVars
  <2>4. /\ final' \in [Jobs -> Content]
        /\ tmp' \in [Jobs -> Content]
    BY DEF TypeOK, Content, Output, PollQstat, PollCommit, PollSweep, NodeIn, Shown,
       JobsUnchanged, jobVars, homeVars
  <2>5. /\ row' \in [Jobs -> {"none", "Q", "R", "C"}]
        /\ rowNode' \in [Jobs -> Hosts \cup {NoHost}]
        /\ ppc' \in {"idle", "commit", "sweep"}
        /\ listing' \in [Tracked -> {"none", "Q", "R", "C"}]
        /\ dpc' \in [Jobs -> {"no", "checked", "removed", "failed", "deleted"}]
    BY DEF TypeOK, PollQstat, PollCommit, PollSweep, NodeIn, Shown, JobsUnchanged, jobVars,
       homeVars
  <2>6. req' \in [Requests -> {Idle} \cup
                 [pc : {"link", "push", "sending", "unlink", "openTmp"},
                  job : Jobs, node : Hosts, late : BOOLEAN] \cup
                 [pc : {"open"}, job : Jobs, node : Hosts \cup {NoHost}, late : BOOLEAN]]
    BY DEF TypeOK, PollQstat, PollCommit, PollSweep, NodeIn, Shown, JobsUnchanged, jobVars,
       homeVars
  <2>7. /\ again' \subseteq Jobs /\ unsent' \cup unborn' \cup swept' \cup short' \subseteq Jobs
        /\ rebooted' \subseteq Hosts
    BY DEF TypeOK, PollQstat, PollCommit, PollSweep, NodeIn, Shown, JobsUnchanged, jobVars,
       homeVars
  <2>8. QED
    BY <2>1, <2>2, <2>3, <2>4, <2>5, <2>6, <2>7 DEF TypeOK
<1>2. Alone'
  BY DEF TypeOK, Alone, OnNode, Unfinished, Finishing, Past, PollQstat, PollCommit,
     PollSweep, NodeIn, Shown, JobsUnchanged, jobVars, homeVars
<1>3. LockHeld'
  BY DEF TypeOK, Alone, LockHeld, OnNode, Unfinished, Finishing, Past, PollQstat,
     PollCommit, PollSweep, NodeIn, Shown, JobsUnchanged, jobVars, homeVars
<1>4. HomesInOrder'
  BY DEF TypeOK, Alone, LockHeld, HomesInOrder, OnNode, Unfinished, Finishing, Past,
     PollQstat, PollCommit, PollSweep, NodeIn, Shown, JobsUnchanged, jobVars, homeVars
<1>5. DeliveredFirst'
  BY DEF TypeOK, HomesInOrder, DeliveredFirst, RowsFollow, OnNode, Unfinished, Finishing,
     Past, PollQstat, PollCommit, PollSweep, NodeIn, Shown, JobsUnchanged, jobVars, homeVars
<1>6. RowsFollow' /\ DeletedIsGone'
  BY DEF TypeOK, RowsFollow, DeletedIsGone, Over, OnNode, Unfinished, Finishing, Past,
     PollQstat, PollCommit, PollSweep, NodeIn, Shown, JobsUnchanged, jobVars, homeVars
<1>7. RequestsExcused'
  <2>1. /\ UNCHANGED <<req, short, rebooted>> /\ swept \subseteq swept'
        /\ \A k \in Jobs : Over(k) =>
              /\ Over(k)'
              /\ k \in unsent \/ dpc[k] # "no" => k \in unsent' \/ dpc'[k] # "no"
    BY DEF TypeOK, Over, Past, PollQstat, PollCommit, PollSweep, NodeIn, Shown,
       JobsUnchanged, jobVars, homeVars
  <2>2. QED
    BY <2>1, ExcusesStay
<1>8. QED
  BY <1>1, <1>2, <1>3, <1>4, <1>5, <1>6, <1>7

(* A job is deleted. *)
LEMMA DeleteKeeps ==
  ASSUME JInv, NEW j \in Jobs,
         \/ DeleteCheck(j) \/ DeleteFiles(j) \/ DeleteEnds(j)
  PROVE  JInv'
<1>. USE OutputAssumption DEF JInv
<1>1. TypeOK'
  <2>1. /\ jpc' \in [Jobs -> Unfinished \cup Finishing \cup Past]
        /\ host' \in [Jobs -> Hosts \cup {NoHost}]
        /\ \A k \in Jobs : jpc'[k] \notin {"unborn", "queued"} => host'[k] # NoHost
    BY DEF TypeOK, OnNode, Unfinished, Finishing, Past, DeleteCheck, DeleteFiles,
       DeleteEnds, rowVars, JobsUnchanged, jobVars, homeVars
  <2>2. /\ home' \in [Hosts -> {"missing", "free", "locked"}]
        /\ lockId' \in [Hosts -> Jobs \cup {NoJob}]
    BY DEF TypeOK, OnNode, Unfinished, Finishing, Past, DeleteCheck, DeleteFiles,
       DeleteEnds, rowVars, JobsUnchanged, jobVars, homeVars
  <2>3. /\ files' \in [Hosts -> SUBSET Jobs]
        /\ links' \in [Hosts -> SUBSET Jobs]
    BY DEF TypeOK, OnNode, Unfinished, Finishing, Past, DeleteCheck, DeleteFiles,
       DeleteEnds, rowVars, JobsUnchanged, jobVars, homeVars
  <2>4. /\ final' \in [Jobs -> Content]
        /\ tmp' \in [Jobs -> Content]
    BY DEF TypeOK, Content, Output, DeleteCheck, DeleteFiles, DeleteEnds, rowVars,
       JobsUnchanged, jobVars, homeVars
  <2>5. /\ row' \in [Jobs -> {"none", "Q", "R", "C"}]
        /\ rowNode' \in [Jobs -> Hosts \cup {NoHost}]
        /\ ppc' \in {"idle", "commit", "sweep"}
        /\ listing' \in [Tracked -> {"none", "Q", "R", "C"}]
        /\ dpc' \in [Jobs -> {"no", "checked", "removed", "failed", "deleted"}]
    BY DEF TypeOK, DeleteCheck, DeleteFiles, DeleteEnds, rowVars, JobsUnchanged, jobVars,
       homeVars
  <2>6. req' \in [Requests -> {Idle} \cup
                 [pc : {"link", "push", "sending", "unlink", "openTmp"},
                  job : Jobs, node : Hosts, late : BOOLEAN] \cup
                 [pc : {"open"}, job : Jobs, node : Hosts \cup {NoHost}, late : BOOLEAN]]
    BY DEF TypeOK, DeleteCheck, DeleteFiles, DeleteEnds, rowVars, JobsUnchanged, jobVars,
       homeVars
  <2>7. /\ again' \subseteq Jobs /\ unsent' \cup unborn' \cup swept' \cup short' \subseteq Jobs
        /\ rebooted' \subseteq Hosts
    BY DEF TypeOK, DeleteCheck, DeleteFiles, DeleteEnds, rowVars, JobsUnchanged, jobVars,
       homeVars
  <2>8. QED
    BY <2>1, <2>2, <2>3, <2>4, <2>5, <2>6, <2>7 DEF TypeOK
<1>2. Alone'
  BY DEF TypeOK, Alone, OnNode, Unfinished, Finishing, Past, DeleteCheck, DeleteFiles,
     DeleteEnds, rowVars, JobsUnchanged, jobVars, homeVars
<1>3. LockHeld'
  BY DEF TypeOK, Alone, LockHeld, OnNode, Unfinished, Finishing, Past, DeleteCheck,
     DeleteFiles, DeleteEnds, rowVars, JobsUnchanged, jobVars, homeVars
<1>4. HomesInOrder'
  BY DEF TypeOK, Alone, LockHeld, HomesInOrder, OnNode, Unfinished, Finishing, Past,
     DeleteCheck, DeleteFiles, DeleteEnds, rowVars, JobsUnchanged, jobVars, homeVars
<1>5. DeliveredFirst'
  BY DEF TypeOK, HomesInOrder, DeliveredFirst, RowsFollow, OnNode, Unfinished, Finishing,
     Past, DeleteCheck, DeleteFiles, DeleteEnds, rowVars, JobsUnchanged, jobVars, homeVars
<1>6. RowsFollow' /\ DeletedIsGone'
  BY DEF TypeOK, RowsFollow, DeletedIsGone, Over, OnNode, Unfinished, Finishing, Past,
     DeleteCheck, DeleteFiles, DeleteEnds, rowVars, JobsUnchanged, jobVars, homeVars
<1>7. RequestsExcused'
  <2>1. /\ UNCHANGED <<req, short, rebooted>> /\ swept \subseteq swept'
        /\ \A k \in Jobs : Over(k) =>
              /\ Over(k)'
              /\ k \in unsent \/ dpc[k] # "no" => k \in unsent' \/ dpc'[k] # "no"
    BY DEF TypeOK, Over, Past, DeleteCheck, DeleteFiles, DeleteEnds, rowVars, JobsUnchanged,
       jobVars, homeVars
  <2>2. QED
    BY <2>1, ExcusesStay
<1>8. QED
  BY <1>1, <1>2, <1>3, <1>4, <1>5, <1>6, <1>7

(* The initial states satisfy the invariant, *)
LEMMA InitJInv == Init => JInv
  BY OutputAssumption
  DEF Init, JInv, TypeOK, Idle, Content, Alone, LockHeld, HomesInOrder, DeliveredFirst, RowsFollow,
      DeletedIsGone, RequestsExcused, OnNode, Unfinished, Finishing, Past

(* and every step keeps it. *)
LEMMA NextJInv == JInv /\ [Next]_vars => JInv'
<1>. SUFFICES ASSUME JInv, [Next]_vars PROVE JInv'
  OBVIOUS
<1>1. ASSUME NEW j \in Jobs, Run(j) PROVE JInv'
  BY <1>1, PlacesKeep, DispatchKeeps, LockKeeps, DeliverKeeps, HomeKeeps DEF Run, Script
<1>2. ASSUME NEW r \in Requests, Request(r) PROVE JInv'
  BY <1>2, LookKeeps, PushKeeps, OpenKeeps DEF Request
<1>3. CASE UNCHANGED vars
  BY <1>3
  DEF vars, jobVars, homeVars, serverVars, rowVars, Over, JInv, TypeOK, Alone, LockHeld, HomesInOrder,
      DeliveredFirst, RowsFollow, DeletedIsGone, RequestsExcused, Excused
<1>4. ASSUME NEW j \in Jobs, Qsub(j) \/ Purge(j) \/ Persist(j) PROVE JInv'
  BY <1>4, PlacesKeep, PersistKeeps
<1>5. QED
  BY <1>1, <1>2, <1>3, <1>4, RebootKeeps, PollKeeps, DeleteKeeps DEF Next

(* The invariant holds in every reachable state. *)
THEOREM InvariantHolds == Spec => []JInv
  BY InitJInv, NextJInv, PTL DEF Spec

(* Every variable keeps its type. *)
THEOREM TypeCorrect == Spec => []TypeOK
<1>1. JInv => TypeOK
  BY DEF JInv
<1>2. QED
  BY <1>1, InvariantHolds, PTL

(* A job runs in a home that it has locked and, unless a node stopped,     *)
(* that holds its own output only.                                         *)
THEOREM HomesAreOwn == Spec => []HomeIsOwn
<1>1. JInv => HomeIsOwn
  BY DEF JInv, LockHeld, HomesInOrder, HomeIsOwn
<1>2. QED
  BY <1>1, InvariantHolds, PTL

(* The output of completed jobs is on the server until it is deleted,      *)
(* unless its delivery failed or a node stopped.                           *)
THEOREM OutputsKept == Spec => []OutputKept
<1>1. JInv => OutputKept
  BY DEF JInv, DeliveredFirst, OutputKept, Over
<1>2. QED
  BY <1>1, InvariantHolds, PTL

(* Nobody gets part of the output of a job that was shown as completed,    *)
(* unless its delivery failed, it is being deleted, or its row was swept   *)
(* although it was submitted after qstat listed nothing.                   *)
THEOREM CompletedsAreWhole == Spec => []CompletedIsWhole
<1>1. JInv => CompletedIsWhole
  BY DEF JInv, RequestsExcused, Excused, CompletedIsWhole
<1>2. QED
  BY <1>1, InvariantHolds, PTL

(* A deleted job has ended, and the output its epilogue delivered stays    *)
(* away from the server, unless its row was swept.                         *)
THEOREM DeletedsAreGone == Spec => []DeletedIsGone
<1>1. JInv => DeletedIsGone
  BY DEF JInv
<1>2. QED
  BY <1>1, InvariantHolds, PTL

(* While no node stops, every step of a job takes it to a later stage: the *)
(* home is free when its prologue starts, so that no prologue fails, and   *)
(* no job is marked to be queued again.                                    *)
LEMMA RunGoesOn ==
  ASSUME JInv, NEW j \in Jobs, Run(j), rebooted = {}
  PROVE  \A k \in Jobs : jpc'[k] = jpc[k] \/ Place[jpc[k]] < Place[jpc'[k]]
<1>1. again = {} /\ jpc \in [Jobs -> Unfinished \cup Finishing \cup Past]
  BY DEF JInv, TypeOK, HomesInOrder
<1>2. Ended(j) = "completed"
  BY <1>1 DEF Ended
<1>3. ~PrologueFails(j)
  <2>1. SUFFICES ASSUME PrologueFails(j) PROVE FALSE
    OBVIOUS
  <2>2. jpc[j] = "prologue" /\ home[host[j]] # "free" /\ host[j] \in Hosts
    BY <2>1, OutputAssumption DEF PrologueFails, Go, JInv, TypeOK
  <2>3. \A k \in Jobs : host[k] = host[j] => jpc[k] \notin OnNode \ {"prologue"}
    BY <2>2 DEF JInv, Alone, OnNode, Unfinished, Finishing, Past
  <2>4. QED
    BY <2>2, <2>3 DEF JInv, HomesInOrder
<1>4. CASE MakeLock(j) \/ WriteId(j) \/ Exit(j) \/ \E h \in Hosts : Dispatch(j, h)
  BY <1>1, <1>4 DEF MakeLock, WriteId, Exit, Dispatch, Go, Place
<1>5. CASE CheckLock(j) \/ Deliver(j) \/ Delivered(j) \/ DeliveryFails(j)
  BY <1>1, <1>2, <1>5 DEF CheckLock, Deliver, Delivered, DeliveryFails, Go, Place
<1>6. CASE RemoveHome(j) \/ MakeHome(j)
  BY <1>1, <1>2, <1>6 DEF RemoveHome, MakeHome, Go, Place
<1>7. QED
  BY <1>3, <1>4, <1>5, <1>6 DEF Run, Script

(* While no node stops every job goes through its stages once, for any     *)
(* number of jobs and nodes and with copies that fail.                     *)
THEOREM JobsRunOnce == Spec => RunsOnce
<1>. DEFINE A == rebooted' = {} =>
                   \A j \in Jobs : jpc'[j] = jpc[j] \/ Place[jpc[j]] < Place[jpc'[j]]
<1>1. JInv /\ [Next]_vars => [A]_vars
  <2>. SUFFICES ASSUME JInv, Next, rebooted' = {}
                PROVE  \A j \in Jobs : jpc'[j] = jpc[j] \/ Place[jpc[j]] < Place[jpc'[j]]
    OBVIOUS
  <2>1. ASSUME NEW j \in Jobs, Run(j) PROVE rebooted = {}
    BY <2>1
    DEF Run, Script, MakeLock, PrologueFails, WriteId, CheckLock, Deliver, Delivered,
        DeliveryFails, RemoveHome, MakeHome, Exit, Dispatch, ServerUnchanged
  <2>2. ASSUME NEW j \in Jobs, DeleteCheck(j) \/ DeleteFiles(j) \/ DeleteEnds(j)
        PROVE  jpc' = jpc
    BY <2>2 DEF DeleteCheck, DeleteFiles, DeleteEnds, JobsUnchanged, jobVars
  <2>3. ASSUME NEW r \in Requests, Request(r) PROVE jpc' = jpc
    BY <2>3
    DEF Request, Look, PushLink, Push, Pushed, PushFails, Unlink, Open, JobsUnchanged, jobVars
  <2>4. ASSUME PollQstat \/ PollCommit \/ PollSweep \/ \E j \in Jobs : Persist(j)
        PROVE  jpc' = jpc
    BY <2>4 DEF PollQstat, PollCommit, PollSweep, Persist, JobsUnchanged, jobVars
  <2>5. ASSUME NEW h \in Hosts, Reboot(h) PROVE FALSE
    BY <2>5 DEF Reboot
  <2>6. ASSUME NEW j \in Jobs, Qsub(j) \/ Purge(j)
        PROVE  \A k \in Jobs : jpc'[k] = jpc[k] \/ Place[jpc[k]] < Place[jpc'[k]]
    BY <2>6 DEF Qsub, Purge, Go, Place, JInv, TypeOK
  <2>7. QED
    BY <2>1, <2>2, <2>3, <2>4, <2>5, <2>6, RunGoesOn DEF Next
<1>2. QED
  BY <1>1, InvariantHolds, PTL DEF Spec, RunsOnce
=============================================================================
