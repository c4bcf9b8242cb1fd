------------------------------- MODULE Torque -------------------------------
(***************************************************************************)
(* The Torque batch system as the IJP server uses it: worker nodes that    *)
(* pbsnodes can mark offline, and batch jobs that qsub queues, the         *)
(* scheduler dispatches, qsig suspends and resumes, qdel cancels and the   *)
(* server forgets some time after they complete (keep_completed).  Torque  *)
(* is not part of the repository: this module says what the commands that  *)
(* Pbs.java and JobManagementBean.java run do to it.                       *)
(***************************************************************************)
EXTENDS FiniteSets

CONSTANTS
    Hosts,    \* the worker nodes
    Jobs,     \* identifiers qsub can hand out, each one once
    NoHost    \* the exec_host of a job that was never dispatched

ASSUME TorqueAssumption == NoHost \notin Hosts

VARIABLES
    offline,   \* nodes whose state contains "offline" (pbsnodes -o / -c)
    down,      \* nodes whose state contains "down": they cannot be reached
    jobState,  \* "none" before qsub; then Q, R, S, E, C as qstat prints them; "gone" once purged
    jobHost    \* the node a job was dispatched to

torqueVars == <<offline, down, jobState, jobHost>>

(* H, T and W, of jobs that are held, moved or waiting, are left out: no   *)
(* command of this code makes one, and it asks only whether a row says C.  *)
JobStates == {"none", "Q", "R", "S", "E", "C", "gone"}

TorqueTypeOK ==
    /\ offline \subseteq Hosts
    /\ down \subseteq Hosts
    /\ jobState \in [Jobs -> JobStates]
    /\ jobHost \in [Jobs -> Hosts \cup {NoHost}]

TorqueInit ==
    /\ offline = {}
    /\ down = {}
    /\ jobState = [j \in Jobs |-> "none"]
    /\ jobHost = [j \in Jobs |-> NoHost]

(* The jobs qstat -x lists. *)
Known == {j \in Jobs : jobState[j] \notin {"none", "gone"}}

(* The jobs a node holds: a suspended or exiting job keeps its slot. *)
Occupants(h) == {j \in Jobs : jobHost[j] = h /\ jobState[j] \in {"R", "S", "E"}}

Running(h) == {j \in Jobs : jobHost[j] = h /\ jobState[j] = "R"}

-----------------------------------------------------------------------------
(* qsub *)
Qsub(j) ==
    /\ jobState[j] = "none"
    /\ jobState' = [jobState EXCEPT ![j] = "Q"]
    /\ UNCHANGED <<offline, down, jobHost>>

(* The scheduler starts a queued job on a free node (np = 1) that is up. *)
Dispatch(j, h) ==
    /\ jobState[j] = "Q"
    /\ h \notin offline \cup down
    /\ Occupants(h) = {}
    /\ jobState' = [jobState EXCEPT ![j] = "R"]
    /\ jobHost' = [jobHost EXCEPT ![j] = h]
    /\ UNCHANGED <<offline, down>>

(* The job's script ends and the epilogue begins. *)
Exit(j) ==
    /\ jobState[j] = "R"
    /\ jobState' = [jobState EXCEPT ![j] = "E"]
    /\ UNCHANGED <<offline, down, jobHost>>

(* The epilogue has ended. *)
Complete(j) ==
    /\ jobState[j] = "E"
    /\ jobState' = [jobState EXCEPT ![j] = "C"]
    /\ UNCHANGED <<offline, down, jobHost>>

(* qdel: a job that was started still has its epilogue. *)
Qdel(j) ==
    /\ jobState[j] \in {"Q", "R", "S"}
    /\ jobState' = [jobState EXCEPT ![j] = IF @ = "Q" THEN "C" ELSE "E"]
    /\ UNCHANGED <<offline, down, jobHost>>

(* keep_completed seconds after completion Torque forgets the job. *)
Purge(j) ==
    /\ jobState[j] = "C"
    /\ jobState' = [jobState EXCEPT ![j] = "gone"]
    /\ UNCHANGED <<offline, down, jobHost>>
=============================================================================
