-------------------------------- MODULE Pbs --------------------------------
(***************************************************************************)
(* Pbs.java, the server's wrapper of pbsnodes, qsig, qstat and qsub.  Its  *)
(* methods are not atomic: each is a sequence of commands, and Torque, the *)
(* users and the other threads of the server act between two commands.     *)
(* The operators here are the single commands; MachineEJB strings them     *)
(* together in the order of setOffline and setOnline.                      *)
(***************************************************************************)
EXTENDS Torque

(* What prepareMachine keeps of getStates: the nodes neither offline nor   *)
(* down or, when there is none, every node.                                *)
Candidates ==
    IF Hosts \subseteq offline \cup down
    THEN Hosts
    ELSE Hosts \ (offline \cup down)

(* pbsnodes -o h, the first command of setOffline *)
PbsnodesOffline(h) ==
    /\ offline' = offline \cup {h}
    /\ UNCHANGED <<down, jobState, jobHost>>

(* pbsnodes -c h, the first command of setOnline *)
PbsnodesClear(h) ==
    /\ offline' = offline \ {h}
    /\ UNCHANGED <<down, jobState, jobHost>>

(* qsig -s suspend j as suspendJob takes it: exit code 170, "Invalid state *)
(* for job", is not an error.                                              *)
QsigSuspend(j) ==
    /\ \/ jobState[j] = "R" /\ jobHost[j] \notin down
       \/ jobState[j] \in {"S", "E", "C"}
    /\ jobState' = [jobState EXCEPT ![j] = IF @ = "R" THEN "S" ELSE @]
    /\ UNCHANGED <<offline, down, jobHost>>

(* A job Torque has purged is unknown to qsig, and a running job on an     *)
(* unreachable node cannot be signalled: suspendJob throws.                *)
SuspendThrows(j) ==
    \/ jobState[j] = "gone"
    \/ jobState[j] = "R" /\ jobHost[j] \in down

(* qsig -s resume j as resumeJob takes it *)
QsigResume(j) ==
    /\ jobState[j] = "S"
    /\ jobHost[j] \notin down
    /\ jobState' = [jobState EXCEPT ![j] = "R"]
    /\ UNCHANGED <<offline, down, jobHost>>

(* resumeJob treats every error as fatal, also that the job is no longer   *)
(* suspended.                                                              *)
ResumeThrows(j) == jobState[j] # "S" \/ jobHost[j] \in down

(* The jobs setOnline resumes, as it reads them in the output of qstat -x. *)
SuspendedOn(h) == {j \in Known : jobState[j] = "S" /\ jobHost[j] = h}
=============================================================================
