--------------------------- MODULE ProjectStore ---------------------------
(***************************************************************************)
(* What the jobs that store projects promise to those who read ICAT: a     *)
(* project is built, once, and is then whole for ever or removed again.    *)
(* A project that is whole is touched in one case only: its job did not    *)
(* hear that the update that made it whole had worked, and undoes it.      *)
(* ProjectJobs implements it; Viewers reads it.                            *)
(***************************************************************************)
CONSTANT Jobs      \* each stores at most one project

VARIABLES
    project,   \* the project of each
    unheard    \* jobs that do not know that their project is, or was, whole

storeVars == <<project, unheard>>

StoreInit == project = [j \in Jobs |-> "absent"] /\ unheard = {}

Becomes(j, from, to) == project[j] = from /\ project' = [project EXCEPT ![j] = to]

(* One left in parts may stay so. *)
Build(j) == Becomes(j, "absent", "partial") /\ UNCHANGED unheard
Finish(j) == Becomes(j, "partial", "whole") /\ UNCHANGED unheard
FinishUnheard(j) == Becomes(j, "partial", "whole") /\ unheard' = unheard \cup {j}
Spoil(j) == j \in unheard /\ Becomes(j, "whole", "partial") /\ UNCHANGED unheard
Remove(j) == Becomes(j, "partial", "removed") /\ UNCHANGED unheard

StoreNext ==
    \E j \in Jobs : Build(j) \/ Finish(j) \/ FinishUnheard(j) \/ Spoil(j) \/ Remove(j)

StoreSpec == StoreInit /\ [][StoreNext]_storeVars
=============================================================================
