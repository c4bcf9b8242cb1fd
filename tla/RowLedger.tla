----------------------------- MODULE RowLedger -----------------------------
(***************************************************************************)
(* What the rows of the batch jobs promise to their submitters, whatever   *)
(* qstat, the timer, the requests and crashes do to them: a row is made    *)
(* once; the job it calls complete, or whose row is removed, has ended,    *)
(* but for jobs that a sweep overlooked; a row that was removed never      *)
(* comes back.  BatchJobs implements it.                                   *)
(***************************************************************************)
CONSTANT Jobs   \* the jobs

VARIABLES
    row,        \* the row of each job
    over,       \* jobs that have ended
    overlooked  \* jobs that were taken for ended without having been asked for

ledgerVars == <<row, over, overlooked>>

LedgerInit ==
    /\ row = [j \in Jobs |-> "none"]
    /\ over = {}
    /\ overlooked = {}

(* What the row of j may be made to say after a question to Torque. *)
Answers(j) == {"open"} \cup {s \in {"complete"} : j \in over}

Open(j) == row[j] \in {"open", "complete"}

(* A submission ends. *)
Record(j) ==
    /\ row[j] = "none"
    /\ \E s \in Answers(j) : row' = [row EXCEPT ![j] = s]
    /\ UNCHANGED <<over, overlooked>>

(* The timer rewrites rows that are there.  What it asked may be long ago, *)
(* so that a complete job can be shown as open once more.                  *)
Refresh ==
    /\ \E new \in [Jobs -> {"none", "open", "complete", "removed"}] :
          /\ \A j \in Jobs : new[j] = row[j] \/ (Open(j) /\ new[j] \in Answers(j))
          /\ row' = new
    /\ UNCHANGED <<over, overlooked>>

(* It closes rows whose jobs Torque did not list. *)
Sweep ==
    /\ \E K \in SUBSET Jobs :
          /\ \A j \in K : Open(j)
          /\ row' = [j \in Jobs |-> IF j \in K THEN "complete" ELSE row[j]]
          /\ K \subseteq over \cup overlooked'
    /\ \E L \in SUBSET Jobs :
          /\ \A j \in L : row'[j] \in {"complete", "removed"}
          /\ overlooked' = overlooked \cup L
    /\ UNCHANGED over

Remove(j) ==
    /\ Open(j) /\ j \in over \cup overlooked
    /\ row' = [row EXCEPT ![j] = "removed"]
    /\ UNCHANGED <<over, overlooked>>

End(j) ==
    /\ over' = over \cup {j}
    /\ UNCHANGED <<row, overlooked>>

LedgerNext ==
    \/ \E j \in Jobs : Record(j) \/ Remove(j) \/ End(j)
    \/ Refresh
    \/ Sweep

LedgerSpec == LedgerInit /\ [][LedgerNext]_ledgerVars
=============================================================================
