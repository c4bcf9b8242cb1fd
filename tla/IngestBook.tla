----------------------------- MODULE IngestBook -----------------------------
(***************************************************************************)
(* What the ingest promises to those who put a trigger file into its input *)
(* directory and to those who read its datasets in ICAT, whatever daemons, *)
(* jobs and failures there are: a trigger moves once, to done or to        *)
(* failures; a dataset is built for a trigger that arrived, on datasets    *)
(* that exist; one that is whole stays as it is, but for a directory whose *)
(* job did not hear that the update that made it whole had worked; only a  *)
(* directory is removed.  IngestDaemon implements it.                      *)
(***************************************************************************)
CONSTANTS
    Triggers,  \* trigger files; each names the input of one dataset
    Simple,    \* those of simple dependencies
    Deps       \* pairs of a directory and a simple dependency it refers to

VARIABLES
    where,     \* the directory of each trigger file
    content,   \* the dataset of each trigger
    masked,    \* triggers moved to done by a daemon that was misled
    unheard    \* those whose dataset is whole while their job takes it for
               \* unfinished and is about to remove it

bookVars == <<where, content, masked, unheard>>

BookInit ==
    /\ where = [t \in Triggers |-> "none"]
    /\ content = [t \in Triggers |-> "absent"]
    /\ masked = {} /\ unheard = {}

Moves(t, from, to) ==
    /\ where[t] = from /\ where' = [where EXCEPT ![t] = to]
    /\ UNCHANGED <<content, unheard>>

Becomes(t, from, to) ==
    /\ content[t] = from /\ content' = [content EXCEPT ![t] = to]
    /\ UNCHANGED <<where, masked>>

Arrive(t) == Moves(t, "none", "input") /\ UNCHANGED masked

(* Its dataset is whole, and will stay so. *)
Done(t) ==
    /\ Moves(t, "input", "done") /\ UNCHANGED masked
    /\ content[t] = "whole" /\ t \notin unheard

(* The daemon took a job for successful that was not. *)
DoneMisled(t) == Moves(t, "input", "done") /\ masked' = masked \cup {t}

Fail(t) == Moves(t, "input", "failures") /\ UNCHANGED masked

Build(t) ==
    /\ where[t] # "none"
    /\ \A d \in Simple : <<t, d>> \in Deps => content[d] # "absent"
    /\ Becomes(t, "absent", "partial") /\ UNCHANGED unheard

(* One that is left in parts may stay so. *)
Finish(t) == Becomes(t, "partial", "whole") /\ UNCHANGED unheard

FinishUnheard(t) ==
    /\ t \notin Simple
    /\ Becomes(t, "partial", "whole") /\ unheard' = unheard \cup {t}

(* The job removes it, or its files only, *)
Withdraw(t) ==
    /\ t \in unheard /\ unheard' = unheard \ {t}
    /\ Becomes(t, "whole", "partial") \/ Becomes(t, "whole", "absent")

(* or ends before that, and it stays. *)
Keep(t) ==
    /\ t \in unheard /\ unheard' = unheard \ {t}
    /\ UNCHANGED <<where, content, masked>>

Remove(t) == t \notin Simple /\ Becomes(t, "partial", "absent") /\ UNCHANGED unheard

BookNext ==
    \E t \in Triggers :
        \/ Arrive(t) \/ Done(t) \/ DoneMisled(t) \/ Fail(t)
        \/ Build(t) \/ Finish(t) \/ FinishUnheard(t)
        \/ Withdraw(t) \/ Keep(t) \/ Remove(t)

BookSpec == BookInit /\ [][BookNext]_bookVars
=============================================================================
