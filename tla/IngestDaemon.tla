---------------------------- MODULE IngestDaemon ----------------------------
(***************************************************************************)
(* server_site/files/ingest.py: the daemon that submits an ingest job for  *)
(* every trigger file in its input directory, watches the jobs and moves   *)
(* the trigger to done or to failures; and the launcher, which relauncher  *)
(* (cron) and Puppet run when the process in pidfile is not alive.         *)
(*                                                                         *)
(* What the daemon knows of its jobs is in memory only; the jobs, the      *)
(* directories and ICAT outlive it.  One section of the configuration is   *)
(* modelled: sections have directories of their own and take turns.        *)
(***************************************************************************)
EXTENDS DatasetIngest

CONSTANTS
    Daemons,   \* processes of the daemon
    NoDaemon,  \* pidfile does not exist
    Bad        \* trigger files that are not two words

(* "fault": a step of an ingest job fails; "kill": a running job is killed; *)
(* "ijp": a command of the ijp client fails; "login": so does a login;     *)
(* "crash": the daemon dies; "term": it is sent SIGTERM.                   *)
EventKinds == {"fault", "kill", "ijp", "login", "crash", "term"}

ASSUME DaemonAssumption ==
    /\ NoDaemon \notin Daemons
    /\ Bad \subseteq Triggers
    /\ Events \subseteq EventKinds

VARIABLES
    where,     \* the directory of each trigger file
    shown,     \* what "ijp status" says of each job
    dpc,       \* where each daemon stands
    todo,      \* triggers left in its current loop
    status,    \* its job for each trigger
    failures,  \* its failures: "old" is longer than maxtime ago
    term,      \* daemons that got SIGTERM
    finished,  \* the job it is about to delete
    pidfile,   \* the daemon named in pidfile
    masked     \* history: triggers moved to done because of an early job

daemonVars == <<dpc, todo, status, failures, term, finished, pidfile>>
vars == <<ingestVars, where, shown, daemonVars, masked>>

Loop == {"submit", "look", "delete"}

TypeOK ==
    /\ IngestTypeOK
    /\ where \in [Triggers -> {"none", "input", "done", "failures"}]
    /\ shown \in [Jobs -> {"none", "Queued", "Executing", "Completed"}]
    /\ dpc \in [Daemons -> {"off", "launching"} \cup Loop]
    /\ todo \in [Daemons -> SUBSET Triggers]
    /\ status \in [Daemons -> [Triggers -> Jobs \cup {NoJob}]]
    /\ failures \in [Daemons -> [Triggers -> {"no", "fresh", "old"}]]
    /\ term \subseteq Daemons
    /\ finished \in [Daemons -> Jobs \cup {NoJob}]
    /\ pidfile \in Daemons \cup {NoDaemon}
    /\ masked \subseteq Triggers

NoStatus == [t \in Triggers |-> NoJob]
NoFailures == [t \in Triggers |-> "no"]

Init ==
    /\ IngestInit
    /\ where = [t \in Triggers |-> "none"]
    /\ shown = [j \in Jobs |-> "none"]
    /\ dpc = [d \in Daemons |-> "off"]
    /\ todo = [d \in Daemons |-> {}]
    /\ status = [d \in Daemons |-> NoStatus]
    /\ failures = [d \in Daemons |-> NoFailures]
    /\ term = {}
    /\ finished = [d \in Daemons |-> NoJob]
    /\ pidfile = NoDaemon
    /\ masked = {}

Pending(d) == {t \in Triggers : status[d][t] # NoJob}

Step(d, from, to) == dpc[d] = from /\ dpc' = [dpc EXCEPT ![d] = to]
Did(d, t) == t \in todo[d] /\ todo' = [todo EXCEPT ![d] = @ \ {t}]

(* The process ends, and with it all it knew. *)
Stop(d) ==
    /\ dpc' = [dpc EXCEPT ![d] = "off"]
    /\ todo' = [todo EXCEPT ![d] = {}]
    /\ status' = [status EXCEPT ![d] = NoStatus]
    /\ failures' = [failures EXCEPT ![d] = NoFailures]
    /\ term' = term \ {d}
    /\ finished' = [finished EXCEPT ![d] = NoJob]
    /\ UNCHANGED <<ingestVars, where, shown, pidfile, masked>>

-----------------------------------------------------------------------------
(* relauncher and launcher                                                 *)

(* No process has the id in pidfile. *)
CheckPidfile(d) ==
    /\ pidfile \notin {e \in Daemons : dpc[e] \in Loop}
    /\ Step(d, "off", "launching")
    /\ UNCHANGED <<ingestVars, where, shown, todo, status, failures, term, finished,
                   pidfile, masked>>

(* The daemon logs in and begins a round: it lists the input directory.    *)
BeginRound(d) == todo' = [todo EXCEPT ![d] = {t \in Triggers : where[t] = "input"}]

(* It is started, and the launcher writes its id to pidfile. *)
Launch(d) ==
    /\ \/ Step(d, "launching", "submit") /\ BeginRound(d)
       \/ "login" \in Events /\ Step(d, "launching", "off") /\ UNCHANGED todo
    /\ pidfile' = d
    /\ UNCHANGED <<ingestVars, where, shown, status, failures, term, finished, masked>>

-----------------------------------------------------------------------------
(* ingest.py                                                               *)

(* A trigger it is to submit. *)
Wanted(d, t) == dpc[d] = "submit" /\ d \notin term /\ status[d][t] = NoJob

SkipTrigger(d, t) ==
    /\ dpc[d] = "submit" /\ ~Wanted(d, t)
    /\ Did(d, t)
    /\ UNCHANGED <<ingestVars, where, shown, dpc, status, failures, term, finished,
                   pidfile, masked>>

(* A file that is gone or not two words long ends the daemon. *)
TriggerUnreadable(d, t) ==
    /\ Wanted(d, t)
    /\ t \in todo[d]
    /\ where[t] # "input" \/ t \in Bad
    /\ Stop(d)

(* ijp submit *)
Submit(d, t, j) ==
    /\ Wanted(d, t)
    /\ where[t] = "input" /\ t \notin Bad
    /\ Did(d, t)
    /\ jpc[j] = "none"
    /\ jpc' = [jpc EXCEPT ![j] = "queued"]
    /\ input' = [input EXCEPT ![j] = t]
    /\ shown' = [shown EXCEPT ![j] = "Queued"]
    /\ status' = [status EXCEPT ![d][t] = j]
    /\ UNCHANGED <<dataset, writer, stderr, early, where, dpc, failures, term,
                   finished, pidfile, masked>>

(* Mutant of SubmitFails: the return code is not looked at. *)
SubmitFailsUnseen(d, t) ==
    /\ Wanted(d, t)
    /\ where[t] = "input" /\ t \notin Bad
    /\ "ijp" \in Events
    /\ Did(d, t)
    /\ status' = [status EXCEPT ![d][t] = NoTrigger]
    /\ UNCHANGED <<ingestVars, where, shown, dpc, failures, term, finished, pidfile,
                   masked>>

(* It fails, or there are as many jobs already as the bound Jobs admits. *)
SubmitFails(d, t) ==
    /\ Wanted(d, t)
    /\ where[t] = "input" /\ t \notin Bad
    /\ "ijp" \in Events \/ \A j \in Jobs : jpc[j] # "none"
    /\ Did(d, t)
    /\ UNCHANGED <<ingestVars, where, shown, dpc, status, failures, term, finished,
                   pidfile, masked>>

BeginLook(d) ==
    /\ todo[d] = {}
    /\ Step(d, "submit", "look")
    /\ todo' = [todo EXCEPT ![d] = Pending(d)]
    /\ UNCHANGED <<ingestVars, where, shown, status, failures, term, finished,
                   pidfile, masked>>

Says(d, t, s) == dpc[d] = "look" /\ t \in todo[d] /\ shown[status[d][t]] = s

(* The job goes on, or a command failed: the next round looks again. *)
LookAgain(d, t) ==
    /\ dpc[d] = "look"
    /\ \/ Says(d, t, "Executing")
       \/ Says(d, t, "Queued") /\ d \notin term
       \/ "ijp" \in Events
    /\ Did(d, t)
    /\ UNCHANGED <<ingestVars, where, shown, dpc, status, failures, term, finished,
                   pidfile, masked>>

(* What processC does of a completed job of t once it has read its output. *)
Collected(d, t) ==
    /\ Says(d, t, "Completed")
    /\ Did(d, t)
    /\ Step(d, "look", "delete")
    /\ status' = [status EXCEPT ![d][t] = NoJob]
    /\ finished' = [finished EXCEPT ![d] = status[d][t]]
    /\ UNCHANGED <<ingestVars, shown, term, pidfile>>

(* Mutant of MoveToDone: stderr is not looked at for a first failure. *)
MoveToDoneAtOnce(d, t) ==
    /\ Collected(d, t)
    /\ status[d][t] \notin stderr \/ failures[d][t] = "no"
    /\ where[t] = "input"
    /\ where' = [where EXCEPT ![t] = "done"]
    /\ failures' = [failures EXCEPT ![d][t] = "no"]
    /\ masked' = IF status[d][t] \in early THEN masked \cup {t} ELSE masked

MoveToDone(d, t) ==
    /\ Collected(d, t)
    /\ status[d][t] \notin stderr
    /\ where[t] = "input"
    /\ where' = [where EXCEPT ![t] = "done"]
    /\ failures' = [failures EXCEPT ![d][t] = "no"]
    /\ masked' = IF status[d][t] \in early THEN masked \cup {t} ELSE masked

(* The trigger stays in input and is submitted again. *)
KeepTrigger(d, t) ==
    /\ Collected(d, t)
    /\ status[d][t] \in stderr
    /\ failures[d][t] \in {"no", "fresh"}
    /\ failures' = [failures EXCEPT ![d][t] = "fresh"]
    /\ UNCHANGED <<where, masked>>

MoveToFailures(d, t) ==
    /\ Collected(d, t)
    /\ status[d][t] \in stderr
    /\ failures[d][t] = "old"
    /\ where[t] = "input"
    /\ where' = [where EXCEPT ![t] = "failures"]
    /\ failures' = [failures EXCEPT ![d][t] = "no"]
    /\ UNCHANGED masked

(* os.rename of a file that another daemon has moved ends this one. *)
MoveThrows(d, t) ==
    /\ Says(d, t, "Completed")
    /\ status[d][t] \notin stderr \/ failures[d][t] = "old"
    /\ where[t] # "input"
    /\ Stop(d)

(* processQ: SIGTERM came and the job is said to be queued.  It may have   *)
(* started or ended since.                                                 *)
CancelJob(d, t) ==
    /\ d \in term
    /\ Says(d, t, "Queued")
    /\ Did(d, t)
    /\ \/ /\ Kill(status[d][t])
          /\ Step(d, "look", "delete")
          /\ finished' = [finished EXCEPT ![d] = status[d][t]]
       \/ /\ "ijp" \in Events \/ jpc[status[d][t]] = "ended"
          /\ UNCHANGED <<ingestVars, dpc, finished>>
    /\ status' = [status EXCEPT ![d][t] = NoJob]
    /\ UNCHANGED <<where, shown, failures, term, pidfile, masked>>

(* The server no longer has the job, and its identifier is free. *)
Forgotten(j) ==
    /\ jpc' = [jpc EXCEPT ![j] = "none"]
    /\ input' = [input EXCEPT ![j] = NoTrigger]
    /\ shown' = [shown EXCEPT ![j] = "none"]
    /\ stderr' = stderr \ {j}
    /\ early' = early \ {j}
    /\ UNCHANGED <<dataset, writer>>

(* ijp delete works for completed jobs only; its result is not looked at. *)
DeleteJob(d) ==
    /\ Step(d, "delete", "look")
    /\ LET j == finished[d] IN
         \/ shown[j] = "Completed" /\ Forgotten(j)
         \/ /\ "ijp" \in Events \/ shown[j] # "Completed"
            /\ UNCHANGED <<ingestVars, shown>>
    /\ finished' = [finished EXCEPT ![d] = NoJob]
    /\ UNCHANGED <<where, todo, status, failures, term, pidfile, masked>>

RoundEnds(d) == dpc[d] = "look" /\ todo[d] = {}

(* Mutant of NextRound: the directory is listed only once, at the start. *)
NextRoundUnlisted(d) ==
    /\ RoundEnds(d)
    /\ d \notin term \/ Pending(d) # {}
    /\ Step(d, "look", "submit")
    /\ UNCHANGED <<ingestVars, where, shown, todo, status, failures, term, finished,
                   pidfile, masked>>

(* 30 seconds later the next round begins. *)
NextRound(d) ==
    /\ RoundEnds(d)
    /\ d \notin term \/ Pending(d) # {}
    /\ Step(d, "look", "submit")
    /\ BeginRound(d)
    /\ UNCHANGED <<ingestVars, where, shown, status, failures, term, finished,
                   pidfile, masked>>

(* Mutant of StopOnTerm: it waits for triggers instead of jobs. *)
StopOnTermEmptied(d) ==
    /\ RoundEnds(d)
    /\ d \in term /\ Pending(d) = {}
    /\ \A t \in Triggers : where[t] # "input"
    /\ Stop(d)

(* SIGTERM and no job left: exit 0 *)
StopOnTerm(d) ==
    /\ RoundEnds(d)
    /\ d \in term /\ Pending(d) = {}
    /\ Stop(d)

(* It cannot log in again. *)
LoginFails(d) ==
    /\ RoundEnds(d)
    /\ "login" \in Events
    /\ Stop(d)

-----------------------------------------------------------------------------
(* The environment.                                                        *)

Arrive(t) ==
    /\ where[t] = "none"
    /\ where' = [where EXCEPT ![t] = "input"]
    /\ UNCHANGED <<ingestVars, shown, daemonVars, masked>>

Sigterm(d) ==
    /\ "term" \in Events
    /\ dpc[d] \in Loop
    /\ term' = term \cup {d}
    /\ UNCHANGED <<ingestVars, where, shown, dpc, todo, status, failures, finished,
                   pidfile, masked>>

Crash(d) ==
    /\ "crash" \in Events
    /\ dpc[d] \in Loop
    /\ Stop(d)

(* maxtime passes. *)
Age(d, t) ==
    /\ failures[d][t] = "fresh"
    /\ failures' = [failures EXCEPT ![d][t] = "old"]
    /\ UNCHANGED <<ingestVars, where, shown, dpc, todo, status, term, finished,
                   pidfile, masked>>

(* The status of a job in the server's database follows the job. *)
StatusOf(j) ==
    IF jpc[j] = "queued" THEN "Queued" ELSE IF jpc[j] = "ended" THEN "Completed" ELSE "Executing"

UpdateStatus(j) ==
    /\ jpc[j] # "none" /\ shown[j] # StatusOf(j)
    /\ shown' = [shown EXCEPT ![j] = StatusOf(j)]
    /\ UNCHANGED <<ingestVars, where, daemonVars, masked>>

Job(j) == Ingest(j) /\ UNCHANGED <<where, shown, daemonVars, masked>>

(* Nobody will ask for an ended job that no daemon knows: its identifier   *)
(* stands for a new one.                                                   *)
Reuse(j) ==
    /\ jpc[j] = "ended"
    /\ \A d \in Daemons : finished[d] # j /\ \A t \in Triggers : status[d][t] # j
    /\ Forgotten(j)
    /\ UNCHANGED <<where, daemonVars, masked>>

KillJob(j) ==
    /\ "kill" \in Events
    /\ jpc[j] \in Running
    /\ Kill(j)
    /\ UNCHANGED <<where, shown, daemonVars, masked>>

-----------------------------------------------------------------------------
Daemon(d) ==
    \/ CheckPidfile(d)
    \/ Launch(d)
    \/ \E t \in Triggers :
         \/ SkipTrigger(d, t) \/ TriggerUnreadable(d, t) \/ SubmitFails(d, t)
         \/ \E j \in Jobs : Submit(d, t, j)
         \/ LookAgain(d, t) \/ MoveToDone(d, t) \/ KeepTrigger(d, t)
         \/ MoveToFailures(d, t) \/ MoveThrows(d, t) \/ CancelJob(d, t)
    \/ BeginLook(d)
    \/ DeleteJob(d)
    \/ NextRound(d)
    \/ StopOnTerm(d)
    \/ LoginFails(d)

Environment ==
    \/ \E t \in Triggers : Arrive(t) \/ \E d \in Daemons : Age(d, t)
    \/ \E d \in Daemons : Sigterm(d) \/ Crash(d)
    \/ \E j \in Jobs : Job(j) \/ KillJob(j) \/ UpdateStatus(j) \/ Reuse(j)

Next == (\E d \in Daemons : Daemon(d)) \/ Environment

Spec == Init /\ [][Next]_vars

(* The launchers keep trying, a daemon goes on, jobs run, the server's     *)
(* timer notices their states, and time passes.                            *)
FairSpec ==
    /\ Spec
    /\ \A d \in Daemons : WF_vars(Daemon(d))
    /\ \A j \in Jobs : WF_vars(Job(j) \/ UpdateStatus(j) \/ Reuse(j))
    /\ \A d \in Daemons, t \in Triggers : WF_vars(Age(d, t))
-----------------------------------------------------------------------------
(* Properties.                                                             *)

(* A trigger in done has its dataset, complete with all files, in ICAT:    *)
(* through retries, restarts of the daemon, two daemons at once, killed    *)
(* jobs and failing calls.  A job that ended early (exit code 2 although   *)
(* the dataset was not settled, or killed without a word) is the only way  *)
(* by which it may not have.                                               *)
DoneIsComplete ==
    \A t \in Triggers \ masked : where[t] = "done" => Settled(t)

(* The ids of dependencies that a dataset was given as parameters name     *)
(* datasets that still exist, however later ingests of them end.           *)
DependenciesExist ==
    \A t \in Triggers : dataset[t] # "absent" => \A d \in DepsOf(t) : dataset[d] # "absent"

(* The invariant from which the properties are proved.                     *)

(* A job that fills or removes a dataset is the only one to do so, and a   *)
(* dataset has a writer only as long as such a job is at it.               *)
OneWriter ==
    /\ \A j \in Jobs : jpc[j] \in {"writing", "undoing"} =>
          /\ writer[input[j]] = j /\ dataset[input[j]] # "absent"
          /\ jpc[j] = "writing" => dataset[input[j]] = "partial"
    /\ \A t \in Triggers : writer[t] # NoJob =>
          input[writer[t]] = t /\ jpc[writer[t]] \in {"writing", "undoing"}

(* Only a directory is removed again, so a simple dependency stays.        *)
OnlyDirectoriesUndone == \A j \in Jobs : jpc[j] = "undoing" => input[j] \notin Simple

CheckHolds ==
    \A j \in Jobs : jpc[j] \in {"checked", "writing"} =>
        \A d \in DepsOf(input[j]) : dataset[d] # "absent"

QuietIsSettled ==
    \A j \in Jobs :
        jpc[j] = "stored" \/ (jpc[j] = "ended" /\ j \notin stderr \cup early) =>
            Settled(input[j])

(* What the server says of a job may be old, but never too far on. *)
CompletedHasEnded == \A j \in Jobs : shown[j] = "Completed" => jpc[j] = "ended"

(* No two daemons know the same job, and a job it knows is the one it      *)
(* submitted: no identifier is used again under a daemon that knows it.    *)
JobsKnown ==
    /\ \A d \in Daemons : \A t \in Pending(d) :
          /\ input[status[d][t]] = t
          /\ \A e \in Daemons \ {d} : status[e][t] # status[d][t]
    /\ \A d \in Daemons : dpc[d] = "delete" =>
          /\ finished[d] \in Jobs /\ jpc[finished[d]] # "none"
          /\ \A e \in Daemons :
                /\ finished[e] = finished[d] => e = d
                /\ \A t \in Triggers : status[e][t] # finished[d]
    /\ \A d \in Daemons : dpc[d] # "delete" => finished[d] = NoJob

(* What is left to look at was submitted by this daemon. *)
LooksAtOwn == \A d \in Daemons : dpc[d] \in {"look", "delete"} => todo[d] \subseteq Pending(d)

(* Jobs are for triggers that arrived; those never disappear. *)
AskedFor == \A j \in Jobs : jpc[j] # "none" => where[input[j]] # "none"

DInv ==
    /\ OneWriter
    /\ OnlyDirectoriesUndone
    /\ CheckHolds
    /\ QuietIsSettled
    /\ CompletedHasEnded
    /\ JobsKnown
    /\ LooksAtOwn
    /\ AskedFor
    /\ DependenciesExist
    /\ DoneIsComplete

(* The dataset of a trigger as a reader of ICAT finds it, whole if it is   *)
(* complete, *)
Content(t) == IF dataset[t] = "complete" THEN "whole" ELSE dataset[t]

(* and those that their job, which missed the answer to its update, is     *)
(* about to remove all the same.                                           *)
Unheard == {t \in Triggers : dataset[t] = "complete" /\ writer[t] # NoJob}

Book == INSTANCE IngestBook
            WITH content <- [t \in Triggers |-> Content(t)], unheard <- Unheard

(* IngestDaemon implements IngestBook: through crashes of the daemon, a    *)
(* second one beside it, retries and undos that fail halfway, a trigger    *)
(* moves once, and a reader of ICAT sees no dataset change once it is      *)
(* whole, except for a directory whose job missed the answer to the update *)
(* that made it whole, until that job ends.                                *)
ImplementsBook == Book!BookSpec

(* Without SIGTERM, and while no trigger file is bad, every trigger leaves *)
(* the input directory.  A bad one ends each daemon that reads it and so   *)
(* holds up the others as well.                                            *)
TriggerLeaves ==
    \A t \in Triggers : where[t] = "input" ~> where[t] # "input" \/ term # {}

(* SIGTERM stops a daemon: it cancels what it can, collects the rest and   *)
(* submits nothing new.                                                    *)
TermStops == \A d \in Daemons : d \in term ~> d \notin term

(* "Trigger ... processed succesfully" (ingest.py:69), which the daemon    *)
(* prints when it moves a trigger to done.  An ingest that failed halfway  *)
(* leaves its dataset; the retry is told OBJECT_ALREADY_EXISTS and ends    *)
(* with exit code 2 and nothing on stderr.                                 *)
ProcessedSuccessfully == \A t \in Triggers : where[t] = "done" => dataset[t] = "complete"
=============================================================================
