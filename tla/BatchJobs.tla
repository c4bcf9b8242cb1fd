----------------------------- MODULE BatchJobs -----------------------------
(***************************************************************************)
(* JobManagementBean.java: batch jobs.  submitBatch runs qsub, then qstat  *)
(* for the new job, and commits the job's row when it returns; every       *)
(* minute updateJobsFromQstat copies what qstat lists into the rows;       *)
(* cancel runs qdel; delete removes the row of a completed job.  Each      *)
(* request and the timer run in threads and transactions of their own.     *)
(*                                                                         *)
(* The requests are those of a job's submitter: getJob refuses any other   *)
(* user before it does anything.                                           *)
(***************************************************************************)
EXTENDS Pbs

CONSTANT Events   \* the failures a run admits

(* "qstat": the qstat of submitBatch fails; "crash": the server stops and  *)
(* is started again; "outage": no qstat of the timer succeeds for the      *)
(* keep_completed = 300 seconds Torque remembers a completed job.          *)
EventKinds == {"qstat", "crash", "outage"}

ASSUME BatchAssumption == Events \subseteq EventKinds

VARIABLES
    jobRow,    \* committed R92Job.status, "none" without a row
    rowNode,   \* committed R92Job.workerNode
    spc,       \* where each submission stands
    answer,    \* what its qstat said of the job
    ppc,       \* where updateJobsFromQstat stands
    listing,   \* what its qstat said of each job
    pending,   \* jobs of the listing still to be looked up
    loaded,    \* jobs whose row it has in its transaction
    deleting,  \* jobs for which delete has checked the status
    unborn,    \* history: jobs not yet submitted at the last qstat of the timer
    swept,     \* history: unborn jobs that updateJobsFromQstat set to C
    noticed    \* history: jobs a whole run of the timer dealt with as completed

rowVars == <<jobRow, rowNode>>
subVars == <<spc, answer>>
pollVars == <<ppc, listing, pending, loaded, unborn, swept, noticed>>
vars == <<torqueVars, rowVars, subVars, pollVars, deleting>>

TypeOK ==
    /\ TorqueTypeOK
    /\ jobRow \in [Jobs -> {"none", "Q", "R", "S", "E", "C"}]
    /\ rowNode \in [Jobs -> Hosts \cup {NoHost}]
    /\ spc \in [Jobs -> {"idle", "queued", "queried", "done", "failed"}]
    /\ answer \in [Jobs -> JobStates]
    /\ ppc \in {"idle", "find", "sweep", "swept"}
    /\ listing \in [Jobs -> JobStates]
    /\ pending \subseteq Jobs
    /\ loaded \subseteq Jobs
    /\ deleting \subseteq Jobs
    /\ unborn \subseteq Jobs
    /\ swept \subseteq Jobs
    /\ noticed \subseteq Jobs

NoListing == [j \in Jobs |-> "none"]

Init ==
    /\ TorqueInit
    /\ jobRow = [j \in Jobs |-> "none"]
    /\ rowNode = [j \in Jobs |-> NoHost]
    /\ spc = [j \in Jobs |-> "idle"]
    /\ answer = NoListing
    /\ ppc = "idle"
    /\ listing = NoListing
    /\ pending = {}
    /\ loaded = {}
    /\ deleting = {}
    /\ unborn = {}
    /\ swept = {}
    /\ noticed = {}

(* The worker node qstat prints beside state s of job j. *)
NodeIn(s, j) == IF s = "Q" THEN NoHost ELSE jobHost[j]

-----------------------------------------------------------------------------
(* submitBatch                                                             *)

(* createScript, then qsub; while either fails nothing is submitted. *)
SubmitQsub(j) ==
    /\ spc[j] = "idle"
    /\ Qsub(j)
    /\ spc' = [spc EXCEPT ![j] = "queued"]
    /\ UNCHANGED <<rowVars, answer, pollVars, deleting>>

(* qstat -x for the new job *)
SubmitQstat(j) ==
    /\ spc[j] = "queued"
    /\ j \in Known
    /\ spc' = [spc EXCEPT ![j] = "queried"]
    /\ answer' = [answer EXCEPT ![j] = jobState[j]]
    /\ UNCHANGED <<torqueVars, rowVars, pollVars, deleting>>

(* The request fails, the job stays in Torque and has no row.  An answer   *)
(* of qstat that is well-formed but does not have the job comes to the     *)
(* same, except that the request is told an id.                            *)
SubmitThrows(j) ==
    /\ spc[j] = "queued"
    /\ "qstat" \in Events \/ j \notin Known
    /\ spc' = [spc EXCEPT ![j] = "failed"]
    /\ UNCHANGED <<torqueVars, rowVars, answer, pollVars, deleting>>

(* Mutant of SubmitCommit: the status is persisted, whatever qstat said, as *)
(* Torque names the state of a purged job.                                 *)
SubmitCommitRaw(j) ==
    /\ spc[j] = "queried"
    /\ spc' = [spc EXCEPT ![j] = "done"]
    /\ jobRow' = [jobRow EXCEPT ![j] = jobState[j]]
    /\ rowNode' = [rowNode EXCEPT ![j] = NodeIn(answer[j], j)]
    /\ answer' = [answer EXCEPT ![j] = "none"]
    /\ UNCHANGED <<torqueVars, pollVars, deleting>>

(* persist, and the commit when submit returns *)
SubmitCommit(j) ==
    /\ spc[j] = "queried"
    /\ spc' = [spc EXCEPT ![j] = "done"]
    /\ jobRow' = [jobRow EXCEPT ![j] = answer[j]]
    /\ rowNode' = [rowNode EXCEPT ![j] = NodeIn(answer[j], j)]
    /\ answer' = [answer EXCEPT ![j] = "none"]
    /\ UNCHANGED <<torqueVars, pollVars, deleting>>

-----------------------------------------------------------------------------
(* updateJobsFromQstat                                                     *)

PollQstat ==
    /\ ppc = "idle"
    /\ ppc' = IF Known = {} THEN "sweep" ELSE "find"
    /\ listing' = [j \in Jobs |-> IF j \in Known THEN jobState[j] ELSE "none"]
    /\ pending' = Known
    /\ unborn' = IF Known = {} THEN {j \in Jobs : jobState[j] = "none"} ELSE {}
    /\ UNCHANGED <<torqueVars, rowVars, subVars, loaded, swept, noticed, deleting>>

(* Mutant of PollFind: a listed job that has completed is passed over. *)
PollFindRunning(j) ==
    /\ ppc = "find"
    /\ j \in pending
    /\ pending' = pending \ {j}
    /\ loaded' = IF jobRow[j] = "none" \/ listing[j] = "C" THEN loaded ELSE loaded \cup {j}
    /\ UNCHANGED <<torqueVars, rowVars, subVars, ppc, listing, unborn, swept,
                   noticed, deleting>>

(* entityManager.find for a listed job *)
PollFind(j) ==
    /\ ppc = "find"
    /\ j \in pending
    /\ pending' = pending \ {j}
    /\ loaded' = IF jobRow[j] = "none" THEN loaded ELSE loaded \cup {j}
    /\ UNCHANGED <<torqueVars, rowVars, subVars, ppc, listing, unborn, swept,
                   noticed, deleting>>

(* The row of j was deleted, or its submission failed. *)
NoRowComing(j) == jobRow[j] = "none" /\ spc[j] \in {"done", "failed"}

(* Mutant of PollCommit: a row that was removed meanwhile is written again. *)
PollCommitMerged ==
    /\ ppc = "find"
    /\ pending = {}
    /\ jobRow' = [j \in Jobs |-> IF j \in loaded THEN listing[j] ELSE jobRow[j]]
    /\ rowNode' = [j \in Jobs |-> IF j \in loaded THEN NodeIn(listing[j], j) ELSE rowNode[j]]
    /\ ppc' = "idle"
    /\ loaded' = {}
    /\ listing' = NoListing
    /\ noticed' = noticed \cup {j \in loaded : listing[j] = "C"}
    /\ UNCHANGED <<torqueVars, subVars, pending, unborn, swept, deleting>>

(* Mutant of PollCommit: the worker node of the row is left as it was. *)
PollCommitStatus ==
    /\ ppc = "find"
    /\ pending = {}
    /\ jobRow' = [j \in Jobs |->
                    IF j \in loaded /\ jobRow[j] # "none" THEN listing[j] ELSE jobRow[j]]
    /\ ppc' = "idle"
    /\ loaded' = {}
    /\ listing' = NoListing
    /\ noticed' = noticed \cup {j \in loaded : listing[j] = "C"}
    /\ UNCHANGED <<torqueVars, rowNode, subVars, pending, unborn, swept, deleting>>

(* The commit: an update of a row that delete removed meanwhile is void. *)
PollCommit ==
    /\ ppc = "find"
    /\ pending = {}
    /\ jobRow' = [j \in Jobs |->
                    IF j \in loaded /\ jobRow[j] # "none" THEN listing[j] ELSE jobRow[j]]
    /\ rowNode' = [j \in Jobs |->
                    IF j \in loaded /\ jobRow[j] # "none" THEN NodeIn(listing[j], j) ELSE rowNode[j]]
    /\ ppc' = "idle"
    /\ loaded' = {}
    /\ listing' = NoListing
    /\ noticed' = noticed \cup {j \in loaded : listing[j] = "C"}
                          \cup {j \in Jobs : listing[j] = "C" /\ NoRowComing(j)}
    /\ UNCHANGED <<torqueVars, subVars, pending, unborn, swept, deleting>>

(* Mutant of PollFindIncomplete: the sweep also follows a listing of jobs, *)
(* for all jobs without a row when find looked.                            *)
PollSweepAnyway ==
    /\ ppc \in {"sweep", "find"} /\ pending = {}
    /\ ppc' = "swept"
    /\ loaded' = {j \in Jobs \ loaded : jobRow[j] \notin {"none", "C"}}
    /\ UNCHANGED <<torqueVars, rowVars, subVars, listing, pending, unborn, swept,
                   noticed, deleting>>

(* qstat printed nothing: FIND_INCOMPLETE *)
PollFindIncomplete ==
    /\ ppc = "sweep"
    /\ ppc' = "swept"
    /\ loaded' = {j \in Jobs : jobRow[j] \notin {"none", "C"}}
    /\ UNCHANGED <<torqueVars, rowVars, subVars, listing, pending, unborn, swept,
                   noticed, deleting>>

PollSweepCommit ==
    /\ ppc = "swept"
    /\ jobRow' = [j \in Jobs |->
                    IF j \in loaded /\ jobRow[j] # "none" THEN "C" ELSE jobRow[j]]
    /\ swept' = swept \cup (loaded \cap unborn)
    /\ ppc' = "idle"
    /\ loaded' = {}
    /\ unborn' = {}
    /\ UNCHANGED <<torqueVars, rowNode, subVars, listing, pending, noticed, deleting>>

-----------------------------------------------------------------------------
(* cancel and delete                                                       *)

Cancel(j) ==
    /\ jobRow[j] # "none"
    /\ Qdel(j)
    /\ UNCHANGED <<rowVars, subVars, pollVars, deleting>>

(* Mutant of DeleteCheck: an exiting job is taken for completed. *)
DeleteCheckExiting(j) ==
    /\ jobRow[j] \in {"E", "C"}
    /\ deleting' = deleting \cup {j}
    /\ UNCHANGED <<torqueVars, rowVars, subVars, pollVars>>

(* getJob and the check of the status *)
DeleteCheck(j) ==
    /\ jobRow[j] = "C"
    /\ deleting' = deleting \cup {j}
    /\ UNCHANGED <<torqueVars, rowVars, subVars, pollVars>>

(* The output files are removed one after the other; an error keeps the row. *)
DeleteEnds(j) ==
    /\ j \in deleting
    /\ deleting' = deleting \ {j}
    /\ \/ /\ jobRow' = [jobRow EXCEPT ![j] = "none"]
          /\ rowNode' = [rowNode EXCEPT ![j] = NoHost]
       \/ UNCHANGED rowVars
    /\ UNCHANGED <<torqueVars, subVars, pollVars>>

-----------------------------------------------------------------------------
(* The environment.                                                        *)

(* Open transactions are lost. *)
Crash ==
    /\ "crash" \in Events
    /\ spc' = [j \in Jobs |-> IF spc[j] \in {"queued", "queried"} THEN "failed" ELSE spc[j]]
    /\ answer' = NoListing
    /\ ppc' = "idle"
    /\ listing' = NoListing
    /\ pending' = {}
    /\ loaded' = {}
    /\ deleting' = {}
    /\ unborn' = {}
    /\ UNCHANGED <<torqueVars, rowVars, swept, noticed>>

(* Torque forgets a completed job after 300 seconds.  The timer fires every *)
(* 60 seconds, and no submission lasts that long: but for an outage a run  *)
(* of it comes between.                                                    *)
PurgeLate(j) ==
    /\ "outage" \in Events \/ j \in noticed
    /\ Purge(j)

(* The jobs run, and the server suspends and resumes them for interactive  *)
(* users.                                                                  *)
Batch ==
    /\ \E j \in Jobs :
         \/ QsigSuspend(j) \/ QsigResume(j)
         \/ Exit(j) \/ Complete(j) \/ PurgeLate(j)
         \/ \E h \in Hosts : Dispatch(j, h)
    /\ UNCHANGED <<rowVars, subVars, pollVars, deleting>>

-----------------------------------------------------------------------------
Submission(j) == SubmitQsub(j) \/ SubmitQstat(j) \/ SubmitThrows(j) \/ SubmitCommit(j)

Poll ==
    \/ PollQstat
    \/ \E j \in Jobs : PollFind(j)
    \/ PollCommit
    \/ PollFindIncomplete
    \/ PollSweepCommit

Next ==
    \/ \E j \in Jobs : Submission(j) \/ Cancel(j) \/ DeleteCheck(j) \/ DeleteEnds(j)
    \/ Poll
    \/ Crash
    \/ Batch

Spec == Init /\ [][Next]_vars

(* The timer fires and its method returns; what was begun goes on. *)
FairSpec ==
    /\ Spec
    /\ WF_vars(Poll)
    /\ \A j \in Jobs : WF_vars(spc[j] # "idle" /\ Submission(j)) /\ WF_vars(DeleteEnds(j))
-----------------------------------------------------------------------------
(* Properties.                                                             *)

Ended(j) == jobState[j] \in {"C", "gone"}

(* A row says completed, and so lets its submitter delete it, only when    *)
(* the job has ended.  The listing of qstat may be old when it is written, *)
(* and the sweep of an empty listing may meet rows of jobs submitted since *)
(* (swept): that race is the only way to break it.                         *)
CompleteRowIsComplete == \A j \in Jobs \ swept : jobRow[j] = "C" => Ended(j)

(* A row that is being deleted is one of an ended job, also when its status *)
(* changes between the check in delete and its commit.                     *)
DeletedJobHasEnded == \A j \in deleting \ swept : Ended(j)

(* getJobOutput reaches a started job on the node of its row: status and   *)
(* node of a row come from one listing, whichever of submitBatch and the   *)
(* timer wrote last, with an older or a newer answer of qstat.             *)
StartedRowNamesNode ==
    \A j \in Jobs :
        jobRow[j] \in {"R", "S", "E"} => rowNode[j] = jobHost[j] /\ rowNode[j] # NoHost

(* While the timer keeps up with Torque, every completed job is noticed,   *)
(* also one whose row is committed after Torque last listed it as running. *)
CompletionNoticed ==
    \A j \in Jobs :
        (jobRow[j] # "none" /\ Ended(j)) ~> jobRow[j] \in {"C", "none"}

(* The row of a job as its submitter sees it. *)
RowOf(j) ==
    IF jobRow[j] = "none" THEN IF spc[j] = "done" THEN "removed" ELSE "none"
    ELSE IF jobRow[j] = "C" THEN "complete" ELSE "open"

Ledger == INSTANCE RowLedger WITH
    row <- [j \in Jobs |-> RowOf(j)], over <- {j \in Jobs : Ended(j)}, overlooked <- swept

(* BatchJobs implements RowLedger: a row that delete removes between the   *)
(* find and the commit of the timer does not come back, and no answer of   *)
(* qstat, old as it may be, closes the row of a job that has not ended.    *)
ImplementsLedger == Ledger!LedgerSpec

(* "Delete all information on the specified job if permitted to do so and  *)
(* if it has completed" (JobManager.java:58).  A job submitted between the *)
(* empty qstat and FIND_INCOMPLETE is set to C and can be deleted.         *)
OnlyEndedJobsDeleted ==
    [][\A j \in Jobs : jobRow[j] # "none" /\ jobRow'[j] = "none" => Ended(j)]_vars
-----------------------------------------------------------------------------
(* The inductive invariant behind the three state properties.              *)

(* What qstat said of j, old as it may be, is still true in part: C is     *)
(* final, and a started job keeps its node.                                *)
StillTrue(s, j) ==
    /\ s = "C" => Ended(j)
    /\ s \in {"R", "S", "E"} => jobHost[j] # NoHost

HostsOfJobs == \A j \in Jobs :
    /\ jobState[j] \in {"none", "Q"} => jobHost[j] = NoHost
    /\ jobState[j] \in {"R", "S", "E"} => jobHost[j] # NoHost

ListingsStillTrue ==
    /\ \A j \in Jobs : StillTrue(answer[j], j) /\ StillTrue(listing[j], j)
    /\ \A j \in Jobs : spc[j] = "queried" => answer[j] \notin {"none", "gone"}
    /\ ppc = "idle" => loaded = {}
    /\ ppc = "find" => \A j \in pending \cup loaded : listing[j] \notin {"none", "gone"}

(* Qstat listed nothing, so what was submitted by then is gone. *)
SweepMeetsGone ==
    ppc \in {"sweep", "swept"} => \A j \in Jobs \ unborn : jobState[j] = "gone"

(* A row, also one the timer has loaded, was made by its submission. *)
RowsOfDone == \A j \in Jobs : jobRow[j] # "none" \/ j \in loaded => spc[j] = "done"

BInv ==
    /\ TypeOK
    /\ RowsOfDone
    /\ HostsOfJobs
    /\ ListingsStillTrue
    /\ SweepMeetsGone
    /\ CompleteRowIsComplete
    /\ DeletedJobHasEnded
    /\ StartedRowNamesNode
=============================================================================
