----------------------------- MODULE JobOutput -----------------------------
(***************************************************************************)
(* The output of batch jobs: prologue and epilogue, which Torque runs      *)
(* before and after each job and which lock, deliver and clean the home of *)
(* the pool account; push_output, which copies the output of a running     *)
(* job; and JobManagementBean.java, which keeps a row for each job that    *)
(* follows qstat, old answers and the sweep of an empty one included, and  *)
(* reads and removes the copies on the server.  No lock is shared by the   *)
(* two sides.                                                              *)
(*                                                                         *)
(* The jobs are those of one pool account: others use other homes.  The    *)
(* jobs of dmf, which prologue and epilogue pass over, have no row; a job  *)
(* cancelled in the queue has no output; both are left out.  One of the    *)
(* two output files of a job is modelled: both go the same way.            *)
(***************************************************************************)
EXTENDS Naturals

CONSTANTS
    Hosts,     \* worker nodes; each has a home of the account
    Jobs,      \* jobs that may be submitted
    Tracked,   \* those whose submission may commit a row and whose delivery
               \* may fail (bound of the model)
    Requests,  \* calls of getJobOutput at the same time
    NoHost, NoJob,
    Events     \* the failures a run admits

(* "scp": a copy between nodes fails; "reboot": a node stops and starts,   *)
(* once, when no delivery failed and no row was swept, and with no request *)
(* then or later (bounds of the model).                                    *)
EventKinds == {"scp", "reboot"}

ASSUME OutputAssumption ==
    /\ NoHost \notin Hosts
    /\ NoJob \notin Jobs
    /\ Tracked \subseteq Jobs
    /\ Events \subseteq EventKinds

VARIABLES
    jpc,       \* where each job stands
    host,      \* the node it was last dispatched to
    again,     \* jobs Torque queues again after their epilogue
    home,      \* the home directory on each node
    lockId,    \* what lock/id says there
    files,     \* the jobs whose output file is there
    links,     \* the jobs whose output file has a hard link in /home/batch
    final,     \* the copy in jobs/ on the server
    tmp,       \* the intermediate copy, *_tmp
    row,       \* R92Job.status
    rowNode,   \* R92Job.workerNode
    ppc,       \* where updateJobsFromQstat stands
    listing,   \* what its qstat said of each job
    dpc,       \* where delete stands for each job
    req,       \* the requests for output
    unsent,    \* history: jobs whose last delivery failed
    rebooted,  \* history: nodes that stopped
    unborn,    \* history: jobs not yet submitted when qstat listed nothing
    swept,     \* history: unborn jobs that updateJobsFromQstat set to C
    short      \* history: jobs of which a request that began when they had
               \* been shown as completed got an incomplete output

jobVars == <<jpc, host, again>>
homeVars == <<home, lockId, files, links>>
rowVars == <<row, rowNode, ppc, listing, unborn, swept>>
serverVars == <<final, tmp, rowVars, dpc, req, short>>
vars == <<jobVars, homeVars, serverVars, unsent, rebooted>>

Unfinished == {"unborn", "queued", "prologue", "locked", "running"}
Finishing == {"check", "deliver", "sending", "clean", "making"}
OnNode == (Unfinished \ {"unborn", "queued"}) \cup Finishing
Past == {"completed", "gone"}

Content == {"none", "part", "all"}

(* What the output file of j holds, for as long as any name of it exists. *)
Output(j) == IF jpc[j] \in Unfinished THEN "part" ELSE "all"

Idle == [pc |-> "idle"]

TypeOK ==
    /\ jpc \in [Jobs -> Unfinished \cup Finishing \cup Past]
    /\ host \in [Jobs -> Hosts \cup {NoHost}]
    /\ \A j \in Jobs : jpc[j] \notin {"unborn", "queued"} => host[j] # NoHost
    /\ again \subseteq Jobs
    /\ home \in [Hosts -> {"missing", "free", "locked"}]
    /\ lockId \in [Hosts -> Jobs \cup {NoJob}]
    /\ files \in [Hosts -> SUBSET Jobs]
    /\ links \in [Hosts -> SUBSET Jobs]
    /\ final \in [Jobs -> Content]
    /\ tmp \in [Jobs -> Content]
    /\ row \in [Jobs -> {"none", "Q", "R", "C"}]
    /\ rowNode \in [Jobs -> Hosts \cup {NoHost}]
    /\ ppc \in {"idle", "commit", "sweep"}
    /\ listing \in [Tracked -> {"none", "Q", "R", "C"}]
    /\ dpc \in [Jobs -> {"no", "checked", "removed", "failed", "deleted"}]
    /\ req \in [Requests -> {Idle} \cup
                 [pc : {"link", "push", "sending", "unlink", "openTmp"},
                  job : Jobs, node : Hosts, late : BOOLEAN] \cup
                 [pc : {"open"}, job : Jobs, node : Hosts \cup {NoHost}, late : BOOLEAN]]
    /\ unsent \cup unborn \cup swept \cup short \subseteq Jobs
    /\ rebooted \subseteq Hosts

Init ==
    /\ jpc = [j \in Jobs |-> "unborn"]
    /\ host = [j \in Jobs |-> NoHost]
    /\ again = {}
    /\ home = [h \in Hosts |-> "free"]
    /\ lockId = [h \in Hosts |-> NoJob]
    /\ files = [h \in Hosts |-> {}]
    /\ links = [h \in Hosts |-> {}]
    /\ final = [j \in Jobs |-> "none"]
    /\ tmp = [j \in Jobs |-> "none"]
    /\ row = [j \in Jobs |-> "none"]
    /\ rowNode = [j \in Jobs |-> NoHost]
    /\ ppc = "idle"
    /\ listing = [j \in Tracked |-> "none"]
    /\ dpc = [j \in Jobs |-> "no"]
    /\ req = [r \in Requests |-> Idle]
    /\ unsent = {} /\ rebooted = {} /\ unborn = {} /\ swept = {} /\ short = {}

Go(j, from, to) == jpc[j] = from /\ jpc' = [jpc EXCEPT ![j] = to]
Ended(j) == IF j \in again THEN "queued" ELSE "completed"

ServerUnchanged == UNCHANGED <<serverVars, unsent, rebooted>>
JobsUnchanged == UNCHANGED <<jobVars, homeVars, unsent, rebooted>>

-----------------------------------------------------------------------------
(* Torque and the prologue                                                 *)

(* submitBatch: qsub *)
Qsub(j) ==
    /\ Go(j, "unborn", "queued")
    /\ UNCHANGED <<host, again, homeVars>> /\ ServerUnchanged

(* Torque forgets a completed job after a while. *)
Purge(j) ==
    /\ Go(j, "completed", "gone")
    /\ UNCHANGED <<host, again, homeVars>> /\ ServerUnchanged

(* A free node: np = 1.  With more slots, which worker.pp has as a comment, *)
(* HomeIsOwn fails: rm -rf may remove the lock before the files.           *)
Dispatch(j, h) ==
    /\ \A k \in Jobs : host[k] = h => jpc[k] \notin OnNode
    /\ Go(j, "queued", "prologue")
    /\ host' = [host EXCEPT ![j] = h]
    /\ again' = again \ {j}
    /\ UNCHANGED homeVars /\ ServerUnchanged

(* mkdir $path/lock *)
MakeLock(j) ==
    /\ Go(j, "prologue", "locked")
    /\ home[host[j]] = "free"
    /\ home' = [home EXCEPT ![host[j]] = "locked"]
    /\ UNCHANGED <<host, again, lockId, files, links>> /\ ServerUnchanged

(* Exit code 2: Torque queues the job again, with or without an epilogue.  *)
PrologueFails(j) ==
    /\ \/ Go(j, "prologue", "check") /\ again' = again \cup {j}
       \/ Go(j, "prologue", "queued") /\ UNCHANGED again
    /\ home[host[j]] # "free"
    /\ UNCHANGED <<host, homeVars>> /\ ServerUnchanged

(* Mutant of WriteId: the prologue leaves the lock without an id. *)
WriteNoId(j) ==
    /\ Go(j, "locked", "running")
    /\ files' = [files EXCEPT ![host[j]] = @ \cup {j}]
    /\ UNCHANGED <<host, again, home, lockId, links>> /\ ServerUnchanged

(* echo $1 > $path/lock/id; then the job starts, and its output file with  *)
(* it.                                                                     *)
WriteId(j) ==
    /\ Go(j, "locked", "running")
    /\ lockId' = [lockId EXCEPT ![host[j]] = j]
    /\ files' = [files EXCEPT ![host[j]] = @ \cup {j}]
    /\ UNCHANGED <<host, again, home, links>> /\ ServerUnchanged

(* The job ends or is cancelled: its output is what it is. *)
Exit(j) ==
    /\ Go(j, "running", "check")
    /\ UNCHANGED <<host, again, homeVars>> /\ ServerUnchanged

-----------------------------------------------------------------------------
(* The epilogue                                                            *)

(* Is the lock this job's?  If not, nothing is delivered or cleaned. *)
CheckLock(j) ==
    /\ jpc[j] = "check"
    /\ LET mine == home[host[j]] = "locked" /\ lockId[host[j]] = j
       IN  Go(j, "check", IF mine THEN "deliver" ELSE Ended(j))
    /\ UNCHANGED <<host, again, homeVars>> /\ ServerUnchanged

(* scp writes the copy in place, if the file is still there. *)
Deliver(j) ==
    /\ Go(j, "deliver", "sending")
    /\ final' = [final EXCEPT ![j] = IF j \in files[host[j]] THEN "part" ELSE @]
    /\ UNCHANGED <<host, again, homeVars, tmp, rowVars, dpc, req, short, unsent, rebooted>>

Delivered(j) ==
    /\ Go(j, "sending", "clean")
    /\ final' = [final EXCEPT ![j] = IF j \in files[host[j]] THEN "all" ELSE @]
    /\ unsent' = unsent \ {j}
    /\ UNCHANGED <<host, again, homeVars, tmp, rowVars, dpc, req, short, rebooted>>

(* Mutant of DeliveryFails: the home is kept while it holds output. *)
DeliveryFailsKept(j) ==
    /\ "scp" \in Events /\ j \in Tracked /\ rebooted = {}
    /\ Go(j, "deliver", Ended(j)) \/ Go(j, "sending", Ended(j))
    /\ unsent' = unsent \cup {j}
    /\ UNCHANGED <<host, again, homeVars, serverVars, rebooted>>

(* The exit code of scp is not looked at. *)
DeliveryFails(j) ==
    /\ "scp" \in Events /\ j \in Tracked /\ rebooted = {}
    /\ Go(j, "deliver", "clean") \/ Go(j, "sending", "clean")
    /\ unsent' = unsent \cup {j}
    /\ UNCHANGED <<host, again, homeVars, serverVars, rebooted>>

(* Mutant of RemoveHome: it removes the lock and leaves the output. *)
RemoveLockOnly(j) ==
    /\ Go(j, "clean", "making")
    /\ home' = [home EXCEPT ![host[j]] = "missing"]
    /\ lockId' = [lockId EXCEPT ![host[j]] = NoJob]
    /\ UNCHANGED <<host, again, files, links>> /\ ServerUnchanged

(* rm -rf $path: the lock and the files, in any order, then the directory. *)
RemoveHome(j) ==
    LET h == host[j] IN
    /\ jpc[j] = "clean"
    /\ \/ /\ home[h] = "locked"
          /\ home' = [home EXCEPT ![h] = "free"]
          /\ UNCHANGED <<jpc, files>>
       \/ /\ files[h] # {}
          /\ files' = [files EXCEPT ![h] = {}]
          /\ UNCHANGED <<jpc, home>>
       \/ /\ home[h] # "locked" /\ files[h] = {}
          /\ Go(j, "clean", "making")
          /\ home' = [home EXCEPT ![h] = "missing"]
          /\ UNCHANGED files
    /\ lockId' = [lockId EXCEPT ![h] = NoJob]
    /\ UNCHANGED <<host, again, links>> /\ ServerUnchanged

(* mkdir and chown *)
MakeHome(j) ==
    /\ Go(j, "making", Ended(j))
    /\ home' = [home EXCEPT ![host[j]] = "free"]
    /\ UNCHANGED <<host, again, lockId, files, links>> /\ ServerUnchanged

(* A node stops and starts: its processes are gone, its files are not.     *)
(* Torque queues what ran there again, or takes it for ended.              *)
Reboot(h) ==
    /\ "reboot" \in Events /\ rebooted = {} /\ unsent = {} /\ swept = {}
    /\ \A r \in Requests : req[r] = Idle
    /\ rebooted' = {h}
    /\ \E end \in {"queued", "check"} :
         jpc' = [j \in Jobs |-> IF host[j] = h /\ jpc[j] \in OnNode THEN end ELSE jpc[j]]
    /\ UNCHANGED <<host, again, homeVars, serverVars, unsent>>

-----------------------------------------------------------------------------
(* getJobOutput                                                            *)

(* Mutant of Look: the node is not known to be there. *)
LookUnplaced(r, j) ==
    /\ req[r] = Idle /\ rebooted = {}
    /\ row[j] # "none"
    /\ req' = [req EXCEPT ![r] =
                [pc |-> IF final[j] # "none" THEN "open" ELSE "link",
                 job |-> j, node |-> rowNode[j], late |-> row[j] = "C"]]
    /\ UNCHANGED <<final, tmp, rowVars, dpc, short>> /\ JobsUnchanged

(* getJob, then: is the final copy there?  If not, ssh to the node, which *)
(* throws when it is not known.                                            *)
Look(r, j) ==
    /\ req[r] = Idle /\ rebooted = {}
    /\ row[j] # "none"
    /\ final[j] # "none" \/ rowNode[j] # NoHost
    /\ req' = [req EXCEPT ![r] =
                [pc |-> IF final[j] # "none" THEN "open" ELSE "link",
                 job |-> j, node |-> rowNode[j], late |-> row[j] = "C"]]
    /\ UNCHANGED <<final, tmp, rowVars, dpc, short>> /\ JobsUnchanged

At(r, from, to) == req[r].pc = from /\ req' = [req EXCEPT ![r].pc = to]

(* push_output: ln -f.  No error is noticed: the exit code of push_output  *)
(* is that of its last command, rm -f.                                     *)
PushLink(r) ==
    /\ At(r, "link", "push")
    /\ links' = [links EXCEPT ![req[r].node] = @ \cup ({req[r].job} \cap files[req[r].node])]
    /\ UNCHANGED <<jobVars, home, lockId, files, unsent, rebooted>>
    /\ UNCHANGED <<final, tmp, rowVars, dpc, short>>

(* scp to *_tmp, in place.  Another request may have removed the link. *)
Push(r) ==
    /\ At(r, "push", "sending")
    /\ req[r].job \in links[req[r].node]
    /\ tmp' = [tmp EXCEPT ![req[r].job] = "part"]
    /\ UNCHANGED <<final, rowVars, dpc, short>> /\ JobsUnchanged

Pushed(r) ==
    /\ At(r, "sending", "unlink")
    /\ tmp' = [tmp EXCEPT ![req[r].job] = Output(req[r].job)]
    /\ UNCHANGED <<final, rowVars, dpc, short>> /\ JobsUnchanged

PushFails(r) ==
    /\ \/ At(r, "push", "unlink") /\ ("scp" \in Events \/ req[r].job \notin links[req[r].node])
       \/ At(r, "sending", "unlink") /\ "scp" \in Events
    /\ UNCHANGED <<final, tmp, rowVars, dpc, short>> /\ JobsUnchanged

Unlink(r) ==
    /\ At(r, "unlink", "openTmp")
    /\ links' = [links EXCEPT ![req[r].node] = @ \ {req[r].job}]
    /\ UNCHANGED <<jobVars, home, lockId, files, unsent, rebooted>>
    /\ UNCHANGED <<final, tmp, rowVars, dpc, short>>

(* The file is opened, or there is no output at the moment. *)
Open(r) ==
    /\ req[r].pc \in {"open", "openTmp"}
    /\ LET j == req[r].job
           got == IF req[r].pc = "open" THEN final[j] ELSE tmp[j]
       IN  short' = IF req[r].late /\ got = "part" THEN short \cup {j} ELSE short
    /\ req' = [req EXCEPT ![r] = Idle]
    /\ UNCHANGED <<final, tmp, rowVars, dpc>> /\ JobsUnchanged

-----------------------------------------------------------------------------
(* The rows                                                                *)

Over(j) == jpc[j] \in Past

(* What qstat says of j. *)
Shown(j) ==
    CASE jpc[j] \in {"unborn", "gone"} -> "none"
      [] jpc[j] = "queued" -> "Q"
      [] jpc[j] = "completed" -> "C"
      [] OTHER -> "R"

(* The worker node qstat prints beside state s of job j. *)
NodeIn(s, j) == IF s = "Q" THEN NoHost ELSE host[j]

(* submitBatch: qstat for the new job, and the commit of its row some time *)
(* later, with any answer qstat could give in between.  A job whose qstat  *)
(* fails never gets a row.                                                 *)
Persist(j) ==
    /\ j \in Tracked
    /\ row[j] = "none" /\ dpc[j] = "no"
    /\ jpc[j] # "unborn"
    /\ \E s \in {"Q", "R", "C"} :
         /\ s = "R" => host[j] # NoHost
         /\ s = "C" => Over(j)
         /\ row' = [row EXCEPT ![j] = s]
         /\ rowNode' = [rowNode EXCEPT ![j] = NodeIn(s, j)]
    /\ UNCHANGED <<final, tmp, ppc, listing, unborn, swept, dpc, req, short>> /\ JobsUnchanged

(* updateJobsFromQstat: qstat, run between two requests (bound of the      *)
(* model; what it leads to may come in the middle of one).  Of its answer  *)
(* only what concerns jobs that may have a row is kept.                    *)
PollQstat ==
    /\ ppc = "idle"
    /\ \A r \in Requests : req[r] = Idle
    /\ listing' = [j \in Tracked |-> Shown(j)]
    /\ IF \A j \in Jobs : Shown(j) = "none"
         THEN ppc' = "sweep" /\ unborn' = {j \in Jobs : jpc[j] = "unborn"}
         ELSE ppc' = "commit" /\ UNCHANGED unborn
    /\ UNCHANGED <<final, tmp, row, rowNode, swept, dpc, req, short>> /\ JobsUnchanged

(* The rows of the listed jobs, as far as they are there, and the commit.  *)
(* BatchJobs takes this apart, and the sweep below too.                    *)
PollCommit ==
    /\ ppc = "commit"
    /\ LET at == {j \in Tracked : row[j] # "none" /\ listing[j] # "none"}
       IN  /\ row' = [j \in Jobs |-> IF j \in at THEN listing[j] ELSE row[j]]
           /\ rowNode' = [j \in Jobs |-> IF j \in at THEN NodeIn(listing[j], j) ELSE rowNode[j]]
    /\ ppc' = "idle"
    /\ listing' = [j \in Tracked |-> "none"]
    /\ UNCHANGED <<final, tmp, unborn, swept, dpc, req, short>> /\ JobsUnchanged

(* Mutant of PollSweep: every listing closes the rows of the jobs that are *)
(* not in it.                                                              *)
PollSweepUnlisted ==
    /\ ppc \in {"commit", "sweep"}
    /\ LET closed == {j \in Tracked : row[j] \notin {"none", "C"} /\ listing[j] = "none"}
       IN  /\ row' = [j \in Jobs |-> IF j \in closed THEN "C" ELSE row[j]]
           /\ swept' = swept \cup (closed \cap unborn)
    /\ ppc' = "idle"
    /\ listing' = [j \in Tracked |-> "none"]
    /\ unborn' = {}
    /\ UNCHANGED <<final, tmp, rowNode, dpc, req, short>> /\ JobsUnchanged

(* qstat printed nothing: FIND_INCOMPLETE, and the commit. *)
PollSweep ==
    /\ ppc = "sweep"
    /\ LET closed == {j \in Jobs : row[j] \notin {"none", "C"}}
       IN  /\ row' = [j \in Jobs |-> IF j \in closed THEN "C" ELSE row[j]]
           /\ swept' = swept \cup (closed \cap unborn)
    /\ ppc' = "idle"
    /\ unborn' = {}
    /\ UNCHANGED <<final, tmp, rowNode, listing, dpc, req, short>> /\ JobsUnchanged

(* delete: the row is read, *)
DeleteCheck(j) ==
    /\ row[j] = "C"
    /\ dpc[j] \in {"no", "failed"}
    /\ dpc' = [dpc EXCEPT ![j] = "checked"]
    /\ UNCHANGED <<final, tmp, rowVars, req, short>> /\ JobsUnchanged

(* the files are removed, except *_tmp, which is not looked for, *)
DeleteFiles(j) ==
    /\ dpc[j] = "checked"
    /\ dpc' = [dpc EXCEPT ![j] = "removed"]
    /\ final' = [final EXCEPT ![j] = "none"]
    /\ UNCHANGED <<tmp, rowVars, req, short>> /\ JobsUnchanged

(* and the row goes with the commit, unless a file could not be removed or *)
(* the transaction is rolled back.                                         *)
DeleteEnds(j) ==
    /\ \/ /\ dpc[j] = "removed"
          /\ row' = [row EXCEPT ![j] = "none"]
          /\ dpc' = [dpc EXCEPT ![j] = "deleted"]
       \/ /\ dpc[j] \in {"checked", "removed"}
          /\ dpc' = [dpc EXCEPT ![j] = "failed"]
          /\ UNCHANGED row
    /\ UNCHANGED <<final, tmp, rowNode, ppc, listing, unborn, swept, req, short>> /\ JobsUnchanged

-----------------------------------------------------------------------------
Script(j) ==
    \/ MakeLock(j) \/ PrologueFails(j) \/ WriteId(j)
    \/ CheckLock(j) \/ Deliver(j) \/ Delivered(j) \/ DeliveryFails(j)
    \/ RemoveHome(j) \/ MakeHome(j)

Request(r) ==
    \/ \E j \in Jobs : Look(r, j)
    \/ PushLink(r) \/ Push(r) \/ Pushed(r) \/ PushFails(r) \/ Unlink(r) \/ Open(r)

Run(j) == Script(j) \/ Exit(j) \/ \E h \in Hosts : Dispatch(j, h)

Next ==
    \/ PollQstat \/ PollCommit \/ PollSweep
    \/ \E j \in Jobs :
         \/ Qsub(j) \/ Persist(j) \/ Run(j) \/ Purge(j)
         \/ DeleteCheck(j) \/ DeleteFiles(j) \/ DeleteEnds(j)
    \/ \E r \in Requests : Request(r)
    \/ \E h \in Hosts : Reboot(h)

(* Torque starts what is queued and runs its scripts; jobs end (walltime). *)
Spec == Init /\ [][Next]_vars /\ \A j \in Jobs : WF_vars(Run(j))
-----------------------------------------------------------------------------
(* Properties.                                                             *)

(* A job runs in a home that it has locked and that, unless a node stopped *)
(* in the middle of another job, holds nothing of that job.                *)
HomeIsOwn ==
    \A j \in Jobs : jpc[j] = "running" =>
        /\ home[host[j]] = "locked" /\ lockId[host[j]] = j
        /\ rebooted = {} => files[host[j]] = {j}

(* The output of a completed job is on the server, complete, until delete  *)
(* removes it; it is lost only when its scp failed or a node stopped.      *)
OutputKept ==
    rebooted = {} =>
        \A j \in Jobs : Over(j) => final[j] = "all" \/ j \in unsent \/ dpc[j] # "no"

(* Whoever asks for the output of a job that is shown as completed gets    *)
(* the whole output or an error, never the copy some request made of the   *)
(* running job, unless the delivery failed, the job is being deleted, or   *)
(* the sweep after an empty answer of qstat met a job submitted since.     *)
CompletedIsWhole == \A j \in short \ swept : j \in unsent \/ dpc[j] # "no"

(* When delete has removed the row of a job, the job has ended and the     *)
(* output its epilogue delivered is gone from the server for good: no      *)
(* epilogue, late or repeated, delivers it again, but for a job that was   *)
(* swept.  Of the copy *_tmp it says nothing: delete leaves that there.    *)
DeletedIsGone ==
    \A j \in Jobs \ swept : dpc[j] = "deleted" => final[j] = "none" /\ Over(j)

(* The invariant from which the four are proved.                           *)

Alone ==
    \A j, k \in Jobs : {jpc[j], jpc[k]} \subseteq OnNode /\ host[j] = host[k] => j = k

LockHeld ==
    \A j \in Jobs : jpc[j] \in {"locked", "running"} =>
        home[host[j]] = "locked" /\ (jpc[j] = "running" => lockId[host[j]] = j)

(* While no node stops every job finds the home free and empty, *)
HomesInOrder ==
    rebooted = {} =>
        /\ again = {}
        /\ \A h \in Hosts :
              (\A j \in Jobs : host[j] = h => jpc[j] \notin OnNode \ {"prologue"})
                  => home[h] = "free" /\ files[h] = {}
        /\ \A j \in Jobs :
              /\ jpc[j] \in {"locked", "making"} => files[host[j]] = {}
              /\ jpc[j] \in {"running", "check", "deliver", "sending"} =>
                    home[host[j]] = "locked" /\ lockId[host[j]] = j /\ files[host[j]] = {j}

(* and nothing is removed from it before it was delivered. *)
DeliveredFirst ==
    rebooted = {} =>
        \A j \in Jobs : jpc[j] \in {"clean", "making"} \cup Past =>
            final[j] = "all" \/ j \in unsent \/ dpc[j] # "no"

(* A row follows its job, and an old listing is still true of what has     *)
(* ended; a sweep closes rows of jobs that are gone, or were not there.    *)
RowsFollow ==
    /\ \A j \in Tracked : listing[j] = "C" => Over(j)
    /\ \A j \in Jobs :
          /\ row[j] # "none" \/ dpc[j] # "no" => jpc[j] # "unborn"
          /\ ppc = "sweep" => jpc[j] = "gone" \/ j \in unborn
    /\ \A j \in Jobs \ swept :
          /\ row[j] = "C" \/ dpc[j] # "no" => Over(j)
          /\ dpc[j] = "removed" => final[j] = "none"

Excused(j) == j \in swept \/ (Over(j) /\ (j \in unsent \/ dpc[j] # "no"))

RequestsExcused ==
    /\ \A r \in Requests : req[r].pc # "idle" =>
          /\ rebooted = {}
          /\ req[r].late => Over(req[r].job) \/ req[r].job \in swept
          /\ req[r].late /\ req[r].pc # "open" => Excused(req[r].job)
    /\ \A j \in short : Excused(j)

JInv ==
    /\ TypeOK
    /\ Alone
    /\ LockHeld
    /\ HomesInOrder
    /\ DeliveredFirst
    /\ RowsFollow
    /\ DeletedIsGone
    /\ RequestsExcused

Place ==
    [unborn |-> 0, queued |-> 1, prologue |-> 2, locked |-> 3, running |-> 4, check |-> 5,
     deliver |-> 6, sending |-> 7, clean |-> 8, making |-> 9, completed |-> 10, gone |-> 11]

(* While no node stops no job is turned away by a home that is not free,   *)
(* put back into the queue or started twice, whatever the jobs before it   *)
(* in that home met with: each goes through its stages once.               *)
RunsOnce ==
    [][rebooted' = {} =>
          \A j \in Jobs : jpc'[j] = jpc[j] \/ Place[jpc[j]] < Place[jpc'[j]]]_vars

(* Every job ends, with copies that fail or not, because every epilogue    *)
(* gives the home free again.  A node that stops may leave a lock, or an   *)
(* account without a home, and then does keep the later jobs out for ever. *)
JobEnds == \A j \in Jobs : jpc[j] = "queued" ~> Over(j) \/ rebooted # {}
=============================================================================
