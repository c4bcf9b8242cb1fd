----------------------------- MODULE MachineEJB -----------------------------
(***************************************************************************)
(* MachineEJB.java: interactive sessions on the worker nodes.              *)
(*                                                                         *)
(* An interactive submission (prepareMachine, getAccount) chooses a node,  *)
(* takes it offline for batch work, suspends the batch jobs on it, creates *)
(* a pool account there and commits the account's row when it returns.     *)
(* Every minute cleanAccounts removes the passwords of old accounts,       *)
(* deletes accounts without processes and puts nodes without accounts back *)
(* online, all in one transaction.  Submissions run in threads of their    *)
(* own, so each ssh, scp and pbs command is an action here.                *)
(*                                                                         *)
(* Account ids are never reused, so an account stands for the submission   *)
(* that creates it.  A row is seen by others from the commit of its        *)
(* transaction.                                                            *)
(***************************************************************************)
EXTENDS Pbs

CONSTANTS
    Accounts,             \* pool accounts, one for each interactive submission
    NoAccount,            \* no account: current outside cleanAccounts' userdel step
    Events,               \* the failures and other disturbances a run admits
    RollbackOnException,  \* does the container roll back when getAccount throws?
    SnapshotReads         \* do cleanAccounts' queries all read one database snapshot?

(* "ssh": an ssh or scp command to a reachable node fails; "torque": a pbs *)
(* command fails; "vanish": an account disappears from its node; "down": a *)
(* node goes down; "crash": the server stops and is started again; "qdel": *)
(* a batch job is cancelled.                                               *)
EventKinds == {"ssh", "torque", "vanish", "down", "crash", "qdel"}

ASSUME MachineAssumption ==
    /\ NoAccount \notin Accounts
    /\ Events \subseteq EventKinds
    /\ RollbackOnException \in BOOLEAN
    /\ SnapshotReads \in BOOLEAN

VARIABLES
    row,         \* committed R92Account rows; "cleared" is allocatedDate = null
    osAcct,      \* the account on its node; "open" is with a password
    active,      \* accounts with processes on their node
    pc,          \* where each submission stands
    host,        \* R92Account.host, from the moment prepareMachine chose it
    suspending,  \* jobs setOffline has listed and not yet suspended
    cpc,         \* where cleanAccounts stands
    todo,        \* accounts left in its current loop
    current,     \* the account whose ps printed nothing
    cleared,     \* its uncommitted setAllocatedDate(null)
    removed,     \* its uncommitted entityManager.remove
    seen,        \* with SnapshotReads, the rows committed when its transaction began
    offl,        \* offline nodes of its call of getStates, still to be considered
    target,      \* the node it is putting back online
    resuming,    \* jobs setOnline has listed as suspended and not yet resumed
    uncounted,   \* history: accounts without a visible row when target was counted
    raced,       \* history: accounts whose node was put online without counting them
    stranded     \* history: jobs left suspended on a node that is online

subVars == <<pc, host, suspending>>
cleanVars == <<cpc, todo, current, cleared, removed, seen, offl, target,
               resuming, uncounted, raced>>
vars == <<torqueVars, row, osAcct, active, subVars, cleanVars, stranded>>

(* A submission that has taken its node offline and not yet ended. *)
Marked == {"marked", "suspend", "copied", "ready"}
InFlight == {"chosen"} \cup Marked

TypeOK ==
    /\ TorqueTypeOK
    /\ row \in [Accounts -> {"none", "allocated", "expired", "cleared"}]
    /\ osAcct \in [Accounts -> {"absent", "locked", "open"}]
    /\ active \subseteq Accounts
    /\ pc \in [Accounts -> {"idle", "done", "failed"} \cup InFlight]
    /\ host \in [Accounts -> Hosts \cup {NoHost}]
    /\ suspending \in [Accounts -> SUBSET Jobs]
    /\ cpc \in {"idle", "passwd", "ps", "userdel", "count", "online", "qstat",
                "resume", "wakeup", "commit"}
    /\ todo \subseteq Accounts
    /\ current \in Accounts \cup {NoAccount}
    /\ cleared \subseteq Accounts
    /\ removed \subseteq Accounts
    /\ seen \subseteq Accounts
    /\ offl \subseteq Hosts
    /\ target \in Hosts \cup {NoHost}
    /\ resuming \subseteq Jobs
    /\ uncounted \subseteq Accounts
    /\ raced \subseteq Accounts
    /\ stranded \subseteq Jobs
    /\ \A a \in Accounts : pc[a] # "idle" => host[a] \in Hosts
    /\ cpc = "userdel" => current \in Accounts

Init ==
    /\ TorqueInit
    /\ row = [a \in Accounts |-> "none"]
    /\ osAcct = [a \in Accounts |-> "absent"]
    /\ active = {}
    /\ pc = [a \in Accounts |-> "idle"]
    /\ host = [a \in Accounts |-> NoHost]
    /\ suspending = [a \in Accounts |-> {}]
    /\ cpc = "idle"
    /\ todo = {}
    /\ current = NoAccount
    /\ cleared = {}
    /\ removed = {}
    /\ seen = {}
    /\ offl = {}
    /\ target = NoHost
    /\ resuming = {}
    /\ uncounted = {}
    /\ raced = {}
    /\ stranded = {}

Rows == {a \in Accounts : row[a] # "none"}
Reachable(a) == host[a] \notin down

-----------------------------------------------------------------------------
(* An interactive submission: prepareMachine and getAccount.               *)

At(a, from, to) == pc[a] = from /\ pc' = [pc EXCEPT ![a] = to]

(* getStates, then the least loaded candidate: the load, a figure Ganglia  *)
(* reports, may favour any of them.                                        *)
ChooseMachine(a, h) ==
    /\ At(a, "idle", "chosen")
    /\ h \in Candidates
    /\ host' = [host EXCEPT ![a] = h]
    /\ UNCHANGED <<torqueVars, row, osAcct, active, suspending, cleanVars,
                   stranded>>

MarkOffline(a) ==
    /\ At(a, "chosen", "marked")
    /\ PbsnodesOffline(host[a])
    /\ stranded' = {j \in stranded : jobHost[j] # host[a]}
    /\ UNCHANGED <<row, osAcct, active, host, suspending, cleanVars>>

(* getJobs: pbsnodes -x names the jobs on the node. *)
ListJobs(a) ==
    /\ At(a, "marked", "suspend")
    /\ suspending' = [suspending EXCEPT ![a] = Occupants(host[a])]
    /\ UNCHANGED <<torqueVars, row, osAcct, active, host, cleanVars, stranded>>

Suspend(a, j) ==
    /\ pc[a] = "suspend"
    /\ j \in suspending[a]
    /\ QsigSuspend(j)
    /\ suspending' = [suspending EXCEPT ![a] = @ \ {j}]
    /\ stranded' = stranded \cup {i \in {j} : a \in raced}
    /\ UNCHANGED <<row, osAcct, active, pc, host, cleanVars>>

(* An error before the row is persisted ends prepareMachine: the node      *)
(* stays offline and nothing records why.                                  *)
PrepareThrows(a) ==
    /\ \/ /\ pc[a] \in {"chosen", "marked"}
          /\ "torque" \in Events
       \/ /\ pc[a] = "suspend"
          /\ \E j \in suspending[a] : "torque" \in Events \/ SuspendThrows(j)
    /\ pc' = [pc EXCEPT ![a] = "failed"]
    /\ suspending' = [suspending EXCEPT ![a] = {}]
    /\ UNCHANGED <<torqueVars, row, osAcct, active, host, cleanVars, stranded>>

(* Mutant of CopyScript: the account is made before every job is suspended. *)
CopyScriptEarly(a) ==
    /\ At(a, "suspend", "copied")
    /\ Reachable(a)
    /\ UNCHANGED <<torqueVars, row, osAcct, active, host, suspending, cleanVars,
                   stranded>>

(* getAccount persists the row, then scp copies the job's script. *)
CopyScript(a) ==
    /\ At(a, "suspend", "copied")
    /\ suspending[a] = {}
    /\ Reachable(a)
    /\ UNCHANGED <<torqueVars, row, osAcct, active, host, suspending, cleanVars,
                   stranded>>

(* prepareaccount: useradd, then chpasswd. *)
PrepareAccount(a) ==
    /\ At(a, "copied", "ready")
    /\ Reachable(a)
    /\ osAcct' = [osAcct EXCEPT ![a] = "open"]
    /\ UNCHANGED <<torqueVars, row, active, host, suspending, cleanVars, stranded>>

(* An error once the row is persisted: what prepareaccount had done so far *)
(* stays, and the row, whose allocatedDate is still null, is committed     *)
(* unless the container rolls back.                                        *)
AccountThrows(a) ==
    /\ \/ pc[a] = "suspend" /\ suspending[a] = {}
       \/ pc[a] = "copied"
    /\ ~Reachable(a) \/ "ssh" \in Events
    /\ pc' = [pc EXCEPT ![a] = "failed"]
    /\ \/ UNCHANGED osAcct
       \/ /\ pc[a] = "copied" /\ Reachable(a)
          /\ \E s \in {"locked", "open"} : osAcct' = [osAcct EXCEPT ![a] = s]
    /\ row' = [row EXCEPT ![a] = IF RollbackOnException THEN "none" ELSE "cleared"]
    /\ UNCHANGED <<torqueVars, active, host, suspending, cleanVars, stranded>>

(* The transaction commits and the user is told host, name and password. *)
CommitSubmission(a) ==
    /\ At(a, "ready", "done")
    /\ row' = [row EXCEPT ![a] = "allocated"]
    /\ UNCHANGED <<torqueVars, osAcct, active, host, suspending, cleanVars,
                   stranded>>

-----------------------------------------------------------------------------
(* cleanAccounts.                                                          *)

CleanAt(from, to) == cpc = from /\ cpc' = to

(* What its queries see beside its own changes. *)
Visible == IF SnapshotReads THEN seen ELSE Rows

(* The OLD query. *)
CleanStart ==
    /\ CleanAt("idle", "passwd")
    /\ seen' = IF SnapshotReads THEN Rows ELSE {}
    /\ todo' = {a \in Accounts : row[a] = "expired"}
    /\ UNCHANGED <<torqueVars, row, osAcct, active, subVars, current, cleared,
                   removed, offl, target, resuming, uncounted, raced, stranded>>

(* Mutant of ClearPassword: allocatedDate is reset and the password stays. *)
ClearOnlyDate(a) ==
    /\ cpc = "passwd"
    /\ a \in todo
    /\ Reachable(a)
    /\ osAcct[a] # "absent"
    /\ cleared' = cleared \cup {a}
    /\ todo' = todo \ {a}
    /\ UNCHANGED <<torqueVars, row, osAcct, active, subVars, cpc, current, removed,
                   seen, offl, target, resuming, uncounted, raced, stranded>>

(* passwd -d *)
ClearPassword(a) ==
    /\ cpc = "passwd"
    /\ a \in todo
    /\ Reachable(a)
    /\ osAcct[a] # "absent"
    /\ osAcct' = [osAcct EXCEPT ![a] = "locked"]
    /\ cleared' = cleared \cup {a}
    /\ todo' = todo \ {a}
    /\ UNCHANGED <<torqueVars, row, active, subVars, cpc, current, removed, seen,
                   offl, target, resuming, uncounted, raced, stranded>>

(* passwd -d reports an error: the node is down, the user unknown or ssh   *)
(* failed, perhaps after passwd did its work.  The exception leaves the    *)
(* loop; it is caught, so the transaction still commits.                   *)
ClearThrows(a) ==
    /\ CleanAt("passwd", "commit")
    /\ a \in todo
    /\ ~Reachable(a) \/ osAcct[a] = "absent" \/ "ssh" \in Events
    /\ \/ UNCHANGED osAcct
       \/ /\ Reachable(a) /\ osAcct[a] # "absent"
          /\ osAcct' = [osAcct EXCEPT ![a] = "locked"]
    /\ UNCHANGED <<torqueVars, row, active, subVars, todo, current, cleared,
                   removed, seen, offl, target, resuming, uncounted, raced,
                   stranded>>

(* Mutant of FindDeletable: only the accounts this run took the password of. *)
FindJustCleared ==
    /\ CleanAt("passwd", "ps")
    /\ todo = {}
    /\ todo' = cleared
    /\ UNCHANGED <<torqueVars, row, osAcct, active, subVars, current, cleared,
                   removed, seen, offl, target, resuming, uncounted, raced,
                   stranded>>

(* The TODELETE query: allocatedDate is null in a committed row, or here. *)
FindDeletable ==
    /\ CleanAt("passwd", "ps")
    /\ todo = {}
    /\ todo' = {a \in Visible : row[a] = "cleared"} \cup cleared
    /\ UNCHANGED <<torqueVars, row, osAcct, active, subVars, current, cleared,
                   removed, seen, offl, target, resuming, uncounted, raced,
                   stranded>>

(* ps -U says that the user does not exist. *)
PsVanished(a) ==
    /\ cpc = "ps"
    /\ a \in todo
    /\ Reachable(a) /\ osAcct[a] = "absent"
    /\ removed' = removed \cup {a}
    /\ todo' = todo \ {a}
    /\ UNCHANGED <<torqueVars, row, osAcct, active, subVars, cpc, current, cleared,
                   seen, offl, target, resuming, uncounted, raced, stranded>>

PsBusy(a) ==
    /\ cpc = "ps"
    /\ a \in todo
    /\ Reachable(a) /\ osAcct[a] # "absent" /\ a \in active
    /\ todo' = todo \ {a}
    /\ UNCHANGED <<torqueVars, row, osAcct, active, subVars, cpc, current, cleared,
                   removed, seen, offl, target, resuming, uncounted, raced,
                   stranded>>

(* Mutant of PsNoProcess: the output of ps is not looked at. *)
PsUnchecked(a) ==
    /\ CleanAt("ps", "userdel")
    /\ a \in todo
    /\ Reachable(a) /\ osAcct[a] # "absent"
    /\ current' = a
    /\ todo' = todo \ {a}
    /\ UNCHANGED <<torqueVars, row, osAcct, active, subVars, cleared, removed, seen,
                   offl, target, resuming, uncounted, raced, stranded>>

PsNoProcess(a) ==
    /\ CleanAt("ps", "userdel")
    /\ a \in todo
    /\ Reachable(a) /\ osAcct[a] # "absent" /\ a \notin active
    /\ current' = a
    /\ todo' = todo \ {a}
    /\ UNCHANGED <<torqueVars, row, osAcct, active, subVars, cleared, removed, seen,
                   offl, target, resuming, uncounted, raced, stranded>>

(* ssh itself wrote to stderr. *)
PsThrows(a) ==
    /\ CleanAt("ps", "commit")
    /\ a \in todo
    /\ ~Reachable(a) \/ "ssh" \in Events
    /\ UNCHANGED <<torqueVars, row, osAcct, active, subVars, todo, current, cleared,
                   removed, seen, offl, target, resuming, uncounted, raced,
                   stranded>>

(* userdel -r: its errors are logged and the row is removed all the same. *)
UserDel ==
    /\ CleanAt("userdel", "ps")
    /\ \/ /\ Reachable(current)
          /\ osAcct' = [osAcct EXCEPT ![current] = "absent"]
       \/ /\ ~Reachable(current) \/ "ssh" \in Events
          /\ UNCHANGED osAcct
    /\ removed' = removed \cup {current}
    /\ current' = NoAccount
    /\ UNCHANGED <<torqueVars, row, active, subVars, todo, cleared, seen, offl,
                   target, resuming, uncounted, raced, stranded>>

NothingDeleted ==
    /\ CleanAt("ps", "commit")
    /\ todo = {} /\ removed = {}
    /\ UNCHANGED <<torqueVars, row, osAcct, active, subVars, todo, current, cleared,
                   removed, seen, offl, target, resuming, uncounted, raced,
                   stranded>>

(* getStates: one reading for all nodes. *)
ReadStates ==
    /\ CleanAt("ps", "count")
    /\ todo = {} /\ removed # {}
    /\ offl' = offline
    /\ UNCHANGED <<torqueVars, row, osAcct, active, subVars, todo, current, cleared,
                   removed, seen, target, resuming, uncounted, raced, stranded>>

(* Mutants of Users: expired accounts are not counted, deleted ones are. *)
UsersUnexpired(h) == {a \in Visible \ removed : host[a] = h /\ row[a] = "allocated"}
UsersUnflushed(h) == {a \in Visible : host[a] = h}

(* The USERS query of one node. *)
Users(h) == {a \in Visible \ removed : host[a] = h}

KeepOffline(h) ==
    /\ cpc = "count"
    /\ h \in offl
    /\ Users(h) # {}
    /\ offl' = offl \ {h}
    /\ UNCHANGED <<torqueVars, row, osAcct, active, subVars, cpc, todo, current,
                   cleared, removed, seen, target, resuming, uncounted, raced,
                   stranded>>

NoUsers(h) ==
    /\ CleanAt("count", "online")
    /\ h \in offl
    /\ Users(h) = {}
    /\ offl' = offl \ {h}
    /\ target' = h
    /\ uncounted' = Accounts \ Visible
    /\ UNCHANGED <<torqueVars, row, osAcct, active, subVars, todo, current, cleared,
                   removed, seen, resuming, raced, stranded>>

(* Accounts the count did not see although their submission has already    *)
(* taken target offline.                                                   *)
Overlooked == {a \in uncounted : host[a] = target /\ pc[a] \notin {"idle", "chosen"}}

(* setOnline: pbsnodes -c, whatever submissions did since the count. *)
SetOnline ==
    /\ CleanAt("online", "qstat")
    /\ PbsnodesClear(target)
    /\ raced' = raced \cup Overlooked
    /\ UNCHANGED <<row, osAcct, active, subVars, todo, current, cleared, removed,
                   seen, offl, target, resuming, uncounted, stranded>>

(* setOnline returns at once when qstat -x prints nothing. *)
QstatEmpty ==
    /\ CleanAt("qstat", "count")
    /\ Known = {}
    /\ UNCHANGED <<torqueVars, row, osAcct, active, subVars, todo, current, cleared,
                   removed, seen, offl, target, resuming, uncounted, raced,
                   stranded>>

ListSuspended ==
    /\ CleanAt("qstat", "resume")
    /\ Known # {}
    /\ resuming' = SuspendedOn(target)
    /\ UNCHANGED <<torqueVars, row, osAcct, active, subVars, todo, current, cleared,
                   removed, seen, offl, target, uncounted, raced, stranded>>

Resume(j) ==
    /\ cpc = "resume"
    /\ j \in resuming
    /\ QsigResume(j)
    /\ resuming' = resuming \ {j}
    /\ raced' = raced \cup Overlooked
    /\ stranded' = stranded \ {j}
    /\ UNCHANGED <<row, osAcct, active, subVars, cpc, todo, current, cleared,
                   removed, seen, offl, target, uncounted>>

(* Mutant of AllResumed: the loop leaves out the jobs that fail to resume. *)
AllResumedAnyway ==
    /\ CleanAt("resume", "wakeup")
    /\ \A j \in resuming : ResumeThrows(j)
    /\ UNCHANGED <<torqueVars, row, osAcct, active, subVars, todo, current, cleared,
                   removed, seen, offl, target, resuming, uncounted, raced,
                   stranded>>

AllResumed ==
    /\ CleanAt("resume", "wakeup")
    /\ resuming = {}
    /\ UNCHANGED <<torqueVars, row, osAcct, active, subVars, todo, current, cleared,
                   removed, seen, offl, target, resuming, uncounted, raced,
                   stranded>>

(* qsub of the wakeup script: it only makes the scheduler look again. *)
Wakeup ==
    /\ CleanAt("wakeup", "count")
    /\ UNCHANGED <<torqueVars, row, osAcct, active, subVars, todo, current, cleared,
                   removed, seen, offl, target, resuming, uncounted, raced,
                   stranded>>

OnlineDone ==
    /\ CleanAt("count", "commit")
    /\ offl = {}
    /\ UNCHANGED <<torqueVars, row, osAcct, active, subVars, todo, current, cleared,
                   removed, seen, offl, target, resuming, uncounted, raced,
                   stranded>>

(* Suspended jobs of target, which is online, that wait for setOnline. *)
AboutToResume(j) == cpc = "qstat" \/ (cpc = "resume" /\ j \in resuming)
Unresumed == {j \in SuspendedOn(target) : target \notin offline /\ AboutToResume(j)}

(* An exception of getStates or setOnline ends the loop over the nodes. *)
OnlineThrows ==
    /\ \/ /\ \/ cpc = "ps" /\ todo = {} /\ removed # {}
             \/ cpc \in {"online", "qstat", "wakeup"}
          /\ "torque" \in Events
       \/ /\ cpc = "resume"
          /\ \E j \in resuming : "torque" \in Events \/ ResumeThrows(j)
    /\ cpc' = "commit"
    /\ stranded' = stranded \cup Unresumed
    /\ UNCHANGED <<torqueVars, row, osAcct, active, subVars, todo, current, cleared,
                   removed, seen, offl, target, resuming, uncounted, raced>>

ResetCleaner ==
    /\ cpc' = "idle"
    /\ todo' = {} /\ current' = NoAccount /\ cleared' = {} /\ removed' = {}
    /\ seen' = {} /\ offl' = {} /\ target' = NoHost /\ resuming' = {} /\ uncounted' = {}
    /\ UNCHANGED raced

(* The method returns, normally or from its catch clause. *)
CommitClean ==
    /\ cpc = "commit"
    /\ row' = [a \in Accounts |->
                 CASE a \in removed -> "none"
                   [] a \in cleared \ removed -> "cleared"
                   [] OTHER -> row[a]]
    /\ ResetCleaner
    /\ UNCHANGED <<torqueVars, osAcct, active, subVars, stranded>>

-----------------------------------------------------------------------------
(* The environment.                                                        *)

(* passwordDurationMillis pass since the allocation. *)
Expire(a) ==
    /\ row[a] = "allocated"
    /\ row' = [row EXCEPT ![a] = "expired"]
    /\ UNCHANGED <<torqueVars, osAcct, active, subVars, cleanVars, stranded>>

Login(a) ==
    /\ pc[a] = "done" /\ osAcct[a] = "open" /\ Reachable(a)
    /\ a \notin active
    /\ active' = active \cup {a}
    /\ UNCHANGED <<torqueVars, row, osAcct, subVars, cleanVars, stranded>>

(* The user leaves, or xidlekill ends a session left idle. *)
Logout(a) ==
    /\ a \in active
    /\ active' = active \ {a}
    /\ UNCHANGED <<torqueVars, row, osAcct, subVars, cleanVars, stranded>>

Vanish(a) ==
    /\ "vanish" \in Events
    /\ osAcct[a] # "absent"
    /\ osAcct' = [osAcct EXCEPT ![a] = "absent"]
    /\ active' = active \ {a}
    /\ UNCHANGED <<torqueVars, row, subVars, cleanVars, stranded>>

HostDown(h) ==
    /\ "down" \in Events
    /\ h \notin down
    /\ down' = down \cup {h}
    /\ active' = {a \in active : host[a] # h}
    /\ UNCHANGED <<offline, jobState, jobHost, row, osAcct, subVars, cleanVars,
                   stranded>>

HostUp(h) ==
    /\ h \in down
    /\ down' = down \ {h}
    /\ UNCHANGED <<offline, jobState, jobHost, row, osAcct, active, subVars,
                   cleanVars, stranded>>

(* The server stops: open transactions are lost, nodes and Torque are not. *)
Crash ==
    /\ "crash" \in Events
    /\ cpc # "idle" \/ \E a \in Accounts : pc[a] \in InFlight
    /\ pc' = [a \in Accounts |-> IF pc[a] \in InFlight THEN "failed" ELSE pc[a]]
    /\ suspending' = [a \in Accounts |-> {}]
    /\ stranded' = stranded \cup Unresumed
    /\ ResetCleaner
    /\ UNCHANGED <<torqueVars, row, osAcct, active, host>>

Batch ==
    /\ \E j \in Jobs :
         \/ Qsub(j) \/ Exit(j) \/ Complete(j) \/ Purge(j)
         \/ "qdel" \in Events /\ Qdel(j)
         \/ \E h \in Hosts : Dispatch(j, h)
    /\ stranded' = {j \in stranded : jobState'[j] = "S"}
    /\ UNCHANGED <<row, osAcct, active, subVars, cleanVars>>

-----------------------------------------------------------------------------
Submission(a) ==
    \/ \E h \in Hosts : ChooseMachine(a, h)
    \/ MarkOffline(a)
    \/ ListJobs(a)
    \/ \E j \in Jobs : Suspend(a, j)
    \/ PrepareThrows(a)
    \/ CopyScript(a)
    \/ PrepareAccount(a)
    \/ AccountThrows(a)
    \/ CommitSubmission(a)

Clean ==
    \/ CleanStart
    \/ \E a \in Accounts :
         \/ ClearPassword(a) \/ ClearThrows(a)
         \/ PsVanished(a) \/ PsBusy(a) \/ PsNoProcess(a) \/ PsThrows(a)
    \/ FindDeletable
    \/ UserDel
    \/ NothingDeleted
    \/ ReadStates
    \/ \E h \in Hosts : KeepOffline(h) \/ NoUsers(h)
    \/ SetOnline
    \/ QstatEmpty
    \/ ListSuspended
    \/ \E j \in Jobs : Resume(j)
    \/ AllResumed
    \/ Wakeup
    \/ OnlineDone
    \/ OnlineThrows
    \/ CommitClean

Environment ==
    \/ \E a \in Accounts : Expire(a) \/ Login(a) \/ Logout(a) \/ Vanish(a)
    \/ \E h \in Hosts : HostDown(h) \/ HostUp(h)
    \/ Crash
    \/ Batch

Next == (\E a \in Accounts : Submission(a)) \/ Clean \/ Environment

Spec == Init /\ [][Next]_vars

(* Threads of the server go on, the timer fires, passwords grow old and no *)
(* session lasts for ever (xidlekill).                                     *)
Fairness ==
    /\ \A a \in Accounts : WF_vars(pc[a] # "idle" /\ Submission(a))
    /\ WF_vars(Clean)
    /\ \A a \in Accounts : WF_vars(Expire(a)) /\ WF_vars(Logout(a))

FairSpec == Spec /\ Fairness
-----------------------------------------------------------------------------
(* Properties.                                                             *)

(* A user who has processes on a node still has the account there and the  *)
(* row the server finds it by, which the cleaner is not about to delete:   *)
(* passwd -d, ps and userdel are three commands with users in between, and *)
(* their order is what keeps userdel -r away from a live session.          *)
LiveSessionTracked ==
    \A a \in active : row[a] # "none" /\ osAcct[a] # "absent" /\ a \notin removed

(* A user is on the node, or has the password to log in there. *)
InUse(a) == a \in active \/ (pc[a] = "done" /\ osAcct[a] = "open")

(* The accounts that hold their node: in use, and no cleanAccounts run has *)
(* brought the node online without having counted them.                    *)
Holders == {a \in Accounts : InUse(a)} \ raced

(* A node with such an account stays offline through every interleaving  *)
(* of submissions, cleanAccounts, faults and crashes.                      *)
HostStaysOffline == \A a \in Holders : host[a] \in offline

(* No batch job runs beside such an account: setOffline first closes the   *)
(* node, then lists, then suspends; a job the scheduler starts or the      *)
(* cleaner resumes in between must be caught.                              *)
NoBatchBesideUser == \A a \in Holders : Running(host[a]) = {}

(* A job that was suspended for a user comes back with its node: it waits  *)
(* on an offline node, or setOnline is about to resume it.  It is left     *)
(* behind only by a setOnline that was broken off, or if its node was put  *)
(* online without counting the user.                                       *)
NoJobForgotten ==
    \A j \in Jobs \ stranded :
        jobState[j] = "S" => jobHost[j] \in offline \/ (jobHost[j] = target /\ AboutToResume(j))

(* An old account is deleted in the end, whatever its user does. *)
ExpiredAccountGoes == \A a \in Accounts : row[a] = "expired" ~> row[a] = "none"

(* A node with a user comes back to batch work some time: the deletion of  *)
(* the last account counted on it finds it in getStates.                   *)
NodeComesBack ==
    \A h \in Hosts :
        (h \in offline /\ \E a \in Accounts : InUse(a) /\ host[a] = h) ~> h \notin offline

(* What cleanAccounts logs of a node with users, that it "cannot be put    *)
(* back online" (MachineEJB.java:210): so it is offline as long as it has  *)
(* any.  A submission that commits after the count refutes it.             *)
NodeWithUserIsOffline == \A a \in Accounts : InUse(a) => host[a] \in offline

(* The lease an account stands for. *)
LeaseOf(a) ==
    IF pc[a] # "done" THEN "free"
    ELSE IF row[a] = "none" THEN "reclaimed"
    ELSE IF osAcct[a] = "open" THEN "granted"
    ELSE "revoked"

Lease == INSTANCE AccountLease WITH
            lease <- [a \in Accounts |-> LeaseOf(a)],
            session <- active

(* MachineEJB implements AccountLease: whatever cleanAccounts reads before *)
(* its commands, and whatever fails between them, no account is reclaimed  *)
(* under a session or left usable once its row is gone.                    *)
ImplementsLease == Lease!LeaseSpec
-----------------------------------------------------------------------------
(* The inductive invariant behind LiveSessionTracked, HostStaysOffline,    *)
(* NoBatchBesideUser and NoJobForgotten.                                   *)

Ended(a) == pc[a] \in {"done", "failed"}

(* No user can log in to a. *)
Locked(a) == ~(pc[a] = "done" /\ osAcct[a] = "open")

(* A row and a session come from a submission that committed. *)
RowsOfEnded ==
    \A a \in Accounts :
        /\ row[a] # "none" => Ended(a)
        /\ row[a] \in {"allocated", "expired"} => pc[a] = "done"
        /\ a \in active => pc[a] = "done" /\ osAcct[a] # "absent"

(* A usable account has a row that cleanAccounts is not changing. *)
UsableHasRow ==
    \A a \in Accounts :
        ~Locked(a) => row[a] \in {"allocated", "expired"} /\ a \notin cleared \cup removed

(* What cleanAccounts works on when it comes to deleting: accounts of      *)
(* ended submissions, locked from the moment they are looked at.           *)
CleanerOnLocked ==
    /\ \A a \in seen \cup todo \cup cleared \cup removed : Ended(a)
    /\ cpc = "passwd" => \A a \in todo : row[a] = "expired"
    /\ cpc \in {"ps", "userdel"} => \A a \in todo : Locked(a)
    /\ \A a \in cleared : row[a] = "expired"
    /\ cpc = "userdel" => current \notin active /\ Ended(current) /\ Locked(current)

(* From the mark to the end of its use an account keeps its node offline,  *)
(* unless it was overlooked.                                               *)
MarkedIsOffline ==
    \A a \in Accounts \ raced : pc[a] \in Marked \/ InUse(a) => host[a] \in offline

(* After the count, every account that may need target is uncounted. *)
CountHolds ==
    cpc \in {"online", "qstat", "resume"} =>
        \A a \in Accounts \ uncounted : Ended(a) /\ (host[a] = target => ~InUse(a))

(* Every running job on the node of such an account is still to be         *)
(* suspended, and setOnline resumes jobs of its own node only.             *)
RunningIsListed ==
    /\ \A a \in Accounts \ raced :
         pc[a] \in {"suspend", "copied", "ready"} \/ InUse(a) => Running(host[a]) \subseteq suspending[a]
    /\ \A a \in Accounts : pc[a] # "suspend" => suspending[a] = {}
    /\ cpc = "resume" =>
         \A j \in resuming : jobHost[j] = target /\ jobState[j] \notin {"none", "Q"}

(* What setOffline has listed was started, on its own node. *)
ListedIsThere ==
    \A a \in Accounts : \A j \in suspending[a] :
        jobHost[j] = host[a] /\ jobState[j] \notin {"none", "Q"}

IInv ==
    /\ TypeOK
    /\ RowsOfEnded
    /\ UsableHasRow
    /\ LiveSessionTracked
    /\ CleanerOnLocked
    /\ MarkedIsOffline
    /\ CountHolds
    /\ RunningIsListed
    /\ ListedIsThere
    /\ NoJobForgotten
=============================================================================
