# A TLA+ model of ijp.torque

ijp.torque runs jobs for the users of an ICAT catalogue on a farm of worker
nodes.  Batch jobs go through the Torque batch system; interactive jobs get a
pool account on a node that is taken away from batch work for as long as the
account is in use.  This directory models the parts of it that hold state and
act at the same time, checks them with TLC and proves the most important safety
properties with TLAPS.

Java paths below are relative to `src/src/main/java/org/icatproject/ijp/r92/`,
scripts to `src/src/main/puppet/modules/`.

## 1. Inventory

| Component | State it keeps | Operations | Talks to |
|---|---|---|---|
| `JobManager` (REST facade) | none | one method per request | `JobManagementBean` |
| `JobManagementBean` (stateless EJB) | rows `R92Job` in the database | `submitBatch`, `submitInteractive`, `updateJobsFromQstat` (timer, every minute), `getJobOutput`, `getStatus`, `list`, `cancel`, `delete` | Torque by `qsub`, `qstat`, `qdel`; the nodes by ssh; `MachineEJB` |
| `MachineEJB` (EJB) | rows `R92Account` in the database | `prepareMachine`, `getAccount`, `cleanAccounts` (timer, every minute) | the nodes by ssh and scp; Torque by `Pbs` |
| `Pbs` | none | `getStates`, `getJobs`, `setOffline`, `setOnline`: sequences of `pbsnodes`, `qstat`, `qsig`, `qsub` | Torque |
| `LoadFinder` | none | reads Ganglia's figures | Ganglia |
| worker scripts `prepareaccount`, `xidlekill` | the accounts and processes of a node | create an account; end idle sessions | the node |
| `prologue`, `epilogue`, `push_output` | the home and lock directory of a batch pool account, output files | run before and after each job; copy output of a running one | Torque, the server's `/home/batch/jobs` |
| `server_site/files/ingest.py` (daemon) | trigger files in three directories; maps of submitted jobs and of first failures, in memory | submit, poll, collect, stop on SIGTERM | the `ijp` client, hence `JobManager` |
| `launcher`, `relauncher.sh`, Puppet's `run_ingest` | `pidfile` | start the daemon | the daemon |
| `worker_site/.../ingest.py` | datasets and datafiles in ICAT | create, fill, complete or remove a dataset | ICAT, the IDS |
| `worker_site/.../quincy.py`, `quincy_new.py`, `cat_utils.py` | a process with two pipes and two threads; datasets in ICAT | copy a dataset, run quincy, store its project | ICAT, the IDS |
| `worker_site/.../view_*.py` | copies in the home of an interactive session | copy datasets, start a viewer | ICAT, the IDS |
| Puppet manifests, `setup`, `cache.py` (vendored) | configuration | none at run time | |

What is hard in it, and what makes it correct:

* **Interactive sessions.**  Every ssh, scp and Torque command is a step of its
  own; several submissions and one `cleanAccounts` interleave with users who log
  in and out, with the scheduler, with failing commands, nodes that go down and a
  server that crashes.  A submission's row is invisible to the cleaner until the
  request returns.  Correct is: a live session never loses its account or its
  row; a node in use is offline and runs no batch job; every old account goes in
  the end and its node returns to batch work.
* **Batch jobs.**  The listing of `qstat` is older than the rows it is written
  to; Torque forgets jobs; the sweep for forgotten jobs acts on an absence.
  Correct is: a row says completed only of a job that ended, only such jobs are
  deleted, a started job's row names its node, every completion is noticed.
* **Job output.**  Prologue, epilogue, `push_output`, `getJobOutput` and
  `delete` handle the same files without a lock they share.  Correct is: a job
  runs in a home of its own, output that is delivered is the job's, and delete
  leaves nothing that a later request takes for the job's output.
* **Ingest.**  The daemon's maps are lost when it stops while its jobs go on;
  two launchers can race on `pidfile`; ICAT keeps what a failed ingest created.
  Correct is: a trigger is done only when its dataset is complete, what a dataset
  depends on exists, no trigger is left lying, and the daemon stops when told to.
* **Quincy jobs and viewers.**  Quincy blocks on a full pipe, a thread that fails
  dies silently, two runs may give their projects one name, and every call of ICAT
  may fail, also after it took effect.  A viewer script runs at every login in a
  home that an earlier run may have left at any point.  Correct is: no job hangs
  on its pipes, a project that is marked complete has all its files, whatever is
  left incomplete was given up knowingly, and what a user is shown is whole.

`PROJECT.json` lists the components with their status and, under "hazards", the
lines where these difficulties sit and the properties that watch them.

## 2. Modules

| Module | Models | Used by |
|---|---|---|
| `Torque` | what the code uses of Torque (external): nodes marked offline or down, jobs in the states `Q R S E C` | `Pbs` |
| `Pbs` | `Pbs.java` and `Qstat.java`: the single commands, with the errors their wrappers throw or ignore | `MachineEJB`, `BatchJobs` |
| `MachineEJB` | `MachineEJB.java`, `R92Account.java`, `prepareaccount`, `xidlekill` | |
| `AccountLease` | the abstract promise of `MachineEJB` | `MachineEJB` (`Lease`) |
| `BatchJobs` | `JobManagementBean.java` (submit, timer, cancel, delete), `R92Job.java` | |
| `RowLedger` | the abstract promise of `BatchJobs` about its rows | `BatchJobs` (`Ledger`) |
| `DatasetIngest` | `worker_site/.../ingest.py`, `cat_utils.py`: the steps of one ingest job, and what ICAT keeps of it | `IngestDaemon` |
| `IngestDaemon` | `server_site/files/ingest.py`, `launcher`, `relauncher.sh`: the daemon, its jobs and the trigger files | |
| `IngestBook` | the abstract promise of `IngestDaemon` about triggers and datasets | `IngestDaemon` (`Book`) |
| `JobOutput` | `prologue`, `epilogue`, `push_output`; `getJobOutput`, `delete` and `updateJobsFromQstat` of `JobManagementBean.java` | |
| `ProjectJobs` | `quincy.py`, `quincy_new.py`, and `Session`, `Tee` of `cat_utils.py` | |
| `ProjectStore` | the abstract promise of `ProjectJobs` to readers of ICAT | `ProjectJobs` (`Store`), `Viewers` |
| `Viewers` | `view_ingested.py`, `view_project.py` and the two like them, composed with `ProjectStore` | |
| `ShownProjects` | `ProjectJobs` and `Viewers` as one system, with theorems about it | |
| `MCMachineEJB`, `MCBatchJobs`, `MCIngestDaemon` | symmetry, inputs and the full set of events, for TLC | |
| `MachineEJBProofs`, `BatchJobsProofs`, `IngestDaemonProofs`, `JobOutputProofs`, `ProjectJobsProofs`, `ViewersProofs` | theorems | |

### Torque and Pbs

`jobState` holds what `qstat -x` prints, before a job is submitted `none` and,
when Torque forgot it, `gone`.  A node has one slot (np = 1), which a suspended or
exiting job keeps.  `Dispatch` takes any queued job to any free node: the
scheduler's policy is not modelled.  `qsig -s suspend` forgives a job in another
state (exit code 170), `qsig -s resume` does not: `QsigSuspend`, `SuspendThrows`,
`QsigResume` and `ResumeThrows` say when each succeeds or throws.

### MachineEJB

An account stands for the submission that creates it, since ids are never used
twice.  `pc[a]` follows `prepareMachine` and `getAccount`, one action per command:

    idle -ChooseMachine-> chosen -MarkOffline-> marked -ListJobs-> suspend
         -Suspend*, CopyScript-> copied -PrepareAccount-> ready
         -CommitSubmission-> done

`PrepareThrows` and `AccountThrows` are the ways out of it.  `cpc` follows
`cleanAccounts`, one transaction with three loops: take passwords (`passwd`),
delete accounts without processes (`ps`, `userdel`) and, when it deleted any, put
nodes without users online (`count`, `online`, `qstat`, `resume`, `wakeup`).
`row` is the committed database; `cleared` and `removed` are the changes the
transaction has not committed.  `R92Account.allocatedDate` is abstracted to
what the queries tell apart: `allocated`, `expired` (older than the password's
duration) and `cleared` (null).  `osAcct` is the account in the node's password
file, `active` the accounts with processes.

Decisions a reader should know of:

* `passwd -d` removes the password of the account.  That nobody can log in after that
  depends on how the nodes are set up (sshd refuses empty passwords by default) and is
  said nowhere in the repository.  The model assumes it: `osAcct` is then `locked`, and
  `Login` needs `open`.  `LiveSessionTracked` rests on this.
* An EJB method is one transaction: its rows are seen by others when it returns.
  `cleanAccounts` catches every exception, so that what it did before an error is
  committed (`CommitClean` follows `ClearThrows`, `PsThrows`, `OnlineThrows`).
* Whether the container rolls back when `getAccount` throws depends on its
  annotations and version, and whether two queries of a transaction read one
  snapshot depends on the database.  `RollbackOnException` and `SnapshotReads`
  cover both answers; the proofs hold for all four combinations.
* `userdel` removes the row even if it fails, as the code does.
* A failing remote command may have done its work: `AccountThrows`,
  `ClearThrows` leave the account as it was or as the command would have.
* `LoadFinder` may favour any candidate; the wakeup job only makes the scheduler
  look again.

`uncounted`, `raced` and `stranded` are history variables.  An account is in `raced` when its
node was put online by a run of the cleaner that did not see the account's row
when it counted the node's users.  That race is real (finding `count_race`);
`HostStaysOffline` and `NoBatchBesideUser` say that it is the only way to lose a
node.  A job is in `stranded` while it is suspended on a node that is online and
nobody is about to resume it: `setOnline` was broken off after `pbsnodes -c`
(`OnlineThrows`, `Crash`), or the job was suspended for an account in `raced`.
`NoJobForgotten` says that there is no other way, whatever jobs end, start and are
suspended while the cleaner goes through its list.

### BatchJobs

`jobRow` and `rowNode` are the committed status and worker node of `R92Job`,
`spc` follows `submitBatch` (qsub, qstat, commit), `ppc` the timer's
`updateJobsFromQstat`: `PollQstat` reads, `PollFind` looks up each listed job,
`PollCommit` writes; when nothing is listed `PollFindIncomplete` and
`PollSweepCommit` set the rest to C.  `delete` is a check and a commit, with the
files between them.  `unborn`, `swept` and `noticed` are history variables:
`swept` names the rows that the sweep met although their job did not exist when
the listing was read (finding `sweep_race`), `noticed` the jobs a whole run of
the timer dealt with as completed.  `RowLedger` is what a submitter may rely on: a row is
made once, is closed or removed only for a job that has ended or that a sweep
overlooked, and does not come back.  A complete row may be shown as open once more,
by a timer that read its listing before.

### DatasetIngest and IngestDaemon

`jpc[j]` follows the ingest job `j`, one action per call that changes ICAT or ends
the job:

    queued -StartJob-> started -CheckDependencies-> checked -Create-> writing
           -Complete-> stored -StoreProvenance-> ended

A simple dependency (beads, bias, ...) is created from `started`; the failure of
its files leaves the dataset (`WriteFails` ends the job), that of a directory's is
undone (`undoing`, `Undo`), and the undo can fail as well.  The names of datasets
are unique in ICAT, so a second job for the same input meets `AlreadyExists`, which
ends with exit code 2 and says so on stdout.  `stderr` is all the daemon can see
of an end.  The files of a dataset, its parameters and its types are abstracted:
they are checked before `Create` (`Refuse`), or are part of `writing`.

`dpc[d]` follows a daemon: `submit` goes over the listed triggers (`todo`), `look`
over the jobs it knows (`status`), with `delete` after each job that was collected.
A stopped daemon (`Stop`) forgets `status` and `failures`; `where`, the jobs and
ICAT stay.  `CheckPidfile` and `Launch` are the two steps of a launcher, so two
daemons can be at work.  `shown` is what `ijp status` says, which follows the job
only when the server's timer runs (`UpdateStatus`).  `time.time() -
failures[trigger] > maxtime` is abstracted to `old` (`Age`).  A job identifier that
no daemon knows may be used again (`Forgotten`, `Reuse`): `Jobs` bounds the jobs
that are of interest at the same time, not their number, and while all are
taken `ijp submit` fails (`SubmitFails`).

`early` and `masked` are history variables.  A job is early when it ended with
nothing on stderr although its dataset was not complete or another job was still at
it: it met `AlreadyExists` or was killed without a word.  A trigger is masked when
it was moved to done because of such a job (finding `ingest_success`).
`DoneIsComplete` says that there is no other way for a trigger to be done without
its dataset.

`IngestBook` is what the people at both ends may rely on: a trigger moves once, a
dataset is built for a trigger that arrived, on datasets that exist, and only that of
a directory is removed.  `content` is what ICAT has, whatever the job at it knows.
A dataset that is whole stays as it is, with one exception: when the update
that makes it complete works and its answer is lost, the job takes it for
unfinished and undoes it (worker `ingest.py:195-201`), so that a reader sees a whole
dataset go.  `Unheard` are the datasets in that state: `FinishUnheard` leads into it,
`Withdraw` (the undo) or `Keep` (the job ends before it) out of it.  A trigger is never
done, unless its daemon was misled, while its dataset is in it.

### JobOutput

`jpc[j]` follows a job of one pool account through the scripts of Torque:

    queued -Dispatch-> prologue -MakeLock-> locked -WriteId-> running -Exit-> check
           -CheckLock-> deliver -Deliver-> sending -Delivered-> clean
           -RemoveHome*-> making -MakeHome-> completed

`home[h]` is the directory of the account on a node (`missing`, `free`, or `locked`
when `lock` is in it), `lockId[h]` what `lock/id` says, `files[h]` the jobs whose
output is there.  A prologue that cannot make the lock sends the job back to the
queue, with or without an epilogue (`PrologueFails`, `again`).  `RemoveHome` takes
lock and files away in either order, as `rm -rf` may.  `final` and `tmp` are the
copies on the server, which `scp` writes in place: `part`, then `all`.  `req[r]`
follows a call of `getJobOutput` through `push_output`, one action per command;
`dpc[j]` a `delete`.

The rows follow Torque with a delay.  `Qsub` and `Persist` are the two ends of
`submitBatch`; `PollQstat` reads the listing, `PollCommit` writes what it says, so old
as it is by then, and `PollSweep`, when nothing was listed, closes every open row, also
one committed since.  That a listing is looked up and committed in two steps is left
to `BatchJobs`.  `unborn` are the jobs not submitted when such a listing was read,
`swept` those of them whose row was closed: a job in `swept` may be queued or running
under a row that says C, so that a request for its output is answered with what it
has printed so far, and its row may be deleted before its output is
delivered (the race of finding `sweep_race`).  `CompletedIsWhole` and `DeletedIsGone`
except the jobs in `swept` and say that there is no other way.  A job that is cancelled
in the queue has no output and is left out.

What the model showed while it was written:

* Only `np=1` (`torque/manifests/worker.pp:5`, with `np=${processorcount}` as a
  comment above it) keeps two jobs of an account apart.  With a second slot `rm -rf`
  may remove the lock before the files and a job starts in a home that is still
  being removed: `HomeIsOwn` fails.  With one slot the comparison of `lock/id` never
  makes a difference unless a node stopped.
* A node that stops leaves its lock, and every later prologue there puts its job
  back into the queue (`JobEnds` excludes a node that stopped).
* `push_output` ends with the exit code of `rm -f`, so `getJobOutput` does not see
  that `scp` failed and may return an old `*_tmp`.
* `delete` leaves `*_tmp` on the server.  Read literally, `JobManager.java:58` ("Delete
  all information") says that it does not; `DeletedIsGone` is about the delivered file only.

### ProjectJobs and ProjectStore

`pc[j]` follows a script, one action per call that can fail or that others see:

    queued -Accept-> accepted -OpenSession-> session -GetDataset-> dataset
           -GetDependencies-> ready -StartQuincy-> running -Wait-> joining -Join->
    parsing -Parse-> parsed -Prepare-> prepared -Create-> writing
           -WriteListed*, WriteOther*, SetComplete-> complete -StoreProvenance-> ended

`quincy_new.py` (the jobs in `New`) has steps of its own where the two differ:
`AcceptNew`, `DownloadNew`, `DependenciesNew`, `AlreadyExistsNew`.  Beside the script
run quincy, which prints `Lines` lines on each stream and waits while a pipe is full
(`PrintLine`), and the threads (`tee`), which empty the pipes until their end
(`TeeEnds`) or die of a failing write (`TeeDies`).  `there`, `complete`, `stored`
and `job` are the dataset, its mark, its files and its provenance in ICAT and the
IDS.  A call may fail and have taken effect all the same: `CreateUnheard`,
`WriteFails`, `Fails` at the provenance.  `cut`, `dead` and `abandoned` are history
variables and name the ways to a project that is not whole: a log that was read
early, a thread that died, a script that was killed or could not undo.

Both scripts use `WebFault` without importing it by that name; whether
`ijp_lsf.constants`, which is not in the repository, has it decides if a name that
is taken ends `quincy.py` with exit code 2 or 1 (`AlreadyExists` has both).
`quincy_new.py` ends with 1 in either case (`raise RuntimeError(message, 2)` is caught
at the end of the script), although its comment says "return code 2".  It
calls `Session` the way an earlier `cat_utils.py`, installed as `ijp.cat_utils`,
had it; its helpers are taken to do what the ones in the repository do.

`ProjectStore` is what a reader of ICAT may rely on: a project goes from `absent` to
`partial` and from there to `whole` or `removed`.  A project is mapped by what ICAT and the
IDS have of it: `whole` when it is marked complete and has all its files.  It stays so
unless its script missed the answer to the update that made it complete: `quincy.py:217-221`
then removes its files and the dataset (`Spoil`, `Remove`).  The history variable `unheard`
names these jobs, and a whole project is lost in no other way.

### Viewers

One run of the script after the other in the same home: `vpc` is where it stands,
`tmp` and `path` are the copies in `tmp` and in `RunDir`, `nested` says that
`shutil.move` put one into the other, `dep` holds the copies of the dependencies.
`Logout` may cut a run off anywhere.  `Viewers` extends `ProjectStore`, whose steps
interleave with the script's: a copy may be taken of a dataset that is still
being written (`early`).  `BuildInnerOptions` is `build_inner_options` as a function of what it
tells apart in a value: 1 becomes a flag and 0 nothing.  The comment above it,
"omitting IJP options" (`view_project.py:18`), is true of five of them: `ijpUrl` and `ijpJobId`,
which `cat_utils.py:261-264` adds, are not in its list and are passed on.  The function is
modelled, and no property is about it: one would only repeat it.  An option reaches the
viewer under the name optparse stores it by, with `_` for `-` (`--reg-beads` as
`--reg_beads`); whether the viewer, which is not in the repository, takes that is not
modelled.

A run that was cut off, or stopped for a missing file, before its `shutil.move` leaves
`tmp`, and every later run fails at `os.mkdir`; after two runs that ended well `RunDir/tmp` is there as
well and the third fails at `shutil.move`.  The user sees an error or an older copy,
never part of one, unless it was copied while it was being written, and what is
shown is still in ICAT as it was copied, unless it is `unheard`: that is `ShownIsWhole`.

`ShownProjects` puts the quincy jobs themselves in the place of `ProjectStore`: the
state of a project that the viewer reads is what `ProjectJobs` has in ICAT.
`ShownIsStored` says of the two together that what a user sees is a project that
is marked complete and has all its files, but for copies made too early and
projects whose script missed that they are complete.  It is about `view_project.py` and
`view_project_new.py`, which copy no dependencies; `view_ingested.py` shows what ingest jobs
store.

## 3. Runs

| Run | Instance | Shows |
|---|---|---|
| `machine_safety` | 2 accounts, 2 nodes, 1 batch job, all faults | the inductive invariant `IInv`; `LiveSessionTracked`, `HostStaysOffline`, `NoBatchBesideUser`, `NoJobForgotten` |
| `machine_live` | 2 accounts, 2 nodes, 1 job, no faults, snapshot reads and rollback, `FairSpec` | `ExpiredAccountGoes`, `NodeComesBack`; `MachineEJB` implements `AccountLease` |
| `count_race` | violation of `NodeWithUserIsOffline` | a submission that commits between the count and `pbsnodes -c` has its user on an online node |
| `batch_safety` | 2 jobs, 1 node, all failures | `BInv`, `CompleteRowIsComplete`, `DeletedJobHasEnded`, `StartedRowNamesNode`; `BatchJobs` implements `RowLedger` |
| `batch_live` | 2 jobs, 1 node, failing qstat of submissions, `FairSpec` | `CompletionNoticed` |
| `sweep_race` | violation of `OnlyEndedJobsDeleted` | the sweep sets a job to C that was submitted after the empty listing, and its row can be deleted |
| `ingest_safety` | a simple dependency and a directory that refers to it, 2 jobs, 1 daemon, all failures but SIGTERM | `DInv`, `DoneIsComplete`, `DependenciesExist`, `TypeOK`; `IngestDaemon` implements `IngestBook` |
| `ingest_live` | 1 trigger, 2 jobs, 2 daemons, SIGTERM, `FairSpec` | `TriggerLeaves`, `TermStops` |
| `ingest_success` | violation of `ProcessedSuccessfully` | the retry of an ingest that failed halfway passes for a success |
| `job_output` | 2 jobs, one of them with a row, 1 node, 1 request, old and empty listings, failing copies, a node that stops | `JInv`, `HomeIsOwn`, `OutputKept`, `CompletedIsWhole`, `DeletedIsGone`, `RunsOnce`; `JobEnds` |
| `project_jobs` | one job of each script, 2 names, 2 lines per stream, pipes of one line, all failures | `PInv`, `CompleteIsWhole`, `PartialIsAbandoned`, `ProvenanceHolds`, `NeverStuck`, `StepsLeadOn`; `ProjectJobEnds`; `ProjectJobs` implements `ProjectStore` |
| `viewers` | a dataset with a dependency, any number of logins, all values of an option | `VInv`, `ShownIsWhole`, `ViewerTypeOK` |

Bounds.  Two accounts are what a race between a submission and the deletion of
another account needs.  Two nodes let one be put online while another is in
use, and let the choice of a node have a loser.  One job suffices
for suspend against resume; the second lets the scheduler fill a slot that just
became free.  Account and job ids are used once, so that every history is
finite and no counter needs a bound.  Symmetry over accounts, jobs and nodes is
used in safety runs only.  Two triggers are a dataset and its dependency; two
jobs let a retry, or the job of a restarted daemon, run beside the first one.  In
`ingest_safety` one daemon crashes and restarts while its jobs go on, which
leaves the same jobs behind as a second daemon would; `ingest_live` has two at
once.  SIGTERM is left to `ingest_live`, where two daemons
meet it: with it `ingest_safety` and its refinement would not end in time.  The
proofs have it.  Two daemons with two triggers and all failures are beyond TLC.  In
`job_output` two jobs take turns in one home, which is all that jobs of an account
share; a second request, which shares the link and the copy of the first, is
left to the proofs, which hold for any number.  `Tracked` bounds the jobs whose
submission commits a row and whose delivery may fail: in the run it is one of the two, the
other is the job beside it that Torque may have listed or not; in the proofs it is any set.
The timer's `qstat` runs between two requests, while what it writes may come in the
middle of one.  A node stops at most once, not after a
delivery failed or a row was swept and with no request then or later, since these excuse
each other's effects.  In `project_jobs` pipes that hold one line of two let quincy wait for
each of its threads; `Lines` and `PipeSize` are parameters of the proofs.  The type invariants of
`MachineEJB`, `BatchJobs`, `JobOutput` and `ProjectJobs` are conjuncts of the invariants
`IInv`, `BInv`, `JInv` and `PInv` and are checked with them.  `viewers`
needs no bound: `nested` and the copies are finite however often the script runs.

Fairness.  `FairSpec` of `MachineEJB` assumes that a request that began and the
timer's method go on (the application server schedules its threads, commands
have no infinite wait), that time passes (`Expire`) and that no session lasts for
ever (`xidlekill` ends an idle one, users leave).  It does not assume that anybody submits or logs in, nor that any
single action of the cleaner is preferred.  `FairSpec` of `BatchJobs` assumes
that the timer fires and its method returns, that a submission that began and a
delete go on.  `PurgeLate` says that Torque, which keeps a completed job for 300
seconds (`keep_completed`), forgets it only after a whole run of the 60 second
timer, unless the run admits an "outage".  Nothing is assumed of jobs: they may
run for ever.  `FairSpec` of `IngestDaemon` assumes that a launcher runs again and
again (cron, Puppet), that a daemon that runs goes on, that jobs run to their end
and the server notices (an ingest job has no loop without an end), and that
time passes.  It does not assume that triggers arrive, nor that SIGTERM is sent.
`Spec` of `JobOutput` assumes that Torque dispatches what is queued, runs its two
scripts, and that jobs end (Torque's walltime); nothing of requests, rows or nodes
that stop.  `FairProjectSpec` assumes that a script, its threads and quincy go on, and
that quincy ends once it could print all its lines; that is weak fairness of the
job as a whole, so that `ProjectJobEnds` depends on the pipes and not on
which of them is served first.

## 4. Proofs

`MachineEJBProofs` proves, for all sets of nodes, jobs and accounts, every set of
events and both answers to the two questions above:

* `TypeCorrect`, `SessionsTracked`, `NodesStayOffline`, `NoJobBesideUser`,
  `NoneForgotten`: `TypeOK`, `LiveSessionTracked`, `HostStaysOffline`,
  `NoBatchBesideUser` and `NoJobForgotten` are invariants of `Spec`;
* `LeaseImplemented`: `Spec` implies `ImplementsLease`;
* `Invariant`: `IInv`, from which they follow, is an invariant.

The argument is the invariant `IInv` (in `MachineEJB`, checked by TLC in
`machine_safety`).  The properties are not inductive: that `userdel`
meets no session follows only if the account was locked before `ps` looked
(`CleanerOnLocked`), which needs that no account can be both usable and cleared
(`UsableHasRow`), which needs that a row belongs to a submission that has ended
(`RowsOfEnded`).  That a node stays offline needs the same of submissions still
on their way (`MarkedIsOffline`) and that after the count only `uncounted`
accounts can be on the node (`CountHolds`).  That no job runs there needs that
whatever runs on a marked node is in a submission's list (`RunningIsListed`):
jobs only stop once it is offline, and the cleaner resumes jobs of its own
target only.  That no suspended job is forgotten needs that a submission suspends
jobs of its own node only (`ListedIsThere`), which is offline or lost to a race
(`MarkedIsOffline`).  One lemma per part has one step per action.

The assumptions are `TorqueAssumption` (`NoHost` is no node) and
`MachineAssumption` (`NoAccount` is no account, the events are known, two
Booleans); TLC evaluates both in every run.

`BatchJobsProofs` proves `TypeCorrect`, `CompleteIsComplete`, `DeletedHaveEnded`
and `NodeOfStarted` from `BInv` (`Invariant`): a listing, old as it is, stays true in what
matters (C is final, a started job keeps its node: `ListingsStillTrue`), and
when nothing was listed all jobs submitted by then are gone (`SweepMeetsGone`).
`LedgerImplemented` shows that every step is one of `RowLedger` or none; a run of the
timer writes many rows in one step, each of them as its listing answers, and
those that a delete took away in between stay away.

`IngestDaemonProofs` proves `DoneHaveDatasets`, `DependenciesKept` and `TypeCorrect`
from `DInv`, for any number of triggers, jobs and daemons and every failure.  A job
that ended quietly has a settled dataset (`QuietIsSettled`) because a dataset has one
writer at a time (`OneWriter`) and only directories are removed again
(`OnlyDirectoriesUndone`); the daemon reads that off a job only if no other daemon
knows it and its identifier was not used again (`JobsKnown`).  That dependencies
exist needs that a check that was passed stays true (`CheckHolds`).  The
invariant falls into the part that jobs keep (`JobInv`) and the part that daemons keep
(`DaemonInv`); each kind of step has a lemma for each part.  `BookImplemented` is the
refinement of `IngestBook`: a job's step changes the dataset of its own input only
(`BookChange`), a daemon's moves one trigger only, and a trigger goes to done with a
dataset that is whole and that no job is about to undo, or is masked
(`QuietIsSettled`).

`JobOutputProofs` proves `HomesAreOwn`, `OutputsKept`, `CompletedsAreWhole`,
`DeletedsAreGone` and `TypeCorrect` from `JInv`.  A node has one job at a time
(`Alone`), so the home is locked by the job that runs (`LockHeld`) and was free and
empty before it (`HomesInOrder`); what leaves the home has reached the server
(`DeliveredFirst`); a row that says C, or a delete, is about a job that is through with
its epilogue (`RowsFollow`), so no request that began after that finds the final copy
missing without an excuse (`RequestsExcused`).  `RowsFollow` holds of rows that were not
swept, and says why a listing does no harm for being old: a job it shows as completed has
ended, and one that an empty listing does not have is gone or in `unborn`.  The number of
requests and the jobs in `Tracked` are arbitrary.
`JobsRunOnce` proves the action property `RunsOnce`: while no node stops, the home a
job finds is free, so that no prologue sends a job back.

`ProjectJobsProofs` proves `CompletesAreWhole`, `PartialsAreAbandoned`,
`ProvenanceKept` and `TypeCorrect` from `PInv`: the threads of each job
(`ThreadsInv`: a thread that is done has emptied its pipe) and what is in ICAT of its
project (`Known`).  `StoreImplemented` shows that every step is one of `ProjectStore`
or none: the one step that takes files from a project ICAT shows as whole is the undo of
a script that is in `unheard`.  `Lines` and `PipeSize` are arbitrary.
`JobsNeverStuck` and `JobsLeadOn` are what can be proved of `ProjectJobEnds`: in every state quincy, a thread or the
script can go on unless a thread died (`NeverStuck`), and every step lowers a
measure of what is left to do (`StepsLeadOn`).  That therefore jobs end needs fairness
and stays with TLC.

`ViewersProofs` proves `WholeIsShown` and `TypeCorrect` from `VInv`: part of a copy in
`RunDir` is there only with a `tmp` that stops every later run, and a copy that was not
taken early is of a dataset that is whole, which stays so unless it is in `unheard`.

`ShownProjects` proves that the models fit together: a viewer beside quincy jobs is a
viewer beside `ProjectStore` (`ViewerImplemented`: a step of the jobs is one of the
store by the lemma behind `StoreImplemented`, a step of the viewer leaves the
jobs as they are), so that `WholeIsShown`, instantiated with the jobs' datasets, gives
`ShownAreStored`.  It needs that the datasets shown are of quincy jobs and that a
project does not depend on itself; `ProjectAssumption` is assumed as before.  No run checks
`ShownProjects`: its two halves are checked, and what joins them is the proof.

Their assumptions are named in the modules (`IngestAssumption`, `DaemonAssumption`,
`OutputAssumption`, `ProjectAssumption`, `ViewerAssumption`): values such as `NoJob` are
not members of the sets, `New` are jobs, pipes hold a line at least, a project has a
file that its XML does not name (the log).

Only model-checked: the liveness properties `ExpiredAccountGoes`, `NodeComesBack`,
`CompletionNoticed`, `TriggerLeaves`, `TermStops`, `JobEnds` and `ProjectJobEnds` (the
prover does not handle fairness), and the violations.  Every safety property of a
passing run is proved.

## 5. Not modelled

* `LoadFinder`: `MachineEJB` takes any candidate as the lightest, which covers
  every figure Ganglia can return.
* `JobManager`, `Constants`, exception mapping: they pass requests on and have no
  state.  Lost answers to a client are not modelled: a client that tries again is
  another submission.
* The XML of `qstat` and `pbsnodes` (`PbsParser`, `Qstat`), the quoting of job
  parameters (`escaped`), and the script text given to `qsub`.
* `JobManagementBean.init` and the Puppet class it writes; Puppet manifests.
* In `BatchJobs` a job does not return to the queue (a prologue that exits with 2
  would send it back; `JobOutput` has that), which matters to no property there but
  `StartedRowNamesNode`: that one is about the first start.
* `ingest_dataset.py`: an earlier form of the workers' `ingest.py` with the same steps.
  Nothing in the repository submits it, and it imports a `factory` that
  `cat_utils.py` no longer has.  `cache.py` is vendored.
* The text of the ICAT queries, the XML of a project (`lsf_utils.dumpxml`) and the
  caches of `cat_utils.Session`; `lsf_utils.getUpperBranches` and the classes of `lola`
  are not in the repository.
* In `IngestDaemon`: more than one section of the configuration (they have
  directories of their own and take turns), an operator who moves a trigger back,
  and the branch that moves a trigger without an investigation name to failures
  (server `ingest.py:157-161`): it cannot be reached, because such a file has
  already ended the daemon (142-145).
* Bad trigger files are in `IngestDaemon` (`Bad`, `TriggerUnreadable`) but in no
  run: one bad file ends every daemon that reads it, so no trigger beside it can be
  promised to leave, and `ingest_live` is checked without.
* Two failures end more than they should, are in `MachineEJB` and violate no property
  a run checks: `resumeJob` throws when a job is no longer suspended (`Pbs.java:204-208`)
  and ends the loop over the nodes, which the comment at `MachineEJB.java:187-190` wants to
  check all of them, and leaves jobs suspended (`stranded`); `passwd -d` of an account that vanished throws in every
  run of the cleaner (`MachineEJB.java:135-139`), which then deletes no other account.
  `machine_live` is checked without such faults.
* A job Torque forgot before any poll saw it completed keeps its old status
  while `qstat` lists any other job (`JobManagementBean.java:179-187`).  `BatchJobs`
  has this behaviour with the event `outage`; `CompletionNoticed` is checked
  without it.

## 6. Plan

Done: the modules above, in the order interactive sessions, batch jobs, ingest, job
output, quincy jobs, viewers, each with its proofs.  What a later version could add:

1. Nodes with more than one slot: `Torque`, `BatchJobs` and `JobOutput` would need the
   number as a constant, and `epilogue` an order of removal for `HomeIsOwn` to hold.
2. `JobOutput` and `BatchJobs` as one system, in the way of `ShownProjects`: both have
   the timer with its old listings and its sweep, `JobOutput` with fewer steps.
3. `MachineEJB` and `BatchJobs` as one system: they share `Torque`, but a batch job's row is
   about its first start and no property relates it to the suspension of the job.
4. The Puppet class that `JobManagementBean.init` writes, if Puppet's side of it
   comes into the repository.
