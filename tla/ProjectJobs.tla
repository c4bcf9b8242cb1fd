---------------------------- MODULE ProjectJobs ----------------------------
(***************************************************************************)
(* quincy.py and quincy_new.py of worker_site/files/opt/ijp/bin: the batch *)
(* jobs that copy a dataset and its dependencies from ICAT, run quincy on  *)
(* them and store the project directory it leaves as a new dataset.        *)
(*                                                                         *)
(* Quincy's stdout and stderr are pipes; a Tee thread copies each to a     *)
(* file while the script waits, and the file of stdout tells the name of   *)
(* the project.  Two runs can give their projects the same name.  A job    *)
(* has a home of its own, see JobOutput; ICAT and the IDS are shared, and  *)
(* every call of them can fail, also after it took effect.                 *)
(***************************************************************************)
EXTENDS Naturals

CONSTANTS
    Jobs,
    New,       \* those that run quincy_new.py
    Names,     \* names of projects
    Listed,    \* files of a project that its XML file names
    Others,    \* files that it does not name; the log is one
    Lines,     \* lines quincy prints on each stream (a bound of the model)
    PipeSize,  \* lines a pipe holds
    Events     \* the failures a run admits

(* "fault": a call, a check or quincy fails; "disk": a write of a Tee      *)
(* fails; "kill": a job is killed.                                         *)
EventKinds == {"fault", "disk", "kill"}

ASSUME ProjectAssumption ==
    /\ New \subseteq Jobs
    /\ "unknown" \notin Names
    /\ Listed \cap Others = {} /\ Others # {}
    /\ Lines \in Nat /\ PipeSize \in Nat \ {0}
    /\ Events \subseteq EventKinds

Streams == {"stdout", "stderr"}
Files == Listed \cup Others

VARIABLES
    pc,        \* where each script stands
    left,      \* lines its quincy has still to print
    pipe,      \* lines in each pipe
    tee,       \* the two Tee threads
    quincy,    \* "off", "on", and "ok" or "bad" when it has exited
    name,      \* the project each job will store
    there,     \* jobs whose dataset is in ICAT
    complete,  \* those that are marked complete
    stored,    \* the files each dataset has
    job,       \* jobs with provenance: an ICAT job that names the dataset
    result,    \* how each script ended
    cut,       \* history: jobs whose file of stdout was read too early
    dead,      \* history: jobs with a Tee that died
    abandoned, \* history: jobs killed, or failed in a create or an undo
    unheard    \* history: jobs that missed the answer that it is complete

runVars == <<left, pipe, tee, quincy>>
icatVars == <<there, complete, stored, job>>
projectVars == <<pc, runVars, name, icatVars, result, cut, dead, abandoned, unheard>>

Preparing == {"queued", "accepted", "session", "dataset", "ready"}
Storing == {"parsed", "prepared", "writing", "undoing", "complete"}
Active == (Preparing \ {"queued"}) \cup {"running", "joining", "parsing"} \cup Storing

ProjectTypeOK ==
    /\ pc \in [Jobs -> {"queued", "ended"} \cup Active]
    /\ left \in [Jobs -> [Streams -> 0..Lines]]
    /\ pipe \in [Jobs -> [Streams -> 0..PipeSize]]
    /\ tee \in [Jobs -> [Streams -> {"off", "on", "done", "dead"}]]
    /\ quincy \in [Jobs -> {"off", "on", "ok", "bad"}]
    /\ name \in [Jobs -> Names \cup {"unknown"}]
    /\ complete \subseteq there /\ there \subseteq Jobs
    /\ stored \in [Jobs -> SUBSET Files]
    /\ job \cup cut \cup dead \cup abandoned \cup unheard \subseteq Jobs
    /\ result \in [Jobs -> {"none", "stored", "exists", "failed", "undone"}]
    /\ \A j \in there : name[j] # "unknown"
    /\ \A j, k \in there : j # k => name[j] # name[k]

Each(x) == [s \in Streams |-> x]

ProjectInit ==
    /\ pc = [j \in Jobs |-> "queued"]
    /\ left = [j \in Jobs |-> Each(0)]
    /\ pipe = [j \in Jobs |-> Each(0)]
    /\ tee = [j \in Jobs |-> Each("off")]
    /\ quincy = [j \in Jobs |-> "off"]
    /\ name = [j \in Jobs |-> "unknown"]
    /\ there = {} /\ complete = {} /\ job = {}
    /\ stored = [j \in Jobs |-> {}]
    /\ result = [j \in Jobs |-> "none"]
    /\ cut = {} /\ dead = {} /\ abandoned = {} /\ unheard = {}

Go(j, from, to) == pc[j] = from /\ pc' = [pc EXCEPT ![j] = to]
Ends(j, how) == pc' = [pc EXCEPT ![j] = "ended"] /\ result' = [result EXCEPT ![j] = how]
HistoryUnchanged == UNCHANGED <<cut, dead, abandoned, unheard>>
Proceed == UNCHANGED <<runVars, name, icatVars, result>> /\ HistoryUnchanged

-----------------------------------------------------------------------------
(* Before quincy                                                           *)

(* The options are there, and the dataset is a single one. *)
Accept(j) == j \notin New /\ Go(j, "queued", "accepted") /\ Proceed

(* quincy_new.py takes arguments instead. *)
AcceptNew(j) == j \in New /\ Go(j, "queued", "accepted") /\ Proceed

OpenSession(j) == Go(j, "accepted", "session") /\ Proceed

(* The dataset is copied to tmp, which becomes its RunDir. *)
GetDataset(j) == j \notin New /\ Go(j, "session", "dataset") /\ Proceed

GetDependencies(j) == j \notin New /\ Go(j, "dataset", "ready") /\ Proceed

(* To a directory of its own, of which the configuration is told *)
DownloadNew(j) == j \in New /\ Go(j, "session", "dataset") /\ Proceed

DependenciesNew(j) == j \in New /\ Go(j, "dataset", "ready") /\ Proceed

(* Mutant of Fails: what fails after SetComplete is undone as well. *)
FailsUndoing(j) ==
    /\ pc[j] \in (Active \ {"running", "joining", "writing", "undoing"}) \cup {"queued"}
    /\ "fault" \in Events
    /\ IF pc[j] = "complete" THEN Go(j, "complete", "undoing") /\ UNCHANGED result
                             ELSE Ends(j, "failed")
    /\ job' \in IF pc[j] = "complete" THEN {job, job \cup {j}} ELSE {job}
    /\ UNCHANGED <<runVars, name, there, complete, stored>> /\ HistoryUnchanged

(* terminate, or an exception; nothing is in ICAT yet, or the whole dataset. *)
Fails(j) ==
    /\ pc[j] \in (Active \ {"running", "joining", "writing", "undoing"}) \cup {"queued"}
    /\ "fault" \in Events
    /\ Ends(j, "failed")
    /\ job' \in IF pc[j] = "complete" THEN {job, job \cup {j}} ELSE {job}
    /\ UNCHANGED <<runVars, name, there, complete, stored>> /\ HistoryUnchanged

-----------------------------------------------------------------------------
(* Quincy and the threads                                                  *)

(* Mutant of StartQuincy: one of the threads is not started. *)
StartOneTee(j) ==
    /\ Go(j, "ready", "running")
    /\ left' = [left EXCEPT ![j] = Each(Lines)]
    /\ tee' = [tee EXCEPT ![j]["stdout"] = "on"]
    /\ quincy' = [quincy EXCEPT ![j] = "on"]
    /\ UNCHANGED <<pipe, name, icatVars, result>> /\ HistoryUnchanged

StartQuincy(j) ==
    /\ Go(j, "ready", "running")
    /\ left' = [left EXCEPT ![j] = Each(Lines)]
    /\ tee' = [tee EXCEPT ![j] = Each("on")]
    /\ quincy' = [quincy EXCEPT ![j] = "on"]
    /\ UNCHANGED <<pipe, name, icatVars, result>> /\ HistoryUnchanged

ProcessOnly == UNCHANGED <<pc, name, icatVars, result, cut, abandoned, unheard>>

(* Quincy waits while the pipe is full. *)
PrintLine(j, s) ==
    /\ quincy[j] = "on" /\ left[j][s] > 0 /\ pipe[j][s] < PipeSize
    /\ left' = [left EXCEPT ![j][s] = @ - 1]
    /\ pipe' = [pipe EXCEPT ![j][s] = @ + 1]
    /\ UNCHANGED <<tee, quincy, dead>> /\ ProcessOnly

ExitQuincy(j) ==
    /\ quincy[j] = "on" /\ left[j] = Each(0)
    /\ quincy' = [quincy EXCEPT ![j] = "ok"]
    /\ UNCHANGED <<left, pipe, tee, dead>> /\ ProcessOnly

QuincyFails(j) ==
    /\ quincy[j] = "on" /\ "fault" \in Events
    /\ quincy' = [quincy EXCEPT ![j] = "bad"]
    /\ left' = [left EXCEPT ![j] = Each(0)]
    /\ UNCHANGED <<pipe, tee, dead>> /\ ProcessOnly

TeeLine(j, s) ==
    /\ tee[j][s] = "on" /\ pipe[j][s] > 0
    /\ pipe' = [pipe EXCEPT ![j][s] = @ - 1]
    /\ UNCHANGED <<left, tee, quincy, dead>> /\ ProcessOnly

(* The end of the file *)
TeeEnds(j, s) ==
    /\ tee[j][s] = "on" /\ pipe[j][s] = 0 /\ quincy[j] \in {"ok", "bad"}
    /\ tee' = [tee EXCEPT ![j][s] = "done"]
    /\ UNCHANGED <<left, pipe, quincy, dead>> /\ ProcessOnly

(* An exception ends the thread and nothing else; the line is lost. *)
TeeDies(j, s) ==
    /\ "disk" \in Events
    /\ tee[j][s] = "on" /\ pipe[j][s] > 0
    /\ tee' = [tee EXCEPT ![j][s] = "dead"]
    /\ pipe' = [pipe EXCEPT ![j][s] = @ - 1]
    /\ dead' = dead \cup {j}
    /\ UNCHANGED <<left, quincy>> /\ ProcessOnly

(* proc.wait *)
Wait(j) ==
    /\ quincy[j] \in {"ok", "bad"}
    /\ Go(j, "running", "joining") /\ Proceed

Join(j) ==
    /\ \A s \in Streams : tee[j][s] # "on"
    /\ Go(j, "joining", "parsing") /\ Proceed

(* Mutant of Parse: a name that is not in the file is not missed. *)
ParseUnnamed(j) ==
    /\ quincy[j] = "ok"
    /\ Go(j, "parsing", "parsed")
    /\ \E n \in Names \cup {"unknown"} : name' = [name EXCEPT ![j] = n]
    /\ cut' = IF pipe[j]["stdout"] > 0 \/ tee[j]["stdout"] = "dead"
              THEN cut \cup {j} ELSE cut
    /\ pipe' = [pipe EXCEPT ![j] = Each(0)]
    /\ tee' = [tee EXCEPT ![j] = Each("off")]
    /\ quincy' = [quincy EXCEPT ![j] = "off"]
    /\ UNCHANGED <<left, icatVars, result, dead, abandoned, unheard>>

(* The lines in the file give the name, and then the exit code counts.     *)
(* Fails has the other cases.                                              *)
Parse(j) ==
    /\ quincy[j] = "ok"
    /\ Go(j, "parsing", "parsed")
    /\ \E n \in Names : name' = [name EXCEPT ![j] = n]
    /\ cut' = IF pipe[j]["stdout"] > 0 \/ tee[j]["stdout"] = "dead"
              THEN cut \cup {j} ELSE cut
    /\ pipe' = [pipe EXCEPT ![j] = Each(0)]
    /\ tee' = [tee EXCEPT ![j] = Each("off")]
    /\ quincy' = [quincy EXCEPT ![j] = "off"]
    /\ UNCHANGED <<left, icatVars, result, dead, abandoned, unheard>>

ParseFails(j) ==
    /\ quincy[j] = "bad"
    /\ pc[j] = "parsing" /\ Ends(j, "failed")
    /\ UNCHANGED <<runVars, name, icatVars>> /\ HistoryUnchanged

-----------------------------------------------------------------------------
(* The project                                                             *)

(* The log joins the project, whose files are all there. *)
Prepare(j) == Go(j, "parsed", "prepared") /\ Proceed

Taken(n) == \E k \in there : name[k] = n

Create(j) ==
    /\ ~Taken(name[j])
    /\ Go(j, "prepared", "writing")
    /\ there' = there \cup {j}
    /\ UNCHANGED <<runVars, name, complete, stored, job, result>> /\ HistoryUnchanged

(* Its answer is lost, and nobody undoes it. *)
CreateUnheard(j) ==
    /\ "fault" \in Events
    /\ pc[j] = "prepared" /\ ~Taken(name[j])
    /\ there' = there \cup {j}
    /\ Ends(j, "failed")
    /\ abandoned' = abandoned \cup {j}
    /\ UNCHANGED <<runVars, name, complete, stored, job, cut, dead, unheard>>

(* OBJECT_ALREADY_EXISTS: exit code 2, or 1 if nothing the script imports  *)
(* is called WebFault                                                      *)
AlreadyExists(j) ==
    /\ j \notin New /\ pc[j] = "prepared" /\ Taken(name[j])
    /\ Ends(j, "exists") \/ Ends(j, "failed")
    /\ UNCHANGED <<runVars, name, icatVars>> /\ HistoryUnchanged

(* raises what the end of quincy_new.py turns into exit code 1 *)
AlreadyExistsNew(j) ==
    /\ j \in New /\ pc[j] = "prepared" /\ Taken(name[j])
    /\ Ends(j, "failed")
    /\ UNCHANGED <<runVars, name, icatVars>> /\ HistoryUnchanged

PutFile(j, f) ==
    /\ stored' = [stored EXCEPT ![j] = @ \cup {f}]
    /\ UNCHANGED <<pc, runVars, name, there, complete, job, result>> /\ HistoryUnchanged

WriteListed(j) ==
    pc[j] = "writing" /\ \E f \in Listed \ stored[j] : PutFile(j, f)

WriteOther(j) ==
    /\ pc[j] = "writing" /\ Listed \subseteq stored[j]
    /\ \E f \in Others \ stored[j] : PutFile(j, f)

(* Mutant of SetComplete: before the files that are not listed. *)
SetCompleteEarly(j) ==
    /\ Listed \subseteq stored[j]
    /\ Go(j, "writing", "complete")
    /\ complete' = complete \cup {j}
    /\ UNCHANGED <<runVars, name, there, stored, job, result>> /\ HistoryUnchanged

SetComplete(j) ==
    /\ stored[j] = Files
    /\ Go(j, "writing", "complete")
    /\ complete' = complete \cup {j}
    /\ UNCHANGED <<runVars, name, there, stored, job, result>> /\ HistoryUnchanged

(* Mutant of WriteFails: the dataset stays as it is. *)
WriteFailsEnds(j) ==
    /\ pc[j] = "writing" /\ "fault" \in Events
    /\ Ends(j, "failed")
    /\ UNCHANGED <<runVars, name, icatVars>> /\ HistoryUnchanged

(* A file or the update fails; the last one may have worked all the same. *)
WriteFails(j) ==
    /\ "fault" \in Events
    /\ Go(j, "writing", "undoing")
    /\ \/ UNCHANGED <<complete, unheard>>
       \/ /\ stored[j] = Files
          /\ complete' = complete \cup {j}
          /\ unheard' = unheard \cup {j}
    /\ UNCHANGED <<runVars, name, there, stored, job, result, cut, dead, abandoned>>

(* deleteDataset: the files, *)
DeleteFiles(j) ==
    /\ pc[j] = "undoing" /\ stored[j] # {}
    /\ stored' = [stored EXCEPT ![j] = {}]
    /\ UNCHANGED <<pc, runVars, name, there, complete, job, result>> /\ HistoryUnchanged

(* then the dataset *)
DeleteDataset(j) ==
    /\ pc[j] = "undoing" /\ stored[j] = {}
    /\ there' = there \ {j}
    /\ complete' = complete \ {j}
    /\ Ends(j, "undone")
    /\ UNCHANGED <<runVars, name, stored, job>> /\ HistoryUnchanged

UndoFails(j) ==
    /\ pc[j] = "undoing" /\ "fault" \in Events
    /\ Ends(j, "failed")
    /\ abandoned' = abandoned \cup {j}
    /\ UNCHANGED <<runVars, name, icatVars, cut, dead, unheard>>

StoreProvenance(j) ==
    /\ pc[j] = "complete"
    /\ job' = job \cup {j}
    /\ Ends(j, "stored")
    /\ UNCHANGED <<runVars, name, there, complete, stored>> /\ HistoryUnchanged

(* Its quincy and its threads go with it. *)
Kill(j) ==
    /\ pc[j] \in Active /\ "kill" \in Events
    /\ Ends(j, "failed")
    /\ abandoned' = abandoned \cup {j}
    /\ left' = [left EXCEPT ![j] = Each(0)]
    /\ pipe' = [pipe EXCEPT ![j] = Each(0)]
    /\ tee' = [tee EXCEPT ![j] = Each("off")]
    /\ quincy' = [quincy EXCEPT ![j] = "off"]
    /\ UNCHANGED <<name, icatVars, cut, dead, unheard>>

-----------------------------------------------------------------------------
Main(j) ==
    \/ Accept(j) \/ AcceptNew(j) \/ OpenSession(j) \/ GetDataset(j) \/ GetDependencies(j)
    \/ DownloadNew(j) \/ DependenciesNew(j) \/ Fails(j)
    \/ StartQuincy(j) \/ Wait(j) \/ Join(j) \/ Parse(j) \/ ParseFails(j)
    \/ Prepare(j) \/ Create(j) \/ CreateUnheard(j) \/ AlreadyExists(j) \/ AlreadyExistsNew(j)
    \/ WriteListed(j) \/ WriteOther(j) \/ SetComplete(j) \/ WriteFails(j)
    \/ DeleteFiles(j) \/ DeleteDataset(j) \/ UndoFails(j) \/ StoreProvenance(j)

Tee(j, s) == TeeLine(j, s) \/ TeeEnds(j, s) \/ TeeDies(j, s)
Process(j) == ExitQuincy(j) \/ \E s \in Streams : PrintLine(j, s)

(* The script, its threads and quincy run on, and quincy comes to an end. *)
Step(j) == Main(j) \/ Process(j) \/ \E s \in Streams : Tee(j, s)

ProjectNext == \E j \in Jobs : Step(j) \/ QuincyFails(j) \/ Kill(j)

ProjectSpec == ProjectInit /\ [][ProjectNext]_projectVars

FairProjectSpec == ProjectSpec /\ \A j \in Jobs : WF_projectVars(Step(j))
-----------------------------------------------------------------------------
(* Properties.                                                             *)

(* A project that is marked complete has all the files of its run, with    *)
(* the whole log, unless a Tee died or an undo has begun and not finished. *)
CompleteIsWhole ==
    \A j \in complete :
        \/ stored[j] = Files /\ (j \in cut => j \in dead)
        \/ pc[j] = "undoing" \/ j \in abandoned

(* What a script leaves in ICAT when it ends is a complete project or      *)
(* nothing, unless it was killed, failed to undo or missed the answer to   *)
(* its create.                                                             *)
PartialIsAbandoned ==
    \A j \in there \ abandoned : pc[j] = "ended" => j \in complete

(* The provenance of a project refers to a complete project, which nobody  *)
(* removes afterwards, and every script that ends well has left it.        *)
ProvenanceHolds ==
    \A j \in Jobs :
        /\ j \in job => j \in complete /\ stored[j] = Files
        /\ result[j] = "stored" => j \in job

(* The invariant from which they are proved: the threads of each job, *)
ThreadsInv ==
    /\ \A j \in Jobs, s \in Streams :
          /\ tee[j][s] = "done" => pipe[j][s] = 0 /\ quincy[j] \in {"ok", "bad"}
          /\ tee[j][s] = "dead" => j \in dead
          /\ pc[j] \in {"running", "joining", "parsing"} => tee[j][s] # "off"
          /\ pc[j] = "parsing" => tee[j][s] # "on"
    /\ \A j \in Jobs :
          /\ pc[j] = "running" => quincy[j] # "off"
          /\ pc[j] \in {"joining", "parsing"} => quincy[j] \in {"ok", "bad"}
    /\ cut \subseteq dead

(* and what is in ICAT of its project. *)
Known(j) ==
    /\ pc[j] \in {"writing", "undoing", "complete"} => j \in there
    /\ j \in there => pc[j] \in {"writing", "undoing", "complete", "ended"}
    /\ pc[j] # "ended" => result[j] = "none"
    /\ result[j] = "undone" => j \notin there
    /\ pc[j] \in {"parsed", "prepared"} => name[j] # "unknown"
    /\ j \notin there => stored[j] = {}
    /\ j \in complete => /\ pc[j] \in {"undoing", "complete", "ended"}
                         /\ pc[j] = "undoing" \/ j \in abandoned \/ stored[j] = Files
                         /\ pc[j] = "undoing" => j \in unheard
    /\ pc[j] = "complete" => j \in complete /\ stored[j] = Files
    /\ pc[j] = "ended" /\ j \in there => j \in complete \cup abandoned
    /\ j \in job => pc[j] = "ended" /\ j \in complete /\ stored[j] = Files
    /\ result[j] = "stored" => j \in job

PInv == ProjectTypeOK /\ ThreadsInv /\ \A j \in Jobs : Known(j)

(* Quincy, a Tee or the script that waits for them can go on. *)
Flows(j) ==
    \/ /\ quincy[j] = "on"
       /\ left[j] = Each(0) \/ \E s \in Streams : left[j][s] > 0 /\ pipe[j][s] < PipeSize
    \/ \E s \in Streams : tee[j][s] = "on" /\ (pipe[j][s] > 0 \/ quincy[j] \in {"ok", "bad"})
    \/ pc[j] = "running" /\ quincy[j] \in {"ok", "bad"}
    \/ pc[j] = "joining" /\ \A s \in Streams : tee[j][s] # "on"

(* Quincy, its two pipes, the threads and the script never wait for each   *)
(* other in a circle, whatever quincy prints where and in which order; the *)
(* only thing they can all wait for is the pipe of a Tee that died.        *)
NeverStuck ==
    \A j \in Jobs : pc[j] \in {"running", "joining"} =>
        \/ Flows(j)
        \/ \E s \in Streams : tee[j][s] = "dead" /\ left[j][s] > 0 /\ pipe[j][s] = PipeSize

Stage ==
    [queued |-> 0, accepted |-> 1, session |-> 2, dataset |-> 3, ready |-> 4, running |-> 5,
     joining |-> 6, parsing |-> 7, parsed |-> 8, prepared |-> 9, writing |-> 10,
     undoing |-> 11, complete |-> 12, ended |-> 13]

(* What its threads have still to do on a stream; a line is moved twice. *)
Load(j, s) == 2 * left[j][s] + pipe[j][s] + (IF tee[j][s] = "on" THEN 1 ELSE 0)
Work(j) == Load(j, "stdout") + Load(j, "stderr") + (IF quincy[j] = "on" THEN 1 ELSE 0)

Progress(j) ==
    \/ Stage[pc[j]] < Stage[pc'[j]]
    \/ /\ pc'[j] = pc[j]
       /\ \/ Work(j)' < Work(j) /\ stored'[j] = stored[j]
          \/ pc[j] = "writing" /\ stored[j] \subseteq stored'[j] /\ stored'[j] # stored[j]
          \/ pc[j] = "undoing" /\ stored[j] # {} /\ stored'[j] = {}

(* No step of a script, its quincy or its threads is ever taken back or    *)
(* repeated: each brings its job nearer to its end, of which a job has     *)
(* only finitely many.  With NeverStuck this is why jobs end.              *)
StepsLeadOn ==
    [][\A j \in Jobs :
          \/ UNCHANGED <<pc[j], left[j], pipe[j], tee[j], quincy[j], stored[j]>>
          \/ Progress(j)]_projectVars

(* A job ends whatever quincy prints on either stream, unless a Tee died:  *)
(* then quincy may wait for its pipe for ever.                             *)
ProjectJobEnds == \A j \in Jobs : pc[j] = "running" ~> pc[j] = "ended" \/ j \in dead

(* A project as a reader of ICAT finds it: whole if it is marked complete  *)
(* and has all its files, whatever its script knows of it.                 *)
Project(j) ==
    IF j \in there
    THEN IF j \in complete /\ stored[j] = Files THEN "whole" ELSE "partial"
    ELSE IF result[j] = "undone" THEN "removed" ELSE "absent"

Store == INSTANCE ProjectStore WITH project <- [j \in Jobs |-> Project(j)]

(* ProjectJobs implements ProjectStore: a reader sees a project built once *)
(* and kept as it is once it is whole.  Undos that fail, clashes of names, *)
(* creates whose answer is lost and scripts that are killed never touch    *)
(* one that is whole; the answer to the update that made it whole, if the  *)
(* script misses it, is the one thing that does.                           *)
ImplementsStore == Store!StoreSpec
=============================================================================
