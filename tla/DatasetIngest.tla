--------------------------- MODULE DatasetIngest ---------------------------
(***************************************************************************)
(* worker_site/files/opt/ijp/bin/ingest.py: the batch job that ingests one *)
(* input into the ICAT catalogue.  An input is a simple dependency (beads, *)
(* bias, dark, ...) or a directory that refers to such; both end as a      *)
(* dataset of a name of its own.  ICAT keeps dataset names unique, and     *)
(* every call of it, or of the IDS that stores files, can fail.            *)
(*                                                                         *)
(* The job tells of its end only by what it prints: terminate writes to    *)
(* stdout if the exit code is even and to stderr if it is odd.             *)
(***************************************************************************)
EXTENDS FiniteSets

CONSTANTS
    Triggers,   \* trigger files; each names the input of one dataset
    Simple,     \* those of simple dependencies
    Deps,       \* pairs of a directory and a simple dependency it refers to
    Jobs,       \* identifiers of jobs; one is used again when its job was deleted
    NoJob,      \* no job
    NoTrigger,  \* the input of an identifier that is not in use
    Events      \* the failures a run admits

ASSUME IngestAssumption ==
    /\ Simple \subseteq Triggers
    /\ Deps \subseteq (Triggers \ Simple) \X Simple
    /\ NoJob \notin Jobs
    /\ NoTrigger \notin Triggers

VARIABLES
    dataset,  \* the dataset of each trigger in ICAT
    writer,   \* the job that fills it
    input,    \* the trigger each job was submitted for
    jpc,      \* where each job stands
    stderr,   \* ended jobs with something on stderr
    early     \* history: ended jobs with nothing on stderr although their
              \* dataset was not settled when they ended

ingestVars == <<dataset, writer, input, jpc, stderr, early>>

Running == {"started", "checked", "writing", "undoing", "stored"}

IngestTypeOK ==
    /\ dataset \in [Triggers -> {"absent", "partial", "complete"}]
    /\ writer \in [Triggers -> Jobs \cup {NoJob}]
    /\ input \in [Jobs -> Triggers \cup {NoTrigger}]
    /\ jpc \in [Jobs -> {"none", "queued", "ended"} \cup Running]
    /\ stderr \subseteq Jobs
    /\ early \subseteq Jobs
    /\ \A j \in Jobs : input[j] = NoTrigger <=> jpc[j] = "none"

IngestInit ==
    /\ dataset = [t \in Triggers |-> "absent"]
    /\ writer = [t \in Triggers |-> NoJob]
    /\ input = [j \in Jobs |-> NoTrigger]
    /\ jpc = [j \in Jobs |-> "none"]
    /\ stderr = {}
    /\ early = {}

DepsOf(t) == {d \in Simple : <<t, d>> \in Deps}

(* A dataset that has all its files and that no job will change any more.  *)
(* A reader of ICAT cannot tell it from a complete one whose writer missed *)
(* the answer to its update and is about to undo it.                       *)
Settled(t) == dataset[t] = "complete" /\ writer[t] = NoJob

Go(j, from, to) == jpc[j] = from /\ jpc' = [jpc EXCEPT ![j] = to]

(* terminate with an odd exit code, or an exception nothing catches *)
EndsWithError(j) ==
    /\ jpc' = [jpc EXCEPT ![j] = "ended"]
    /\ stderr' = stderr \cup {j}
    /\ UNCHANGED <<input, early>>

-----------------------------------------------------------------------------
(* Torque starts the job. *)
StartJob(j) ==
    /\ Go(j, "queued", "started")
    /\ UNCHANGED <<dataset, writer, input, stderr, early>>

(* The input, the investigation, a type or a listed file is not found, or  *)
(* a service fails, before anything is created.                            *)
Refuse(j) ==
    /\ jpc[j] \in {"started", "checked"}
    /\ "fault" \in Events
    /\ EndsWithError(j)
    /\ UNCHANGED <<dataset, writer>>

(* Are the dependencies of a directory in ICAT, complete or not? *)
CheckDependencies(j) ==
    /\ input[j] \notin Simple
    /\ \A d \in DepsOf(input[j]) : dataset[d] # "absent"
    /\ Go(j, "started", "checked")
    /\ UNCHANGED <<dataset, writer, input, stderr, early>>

DependencyMissing(j) ==
    /\ jpc[j] = "started"
    /\ \E d \in DepsOf(input[j]) : dataset[d] = "absent"
    /\ EndsWithError(j)
    /\ UNCHANGED <<dataset, writer>>

AtCreate(j) == jpc[j] = IF input[j] \in Simple THEN "started" ELSE "checked"

Create(j) ==
    /\ AtCreate(j)
    /\ dataset[input[j]] = "absent"
    /\ dataset' = [dataset EXCEPT ![input[j]] = "partial"]
    /\ writer' = [writer EXCEPT ![input[j]] = j]
    /\ jpc' = [jpc EXCEPT ![j] = "writing"]
    /\ UNCHANGED <<input, stderr, early>>

(* OBJECT_ALREADY_EXISTS: exit code 2, and nothing on stderr, whatever the *)
(* state of the dataset.                                                   *)
AlreadyExists(j) ==
    /\ AtCreate(j)
    /\ dataset[input[j]] # "absent"
    /\ jpc' = [jpc EXCEPT ![j] = "ended"]
    /\ early' = IF Settled(input[j]) THEN early ELSE early \cup {j}
    /\ UNCHANGED <<dataset, writer, input, stderr>>

(* The files are written, then complete is set. *)
Complete(j) ==
    /\ Go(j, "writing", "stored")
    /\ dataset' = [dataset EXCEPT ![input[j]] = "complete"]
    /\ writer' = [writer EXCEPT ![input[j]] = NoJob]
    /\ UNCHANGED <<input, stderr, early>>

(* Mutant of WriteFails: a simple dependency is removed as well. *)
WriteFailsUndone(j) ==
    /\ jpc[j] = "writing"
    /\ "fault" \in Events
    /\ jpc' = [jpc EXCEPT ![j] = "undoing"]
    /\ UNCHANGED <<dataset, writer, input, stderr, early>>

(* Writing a file or the update fails; the update may have worked all the  *)
(* same.  A simple dependency is left as it is.                            *)
WriteFails(j) ==
    /\ jpc[j] = "writing"
    /\ "fault" \in Events
    /\ \E s \in {"partial", "complete"} : dataset' = [dataset EXCEPT ![input[j]] = s]
    /\ IF input[j] \in Simple
       THEN /\ writer' = [writer EXCEPT ![input[j]] = NoJob]
            /\ EndsWithError(j)
       ELSE /\ jpc' = [jpc EXCEPT ![j] = "undoing"]
            /\ UNCHANGED <<writer, input, stderr, early>>

(* deleteDataset: its files, then the dataset.  It may fail in between.    *)
Undo(j) ==
    /\ jpc[j] = "undoing"
    /\ \/ dataset' = [dataset EXCEPT ![input[j]] = "absent"]
       \/ /\ "fault" \in Events
          /\ \/ dataset' = [dataset EXCEPT ![input[j]] = "partial"]
             \/ UNCHANGED dataset
    /\ writer' = [writer EXCEPT ![input[j]] = NoJob]
    /\ EndsWithError(j)

(* storeProvenance, the last step *)
StoreProvenance(j) ==
    /\ Go(j, "stored", "ended")
    /\ UNCHANGED <<dataset, writer, input, stderr, early>>

ProvenanceFails(j) ==
    /\ jpc[j] = "stored"
    /\ "fault" \in Events
    /\ EndsWithError(j)
    /\ UNCHANGED <<dataset, writer>>

(* The job is killed; a process that is killed need not print anything. *)
Kill(j) ==
    /\ jpc[j] \in {"queued"} \cup Running
    /\ jpc' = [jpc EXCEPT ![j] = "ended"]
    /\ writer' = [t \in Triggers |-> IF writer[t] = j THEN NoJob ELSE writer[t]]
    /\ \/ stderr' = stderr \cup {j} /\ UNCHANGED early
       \/ /\ early' = IF Settled(input[j]) THEN early ELSE early \cup {j}
          /\ UNCHANGED stderr
    /\ UNCHANGED <<dataset, input>>

Ingest(j) ==
    \/ StartJob(j)
    \/ Refuse(j)
    \/ CheckDependencies(j)
    \/ DependencyMissing(j)
    \/ Create(j)
    \/ AlreadyExists(j)
    \/ Complete(j)
    \/ WriteFails(j)
    \/ Undo(j)
    \/ StoreProvenance(j)
    \/ ProvenanceFails(j)
=============================================================================
