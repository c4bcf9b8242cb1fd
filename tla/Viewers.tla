------------------------------ MODULE Viewers ------------------------------
(***************************************************************************)
(* view_ingested.py and view_project.py of worker_site/files/opt/ijp/bin:  *)
(* the scripts that copy a dataset into the home of an interactive session *)
(* and start a viewer on it.  prepareaccount has the window manager run    *)
(* the script at every login, so a session may run it again in the same    *)
(* home, after an earlier run that ended or was cut off.                   *)
(*                                                                         *)
(* Datasets are read from ProjectStore, which goes on meanwhile; they are  *)
(* called by the jobs that store them.  view_project.py is the case of no  *)
(* dependencies; view_dataset.py and view_project_new.py do the same.      *)
(***************************************************************************)
EXTENDS ProjectStore

CONSTANTS
    Dataset,  \* the dataset that is shown
    Deps      \* the datasets that it depends on

ASSUME ViewerAssumption == Dataset \in Jobs /\ Deps \subseteq Jobs \ {Dataset}

VARIABLES
    vpc,      \* where the script stands, "out" between logins
    options,  \* its options, the same for all logins
    tmp,      \* the copy in tmp
    path,     \* the copy in RunDir, where it is shown
    nested,   \* whether there is another in RunDir/tmp
    dep,      \* the copies of the dependencies
    todo,     \* the dependencies this run has still to copy
    inner,    \* the options the viewer was started with
    early     \* history: copies taken while their dataset was not whole

viewerVars == <<vpc, options, tmp, path, nested, dep, todo, inner, early>>
vars == <<storeVars, viewerVars>>

(* Two options of the service and one of the script, by what               *)
(* build_inner_options tells apart: flags, lists, texts and numbers.       *)
Values == {"None", "True", "False", "zero", "one", "number", "text", "list"}
Elements == {"first", "second"}
Options == [sessionId : {"text"}, ijpUrl : {"None", "text"}, own : Values]
Omitted == {"sessionId", "icatUrl", "idsUrl", "datasetIds", "datafileIds"}

Copies == {"none", "some", "whole"}

ViewerTypeOK ==
    /\ project \in [Jobs -> {"absent", "partial", "whole", "removed"}]
    /\ unheard \subseteq Jobs
    /\ vpc \in {"out", "start", "download", "move", "deps", "shown", "return"}
    /\ options \in Options
    /\ tmp \in Copies /\ path \in Copies /\ nested \in BOOLEAN
    /\ dep \in [Deps -> Copies]
    /\ todo \subseteq Deps /\ (todo # {} => vpc = "deps")
    /\ inner \subseteq ((DOMAIN options) \ Omitted) \X (Values \cup Elements \cup {"flag"})
    /\ early \subseteq Jobs
    /\ nested => path # "none"

ViewerInit ==
    /\ StoreInit
    /\ vpc = "out"
    /\ options \in Options
    /\ tmp = "none" /\ path = "none" /\ nested = FALSE
    /\ dep = [d \in Deps |-> "none"]
    /\ todo = {} /\ inner = {} /\ early = {}

(* Mutant of BuildInnerOptions: no option is skipped. *)
BuildInnerAll(opts) == {<<o, opts[o]>> : o \in DOMAIN opts}

(* value == True holds of 1 and 1.0 as well, and 0 is no value. *)
BuildInnerOptions(opts) ==
    UNION {IF opts[o] \in {"True", "one"} THEN {<<o, "flag">>}
           ELSE IF opts[o] = "list" THEN {o} \X Elements
           ELSE IF opts[o] \in {"None", "False", "zero"} THEN {}
           ELSE {<<o, opts[o]>>} : o \in (DOMAIN opts) \ Omitted}

-----------------------------------------------------------------------------
Go(from, to) == vpc = from /\ vpc' = to

Login ==
    /\ Go("out", "start")
    /\ UNCHANGED <<storeVars, options, tmp, path, nested, dep, todo, inner, early>>

(* An option is missing, or no session can be had with ICAT. *)
StartFails ==
    /\ Go("start", "return")
    /\ UNCHANGED <<storeVars, options, tmp, path, nested, dep, todo, inner, early>>

(* Mutant of MakeTmp: a tmp that is there is used again. *)
MakeTmpAnyway ==
    /\ Go("start", "download")
    /\ tmp' = "some"
    /\ UNCHANGED <<storeVars, options, path, nested, dep, todo, inner, early>>

(* os.mkdir, which fails of a tmp that is there *)
MakeTmp ==
    /\ IF tmp = "none" THEN Go("start", "download") /\ tmp' = "some"
                       ELSE Go("start", "return") /\ UNCHANGED tmp
    /\ UNCHANGED <<storeVars, options, path, nested, dep, todo, inner, early>>

Copied(d) == IF project[d] = "whole" THEN "whole" ELSE "some"
EarlyWith(d) == IF project[d] = "whole" THEN early ELSE early \cup {d}

Download ==
    /\ project[Dataset] \in {"partial", "whole"}
    /\ Go("download", "move")
    /\ tmp' = Copied(Dataset)
    /\ early' = EarlyWith(Dataset)
    /\ UNCHANGED <<storeVars, options, path, nested, dep, todo, inner>>

(* No dataset, a download that breaks off, or no configuration file with   *)
(* RunDir in it                                                            *)
DownloadFails ==
    /\ \/ Go("download", "return")
       \/ tmp = "some" /\ Go("move", "return")
    /\ UNCHANGED <<storeVars, options, tmp, path, nested, dep, todo, inner, early>>

(* shutil.move: to RunDir, or into it if it is there already *)
Move ==
    /\ path = "none" \/ ~nested
    /\ Go("move", "deps")
    /\ path' = IF path = "none" THEN tmp ELSE path
    /\ nested' = (path # "none")
    /\ tmp' = "none"
    /\ todo' = Deps
    /\ UNCHANGED <<storeVars, options, dep, inner, early>>

(* RunDir/tmp is there already, or a move that has to copy breaks off. *)
MoveFails ==
    /\ Go("move", "return")
    /\ IF path = "none" THEN path' \in {"none", "some"} /\ UNCHANGED nested
                        ELSE nested' \in {nested, TRUE} /\ UNCHANGED path
    /\ UNCHANGED <<storeVars, options, tmp, dep, todo, inner, early>>

(* Mutant of GetDependency: what is there is taken for a copy. *)
GetIfMissing(d) ==
    /\ vpc = "deps" /\ d \in todo /\ project[d] \in {"partial", "whole"}
    /\ IF dep[d] = "none"
       THEN dep' = [dep EXCEPT ![d] = Copied(d)] /\ early' = EarlyWith(d)
       ELSE UNCHANGED <<dep, early>>
    /\ todo' = todo \ {d}
    /\ UNCHANGED <<storeVars, vpc, options, tmp, path, nested, inner>>

(* The directory is made if need be, the copy always. *)
GetDependency(d) ==
    /\ vpc = "deps" /\ d \in todo /\ project[d] \in {"partial", "whole"}
    /\ dep' = [dep EXCEPT ![d] = Copied(d)]
    /\ early' = EarlyWith(d)
    /\ todo' = todo \ {d}
    /\ UNCHANGED <<storeVars, vpc, options, tmp, path, nested, inner>>

DependencyFails ==
    /\ todo # {} /\ Go("deps", "return")
    /\ dep' \in {dep} \cup {[dep EXCEPT ![d] = "some"] : d \in todo}
    /\ todo' = {}
    /\ UNCHANGED <<storeVars, options, tmp, path, nested, inner, early>>

Show ==
    /\ todo = {} /\ Go("deps", "shown")
    /\ inner' = BuildInnerOptions(options)
    /\ UNCHANGED <<storeVars, options, tmp, path, nested, dep, todo, early>>

(* The user hits return. *)
Return ==
    /\ Go("shown", "out") \/ Go("return", "out")
    /\ UNCHANGED <<storeVars, options, tmp, path, nested, dep, todo, inner, early>>

(* The session ends wherever the script stands; a copy or a move to        *)
(* another place may be left half done.                                    *)
Logout ==
    /\ vpc # "out" /\ vpc' = "out"
    /\ todo' = {}
    /\ IF vpc = "move" /\ path = "none" THEN path' \in {"none", "some", tmp} ELSE UNCHANGED path
    /\ IF vpc = "deps" THEN dep' \in {dep} \cup {[dep EXCEPT ![d] = "some"] : d \in todo}
                       ELSE UNCHANGED dep
    /\ UNCHANGED <<storeVars, options, tmp, nested, inner, early>>

Script ==
    \/ Login \/ StartFails \/ MakeTmp \/ Download \/ DownloadFails \/ Move \/ MoveFails
    \/ \E d \in Deps : GetDependency(d)
    \/ DependencyFails \/ Show \/ Return \/ Logout

ViewerNext == Script \/ (StoreNext /\ UNCHANGED viewerVars)

ViewerSpec == ViewerInit /\ [][ViewerNext]_vars
-----------------------------------------------------------------------------
(* Properties.                                                             *)

(* What is shown is a whole dataset with whole dependencies, however often *)
(* the script ran before and wherever it was cut off, unless a copy was    *)
(* taken of one that was being written; and ICAT has them whole still, but *)
(* for those whose job does not know that they are, which may go away or   *)
(* lose their files while they are shown.                                  *)
ShownIsWhole ==
    vpc = "shown" =>
        /\ Dataset \notin early => path = "whole"
        /\ \A d \in Deps \ early : dep[d] = "whole"
        /\ \A d \in ({Dataset} \cup Deps) \ (early \cup unheard) : project[d] = "whole"

(* The invariant from which it is proved: a whole copy is of a dataset     *)
(* that is whole, half a copy in RunDir goes with a tmp that stops every   *)
(* later run, and the dependencies of a run are there but for those it     *)
(* still has to copy.                                                      *)
CopiesAreTrue ==
    /\ "whole" \in {tmp, path} => project[Dataset] = "whole" \/ Dataset \in unheard
    /\ \A d \in Deps : dep[d] = "whole" => project[d] = "whole" \/ d \in unheard

VInv ==
    /\ ViewerTypeOK
    /\ CopiesAreTrue
    /\ path = "some" =>
          Dataset \in early \/ (tmp # "none" /\ vpc \in {"out", "start", "return"})
    /\ vpc \in {"download", "move"} => tmp # "none"
    /\ vpc = "move" => tmp = "whole" \/ Dataset \in early
    /\ vpc \in {"deps", "shown"} =>
          /\ path # "none"
          /\ \A d \in Deps \ todo : dep[d] = "whole" \/ d \in early
    /\ vpc = "shown" => inner = BuildInnerOptions(options)
=============================================================================
