--------------------------- MODULE ShownProjects ---------------------------
(***************************************************************************)
(* Quincy jobs and a viewer together: view_project.py or                   *)
(* view_project_new.py runs in an interactive session, again and again,    *)
(* while quincy.py and quincy_new.py write, give up and undo the datasets  *)
(* it copies.  They meet in ICAT only: what Viewers reads from             *)
(* ProjectStore is here what ProjectJobs has stored.  These two scripts    *)
(* copy no dependencies, so Deps is empty for them.  view_ingested.py,     *)
(* which does, shows datasets that ingest jobs store, see IngestDaemon.    *)
(***************************************************************************)
EXTENDS ProjectJobsProofs

CONSTANTS
    Dataset,  \* the project that is shown
    Deps      \* the projects that it depends on

VARIABLES
    vpc, options, tmp, path, nested, dep, todo, inner, early  \* as in Viewers

View == INSTANCE ViewersProofs WITH project <- [j \in Jobs |-> Project(j)]

scriptVars == <<vpc, options, tmp, path, nested, dep, todo, inner, early>>
shownVars == <<projectVars, scriptVars>>

ShownInit == ProjectInit /\ View!ViewerInit

ShownNext ==
    \/ ProjectNext /\ UNCHANGED scriptVars
    \/ UNCHANGED projectVars /\ View!Script

ShownSpec == ShownInit /\ [][ShownNext]_shownVars
-----------------------------------------------------------------------------
Stored(j) == j \in complete /\ stored[j] = Files

(* What a user is shown is all of a project, and ICAT has that project,    *)
(* now and not only when it was copied: marked complete and with all its   *)
(* files.  The exceptions are copies taken before it was whole, and, of    *)
(* what ICAT has, the projects whose script missed that it is complete and *)
(* is about to undo it, is undoing it or has done so.                      *)
ShownIsStored ==
    vpc = "shown" =>
        /\ Dataset \notin early => path = "whole"
        /\ \A d \in Deps \ early : dep[d] = "whole"
        /\ \A d \in ({Dataset} \cup Deps) \ (early \cup unheard) : Stored(d)
-----------------------------------------------------------------------------
(* The two together begin as the viewer with the store, *)
LEMMA ShownInitView == ShownInit => View!ViewerInit
  BY DEF ShownInit

(* and a step of either is one of the viewer, of the store, or none. *)
LEMMA ShownStep == PInv /\ [ShownNext]_shownVars => [View!ViewerNext]_(View!vars)
<1>. SUFFICES ASSUME PInv, [ShownNext]_shownVars PROVE [View!ViewerNext]_(View!vars)
  OBVIOUS
<1>1. CASE ProjectNext /\ UNCHANGED scriptVars
  <2>1. [Store!StoreNext]_(Store!storeVars)
    BY <1>1, StoreStep
  <2>2. View!StoreNext \/ UNCHANGED <<[j \in Jobs |-> Project(j)], unheard>>
    BY <2>1
    DEF Store!StoreNext, Store!Build, Store!Finish, Store!FinishUnheard, Store!Spoil,
        Store!Remove, Store!Becomes, Store!storeVars, View!StoreNext, View!Build,
        View!Finish, View!FinishUnheard, View!Spoil, View!Remove, View!Becomes
  <2>3. QED
    BY <1>1, <2>2
    DEF View!ViewerNext, View!vars, View!storeVars, View!viewerVars, scriptVars
<1>2. CASE View!Script
  BY <1>2 DEF View!ViewerNext
<1>3. CASE UNCHANGED shownVars
  BY <1>3 DEF shownVars, scriptVars, projectVars, icatVars, Project, View!vars,
    View!storeVars, View!viewerVars
<1>4. QED
  BY <1>1, <1>2, <1>3 DEF ShownNext

(* The jobs keep their invariant: nobody else writes to ICAT. *)
LEMMA ShownPInv == ShownSpec => []PInv
<1>1. ShownInit => PInv
  BY InitPInv DEF ShownInit
<1>2. PInv /\ [ShownNext]_shownVars => PInv'
  BY NextPInv DEF ShownNext, shownVars
<1>3. QED
  BY <1>1, <1>2, PTL DEF ShownSpec

(* A viewer beside quincy jobs is a viewer beside ProjectStore. *)
THEOREM ViewerImplemented == ShownSpec => View!ViewerSpec
  BY ShownInitView, ShownStep, ShownPInv, PTL DEF ShownSpec, View!ViewerSpec

(* What is shown is whole and stored, but for these exceptions, whatever   *)
(* the jobs, their quincy, the failures and the logins.                    *)
THEOREM ShownAreStored ==
  ASSUME Dataset \in Jobs, Deps \subseteq Jobs \ {Dataset}
  PROVE  ShownSpec => []ShownIsStored
<1>1. View!ViewerSpec => []View!ShownIsWhole
  BY View!WholeIsShown
<1>2. View!ShownIsWhole => ShownIsStored
  BY DEF View!ShownIsWhole, ShownIsStored, Stored, Project
<1>3. QED
  BY <1>1, <1>2, ViewerImplemented, PTL
=============================================================================
