---------------------------- MODULE ViewersProofs ----------------------------
(***************************************************************************)
(* Proofs about Viewers for every set of datasets and of dependencies.     *)
(* VInv is inductive; a lemma per group of steps says so.                  *)
(***************************************************************************)
EXTENDS Viewers, TLAPS

(* The initial states satisfy the invariant. *)
LEMMA InitVInv == ViewerInit => VInv
  BY ViewerAssumption DEF ViewerInit, StoreInit, VInv, ViewerTypeOK, CopiesAreTrue, Copies

(* The store goes on while the script stands still. *)
LEMMA StoreKeeps ==
  ASSUME VInv, StoreNext, UNCHANGED viewerVars
  PROVE  VInv'
<1>1. /\ project' \in [Jobs -> {"absent", "partial", "whole", "removed"}]
      /\ unheard' \subseteq Jobs
  BY DEF VInv, ViewerTypeOK, StoreNext, Build, Finish,
      FinishUnheard, Spoil, Remove, Becomes
<1>2. CopiesAreTrue'
  BY ViewerAssumption
  DEF VInv, ViewerTypeOK, CopiesAreTrue, StoreNext, Build, Finish,
      FinishUnheard, Spoil, Remove, Becomes, viewerVars
<1>3. QED
  BY <1>1, <1>2 DEF VInv, ViewerTypeOK, viewerVars

(* Every copy the script makes or moves is as whole as its dataset. *)
LEMMA CopiesKeep ==
  ASSUME VInv, Script
  PROVE  CopiesAreTrue'
<1>. USE ViewerAssumption DEF VInv, ViewerTypeOK, CopiesAreTrue, Copies
<1>1. CASE Login \/ StartFails \/ MakeTmp \/ Show \/ Return
  BY <1>1 DEF Login, StartFails, MakeTmp, Show, Return, Go, storeVars
<1>2. CASE Download \/ DownloadFails \/ Move \/ MoveFails
  BY <1>2 DEF Download, DownloadFails, Move, MoveFails, Go, Copied, storeVars
<1>3. CASE DependencyFails \/ Logout \/ \E d \in Deps : GetDependency(d)
  BY <1>3 DEF DependencyFails, Logout, GetDependency, Go, Copied, storeVars
<1>4. QED
  BY <1>1, <1>2, <1>3 DEF Script

(* The script begins, or ends. *)
LEMMA StartKeeps ==
  ASSUME VInv, CopiesAreTrue', Login \/ StartFails \/ MakeTmp \/ Return
  PROVE  VInv'
<1>1. ViewerTypeOK'
  BY DEF VInv, ViewerTypeOK, Login, StartFails, MakeTmp, Return, Go, Copies, storeVars
<1>2. QED
  BY <1>1 DEF VInv, Login, StartFails, MakeTmp, Return, Go, storeVars

(* The dataset is copied to tmp, and moved to RunDir. *)
LEMMA CopyKeeps ==
  ASSUME VInv, CopiesAreTrue', Download \/ DownloadFails \/ Move \/ MoveFails
  PROVE  VInv'
<1>. USE ViewerAssumption
<1>1. CASE Download
  <2>1. ViewerTypeOK'
    BY <1>1 DEF VInv, ViewerTypeOK, Download, Go, Copies, Copied, EarlyWith, storeVars
  <2>2. QED
    BY <1>1, <2>1 DEF VInv, ViewerTypeOK, Download, Go, Copied, EarlyWith, storeVars
<1>2. CASE DownloadFails \/ MoveFails
  BY <1>2 DEF VInv, ViewerTypeOK, DownloadFails, MoveFails, Go, Copies, storeVars
<1>3. CASE Move
  <2>1. ViewerTypeOK'
    BY <1>3 DEF VInv, ViewerTypeOK, Move, Go, Copies, storeVars
  <2>2. QED
    BY <1>3, <2>1 DEF VInv, ViewerTypeOK, Move, Go, Copies, storeVars
<1>4. QED
  BY <1>1, <1>2, <1>3

(* The dependencies are copied. *)
LEMMA DependencyKeeps ==
  ASSUME VInv, CopiesAreTrue', DependencyFails \/ \E d \in Deps : GetDependency(d)
  PROVE  VInv'
<1>. USE ViewerAssumption
<1>1. ASSUME NEW d \in Deps, GetDependency(d) PROVE VInv'
  <2>1. ViewerTypeOK'
    BY <1>1 DEF VInv, ViewerTypeOK, GetDependency, Copies, Copied, EarlyWith, storeVars
  <2>2. \A e \in Deps \ todo' : dep'[e] = "whole" \/ e \in early'
    BY <1>1 DEF VInv, ViewerTypeOK, GetDependency, Copied, EarlyWith, storeVars
  <2>3. early \subseteq early'
    BY <1>1 DEF GetDependency, EarlyWith, storeVars
  <2>4. QED
    BY <1>1, <2>1, <2>2, <2>3 DEF VInv, GetDependency, storeVars
<1>2. CASE DependencyFails
  <2>1. ViewerTypeOK'
    BY <1>2 DEF VInv, ViewerTypeOK, DependencyFails, Go, Copies, storeVars
  <2>2. QED
    BY <1>2, <2>1 DEF VInv, DependencyFails, Go, storeVars
<1>3. QED
  BY <1>1, <1>2

(* The viewer is given the options that build_inner_options leaves. *)
LEMMA InnerType == \A opts \in Options :
    BuildInnerOptions(opts) \subseteq
        ((DOMAIN opts) \ Omitted) \X (Values \cup Elements \cup {"flag"})
  BY DEF Options, BuildInnerOptions, Values

(* The viewer is started. *)
LEMMA ShowKeeps ==
  ASSUME VInv, CopiesAreTrue', Show
  PROVE  VInv'
<1>1. ViewerTypeOK'
  BY InnerType DEF VInv, ViewerTypeOK, Show, Go, storeVars
<1>2. QED
  BY <1>1 DEF VInv, ViewerTypeOK, Show, Go, storeVars

(* The session ends. *)
LEMMA LogoutKeeps ==
  ASSUME VInv, CopiesAreTrue', Logout
  PROVE  VInv'
<1>1. ViewerTypeOK'
  BY DEF VInv, ViewerTypeOK, Logout, Copies, storeVars
<1>2. QED
  BY <1>1 DEF VInv, ViewerTypeOK, Logout, storeVars

(* Every step keeps the invariant. *)
LEMMA NextVInv == VInv /\ [ViewerNext]_vars => VInv'
<1>1. CASE UNCHANGED vars
  BY <1>1 DEF vars, storeVars, viewerVars, VInv, ViewerTypeOK, CopiesAreTrue
<1>2. QED
  BY <1>1, StoreKeeps, CopiesKeep, StartKeeps, CopyKeeps, DependencyKeeps, ShowKeeps, LogoutKeeps
  DEF ViewerNext, Script

(* The invariant holds in every reachable state. *)
THEOREM InvariantHolds == ViewerSpec => []VInv
  BY InitVInv, NextVInv, PTL DEF ViewerSpec

(* Every variable keeps its type. *)
THEOREM TypeCorrect == ViewerSpec => []ViewerTypeOK
<1>1. VInv => ViewerTypeOK
  BY DEF VInv
<1>2. QED
  BY <1>1, InvariantHolds, PTL

(* What is shown is whole, however often the script ran and wherever it    *)
(* was cut off, but for copies of datasets that were still being written.  *)
THEOREM WholeIsShown == ViewerSpec => []ShownIsWhole
<1>1. VInv => ShownIsWhole
  BY DEF VInv, ViewerTypeOK, CopiesAreTrue, Copies, ShownIsWhole
<1>2. QED
  BY <1>1, InvariantHolds, PTL
=============================================================================
