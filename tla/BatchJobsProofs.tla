-------------------------- MODULE BatchJobsProofs --------------------------
(***************************************************************************)
(* Proofs about BatchJobs for every set of hosts and jobs and every set of *)
(* events.  BInv is inductive; each of its parts has a lemma, with one     *)
(* step per action.                                                        *)
(***************************************************************************)
EXTENDS BatchJobs, TLAPS

(* The initial states satisfy the inductive invariant. *)
LEMMA InitBInv == Init => BInv
  BY DEF Init, TorqueInit, BInv, TypeOK, TorqueTypeOK, JobStates, NoListing, HostsOfJobs,
         RowsOfDone, ListingsStillTrue, StillTrue, SweepMeetsGone, CompleteRowIsComplete,
         DeletedJobHasEnded, StartedRowNamesNode

(* Every action keeps the types. *)
LEMMA NextTypeOK == BInv /\ [Next]_vars => TypeOK'
<1>. SUFFICES ASSUME BInv, [Next]_vars PROVE TypeOK'
  OBVIOUS
<1>. USE DEF BInv, ListingsStillTrue, TypeOK, TorqueTypeOK, JobStates
<1>1. ASSUME NEW j \in Jobs, SubmitQsub(j) PROVE TypeOK'
  BY <1>1 DEF SubmitQsub, Qsub, torqueVars, rowVars, subVars, pollVars
<1>2. ASSUME NEW j \in Jobs, SubmitQstat(j) PROVE TypeOK'
  BY <1>2 DEF SubmitQstat, Known, torqueVars, rowVars, subVars, pollVars
<1>3. ASSUME NEW j \in Jobs, SubmitThrows(j) PROVE TypeOK'
  BY <1>3 DEF SubmitThrows, torqueVars, rowVars, subVars, pollVars
<1>4. ASSUME NEW j \in Jobs, SubmitCommit(j) PROVE TypeOK'
  BY <1>4 DEF SubmitCommit, NodeIn, torqueVars, rowVars, subVars, pollVars
<1>5. ASSUME PollQstat PROVE TypeOK'
  BY <1>5 DEF PollQstat, Known, torqueVars, rowVars, subVars, pollVars
<1>6. ASSUME NEW j \in Jobs, PollFind(j) PROVE TypeOK'
  BY <1>6 DEF PollFind, torqueVars, rowVars, subVars, pollVars
<1>7. ASSUME PollCommit PROVE TypeOK'
  BY <1>7 DEF PollCommit, NodeIn, NoRowComing, NoListing, torqueVars, rowVars,
        subVars, pollVars
<1>8. ASSUME PollFindIncomplete PROVE TypeOK'
  BY <1>8 DEF PollFindIncomplete, torqueVars, rowVars, subVars, pollVars
<1>9. ASSUME PollSweepCommit PROVE TypeOK'
  BY <1>9 DEF PollSweepCommit, torqueVars, rowVars, subVars, pollVars
<1>10. ASSUME NEW j \in Jobs, Cancel(j) PROVE TypeOK'
  BY <1>10 DEF Cancel, Qdel, torqueVars, rowVars, subVars, pollVars
<1>11. ASSUME NEW j \in Jobs, DeleteCheck(j) PROVE TypeOK'
  BY <1>11 DEF DeleteCheck, torqueVars, rowVars, subVars, pollVars
<1>12. ASSUME NEW j \in Jobs, DeleteEnds(j) PROVE TypeOK'
  BY <1>12 DEF DeleteEnds, torqueVars, rowVars, subVars, pollVars
<1>13. ASSUME Crash PROVE TypeOK'
  BY <1>13 DEF Crash, NoListing, torqueVars, rowVars, subVars, pollVars
<1>14. ASSUME Batch PROVE TypeOK'
  BY <1>14 DEF Batch, QsigSuspend, QsigResume, Exit, Complete, PurgeLate,
        Purge, Dispatch, torqueVars, rowVars, subVars, pollVars
<1>15. CASE UNCHANGED vars
  BY <1>15 DEF vars, torqueVars, rowVars, subVars, pollVars
<1>16. QED
  BY <1>1, <1>2, <1>3, <1>4, <1>5, <1>6, <1>7, <1>8, <1>9, <1>10, <1>11, <1>12,
        <1>13, <1>14, <1>15
  DEF Next, Submission, Poll

(* A job has a node from its dispatch on. *)
LEMMA NextHosts == BInv /\ [Next]_vars => HostsOfJobs'
<1>. SUFFICES ASSUME BInv, [Next]_vars PROVE HostsOfJobs'
  OBVIOUS
<1>. USE TorqueAssumption DEF BInv, HostsOfJobs, TypeOK, TorqueTypeOK,
        JobStates
<1>1. ASSUME NEW j \in Jobs, SubmitQsub(j) PROVE HostsOfJobs'
  BY <1>1 DEF SubmitQsub, Qsub, torqueVars, rowVars, subVars, pollVars
<1>2. ASSUME NEW j \in Jobs, SubmitQstat(j) PROVE HostsOfJobs'
  BY <1>2 DEF SubmitQstat, Known, torqueVars, rowVars, subVars, pollVars
<1>3. ASSUME NEW j \in Jobs, SubmitThrows(j) PROVE HostsOfJobs'
  BY <1>3 DEF SubmitThrows, torqueVars, rowVars, subVars, pollVars
<1>4. ASSUME NEW j \in Jobs, SubmitCommit(j) PROVE HostsOfJobs'
  BY <1>4 DEF SubmitCommit, NodeIn, torqueVars, rowVars, subVars, pollVars
<1>5. ASSUME PollQstat PROVE HostsOfJobs'
  BY <1>5 DEF PollQstat, Known, torqueVars, rowVars, subVars, pollVars
<1>6. ASSUME NEW j \in Jobs, PollFind(j) PROVE HostsOfJobs'
  BY <1>6 DEF PollFind, torqueVars, rowVars, subVars, pollVars
<1>7. ASSUME PollCommit PROVE HostsOfJobs'
  BY <1>7 DEF PollCommit, NodeIn, NoRowComing, NoListing, torqueVars, rowVars,
        subVars, pollVars
<1>8. ASSUME PollFindIncomplete PROVE HostsOfJobs'
  BY <1>8 DEF PollFindIncomplete, torqueVars, rowVars, subVars, pollVars
<1>9. ASSUME PollSweepCommit PROVE HostsOfJobs'
  BY <1>9 DEF PollSweepCommit, torqueVars, rowVars, subVars, pollVars
<1>10. ASSUME NEW j \in Jobs, Cancel(j) PROVE HostsOfJobs'
  BY <1>10 DEF Cancel, Qdel, torqueVars, rowVars, subVars, pollVars
<1>11. ASSUME NEW j \in Jobs, DeleteCheck(j) PROVE HostsOfJobs'
  BY <1>11 DEF DeleteCheck, torqueVars, rowVars, subVars, pollVars
<1>12. ASSUME NEW j \in Jobs, DeleteEnds(j) PROVE HostsOfJobs'
  BY <1>12 DEF DeleteEnds, torqueVars, rowVars, subVars, pollVars
<1>13. ASSUME Crash PROVE HostsOfJobs'
  BY <1>13 DEF Crash, NoListing, torqueVars, rowVars, subVars, pollVars
<1>14. ASSUME Batch PROVE HostsOfJobs'
  BY <1>14 DEF Batch, QsigSuspend, QsigResume, Exit, Complete, PurgeLate,
        Purge, Dispatch, torqueVars, rowVars, subVars, pollVars
<1>15. CASE UNCHANGED vars
  BY <1>15 DEF vars, torqueVars, rowVars, subVars, pollVars
<1>16. QED
  BY <1>1, <1>2, <1>3, <1>4, <1>5, <1>6, <1>7, <1>8, <1>9, <1>10, <1>11, <1>12,
        <1>13, <1>14, <1>15
  DEF Next, Submission, Poll

(* Old answers of qstat stay true in part. *)
LEMMA NextListings == BInv /\ [Next]_vars => ListingsStillTrue'
<1>. SUFFICES ASSUME BInv, [Next]_vars PROVE ListingsStillTrue'
  OBVIOUS
<1>. USE TorqueAssumption DEF BInv, HostsOfJobs, ListingsStillTrue, StillTrue,
        Ended, TypeOK, TorqueTypeOK, JobStates
<1>1. ASSUME NEW j \in Jobs, SubmitQsub(j) PROVE ListingsStillTrue'
  BY <1>1 DEF SubmitQsub, Qsub, torqueVars, rowVars, subVars, pollVars
<1>2. ASSUME NEW j \in Jobs, SubmitQstat(j) PROVE ListingsStillTrue'
  BY <1>2 DEF SubmitQstat, Known, torqueVars, rowVars, subVars, pollVars
<1>3. ASSUME NEW j \in Jobs, SubmitThrows(j) PROVE ListingsStillTrue'
  BY <1>3 DEF SubmitThrows, torqueVars, rowVars, subVars, pollVars
<1>4. ASSUME NEW j \in Jobs, SubmitCommit(j) PROVE ListingsStillTrue'
  BY <1>4 DEF SubmitCommit, NodeIn, torqueVars, rowVars, subVars, pollVars
<1>5. ASSUME PollQstat PROVE ListingsStillTrue'
  BY <1>5 DEF PollQstat, Known, torqueVars, rowVars, subVars, pollVars
<1>6. ASSUME NEW j \in Jobs, PollFind(j) PROVE ListingsStillTrue'
  BY <1>6 DEF PollFind, torqueVars, rowVars, subVars, pollVars
<1>7. ASSUME PollCommit PROVE ListingsStillTrue'
  BY <1>7 DEF PollCommit, NodeIn, NoRowComing, NoListing, torqueVars, rowVars,
        subVars, pollVars
<1>8. ASSUME PollFindIncomplete PROVE ListingsStillTrue'
  BY <1>8 DEF PollFindIncomplete, torqueVars, rowVars, subVars, pollVars
<1>9. ASSUME PollSweepCommit PROVE ListingsStillTrue'
  BY <1>9 DEF PollSweepCommit, torqueVars, rowVars, subVars, pollVars
<1>10. ASSUME NEW j \in Jobs, Cancel(j) PROVE ListingsStillTrue'
  BY <1>10 DEF Cancel, Qdel, torqueVars, rowVars, subVars, pollVars
<1>11. ASSUME NEW j \in Jobs, DeleteCheck(j) PROVE ListingsStillTrue'
  BY <1>11 DEF DeleteCheck, torqueVars, rowVars, subVars, pollVars
<1>12. ASSUME NEW j \in Jobs, DeleteEnds(j) PROVE ListingsStillTrue'
  BY <1>12 DEF DeleteEnds, torqueVars, rowVars, subVars, pollVars
<1>13. ASSUME Crash PROVE ListingsStillTrue'
  BY <1>13 DEF Crash, NoListing, torqueVars, rowVars, subVars, pollVars
<1>14. ASSUME Batch PROVE ListingsStillTrue'
  BY <1>14 DEF Batch, QsigSuspend, QsigResume, Exit, Complete, PurgeLate,
        Purge, Dispatch, torqueVars, rowVars, subVars, pollVars
<1>15. CASE UNCHANGED vars
  BY <1>15 DEF vars, torqueVars, rowVars, subVars, pollVars
<1>16. QED
  BY <1>1, <1>2, <1>3, <1>4, <1>5, <1>6, <1>7, <1>8, <1>9, <1>10, <1>11, <1>12,
        <1>13, <1>14, <1>15
  DEF Next, Submission, Poll

(* No job is gone before it was submitted. *)
LEMMA NextSweep == BInv /\ [Next]_vars => SweepMeetsGone'
<1>. SUFFICES ASSUME BInv, [Next]_vars PROVE SweepMeetsGone'
  OBVIOUS
<1>. USE DEF BInv, SweepMeetsGone, TypeOK, TorqueTypeOK, JobStates
<1>1. ASSUME NEW j \in Jobs, SubmitQsub(j) PROVE SweepMeetsGone'
  BY <1>1 DEF SubmitQsub, Qsub, torqueVars, rowVars, subVars, pollVars
<1>2. ASSUME NEW j \in Jobs, SubmitQstat(j) PROVE SweepMeetsGone'
  BY <1>2 DEF SubmitQstat, Known, torqueVars, rowVars, subVars, pollVars
<1>3. ASSUME NEW j \in Jobs, SubmitThrows(j) PROVE SweepMeetsGone'
  BY <1>3 DEF SubmitThrows, torqueVars, rowVars, subVars, pollVars
<1>4. ASSUME NEW j \in Jobs, SubmitCommit(j) PROVE SweepMeetsGone'
  BY <1>4 DEF SubmitCommit, NodeIn, torqueVars, rowVars, subVars, pollVars
<1>5. ASSUME PollQstat PROVE SweepMeetsGone'
  BY <1>5 DEF PollQstat, Known, torqueVars, rowVars, subVars, pollVars
<1>6. ASSUME NEW j \in Jobs, PollFind(j) PROVE SweepMeetsGone'
  BY <1>6 DEF PollFind, torqueVars, rowVars, subVars, pollVars
<1>7. ASSUME PollCommit PROVE SweepMeetsGone'
  BY <1>7 DEF PollCommit, NodeIn, NoRowComing, NoListing, torqueVars, rowVars,
        subVars, pollVars
<1>8. ASSUME PollFindIncomplete PROVE SweepMeetsGone'
  BY <1>8 DEF PollFindIncomplete, torqueVars, rowVars, subVars, pollVars
<1>9. ASSUME PollSweepCommit PROVE SweepMeetsGone'
  BY <1>9 DEF PollSweepCommit, torqueVars, rowVars, subVars, pollVars
<1>10. ASSUME NEW j \in Jobs, Cancel(j) PROVE SweepMeetsGone'
  BY <1>10 DEF Cancel, Qdel, torqueVars, rowVars, subVars, pollVars
<1>11. ASSUME NEW j \in Jobs, DeleteCheck(j) PROVE SweepMeetsGone'
  BY <1>11 DEF DeleteCheck, torqueVars, rowVars, subVars, pollVars
<1>12. ASSUME NEW j \in Jobs, DeleteEnds(j) PROVE SweepMeetsGone'
  BY <1>12 DEF DeleteEnds, torqueVars, rowVars, subVars, pollVars
<1>13. ASSUME Crash PROVE SweepMeetsGone'
  BY <1>13 DEF Crash, NoListing, torqueVars, rowVars, subVars, pollVars
<1>14. ASSUME Batch PROVE SweepMeetsGone'
  BY <1>14 DEF Batch, QsigSuspend, QsigResume, Exit, Complete, PurgeLate,
        Purge, Dispatch, torqueVars, rowVars, subVars, pollVars
<1>15. CASE UNCHANGED vars
  BY <1>15 DEF vars, torqueVars, rowVars, subVars, pollVars
<1>16. QED
  BY <1>1, <1>2, <1>3, <1>4, <1>5, <1>6, <1>7, <1>8, <1>9, <1>10, <1>11, <1>12,
        <1>13, <1>14, <1>15
  DEF Next, Submission, Poll

(* Only a sweep that overlooks a submission makes a row say C too early. *)
LEMMA NextComplete == BInv /\ [Next]_vars => (CompleteRowIsComplete /\ DeletedJobHasEnded)'
<1>. SUFFICES ASSUME BInv, [Next]_vars PROVE (CompleteRowIsComplete /\ DeletedJobHasEnded)'
  OBVIOUS
<1>. USE TorqueAssumption DEF BInv, HostsOfJobs, ListingsStillTrue, StillTrue,
        SweepMeetsGone, CompleteRowIsComplete, DeletedJobHasEnded, Ended,
        TypeOK, TorqueTypeOK, JobStates
<1>1. ASSUME NEW j \in Jobs, SubmitQsub(j) PROVE (CompleteRowIsComplete /\ DeletedJobHasEnded)'
  BY <1>1 DEF SubmitQsub, Qsub, torqueVars, rowVars, subVars, pollVars
<1>2. ASSUME NEW j \in Jobs, SubmitQstat(j) PROVE (CompleteRowIsComplete /\ DeletedJobHasEnded)'
  BY <1>2 DEF SubmitQstat, Known, torqueVars, rowVars, subVars, pollVars
<1>3. ASSUME NEW j \in Jobs, SubmitThrows(j) PROVE (CompleteRowIsComplete /\ DeletedJobHasEnded)'
  BY <1>3 DEF SubmitThrows, torqueVars, rowVars, subVars, pollVars
<1>4. ASSUME NEW j \in Jobs, SubmitCommit(j) PROVE (CompleteRowIsComplete /\ DeletedJobHasEnded)'
  BY <1>4 DEF SubmitCommit, NodeIn, torqueVars, rowVars, subVars, pollVars
<1>5. ASSUME PollQstat PROVE (CompleteRowIsComplete /\ DeletedJobHasEnded)'
  BY <1>5 DEF PollQstat, Known, torqueVars, rowVars, subVars, pollVars
<1>6. ASSUME NEW j \in Jobs, PollFind(j) PROVE (CompleteRowIsComplete /\ DeletedJobHasEnded)'
  BY <1>6 DEF PollFind, torqueVars, rowVars, subVars, pollVars
<1>7. ASSUME PollCommit PROVE (CompleteRowIsComplete /\ DeletedJobHasEnded)'
  BY <1>7 DEF PollCommit, NodeIn, NoRowComing, NoListing, torqueVars, rowVars,
        subVars, pollVars
<1>8. ASSUME PollFindIncomplete PROVE (CompleteRowIsComplete /\ DeletedJobHasEnded)'
  BY <1>8 DEF PollFindIncomplete, torqueVars, rowVars, subVars, pollVars
<1>9. ASSUME PollSweepCommit PROVE (CompleteRowIsComplete /\ DeletedJobHasEnded)'
  BY <1>9 DEF PollSweepCommit, torqueVars, rowVars, subVars, pollVars
<1>10. ASSUME NEW j \in Jobs, Cancel(j) PROVE (CompleteRowIsComplete /\ DeletedJobHasEnded)'
  BY <1>10 DEF Cancel, Qdel, torqueVars, rowVars, subVars, pollVars
<1>11. ASSUME NEW j \in Jobs, DeleteCheck(j) PROVE (CompleteRowIsComplete /\ DeletedJobHasEnded)'
  BY <1>11 DEF DeleteCheck, torqueVars, rowVars, subVars, pollVars
<1>12. ASSUME NEW j \in Jobs, DeleteEnds(j) PROVE (CompleteRowIsComplete /\ DeletedJobHasEnded)'
  BY <1>12 DEF DeleteEnds, torqueVars, rowVars, subVars, pollVars
<1>13. ASSUME Crash PROVE (CompleteRowIsComplete /\ DeletedJobHasEnded)'
  BY <1>13 DEF Crash, NoListing, torqueVars, rowVars, subVars, pollVars
<1>14. ASSUME Batch PROVE (CompleteRowIsComplete /\ DeletedJobHasEnded)'
  BY <1>14 DEF Batch, QsigSuspend, QsigResume, Exit, Complete, PurgeLate,
        Purge, Dispatch, torqueVars, rowVars, subVars, pollVars
<1>15. CASE UNCHANGED vars
  BY <1>15 DEF vars, torqueVars, rowVars, subVars, pollVars
<1>16. QED
  BY <1>1, <1>2, <1>3, <1>4, <1>5, <1>6, <1>7, <1>8, <1>9, <1>10, <1>11, <1>12,
        <1>13, <1>14, <1>15
  DEF Next, Submission, Poll

(* Status and node of a row fit together. *)
LEMMA NextNode == BInv /\ [Next]_vars => StartedRowNamesNode'
<1>. SUFFICES ASSUME BInv, [Next]_vars PROVE StartedRowNamesNode'
  OBVIOUS
<1>. USE TorqueAssumption DEF BInv, HostsOfJobs, ListingsStillTrue, StillTrue,
        StartedRowNamesNode, TypeOK, TorqueTypeOK, JobStates
<1>1. ASSUME NEW j \in Jobs, SubmitQsub(j) PROVE StartedRowNamesNode'
  BY <1>1 DEF SubmitQsub, Qsub, torqueVars, rowVars, subVars, pollVars
<1>2. ASSUME NEW j \in Jobs, SubmitQstat(j) PROVE StartedRowNamesNode'
  BY <1>2 DEF SubmitQstat, Known, torqueVars, rowVars, subVars, pollVars
<1>3. ASSUME NEW j \in Jobs, SubmitThrows(j) PROVE StartedRowNamesNode'
  BY <1>3 DEF SubmitThrows, torqueVars, rowVars, subVars, pollVars
<1>4. ASSUME NEW j \in Jobs, SubmitCommit(j) PROVE StartedRowNamesNode'
  BY <1>4 DEF SubmitCommit, NodeIn, torqueVars, rowVars, subVars, pollVars
<1>5. ASSUME PollQstat PROVE StartedRowNamesNode'
  BY <1>5 DEF PollQstat, Known, torqueVars, rowVars, subVars, pollVars
<1>6. ASSUME NEW j \in Jobs, PollFind(j) PROVE StartedRowNamesNode'
  BY <1>6 DEF PollFind, torqueVars, rowVars, subVars, pollVars
<1>7. ASSUME PollCommit PROVE StartedRowNamesNode'
  BY <1>7 DEF PollCommit, NodeIn, NoRowComing, NoListing, torqueVars, rowVars,
        subVars, pollVars
<1>8. ASSUME PollFindIncomplete PROVE StartedRowNamesNode'
  BY <1>8 DEF PollFindIncomplete, torqueVars, rowVars, subVars, pollVars
<1>9. ASSUME PollSweepCommit PROVE StartedRowNamesNode'
  BY <1>9 DEF PollSweepCommit, torqueVars, rowVars, subVars, pollVars
<1>10. ASSUME NEW j \in Jobs, Cancel(j) PROVE StartedRowNamesNode'
  BY <1>10 DEF Cancel, Qdel, torqueVars, rowVars, subVars, pollVars
<1>11. ASSUME NEW j \in Jobs, DeleteCheck(j) PROVE StartedRowNamesNode'
  BY <1>11 DEF DeleteCheck, torqueVars, rowVars, subVars, pollVars
<1>12. ASSUME NEW j \in Jobs, DeleteEnds(j) PROVE StartedRowNamesNode'
  BY <1>12 DEF DeleteEnds, torqueVars, rowVars, subVars, pollVars
<1>13. ASSUME Crash PROVE StartedRowNamesNode'
  BY <1>13 DEF Crash, NoListing, torqueVars, rowVars, subVars, pollVars
<1>14. ASSUME Batch PROVE StartedRowNamesNode'
  BY <1>14 DEF Batch, QsigSuspend, QsigResume, Exit, Complete, PurgeLate,
        Purge, Dispatch, torqueVars, rowVars, subVars, pollVars
<1>15. CASE UNCHANGED vars
  BY <1>15 DEF vars, torqueVars, rowVars, subVars, pollVars
<1>16. QED
  BY <1>1, <1>2, <1>3, <1>4, <1>5, <1>6, <1>7, <1>8, <1>9, <1>10, <1>11, <1>12,
        <1>13, <1>14, <1>15
  DEF Next, Submission, Poll

(* Rows are made by SubmitCommit, and a submission that is done stays so. *)
LEMMA NextRows == BInv /\ [Next]_vars => RowsOfDone'
<1>. SUFFICES ASSUME BInv, [Next]_vars PROVE RowsOfDone'
  OBVIOUS
<1>. USE DEF BInv, RowsOfDone, TypeOK
<1>1. ASSUME UNCHANGED <<jobRow, spc, loaded>> PROVE RowsOfDone'
  BY <1>1
<1>2. ASSUME NEW j \in Jobs, SubmitQsub(j) \/ SubmitQstat(j) \/ SubmitThrows(j)
      PROVE  RowsOfDone'
  BY <1>2 DEF SubmitQsub, SubmitQstat, SubmitThrows, rowVars, pollVars
<1>3. ASSUME NEW j \in Jobs, SubmitCommit(j) PROVE RowsOfDone'
  BY <1>3 DEF SubmitCommit, pollVars
<1>4. ASSUME PollCommit \/ PollSweepCommit PROVE RowsOfDone'
  BY <1>4 DEF PollCommit, PollSweepCommit, subVars
<1>5. ASSUME NEW j \in Jobs, PollFind(j) PROVE RowsOfDone'
  BY <1>5 DEF PollFind, rowVars, subVars
<1>6. ASSUME PollFindIncomplete PROVE RowsOfDone'
  BY <1>6 DEF PollFindIncomplete, rowVars, subVars
<1>7. ASSUME NEW j \in Jobs, DeleteEnds(j) PROVE RowsOfDone'
  BY <1>7 DEF DeleteEnds, rowVars, subVars, pollVars
<1>8. ASSUME Crash PROVE RowsOfDone'
  BY <1>8 DEF Crash, rowVars
<1>9. QED
  BY <1>1, <1>2, <1>3, <1>4, <1>5, <1>6, <1>7, <1>8
  DEF Next, Submission, Poll, PollQstat, Cancel, DeleteCheck, Batch, vars, rowVars, subVars,
      pollVars

(* BInv is inductive. *)
LEMMA Inductive == BInv /\ [Next]_vars => BInv'
  BY NextTypeOK, NextRows, NextHosts, NextListings, NextSweep, NextComplete, NextNode DEF BInv

(* BInv holds in every reachable state. *)
THEOREM Invariant == Spec => []BInv
  BY InitBInv, Inductive, PTL DEF Spec

(* Every variable keeps its type. *)
THEOREM TypeCorrect == Spec => []TypeOK
  BY Invariant, PTL DEF BInv

(* A row says C of an ended job only, but for the sweep's race with submit. *)
THEOREM CompleteIsComplete == Spec => []CompleteRowIsComplete
  BY Invariant, PTL DEF BInv

(* delete meets ended jobs only, but for the same race. *)
THEOREM DeletedHaveEnded == Spec => []DeletedJobHasEnded
  BY Invariant, PTL DEF BInv

(* The row of a started job names the node Torque runs it on. *)
THEOREM NodeOfStarted == Spec => []StartedRowNamesNode
  BY Invariant, PTL DEF BInv
-----------------------------------------------------------------------------
(* The refinement of RowLedger.                                            *)

(* A job does not come back from its end. *)
LEMMA EndIsFinal ==
  ASSUME BInv, [Next]_vars
  PROVE  \A j \in Jobs : Ended(j) => Ended(j)'
<1>. USE DEF Ended
<1>1. ASSUME UNCHANGED jobState PROVE \A j \in Jobs : Ended(j) => Ended(j)'
  BY <1>1
<1>2. ASSUME NEW j \in Jobs, Qsub(j) PROVE \A k \in Jobs : Ended(k) => Ended(k)'
  BY <1>2 DEF Qsub, BInv, TypeOK, TorqueTypeOK
<1>3. ASSUME NEW j \in Jobs, Qdel(j) PROVE \A k \in Jobs : Ended(k) => Ended(k)'
  BY <1>3 DEF Qdel, BInv, TypeOK, TorqueTypeOK
<1>4. ASSUME Batch PROVE \A k \in Jobs : Ended(k) => Ended(k)'
  BY <1>4 DEF Batch, QsigSuspend, QsigResume, Exit, Complete, PurgeLate, Purge, Dispatch,
              BInv, TypeOK, TorqueTypeOK
<1>5. QED
  BY <1>1, <1>2, <1>3, <1>4
  DEF Next, Submission, SubmitQsub, SubmitQstat, SubmitThrows, SubmitCommit, Poll, PollQstat,
      PollFind, PollCommit, PollFindIncomplete, PollSweepCommit, Cancel, DeleteCheck,
      DeleteEnds, Crash, vars, torqueVars

(* A step that leaves the rows, and the state of every job but one, is End *)
(* of that job or none.                                                    *)
LEMMA EndInLedger ==
  ASSUME BInv, [Next]_vars, NEW j \in Jobs, \A k \in Jobs \ {j} : jobState'[k] = jobState[k],
         \A k \in Jobs : RowOf(k)' = RowOf(k), swept' = swept
  PROVE  [Ledger!LedgerNext]_(Ledger!ledgerVars)
<1>1. Ended(j) => Ended(j)'
  BY EndIsFinal
<1>2. \A k \in Jobs \ {j} : Ended(k)' <=> Ended(k)
  BY DEF Ended
<1>3. CASE Ended(j)' <=> Ended(j)
  <2>1. {k \in Jobs : Ended(k)}' = {k \in Jobs : Ended(k)}
    BY <1>2, <1>3
  <2>2. [k \in Jobs |-> RowOf(k)]' = [k \in Jobs |-> RowOf(k)]
    OBVIOUS
  <2>3. QED
    BY <2>1, <2>2 DEF Ledger!ledgerVars
<1>4. CASE Ended(j)' /\ ~Ended(j)
  <2>1. {k \in Jobs : Ended(k)}' = {k \in Jobs : Ended(k)} \cup {j}
    BY <1>2, <1>4
  <2>2. Ledger!End(j)
    BY <2>1 DEF Ledger!End
  <2>3. QED
    BY <2>2 DEF Ledger!LedgerNext
<1>5. QED
  BY <1>1, <1>3, <1>4

(* A commit of a submission makes the row. *)
LEMMA CommitInLedger ==
  ASSUME BInv, NEW j \in Jobs, SubmitCommit(j)
  PROVE  Ledger!LedgerNext
<1>1. jobRow[j] = "none" /\ RowOf(j) = "none"
  BY DEF BInv, RowsOfDone, SubmitCommit, RowOf
<1>2. answer[j] # "none" /\ (answer[j] = "C" => Ended(j))
  BY DEF SubmitCommit, BInv, ListingsStillTrue, StillTrue
<1>3. jobRow' = [jobRow EXCEPT ![j] = answer[j]] /\ spc' = [spc EXCEPT ![j] = "done"]
  BY DEF SubmitCommit
<1>4. RowOf(j)' = IF answer[j] = "C" THEN "complete" ELSE "open"
  BY <1>2, <1>3 DEF BInv, TypeOK, RowOf
<1>5. \A k \in Jobs \ {j} : RowOf(k)' = RowOf(k)
  BY <1>3 DEF BInv, TypeOK, RowOf
<1>6. {k \in Jobs : Ended(k)}' = {k \in Jobs : Ended(k)} /\ swept' = swept
  BY DEF SubmitCommit, Ended, torqueVars, pollVars
<1>7. PICK s \in Ledger!Answers(j) : RowOf(j)' = s
  BY <1>2, <1>4 DEF Ledger!Answers
<1>8. [k \in Jobs |-> RowOf(k)]' = [[k \in Jobs |-> RowOf(k)] EXCEPT ![j] = RowOf(j)']
  BY <1>5
<1>9. Ledger!Record(j)
  BY <1>1, <1>6, <1>7, <1>8 DEF Ledger!Record
<1>10. QED
  BY <1>9 DEF Ledger!LedgerNext

(* The commit of the timer rewrites rows that are there. *)
LEMMA PollInLedger ==
  ASSUME BInv, PollCommit
  PROVE  Ledger!LedgerNext
<1>. DEFINE new == [j \in Jobs |-> RowOf(j)]'
<1>1. \A j \in Jobs : new[j] = RowOf(j) \/ (Ledger!Open(j) /\ new[j] \in Ledger!Answers(j))
  <2>. TAKE j \in Jobs
  <2>1. CASE j \in loaded /\ jobRow[j] # "none"
    <3>1. listing[j] # "none" /\ (listing[j] = "C" => Ended(j))
      BY <2>1 DEF PollCommit, BInv, ListingsStillTrue, StillTrue
    <3>2. jobRow'[j] = listing[j]
      BY <2>1 DEF PollCommit
    <3>3. RowOf(j)' \in Ledger!Answers(j)
      BY <3>1, <3>2 DEF RowOf, Ledger!Answers
    <3>4. Ledger!Open(j)
      BY <2>1 DEF RowOf, Ledger!Open
    <3>5. QED
      BY <3>3, <3>4
  <2>2. CASE ~(j \in loaded /\ jobRow[j] # "none")
    BY <2>2 DEF PollCommit, subVars, RowOf
  <2>3. QED
    BY <2>1, <2>2
<1>2. new \in [Jobs -> {"none", "open", "complete", "removed"}]
  BY DEF RowOf
<1>3. {j \in Jobs : Ended(j)}' = {j \in Jobs : Ended(j)} /\ swept' = swept
  BY DEF PollCommit, Ended, torqueVars
<1>4. Ledger!Refresh
  BY <1>1, <1>2, <1>3 DEF Ledger!Refresh
<1>5. QED
  BY <1>4 DEF Ledger!LedgerNext

(* So does that of a sweep; it overlooks jobs that were not there when it  *)
(* asked.                                                                  *)
LEMMA SweepInLedger ==
  ASSUME BInv, PollSweepCommit
  PROVE  Ledger!LedgerNext
<1>. DEFINE K == {j \in loaded : jobRow[j] # "none"}
            L == loaded \cap unborn
<1>1. K \subseteq Jobs /\ L \subseteq Jobs /\ swept' = swept \cup L
  BY DEF PollSweepCommit, BInv, TypeOK
<1>2. \A j \in K : Ledger!Open(j)
  BY <1>1 DEF Ledger!Open, RowOf
<1>3. [j \in Jobs |-> RowOf(j)]' = [j \in Jobs |-> IF j \in K THEN "complete" ELSE RowOf(j)]
  BY <1>1 DEF PollSweepCommit, subVars, RowOf
<1>4. K \subseteq {j \in Jobs : Ended(j)} \cup swept'
  BY <1>1 DEF PollSweepCommit, BInv, SweepMeetsGone, Ended
<1>5. \A j \in L : RowOf(j)' \in {"complete", "removed"}
  BY DEF PollSweepCommit, BInv, RowsOfDone, TypeOK, subVars, RowOf
<1>6. {j \in Jobs : Ended(j)}' = {j \in Jobs : Ended(j)}
  BY DEF PollSweepCommit, Ended, torqueVars
<1>7. Ledger!Sweep
  BY <1>1, <1>2, <1>3, <1>4, <1>5, <1>6 DEF Ledger!Sweep
<1>8. QED
  BY <1>7 DEF Ledger!LedgerNext

(* A row is removed by delete, of a job that has ended or was overlooked.  *)
LEMMA DeleteInLedger ==
  ASSUME BInv, NEW j \in Jobs, DeleteEnds(j)
  PROVE  [Ledger!LedgerNext]_(Ledger!ledgerVars)
<1>1. {k \in Jobs : Ended(k)}' = {k \in Jobs : Ended(k)} /\ swept' = swept
  BY DEF DeleteEnds, Ended, torqueVars, pollVars
<1>2. CASE jobRow[j] = "none" \/ UNCHANGED rowVars
  <2>1. [k \in Jobs |-> RowOf(k)]' = [k \in Jobs |-> RowOf(k)]
    BY <1>2 DEF DeleteEnds, BInv, TypeOK, RowOf, rowVars, subVars
  <2>2. QED
    BY <1>1, <2>1 DEF Ledger!ledgerVars
<1>3. CASE jobRow[j] # "none" /\ ~UNCHANGED rowVars
  <2>1. jobRow' = [jobRow EXCEPT ![j] = "none"] /\ spc' = spc /\ spc[j] = "done"
    BY <1>3 DEF DeleteEnds, BInv, RowsOfDone, subVars
  <2>2. [k \in Jobs |-> RowOf(k)]' = [[k \in Jobs |-> RowOf(k)] EXCEPT ![j] = "removed"]
    BY <2>1 DEF BInv, TypeOK, RowOf
  <2>3. Ended(j) \/ j \in swept
    BY DEF DeleteEnds, BInv, DeletedJobHasEnded
  <2>4. Ledger!Open(j)
    BY <1>3 DEF RowOf, Ledger!Open
  <2>5. Ledger!Remove(j)
    BY <1>1, <2>2, <2>3, <2>4 DEF Ledger!Remove
  <2>6. QED
    BY <2>5 DEF Ledger!LedgerNext
<1>4. QED
  BY <1>2, <1>3

(* Every step of BatchJobs is one of RowLedger or none. *)
LEMMA LedgerStep == BInv /\ [Next]_vars => [Ledger!LedgerNext]_(Ledger!ledgerVars)
<1>. SUFFICES ASSUME BInv, [Next]_vars PROVE [Ledger!LedgerNext]_(Ledger!ledgerVars)
  OBVIOUS
<1>. USE DEF BInv, TypeOK, TorqueTypeOK
<1>1. ASSUME UNCHANGED <<jobRow, swept, jobState>>,
             \A j \in Jobs : spc'[j] = "done" <=> spc[j] = "done"
      PROVE  [Ledger!LedgerNext]_(Ledger!ledgerVars)
  BY <1>1 DEF Ledger!ledgerVars, Ended, RowOf
<1>2. ASSUME NEW j \in Jobs, \A k \in Jobs \ {j} : jobState'[k] = jobState[k],
             UNCHANGED <<jobRow, swept>>, \A k \in Jobs : spc'[k] = "done" <=> spc[k] = "done"
      PROVE  [Ledger!LedgerNext]_(Ledger!ledgerVars)
  BY <1>2, EndInLedger DEF RowOf
<1>3. ASSUME NEW j \in Jobs, SubmitQsub(j) PROVE [Ledger!LedgerNext]_(Ledger!ledgerVars)
  BY <1>2, <1>3 DEF SubmitQsub, Qsub, rowVars, pollVars
<1>4. ASSUME NEW j \in Jobs, SubmitQstat(j) \/ SubmitThrows(j)
      PROVE  [Ledger!LedgerNext]_(Ledger!ledgerVars)
  BY <1>1, <1>4 DEF SubmitQstat, SubmitThrows, torqueVars, rowVars, pollVars
<1>5. ASSUME PollQstat \/ PollFindIncomplete \/ \E j \in Jobs : PollFind(j) \/ DeleteCheck(j)
      PROVE  [Ledger!LedgerNext]_(Ledger!ledgerVars)
  BY <1>1, <1>5 DEF PollQstat, PollFindIncomplete, PollFind, DeleteCheck, torqueVars, rowVars,
                    subVars, pollVars
<1>6. ASSUME NEW j \in Jobs, Cancel(j) PROVE [Ledger!LedgerNext]_(Ledger!ledgerVars)
  BY <1>2, <1>6 DEF Cancel, Qdel, rowVars, subVars, pollVars
<1>7. ASSUME Crash PROVE [Ledger!LedgerNext]_(Ledger!ledgerVars)
  BY <1>1, <1>7 DEF Crash, torqueVars, rowVars
<1>8. ASSUME Batch PROVE [Ledger!LedgerNext]_(Ledger!ledgerVars)
  <2>1. UNCHANGED <<jobRow, swept, spc>>
    BY <1>8 DEF Batch, rowVars, subVars, pollVars
  <2>2. \E j \in Jobs : \A k \in Jobs \ {j} : jobState'[k] = jobState[k]
    BY <1>8 DEF Batch, QsigSuspend, QsigResume, Exit, Complete, PurgeLate, Purge, Dispatch
  <2>3. QED
    BY <1>2, <2>1, <2>2
<1>9. CASE UNCHANGED vars
  BY <1>1, <1>9 DEF vars, torqueVars, rowVars, subVars, pollVars
<1>10. QED
  BY <1>3, <1>4, <1>5, <1>6, <1>7, <1>8, <1>9, CommitInLedger, PollInLedger, SweepInLedger,
     DeleteInLedger
  DEF Next, Submission, Poll

(* BatchJobs implements RowLedger for every set of jobs and hosts, however *)
(* the timer, the requests, failing commands and crashes interleave.       *)
THEOREM LedgerImplemented == Spec => ImplementsLedger
<1>1. Init => Ledger!LedgerInit
  BY DEF Init, TorqueInit, Ledger!LedgerInit, RowOf, Ended
<1>2. QED
  BY <1>1, LedgerStep, Invariant, PTL DEF Spec, ImplementsLedger, Ledger!LedgerSpec
=============================================================================
