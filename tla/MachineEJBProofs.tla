------------------------- MODULE MachineEJBProofs -------------------------
(***************************************************************************)
(* Proofs about MachineEJB for every set of hosts, jobs and accounts, every*)
(* set of events and both answers to RollbackOnException and SnapshotReads.*)
(*                                                                         *)
(* IInv is inductive; each of its parts has a lemma of its own, with one   *)
(* step per action.                                                        *)
(***************************************************************************)
EXTENDS MachineEJB, TLAPS

(* The initial states satisfy the inductive invariant. *)
LEMMA InitIInv == Init => IInv
  BY TorqueAssumption, MachineAssumption
  DEF Init, TorqueInit, IInv, TypeOK, TorqueTypeOK, JobStates, InFlight, Marked, RowsOfEnded,
      UsableHasRow, LiveSessionTracked, CleanerOnLocked, MarkedIsOffline, CountHolds,
      RunningIsListed, ListedIsThere, NoJobForgotten, Ended, Locked, InUse, Running

(* Every action keeps the types. *)
LEMMA NextTypeOK == TypeOK /\ [Next]_vars => TypeOK'
<1>. SUFFICES ASSUME TypeOK, [Next]_vars PROVE TypeOK'
  OBVIOUS
<1>. USE DEF TypeOK, TorqueTypeOK
<1>1. ASSUME NEW a \in Accounts, NEW h \in Hosts, ChooseMachine(a, h) PROVE TypeOK'
  BY <1>1
  DEF ChooseMachine, At, torqueVars, subVars, cleanVars, InFlight, Marked,
        JobStates
<1>2. ASSUME NEW a \in Accounts, MarkOffline(a) PROVE TypeOK'
  BY <1>2
  DEF MarkOffline, At, PbsnodesOffline, torqueVars, subVars, cleanVars,
        InFlight, Marked, JobStates
<1>3. ASSUME NEW a \in Accounts, ListJobs(a) PROVE TypeOK'
  BY <1>3
  DEF ListJobs, At, Occupants, torqueVars, subVars, cleanVars, InFlight,
        Marked, JobStates
<1>4. ASSUME NEW a \in Accounts, NEW j \in Jobs, Suspend(a, j) PROVE TypeOK'
  BY <1>4
  DEF Suspend, QsigSuspend, torqueVars, subVars, cleanVars, InFlight, Marked,
        JobStates
<1>5. ASSUME NEW a \in Accounts, PrepareThrows(a) PROVE TypeOK'
  BY <1>5
  DEF PrepareThrows, torqueVars, subVars, cleanVars, InFlight, Marked,
        JobStates
<1>6. ASSUME NEW a \in Accounts, CopyScript(a) PROVE TypeOK'
  BY <1>6
  DEF CopyScript, At, Reachable, torqueVars, subVars, cleanVars, InFlight,
        Marked, JobStates
<1>7. ASSUME NEW a \in Accounts, PrepareAccount(a) PROVE TypeOK'
  BY <1>7
  DEF PrepareAccount, At, Reachable, torqueVars, subVars, cleanVars, InFlight,
        Marked, JobStates
<1>8. ASSUME NEW a \in Accounts, AccountThrows(a) PROVE TypeOK'
  BY <1>8
  DEF AccountThrows, Reachable, torqueVars, subVars, cleanVars, InFlight,
        Marked, JobStates
<1>9. ASSUME NEW a \in Accounts, CommitSubmission(a) PROVE TypeOK'
  BY <1>9
  DEF CommitSubmission, At, torqueVars, subVars, cleanVars, InFlight, Marked,
        JobStates
<1>10. ASSUME CleanStart PROVE TypeOK'
  BY <1>10
  DEF CleanStart, CleanAt, Rows, torqueVars, subVars, cleanVars, InFlight,
        Marked, JobStates
<1>11. ASSUME NEW a \in Accounts, ClearPassword(a) PROVE TypeOK'
  BY <1>11
  DEF ClearPassword, Reachable, torqueVars, subVars, cleanVars, InFlight,
        Marked, JobStates
<1>12. ASSUME NEW a \in Accounts, ClearThrows(a) PROVE TypeOK'
  BY <1>12
  DEF ClearThrows, CleanAt, Reachable, torqueVars, subVars, cleanVars,
        InFlight, Marked, JobStates
<1>13. ASSUME FindDeletable PROVE TypeOK'
  BY <1>13
  DEF FindDeletable, CleanAt, Visible, Rows, torqueVars, subVars, cleanVars,
        InFlight, Marked, JobStates
<1>14. ASSUME NEW a \in Accounts, PsVanished(a) PROVE TypeOK'
  BY <1>14
  DEF PsVanished, Reachable, torqueVars, subVars, cleanVars, InFlight, Marked,
        JobStates
<1>15. ASSUME NEW a \in Accounts, PsBusy(a) PROVE TypeOK'
  BY <1>15
  DEF PsBusy, torqueVars, subVars, cleanVars, InFlight, Marked, JobStates
<1>16. ASSUME NEW a \in Accounts, PsNoProcess(a) PROVE TypeOK'
  BY <1>16
  DEF PsNoProcess, CleanAt, torqueVars, subVars, cleanVars, InFlight, Marked,
        JobStates
<1>17. ASSUME NEW a \in Accounts, PsThrows(a) PROVE TypeOK'
  BY <1>17
  DEF PsThrows, CleanAt, torqueVars, subVars, cleanVars, InFlight, Marked,
        JobStates
<1>18. ASSUME UserDel PROVE TypeOK'
  BY <1>18
  DEF UserDel, CleanAt, torqueVars, subVars, cleanVars, InFlight, Marked,
        JobStates
<1>19. ASSUME NothingDeleted PROVE TypeOK'
  BY <1>19
  DEF NothingDeleted, CleanAt, torqueVars, subVars, cleanVars, InFlight,
        Marked, JobStates
<1>20. ASSUME ReadStates PROVE TypeOK'
  BY <1>20
  DEF ReadStates, CleanAt, torqueVars, subVars, cleanVars, InFlight, Marked,
        JobStates
<1>21. ASSUME NEW h \in Hosts, KeepOffline(h) PROVE TypeOK'
  BY <1>21
  DEF KeepOffline, torqueVars, subVars, cleanVars, InFlight, Marked, JobStates
<1>22. ASSUME NEW h \in Hosts, NoUsers(h) PROVE TypeOK'
  BY <1>22
  DEF NoUsers, CleanAt, Users, Visible, Rows, torqueVars, subVars, cleanVars,
        InFlight, Marked, JobStates
<1>23. ASSUME SetOnline PROVE TypeOK'
  BY <1>23
  DEF SetOnline, CleanAt, PbsnodesClear, Overlooked, torqueVars, subVars,
        cleanVars, InFlight, Marked, JobStates
<1>24. ASSUME QstatEmpty PROVE TypeOK'
  BY <1>24
  DEF QstatEmpty, CleanAt, torqueVars, subVars, cleanVars, InFlight, Marked,
        JobStates
<1>25. ASSUME ListSuspended PROVE TypeOK'
  BY <1>25
  DEF ListSuspended, CleanAt, SuspendedOn, Known, torqueVars, subVars,
        cleanVars, InFlight, Marked, JobStates
<1>26. ASSUME NEW j \in Jobs, Resume(j) PROVE TypeOK'
  BY <1>26
  DEF Resume, QsigResume, Overlooked, torqueVars, subVars, cleanVars, InFlight,
        Marked, JobStates
<1>27. ASSUME AllResumed PROVE TypeOK'
  BY <1>27
  DEF AllResumed, CleanAt, torqueVars, subVars, cleanVars, InFlight, Marked,
        JobStates
<1>28. ASSUME Wakeup PROVE TypeOK'
  BY <1>28
  DEF Wakeup, CleanAt, torqueVars, subVars, cleanVars, InFlight, Marked,
        JobStates
<1>29. ASSUME OnlineDone PROVE TypeOK'
  BY <1>29
  DEF OnlineDone, CleanAt, torqueVars, subVars, cleanVars, InFlight, Marked,
        JobStates
<1>30. ASSUME OnlineThrows PROVE TypeOK'
  BY <1>30
  DEF OnlineThrows, Unresumed, SuspendedOn, Known, torqueVars, subVars, cleanVars, InFlight,
        Marked, JobStates
<1>31. ASSUME CommitClean PROVE TypeOK'
  BY <1>31
  DEF CommitClean, ResetCleaner, torqueVars, subVars, cleanVars, InFlight,
        Marked, JobStates
<1>32. ASSUME NEW a \in Accounts, Expire(a) PROVE TypeOK'
  BY <1>32
  DEF Expire, torqueVars, subVars, cleanVars, InFlight, Marked, JobStates
<1>33. ASSUME NEW a \in Accounts, Login(a) PROVE TypeOK'
  BY <1>33
  DEF Login, torqueVars, subVars, cleanVars, InFlight, Marked, JobStates
<1>34. ASSUME NEW a \in Accounts, Logout(a) PROVE TypeOK'
  BY <1>34
  DEF Logout, torqueVars, subVars, cleanVars, InFlight, Marked, JobStates
<1>35. ASSUME NEW a \in Accounts, Vanish(a) PROVE TypeOK'
  BY <1>35
  DEF Vanish, torqueVars, subVars, cleanVars, InFlight, Marked, JobStates
<1>36. ASSUME NEW h \in Hosts, HostDown(h) PROVE TypeOK'
  BY <1>36
  DEF HostDown, torqueVars, subVars, cleanVars, InFlight, Marked, JobStates
<1>37. ASSUME NEW h \in Hosts, HostUp(h) PROVE TypeOK'
  BY <1>37
  DEF HostUp, torqueVars, subVars, cleanVars, InFlight, Marked, JobStates
<1>38. ASSUME Crash PROVE TypeOK'
  BY <1>38
  DEF Crash, ResetCleaner, Unresumed, SuspendedOn, Known, torqueVars, subVars, cleanVars,
        InFlight, Marked, JobStates
<1>39. ASSUME Batch PROVE TypeOK'
  BY <1>39
  DEF Batch, Qsub, Exit, Complete, Purge, Qdel, Dispatch, torqueVars, subVars,
        cleanVars, InFlight, Marked, JobStates
<1>40. CASE UNCHANGED vars
  BY <1>40
  DEF vars, torqueVars, subVars, cleanVars, torqueVars, subVars, cleanVars,
        InFlight, Marked, JobStates
<1>41. QED
  BY <1>1, <1>2, <1>3, <1>4, <1>5, <1>6, <1>7, <1>8, <1>9, <1>10, <1>11, <1>12,
        <1>13, <1>14, <1>15, <1>16, <1>17, <1>18, <1>19, <1>20, <1>21, <1>22,
        <1>23, <1>24, <1>25, <1>26, <1>27, <1>28, <1>29, <1>30, <1>31, <1>32,
        <1>33, <1>34, <1>35, <1>36, <1>37, <1>38, <1>39, <1>40
  DEF Next, Submission, Clean, Environment

(* Rows and sessions come from submissions that committed. *)
LEMMA NextRowsOfEnded == IInv /\ [Next]_vars => RowsOfEnded'
<1>. SUFFICES ASSUME IInv, [Next]_vars PROVE RowsOfEnded'
  OBVIOUS
<1>. USE DEF IInv, TypeOK, TorqueTypeOK, InFlight, Marked, JobStates,
        RowsOfEnded, CleanerOnLocked, Ended
<1>1. ASSUME NEW a \in Accounts, NEW h \in Hosts, ChooseMachine(a, h) PROVE RowsOfEnded'
  BY <1>1
  DEF ChooseMachine, At, torqueVars, subVars, cleanVars
<1>2. ASSUME NEW a \in Accounts, MarkOffline(a) PROVE RowsOfEnded'
  BY <1>2
  DEF MarkOffline, At, PbsnodesOffline, torqueVars, subVars, cleanVars
<1>3. ASSUME NEW a \in Accounts, ListJobs(a) PROVE RowsOfEnded'
  BY <1>3
  DEF ListJobs, At, Occupants, torqueVars, subVars, cleanVars
<1>4. ASSUME NEW a \in Accounts, NEW j \in Jobs, Suspend(a, j) PROVE RowsOfEnded'
  BY <1>4
  DEF Suspend, QsigSuspend, torqueVars, subVars, cleanVars
<1>5. ASSUME NEW a \in Accounts, PrepareThrows(a) PROVE RowsOfEnded'
  BY <1>5
  DEF PrepareThrows, torqueVars, subVars, cleanVars
<1>6. ASSUME NEW a \in Accounts, CopyScript(a) PROVE RowsOfEnded'
  BY <1>6
  DEF CopyScript, At, Reachable, torqueVars, subVars, cleanVars
<1>7. ASSUME NEW a \in Accounts, PrepareAccount(a) PROVE RowsOfEnded'
  BY <1>7
  DEF PrepareAccount, At, Reachable, torqueVars, subVars, cleanVars
<1>8. ASSUME NEW a \in Accounts, AccountThrows(a) PROVE RowsOfEnded'
  BY <1>8
  DEF AccountThrows, Reachable, torqueVars, subVars, cleanVars
<1>9. ASSUME NEW a \in Accounts, CommitSubmission(a) PROVE RowsOfEnded'
  BY <1>9
  DEF CommitSubmission, At, torqueVars, subVars, cleanVars
<1>10. ASSUME CleanStart PROVE RowsOfEnded'
  BY <1>10
  DEF CleanStart, CleanAt, Rows, torqueVars, subVars, cleanVars
<1>11. ASSUME NEW a \in Accounts, ClearPassword(a) PROVE RowsOfEnded'
  BY <1>11
  DEF ClearPassword, Reachable, torqueVars, subVars, cleanVars
<1>12. ASSUME NEW a \in Accounts, ClearThrows(a) PROVE RowsOfEnded'
  BY <1>12
  DEF ClearThrows, CleanAt, Reachable, torqueVars, subVars, cleanVars
<1>13. ASSUME FindDeletable PROVE RowsOfEnded'
  BY <1>13
  DEF FindDeletable, CleanAt, Visible, Rows, torqueVars, subVars, cleanVars
<1>14. ASSUME NEW a \in Accounts, PsVanished(a) PROVE RowsOfEnded'
  BY <1>14
  DEF PsVanished, Reachable, torqueVars, subVars, cleanVars
<1>15. ASSUME NEW a \in Accounts, PsBusy(a) PROVE RowsOfEnded'
  BY <1>15
  DEF PsBusy, torqueVars, subVars, cleanVars
<1>16. ASSUME NEW a \in Accounts, PsNoProcess(a) PROVE RowsOfEnded'
  BY <1>16
  DEF PsNoProcess, CleanAt, torqueVars, subVars, cleanVars
<1>17. ASSUME NEW a \in Accounts, PsThrows(a) PROVE RowsOfEnded'
  BY <1>17
  DEF PsThrows, CleanAt, torqueVars, subVars, cleanVars
<1>18. ASSUME UserDel PROVE RowsOfEnded'
  BY <1>18
  DEF UserDel, CleanAt, torqueVars, subVars, cleanVars
<1>19. ASSUME NothingDeleted PROVE RowsOfEnded'
  BY <1>19
  DEF NothingDeleted, CleanAt, torqueVars, subVars, cleanVars
<1>20. ASSUME ReadStates PROVE RowsOfEnded'
  BY <1>20
  DEF ReadStates, CleanAt, torqueVars, subVars, cleanVars
<1>21. ASSUME NEW h \in Hosts, KeepOffline(h) PROVE RowsOfEnded'
  BY <1>21
  DEF KeepOffline, torqueVars, subVars, cleanVars
<1>22. ASSUME NEW h \in Hosts, NoUsers(h) PROVE RowsOfEnded'
  BY <1>22
  DEF NoUsers, CleanAt, Users, Visible, Rows, torqueVars, subVars, cleanVars
<1>23. ASSUME SetOnline PROVE RowsOfEnded'
  BY <1>23
  DEF SetOnline, CleanAt, PbsnodesClear, Overlooked, torqueVars, subVars,
        cleanVars
<1>24. ASSUME QstatEmpty PROVE RowsOfEnded'
  BY <1>24
  DEF QstatEmpty, CleanAt, torqueVars, subVars, cleanVars
<1>25. ASSUME ListSuspended PROVE RowsOfEnded'
  BY <1>25
  DEF ListSuspended, CleanAt, SuspendedOn, Known, torqueVars, subVars,
        cleanVars
<1>26. ASSUME NEW j \in Jobs, Resume(j) PROVE RowsOfEnded'
  BY <1>26
  DEF Resume, QsigResume, Overlooked, torqueVars, subVars, cleanVars
<1>27. ASSUME AllResumed PROVE RowsOfEnded'
  BY <1>27
  DEF AllResumed, CleanAt, torqueVars, subVars, cleanVars
<1>28. ASSUME Wakeup PROVE RowsOfEnded'
  BY <1>28
  DEF Wakeup, CleanAt, torqueVars, subVars, cleanVars
<1>29. ASSUME OnlineDone PROVE RowsOfEnded'
  BY <1>29
  DEF OnlineDone, CleanAt, torqueVars, subVars, cleanVars
<1>30. ASSUME OnlineThrows PROVE RowsOfEnded'
  BY <1>30
  DEF OnlineThrows, torqueVars, subVars, cleanVars
<1>31. ASSUME CommitClean PROVE RowsOfEnded'
  BY <1>31
  DEF CommitClean, ResetCleaner, torqueVars, subVars, cleanVars
<1>32. ASSUME NEW a \in Accounts, Expire(a) PROVE RowsOfEnded'
  BY <1>32
  DEF Expire, torqueVars, subVars, cleanVars
<1>33. ASSUME NEW a \in Accounts, Login(a) PROVE RowsOfEnded'
  BY <1>33
  DEF Login, torqueVars, subVars, cleanVars
<1>34. ASSUME NEW a \in Accounts, Logout(a) PROVE RowsOfEnded'
  BY <1>34
  DEF Logout, torqueVars, subVars, cleanVars
<1>35. ASSUME NEW a \in Accounts, Vanish(a) PROVE RowsOfEnded'
  BY <1>35
  DEF Vanish, torqueVars, subVars, cleanVars
<1>36. ASSUME NEW h \in Hosts, HostDown(h) PROVE RowsOfEnded'
  BY <1>36
  DEF HostDown, torqueVars, subVars, cleanVars
<1>37. ASSUME NEW h \in Hosts, HostUp(h) PROVE RowsOfEnded'
  BY <1>37
  DEF HostUp, torqueVars, subVars, cleanVars
<1>38. ASSUME Crash PROVE RowsOfEnded'
  BY <1>38
  DEF Crash, ResetCleaner, torqueVars, subVars, cleanVars
<1>39. ASSUME Batch PROVE RowsOfEnded'
  BY <1>39
  DEF Batch, Qsub, Exit, Complete, Purge, Qdel, Dispatch, torqueVars, subVars,
        cleanVars
<1>40. CASE UNCHANGED vars
  BY <1>40
  DEF vars, torqueVars, subVars, cleanVars, torqueVars, subVars, cleanVars
<1>41. QED
  BY <1>1, <1>2, <1>3, <1>4, <1>5, <1>6, <1>7, <1>8, <1>9, <1>10, <1>11, <1>12,
        <1>13, <1>14, <1>15, <1>16, <1>17, <1>18, <1>19, <1>20, <1>21, <1>22,
        <1>23, <1>24, <1>25, <1>26, <1>27, <1>28, <1>29, <1>30, <1>31, <1>32,
        <1>33, <1>34, <1>35, <1>36, <1>37, <1>38, <1>39, <1>40
  DEF Next, Submission, Clean, Environment

(* A usable account keeps its row; so does one with a session. *)
LEMMA NextUsable == IInv /\ [Next]_vars => (UsableHasRow /\ LiveSessionTracked)'
<1>. SUFFICES ASSUME IInv, [Next]_vars PROVE (UsableHasRow /\ LiveSessionTracked)'
  OBVIOUS
<1>. USE DEF IInv, TypeOK, TorqueTypeOK, InFlight, Marked, JobStates,
        RowsOfEnded, UsableHasRow, LiveSessionTracked, CleanerOnLocked, Ended,
        Locked
<1>1. ASSUME NEW a \in Accounts, NEW h \in Hosts, ChooseMachine(a, h) PROVE (UsableHasRow /\ LiveSessionTracked)'
  BY <1>1
  DEF ChooseMachine, At, torqueVars, subVars, cleanVars
<1>2. ASSUME NEW a \in Accounts, MarkOffline(a) PROVE (UsableHasRow /\ LiveSessionTracked)'
  BY <1>2
  DEF MarkOffline, At, PbsnodesOffline, torqueVars, subVars, cleanVars
<1>3. ASSUME NEW a \in Accounts, ListJobs(a) PROVE (UsableHasRow /\ LiveSessionTracked)'
  BY <1>3
  DEF ListJobs, At, Occupants, torqueVars, subVars, cleanVars
<1>4. ASSUME NEW a \in Accounts, NEW j \in Jobs, Suspend(a, j) PROVE (UsableHasRow /\ LiveSessionTracked)'
  BY <1>4
  DEF Suspend, QsigSuspend, torqueVars, subVars, cleanVars
<1>5. ASSUME NEW a \in Accounts, PrepareThrows(a) PROVE (UsableHasRow /\ LiveSessionTracked)'
  BY <1>5
  DEF PrepareThrows, torqueVars, subVars, cleanVars
<1>6. ASSUME NEW a \in Accounts, CopyScript(a) PROVE (UsableHasRow /\ LiveSessionTracked)'
  BY <1>6
  DEF CopyScript, At, Reachable, torqueVars, subVars, cleanVars
<1>7. ASSUME NEW a \in Accounts, PrepareAccount(a) PROVE (UsableHasRow /\ LiveSessionTracked)'
  BY <1>7
  DEF PrepareAccount, At, Reachable, torqueVars, subVars, cleanVars
<1>8. ASSUME NEW a \in Accounts, AccountThrows(a) PROVE (UsableHasRow /\ LiveSessionTracked)'
  BY <1>8
  DEF AccountThrows, Reachable, torqueVars, subVars, cleanVars
<1>9. ASSUME NEW a \in Accounts, CommitSubmission(a) PROVE (UsableHasRow /\ LiveSessionTracked)'
  BY <1>9
  DEF CommitSubmission, At, torqueVars, subVars, cleanVars
<1>10. ASSUME CleanStart PROVE (UsableHasRow /\ LiveSessionTracked)'
  BY <1>10
  DEF CleanStart, CleanAt, Rows, torqueVars, subVars, cleanVars
<1>11. ASSUME NEW a \in Accounts, ClearPassword(a) PROVE (UsableHasRow /\ LiveSessionTracked)'
  BY <1>11
  DEF ClearPassword, Reachable, torqueVars, subVars, cleanVars
<1>12. ASSUME NEW a \in Accounts, ClearThrows(a) PROVE (UsableHasRow /\ LiveSessionTracked)'
  BY <1>12
  DEF ClearThrows, CleanAt, Reachable, torqueVars, subVars, cleanVars
<1>13. ASSUME FindDeletable PROVE (UsableHasRow /\ LiveSessionTracked)'
  BY <1>13
  DEF FindDeletable, CleanAt, Visible, Rows, torqueVars, subVars, cleanVars
<1>14. ASSUME NEW a \in Accounts, PsVanished(a) PROVE (UsableHasRow /\ LiveSessionTracked)'
  BY <1>14
  DEF PsVanished, Reachable, torqueVars, subVars, cleanVars
<1>15. ASSUME NEW a \in Accounts, PsBusy(a) PROVE (UsableHasRow /\ LiveSessionTracked)'
  BY <1>15
  DEF PsBusy, torqueVars, subVars, cleanVars
<1>16. ASSUME NEW a \in Accounts, PsNoProcess(a) PROVE (UsableHasRow /\ LiveSessionTracked)'
  BY <1>16
  DEF PsNoProcess, CleanAt, torqueVars, subVars, cleanVars
<1>17. ASSUME NEW a \in Accounts, PsThrows(a) PROVE (UsableHasRow /\ LiveSessionTracked)'
  BY <1>17
  DEF PsThrows, CleanAt, torqueVars, subVars, cleanVars
<1>18. ASSUME UserDel PROVE (UsableHasRow /\ LiveSessionTracked)'
  BY <1>18
  DEF UserDel, CleanAt, torqueVars, subVars, cleanVars
<1>19. ASSUME NothingDeleted PROVE (UsableHasRow /\ LiveSessionTracked)'
  BY <1>19
  DEF NothingDeleted, CleanAt, torqueVars, subVars, cleanVars
<1>20. ASSUME ReadStates PROVE (UsableHasRow /\ LiveSessionTracked)'
  BY <1>20
  DEF ReadStates, CleanAt, torqueVars, subVars, cleanVars
<1>21. ASSUME NEW h \in Hosts, KeepOffline(h) PROVE (UsableHasRow /\ LiveSessionTracked)'
  BY <1>21
  DEF KeepOffline, torqueVars, subVars, cleanVars
<1>22. ASSUME NEW h \in Hosts, NoUsers(h) PROVE (UsableHasRow /\ LiveSessionTracked)'
  BY <1>22
  DEF NoUsers, CleanAt, Users, Visible, Rows, torqueVars, subVars, cleanVars
<1>23. ASSUME SetOnline PROVE (UsableHasRow /\ LiveSessionTracked)'
  BY <1>23
  DEF SetOnline, CleanAt, PbsnodesClear, Overlooked, torqueVars, subVars,
        cleanVars
<1>24. ASSUME QstatEmpty PROVE (UsableHasRow /\ LiveSessionTracked)'
  BY <1>24
  DEF QstatEmpty, CleanAt, torqueVars, subVars, cleanVars
<1>25. ASSUME ListSuspended PROVE (UsableHasRow /\ LiveSessionTracked)'
  BY <1>25
  DEF ListSuspended, CleanAt, SuspendedOn, Known, torqueVars, subVars,
        cleanVars
<1>26. ASSUME NEW j \in Jobs, Resume(j) PROVE (UsableHasRow /\ LiveSessionTracked)'
  BY <1>26
  DEF Resume, QsigResume, Overlooked, torqueVars, subVars, cleanVars
<1>27. ASSUME AllResumed PROVE (UsableHasRow /\ LiveSessionTracked)'
  BY <1>27
  DEF AllResumed, CleanAt, torqueVars, subVars, cleanVars
<1>28. ASSUME Wakeup PROVE (UsableHasRow /\ LiveSessionTracked)'
  BY <1>28
  DEF Wakeup, CleanAt, torqueVars, subVars, cleanVars
<1>29. ASSUME OnlineDone PROVE (UsableHasRow /\ LiveSessionTracked)'
  BY <1>29
  DEF OnlineDone, CleanAt, torqueVars, subVars, cleanVars
<1>30. ASSUME OnlineThrows PROVE (UsableHasRow /\ LiveSessionTracked)'
  BY <1>30
  DEF OnlineThrows, torqueVars, subVars, cleanVars
<1>31. ASSUME CommitClean PROVE (UsableHasRow /\ LiveSessionTracked)'
  BY <1>31
  DEF CommitClean, ResetCleaner, torqueVars, subVars, cleanVars
<1>32. ASSUME NEW a \in Accounts, Expire(a) PROVE (UsableHasRow /\ LiveSessionTracked)'
  BY <1>32
  DEF Expire, torqueVars, subVars, cleanVars
<1>33. ASSUME NEW a \in Accounts, Login(a) PROVE (UsableHasRow /\ LiveSessionTracked)'
  BY <1>33
  DEF Login, torqueVars, subVars, cleanVars
<1>34. ASSUME NEW a \in Accounts, Logout(a) PROVE (UsableHasRow /\ LiveSessionTracked)'
  BY <1>34
  DEF Logout, torqueVars, subVars, cleanVars
<1>35. ASSUME NEW a \in Accounts, Vanish(a) PROVE (UsableHasRow /\ LiveSessionTracked)'
  BY <1>35
  DEF Vanish, torqueVars, subVars, cleanVars
<1>36. ASSUME NEW h \in Hosts, HostDown(h) PROVE (UsableHasRow /\ LiveSessionTracked)'
  BY <1>36
  DEF HostDown, torqueVars, subVars, cleanVars
<1>37. ASSUME NEW h \in Hosts, HostUp(h) PROVE (UsableHasRow /\ LiveSessionTracked)'
  BY <1>37
  DEF HostUp, torqueVars, subVars, cleanVars
<1>38. ASSUME Crash PROVE (UsableHasRow /\ LiveSessionTracked)'
  BY <1>38
  DEF Crash, ResetCleaner, torqueVars, subVars, cleanVars
<1>39. ASSUME Batch PROVE (UsableHasRow /\ LiveSessionTracked)'
  BY <1>39
  DEF Batch, Qsub, Exit, Complete, Purge, Qdel, Dispatch, torqueVars, subVars,
        cleanVars
<1>40. CASE UNCHANGED vars
  BY <1>40
  DEF vars, torqueVars, subVars, cleanVars, torqueVars, subVars, cleanVars
<1>41. QED
  BY <1>1, <1>2, <1>3, <1>4, <1>5, <1>6, <1>7, <1>8, <1>9, <1>10, <1>11, <1>12,
        <1>13, <1>14, <1>15, <1>16, <1>17, <1>18, <1>19, <1>20, <1>21, <1>22,
        <1>23, <1>24, <1>25, <1>26, <1>27, <1>28, <1>29, <1>30, <1>31, <1>32,
        <1>33, <1>34, <1>35, <1>36, <1>37, <1>38, <1>39, <1>40
  DEF Next, Submission, Clean, Environment

(* The cleaner deletes what it found locked and without processes. *)
LEMMA NextCleaner == IInv /\ [Next]_vars => CleanerOnLocked'
<1>. SUFFICES ASSUME IInv, [Next]_vars PROVE CleanerOnLocked'
  OBVIOUS
<1>. USE DEF IInv, TypeOK, TorqueTypeOK, InFlight, Marked, JobStates,
        RowsOfEnded, UsableHasRow, CleanerOnLocked, Ended, Locked
<1>1. ASSUME NEW a \in Accounts, NEW h \in Hosts, ChooseMachine(a, h) PROVE CleanerOnLocked'
  BY <1>1
  DEF ChooseMachine, At, torqueVars, subVars, cleanVars
<1>2. ASSUME NEW a \in Accounts, MarkOffline(a) PROVE CleanerOnLocked'
  BY <1>2
  DEF MarkOffline, At, PbsnodesOffline, torqueVars, subVars, cleanVars
<1>3. ASSUME NEW a \in Accounts, ListJobs(a) PROVE CleanerOnLocked'
  BY <1>3
  DEF ListJobs, At, Occupants, torqueVars, subVars, cleanVars
<1>4. ASSUME NEW a \in Accounts, NEW j \in Jobs, Suspend(a, j) PROVE CleanerOnLocked'
  BY <1>4
  DEF Suspend, QsigSuspend, torqueVars, subVars, cleanVars
<1>5. ASSUME NEW a \in Accounts, PrepareThrows(a) PROVE CleanerOnLocked'
  BY <1>5
  DEF PrepareThrows, torqueVars, subVars, cleanVars
<1>6. ASSUME NEW a \in Accounts, CopyScript(a) PROVE CleanerOnLocked'
  BY <1>6
  DEF CopyScript, At, Reachable, torqueVars, subVars, cleanVars
<1>7. ASSUME NEW a \in Accounts, PrepareAccount(a) PROVE CleanerOnLocked'
  BY <1>7
  DEF PrepareAccount, At, Reachable, torqueVars, subVars, cleanVars
<1>8. ASSUME NEW a \in Accounts, AccountThrows(a) PROVE CleanerOnLocked'
  BY <1>8
  DEF AccountThrows, Reachable, torqueVars, subVars, cleanVars
<1>9. ASSUME NEW a \in Accounts, CommitSubmission(a) PROVE CleanerOnLocked'
  BY <1>9
  DEF CommitSubmission, At, torqueVars, subVars, cleanVars
<1>10. ASSUME CleanStart PROVE CleanerOnLocked'
  BY <1>10
  DEF CleanStart, CleanAt, Rows, torqueVars, subVars, cleanVars
<1>11. ASSUME NEW a \in Accounts, ClearPassword(a) PROVE CleanerOnLocked'
  BY <1>11
  DEF ClearPassword, Reachable, torqueVars, subVars, cleanVars
<1>12. ASSUME NEW a \in Accounts, ClearThrows(a) PROVE CleanerOnLocked'
  BY <1>12
  DEF ClearThrows, CleanAt, Reachable, torqueVars, subVars, cleanVars
<1>13. ASSUME FindDeletable PROVE CleanerOnLocked'
  BY <1>13
  DEF FindDeletable, CleanAt, Visible, Rows, torqueVars, subVars, cleanVars
<1>14. ASSUME NEW a \in Accounts, PsVanished(a) PROVE CleanerOnLocked'
  BY <1>14
  DEF PsVanished, Reachable, torqueVars, subVars, cleanVars
<1>15. ASSUME NEW a \in Accounts, PsBusy(a) PROVE CleanerOnLocked'
  BY <1>15
  DEF PsBusy, torqueVars, subVars, cleanVars
<1>16. ASSUME NEW a \in Accounts, PsNoProcess(a) PROVE CleanerOnLocked'
  BY <1>16
  DEF PsNoProcess, CleanAt, torqueVars, subVars, cleanVars
<1>17. ASSUME NEW a \in Accounts, PsThrows(a) PROVE CleanerOnLocked'
  BY <1>17
  DEF PsThrows, CleanAt, torqueVars, subVars, cleanVars
<1>18. ASSUME UserDel PROVE CleanerOnLocked'
  BY <1>18
  DEF UserDel, CleanAt, torqueVars, subVars, cleanVars
<1>19. ASSUME NothingDeleted PROVE CleanerOnLocked'
  BY <1>19
  DEF NothingDeleted, CleanAt, torqueVars, subVars, cleanVars
<1>20. ASSUME ReadStates PROVE CleanerOnLocked'
  BY <1>20
  DEF ReadStates, CleanAt, torqueVars, subVars, cleanVars
<1>21. ASSUME NEW h \in Hosts, KeepOffline(h) PROVE CleanerOnLocked'
  BY <1>21
  DEF KeepOffline, torqueVars, subVars, cleanVars
<1>22. ASSUME NEW h \in Hosts, NoUsers(h) PROVE CleanerOnLocked'
  BY <1>22
  DEF NoUsers, CleanAt, Users, Visible, Rows, torqueVars, subVars, cleanVars
<1>23. ASSUME SetOnline PROVE CleanerOnLocked'
  BY <1>23
  DEF SetOnline, CleanAt, PbsnodesClear, Overlooked, torqueVars, subVars,
        cleanVars
<1>24. ASSUME QstatEmpty PROVE CleanerOnLocked'
  BY <1>24
  DEF QstatEmpty, CleanAt, torqueVars, subVars, cleanVars
<1>25. ASSUME ListSuspended PROVE CleanerOnLocked'
  BY <1>25
  DEF ListSuspended, CleanAt, SuspendedOn, Known, torqueVars, subVars,
        cleanVars
<1>26. ASSUME NEW j \in Jobs, Resume(j) PROVE CleanerOnLocked'
  BY <1>26
  DEF Resume, QsigResume, Overlooked, torqueVars, subVars, cleanVars
<1>27. ASSUME AllResumed PROVE CleanerOnLocked'
  BY <1>27
  DEF AllResumed, CleanAt, torqueVars, subVars, cleanVars
<1>28. ASSUME Wakeup PROVE CleanerOnLocked'
  BY <1>28
  DEF Wakeup, CleanAt, torqueVars, subVars, cleanVars
<1>29. ASSUME OnlineDone PROVE CleanerOnLocked'
  BY <1>29
  DEF OnlineDone, CleanAt, torqueVars, subVars, cleanVars
<1>30. ASSUME OnlineThrows PROVE CleanerOnLocked'
  BY <1>30
  DEF OnlineThrows, torqueVars, subVars, cleanVars
<1>31. ASSUME CommitClean PROVE CleanerOnLocked'
  BY <1>31
  DEF CommitClean, ResetCleaner, torqueVars, subVars, cleanVars
<1>32. ASSUME NEW a \in Accounts, Expire(a) PROVE CleanerOnLocked'
  BY <1>32
  DEF Expire, torqueVars, subVars, cleanVars
<1>33. ASSUME NEW a \in Accounts, Login(a) PROVE CleanerOnLocked'
  BY <1>33
  DEF Login, torqueVars, subVars, cleanVars
<1>34. ASSUME NEW a \in Accounts, Logout(a) PROVE CleanerOnLocked'
  BY <1>34
  DEF Logout, torqueVars, subVars, cleanVars
<1>35. ASSUME NEW a \in Accounts, Vanish(a) PROVE CleanerOnLocked'
  BY <1>35
  DEF Vanish, torqueVars, subVars, cleanVars
<1>36. ASSUME NEW h \in Hosts, HostDown(h) PROVE CleanerOnLocked'
  BY <1>36
  DEF HostDown, torqueVars, subVars, cleanVars
<1>37. ASSUME NEW h \in Hosts, HostUp(h) PROVE CleanerOnLocked'
  BY <1>37
  DEF HostUp, torqueVars, subVars, cleanVars
<1>38. ASSUME Crash PROVE CleanerOnLocked'
  BY <1>38
  DEF Crash, ResetCleaner, torqueVars, subVars, cleanVars
<1>39. ASSUME Batch PROVE CleanerOnLocked'
  BY <1>39
  DEF Batch, Qsub, Exit, Complete, Purge, Qdel, Dispatch, torqueVars, subVars,
        cleanVars
<1>40. CASE UNCHANGED vars
  BY <1>40
  DEF vars, torqueVars, subVars, cleanVars, torqueVars, subVars, cleanVars
<1>41. QED
  BY <1>1, <1>2, <1>3, <1>4, <1>5, <1>6, <1>7, <1>8, <1>9, <1>10, <1>11, <1>12,
        <1>13, <1>14, <1>15, <1>16, <1>17, <1>18, <1>19, <1>20, <1>21, <1>22,
        <1>23, <1>24, <1>25, <1>26, <1>27, <1>28, <1>29, <1>30, <1>31, <1>32,
        <1>33, <1>34, <1>35, <1>36, <1>37, <1>38, <1>39, <1>40
  DEF Next, Submission, Clean, Environment

(* A node goes online under a counted account at no step. *)
LEMMA NextOffline == IInv /\ [Next]_vars => (MarkedIsOffline /\ CountHolds)'
<1>. SUFFICES ASSUME IInv, [Next]_vars PROVE (MarkedIsOffline /\ CountHolds)'
  OBVIOUS
<1>. USE DEF IInv, TypeOK, TorqueTypeOK, InFlight, Marked, JobStates,
        RowsOfEnded, UsableHasRow, LiveSessionTracked, CleanerOnLocked,
        MarkedIsOffline, CountHolds, Ended, Locked, InUse
<1>1. ASSUME NEW a \in Accounts, NEW h \in Hosts, ChooseMachine(a, h) PROVE (MarkedIsOffline /\ CountHolds)'
  BY <1>1
  DEF ChooseMachine, At, torqueVars, subVars, cleanVars
<1>2. ASSUME NEW a \in Accounts, MarkOffline(a) PROVE (MarkedIsOffline /\ CountHolds)'
  BY <1>2
  DEF MarkOffline, At, PbsnodesOffline, torqueVars, subVars, cleanVars
<1>3. ASSUME NEW a \in Accounts, ListJobs(a) PROVE (MarkedIsOffline /\ CountHolds)'
  BY <1>3
  DEF ListJobs, At, Occupants, torqueVars, subVars, cleanVars
<1>4. ASSUME NEW a \in Accounts, NEW j \in Jobs, Suspend(a, j) PROVE (MarkedIsOffline /\ CountHolds)'
  BY <1>4
  DEF Suspend, QsigSuspend, torqueVars, subVars, cleanVars
<1>5. ASSUME NEW a \in Accounts, PrepareThrows(a) PROVE (MarkedIsOffline /\ CountHolds)'
  BY <1>5
  DEF PrepareThrows, torqueVars, subVars, cleanVars
<1>6. ASSUME NEW a \in Accounts, CopyScript(a) PROVE (MarkedIsOffline /\ CountHolds)'
  BY <1>6
  DEF CopyScript, At, Reachable, torqueVars, subVars, cleanVars
<1>7. ASSUME NEW a \in Accounts, PrepareAccount(a) PROVE (MarkedIsOffline /\ CountHolds)'
  BY <1>7
  DEF PrepareAccount, At, Reachable, torqueVars, subVars, cleanVars
<1>8. ASSUME NEW a \in Accounts, AccountThrows(a) PROVE (MarkedIsOffline /\ CountHolds)'
  BY <1>8
  DEF AccountThrows, Reachable, torqueVars, subVars, cleanVars
<1>9. ASSUME NEW a \in Accounts, CommitSubmission(a) PROVE (MarkedIsOffline /\ CountHolds)'
  BY <1>9
  DEF CommitSubmission, At, torqueVars, subVars, cleanVars
<1>10. ASSUME CleanStart PROVE (MarkedIsOffline /\ CountHolds)'
  BY <1>10
  DEF CleanStart, CleanAt, Rows, torqueVars, subVars, cleanVars
<1>11. ASSUME NEW a \in Accounts, ClearPassword(a) PROVE (MarkedIsOffline /\ CountHolds)'
  BY <1>11
  DEF ClearPassword, Reachable, torqueVars, subVars, cleanVars
<1>12. ASSUME NEW a \in Accounts, ClearThrows(a) PROVE (MarkedIsOffline /\ CountHolds)'
  BY <1>12
  DEF ClearThrows, CleanAt, Reachable, torqueVars, subVars, cleanVars
<1>13. ASSUME FindDeletable PROVE (MarkedIsOffline /\ CountHolds)'
  BY <1>13
  DEF FindDeletable, CleanAt, Visible, Rows, torqueVars, subVars, cleanVars
<1>14. ASSUME NEW a \in Accounts, PsVanished(a) PROVE (MarkedIsOffline /\ CountHolds)'
  BY <1>14
  DEF PsVanished, Reachable, torqueVars, subVars, cleanVars
<1>15. ASSUME NEW a \in Accounts, PsBusy(a) PROVE (MarkedIsOffline /\ CountHolds)'
  BY <1>15
  DEF PsBusy, torqueVars, subVars, cleanVars
<1>16. ASSUME NEW a \in Accounts, PsNoProcess(a) PROVE (MarkedIsOffline /\ CountHolds)'
  BY <1>16
  DEF PsNoProcess, CleanAt, torqueVars, subVars, cleanVars
<1>17. ASSUME NEW a \in Accounts, PsThrows(a) PROVE (MarkedIsOffline /\ CountHolds)'
  BY <1>17
  DEF PsThrows, CleanAt, torqueVars, subVars, cleanVars
<1>18. ASSUME UserDel PROVE (MarkedIsOffline /\ CountHolds)'
  BY <1>18
  DEF UserDel, CleanAt, torqueVars, subVars, cleanVars
<1>19. ASSUME NothingDeleted PROVE (MarkedIsOffline /\ CountHolds)'
  BY <1>19
  DEF NothingDeleted, CleanAt, torqueVars, subVars, cleanVars
<1>20. ASSUME ReadStates PROVE (MarkedIsOffline /\ CountHolds)'
  BY <1>20
  DEF ReadStates, CleanAt, torqueVars, subVars, cleanVars
<1>21. ASSUME NEW h \in Hosts, KeepOffline(h) PROVE (MarkedIsOffline /\ CountHolds)'
  BY <1>21
  DEF KeepOffline, torqueVars, subVars, cleanVars
<1>22. ASSUME NEW h \in Hosts, NoUsers(h) PROVE (MarkedIsOffline /\ CountHolds)'
  BY <1>22
  DEF NoUsers, CleanAt, Users, Visible, Rows, torqueVars, subVars, cleanVars
<1>23. ASSUME SetOnline PROVE (MarkedIsOffline /\ CountHolds)'
  BY <1>23
  DEF SetOnline, CleanAt, PbsnodesClear, Overlooked, torqueVars, subVars,
        cleanVars
<1>24. ASSUME QstatEmpty PROVE (MarkedIsOffline /\ CountHolds)'
  BY <1>24
  DEF QstatEmpty, CleanAt, torqueVars, subVars, cleanVars
<1>25. ASSUME ListSuspended PROVE (MarkedIsOffline /\ CountHolds)'
  BY <1>25
  DEF ListSuspended, CleanAt, SuspendedOn, Known, torqueVars, subVars,
        cleanVars
<1>26. ASSUME NEW j \in Jobs, Resume(j) PROVE (MarkedIsOffline /\ CountHolds)'
  BY <1>26
  DEF Resume, QsigResume, Overlooked, torqueVars, subVars, cleanVars
<1>27. ASSUME AllResumed PROVE (MarkedIsOffline /\ CountHolds)'
  BY <1>27
  DEF AllResumed, CleanAt, torqueVars, subVars, cleanVars
<1>28. ASSUME Wakeup PROVE (MarkedIsOffline /\ CountHolds)'
  BY <1>28
  DEF Wakeup, CleanAt, torqueVars, subVars, cleanVars
<1>29. ASSUME OnlineDone PROVE (MarkedIsOffline /\ CountHolds)'
  BY <1>29
  DEF OnlineDone, CleanAt, torqueVars, subVars, cleanVars
<1>30. ASSUME OnlineThrows PROVE (MarkedIsOffline /\ CountHolds)'
  BY <1>30
  DEF OnlineThrows, torqueVars, subVars, cleanVars
<1>31. ASSUME CommitClean PROVE (MarkedIsOffline /\ CountHolds)'
  BY <1>31
  DEF CommitClean, ResetCleaner, torqueVars, subVars, cleanVars
<1>32. ASSUME NEW a \in Accounts, Expire(a) PROVE (MarkedIsOffline /\ CountHolds)'
  BY <1>32
  DEF Expire, torqueVars, subVars, cleanVars
<1>33. ASSUME NEW a \in Accounts, Login(a) PROVE (MarkedIsOffline /\ CountHolds)'
  BY <1>33
  DEF Login, torqueVars, subVars, cleanVars
<1>34. ASSUME NEW a \in Accounts, Logout(a) PROVE (MarkedIsOffline /\ CountHolds)'
  BY <1>34
  DEF Logout, torqueVars, subVars, cleanVars
<1>35. ASSUME NEW a \in Accounts, Vanish(a) PROVE (MarkedIsOffline /\ CountHolds)'
  BY <1>35
  DEF Vanish, torqueVars, subVars, cleanVars
<1>36. ASSUME NEW h \in Hosts, HostDown(h) PROVE (MarkedIsOffline /\ CountHolds)'
  BY <1>36
  DEF HostDown, torqueVars, subVars, cleanVars
<1>37. ASSUME NEW h \in Hosts, HostUp(h) PROVE (MarkedIsOffline /\ CountHolds)'
  BY <1>37
  DEF HostUp, torqueVars, subVars, cleanVars
<1>38. ASSUME Crash PROVE (MarkedIsOffline /\ CountHolds)'
  BY <1>38
  DEF Crash, ResetCleaner, torqueVars, subVars, cleanVars
<1>39. ASSUME Batch PROVE (MarkedIsOffline /\ CountHolds)'
  BY <1>39
  DEF Batch, Qsub, Exit, Complete, Purge, Qdel, Dispatch, torqueVars, subVars,
        cleanVars
<1>40. CASE UNCHANGED vars
  BY <1>40
  DEF vars, torqueVars, subVars, cleanVars, torqueVars, subVars, cleanVars
<1>41. QED
  BY <1>1, <1>2, <1>3, <1>4, <1>5, <1>6, <1>7, <1>8, <1>9, <1>10, <1>11, <1>12,
        <1>13, <1>14, <1>15, <1>16, <1>17, <1>18, <1>19, <1>20, <1>21, <1>22,
        <1>23, <1>24, <1>25, <1>26, <1>27, <1>28, <1>29, <1>30, <1>31, <1>32,
        <1>33, <1>34, <1>35, <1>36, <1>37, <1>38, <1>39, <1>40
  DEF Next, Submission, Clean, Environment

(* No job starts or is resumed beside a counted account. *)
LEMMA NextRunning == IInv /\ [Next]_vars => RunningIsListed'
<1>. SUFFICES ASSUME IInv, [Next]_vars PROVE RunningIsListed'
  OBVIOUS
<1>. USE DEF IInv, TypeOK, TorqueTypeOK, InFlight, Marked, JobStates,
        RowsOfEnded, UsableHasRow, LiveSessionTracked, CleanerOnLocked,
        MarkedIsOffline, CountHolds, RunningIsListed, Ended, Locked, InUse,
        Running
<1>1. ASSUME NEW a \in Accounts, NEW h \in Hosts, ChooseMachine(a, h) PROVE RunningIsListed'
  BY <1>1
  DEF ChooseMachine, At, torqueVars, subVars, cleanVars
<1>2. ASSUME NEW a \in Accounts, MarkOffline(a) PROVE RunningIsListed'
  BY <1>2
  DEF MarkOffline, At, PbsnodesOffline, torqueVars, subVars, cleanVars
<1>3. ASSUME NEW a \in Accounts, ListJobs(a) PROVE RunningIsListed'
  BY <1>3
  DEF ListJobs, At, Occupants, torqueVars, subVars, cleanVars
<1>4. ASSUME NEW a \in Accounts, NEW j \in Jobs, Suspend(a, j) PROVE RunningIsListed'
  BY <1>4
  DEF Suspend, QsigSuspend, torqueVars, subVars, cleanVars
<1>5. ASSUME NEW a \in Accounts, PrepareThrows(a) PROVE RunningIsListed'
  BY <1>5
  DEF PrepareThrows, torqueVars, subVars, cleanVars
<1>6. ASSUME NEW a \in Accounts, CopyScript(a) PROVE RunningIsListed'
  BY <1>6
  DEF CopyScript, At, Reachable, torqueVars, subVars, cleanVars
<1>7. ASSUME NEW a \in Accounts, PrepareAccount(a) PROVE RunningIsListed'
  BY <1>7
  DEF PrepareAccount, At, Reachable, torqueVars, subVars, cleanVars
<1>8. ASSUME NEW a \in Accounts, AccountThrows(a) PROVE RunningIsListed'
  BY <1>8
  DEF AccountThrows, Reachable, torqueVars, subVars, cleanVars
<1>9. ASSUME NEW a \in Accounts, CommitSubmission(a) PROVE RunningIsListed'
  BY <1>9
  DEF CommitSubmission, At, torqueVars, subVars, cleanVars
<1>10. ASSUME CleanStart PROVE RunningIsListed'
  BY <1>10
  DEF CleanStart, CleanAt, Rows, torqueVars, subVars, cleanVars
<1>11. ASSUME NEW a \in Accounts, ClearPassword(a) PROVE RunningIsListed'
  BY <1>11
  DEF ClearPassword, Reachable, torqueVars, subVars, cleanVars
<1>12. ASSUME NEW a \in Accounts, ClearThrows(a) PROVE RunningIsListed'
  BY <1>12
  DEF ClearThrows, CleanAt, Reachable, torqueVars, subVars, cleanVars
<1>13. ASSUME FindDeletable PROVE RunningIsListed'
  BY <1>13
  DEF FindDeletable, CleanAt, Visible, Rows, torqueVars, subVars, cleanVars
<1>14. ASSUME NEW a \in Accounts, PsVanished(a) PROVE RunningIsListed'
  BY <1>14
  DEF PsVanished, Reachable, torqueVars, subVars, cleanVars
<1>15. ASSUME NEW a \in Accounts, PsBusy(a) PROVE RunningIsListed'
  BY <1>15
  DEF PsBusy, torqueVars, subVars, cleanVars
<1>16. ASSUME NEW a \in Accounts, PsNoProcess(a) PROVE RunningIsListed'
  BY <1>16
  DEF PsNoProcess, CleanAt, torqueVars, subVars, cleanVars
<1>17. ASSUME NEW a \in Accounts, PsThrows(a) PROVE RunningIsListed'
  BY <1>17
  DEF PsThrows, CleanAt, torqueVars, subVars, cleanVars
<1>18. ASSUME UserDel PROVE RunningIsListed'
  BY <1>18
  DEF UserDel, CleanAt, torqueVars, subVars, cleanVars
<1>19. ASSUME NothingDeleted PROVE RunningIsListed'
  BY <1>19
  DEF NothingDeleted, CleanAt, torqueVars, subVars, cleanVars
<1>20. ASSUME ReadStates PROVE RunningIsListed'
  BY <1>20
  DEF ReadStates, CleanAt, torqueVars, subVars, cleanVars
<1>21. ASSUME NEW h \in Hosts, KeepOffline(h) PROVE RunningIsListed'
  BY <1>21
  DEF KeepOffline, torqueVars, subVars, cleanVars
<1>22. ASSUME NEW h \in Hosts, NoUsers(h) PROVE RunningIsListed'
  BY <1>22
  DEF NoUsers, CleanAt, Users, Visible, Rows, torqueVars, subVars, cleanVars
<1>23. ASSUME SetOnline PROVE RunningIsListed'
  BY <1>23
  DEF SetOnline, CleanAt, PbsnodesClear, Overlooked, torqueVars, subVars,
        cleanVars
<1>24. ASSUME QstatEmpty PROVE RunningIsListed'
  BY <1>24
  DEF QstatEmpty, CleanAt, torqueVars, subVars, cleanVars
<1>25. ASSUME ListSuspended PROVE RunningIsListed'
  BY <1>25
  DEF ListSuspended, CleanAt, SuspendedOn, Known, torqueVars, subVars,
        cleanVars
<1>26. ASSUME NEW j \in Jobs, Resume(j) PROVE RunningIsListed'
  BY <1>26
  DEF Resume, QsigResume, Overlooked, torqueVars, subVars, cleanVars
<1>27. ASSUME AllResumed PROVE RunningIsListed'
  BY <1>27
  DEF AllResumed, CleanAt, torqueVars, subVars, cleanVars
<1>28. ASSUME Wakeup PROVE RunningIsListed'
  BY <1>28
  DEF Wakeup, CleanAt, torqueVars, subVars, cleanVars
<1>29. ASSUME OnlineDone PROVE RunningIsListed'
  BY <1>29
  DEF OnlineDone, CleanAt, torqueVars, subVars, cleanVars
<1>30. ASSUME OnlineThrows PROVE RunningIsListed'
  BY <1>30
  DEF OnlineThrows, torqueVars, subVars, cleanVars
<1>31. ASSUME CommitClean PROVE RunningIsListed'
  BY <1>31
  DEF CommitClean, ResetCleaner, torqueVars, subVars, cleanVars
<1>32. ASSUME NEW a \in Accounts, Expire(a) PROVE RunningIsListed'
  BY <1>32
  DEF Expire, torqueVars, subVars, cleanVars
<1>33. ASSUME NEW a \in Accounts, Login(a) PROVE RunningIsListed'
  BY <1>33
  DEF Login, torqueVars, subVars, cleanVars
<1>34. ASSUME NEW a \in Accounts, Logout(a) PROVE RunningIsListed'
  BY <1>34
  DEF Logout, torqueVars, subVars, cleanVars
<1>35. ASSUME NEW a \in Accounts, Vanish(a) PROVE RunningIsListed'
  BY <1>35
  DEF Vanish, torqueVars, subVars, cleanVars
<1>36. ASSUME NEW h \in Hosts, HostDown(h) PROVE RunningIsListed'
  BY <1>36
  DEF HostDown, torqueVars, subVars, cleanVars
<1>37. ASSUME NEW h \in Hosts, HostUp(h) PROVE RunningIsListed'
  BY <1>37
  DEF HostUp, torqueVars, subVars, cleanVars
<1>38. ASSUME Crash PROVE RunningIsListed'
  BY <1>38
  DEF Crash, ResetCleaner, torqueVars, subVars, cleanVars
<1>39. ASSUME Batch PROVE RunningIsListed'
  BY <1>39
  DEF Batch, Qsub, Exit, Complete, Purge, Qdel, Dispatch, torqueVars, subVars,
        cleanVars
<1>40. CASE UNCHANGED vars
  BY <1>40
  DEF vars, torqueVars, subVars, cleanVars, torqueVars, subVars, cleanVars
<1>41. QED
  BY <1>1, <1>2, <1>3, <1>4, <1>5, <1>6, <1>7, <1>8, <1>9, <1>10, <1>11, <1>12,
        <1>13, <1>14, <1>15, <1>16, <1>17, <1>18, <1>19, <1>20, <1>21, <1>22,
        <1>23, <1>24, <1>25, <1>26, <1>27, <1>28, <1>29, <1>30, <1>31, <1>32,
        <1>33, <1>34, <1>35, <1>36, <1>37, <1>38, <1>39, <1>40
  DEF Next, Submission, Clean, Environment

(* A suspended job is not forgotten, nor does one start that setOffline has *)
(* listed.                                                                  *)
LEMMA NextForgotten == IInv /\ [Next]_vars => (ListedIsThere /\ NoJobForgotten)'
<1>. SUFFICES ASSUME IInv, [Next]_vars PROVE (ListedIsThere /\ NoJobForgotten)'
  OBVIOUS
<1>. USE DEF IInv, TypeOK, TorqueTypeOK, InFlight, Marked, JobStates,
        MarkedIsOffline, RunningIsListed, ListedIsThere, NoJobForgotten,
        AboutToResume
<1>1. ASSUME NEW a \in Accounts, NEW h \in Hosts, ChooseMachine(a, h) PROVE (ListedIsThere /\ NoJobForgotten)'
  BY <1>1
  DEF ChooseMachine, At, torqueVars, subVars, cleanVars
<1>2. ASSUME NEW a \in Accounts, MarkOffline(a) PROVE (ListedIsThere /\ NoJobForgotten)'
  BY <1>2
  DEF MarkOffline, At, PbsnodesOffline, torqueVars, subVars, cleanVars
<1>3. ASSUME NEW a \in Accounts, ListJobs(a) PROVE (ListedIsThere /\ NoJobForgotten)'
  BY <1>3
  DEF ListJobs, At, Occupants, torqueVars, subVars, cleanVars
<1>4. ASSUME NEW a \in Accounts, NEW j \in Jobs, Suspend(a, j) PROVE (ListedIsThere /\ NoJobForgotten)'
  BY <1>4
  DEF Suspend, QsigSuspend, torqueVars, subVars, cleanVars
<1>5. ASSUME NEW a \in Accounts, PrepareThrows(a) PROVE (ListedIsThere /\ NoJobForgotten)'
  BY <1>5
  DEF PrepareThrows, torqueVars, subVars, cleanVars
<1>6. ASSUME NEW a \in Accounts, CopyScript(a) PROVE (ListedIsThere /\ NoJobForgotten)'
  BY <1>6
  DEF CopyScript, At, Reachable, torqueVars, subVars, cleanVars
<1>7. ASSUME NEW a \in Accounts, PrepareAccount(a) PROVE (ListedIsThere /\ NoJobForgotten)'
  BY <1>7
  DEF PrepareAccount, At, Reachable, torqueVars, subVars, cleanVars
<1>8. ASSUME NEW a \in Accounts, AccountThrows(a) PROVE (ListedIsThere /\ NoJobForgotten)'
  BY <1>8
  DEF AccountThrows, Reachable, torqueVars, subVars, cleanVars
<1>9. ASSUME NEW a \in Accounts, CommitSubmission(a) PROVE (ListedIsThere /\ NoJobForgotten)'
  BY <1>9
  DEF CommitSubmission, At, torqueVars, subVars, cleanVars
<1>10. ASSUME CleanStart PROVE (ListedIsThere /\ NoJobForgotten)'
  BY <1>10
  DEF CleanStart, CleanAt, Rows, torqueVars, subVars, cleanVars
<1>11. ASSUME NEW a \in Accounts, ClearPassword(a) PROVE (ListedIsThere /\ NoJobForgotten)'
  BY <1>11
  DEF ClearPassword, Reachable, torqueVars, subVars, cleanVars
<1>12. ASSUME NEW a \in Accounts, ClearThrows(a) PROVE (ListedIsThere /\ NoJobForgotten)'
  BY <1>12
  DEF ClearThrows, CleanAt, Reachable, torqueVars, subVars, cleanVars
<1>13. ASSUME FindDeletable PROVE (ListedIsThere /\ NoJobForgotten)'
  BY <1>13
  DEF FindDeletable, CleanAt, Visible, Rows, torqueVars, subVars, cleanVars
<1>14. ASSUME NEW a \in Accounts, PsVanished(a) PROVE (ListedIsThere /\ NoJobForgotten)'
  BY <1>14
  DEF PsVanished, Reachable, torqueVars, subVars, cleanVars
<1>15. ASSUME NEW a \in Accounts, PsBusy(a) PROVE (ListedIsThere /\ NoJobForgotten)'
  BY <1>15
  DEF PsBusy, torqueVars, subVars, cleanVars
<1>16. ASSUME NEW a \in Accounts, PsNoProcess(a) PROVE (ListedIsThere /\ NoJobForgotten)'
  BY <1>16
  DEF PsNoProcess, CleanAt, torqueVars, subVars, cleanVars
<1>17. ASSUME NEW a \in Accounts, PsThrows(a) PROVE (ListedIsThere /\ NoJobForgotten)'
  BY <1>17
  DEF PsThrows, CleanAt, torqueVars, subVars, cleanVars
<1>18. ASSUME UserDel PROVE (ListedIsThere /\ NoJobForgotten)'
  BY <1>18
  DEF UserDel, CleanAt, torqueVars, subVars, cleanVars
<1>19. ASSUME NothingDeleted PROVE (ListedIsThere /\ NoJobForgotten)'
  BY <1>19
  DEF NothingDeleted, CleanAt, torqueVars, subVars, cleanVars
<1>20. ASSUME ReadStates PROVE (ListedIsThere /\ NoJobForgotten)'
  BY <1>20
  DEF ReadStates, CleanAt, torqueVars, subVars, cleanVars
<1>21. ASSUME NEW h \in Hosts, KeepOffline(h) PROVE (ListedIsThere /\ NoJobForgotten)'
  BY <1>21
  DEF KeepOffline, torqueVars, subVars, cleanVars
<1>22. ASSUME NEW h \in Hosts, NoUsers(h) PROVE (ListedIsThere /\ NoJobForgotten)'
  BY <1>22
  DEF NoUsers, CleanAt, Users, Visible, Rows, torqueVars, subVars, cleanVars
<1>23. ASSUME SetOnline PROVE (ListedIsThere /\ NoJobForgotten)'
  BY <1>23
  DEF SetOnline, CleanAt, PbsnodesClear, Overlooked, torqueVars, subVars,
        cleanVars
<1>24. ASSUME QstatEmpty PROVE (ListedIsThere /\ NoJobForgotten)'
  BY <1>24
  DEF QstatEmpty, CleanAt, Known, torqueVars, subVars, cleanVars
<1>25. ASSUME ListSuspended PROVE (ListedIsThere /\ NoJobForgotten)'
  BY <1>25
  DEF ListSuspended, CleanAt, SuspendedOn, Known, torqueVars, subVars,
        cleanVars
<1>26. ASSUME NEW j \in Jobs, Resume(j) PROVE (ListedIsThere /\ NoJobForgotten)'
  BY <1>26
  DEF Resume, QsigResume, Overlooked, torqueVars, subVars, cleanVars
<1>27. ASSUME AllResumed PROVE (ListedIsThere /\ NoJobForgotten)'
  BY <1>27
  DEF AllResumed, CleanAt, torqueVars, subVars, cleanVars
<1>28. ASSUME Wakeup PROVE (ListedIsThere /\ NoJobForgotten)'
  BY <1>28
  DEF Wakeup, CleanAt, torqueVars, subVars, cleanVars
<1>29. ASSUME OnlineDone PROVE (ListedIsThere /\ NoJobForgotten)'
  BY <1>29
  DEF OnlineDone, CleanAt, torqueVars, subVars, cleanVars
<1>30. ASSUME OnlineThrows PROVE (ListedIsThere /\ NoJobForgotten)'
  BY <1>30
  DEF OnlineThrows, Unresumed, SuspendedOn, Known, torqueVars, subVars, cleanVars
<1>31. ASSUME CommitClean PROVE (ListedIsThere /\ NoJobForgotten)'
  BY <1>31
  DEF CommitClean, ResetCleaner, torqueVars, subVars, cleanVars
<1>32. ASSUME NEW a \in Accounts, Expire(a) PROVE (ListedIsThere /\ NoJobForgotten)'
  BY <1>32
  DEF Expire, torqueVars, subVars, cleanVars
<1>33. ASSUME NEW a \in Accounts, Login(a) PROVE (ListedIsThere /\ NoJobForgotten)'
  BY <1>33
  DEF Login, torqueVars, subVars, cleanVars
<1>34. ASSUME NEW a \in Accounts, Logout(a) PROVE (ListedIsThere /\ NoJobForgotten)'
  BY <1>34
  DEF Logout, torqueVars, subVars, cleanVars
<1>35. ASSUME NEW a \in Accounts, Vanish(a) PROVE (ListedIsThere /\ NoJobForgotten)'
  BY <1>35
  DEF Vanish, torqueVars, subVars, cleanVars
<1>36. ASSUME NEW h \in Hosts, HostDown(h) PROVE (ListedIsThere /\ NoJobForgotten)'
  BY <1>36
  DEF HostDown, torqueVars, subVars, cleanVars
<1>37. ASSUME NEW h \in Hosts, HostUp(h) PROVE (ListedIsThere /\ NoJobForgotten)'
  BY <1>37
  DEF HostUp, torqueVars, subVars, cleanVars
<1>38. ASSUME Crash PROVE (ListedIsThere /\ NoJobForgotten)'
  BY <1>38
  DEF Crash, ResetCleaner, Unresumed, SuspendedOn, Known, torqueVars, subVars, cleanVars
<1>39. ASSUME Batch PROVE (ListedIsThere /\ NoJobForgotten)'
  BY <1>39
  DEF Batch, Qsub, Exit, Complete, Purge, Qdel, Dispatch, torqueVars, subVars,
        cleanVars
<1>40. CASE UNCHANGED vars
  BY <1>40
  DEF vars, torqueVars, subVars, cleanVars, torqueVars, subVars, cleanVars
<1>41. QED
  BY <1>1, <1>2, <1>3, <1>4, <1>5, <1>6, <1>7, <1>8, <1>9, <1>10, <1>11, <1>12,
        <1>13, <1>14, <1>15, <1>16, <1>17, <1>18, <1>19, <1>20, <1>21, <1>22,
        <1>23, <1>24, <1>25, <1>26, <1>27, <1>28, <1>29, <1>30, <1>31, <1>32,
        <1>33, <1>34, <1>35, <1>36, <1>37, <1>38, <1>39, <1>40
  DEF Next, Submission, Clean, Environment

(* IInv is inductive. *)
LEMMA Inductive == IInv /\ [Next]_vars => IInv'
<1>. SUFFICES ASSUME IInv, [Next]_vars PROVE IInv'
  OBVIOUS
<1>1. TypeOK'
  BY NextTypeOK DEF IInv
<1>2. QED
  BY <1>1, NextRowsOfEnded, NextUsable, NextCleaner, NextOffline, NextRunning, NextForgotten DEF IInv

(* IInv holds in every reachable state. *)
THEOREM Invariant == Spec => []IInv
  BY InitIInv, Inductive, PTL DEF Spec

(* Every variable keeps its type. *)
THEOREM TypeCorrect == Spec => []TypeOK
  BY Invariant, PTL DEF IInv

(* userdel -r never meets a live session, and no row is given up under one. *)
THEOREM SessionsTracked == Spec => []LiveSessionTracked
  BY Invariant, PTL DEF IInv

(* No account in use loses its node to batch work, but by a count that did *)
(* not see it.                                                             *)
THEOREM NodesStayOffline == Spec => []HostStaysOffline
<1>1. IInv => HostStaysOffline
  BY DEF IInv, MarkedIsOffline, HostStaysOffline, Holders
<1>2. QED
  BY <1>1, Invariant, PTL

(* No batch job runs beside such an account. *)
THEOREM NoJobBesideUser == Spec => []NoBatchBesideUser
<1>1. IInv => NoBatchBesideUser
  <2>. SUFFICES ASSUME IInv, NEW a \in Holders PROVE Running(host[a]) = {}
    BY DEF NoBatchBesideUser
  <2>. USE DEF IInv, RunningIsListed, Holders, InUse, RowsOfEnded
  <2>1. pc[a] = "done"
    OBVIOUS
  <2>2. suspending[a] = {} /\ Running(host[a]) \subseteq suspending[a]
    BY <2>1
  <2>3. QED
    BY <2>2
<1>2. QED
  BY <1>1, Invariant, PTL

(* No suspended job is forgotten, but by a setOnline that was broken off   *)
(* or by a count that did not see the user.                                *)
THEOREM NoneForgotten == Spec => []NoJobForgotten
  BY Invariant, PTL DEF IInv

(* Every step of MachineEJB is a step of AccountLease or leaves the leases *)
(* and sessions as they are.                                               *)
LEMMA LeaseStep == IInv /\ [Next]_vars => [Lease!LeaseNext]_(Lease!leaseVars)
<1>. SUFFICES ASSUME IInv, [Next]_vars PROVE [Lease!LeaseNext]_(Lease!leaseVars)
  OBVIOUS
<1>. USE DEF IInv, TypeOK, RowsOfEnded, UsableHasRow, LiveSessionTracked,
        CleanerOnLocked, Ended, Locked, InFlight, Marked, LeaseOf, Lease!leaseVars,
        Lease!LeaseNext, Lease!Move
<1>1. ASSUME NEW a \in Accounts, NEW h \in Hosts, ChooseMachine(a, h) PROVE [Lease!LeaseNext]_(Lease!leaseVars)
  BY <1>1
  DEF ChooseMachine, At, torqueVars, subVars, cleanVars
<1>2. ASSUME NEW a \in Accounts, MarkOffline(a) PROVE [Lease!LeaseNext]_(Lease!leaseVars)
  BY <1>2
  DEF MarkOffline, At, PbsnodesOffline, torqueVars, subVars, cleanVars
<1>3. ASSUME NEW a \in Accounts, ListJobs(a) PROVE [Lease!LeaseNext]_(Lease!leaseVars)
  BY <1>3
  DEF ListJobs, At, Occupants, torqueVars, subVars, cleanVars
<1>4. ASSUME NEW a \in Accounts, NEW j \in Jobs, Suspend(a, j) PROVE [Lease!LeaseNext]_(Lease!leaseVars)
  BY <1>4
  DEF Suspend, QsigSuspend, torqueVars, subVars, cleanVars
<1>5. ASSUME NEW a \in Accounts, PrepareThrows(a) PROVE [Lease!LeaseNext]_(Lease!leaseVars)
  BY <1>5
  DEF PrepareThrows, torqueVars, subVars, cleanVars
<1>6. ASSUME NEW a \in Accounts, CopyScript(a) PROVE [Lease!LeaseNext]_(Lease!leaseVars)
  BY <1>6
  DEF CopyScript, At, Reachable, torqueVars, subVars, cleanVars
<1>7. ASSUME NEW a \in Accounts, PrepareAccount(a) PROVE [Lease!LeaseNext]_(Lease!leaseVars)
  BY <1>7
  DEF PrepareAccount, At, Reachable, torqueVars, subVars, cleanVars
<1>8. ASSUME NEW a \in Accounts, AccountThrows(a) PROVE [Lease!LeaseNext]_(Lease!leaseVars)
  <2>1. active' = active /\ \A b \in Accounts : LeaseOf(b)' = LeaseOf(b)
    BY <1>8 DEF AccountThrows, Reachable, torqueVars, subVars, cleanVars
  <2>2. QED
    BY <2>1
<1>9. ASSUME NEW a \in Accounts, CommitSubmission(a) PROVE [Lease!LeaseNext]_(Lease!leaseVars)
  <2>1. active' = active /\ \A b \in Accounts \ {a} : LeaseOf(b)' = LeaseOf(b)
    BY <1>9 DEF CommitSubmission, At, torqueVars, subVars, cleanVars
  <2>2. LeaseOf(a) = "free" /\ LeaseOf(a)' \in {"granted", "revoked"}
    BY <1>9 DEF CommitSubmission, At, torqueVars, subVars, cleanVars
  <2>3. CASE LeaseOf(a)' = "granted"
    BY <2>1, <2>2, <2>3 DEF Lease!Grant
  <2>4. CASE LeaseOf(a)' = "revoked"
    BY <2>1, <2>2, <2>4 DEF Lease!GrantLost
  <2>5. QED
    BY <2>2, <2>3, <2>4
<1>10. ASSUME CleanStart PROVE [Lease!LeaseNext]_(Lease!leaseVars)
  BY <1>10
  DEF CleanStart, CleanAt, Rows, torqueVars, subVars, cleanVars
<1>11. ASSUME NEW a \in Accounts, ClearPassword(a) PROVE [Lease!LeaseNext]_(Lease!leaseVars)
  BY <1>11
  DEF ClearPassword, Reachable, Lease!Revoke, torqueVars, subVars, cleanVars
<1>12. ASSUME NEW a \in Accounts, ClearThrows(a) PROVE [Lease!LeaseNext]_(Lease!leaseVars)
  BY <1>12
  DEF ClearThrows, CleanAt, Reachable, Lease!Revoke, torqueVars, subVars,
        cleanVars
<1>13. ASSUME FindDeletable PROVE [Lease!LeaseNext]_(Lease!leaseVars)
  BY <1>13
  DEF FindDeletable, CleanAt, Visible, Rows, torqueVars, subVars, cleanVars
<1>14. ASSUME NEW a \in Accounts, PsVanished(a) PROVE [Lease!LeaseNext]_(Lease!leaseVars)
  BY <1>14
  DEF PsVanished, Reachable, torqueVars, subVars, cleanVars
<1>15. ASSUME NEW a \in Accounts, PsBusy(a) PROVE [Lease!LeaseNext]_(Lease!leaseVars)
  BY <1>15
  DEF PsBusy, torqueVars, subVars, cleanVars
<1>16. ASSUME NEW a \in Accounts, PsNoProcess(a) PROVE [Lease!LeaseNext]_(Lease!leaseVars)
  BY <1>16
  DEF PsNoProcess, CleanAt, torqueVars, subVars, cleanVars
<1>17. ASSUME NEW a \in Accounts, PsThrows(a) PROVE [Lease!LeaseNext]_(Lease!leaseVars)
  BY <1>17
  DEF PsThrows, CleanAt, torqueVars, subVars, cleanVars
<1>18. ASSUME UserDel PROVE [Lease!LeaseNext]_(Lease!leaseVars)
  BY <1>18
  DEF UserDel, CleanAt, Lease!Lose, torqueVars, subVars, cleanVars
<1>19. ASSUME NothingDeleted PROVE [Lease!LeaseNext]_(Lease!leaseVars)
  BY <1>19
  DEF NothingDeleted, CleanAt, torqueVars, subVars, cleanVars
<1>20. ASSUME ReadStates PROVE [Lease!LeaseNext]_(Lease!leaseVars)
  BY <1>20
  DEF ReadStates, CleanAt, torqueVars, subVars, cleanVars
<1>21. ASSUME NEW h \in Hosts, KeepOffline(h) PROVE [Lease!LeaseNext]_(Lease!leaseVars)
  BY <1>21
  DEF KeepOffline, torqueVars, subVars, cleanVars
<1>22. ASSUME NEW h \in Hosts, NoUsers(h) PROVE [Lease!LeaseNext]_(Lease!leaseVars)
  BY <1>22
  DEF NoUsers, CleanAt, Users, Visible, Rows, torqueVars, subVars, cleanVars
<1>23. ASSUME SetOnline PROVE [Lease!LeaseNext]_(Lease!leaseVars)
  BY <1>23
  DEF SetOnline, CleanAt, PbsnodesClear, Overlooked, torqueVars, subVars,
        cleanVars
<1>24. ASSUME QstatEmpty PROVE [Lease!LeaseNext]_(Lease!leaseVars)
  BY <1>24
  DEF QstatEmpty, CleanAt, torqueVars, subVars, cleanVars
<1>25. ASSUME ListSuspended PROVE [Lease!LeaseNext]_(Lease!leaseVars)
  BY <1>25
  DEF ListSuspended, CleanAt, SuspendedOn, Known, torqueVars, subVars,
        cleanVars
<1>26. ASSUME NEW j \in Jobs, Resume(j) PROVE [Lease!LeaseNext]_(Lease!leaseVars)
  BY <1>26
  DEF Resume, QsigResume, Overlooked, torqueVars, subVars, cleanVars
<1>27. ASSUME AllResumed PROVE [Lease!LeaseNext]_(Lease!leaseVars)
  BY <1>27
  DEF AllResumed, CleanAt, torqueVars, subVars, cleanVars
<1>28. ASSUME Wakeup PROVE [Lease!LeaseNext]_(Lease!leaseVars)
  BY <1>28
  DEF Wakeup, CleanAt, torqueVars, subVars, cleanVars
<1>29. ASSUME OnlineDone PROVE [Lease!LeaseNext]_(Lease!leaseVars)
  BY <1>29
  DEF OnlineDone, CleanAt, torqueVars, subVars, cleanVars
<1>30. ASSUME OnlineThrows PROVE [Lease!LeaseNext]_(Lease!leaseVars)
  BY <1>30
  DEF OnlineThrows, torqueVars, subVars, cleanVars
<1>31. ASSUME CommitClean PROVE [Lease!LeaseNext]_(Lease!leaseVars)
  <2>. PICK S \in SUBSET Accounts : S = {b \in removed : LeaseOf(b) = "revoked"}
    OBVIOUS
  <2>1. \A b \in removed : LeaseOf(b) # "granted" /\ b \notin active
    OBVIOUS
  <2>2. active' = active /\ \A b \in Accounts \ S : LeaseOf(b)' = LeaseOf(b)
    BY <1>31, <2>1 DEF CommitClean, ResetCleaner, torqueVars, subVars, cleanVars
  <2>3. \A b \in S : LeaseOf(b)' = "reclaimed"
    BY <1>31 DEF CommitClean, torqueVars, subVars, cleanVars
  <2>4. Lease!Reclaim(S)
    BY <2>1, <2>2, <2>3 DEF Lease!Reclaim
  <2>5. QED
    BY <2>4
<1>32. ASSUME NEW a \in Accounts, Expire(a) PROVE [Lease!LeaseNext]_(Lease!leaseVars)
  BY <1>32
  DEF Expire, torqueVars, subVars, cleanVars
<1>33. ASSUME NEW a \in Accounts, Login(a) PROVE [Lease!LeaseNext]_(Lease!leaseVars)
  <2>1. active' = active \cup {a} /\ \A b \in Accounts : LeaseOf(b)' = LeaseOf(b)
    BY <1>33 DEF Login, torqueVars, subVars, cleanVars
  <2>2. LeaseOf(a) = "granted"
    BY <1>33 DEF Login
  <2>3. Lease!OpenSession(a)
    BY <2>1, <2>2 DEF Lease!OpenSession
  <2>4. QED
    BY <2>3
<1>34. ASSUME NEW a \in Accounts, Logout(a) PROVE [Lease!LeaseNext]_(Lease!leaseVars)
  <2>1. active' = active \ {a} /\ \A b \in Accounts : LeaseOf(b)' = LeaseOf(b)
    BY <1>34 DEF Logout, torqueVars, subVars, cleanVars
  <2>2. Lease!CloseSessions({a})
    BY <2>1 DEF Lease!CloseSessions
  <2>3. QED
    BY <2>2
<1>35. ASSUME NEW a \in Accounts, Vanish(a) PROVE [Lease!LeaseNext]_(Lease!leaseVars)
  <2>1. active' = active \ {a} /\ \A b \in Accounts \ {a} : LeaseOf(b)' = LeaseOf(b)
    BY <1>35 DEF Vanish, torqueVars, subVars, cleanVars
  <2>2. CASE LeaseOf(a) \in {"granted", "revoked"}
    <3>1. LeaseOf(a)' = "revoked"
      BY <1>35, <2>2 DEF Vanish, torqueVars, subVars, cleanVars
    <3>2. Lease!Lose(a)
      BY <2>1, <2>2, <3>1 DEF Lease!Lose
    <3>3. QED
      BY <3>2
  <2>3. CASE LeaseOf(a) \notin {"granted", "revoked"}
    <3>1. pc[a] # "done" \/ row[a] = "none"
      BY <2>3
    <3>2. a \notin active
      BY <3>1
    <3>3. LeaseOf(a)' = LeaseOf(a)
      BY <1>35, <3>1 DEF Vanish, torqueVars, subVars, cleanVars
    <3>4. QED
      BY <2>1, <3>2, <3>3
  <2>4. QED
    BY <2>2, <2>3
<1>36. ASSUME NEW h \in Hosts, HostDown(h) PROVE [Lease!LeaseNext]_(Lease!leaseVars)
  <2>. DEFINE S == {b \in Accounts : host[b] = h}
  <2>1. active' = active \ S /\ \A b \in Accounts : LeaseOf(b)' = LeaseOf(b)
    BY <1>36 DEF HostDown, torqueVars, subVars, cleanVars
  <2>2. Lease!CloseSessions(S)
    BY <2>1 DEF Lease!CloseSessions
  <2>3. QED
    BY <2>2
<1>37. ASSUME NEW h \in Hosts, HostUp(h) PROVE [Lease!LeaseNext]_(Lease!leaseVars)
  BY <1>37
  DEF HostUp, torqueVars, subVars, cleanVars
<1>38. ASSUME Crash PROVE [Lease!LeaseNext]_(Lease!leaseVars)
  BY <1>38
  DEF Crash, ResetCleaner, torqueVars, subVars, cleanVars
<1>39. ASSUME Batch PROVE [Lease!LeaseNext]_(Lease!leaseVars)
  BY <1>39
  DEF Batch, Qsub, Exit, Complete, Purge, Qdel, Dispatch, torqueVars, subVars,
        cleanVars
<1>40. CASE UNCHANGED vars
  BY <1>40
  DEF vars, torqueVars, subVars, cleanVars, torqueVars, subVars, cleanVars
<1>41. QED
  BY <1>1, <1>2, <1>3, <1>4, <1>5, <1>6, <1>7, <1>8, <1>9, <1>10, <1>11, <1>12,
        <1>13, <1>14, <1>15, <1>16, <1>17, <1>18, <1>19, <1>20, <1>21, <1>22,
        <1>23, <1>24, <1>25, <1>26, <1>27, <1>28, <1>29, <1>30, <1>31, <1>32,
        <1>33, <1>34, <1>35, <1>36, <1>37, <1>38, <1>39, <1>40
  DEF Next, Submission, Clean, Environment

(* MachineEJB implements AccountLease. *)
THEOREM LeaseImplemented == Spec => ImplementsLease
<1>1. Init => Lease!LeaseInit
  BY DEF Init, Lease!LeaseInit, LeaseOf
<1>2. QED
  BY <1>1, LeaseStep, Invariant, PTL DEF Spec, ImplementsLease, Lease!LeaseSpec
=============================================================================
