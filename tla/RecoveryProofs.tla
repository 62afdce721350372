--------------------------- MODULE RecoveryProofs ---------------------------
(* Proofs about Recovery, for every set of processes and every choice of the  *)
(* failures that may happen. *)
EXTENDS Recovery, TLAPS

----------------------------------------------------------------------------
(* The journal's operators.                                                  *)

(* A transition leads to a stage or is refused. *)
LEMMA AfterStage ==
    ASSUME NEW s, NEW e
    PROVE  After(s, e) \in DiskStage
BY DEF After, DiskStage, Stage, Unfinished

(* What a record, successful or not, can do to memory and disk. *)
LEMMA RecordEffect ==
    ASSUME TypeOK, NEW p \in Proc, NEW e,
           Recorded(p, e) \/ NotRecorded(p, e)
    PROVE  /\ \E s \in MemStage :
                /\ mem' = [mem EXCEPT ![p] = s]
                /\ s \in {mem[p], "finished", After(mem[p], e)}
           /\ disk' \in {disk, After(disk, e), "invalid"}
           /\ mem' \in [Proc -> MemStage]
           /\ disk' \in DiskStage
<1>1. After(mem[p], e) \in DiskStage /\ After(disk, e) \in DiskStage
  BY AfterStage
<1>2. mem \in [Proc -> MemStage] /\ mem[p] \in MemStage /\ disk \in DiskStage
  BY DEF TypeOK
<1>3. "finished" \in MemStage
  BY DEF MemStage, Stage
<1>4. CASE Recorded(p, e)
  BY <1>1, <1>2, <1>4 DEF Recorded, DiskStage, MemStage
<1>5. CASE NotRecorded(p, e)
  <2>1. CASE After(mem[p], e) = "invalid" /\ UNCHANGED <<mem, disk>>
    <3>1. mem' = [mem EXCEPT ![p] = mem[p]]
      BY <1>2, <2>1
    <3>2. QED BY <1>2, <2>1, <3>1
  <2>2. CASE /\ mem' = [mem EXCEPT ![p] = "finished"]
             /\ disk' \in {disk, After(disk, e), "invalid"}
    <3>1. "invalid" \in DiskStage
      BY DEF DiskStage
    <3>2. QED BY <1>1, <1>2, <1>3, <2>2, <3>1 DEF MemStage, Stage
  <2>3. QED BY <1>5, <2>1, <2>2 DEF NotRecorded
<1>6. QED BY <1>4, <1>5

(* Finish ends recovery in memory; on disk it writes at most the last line. *)
LEMMA FinishEffect ==
    ASSUME TypeOK, NEW p \in Proc, Finish(p)
    PROVE  /\ mem' = [mem EXCEPT ![p] = IF @ \in Unfinished THEN "finished" ELSE @]
           /\ mem'[p] \notin Active
           /\ \A q \in Proc \ {p} : mem'[q] = mem[q]
           /\ disk' \in {disk, "finished", "invalid"}
           /\ disk' = "finished" => disk \in Unfinished \cup {"finished"}
           /\ mem' \in [Proc -> MemStage]
           /\ disk' \in DiskStage
<1>1. \A s : After(s, "finished") = IF s \in Unfinished THEN "finished" ELSE "invalid"
  BY DEF After, Unfinished
<1>2. mem \in [Proc -> MemStage] /\ mem[p] \in MemStage /\ disk \in DiskStage
  BY DEF TypeOK
<1>3. Recorded(p, "finished") \/ NotRecorded(p, "finished")
  BY DEF Finish
<1>4. mem' \in [Proc -> MemStage] /\ disk' \in DiskStage
  BY <1>3, RecordEffect
<1>5. mem' = [mem EXCEPT ![p] = IF @ \in Unfinished THEN "finished" ELSE @]
  <2>1. CASE mem[p] \in Unfinished
    BY <1>1, <1>2, <1>3, <2>1 DEF Recorded, NotRecorded
  <2>2. CASE mem[p] \notin Unfinished
    BY <1>1, <1>2, <1>3, <2>2 DEF Recorded, NotRecorded
  <2>3. QED BY <2>1, <2>2
<1>6. /\ disk' \in {disk, "finished", "invalid"}
      /\ disk' = "finished" => disk \in Unfinished \cup {"finished"}
  BY <1>1, <1>3 DEF Recorded, NotRecorded
<1>7. mem'[p] \notin Active /\ \A q \in Proc \ {p} : mem'[q] = mem[q]
  BY <1>2, <1>5 DEF Active, Unfinished
<1>8. QED BY <1>4, <1>5, <1>6, <1>7

----------------------------------------------------------------------------
(* Type correctness.                                                         *)

(* Every step keeps the variables in their types. *)
LEMMA TypeNext ==
    ASSUME TypeOK, [Next]_vars
    PROVE  TypeOK'
<1> USE DEF TypeOK
<1> DEFINE FlagsOK == /\ enabled \in BOOLEAN /\ awaiting \in BOOLEAN
                      /\ held \in BOOLEAN /\ interrupted \in BOOLEAN
                      /\ timedOut \in BOOLEAN
<1>1. ASSUME NEW p \in Proc, TickDisabled(p) PROVE TypeOK'
  BY <1>1, FinishEffect DEF TickDisabled, Suspend, CancelPermit,
    FinishIfActive, journal, process, budget, thread, flags, recovery, Status,
    Ended, MemStage, DiskStage, Stage, Unfinished
<1>2. ASSUME NEW p \in Proc, TickResult(p) PROVE TypeOK'
  <2>1. FlagsOK'
    BY <1>2, Zenon DEF TickResult, SuspendHeld, CancelPermit, Goto, Finish,
      journal, process, budget, thread, flags, recovery
  <2>2. TypeOK'
    BY <1>2, <2>1, RecordEffect DEF TickResult, SuspendHeld, CancelPermit, Goto,
    journal, process, budget, thread, flags, recovery, Status, Ended,
    MemStage, DiskStage, Stage, Unfinished
  <2>3. QED BY <2>2
<1>3. ASSUME NEW p \in Proc, TickWorkerLost(p) PROVE TypeOK'
  BY <1>3, FinishEffect DEF TickWorkerLost, SuspendHeld, CancelPermit,
    journal, process, budget, thread, flags, recovery, Status, Ended,
    MemStage, DiskStage, Stage, Unfinished
<1>4. ASSUME NEW p \in Proc, TickTimeout(p) PROVE TypeOK'
  <2>1. FlagsOK'
    BY <1>4, Zenon DEF TickTimeout, SuspendHeld, CancelPermit, Goto, Finish,
      journal, process, budget, thread, flags, recovery
  <2>2. TypeOK'
    BY <1>4, <2>1, RecordEffect, FinishEffect DEF TickTimeout, CancelPermit, journal,
    process, budget, thread, flags, recovery, Status, Ended, MemStage,
    DiskStage, Stage, Unfinished
  <2>3. QED BY <2>2
<1>5. ASSUME NEW p \in Proc, TickFinish(p) PROVE TypeOK'
  BY <1>5, FinishEffect DEF TickFinish, journal, process, budget, thread,
    flags, recovery, Status, Ended, MemStage, DiskStage, Stage, Unfinished
<1>6. ASSUME NEW p \in Proc, TickRestartApplication(p) PROVE TypeOK'
  BY <1>6, RecordEffect DEF TickRestartApplication, Goto, journal, process,
    budget, thread, flags, recovery, Status, Ended, MemStage, DiskStage,
    Stage, Unfinished
<1>7. ASSUME NEW p \in Proc, TickRestartLogitech(p) PROVE TypeOK'
  <2>1. FlagsOK'
    BY <1>7, Zenon DEF TickRestartLogitech, SuspendHeld, CancelPermit, Goto, Finish,
      journal, process, budget, thread, flags, recovery
  <2>2. TypeOK'
    BY <1>7, <2>1, RecordEffect DEF TickRestartLogitech, Goto, journal, process,
    budget, thread, flags, recovery, Status, Ended, MemStage, DiskStage,
    Stage, Unfinished
  <2>3. QED BY <2>2
<1>8. ASSUME NEW p \in Proc, Signal(p) PROVE TypeOK'
  BY <1>8 DEF Signal, Goto, journal, process, budget, thread, flags, recovery,
    Status, Ended, MemStage, DiskStage, Stage, Unfinished
<1>9. ASSUME NEW p \in Proc, ParentExited(p) PROVE TypeOK'
  BY <1>9 DEF ParentExited, Goto, journal, process, budget, thread, flags,
    recovery, Status, Ended, MemStage, DiskStage, Stage, Unfinished
<1>10. ASSUME NEW p \in Proc, HandoffFails(p) PROVE TypeOK'
  BY <1>10 DEF HandoffFails, Goto, ReadForFailure, journal, process, budget,
    thread, flags, recovery, Status, Ended, MemStage, DiskStage, Stage,
    Unfinished
<1>11. ASSUME NEW p \in Proc, AppendFailure(p) PROVE TypeOK'
  BY <1>11, FinishEffect DEF AppendFailure, Goto, journal, process, budget,
    thread, flags, recovery, Status, Ended, MemStage, DiskStage, Stage,
    Unfinished
<1>12. ASSUME NEW p \in Proc, Acquire(p) PROVE TypeOK'
  BY <1>12 DEF Acquire, Goto, CannotStart, ReadForFailure, journal, process,
    budget, thread, flags, recovery, Status, Ended, MemStage, DiskStage,
    Stage, Unfinished
<1>13. ASSUME NEW p \in Proc, StartFails(p) PROVE TypeOK'
  BY <1>13 DEF StartFails, Goto, CannotStart, ReadForFailure, journal,
    process, budget, thread, flags, recovery, Status, Ended, MemStage,
    DiskStage, Stage, Unfinished
<1>14. ASSUME NEW p \in Proc, Load(p) PROVE TypeOK'
  BY <1>14 DEF Load, Goto, journal, process, budget, thread, flags, recovery,
    Status, Ended, MemStage, DiskStage, Stage, Unfinished
<1>15. ASSUME NEW p \in Proc, Decide(p) PROVE TypeOK'
  BY <1>15, RecordEffect, FinishEffect DEF Decide, Goto, journal, process,
    budget, thread, flags, recovery, Status, Ended, MemStage, DiskStage,
    Stage, Unfinished
<1>16. ASSUME NEW p \in Proc, Launch(p) PROVE TypeOK'
  BY <1>16 DEF Launch, Goto, journal, process, budget, thread, flags,
    recovery, Status, Ended, MemStage, DiskStage, Stage, Unfinished
<1>17. ASSUME NEW p \in Proc, ChildReady(p) PROVE TypeOK'
  BY <1>17 DEF ChildReady, Goto, journal, process, budget, thread, flags,
    recovery, Status, Ended, MemStage, DiskStage, Stage, Unfinished
<1>18. ASSUME NEW p \in Proc, ChildNotReady(p) PROVE TypeOK'
  BY <1>18 DEF ChildNotReady, journal, process, budget, thread, flags,
    recovery, Status, Ended, MemStage, DiskStage, Stage, Unfinished
<1>19. ASSUME NEW p \in Proc, GiveUp(p) PROVE TypeOK'
  BY <1>19, FinishEffect DEF GiveUp, Goto, journal, process, budget, thread,
    flags, recovery, Status, Ended, MemStage, DiskStage, Stage, Unfinished
<1>20. ASSUME NEW p \in Proc, Launched(p) PROVE TypeOK'
  BY <1>20, RecordEffect DEF Launched, Goto, journal, process, budget, thread,
    flags, recovery, Status, Ended, MemStage, DiskStage, Stage, Unfinished
<1>21. ASSUME NEW p \in Proc, Settle(p) PROVE TypeOK'
  <2>1. FlagsOK'
    BY <1>21, Zenon DEF Settle, SuspendHeld, CancelPermit, Goto, Finish,
      journal, process, budget, thread, flags, recovery
  <2>2. TypeOK'
    BY <1>21, <2>1, FinishEffect DEF Settle, Goto, journal, process, budget, thread,
    flags, recovery, Status, Ended, MemStage, DiskStage, Stage, Unfinished
  <2>3. QED BY <2>2
<1>22. ASSUME NEW p \in Proc, Drop(p) PROVE TypeOK'
  BY <1>22 DEF Drop, Goto, CancelPermit, journal, process, budget, thread,
    flags, recovery, Status, Ended, MemStage, DiskStage, Stage, Unfinished
<1>23. ASSUME NEW p \in Proc, DropWait(p) PROVE TypeOK'
  <2>1. FlagsOK'
    BY <1>23, Zenon DEF DropWait, SuspendHeld, CancelPermit, Goto, Finish,
      journal, process, budget, thread, flags, recovery
  <2>2. TypeOK'
    BY <1>23, <2>1, RecordEffect DEF DropWait, Goto, journal, process, budget, thread,
    flags, recovery, Status, Ended, MemStage, DiskStage, Stage, Unfinished
  <2>3. QED BY <2>2
<1>24. ASSUME NEW p \in Proc, DropEnd(p) PROVE TypeOK'
  BY <1>24, FinishEffect DEF DropEnd, Goto, FinishIfActive, journal, process,
    budget, thread, flags, recovery, Status, Ended, MemStage, DiskStage,
    Stage, Unfinished
<1>25. ASSUME NEW p \in Proc, ProcessExits(p) PROVE TypeOK'
  BY <1>25 DEF ProcessExits, Goto, EndProcess, journal, process, budget,
    thread, flags, recovery, Status, Ended, MemStage, DiskStage, Stage,
    Unfinished
<1>26. ASSUME NEW p \in Proc, Boot(p) PROVE TypeOK'
  BY <1>26 DEF Boot, Goto, journal, process, budget, thread, flags, recovery,
    Status, Ended, MemStage, DiskStage, Stage, Unfinished
<1>27. ASSUME NEW p \in Proc, Healthy(p) PROVE TypeOK'
  BY <1>27, FinishEffect DEF Healthy, CancelPermit, journal, process, budget,
    thread, flags, recovery, Status, Ended, MemStage, DiskStage, Stage,
    Unfinished
<1>28. ASSUME NEW p \in Proc, Disconnected(p) PROVE TypeOK'
  BY <1>28 DEF Disconnected, journal, process, budget, thread, flags,
    recovery, Status, Ended, MemStage, DiskStage, Stage, Unfinished
<1>29. ASSUME NEW p \in Proc, ReconnectStarted(p) PROVE TypeOK'
  <2>1. FlagsOK'
    BY <1>29, Zenon DEF ReconnectStarted, SuspendHeld, CancelPermit, Goto, Finish,
      journal, process, budget, thread, flags, recovery
  <2>2. TypeOK'
    BY <1>29, <2>1 DEF ReconnectStarted, journal, process, budget, thread, flags,
    recovery, Status, Ended, MemStage, DiskStage, Stage, Unfinished
  <2>3. QED BY <2>2
<1>30. ASSUME NEW p \in Proc, Reload(p) PROVE TypeOK'
  BY <1>30, FinishEffect DEF Reload, Suspend, CancelPermit, FinishIfActive,
    journal, process, budget, thread, flags, recovery, Status, Ended,
    MemStage, DiskStage, Stage, Unfinished
<1>31. ASSUME NEW p \in Proc, Exit(p) PROVE TypeOK'
  BY <1>31 DEF Exit, Goto, journal, process, budget, thread, flags, recovery,
    Status, Ended, MemStage, DiskStage, Stage, Unfinished
<1>32. ASSUME NEW p \in Proc, Crash(p) PROVE TypeOK'
  BY <1>32 DEF Crash, EndProcess, Goto, journal, process, budget, thread,
    flags, recovery, Status, Ended, MemStage, DiskStage, Stage, Unfinished
<1>33. CASE Worker
  BY <1>33 DEF Worker, WorkerSkips, WorkerCommits, WorkerCloses,
    WorkerAnswers, WorkerPanics, Working, journal, process, flags
<1>34. CASE UNCHANGED vars
  BY <1>34 DEF vars, journal, process, budget, thread, flags, recovery
<1>35. QED
  BY <1>1, <1>2, <1>3, <1>4, <1>5, <1>6, <1>7, <1>8, <1>9, <1>10, <1>11,
    <1>12, <1>13, <1>14, <1>15, <1>16, <1>17, <1>18, <1>19, <1>20, <1>21,
    <1>22, <1>23, <1>24, <1>25, <1>26, <1>27, <1>28, <1>29, <1>30, <1>31,
    <1>32, <1>33, <1>34 DEF Next, Tick, Proceed, Environment

(* The initial state is in the types. *)
LEMMA TypeInit == Init => TypeOK
<1>1. Init => /\ enabled \in BOOLEAN /\ awaiting \in BOOLEAN /\ held \in BOOLEAN
              /\ interrupted \in BOOLEAN /\ timedOut \in BOOLEAN
  BY Zenon DEF Init
<1>2. Init => /\ disk \in DiskStage /\ receipt \in Proc \cup {NoProc}
              /\ owner \in Proc \cup {NoProc} /\ ready \subseteq Proc
              /\ spawns \in Nat /\ kills \in Nat
  BY DEF Init, DiskStage, Stage, Unfinished
<1>3. Init => /\ status \in [Proc -> Status] /\ mem \in [Proc -> MemStage]
              /\ handoff \in [Proc -> {"none", "verified", "failed"}]
              /\ parent \in [Proc -> Proc \cup {NoProc}]
  BY DEF Init, Status, Ended, MemStage
<1>4. Init => /\ conn \in {"never", "up", "lost"}
              /\ permit \in {"open", "committed", "cancelled"}
              /\ worker \in {"none", "validating", "committed", "killed", "ok", "err", "lost"}
  BY DEF Init
<1>5. QED BY <1>1, <1>2, <1>3, <1>4 DEF TypeOK

(* Every variable of a recovery always has its type. *)
THEOREM TypeCorrect == Spec => []TypeOK
<1>1. Init => TypeOK
  BY TypeInit
<1>2. TypeOK /\ [Next]_vars => TypeOK'
  BY TypeNext
<1>3. QED BY <1>1, <1>2, PTL DEF Spec

----------------------------------------------------------------------------
(* The inductive invariant.                                                  *)

(* Every step keeps the inductive invariant. *)
LEMMA IInvNext ==
    ASSUME IInv, [Next]_vars
    PROVE  IInv'
<1>0. TypeOK'
  BY TypeNext DEF IInv
<1> USE ConstantsAssumption DEF IInv, TypeOK, journal, process, budget, thread,
                                flags, recovery, Status, Ended, Owning, Looping
<1> USE DEF WriteAhead, MutexInv, ChildInv, SpendingInv, CoherenceInv, WorkerInv, Late
<1>1. ASSUME NEW p \in Proc, TickDisabled(p) PROVE IInv'
  BY <1>1, <1>0, FinishEffect DEF TickDisabled, Suspend, CancelPermit,
    FinishIfActive, Active
<1>2. ASSUME NEW p \in Proc, TickResult(p) PROVE IInv'
  BY <1>2, <1>0, RecordEffect DEF TickResult, SuspendHeld, CancelPermit, Goto,
    Answered, Recorded, NotRecorded, After, Active
<1>3. ASSUME NEW p \in Proc, TickWorkerLost(p) PROVE IInv'
  BY <1>3, <1>0, FinishEffect DEF TickWorkerLost, SuspendHeld, CancelPermit,
    Answered, Active
<1>4. ASSUME NEW p \in Proc, TickTimeout(p) PROVE IInv'
  <2>1. owner = p /\ status[p] = "run" /\ UNCHANGED <<status, owner, handoff, parent>>
    BY <1>4 DEF TickTimeout
  <2>2. CASE permit = "committed"
    BY <1>4, <1>0, <2>1, <2>2, RecordEffect
    DEF TickTimeout, CancelPermit, Answered, Recorded, NotRecorded, After, Active
  <2>3. CASE permit # "committed"
    <3>1. permit' = "cancelled" /\ held' = FALSE /\ Finish(p)
      BY <1>4, <2>3 DEF TickTimeout, CancelPermit
    <3>2. QED BY <1>4, <1>0, <2>1, <3>1, FinishEffect DEF TickTimeout, Active
  <2>4. QED BY <2>2, <2>3
<1>5. ASSUME NEW p \in Proc, TickFinish(p) PROVE IInv'
  BY <1>5, <1>0, FinishEffect DEF TickFinish, Due, Active
<1>6. ASSUME NEW p \in Proc, TickRestartApplication(p) PROVE IInv'
  BY <1>6, <1>0, RecordEffect DEF TickRestartApplication, Goto, Due, Recorded,
    NotRecorded, After, Active
<1>7. ASSUME NEW p \in Proc, TickRestartLogitech(p) PROVE IInv'
  BY <1>7, <1>0, RecordEffect DEF TickRestartLogitech, Goto, Due, Recorded,
    NotRecorded, After, Active
<1>8. ASSUME NEW p \in Proc, Signal(p) PROVE IInv'
  BY <1>8, <1>0 DEF Signal, Goto
<1>9. ASSUME NEW p \in Proc, ParentExited(p) PROVE IInv'
  BY <1>9, <1>0 DEF ParentExited, Goto
<1>10. ASSUME NEW p \in Proc, HandoffFails(p) PROVE IInv'
  BY <1>10, <1>0 DEF HandoffFails, Goto, ReadForFailure, Alive
<1>11. ASSUME NEW p \in Proc, AppendFailure(p) PROVE IInv'
  BY <1>11, <1>0, FinishEffect DEF AppendFailure, Goto, Active
<1>12. ASSUME NEW p \in Proc, Acquire(p) PROVE IInv'
  BY <1>12, <1>0 DEF Acquire, Goto, CannotStart, ReadForFailure
<1>13. ASSUME NEW p \in Proc, StartFails(p) PROVE IInv'
  BY <1>13, <1>0 DEF StartFails, Goto, CannotStart, ReadForFailure
<1>14. ASSUME NEW p \in Proc, Load(p) PROVE IInv'
  BY <1>14, <1>0 DEF Load, Goto
<1>15. ASSUME NEW p \in Proc, Decide(p) PROVE IInv'
  BY <1>15, <1>0, RecordEffect, FinishEffect DEF Decide, Goto, Resumes,
    Recorded, NotRecorded, After, Active
<1>16. ASSUME NEW p \in Proc, Launch(p) PROVE IInv'
  BY <1>16, <1>0 DEF Launch, Goto
<1>17. ASSUME NEW p \in Proc, ChildReady(p) PROVE IInv'
  BY <1>17, <1>0 DEF ChildReady, Goto
<1>18. ASSUME NEW p \in Proc, ChildNotReady(p) PROVE IInv'
  BY <1>18, <1>0 DEF ChildNotReady, Alive
<1>19. ASSUME NEW p \in Proc, GiveUp(p) PROVE IInv'
  BY <1>19, <1>0, FinishEffect DEF GiveUp, Goto, Active
<1>20. ASSUME NEW p \in Proc, Launched(p) PROVE IInv'
  BY <1>20, <1>0, RecordEffect DEF Launched, Goto, Recorded, NotRecorded,
    After, Active
<1>21. ASSUME NEW p \in Proc, Settle(p) PROVE IInv'
  BY <1>21, <1>0, FinishEffect DEF Settle, Goto, Active
<1>22. ASSUME NEW p \in Proc, Drop(p) PROVE IInv'
  BY <1>22, <1>0 DEF Drop, Goto, CancelPermit
<1>23. ASSUME NEW p \in Proc, DropWait(p) PROVE IInv'
  BY <1>23, <1>0, RecordEffect DEF DropWait, Goto, Recorded, NotRecorded,
    After, Active
<1>24. ASSUME NEW p \in Proc, DropEnd(p) PROVE IInv'
  BY <1>24, <1>0, FinishEffect DEF DropEnd, Goto, FinishIfActive, Active
<1>25. ASSUME NEW p \in Proc, ProcessExits(p) PROVE IInv'
  BY <1>25, <1>0 DEF ProcessExits, Goto, EndProcess
<1>26. ASSUME NEW p \in Proc, Boot(p) PROVE IInv'
  BY <1>26, <1>0 DEF Boot, Goto
<1>27. ASSUME NEW p \in Proc, Healthy(p) PROVE IInv'
  BY <1>27, <1>0, FinishEffect DEF Healthy, CancelPermit, Active
<1>28. ASSUME NEW p \in Proc, Disconnected(p) PROVE IInv'
  BY <1>28, <1>0 DEF Disconnected
<1>29. ASSUME NEW p \in Proc, ReconnectStarted(p) PROVE IInv'
  BY <1>29, <1>0 DEF ReconnectStarted
<1>30. ASSUME NEW p \in Proc, Reload(p) PROVE IInv'
  BY <1>30, <1>0, FinishEffect DEF Reload, Suspend, CancelPermit,
    FinishIfActive, Active
<1>31. ASSUME NEW p \in Proc, Exit(p) PROVE IInv'
  BY <1>31, <1>0 DEF Exit, Goto
<1>32. ASSUME NEW p \in Proc, Crash(p) PROVE IInv'
  BY <1>32, <1>0 DEF Crash, EndProcess, Goto, Alive
<1>33. CASE Worker
  BY <1>33, <1>0 DEF Worker, WorkerSkips, WorkerCommits, WorkerCloses,
    WorkerAnswers, WorkerPanics, Working, Active
<1>34. CASE UNCHANGED vars
  BY <1>34, <1>0 DEF vars, Active
<1>35. QED
  BY <1>1, <1>2, <1>3, <1>4, <1>5, <1>6, <1>7, <1>8, <1>9, <1>10, <1>11,
    <1>12, <1>13, <1>14, <1>15, <1>16, <1>17, <1>18, <1>19, <1>20, <1>21,
    <1>22, <1>23, <1>24, <1>25, <1>26, <1>27, <1>28, <1>29, <1>30, <1>31,
    <1>32, <1>33, <1>34 DEF Next, Tick, Proceed, Environment

(* The initial state satisfies the inductive invariant. *)
LEMMA IInvInit == Init => IInv
<1> SUFFICES ASSUME Init PROVE IInv
  OBVIOUS
<1>1. WriteAhead /\ SpendingInv
  BY DEF Init, WriteAhead, SpendingInv
<1>2. MutexInv /\ CoherenceInv
  BY DEF Init, MutexInv, CoherenceInv, Looping, Owning
<1>3. ChildInv /\ WorkerInv
  BY ConstantsAssumption DEF Init, ChildInv, WorkerInv
<1>4. QED BY TypeInit, <1>1, <1>2, <1>3 DEF IInv

(* IInv is an invariant of the recovery. *)
THEOREM Inductive == Spec => []IInv
<1>1. Init => IInv
  BY IInvInit
<1>2. IInv /\ [Next]_vars => IInv'
  BY IInvNext
<1>3. QED BY <1>1, <1>2, PTL DEF Spec

(* The journal authorises every restart before it happens, in every run of    *)
(* any number of processes, with any crash and any failed write. *)
THEOREM WriteAheadHolds == Spec => []WriteAhead
<1>1. IInv => WriteAhead
  BY DEF IInv
<1>2. QED BY <1>1, Inductive, PTL

----------------------------------------------------------------------------
(* The implementation of the budget.                                         *)

(* A step starts a replacement, closes Logitech Gaming Software, or leaves    *)
(* the budget alone. *)
LEMMA BudgetStep ==
    ASSUME IInv, [Next]_vars
    PROVE  [Budget!Next]_(Budget!vars)
<1> USE DEF IInv, Budget!Next, Budget!vars, Budget!StartReplacement, Budget!CloseLogitech
<1>1. ASSUME NEW p \in Proc, Launch(p) PROVE [Budget!Next]_(Budget!vars)
  BY <1>1 DEF Launch, SpendingInv
<1>2. CASE WorkerCloses
  BY <1>2 DEF WorkerCloses, Working, WorkerInv
<1>3. CASE UNCHANGED budget
  BY <1>3 DEF budget
<1>4. ASSUME Next, ~WorkerCloses, \A p \in Proc : ~Launch(p) PROVE UNCHANGED budget
  <2>1. ASSUME NEW p \in Proc, Tick(p) PROVE UNCHANGED budget
    BY <2>1 DEF Tick, TickDisabled, TickResult, TickWorkerLost, TickTimeout,
       TickFinish, TickRestartApplication, TickRestartLogitech
  <2>2. ASSUME NEW p \in Proc, Proceed(p) PROVE UNCHANGED budget
    BY <1>4, <2>2 DEF Proceed, Signal, ParentExited, HandoffFails, AppendFailure,
       Acquire, StartFails, Load, Decide, ChildReady, ChildNotReady, GiveUp,
       Launched, Settle, Drop, DropWait, DropEnd, ProcessExits, EndProcess
  <2>3. ASSUME NEW p \in Proc, Environment(p) PROVE UNCHANGED budget
    BY <2>3 DEF Environment, Boot, Healthy, Disconnected, ReconnectStarted,
       Reload, Exit, Crash, EndProcess
  <2>4. CASE Worker
    BY <1>4, <2>4 DEF Worker, WorkerSkips, WorkerCommits, WorkerAnswers,
       WorkerPanics, Working, budget
  <2>5. QED BY <1>4, <2>1, <2>2, <2>3, <2>4 DEF Next
<1>5. CASE UNCHANGED vars
  BY <1>5 DEF vars, budget
<1>6. QED BY <1>1, <1>2, <1>3, <1>4, <1>5 DEF budget

(* Recovery implements its one-shot budget: whatever crashes and fails, the   *)
(* dashboard replaces itself at most once and closes Logitech Gaming Software *)
(* at most once, and only after the replacement. *)
THEOREM BudgetKept == Spec => BudgetSpec
<1>1. Init => Budget!Init
  BY DEF Init, Budget!Init
<1>2. IInv /\ [Next]_vars => [Budget!Next]_(Budget!vars)
  BY BudgetStep
<1>3. QED BY <1>1, <1>2, Inductive, PTL DEF Spec, BudgetSpec, Budget!Spec

----------------------------------------------------------------------------
(* Action properties.                                                        *)

(* The permit goes only to a restart that is journalled and still needed. *)
THEOREM CommitsOnlyWhenNeeded == Spec => CommitOnlyWhenNeeded
<1> DEFINE Needed == (permit # "committed" /\ permit' = "committed")
                       => disk = "lgsAttempt" /\ conn # "up"
<1>1. ASSUME IInv, [Next]_vars PROVE [Needed]_vars
  <2>1. ASSUME NEW p \in Proc, Tick(p) \/ Proceed(p) \/ Environment(p) PROVE Needed
    <3>1. CASE Tick(p)
      BY <3>1 DEF Tick, TickDisabled, TickResult, TickWorkerLost, TickTimeout,
         TickFinish, TickRestartApplication, TickRestartLogitech, Suspend,
         SuspendHeld, CancelPermit, recovery, thread
    <3>2. CASE Proceed(p)
      BY <3>2 DEF Proceed, Signal, ParentExited, HandoffFails, AppendFailure,
         Acquire, StartFails, Load, Decide, Launch, ChildReady, ChildNotReady,
         GiveUp, Launched, Settle, Drop, DropWait, DropEnd, ProcessExits,
         EndProcess, CancelPermit, recovery, thread
    <3>3. CASE Environment(p)
      BY <3>3 DEF Environment, Boot, Healthy, Disconnected, ReconnectStarted,
         Reload, Exit, Crash, EndProcess, Suspend, CancelPermit, recovery, thread
    <3>4. QED BY <2>1, <3>1, <3>2, <3>3
  <2>2. CASE Worker
    BY <1>1, <2>2 DEF Worker, WorkerSkips, WorkerCommits, WorkerCloses,
       WorkerAnswers, WorkerPanics, IInv, WorkerInv
  <2>3. CASE UNCHANGED vars
    BY <2>3
  <2>4. QED BY <1>1, <2>1, <2>2, <2>3 DEF Next
<1>2. QED BY <1>1, Inductive, PTL DEF Spec, CommitOnlyWhenNeeded

(* A recovery is resumed only after the parent has ended normally. *)
THEOREM ResumesAfterParent == Spec => ResumedAfterParent
<1> DEFINE Sound == (disk # "resumed" /\ disk' = "resumed")
                      => /\ owner # NoProc /\ parent[owner] # NoProc
                         /\ status[parent[owner]] = "exited"
<1>1. ASSUME IInv, [Next]_vars PROVE [Sound]_vars
  <2> USE DEF IInv
  <2>0. \A s, e : After(s, e) = "resumed" => e = "application-resumed"
    BY DEF After
  <2>1. ASSUME NEW p \in Proc, NEW e, e # "application-resumed",
               Recorded(p, e) \/ NotRecorded(p, e)
        PROVE  Sound
    BY <2>0, <2>1 DEF Recorded, NotRecorded
  <2>2. ASSUME NEW p \in Proc, Finish(p) PROVE Sound
    <3>1. disk' \in {disk, "finished", "invalid"}
      BY <1>1, <2>2, FinishEffect
    <3>2. QED BY <3>1
  <2>3. ASSUME NEW p \in Proc, Decide(p) PROVE Sound
    <3>1. CASE Resumes(p)
      <4>1. owner = p
        BY <1>1, <2>3 DEF Decide, MutexInv, Owning
      <4>2. parent[p] # NoProc /\ status[parent[p]] = "exited"
        BY <1>1, <3>1 DEF Resumes, ChildInv
      <4>3. owner # NoProc
        BY <4>1, ConstantsAssumption
      <4>4. QED BY <4>1, <4>2, <4>3
    <3>2. CASE ~Resumes(p)
      BY <2>2, <2>3, <3>2 DEF Decide
    <3>3. QED BY <3>1, <3>2
  <2>4. ASSUME NEW p \in Proc, Tick(p) PROVE Sound
    BY <2>1, <2>2, <2>4 DEF Tick, TickDisabled, TickResult, TickWorkerLost,
       TickTimeout, TickFinish, TickRestartApplication, TickRestartLogitech,
       Suspend, FinishIfActive
  <2>5. ASSUME NEW p \in Proc, Proceed(p) PROVE Sound
    BY <2>1, <2>2, <2>3, <2>5 DEF Proceed, Signal, ParentExited, HandoffFails,
       AppendFailure, Acquire, StartFails, CannotStart, ReadForFailure, Load,
       Launch, ChildReady, ChildNotReady, GiveUp, Launched, Settle, Drop,
       DropWait, DropEnd, FinishIfActive, ProcessExits, EndProcess, journal
  <2>6. ASSUME NEW p \in Proc, Environment(p) PROVE Sound
    BY <2>2, <2>6 DEF Environment, Boot, Healthy, Disconnected, ReconnectStarted,
       Reload, Exit, Crash, EndProcess, Suspend, FinishIfActive, journal
  <2>7. CASE Worker
    BY <2>7 DEF Worker, WorkerSkips, WorkerCommits, WorkerCloses, WorkerAnswers,
       WorkerPanics, Working, journal
  <2>8. QED BY <1>1, <2>4, <2>5, <2>6, <2>7 DEF Next, vars, journal
<1>2. QED BY <1>1, Inductive, PTL DEF Spec, ResumedAfterParent
=============================================================================
