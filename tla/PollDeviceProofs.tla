-------------------------- MODULE PollDeviceProofs --------------------------
(***************************************************************************)
(* Proofs about PollDevice, for every number of slots, every set of tasks  *)
(* and every set of request lengths and modes.  What the theorems rest on: *)
(*   BaseInv    types, exclusion of the copies, a call has its file open;  *)
(*   + UseCountExact, if nobody opens the node during my_init;             *)
(*   + OpInv, LoadInv, CopyInv, QueueInv, WakeupInv: no lost wakeup.       *)
(* Every step lemma has one step per action of PollDevice.                 *)
(***************************************************************************)
EXTENDS PollDeviceInv, FiniteSetTheorems, TLAPS

\* The initial state satisfies the base invariant.
LEMMA BaseInit == Init => BaseInv
  <1> SUFFICES ASSUME Init PROVE BaseInv
    OBVIOUS
  <1> USE NAssumption, InputAssumption DEF Init
  <1>1. DeviceType
    BY DEF DeviceType
  <1>2. SchedType
    BY DEF SchedType, Queues
  <1>3. ControlType /\ CopyType /\ TestType
    BY DEF ControlType, CopyType, TestType, PCs, Results
  <1>4. PollType
    BY DEF PollType
  <1>5. CopyExclusive /\ SessionInv
    BY DEF CopyExclusive, CopyLoop, SessionInv, InCall, Open, OpenTasks
  <1>6. QED
    BY <1>1, <1>2, <1>3, <1>4, <1>5 DEF BaseInv, TypeOK

\* Every action keeps the types; a copy step because only a task at a wrap
\* leaves an index at N.
LEMMA TypeStep == BaseInv /\ [Next]_vars => TypeOK'
  <1> SUFFICES ASSUME BaseInv, [Next]_vars PROVE TypeOK'
    OBVIOUS
  <1> USE NAssumption, InputAssumption, TaskAssumption
      DEF BaseInv, TypeOK, session, ring, queues, request, progress, test
  <1>1. CASE Insmod
    <2>1. DeviceType'
      BY <1>1 DEF Insmod, DeviceType
    <2>2. SchedType' /\ ControlType' /\ CopyType' /\ TestType' /\ PollType'
      BY <1>1 DEF Insmod, SchedType, ControlType, CopyType, TestType, PollType
    <2> QED
      BY <2>1, <2>2
  <1>2. CASE InitUseCount
    <2>1. DeviceType'
      BY <1>2 DEF InitUseCount, DeviceType
    <2>2. SchedType' /\ ControlType' /\ CopyType' /\ TestType' /\ PollType'
      BY <1>2 DEF InitUseCount, SchedType, ControlType, CopyType, TestType, PollType
    <2> QED
      BY <2>1, <2>2
  <1>3. CASE Rmmod
    <2>1. DeviceType'
      BY <1>3 DEF Rmmod, DeviceType
    <2>2. SchedType' /\ ControlType' /\ CopyType' /\ TestType' /\ PollType'
      BY <1>3 DEF Rmmod, SchedType, ControlType, CopyType, TestType, PollType
    <2> QED
      BY <2>1, <2>2
  <1>4. ASSUME NEW t \in Tasks, NEW mode \in Modes, DeviceOpen(t, mode) PROVE TypeOK'
    <2>1. DeviceType'
      BY <1>4 DEF DeviceOpen, DeviceType
    <2>2. ControlType'
      BY <1>4 DEF DeviceOpen, ControlType
    <2>3. SchedType' /\ CopyType' /\ TestType' /\ PollType'
      BY <1>4 DEF DeviceOpen, SchedType, CopyType, TestType, PollType
    <2> QED
      BY <2>1, <2>2, <2>3
  <1>5. ASSUME NEW t \in Tasks, DeviceRelease(t) PROVE TypeOK'
    <2>1. DeviceType'
      BY <1>5 DEF DeviceRelease, DeviceType
    <2>2. ControlType'
      BY <1>5 DEF DeviceRelease, ControlType
    <2>3. PollType'
      BY <1>5 DEF DeviceRelease, PollType
    <2>4. SchedType' /\ CopyType' /\ TestType'
      BY <1>5 DEF DeviceRelease, SchedType, CopyType, TestType
    <2> QED
      BY <2>1, <2>2, <2>3, <2>4
  <1>6. ASSUME NEW t \in Tasks, NEW n \in Lens, NEW o \in {"read", "write"},
           CallReadWrite(t, o, n)
        PROVE TypeOK'
    <2>1. ControlType'
      BY <1>6 DEF CallReadWrite, ControlType, Goto, PCs, RWTests
    <2>2. CopyType'
      BY <1>6 DEF CallReadWrite, CopyType
    <2>3. DeviceType' /\ SchedType' /\ TestType' /\ PollType'
      BY <1>6 DEF CallReadWrite, DeviceType, SchedType, TestType, PollType
    <2> QED
      BY <2>1, <2>2, <2>3
  <1>7. ASSUME NEW t \in Tasks, NEW ev \in SUBSET Events, CallPoll(t, ev) PROVE TypeOK'
    <2>1. ControlType'
      BY <1>7 DEF CallPoll, ControlType, Goto, PCs, PollPCs
    <2>2. PollType'
      BY <1>7 DEF CallPoll, PollType
    <2>3. DeviceType' /\ SchedType' /\ CopyType' /\ TestType'
      BY <1>7 DEF CallPoll, DeviceType, SchedType, CopyType, TestType
    <2> QED
      BY <2>1, <2>2, <2>3
  <1>8. ASSUME NEW t \in Tasks, ReturnToUser(t) PROVE TypeOK'
    <2>1. SchedType'
      BY <1>8 DEF ReturnToUser, SchedType
    <2>2. ControlType'
      BY <1>8 DEF ReturnToUser, ControlType, Goto, PCs, Results
    <2>3. CopyType'
      BY <1>8 DEF ReturnToUser, CopyType
    <2>4. PollType'
      BY <1>8 DEF ReturnToUser, PollType
    <2>5. DeviceType' /\ TestType'
      BY <1>8 DEF ReturnToUser, DeviceType, TestType
    <2> QED
      BY <2>1, <2>2, <2>3, <2>4, <2>5
  <1>9. ASSUME NEW t \in Tasks, Signal(t) PROVE TypeOK'
    <2>1. SchedType'
      BY <1>9 DEF Signal, SchedType
    <2>2. DeviceType' /\ ControlType' /\ CopyType' /\ TestType' /\ PollType'
      BY <1>9 DEF Signal, DeviceType, ControlType, CopyType, TestType, PollType
    <2> QED
      BY <2>1, <2>2
  <1>10. ASSUME NEW t \in Tasks, LoadFirst(t) PROVE TypeOK'
    <2>1. TestType'
      BY <1>10 DEF LoadFirst, TestType, DeviceType
    <2>2. DeviceType' /\ SchedType' /\ ControlType' /\ CopyType' /\ PollType'
      BY <1>10 DEF LoadFirst, DeviceType, SchedType, ControlType, CopyType, PollType
    <2> QED
      BY <2>1, <2>2
  <1>11. ASSUME NEW t \in Tasks, TryNonblock(t) PROVE TypeOK'
    <2>1. SchedType'
      BY <1>11 DEF TryNonblock, SchedType, OwnQueue, Queues
    <2>2. ControlType'
      BY <1>11 DEF TryNonblock, ControlType, Result, Goto, PCs, WaitLoop, Results
    <2>3. TestType'
      BY <1>11 DEF TryNonblock, TestType, TestDone
    <2>4. DeviceType' /\ CopyType' /\ PollType'
      BY <1>11 DEF TryNonblock, DeviceType, CopyType, PollType
    <2> QED
      BY <2>1, <2>2, <2>3, <2>4
  <1>12. ASSUME NEW t \in Tasks, CheckLoop(t) PROVE TypeOK'
    <2>1. SchedType'
      BY <1>12 DEF CheckLoop, SchedType, LeaveQueue
    <2>2. ControlType'
      BY <1>12 DEF CheckLoop, ControlType, Goto, PCs, WaitLoop
    <2>3. TestType'
      BY <1>12 DEF CheckLoop, TestType, TestDone
    <2>4. DeviceType' /\ CopyType' /\ PollType'
      BY <1>12 DEF CheckLoop, DeviceType, CopyType, PollType
    <2> QED
      BY <2>1, <2>2, <2>3, <2>4
  <1>13. ASSUME NEW t \in Tasks, PrepareToSleep(t) PROVE TypeOK'
    <2>1. SchedType'
      BY <1>13 DEF PrepareToSleep, SchedType
    <2>2. ControlType'
      BY <1>13 DEF PrepareToSleep, ControlType, Goto, PCs, RWTests
    <2>3. DeviceType' /\ CopyType' /\ TestType' /\ PollType'
      BY <1>13 DEF PrepareToSleep, DeviceType, CopyType, TestType, PollType
    <2> QED
      BY <2>1, <2>2, <2>3
  <1>14. ASSUME NEW t \in Tasks, Recheck(t) PROVE TypeOK'
    <2>1. SchedType'
      BY <1>14 DEF Recheck, SchedType, LeaveQueue
    <2>2. ControlType'
      BY <1>14 DEF Recheck, ControlType, Goto, PCs, WaitLoop
    <2>3. TestType'
      BY <1>14 DEF Recheck, TestType, TestDone
    <2>4. DeviceType' /\ CopyType' /\ PollType'
      BY <1>14 DEF Recheck, DeviceType, CopyType, PollType
    <2> QED
      BY <2>1, <2>2, <2>3, <2>4
  <1>15. ASSUME NEW t \in Tasks, Schedule(t) PROVE TypeOK'
    <2>1. SchedType'
      BY <1>15 DEF Schedule, SchedType, LeaveQueue
    <2>2. ControlType'
      BY <1>15 DEF Schedule, ControlType, Result, Goto, PCs, WaitLoop, Results
    <2>3. DeviceType' /\ CopyType' /\ TestType' /\ PollType'
      BY <1>15 DEF Schedule, DeviceType, CopyType, TestType, PollType
    <2> QED
      BY <2>1, <2>2, <2>3
  <1>16. ASSUME NEW t \in Tasks, Down(t) PROVE TypeOK'
    <2>1. DeviceType'
      BY <1>16 DEF Down, DeviceType
    <2>2. ControlType'
      BY <1>16 DEF Down, ControlType, Goto, PCs, CopyLoop
    <2>3. CopyType'
      BY <1>16 DEF Down, CopyType, DeviceType, Limit
    <2>4. SchedType' /\ TestType' /\ PollType'
      BY <1>16 DEF Down, SchedType, TestType, PollType
    <2> QED
      BY <2>1, <2>2, <2>3, <2>4
  <1>17. ASSUME NEW t \in Tasks, DownInterrupted(t) PROVE TypeOK'
    <2>1. ControlType'
      BY <1>17 DEF DownInterrupted, ControlType, Result, Goto, PCs, Results
    <2>2. DeviceType' /\ SchedType' /\ CopyType' /\ TestType' /\ PollType'
      BY <1>17 DEF DownInterrupted, DeviceType, SchedType, CopyType, TestType, PollType
    <2> QED
      BY <2>1, <2>2
  <1>18. ASSUME NEW t \in Tasks, ReadByte(t) PROVE TypeOK'
    <2>1. DeviceType'
      BY <1>18 DEF ReadByte, DeviceType, CopyExclusive, CopyLoop, PastEnd
    <2>2. ControlType'
      BY <1>18 DEF ReadByte, ControlType, Goto, PCs, CopyLoop
    <2>3. CopyType'
      BY <1>18 DEF ReadByte, CopyType
    <2>4. SchedType' /\ TestType' /\ PollType'
      BY <1>18 DEF ReadByte, SchedType, TestType, PollType
    <2> QED
      BY <2>1, <2>2, <2>3, <2>4
  <1>19. ASSUME NEW t \in Tasks, WriteByte(t) PROVE TypeOK'
    <2>1. DeviceType'
      BY <1>19 DEF WriteByte, DeviceType, CopyExclusive, CopyLoop, PastEnd
    <2>2. ControlType'
      BY <1>19 DEF WriteByte, ControlType, Goto, PCs, CopyLoop
    <2>3. CopyType'
      BY <1>19 DEF WriteByte, CopyType
    <2>4. SchedType' /\ TestType' /\ PollType'
      BY <1>19 DEF WriteByte, SchedType, TestType, PollType
    <2> QED
      BY <2>1, <2>2, <2>3, <2>4
  <1>20. ASSUME NEW t \in Tasks, WrapIndex(t) PROVE TypeOK'
    <2>1. DeviceType'
      BY <1>20 DEF WrapIndex, DeviceType
    <2>2. ControlType'
      BY <1>20 DEF WrapIndex, ControlType, Goto, PCs, CopyLoop
    <2>3. SchedType' /\ CopyType' /\ TestType' /\ PollType'
      BY <1>20 DEF WrapIndex, SchedType, CopyType, TestType, PollType
    <2> QED
      BY <2>1, <2>2, <2>3
  <1>21. ASSUME NEW t \in Tasks, Up(t) PROVE TypeOK'
    <2>1. DeviceType'
      BY <1>21 DEF Up, DeviceType
    <2>2. ControlType'
      BY <1>21 DEF Up, ControlType, Result, Goto, PCs, Results
    <2>3. CopyType'
      BY <1>21 DEF Up, CopyType
    <2>4. SchedType' /\ TestType' /\ PollType'
      BY <1>21 DEF Up, SchedType, TestType, PollType
    <2> QED
      BY <2>1, <2>2, <2>3, <2>4
  <1>22. ASSUME NEW t \in Tasks, WakeOther(t) PROVE TypeOK'
    <2>1. SchedType'
      BY <1>22 DEF WakeOther, SchedType, WakeUpInterruptible
    <2>2. ControlType'
      BY <1>22 DEF WakeOther, ControlType, Result, Goto, PCs, Results
    <2>3. DeviceType' /\ CopyType' /\ TestType' /\ PollType'
      BY <1>22 DEF WakeOther, DeviceType, CopyType, TestType, PollType
    <2> QED
      BY <2>1, <2>2, <2>3
  <1>23. ASSUME NEW t \in Tasks, PollWait(t) PROVE TypeOK'
    <2>1. SchedType'
      BY <1>23 DEF PollWait, SchedType
    <2>2. ControlType'
      BY <1>23 DEF PollWait, ControlType, Goto, PCs, PollPCs
    <2>3. PollType'
      BY <1>23 DEF PollWait, PollType
    <2>4. DeviceType' /\ CopyType' /\ TestType'
      BY <1>23 DEF PollWait, DeviceType, CopyType, TestType
    <2> QED
      BY <2>1, <2>2, <2>3, <2>4
  <1>24. ASSUME NEW t \in Tasks, PollLock(t) PROVE TypeOK'
    <2>1. DeviceType'
      BY <1>24 DEF PollLock, DeviceType
    <2>2. ControlType'
      BY <1>24 DEF PollLock, ControlType, Goto, PCs, PollPCs, PollTests
    <2>3. SchedType' /\ CopyType' /\ TestType' /\ PollType'
      BY <1>24 DEF PollLock, SchedType, CopyType, TestType, PollType
    <2> QED
      BY <2>1, <2>2, <2>3
  <1>25. ASSUME NEW t \in Tasks, PollIn(t) PROVE TypeOK'
    <2>1. ControlType'
      BY <1>25 DEF PollIn, ControlType, Goto, PCs, PollPCs, PollTests
    <2>2. TestType'
      BY <1>25 DEF PollIn, TestType, TestDone
    <2>3. PollType'
      BY <1>25 DEF PollIn, PollType, Events
    <2>4. DeviceType' /\ SchedType' /\ CopyType'
      BY <1>25 DEF PollIn, DeviceType, SchedType, CopyType
    <2> QED
      BY <2>1, <2>2, <2>3, <2>4
  <1>26. ASSUME NEW t \in Tasks, PollOut(t) PROVE TypeOK'
    <2>1. DeviceType'
      BY <1>26 DEF PollOut, DeviceType
    <2>2. ControlType'
      BY <1>26 DEF PollOut, ControlType, Goto, PCs, PollPCs
    <2>3. TestType'
      BY <1>26 DEF PollOut, TestType, TestDone
    <2>4. PollType'
      BY <1>26 DEF PollOut, PollType, Events
    <2>5. SchedType' /\ CopyType'
      BY <1>26 DEF PollOut, SchedType, CopyType
    <2> QED
      BY <2>1, <2>2, <2>3, <2>4, <2>5
  <1>27. ASSUME NEW t \in Tasks, PollDecide(t) PROVE TypeOK'
    <2>1. SchedType'
      BY <1>27 DEF PollDecide, SchedType, LeaveQueue
    <2>2. ControlType'
      BY <1>27 DEF PollDecide, ControlType, Result, Goto, PCs, PollPCs, Results
    <2>3. PollType'
      BY <1>27 DEF PollDecide, PollType
    <2>4. DeviceType' /\ CopyType' /\ TestType'
      BY <1>27 DEF PollDecide, DeviceType, CopyType, TestType
    <2> QED
      BY <2>1, <2>2, <2>3, <2>4
  <1>28. ASSUME NEW t \in Tasks, PollWoken(t) PROVE TypeOK'
    <2>1. ControlType'
      BY <1>28 DEF PollWoken, ControlType, Goto, PCs, PollPCs
    <2>2. DeviceType' /\ SchedType' /\ CopyType' /\ TestType' /\ PollType'
      BY <1>28 DEF PollWoken, DeviceType, SchedType, CopyType, TestType, PollType
    <2> QED
      BY <2>1, <2>2
  <1>29. ASSUME NEW t \in Tasks, PollTimeout(t) PROVE TypeOK'
    <2>1. ControlType'
      BY <1>29 DEF PollTimeout, ControlType, Goto, PCs, PollPCs, Results
    <2>2. DeviceType' /\ SchedType' /\ CopyType' /\ TestType' /\ PollType'
      BY <1>29 DEF PollTimeout, DeviceType, SchedType, CopyType, TestType, PollType
    <2> QED
      BY <2>1, <2>2
  <1>30. CASE UNCHANGED vars
    BY <1>30 DEF vars, DeviceType, SchedType, ControlType, CopyType, TestType, PollType
  <1> QED
    BY <1>1, <1>2, <1>3, <1>4, <1>5, <1>6, <1>7, <1>8, <1>9, <1>10, <1>11, <1>12, <1>13,
       <1>14, <1>15, <1>16, <1>17, <1>18, <1>19, <1>20, <1>21, <1>22, <1>23, <1>24,
       <1>25, <1>26, <1>27, <1>28, <1>29, <1>30
       DEF Next, UserStep, KernelStep, DeviceRead, DeviceWrite, ReadWriteStep,
           DevicePoll, PollCore

\* A step of a task that stays outside the copy loops and leaves the ring and
\* the semaphore alone.
OutsideCopy(t) ==
    /\ pc[t] \notin CopyLoop /\ pc'[t] \notin CopyLoop
    /\ \A u \in Tasks \ {t} : pc'[u] = pc[u] /\ op'[u] = op[u]
    /\ UNCHANGED <<ir, iw, sema>>

\* Such a step cannot disturb the exclusion of the copies.
LEMMA OutsideCopyStep ==
  ASSUME CopyExclusive, NEW t \in Tasks, OutsideCopy(t) PROVE CopyExclusive'
  <1>1. \A u \in Tasks : pc'[u] \in CopyLoop <=> u # t /\ pc[u] \in CopyLoop
    BY DEF OutsideCopy
  <1>2. \A u \in Tasks : pc[u] \in CopyLoop => u # t /\ pc'[u] = pc[u] /\ op'[u] = op[u]
    BY DEF OutsideCopy
  <1> QED
    BY <1>1, <1>2 DEF CopyExclusive, OutsideCopy, CopyLoop

\* The semaphore keeps the copies apart, action by action.
LEMMA CopyExclusiveStep == BaseInv /\ [Next]_vars => CopyExclusive'
  <1> SUFFICES ASSUME BaseInv, [Next]_vars PROVE CopyExclusive'
    OBVIOUS
  <1> USE NAssumption DEF BaseInv, TypeOK, ControlType, session, ring, queues, request, test
  <1>1. CASE Insmod
    <2>1. \A u \in Tasks : pc'[u] = pc[u] /\ pc[u] \notin CopyLoop
      BY <1>1 DEF Insmod, SessionInv, OpenTasks, InCall, CopyLoop
    <2> QED
      BY <1>1, <2>1 DEF Insmod, CopyExclusive
  <1>2. CASE InitUseCount
    BY <1>2 DEF InitUseCount, CopyExclusive
  <1>3. CASE Rmmod
    BY <1>3 DEF Rmmod, CopyExclusive
  <1>4. ASSUME NEW t \in Tasks, NEW mode \in Modes, DeviceOpen(t, mode) PROVE CopyExclusive'
    BY <1>4 DEF DeviceOpen, CopyExclusive
  <1>5. ASSUME NEW t \in Tasks, DeviceRelease(t) PROVE CopyExclusive'
    <2>1. OutsideCopy(t)
      BY <1>5 DEF DeviceRelease, OutsideCopy, CopyLoop
    <2> QED
      BY <2>1, OutsideCopyStep
  <1>6. ASSUME NEW t \in Tasks, NEW n \in Lens, NEW o \in {"read", "write"},
           CallReadWrite(t, o, n)
        PROVE CopyExclusive'
    <2>1. OutsideCopy(t)
      BY <1>6 DEF CallReadWrite, OutsideCopy, CopyLoop, Goto
    <2> QED
      BY <2>1, OutsideCopyStep
  <1>7. ASSUME NEW t \in Tasks, NEW ev \in SUBSET Events, CallPoll(t, ev)
        PROVE CopyExclusive'
    <2>1. OutsideCopy(t)
      BY <1>7 DEF CallPoll, OutsideCopy, CopyLoop, Goto
    <2> QED
      BY <2>1, OutsideCopyStep
  <1>8. ASSUME NEW t \in Tasks, ReturnToUser(t) PROVE CopyExclusive'
    <2>1. OutsideCopy(t)
      BY <1>8 DEF ReturnToUser, OutsideCopy, CopyLoop, Goto
    <2> QED
      BY <2>1, OutsideCopyStep
  <1>9. ASSUME NEW t \in Tasks, Signal(t) PROVE CopyExclusive'
    BY <1>9 DEF Signal, CopyExclusive
  <1>10. ASSUME NEW t \in Tasks, LoadFirst(t) PROVE CopyExclusive'
    <2>1. OutsideCopy(t)
      BY <1>10 DEF LoadFirst, OutsideCopy, CopyLoop, Tests, RWTests, PollTests
    <2> QED
      BY <2>1, OutsideCopyStep
  <1>11. ASSUME NEW t \in Tasks, TryNonblock(t) PROVE CopyExclusive'
    <2>1. OutsideCopy(t)
      BY <1>11 DEF TryNonblock, OutsideCopy, CopyLoop, TestDone, Result, Goto
    <2> QED
      BY <2>1, OutsideCopyStep
  <1>12. ASSUME NEW t \in Tasks, CheckLoop(t) PROVE CopyExclusive'
    <2>1. OutsideCopy(t)
      BY <1>12 DEF CheckLoop, OutsideCopy, CopyLoop, TestDone, Goto
    <2> QED
      BY <2>1, OutsideCopyStep
  <1>13. ASSUME NEW t \in Tasks, PrepareToSleep(t) PROVE CopyExclusive'
    <2>1. OutsideCopy(t)
      BY <1>13 DEF PrepareToSleep, OutsideCopy, CopyLoop, Goto
    <2> QED
      BY <2>1, OutsideCopyStep
  <1>14. ASSUME NEW t \in Tasks, Recheck(t) PROVE CopyExclusive'
    <2>1. OutsideCopy(t)
      BY <1>14 DEF Recheck, OutsideCopy, CopyLoop, TestDone, Goto
    <2> QED
      BY <2>1, OutsideCopyStep
  <1>15. ASSUME NEW t \in Tasks, Schedule(t) PROVE CopyExclusive'
    <2>1. OutsideCopy(t)
      BY <1>15 DEF Schedule, OutsideCopy, CopyLoop, Result, Goto
    <2> QED
      BY <2>1, OutsideCopyStep
  <1>16. ASSUME NEW t \in Tasks, Down(t) PROVE CopyExclusive'
    BY <1>16 DEF Down, CopyExclusive, CopyLoop, Goto
  <1>17. ASSUME NEW t \in Tasks, DownInterrupted(t) PROVE CopyExclusive'
    <2>1. OutsideCopy(t)
      BY <1>17 DEF DownInterrupted, OutsideCopy, CopyLoop, Result, Goto
    <2> QED
      BY <2>1, OutsideCopyStep
  <1>18. ASSUME NEW t \in Tasks, ReadByte(t) PROVE CopyExclusive'
    BY <1>18 DEF ReadByte, CopyExclusive, CopyLoop, Goto, DeviceType, PastEnd
  <1>19. ASSUME NEW t \in Tasks, WriteByte(t) PROVE CopyExclusive'
    BY <1>19 DEF WriteByte, CopyExclusive, CopyLoop, Goto, DeviceType, PastEnd
  <1>20. ASSUME NEW t \in Tasks, WrapIndex(t) PROVE CopyExclusive'
    BY <1>20 DEF WrapIndex, CopyExclusive, CopyLoop, Goto
  <1>21. ASSUME NEW t \in Tasks, Up(t) PROVE CopyExclusive'
    BY <1>21 DEF Up, CopyExclusive, CopyLoop, Goto, Result
  <1>22. ASSUME NEW t \in Tasks, WakeOther(t) PROVE CopyExclusive'
    <2>1. OutsideCopy(t)
      BY <1>22 DEF WakeOther, OutsideCopy, CopyLoop, Result, Goto
    <2> QED
      BY <2>1, OutsideCopyStep
  <1>23. ASSUME NEW t \in Tasks, PollWait(t) PROVE CopyExclusive'
    <2>1. OutsideCopy(t)
      BY <1>23 DEF PollWait, OutsideCopy, CopyLoop, Goto
    <2> QED
      BY <2>1, OutsideCopyStep
  <1>24. ASSUME NEW t \in Tasks, PollLock(t) PROVE CopyExclusive'
    <2>1. OutsideCopy(t)
      BY <1>24 DEF PollLock, OutsideCopy, CopyLoop, Goto
    <2> QED
      BY <2>1, OutsideCopyStep
  <1>25. ASSUME NEW t \in Tasks, PollIn(t) PROVE CopyExclusive'
    <2>1. OutsideCopy(t)
      BY <1>25 DEF PollIn, OutsideCopy, CopyLoop, TestDone, Goto
    <2> QED
      BY <2>1, OutsideCopyStep
  <1>26. ASSUME NEW t \in Tasks, PollOut(t) PROVE CopyExclusive'
    <2>1. OutsideCopy(t)
      BY <1>26 DEF PollOut, OutsideCopy, CopyLoop, TestDone, Goto
    <2> QED
      BY <2>1, OutsideCopyStep
  <1>27. ASSUME NEW t \in Tasks, PollDecide(t) PROVE CopyExclusive'
    <2>1. OutsideCopy(t)
      BY <1>27 DEF PollDecide, OutsideCopy, CopyLoop, Result, Goto
    <2> QED
      BY <2>1, OutsideCopyStep
  <1>28. ASSUME NEW t \in Tasks, PollWoken(t) PROVE CopyExclusive'
    <2>1. OutsideCopy(t)
      BY <1>28 DEF PollWoken, OutsideCopy, CopyLoop, Goto
    <2> QED
      BY <2>1, OutsideCopyStep
  <1>29. ASSUME NEW t \in Tasks, PollTimeout(t) PROVE CopyExclusive'
    <2>1. OutsideCopy(t)
      BY <1>29 DEF PollTimeout, OutsideCopy, CopyLoop, Goto
    <2> QED
      BY <2>1, OutsideCopyStep
  <1>30. CASE UNCHANGED vars
    BY <1>30 DEF vars, CopyExclusive
  <1> QED
    BY <1>1, <1>2, <1>3, <1>4, <1>5, <1>6, <1>7, <1>8, <1>9, <1>10, <1>11, <1>12, <1>13,
       <1>14, <1>15, <1>16, <1>17, <1>18, <1>19, <1>20, <1>21, <1>22, <1>23, <1>24,
       <1>25, <1>26, <1>27, <1>28, <1>29, <1>30
       DEF Next, UserStep, KernelStep, DeviceRead, DeviceWrite, ReadWriteStep,
           DevicePoll, PollCore

\* A step in a task's call: its file is open, and stays open.
StepInCall(t) ==
    /\ Open(t)
    /\ \A u \in Tasks \ {t} : pc'[u] = pc[u]
    /\ UNCHANGED <<module, use_count, file>>

\* Such a step keeps the sessions.
LEMMA StepInCallStep ==
  ASSUME SessionInv, NEW t \in Tasks, StepInCall(t) PROVE SessionInv'
  BY DEF StepInCall, SessionInv, InCall, Open, OpenTasks

\* Which steps those are: all but the module's, opens and releases.
LEMMA CallSteps ==
  ASSUME BaseInv, NEW t \in Tasks,
         \/ \E o \in {"read", "write"}, n \in Lens : CallReadWrite(t, o, n)
         \/ \E ev \in SUBSET Events : CallPoll(t, ev)
         \/ KernelStep(t) \/ ReturnToUser(t) \/ Signal(t) \/ PollTimeout(t)
  PROVE  StepInCall(t)
  <1> USE DEF BaseInv, TypeOK, ControlType, session
  <1>1. ASSUME NEW n \in Lens, NEW o \in {"read", "write"}, CallReadWrite(t, o, n)
        PROVE StepInCall(t)
    BY <1>1 DEF CallReadWrite, StepInCall, Goto
  <1>2. ASSUME NEW ev \in SUBSET Events, CallPoll(t, ev) PROVE StepInCall(t)
    BY <1>2 DEF CallPoll, StepInCall, Goto
  <1>3. ASSUME ReturnToUser(t) PROVE StepInCall(t)
    BY <1>3 DEF ReturnToUser, StepInCall, SessionInv, InCall, Goto
  <1>4. ASSUME Signal(t) PROVE StepInCall(t)
    BY <1>4 DEF Signal, StepInCall, SessionInv, InCall
  <1>5. ASSUME LoadFirst(t) PROVE StepInCall(t)
    BY <1>5 DEF LoadFirst, StepInCall, SessionInv, InCall, Tests, RWTests, PollTests
  <1>6. ASSUME TryNonblock(t) PROVE StepInCall(t)
    BY <1>6 DEF TryNonblock, StepInCall, SessionInv, InCall, TestDone, Result, Goto
  <1>7. ASSUME CheckLoop(t) PROVE StepInCall(t)
    BY <1>7 DEF CheckLoop, StepInCall, SessionInv, InCall, TestDone, Goto
  <1>8. ASSUME PrepareToSleep(t) PROVE StepInCall(t)
    BY <1>8 DEF PrepareToSleep, StepInCall, SessionInv, InCall, Goto
  <1>9. ASSUME Recheck(t) PROVE StepInCall(t)
    BY <1>9 DEF Recheck, StepInCall, SessionInv, InCall, TestDone, Goto
  <1>10. ASSUME Schedule(t) PROVE StepInCall(t)
    BY <1>10 DEF Schedule, StepInCall, SessionInv, InCall, Result, Goto
  <1>11. ASSUME Down(t) PROVE StepInCall(t)
    BY <1>11 DEF Down, StepInCall, SessionInv, InCall, Goto
  <1>12. ASSUME DownInterrupted(t) PROVE StepInCall(t)
    BY <1>12 DEF DownInterrupted, StepInCall, SessionInv, InCall, Result, Goto
  <1>13. ASSUME ReadByte(t) PROVE StepInCall(t)
    BY <1>13 DEF ReadByte, StepInCall, SessionInv, InCall, Goto
  <1>14. ASSUME WriteByte(t) PROVE StepInCall(t)
    BY <1>14 DEF WriteByte, StepInCall, SessionInv, InCall, Goto
  <1>15. ASSUME WrapIndex(t) PROVE StepInCall(t)
    BY <1>15 DEF WrapIndex, StepInCall, SessionInv, InCall, Goto
  <1>16. ASSUME Up(t) PROVE StepInCall(t)
    BY <1>16 DEF Up, StepInCall, SessionInv, InCall, Result, Goto
  <1>17. ASSUME WakeOther(t) PROVE StepInCall(t)
    BY <1>17 DEF WakeOther, StepInCall, SessionInv, InCall, Result, Goto
  <1>18. ASSUME PollWait(t) PROVE StepInCall(t)
    BY <1>18 DEF PollWait, StepInCall, SessionInv, InCall, Goto
  <1>19. ASSUME PollLock(t) PROVE StepInCall(t)
    BY <1>19 DEF PollLock, StepInCall, SessionInv, InCall, Goto
  <1>20. ASSUME PollIn(t) PROVE StepInCall(t)
    BY <1>20 DEF PollIn, StepInCall, SessionInv, InCall, TestDone, Goto
  <1>21. ASSUME PollOut(t) PROVE StepInCall(t)
    BY <1>21 DEF PollOut, StepInCall, SessionInv, InCall, TestDone, Goto
  <1>22. ASSUME PollDecide(t) PROVE StepInCall(t)
    BY <1>22 DEF PollDecide, StepInCall, SessionInv, InCall, Result, Goto
  <1>23. ASSUME PollWoken(t) PROVE StepInCall(t)
    BY <1>23 DEF PollWoken, StepInCall, SessionInv, InCall, Goto
  <1>24. ASSUME PollTimeout(t) PROVE StepInCall(t)
    BY <1>24 DEF PollTimeout, StepInCall, SessionInv, InCall, Goto
  <1> QED
    BY <1>1, <1>2, <1>3, <1>4, <1>5, <1>6, <1>7, <1>8, <1>9, <1>10, <1>11, <1>12, <1>13,
       <1>14, <1>15, <1>16, <1>17, <1>18, <1>19, <1>20, <1>21, <1>22, <1>23, <1>24
       DEF KernelStep, DeviceRead, DeviceWrite, ReadWriteStep, DevicePoll, PollCore

\* A call has its file open, and the module stays while a file is open.
LEMMA SessionStep == BaseInv /\ [Next]_vars => SessionInv'
  <1> SUFFICES ASSUME BaseInv, [Next]_vars PROVE SessionInv'
    OBVIOUS
  <1> USE DEF BaseInv, TypeOK, ControlType
  <1>1. CASE Insmod \/ InitUseCount \/ Rmmod
    BY <1>1 DEF Insmod, InitUseCount, Rmmod, SessionInv, InCall, Open, OpenTasks
  <1>2. ASSUME NEW t \in Tasks, NEW mode \in Modes, DeviceOpen(t, mode) PROVE SessionInv'
    BY <1>2 DEF DeviceOpen, SessionInv, InCall, Open, OpenTasks
  <1>3. ASSUME NEW t \in Tasks, DeviceRelease(t) PROVE SessionInv'
    BY <1>3 DEF DeviceRelease, SessionInv, InCall, Open, OpenTasks
  <1>4. CASE UNCHANGED vars
    BY <1>4 DEF vars, session, SessionInv, InCall, Open, OpenTasks
  <1> QED
    BY <1>1, <1>2, <1>3, <1>4, CallSteps, StepInCallStep DEF Next, UserStep

\* The base invariant holds in every reachable state.
THEOREM BaseInvariance == Spec => []BaseInv
  <1>1. Init => BaseInv
    BY BaseInit
  <1>2. BaseInv /\ [Next]_vars => BaseInv'
    BY TypeStep, CopyExclusiveStep, SessionStep DEF BaseInv
  <1> QED
    BY <1>1, <1>2, PTL DEF Spec

\* Type correctness, for every value of the constants.
THEOREM TypeCorrect == Spec => []TypeOK
  BY BaseInvariance, PTL DEF BaseInv

\* The copies exclude each other and stay inside the ring.
THEOREM CopiesExclude == Spec => []CopyExclusive
  BY BaseInvariance, PTL DEF BaseInv

(* The count of open files, when nobody opens the node during my_init.     *)

\* The open files can be counted.
LEMMA OpenTasksFinite == IsFiniteSet(OpenTasks)
  BY TaskAssumption, FS_Subset DEF OpenTasks

\* Before the module is loaded there is nothing to count.
LEMMA UseCountInit == Init => UseCountExact
  BY DEF Init, UseCountExact

\* An open adds one file and one to the count, a release takes one from both.
LEMMA UseCountStep ==
  ~EarlyOpen /\ BaseInv /\ UseCountExact /\ [Next]_vars => UseCountExact'
  <1> SUFFICES ASSUME ~EarlyOpen, BaseInv, UseCountExact, [Next]_vars PROVE UseCountExact'
    OBVIOUS
  <1> USE DEF BaseInv, TypeOK, ControlType, DeviceType
  <1>1. CASE Insmod \/ Rmmod
    BY <1>1 DEF Insmod, Rmmod, UseCountExact
  <1>2. CASE InitUseCount
    <2>1. OpenTasks' = {}
      BY <1>2 DEF InitUseCount, SessionInv, OpenTasks, Open
    <2> QED
      BY <1>2, <2>1, FS_EmptySet DEF InitUseCount, UseCountExact
  <1>3. ASSUME NEW t \in Tasks, NEW mode \in Modes, DeviceOpen(t, mode) PROVE UseCountExact'
    <2>1. module = "in" /\ module' = "in" /\ use_count' = use_count + 1
      BY <1>3 DEF DeviceOpen
    <2>2. mode # "closed"
      BY InputAssumption
    <2>3. t \notin OpenTasks /\ OpenTasks' = OpenTasks \cup {t}
      BY <1>3, <2>2 DEF DeviceOpen, OpenTasks, Open
    <2> QED
      BY <2>1, <2>3, OpenTasksFinite, FS_AddElement DEF UseCountExact
  <1>4. ASSUME NEW t \in Tasks, DeviceRelease(t) PROVE UseCountExact'
    <2>1. module' = module /\ use_count' = use_count - 1
      BY <1>4 DEF DeviceRelease, session
    <2>2. t \in OpenTasks /\ OpenTasks' = OpenTasks \ {t}
      BY <1>4 DEF DeviceRelease, OpenTasks, Open
    <2> QED
      BY <2>1, <2>2, OpenTasksFinite, FS_RemoveElement DEF UseCountExact
  <1>5. ASSUME NEW t \in Tasks, StepInCall(t) PROVE UseCountExact'
    BY <1>5 DEF StepInCall, UseCountExact, OpenTasks, Open
  <1>6. CASE UNCHANGED vars
    BY <1>6 DEF vars, session, UseCountExact, OpenTasks, Open
  <1> QED
    BY <1>1, <1>2, <1>3, <1>4, <1>5, <1>6, CallSteps DEF Next, UserStep

\* use_count is the number of open files, if the node cannot be opened
\* before my_init has set it.
THEOREM UseCountCorrect == ~EarlyOpen => (Spec => []UseCountExact)
  <1> SUFFICES ASSUME ~EarlyOpen PROVE Spec => []UseCountExact
    OBVIOUS
  <1>1. BaseInv /\ UseCountExact /\ [Next]_vars => UseCountExact'
    BY UseCountStep
  <1> QED
    BY <1>1, UseCountInit, BaseInvariance, PTL DEF Spec

\* So an open that resets the indices finds every task in user mode.
LEMMA ResetFindsNoCall ==
  ASSUME ~EarlyOpen, BaseInv, UseCountExact, NEW t \in Tasks, NEW mode \in Modes,
         DeviceOpen(t, mode), use_count = 0
  PROVE  \A u \in Tasks : pc[u] = "user" /\ pc'[u] = "user"
  <1>1. Cardinality(OpenTasks) = 0
    BY DEF DeviceOpen, UseCountExact
  <1>2. OpenTasks = {}
    BY <1>1, OpenTasksFinite, FS_EmptySet
  <1> QED
    BY <1>2 DEF DeviceOpen, BaseInv, SessionInv, InCall, OpenTasks

(* The parts of the invariant that tie locals to the control point.        *)

\* The control point tells the call, action by action.
LEMMA OpStep ==
  BaseInv /\ OpInv /\ [Next]_vars => OpInv'
  <1> SUFFICES ASSUME BaseInv, OpInv, [Next]_vars PROVE OpInv'
    OBVIOUS
  <1> USE DEF BaseInv, TypeOK, ControlType, session, ring, queues, request, progress, test
  <1>1. CASE Insmod
    BY <1>1 DEF Insmod, OpInv, WaitLoop, CopyLoop, PollPCs, PollTests
  <1>2. CASE InitUseCount
    BY <1>2 DEF InitUseCount, OpInv, WaitLoop, CopyLoop, PollPCs, PollTests
  <1>3. CASE Rmmod
    BY <1>3 DEF Rmmod, OpInv, WaitLoop, CopyLoop, PollPCs, PollTests
  <1>4. ASSUME NEW t \in Tasks, NEW mode \in Modes, DeviceOpen(t, mode) PROVE OpInv'
    BY <1>4 DEF DeviceOpen, OpInv, WaitLoop, CopyLoop, PollPCs, PollTests
  <1>5. ASSUME NEW t \in Tasks, DeviceRelease(t) PROVE OpInv'
    BY <1>5 DEF DeviceRelease, OpInv, WaitLoop, CopyLoop, PollPCs, PollTests
  <1>6. ASSUME NEW t \in Tasks, NEW n \in Lens, NEW o \in {"read", "write"},
           CallReadWrite(t, o, n)
        PROVE OpInv'
    BY <1>6 DEF CallReadWrite, OpInv, WaitLoop, CopyLoop, PollPCs, PollTests, Goto
  <1>7. ASSUME NEW t \in Tasks, NEW ev \in SUBSET Events, CallPoll(t, ev) PROVE OpInv'
    BY <1>7 DEF CallPoll, OpInv, WaitLoop, CopyLoop, PollPCs, PollTests, Goto
  <1>8. ASSUME NEW t \in Tasks, ReturnToUser(t) PROVE OpInv'
    BY <1>8 DEF ReturnToUser, OpInv, WaitLoop, CopyLoop, PollPCs, PollTests, Goto
  <1>9. ASSUME NEW t \in Tasks, Signal(t) PROVE OpInv'
    BY <1>9 DEF Signal, OpInv, WaitLoop, CopyLoop, PollPCs, PollTests
  <1>10. ASSUME NEW t \in Tasks, LoadFirst(t) PROVE OpInv'
    BY <1>10 DEF LoadFirst, OpInv, WaitLoop, CopyLoop, PollPCs, PollTests, RWTests
  <1>11. ASSUME NEW t \in Tasks, TryNonblock(t) PROVE OpInv'
    BY <1>11 DEF TryNonblock, OpInv, WaitLoop, CopyLoop, PollPCs, PollTests, TestDone,
       Result, Goto, RWTests
  <1>12. ASSUME NEW t \in Tasks, CheckLoop(t) PROVE OpInv'
    BY <1>12 DEF CheckLoop, OpInv, WaitLoop, CopyLoop, PollPCs, PollTests, TestDone,
       Goto, RWTests
  <1>13. ASSUME NEW t \in Tasks, PrepareToSleep(t) PROVE OpInv'
    BY <1>13 DEF PrepareToSleep, OpInv, WaitLoop, CopyLoop, PollPCs, PollTests, Goto,
       RWTests
  <1>14. ASSUME NEW t \in Tasks, Recheck(t) PROVE OpInv'
    BY <1>14 DEF Recheck, OpInv, WaitLoop, CopyLoop, PollPCs, PollTests, TestDone, Goto,
       RWTests
  <1>15. ASSUME NEW t \in Tasks, Schedule(t) PROVE OpInv'
    BY <1>15 DEF Schedule, OpInv, WaitLoop, CopyLoop, PollPCs, PollTests, Result, Goto,
       RWTests
  <1>16. ASSUME NEW t \in Tasks, Down(t) PROVE OpInv'
    BY <1>16 DEF Down, OpInv, WaitLoop, CopyLoop, PollPCs, PollTests, Goto, RWTests
  <1>17. ASSUME NEW t \in Tasks, DownInterrupted(t) PROVE OpInv'
    BY <1>17 DEF DownInterrupted, OpInv, WaitLoop, CopyLoop, PollPCs, PollTests, Result,
       Goto, RWTests
  <1>18. ASSUME NEW t \in Tasks, ReadByte(t) PROVE OpInv'
    BY <1>18 DEF ReadByte, OpInv, WaitLoop, CopyLoop, PollPCs, PollTests, Goto, RWTests
  <1>19. ASSUME NEW t \in Tasks, WriteByte(t) PROVE OpInv'
    BY <1>19 DEF WriteByte, OpInv, WaitLoop, CopyLoop, PollPCs, PollTests, Goto, RWTests
  <1>20. ASSUME NEW t \in Tasks, WrapIndex(t) PROVE OpInv'
    BY <1>20 DEF WrapIndex, OpInv, WaitLoop, CopyLoop, PollPCs, PollTests, Goto, RWTests
  <1>21. ASSUME NEW t \in Tasks, Up(t) PROVE OpInv'
    BY <1>21 DEF Up, OpInv, WaitLoop, CopyLoop, PollPCs, PollTests, Result, Goto,
       RWTests
  <1>22. ASSUME NEW t \in Tasks, WakeOther(t) PROVE OpInv'
    BY <1>22 DEF WakeOther, OpInv, WaitLoop, CopyLoop, PollPCs, PollTests, Result, Goto,
       RWTests
  <1>23. ASSUME NEW t \in Tasks, PollWait(t) PROVE OpInv'
    BY <1>23 DEF PollWait, OpInv, WaitLoop, CopyLoop, PollPCs, PollTests, Goto
  <1>24. ASSUME NEW t \in Tasks, PollLock(t) PROVE OpInv'
    BY <1>24 DEF PollLock, OpInv, WaitLoop, CopyLoop, PollPCs, PollTests, Goto
  <1>25. ASSUME NEW t \in Tasks, PollIn(t) PROVE OpInv'
    BY <1>25 DEF PollIn, OpInv, WaitLoop, CopyLoop, PollPCs, PollTests, TestDone, Goto
  <1>26. ASSUME NEW t \in Tasks, PollOut(t) PROVE OpInv'
    BY <1>26 DEF PollOut, OpInv, WaitLoop, CopyLoop, PollPCs, PollTests, TestDone, Goto
  <1>27. ASSUME NEW t \in Tasks, PollDecide(t) PROVE OpInv'
    BY <1>27 DEF PollDecide, OpInv, WaitLoop, CopyLoop, PollPCs, PollTests, Result, Goto
  <1>28. ASSUME NEW t \in Tasks, PollWoken(t) PROVE OpInv'
    BY <1>28 DEF PollWoken, OpInv, WaitLoop, CopyLoop, PollPCs, PollTests, Goto
  <1>29. ASSUME NEW t \in Tasks, PollTimeout(t) PROVE OpInv'
    BY <1>29 DEF PollTimeout, OpInv, WaitLoop, CopyLoop, PollPCs, PollTests, Goto
  <1>30. CASE UNCHANGED vars
    BY <1>30 DEF vars, OpInv
  <1> QED
    BY <1>1, <1>2, <1>3, <1>4, <1>5, <1>6, <1>7, <1>8, <1>9, <1>10, <1>11, <1>12, <1>13,
       <1>14, <1>15, <1>16, <1>17, <1>18, <1>19, <1>20, <1>21, <1>22, <1>23, <1>24,
       <1>25, <1>26, <1>27, <1>28, <1>29, <1>30
       DEF Next, UserStep, KernelStep, DeviceRead, DeviceWrite, ReadWriteStep,
           DevicePoll, PollCore

\* A test is left only through its comparison, which drops what it loaded.
LEMMA LoadStep ==
  BaseInv /\ LoadInv /\ [Next]_vars => LoadInv'
  <1> SUFFICES ASSUME BaseInv, LoadInv, [Next]_vars PROVE LoadInv'
    OBVIOUS
  <1> USE
        DEF BaseInv, TypeOK, ControlType, session, ring, queues, request, progress, test,
             TestType
  <1>1. CASE Insmod
    BY <1>1 DEF Insmod, LoadInv, Tests, RWTests, PollTests
  <1>2. CASE InitUseCount
    BY <1>2 DEF InitUseCount, LoadInv, Tests, RWTests, PollTests
  <1>3. CASE Rmmod
    BY <1>3 DEF Rmmod, LoadInv, Tests, RWTests, PollTests
  <1>4. ASSUME NEW t \in Tasks, NEW mode \in Modes, DeviceOpen(t, mode) PROVE LoadInv'
    BY <1>4 DEF DeviceOpen, LoadInv, Tests, RWTests, PollTests
  <1>5. ASSUME NEW t \in Tasks, DeviceRelease(t) PROVE LoadInv'
    BY <1>5 DEF DeviceRelease, LoadInv, Tests, RWTests, PollTests
  <1>6. ASSUME NEW t \in Tasks, NEW n \in Lens, NEW o \in {"read", "write"},
           CallReadWrite(t, o, n)
        PROVE LoadInv'
    BY <1>6 DEF CallReadWrite, LoadInv, Goto, Tests, RWTests, PollTests
  <1>7. ASSUME NEW t \in Tasks, NEW ev \in SUBSET Events, CallPoll(t, ev) PROVE LoadInv'
    BY <1>7 DEF CallPoll, LoadInv, Goto, Tests, RWTests, PollTests
  <1>8. ASSUME NEW t \in Tasks, ReturnToUser(t) PROVE LoadInv'
    BY <1>8 DEF ReturnToUser, LoadInv, Goto, Tests, RWTests, PollTests
  <1>9. ASSUME NEW t \in Tasks, Signal(t) PROVE LoadInv'
    BY <1>9 DEF Signal, LoadInv, Tests, RWTests, PollTests
  <1>10. ASSUME NEW t \in Tasks, LoadFirst(t) PROVE LoadInv'
    BY <1>10 DEF LoadFirst, LoadInv, Tests, RWTests, PollTests
  <1>11. ASSUME NEW t \in Tasks, TryNonblock(t) PROVE LoadInv'
    BY <1>11 DEF TryNonblock, LoadInv, TestDone, Result, Goto, Tests, RWTests, PollTests
  <1>12. ASSUME NEW t \in Tasks, CheckLoop(t) PROVE LoadInv'
    BY <1>12 DEF CheckLoop, LoadInv, TestDone, Goto, Tests, RWTests, PollTests
  <1>13. ASSUME NEW t \in Tasks, PrepareToSleep(t) PROVE LoadInv'
    BY <1>13 DEF PrepareToSleep, LoadInv, Goto, Tests, RWTests, PollTests
  <1>14. ASSUME NEW t \in Tasks, Recheck(t) PROVE LoadInv'
    BY <1>14 DEF Recheck, LoadInv, TestDone, Goto, Tests, RWTests, PollTests
  <1>15. ASSUME NEW t \in Tasks, Schedule(t) PROVE LoadInv'
    BY <1>15 DEF Schedule, LoadInv, Result, Goto, Tests, RWTests, PollTests, WaitLoop
  <1>16. ASSUME NEW t \in Tasks, Down(t) PROVE LoadInv'
    BY <1>16 DEF Down, LoadInv, Goto, Tests, RWTests, PollTests
  <1>17. ASSUME NEW t \in Tasks, DownInterrupted(t) PROVE LoadInv'
    BY <1>17 DEF DownInterrupted, LoadInv, Result, Goto, Tests, RWTests, PollTests
  <1>18. ASSUME NEW t \in Tasks, ReadByte(t) PROVE LoadInv'
    BY <1>18 DEF ReadByte, LoadInv, Goto, Tests, RWTests, PollTests
  <1>19. ASSUME NEW t \in Tasks, WriteByte(t) PROVE LoadInv'
    BY <1>19 DEF WriteByte, LoadInv, Goto, Tests, RWTests, PollTests
  <1>20. ASSUME NEW t \in Tasks, WrapIndex(t) PROVE LoadInv'
    BY <1>20 DEF WrapIndex, LoadInv, Goto, Tests, RWTests, PollTests
  <1>21. ASSUME NEW t \in Tasks, Up(t) PROVE LoadInv'
    BY <1>21 DEF Up, LoadInv, Result, Goto, Tests, RWTests, PollTests
  <1>22. ASSUME NEW t \in Tasks, WakeOther(t) PROVE LoadInv'
    BY <1>22 DEF WakeOther, LoadInv, Result, Goto, Tests, RWTests, PollTests
  <1>23. ASSUME NEW t \in Tasks, PollWait(t) PROVE LoadInv'
    BY <1>23 DEF PollWait, LoadInv, Goto, Tests, RWTests, PollTests
  <1>24. ASSUME NEW t \in Tasks, PollLock(t) PROVE LoadInv'
    BY <1>24 DEF PollLock, LoadInv, Goto, Tests, RWTests, PollTests
  <1>25. ASSUME NEW t \in Tasks, PollIn(t) PROVE LoadInv'
    BY <1>25 DEF PollIn, LoadInv, TestDone, Goto, Tests, RWTests, PollTests
  <1>26. ASSUME NEW t \in Tasks, PollOut(t) PROVE LoadInv'
    BY <1>26 DEF PollOut, LoadInv, TestDone, Goto, Tests, RWTests, PollTests
  <1>27. ASSUME NEW t \in Tasks, PollDecide(t) PROVE LoadInv'
    BY <1>27 DEF PollDecide, LoadInv, Result, Goto, Tests, RWTests, PollTests
  <1>28. ASSUME NEW t \in Tasks, PollWoken(t) PROVE LoadInv'
    BY <1>28 DEF PollWoken, LoadInv, Goto, Tests, RWTests, PollTests
  <1>29. ASSUME NEW t \in Tasks, PollTimeout(t) PROVE LoadInv'
    BY <1>29 DEF PollTimeout, LoadInv, Goto, Tests, RWTests, PollTests
  <1>30. CASE UNCHANGED vars
    BY <1>30 DEF vars, LoadInv
  <1> QED
    BY <1>1, <1>2, <1>3, <1>4, <1>5, <1>6, <1>7, <1>8, <1>9, <1>10, <1>11, <1>12, <1>13,
       <1>14, <1>15, <1>16, <1>17, <1>18, <1>19, <1>20, <1>21, <1>22, <1>23, <1>24,
       <1>25, <1>26, <1>27, <1>28, <1>29, <1>30
       DEF Next, UserStep, KernelStep, DeviceRead, DeviceWrite, ReadWriteStep,
           DevicePoll, PollCore

\* ir stands still while a writer has the semaphore, so its limit stays right.
LEMMA CopyStep ==
  ~EarlyOpen /\ BaseInv /\ UseCountExact /\ OpInv /\ CopyInv /\ [Next]_vars => CopyInv'
  <1> SUFFICES ASSUME ~EarlyOpen, BaseInv, UseCountExact, OpInv, CopyInv, [Next]_vars
      PROVE CopyInv'
    OBVIOUS
  <1> USE NAssumption
        DEF BaseInv, TypeOK, ControlType, session, ring, queues, request, progress, test,
             DeviceType, CopyType, Limit
  <1>1. CASE Insmod
    <2>1. \A u \in Tasks : pc'[u] = "user"
      BY <1>1 DEF Insmod, SessionInv, OpenTasks, InCall
    <2> QED
      BY <2>1 DEF CopyInv, CopyLoop
  <1>2. CASE InitUseCount
    BY <1>2 DEF InitUseCount, CopyInv, CopyLoop
  <1>3. CASE Rmmod
    BY <1>3 DEF Rmmod, CopyInv, CopyLoop
  <1>4. ASSUME NEW t \in Tasks, NEW mode \in Modes, DeviceOpen(t, mode) PROVE CopyInv'
    <2>1. CASE use_count = 0
      BY <1>4, <2>1, ResetFindsNoCall DEF CopyInv, CopyLoop
    <2>2. CASE use_count # 0
      BY <1>4, <2>2 DEF DeviceOpen, CopyInv
    <2> QED
      BY <2>1, <2>2
  <1>5. ASSUME NEW t \in Tasks, DeviceRelease(t) PROVE CopyInv'
    BY <1>5 DEF DeviceRelease, CopyInv, CopyLoop
  <1>6. ASSUME NEW t \in Tasks, NEW n \in Lens, NEW o \in {"read", "write"},
           CallReadWrite(t, o, n)
        PROVE CopyInv'
    BY <1>6 DEF CallReadWrite, CopyInv, Goto, CopyLoop
  <1>7. ASSUME NEW t \in Tasks, NEW ev \in SUBSET Events, CallPoll(t, ev) PROVE CopyInv'
    BY <1>7 DEF CallPoll, CopyInv, Goto, CopyLoop
  <1>8. ASSUME NEW t \in Tasks, ReturnToUser(t) PROVE CopyInv'
    BY <1>8 DEF ReturnToUser, CopyInv, Goto, CopyLoop
  <1>9. ASSUME NEW t \in Tasks, Signal(t) PROVE CopyInv'
    BY <1>9 DEF Signal, CopyInv, CopyLoop
  <1>10. ASSUME NEW t \in Tasks, LoadFirst(t) PROVE CopyInv'
    BY <1>10 DEF LoadFirst, CopyInv, CopyLoop
  <1>11. ASSUME NEW t \in Tasks, TryNonblock(t) PROVE CopyInv'
    BY <1>11 DEF TryNonblock, CopyInv, TestDone, Result, Goto, CopyExclusive, CopyLoop
  <1>12. ASSUME NEW t \in Tasks, CheckLoop(t) PROVE CopyInv'
    BY <1>12 DEF CheckLoop, CopyInv, TestDone, Goto, CopyExclusive, CopyLoop
  <1>13. ASSUME NEW t \in Tasks, PrepareToSleep(t) PROVE CopyInv'
    BY <1>13 DEF PrepareToSleep, CopyInv, Goto, CopyLoop
  <1>14. ASSUME NEW t \in Tasks, Recheck(t) PROVE CopyInv'
    BY <1>14 DEF Recheck, CopyInv, TestDone, Goto, CopyExclusive, CopyLoop
  <1>15. ASSUME NEW t \in Tasks, Schedule(t) PROVE CopyInv'
    BY <1>15 DEF Schedule, CopyInv, Result, Goto, CopyExclusive, CopyLoop
  <1>16. ASSUME NEW t \in Tasks, Down(t) PROVE CopyInv'
    BY <1>16 DEF Down, CopyInv, Goto, CopyExclusive, CopyLoop
  <1>17. ASSUME NEW t \in Tasks, DownInterrupted(t) PROVE CopyInv'
    BY <1>17 DEF DownInterrupted, CopyInv, Result, Goto, CopyLoop
  <1>18. ASSUME NEW t \in Tasks, ReadByte(t) PROVE CopyInv'
    BY <1>18 DEF ReadByte, CopyInv, Goto, CopyExclusive, CopyLoop, PastEnd
  <1>19. ASSUME NEW t \in Tasks, WriteByte(t) PROVE CopyInv'
    BY <1>19 DEF WriteByte, CopyInv, Goto, CopyExclusive, CopyLoop, PastEnd
  <1>20. ASSUME NEW t \in Tasks, WrapIndex(t) PROVE CopyInv'
    BY <1>20 DEF WrapIndex, CopyInv, Goto, CopyExclusive, CopyLoop
  <1>21. ASSUME NEW t \in Tasks, Up(t) PROVE CopyInv'
    BY <1>21 DEF Up, CopyInv, Result, Goto, CopyExclusive, CopyLoop
  <1>22. ASSUME NEW t \in Tasks, WakeOther(t) PROVE CopyInv'
    BY <1>22 DEF WakeOther, CopyInv, Result, Goto, CopyLoop
  <1>23. ASSUME NEW t \in Tasks, PollWait(t) PROVE CopyInv'
    BY <1>23 DEF PollWait, CopyInv, Goto, CopyLoop
  <1>24. ASSUME NEW t \in Tasks, PollLock(t) PROVE CopyInv'
    BY <1>24 DEF PollLock, CopyInv, Goto, CopyLoop
  <1>25. ASSUME NEW t \in Tasks, PollIn(t) PROVE CopyInv'
    BY <1>25 DEF PollIn, CopyInv, TestDone, Goto, CopyLoop
  <1>26. ASSUME NEW t \in Tasks, PollOut(t) PROVE CopyInv'
    BY <1>26 DEF PollOut, CopyInv, TestDone, Goto, CopyLoop
  <1>27. ASSUME NEW t \in Tasks, PollDecide(t) PROVE CopyInv'
    BY <1>27 DEF PollDecide, CopyInv, Result, Goto, CopyLoop
  <1>28. ASSUME NEW t \in Tasks, PollWoken(t) PROVE CopyInv'
    BY <1>28 DEF PollWoken, CopyInv, Goto, CopyLoop
  <1>29. ASSUME NEW t \in Tasks, PollTimeout(t) PROVE CopyInv'
    BY <1>29 DEF PollTimeout, CopyInv, Goto, CopyLoop
  <1>30. CASE UNCHANGED vars
    BY <1>30 DEF vars, CopyInv
  <1> QED
    BY <1>1, <1>2, <1>3, <1>4, <1>5, <1>6, <1>7, <1>8, <1>9, <1>10, <1>11, <1>12, <1>13,
       <1>14, <1>15, <1>16, <1>17, <1>18, <1>19, <1>20, <1>21, <1>22, <1>23, <1>24,
       <1>25, <1>26, <1>27, <1>28, <1>29, <1>30
       DEF Next, UserStep, KernelStep, DeviceRead, DeviceWrite, ReadWriteStep,
           DevicePoll, PollCore

\* A task leaves a wait queue only as it leaves the loop or the poll.
LEMMA QueueStep ==
  BaseInv /\ OpInv /\ QueueInv /\ [Next]_vars => QueueInv'
  <1> SUFFICES ASSUME BaseInv, OpInv, QueueInv, [Next]_vars PROVE QueueInv'
    OBVIOUS
  <1> USE
        DEF BaseInv, TypeOK, ControlType, session, ring, queues, request, progress, test,
             SchedType
  <1>1. CASE Insmod
    BY <1>1 DEF Insmod, QueueInv, OwnQueue, Queues, WaitLoop, CopyLoop, PollPCs,
       PollTests
  <1>2. CASE InitUseCount
    BY <1>2 DEF InitUseCount, QueueInv, OwnQueue, Queues, WaitLoop, CopyLoop, PollPCs,
       PollTests
  <1>3. CASE Rmmod
    BY <1>3 DEF Rmmod, QueueInv, OwnQueue, Queues, WaitLoop, CopyLoop, PollPCs,
       PollTests
  <1>4. ASSUME NEW t \in Tasks, NEW mode \in Modes, DeviceOpen(t, mode) PROVE QueueInv'
    BY <1>4 DEF DeviceOpen, QueueInv, OwnQueue, Queues, WaitLoop, CopyLoop, PollPCs,
       PollTests
  <1>5. ASSUME NEW t \in Tasks, DeviceRelease(t) PROVE QueueInv'
    BY <1>5 DEF DeviceRelease, QueueInv, OwnQueue, Queues, WaitLoop, CopyLoop, PollPCs,
       PollTests
  <1>6. ASSUME NEW t \in Tasks, NEW n \in Lens, NEW o \in {"read", "write"},
           CallReadWrite(t, o, n)
        PROVE QueueInv'
    BY <1>6 DEF CallReadWrite, QueueInv, OwnQueue, Queues, WaitLoop, CopyLoop, PollPCs,
       PollTests, Goto
  <1>7. ASSUME NEW t \in Tasks, NEW ev \in SUBSET Events, CallPoll(t, ev) PROVE QueueInv'
    BY <1>7 DEF CallPoll, QueueInv, OwnQueue, Queues, WaitLoop, CopyLoop, PollPCs,
       PollTests, Goto
  <1>8. ASSUME NEW t \in Tasks, ReturnToUser(t) PROVE QueueInv'
    BY <1>8 DEF ReturnToUser, QueueInv, OwnQueue, Queues, WaitLoop, CopyLoop, PollPCs,
       PollTests, Goto
  <1>9. ASSUME NEW t \in Tasks, Signal(t) PROVE QueueInv'
    BY <1>9 DEF Signal, QueueInv, OwnQueue, Queues, WaitLoop, CopyLoop, PollPCs,
       PollTests
  <1>10. ASSUME NEW t \in Tasks, LoadFirst(t) PROVE QueueInv'
    BY <1>10 DEF LoadFirst, QueueInv, OwnQueue, Queues, WaitLoop, CopyLoop, PollPCs,
       PollTests, RWTests
  <1>11. ASSUME NEW t \in Tasks, TryNonblock(t) PROVE QueueInv'
    BY <1>11 DEF TryNonblock, QueueInv, OwnQueue, Queues, WaitLoop, CopyLoop, PollPCs,
       PollTests, TestDone, Result, Goto, RWTests
  <1>12. ASSUME NEW t \in Tasks, CheckLoop(t) PROVE QueueInv'
    BY <1>12 DEF CheckLoop, QueueInv, OwnQueue, Queues, WaitLoop, CopyLoop, PollPCs,
       PollTests, TestDone, Goto, LeaveQueue, RWTests
  <1>13. ASSUME NEW t \in Tasks, PrepareToSleep(t) PROVE QueueInv'
    BY <1>13 DEF PrepareToSleep, QueueInv, OwnQueue, Queues, WaitLoop, CopyLoop,
       PollPCs, PollTests, Goto, RWTests
  <1>14. ASSUME NEW t \in Tasks, Recheck(t) PROVE QueueInv'
    BY <1>14 DEF Recheck, QueueInv, OwnQueue, Queues, WaitLoop, CopyLoop, PollPCs,
       PollTests, TestDone, Goto, LeaveQueue, RWTests
  <1>15. ASSUME NEW t \in Tasks, Schedule(t) PROVE QueueInv'
    BY <1>15 DEF Schedule, QueueInv, OwnQueue, Queues, WaitLoop, CopyLoop, PollPCs,
       PollTests, Result, Goto, LeaveQueue, RWTests
  <1>16. ASSUME NEW t \in Tasks, Down(t) PROVE QueueInv'
    BY <1>16 DEF Down, QueueInv, OwnQueue, Queues, WaitLoop, CopyLoop, PollPCs,
       PollTests, Goto, RWTests
  <1>17. ASSUME NEW t \in Tasks, DownInterrupted(t) PROVE QueueInv'
    BY <1>17 DEF DownInterrupted, QueueInv, OwnQueue, Queues, WaitLoop, CopyLoop,
       PollPCs, PollTests, Result, Goto, RWTests
  <1>18. ASSUME NEW t \in Tasks, ReadByte(t) PROVE QueueInv'
    BY <1>18 DEF ReadByte, QueueInv, OwnQueue, Queues, WaitLoop, CopyLoop, PollPCs,
       PollTests, Goto, RWTests
  <1>19. ASSUME NEW t \in Tasks, WriteByte(t) PROVE QueueInv'
    BY <1>19 DEF WriteByte, QueueInv, OwnQueue, Queues, WaitLoop, CopyLoop, PollPCs,
       PollTests, Goto, RWTests
  <1>20. ASSUME NEW t \in Tasks, WrapIndex(t) PROVE QueueInv'
    BY <1>20 DEF WrapIndex, QueueInv, OwnQueue, Queues, WaitLoop, CopyLoop, PollPCs,
       PollTests, Goto, RWTests
  <1>21. ASSUME NEW t \in Tasks, Up(t) PROVE QueueInv'
    BY <1>21 DEF Up, QueueInv, OwnQueue, Queues, WaitLoop, CopyLoop, PollPCs, PollTests,
       Result, Goto, RWTests
  <1>22. ASSUME NEW t \in Tasks, WakeOther(t) PROVE QueueInv'
    BY <1>22 DEF WakeOther, QueueInv, OwnQueue, Queues, WaitLoop, CopyLoop, PollPCs,
       PollTests, Result, Goto, RWTests
  <1>23. ASSUME NEW t \in Tasks, PollWait(t) PROVE QueueInv'
    BY <1>23 DEF PollWait, QueueInv, OwnQueue, Queues, WaitLoop, CopyLoop, PollPCs,
       PollTests, Goto
  <1>24. ASSUME NEW t \in Tasks, PollLock(t) PROVE QueueInv'
    BY <1>24 DEF PollLock, QueueInv, OwnQueue, Queues, WaitLoop, CopyLoop, PollPCs,
       PollTests, Goto
  <1>25. ASSUME NEW t \in Tasks, PollIn(t) PROVE QueueInv'
    BY <1>25 DEF PollIn, QueueInv, OwnQueue, Queues, WaitLoop, CopyLoop, PollPCs,
       PollTests, TestDone, Goto
  <1>26. ASSUME NEW t \in Tasks, PollOut(t) PROVE QueueInv'
    BY <1>26 DEF PollOut, QueueInv, OwnQueue, Queues, WaitLoop, CopyLoop, PollPCs,
       PollTests, TestDone, Goto
  <1>27. ASSUME NEW t \in Tasks, PollDecide(t) PROVE QueueInv'
    BY <1>27 DEF PollDecide, QueueInv, OwnQueue, Queues, WaitLoop, CopyLoop, PollPCs,
       PollTests, Result, Goto, LeaveQueue
  <1>28. ASSUME NEW t \in Tasks, PollWoken(t) PROVE QueueInv'
    BY <1>28 DEF PollWoken, QueueInv, OwnQueue, Queues, WaitLoop, CopyLoop, PollPCs,
       PollTests, Goto
  <1>29. ASSUME NEW t \in Tasks, PollTimeout(t) PROVE QueueInv'
    BY <1>29 DEF PollTimeout, QueueInv, OwnQueue, Queues, WaitLoop, CopyLoop, PollPCs,
       PollTests, Goto
  <1>30. CASE UNCHANGED vars
    BY <1>30 DEF vars, QueueInv, OwnQueue
  <1> QED
    BY <1>1, <1>2, <1>3, <1>4, <1>5, <1>6, <1>7, <1>8, <1>9, <1>10, <1>11, <1>12, <1>13,
       <1>14, <1>15, <1>16, <1>17, <1>18, <1>19, <1>20, <1>21, <1>22, <1>23, <1>24,
       <1>25, <1>26, <1>27, <1>28, <1>29, <1>30
       DEF Next, UserStep, KernelStep, DeviceRead, DeviceWrite, ReadWriteStep,
           DevicePoll, PollCore

(* No wakeup is lost.                                                      *)

\* The control points at which a task has a reason to trust its tests.
Settling == {"recheck", "sched", "pollin", "pollout", "decide", "sleep"}

\* A step of u that leaves the ring alone and forgets no wakeup.
Calm(u) ==
    /\ UNCHANGED <<ir, iw>>
    /\ OwesWakeup(u, "read") => OwesWakeup(u, "read")'
    /\ OwesWakeup(u, "write") => OwesWakeup(u, "write")'
    /\ \A t \in Tasks \ {u} :
          /\ pc'[t] = pc[t] /\ op'[t] = op[t] /\ i'[t] = i[t] /\ state'[t] = state[t]
          /\ loaded'[t] = loaded[t] /\ val'[t] = val[t]
          /\ mask'[t] = mask[t] /\ events'[t] = events[t]

\* A wakeup that was coming is still coming.
LEMMA CalmKeepsWakeups ==
  ASSUME NEW u \in Tasks, Calm(u)
  PROVE  (InComing => InComing') /\ (OutComing => OutComing')
  <1>1. ASSUME NEW v \in Tasks, NEW o \in {"read", "write"}, OwesWakeup(v, o)
        PROVE OwesWakeup(v, o)'
    BY <1>1 DEF Calm, OwesWakeup
  <1> QED
    BY <1>1 DEF InComing, OutComing

\* What another task may rely on outlives a calm step.
LEMMA CalmForOthers ==
  ASSUME WakeupInv, NEW u \in Tasks, Calm(u), NEW t \in Tasks \ {u},
       state'[t] = "INTERRUPTIBLE"
  PROVE  WaitInv(t)'
  <1>1. WaitInv(t) /\ (InComing => InComing') /\ (OutComing => OutComing')
    BY CalmKeepsWakeups DEF WakeupInv, Calm
  <1>2. /\ UNCHANGED <<ir, iw>> /\ loaded'[t] = loaded[t] /\ val'[t] = val[t]
        /\ TestsIn(t)' = TestsIn(t) /\ TestsOut(t)' = TestsOut(t)
        /\ GaveUpIn(t)' = GaveUpIn(t) /\ GaveUpOut(t)' = GaveUpOut(t)
    BY DEF Calm, TestsIn, TestsOut, GaveUpIn, GaveUpOut
  <1> QED
    BY <1>1, <1>2 DEF WaitInv

\* So only the stepping task itself needs an argument.
LEMMA CalmStep ==
  ASSUME WakeupInv, NEW u \in Tasks, Calm(u), state'[u] = "INTERRUPTIBLE" => WaitInv(u)'
  PROVE  WakeupInv'
  BY CalmForOthers DEF WakeupInv

\* Outside those control points nothing is relied on.
LEMMA NotSettling ==
  ASSUME NEW t \in Tasks, pc'[t] \notin Settling PROVE WaitInv(t)'
  BY DEF WaitInv, TestsIn, TestsOut, GaveUpIn, GaveUpOut, Settling

\* While every task is in user mode there is nothing to show.
LEMMA AllInUserMode ==
  ASSUME \A t \in Tasks : pc'[t] = "user" PROVE WakeupInv'
  BY NotSettling DEF WakeupInv, Settling

\* A test decides to sleep only if the event is absent or its wakeup is coming;
\* whoever brings an event about owes the wakeup until it has given it.
LEMMA WakeupStep ==
  ~EarlyOpen /\ BaseInv /\ UseCountExact /\ OpInv /\ LoadInv /\ CopyInv /\ QueueInv
    /\ WakeupInv /\ [Next]_vars => WakeupInv'
  <1> SUFFICES ASSUME ~EarlyOpen, BaseInv, UseCountExact, OpInv, LoadInv, CopyInv,
         QueueInv, WakeupInv, [Next]_vars
      PROVE WakeupInv'
    OBVIOUS
  <1> USE DEF BaseInv, TypeOK, ControlType, session, ring, queues, request, progress, test,
          SchedType, CopyType, TestType, PollType
  <1>1. CASE Insmod
    BY <1>1, AllInUserMode DEF Insmod, SessionInv, OpenTasks, InCall
  <1>2. CASE InitUseCount
    BY <1>2 DEF InitUseCount, WakeupInv, WaitInv, TestsIn, TestsOut, GaveUpIn,
       GaveUpOut, InComing, OutComing, OwesWakeup
  <1>3. CASE Rmmod
    BY <1>3 DEF Rmmod, WakeupInv, WaitInv, TestsIn, TestsOut, GaveUpIn, GaveUpOut,
       InComing, OutComing, OwesWakeup
  <1>4. ASSUME NEW t \in Tasks, NEW mode \in Modes, DeviceOpen(t, mode) PROVE WakeupInv'
    <2>1. CASE use_count = 0
      BY <1>4, <2>1, ResetFindsNoCall, AllInUserMode
    <2>2. CASE use_count # 0
      <3>1. Calm(t)
        BY <1>4, <2>2 DEF DeviceOpen, Calm, OwesWakeup
      <3>2. pc'[t] \notin Settling
        BY <1>4 DEF DeviceOpen, Settling
      <3> QED
        BY <3>1, <3>2, CalmStep, NotSettling
    <2> QED
      BY <2>1, <2>2
  <1>5. ASSUME NEW t \in Tasks, DeviceRelease(t) PROVE WakeupInv'
    <2>1. Calm(t)
      BY <1>5 DEF DeviceRelease, Calm, OwesWakeup
    <2>2. pc'[t] \notin Settling
      BY <1>5 DEF DeviceRelease, Settling
    <2> QED
      BY <2>1, <2>2, CalmStep, NotSettling
  <1>6. ASSUME NEW t \in Tasks, NEW n \in Lens, NEW o \in {"read", "write"},
           CallReadWrite(t, o, n)
        PROVE WakeupInv'
    <2>1. Calm(t)
      BY <1>6 DEF CallReadWrite, Calm, OwesWakeup, Goto
    <2>2. pc'[t] \notin Settling
      BY <1>6 DEF CallReadWrite, Settling, Goto
    <2> QED
      BY <2>1, <2>2, CalmStep, NotSettling
  <1>7. ASSUME NEW t \in Tasks, NEW ev \in SUBSET Events, CallPoll(t, ev) PROVE WakeupInv'
    <2>1. Calm(t)
      BY <1>7 DEF CallPoll, Calm, OwesWakeup, Goto
    <2>2. pc'[t] \notin Settling
      BY <1>7 DEF CallPoll, Settling, Goto
    <2> QED
      BY <2>1, <2>2, CalmStep, NotSettling
  <1>8. ASSUME NEW t \in Tasks, ReturnToUser(t) PROVE WakeupInv'
    <2>1. Calm(t)
      BY <1>8 DEF ReturnToUser, Calm, OwesWakeup, Goto
    <2>2. pc'[t] \notin Settling
      BY <1>8 DEF ReturnToUser, Settling, Goto
    <2> QED
      BY <2>1, <2>2, CalmStep, NotSettling
  <1>9. ASSUME NEW t \in Tasks, Signal(t) PROVE WakeupInv'
    BY <1>9 DEF Signal, WakeupInv, WaitInv, TestsIn, TestsOut, GaveUpIn, GaveUpOut,
       InComing, OutComing, OwesWakeup
  <1>10. ASSUME NEW t \in Tasks, LoadFirst(t) PROVE WakeupInv'
    <2>1. Calm(t)
      BY <1>10 DEF LoadFirst, Calm, OwesWakeup, Tests, RWTests, PollTests
    <2>2. ASSUME state'[t] = "INTERRUPTIBLE" PROVE WaitInv(t)'
      <3>1. ir' = ir /\ iw' = iw /\ pc'[t] = pc[t] /\ op'[t] = op[t]
            /\ mask'[t] = mask[t] /\ pc[t] \in Tests
        BY <1>10 DEF LoadFirst
      <3>2. (loaded'[t] = "ir" /\ val'[t] = ir) \/ (loaded'[t] = "iw" /\ val'[t] = iw)
        BY <1>10 DEF LoadFirst
      <3>3. WaitInv(t) /\ (InComing => InComing')
        BY <1>10, <2>1, <2>2, CalmKeepsWakeups DEF WakeupInv, LoadFirst
      <3> QED
        BY <3>1, <3>2, <3>3
           DEF WaitInv, TestsIn, TestsOut, GaveUpIn, GaveUpOut, Tests, RWTests, PollTests
    <2> QED
      BY <2>1, <2>2, CalmStep
  <1>11. ASSUME NEW t \in Tasks, TryNonblock(t) PROVE WakeupInv'
    <2>1. Calm(t)
      BY <1>11 DEF TryNonblock, Calm, OwesWakeup, TestDone, Result, Goto
    <2>2. pc'[t] \notin Settling
      BY <1>11 DEF TryNonblock, Settling, TestDone, Result, Goto
    <2> QED
      BY <2>1, <2>2, CalmStep, NotSettling
  <1>12. ASSUME NEW t \in Tasks, CheckLoop(t) PROVE WakeupInv'
    <2>1. Calm(t)
      BY <1>12 DEF CheckLoop, Calm, OwesWakeup, TestDone, LeaveQueue, Goto
    <2>2. pc'[t] \notin Settling
      BY <1>12 DEF CheckLoop, Settling, TestDone, Goto
    <2> QED
      BY <2>1, <2>2, CalmStep, NotSettling
  <1>13. ASSUME NEW t \in Tasks, PrepareToSleep(t) PROVE WakeupInv'
    <2>1. Calm(t)
      BY <1>13 DEF PrepareToSleep, Calm, OwesWakeup, Goto
    <2>2. ASSUME state'[t] = "INTERRUPTIBLE" PROVE WaitInv(t)'
      BY <1>13 DEF PrepareToSleep, Goto, LoadInv, Tests, RWTests, PollTests, WaitInv,
         TestsIn, TestsOut, GaveUpIn, GaveUpOut
    <2> QED
      BY <2>1, <2>2, CalmStep
  <1>14. ASSUME NEW t \in Tasks, Recheck(t) PROVE WakeupInv'
    <2>1. Calm(t)
      BY <1>14 DEF Recheck, Calm, OwesWakeup, TestDone, LeaveQueue, Goto
    <2>2. ASSUME state'[t] = "INTERRUPTIBLE" PROVE WaitInv(t)'
      <3>1. Blocked(t) /\ state[t] = "INTERRUPTIBLE"
        BY <1>14, <2>2 DEF Recheck, LeaveQueue
      <3>2. WaitInv(t) /\ (InComing => InComing') /\ (OutComing => OutComing')
        BY <2>1, <3>1, CalmKeepsWakeups DEF WakeupInv
      <3>3. ir' = ir /\ iw' = iw /\ pc[t] = "recheck" /\ pc'[t] = "sched"
            /\ op'[t] = op[t] /\ loaded[t] \in {"ir", "iw"}
        BY <1>14, <3>1 DEF Recheck, TestDone, Goto
      <3>4. CASE op[t] = "read"
        <4>1. ir # iw => InComing
          BY <3>1, <3>2, <3>3, <3>4
             DEF Blocked, IsBufferEmpty, IrSeen, IwSeen, WaitInv, TestsIn
        <4> QED
          BY <3>2, <3>3, <3>4, <4>1 DEF WaitInv, TestsIn, TestsOut, GaveUpIn, GaveUpOut
      <3>5. CASE op[t] # "read"
        <4>1. op[t] = "write"
          BY <3>3, <3>5 DEF OpInv, WaitLoop
        <4>2. iw # ir - 1 => OutComing
          BY <3>1, <3>2, <3>3, <4>1
             DEF Blocked, BufferFull, IrSeen, IwSeen, WaitInv, TestsOut, DeviceType
        <4> QED
          BY <3>2, <3>3, <4>1, <4>2 DEF WaitInv, TestsIn, TestsOut, GaveUpIn, GaveUpOut
      <3> QED
        BY <3>4, <3>5
    <2> QED
      BY <2>1, <2>2, CalmStep
  <1>15. ASSUME NEW t \in Tasks, Schedule(t) PROVE WakeupInv'
    <2>1. Calm(t)
      BY <1>15 DEF Schedule, Calm, OwesWakeup, LeaveQueue, Result, Goto
    <2>2. pc'[t] \notin Settling
      BY <1>15 DEF Schedule, Settling, Result, Goto
    <2> QED
      BY <2>1, <2>2, CalmStep, NotSettling
  <1>16. ASSUME NEW t \in Tasks, Down(t) PROVE WakeupInv'
    <2>1. Calm(t)
      BY <1>16 DEF Down, Calm, OwesWakeup, Goto
    <2>2. pc'[t] \notin Settling
      BY <1>16 DEF Down, Settling, Goto
    <2> QED
      BY <2>1, <2>2, CalmStep, NotSettling
  <1>17. ASSUME NEW t \in Tasks, DownInterrupted(t) PROVE WakeupInv'
    <2>1. Calm(t)
      BY <1>17 DEF DownInterrupted, Calm, OwesWakeup, Result, Goto
    <2>2. pc'[t] \notin Settling
      BY <1>17 DEF DownInterrupted, Settling, Result, Goto
    <2> QED
      BY <2>1, <2>2, CalmStep, NotSettling
  <1>18. ASSUME NEW t \in Tasks, ReadByte(t) PROVE WakeupInv'
    <2>1. pc'[t] \in {"copy", "wrap"}
      BY <1>18 DEF ReadByte, Goto
    <2>2. ASSUME NEW u \in Tasks \ {t}, state'[u] = "INTERRUPTIBLE" PROVE WaitInv(u)'
      <3>1. WaitInv(u)
        BY <1>18, <2>2 DEF ReadByte, WakeupInv
      <3>2. /\ loaded'[u] = loaded[u] /\ val'[u] = val[u]
            /\ TestsIn(u)' = TestsIn(u) /\ TestsOut(u)' = TestsOut(u)
            /\ GaveUpIn(u)' = GaveUpIn(u) /\ GaveUpOut(u)' = GaveUpOut(u)
        BY <1>18 DEF ReadByte, Goto, TestsIn, TestsOut, GaveUpIn, GaveUpOut
      <3>3. OutComing' /\ (InComing => InComing')
        BY <1>18 DEF ReadByte, Goto, InComing, OutComing, OwesWakeup
      <3>4. ir # iw /\ iw' = iw
        BY <1>18 DEF ReadByte, CopyStops
      <3> QED
        BY <3>1, <3>2, <3>3, <3>4 DEF WaitInv
    <2> QED
      BY <2>1, <2>2, NotSettling DEF WakeupInv, Settling
  <1>19. ASSUME NEW t \in Tasks, WriteByte(t) PROVE WakeupInv'
    <2>1. pc'[t] \in {"copy", "wrap"}
      BY <1>19 DEF WriteByte, Goto
    <2>2. ASSUME NEW u \in Tasks \ {t}, state'[u] = "INTERRUPTIBLE" PROVE WaitInv(u)'
      <3>1. WaitInv(u)
        BY <1>19, <2>2 DEF WriteByte, WakeupInv
      <3>2. /\ loaded'[u] = loaded[u] /\ val'[u] = val[u]
            /\ TestsIn(u)' = TestsIn(u) /\ TestsOut(u)' = TestsOut(u)
            /\ GaveUpIn(u)' = GaveUpIn(u) /\ GaveUpOut(u)' = GaveUpOut(u)
        BY <1>19 DEF WriteByte, Goto, TestsIn, TestsOut, GaveUpIn, GaveUpOut
      <3>3. InComing' /\ (OutComing => OutComing')
        BY <1>19 DEF WriteByte, Goto, InComing, OutComing, OwesWakeup
      <3>4. iw # ir - 1 /\ ir' = ir
        BY <1>19 DEF WriteByte, CopyStops, CopyInv, Limit, CopyLoop, DeviceType
      <3> QED
        BY <3>1, <3>2, <3>3, <3>4 DEF WaitInv
    <2> QED
      BY <2>1, <2>2, NotSettling DEF WakeupInv, Settling
  <1>20. ASSUME NEW t \in Tasks, WrapIndex(t) PROVE WakeupInv'
    <2>1. pc'[t] \in {"copy", "wrap"}
      BY <1>20 DEF WrapIndex, Goto
    <2>2. ASSUME NEW u \in Tasks \ {t}, state'[u] = "INTERRUPTIBLE" PROVE WaitInv(u)'
      <3>1. WaitInv(u)
        BY <1>20, <2>2 DEF WrapIndex, WakeupInv
      <3>2. /\ loaded'[u] = loaded[u] /\ val'[u] = val[u]
            /\ TestsIn(u)' = TestsIn(u) /\ TestsOut(u)' = TestsOut(u)
            /\ GaveUpIn(u)' = GaveUpIn(u) /\ GaveUpOut(u)' = GaveUpOut(u)
        BY <1>20 DEF WrapIndex, Goto, TestsIn, TestsOut, GaveUpIn, GaveUpOut
      <3>3. CASE op[t] = "read"
        <4>1. OutComing' /\ (InComing => InComing')
          BY <1>20, <3>3 DEF WrapIndex, Goto, InComing, OutComing, OwesWakeup, CopyInv
        <4>2. ir # iw /\ iw' = iw
          BY <1>20, <3>3 DEF WrapIndex, CopyInv, CopyExclusive, CopyLoop
        <4> QED
          BY <3>1, <3>2, <4>1, <4>2 DEF WaitInv
      <3>4. CASE op[t] # "read"
        <4>1. op[t] = "write"
          BY <1>20, <3>4 DEF WrapIndex, OpInv, CopyLoop
        <4>2. InComing' /\ (OutComing => OutComing')
          BY <1>20, <4>1 DEF WrapIndex, Goto, InComing, OutComing, OwesWakeup, CopyInv
        <4>3. iw # ir - 1 /\ ir' = ir
          BY <1>20, <3>4 DEF WrapIndex, CopyInv, DeviceType
        <4> QED
          BY <3>1, <3>2, <4>2, <4>3 DEF WaitInv
      <3> QED
        BY <3>3, <3>4
    <2> QED
      BY <2>1, <2>2, NotSettling DEF WakeupInv, Settling
  <1>21. ASSUME NEW t \in Tasks, Up(t) PROVE WakeupInv'
    <2>1. Calm(t)
      BY <1>21 DEF Up, Calm, OwesWakeup, Result, Goto
    <2>2. pc'[t] \notin Settling
      BY <1>21 DEF Up, Settling, Result, Goto
    <2> QED
      BY <2>1, <2>2, CalmStep, NotSettling
  <1>22. ASSUME NEW t \in Tasks, WakeOther(t) PROVE WakeupInv'
    <2>1. pc'[t] = "ret" /\ ir' = ir /\ iw' = iw
      BY <1>22 DEF WakeOther, Result, Goto
    <2>2. ASSUME NEW u \in Tasks \ {t}, state'[u] = "INTERRUPTIBLE" PROVE WaitInv(u)'
      <3>1. u \notin waitq[OtherQueue(t)] /\ state[u] = "INTERRUPTIBLE"
        BY <1>22, <2>2 DEF WakeOther, WakeUpInterruptible
      <3>2. WaitInv(u)
        BY <3>1 DEF WakeupInv
      <3>3. /\ loaded'[u] = loaded[u] /\ val'[u] = val[u]
            /\ TestsIn(u)' = TestsIn(u) /\ TestsOut(u)' = TestsOut(u)
            /\ GaveUpIn(u)' = GaveUpIn(u) /\ GaveUpOut(u)' = GaveUpOut(u)
        BY <1>22 DEF WakeOther, Result, Goto, TestsIn, TestsOut, GaveUpIn, GaveUpOut
      <3>4. CASE op[t] = "read"
        <4>1. ~TestsOut(u) /\ ~GaveUpOut(u)
          BY <3>1, <3>4
             DEF OtherQueue, QueueInv, OwnQueue, TestsOut, GaveUpOut, WaitLoop, PollPCs,
                  PollTests
        <4>2. InComing => InComing'
          BY <1>22, <3>4 DEF WakeOther, Result, Goto, InComing, OwesWakeup
        <4> QED
          BY <2>1, <3>2, <3>3, <4>1, <4>2 DEF WaitInv
      <3>5. CASE op[t] # "read"
        <4>1. ~TestsIn(u) /\ ~GaveUpIn(u)
          BY <3>1, <3>5
             DEF OtherQueue, QueueInv, OwnQueue, TestsIn, GaveUpIn, WaitLoop, PollPCs,
                  PollTests
        <4>2. OutComing => OutComing'
          BY <1>22, <3>5 DEF WakeOther, Result, Goto, OutComing, OwesWakeup
        <4> QED
          BY <2>1, <3>2, <3>3, <4>1, <4>2 DEF WaitInv
      <3> QED
        BY <3>4, <3>5
    <2> QED
      BY <2>1, <2>2, NotSettling DEF WakeupInv, Settling
  <1>23. ASSUME NEW t \in Tasks, PollWait(t) PROVE WakeupInv'
    <2>1. Calm(t)
      BY <1>23 DEF PollWait, Calm, OwesWakeup, Goto
    <2>2. pc'[t] \notin Settling
      BY <1>23 DEF PollWait, Settling, Goto
    <2> QED
      BY <2>1, <2>2, CalmStep, NotSettling
  <1>24. ASSUME NEW t \in Tasks, PollLock(t) PROVE WakeupInv'
    <2>1. Calm(t)
      BY <1>24 DEF PollLock, Calm, OwesWakeup, Goto
    <2>2. ASSUME state'[t] = "INTERRUPTIBLE" PROVE WaitInv(t)'
      BY <1>24 DEF PollLock, Goto, LoadInv, Tests, RWTests, PollTests, WaitInv, TestsIn,
         TestsOut, GaveUpIn, GaveUpOut
    <2> QED
      BY <2>1, <2>2, CalmStep
  <1>25. ASSUME NEW t \in Tasks, PollIn(t) PROVE WakeupInv'
    <2>1. Calm(t)
      BY <1>25 DEF PollIn, Calm, OwesWakeup, TestDone, Goto
    <2>2. ASSUME state'[t] = "INTERRUPTIBLE" PROVE WaitInv(t)'
      <3>1. WaitInv(t) /\ (InComing => InComing')
        BY <1>25, <2>1, <2>2, CalmKeepsWakeups DEF WakeupInv, PollIn
      <3>2. ir' = ir /\ iw' = iw /\ pc[t] = "pollin" /\ pc'[t] = "pollout"
            /\ loaded[t] \in {"ir", "iw"} /\ loaded'[t] = "none"
        BY <1>25 DEF PollIn, TestDone, Goto
      <3>3. "in" \notin mask'[t] => IsBufferEmpty(t)
        BY <1>25 DEF PollIn
      <3>4. "in" \notin mask'[t] => (ir # iw => InComing)
        BY <3>1, <3>2, <3>3 DEF IsBufferEmpty, IrSeen, IwSeen, WaitInv, TestsIn
      <3> QED
        BY <3>1, <3>2, <3>4 DEF WaitInv, TestsIn, TestsOut, GaveUpIn, GaveUpOut
    <2> QED
      BY <2>1, <2>2, CalmStep
  <1>26. ASSUME NEW t \in Tasks, PollOut(t) PROVE WakeupInv'
    <2>1. Calm(t)
      BY <1>26 DEF PollOut, Calm, OwesWakeup, TestDone, Goto
    <2>2. ASSUME state'[t] = "INTERRUPTIBLE" PROVE WaitInv(t)'
      <3>1. WaitInv(t) /\ (InComing => InComing') /\ (OutComing => OutComing')
        BY <1>26, <2>1, <2>2, CalmKeepsWakeups DEF WakeupInv, PollOut
      <3>2. ir' = ir /\ iw' = iw /\ pc[t] = "pollout" /\ pc'[t] = "decide"
            /\ loaded[t] \in {"ir", "iw"} /\ loaded'[t] = "none"
        BY <1>26 DEF PollOut, TestDone, Goto
      <3>3. ("out" \notin mask'[t] => BufferFull(t))
            /\ ("in" \notin mask'[t] => "in" \notin mask[t])
        BY <1>26 DEF PollOut
      <3>4. "out" \notin mask'[t] => (iw # ir - 1 => OutComing)
        BY <3>1, <3>2, <3>3 DEF BufferFull, IrSeen, IwSeen, WaitInv, TestsOut, DeviceType
      <3> QED
        BY <3>1, <3>2, <3>3, <3>4 DEF WaitInv, TestsIn, TestsOut, GaveUpIn, GaveUpOut
    <2> QED
      BY <2>1, <2>2, CalmStep
  <1>27. ASSUME NEW t \in Tasks, PollDecide(t) PROVE WakeupInv'
    <2>1. Calm(t)
      BY <1>27 DEF PollDecide, Calm, OwesWakeup, LeaveQueue, Result, Goto
    <2>2. ASSUME state'[t] = "INTERRUPTIBLE" PROVE WaitInv(t)'
      <3>1. CASE pc'[t] = "ret"
        BY <3>1, NotSettling DEF Settling
      <3>2. CASE pc'[t] # "ret"
        <4>1. pc[t] = "decide" /\ pc'[t] = "sleep" /\ mask[t] \cap events[t] = {}
              /\ UNCHANGED <<ir, iw, state, events, loaded>>
          BY <1>27, <3>2 DEF PollDecide, LeaveQueue, Result, Goto
        <4>2. WaitInv(t) /\ (InComing => InComing') /\ (OutComing => OutComing')
          BY <2>1, <2>2, <4>1, CalmKeepsWakeups DEF WakeupInv
        <4> QED
          BY <4>1, <4>2 DEF WaitInv, TestsIn, TestsOut, GaveUpIn, GaveUpOut
      <3> QED
        BY <3>1, <3>2
    <2> QED
      BY <2>1, <2>2, CalmStep
  <1>28. ASSUME NEW t \in Tasks, PollWoken(t) PROVE WakeupInv'
    <2>1. Calm(t)
      BY <1>28 DEF PollWoken, Calm, OwesWakeup, Goto
    <2>2. pc'[t] \notin Settling
      BY <1>28 DEF PollWoken, Settling, Goto
    <2> QED
      BY <2>1, <2>2, CalmStep, NotSettling
  <1>29. ASSUME NEW t \in Tasks, PollTimeout(t) PROVE WakeupInv'
    <2>1. Calm(t)
      BY <1>29 DEF PollTimeout, Calm, OwesWakeup, Goto
    <2>2. pc'[t] \notin Settling
      BY <1>29 DEF PollTimeout, Settling, Goto
    <2> QED
      BY <2>1, <2>2, CalmStep, NotSettling
  <1>30. CASE UNCHANGED vars
    BY <1>30 DEF vars, WakeupInv, WaitInv, TestsIn, TestsOut, GaveUpIn, GaveUpOut,
       InComing, OutComing, OwesWakeup
  <1> QED
    BY <1>1, <1>2, <1>3, <1>4, <1>5, <1>6, <1>7, <1>8, <1>9, <1>10, <1>11, <1>12, <1>13,
       <1>14, <1>15, <1>16, <1>17, <1>18, <1>19, <1>20, <1>21, <1>22, <1>23, <1>24,
       <1>25, <1>26, <1>27, <1>28, <1>29, <1>30
       DEF Next, UserStep, KernelStep, DeviceRead, DeviceWrite, ReadWriteStep,
           DevicePoll, PollCore

\* The inductive invariant holds initially.
LEMMA IndInit == Init => IndInv
  <1> SUFFICES ASSUME Init PROVE IndInv
    OBVIOUS
  <1>1. OpInv /\ LoadInv /\ CopyInv /\ QueueInv
    BY DEF Init, OpInv, LoadInv, CopyInv, QueueInv, WaitLoop, CopyLoop, PollPCs, PollTests
  <1>2. WakeupInv
    BY DEF Init, WakeupInv
  <1> QED
    BY <1>1, <1>2, BaseInit, UseCountInit DEF IndInv

\* And every step keeps it.
LEMMA IndStep == ~EarlyOpen /\ IndInv /\ [Next]_vars => IndInv'
  BY TypeStep, CopyExclusiveStep, SessionStep, UseCountStep, OpStep, LoadStep, CopyStep,
     QueueStep, WakeupStep
     DEF IndInv, BaseInv

\* What the invariant says of a task that is asleep.
LEMMA SleepersAreCovered == IndInv => NoLostWakeup
  <1> SUFFICES ASSUME IndInv, NEW t \in Tasks, Asleep(t)
               PROVE  /\ WaitsFor(t, "in") /\ ir # iw => InComing
                      /\ WaitsFor(t, "out") /\ iw # ir - 1 => OutComing
    BY DEF NoLostWakeup, InComing, OutComing
  <1>1. WaitInv(t)
    BY DEF Asleep, IndInv, WakeupInv
  <1>2. CASE pc[t] = "sched"
    <2>1. op[t] \in {"read", "write"}
      BY <1>2 DEF IndInv, OpInv, WaitLoop
    <2> QED
      BY <1>1, <1>2, <2>1 DEF WaitInv, GaveUpIn, GaveUpOut, WaitsFor
  <1>3. CASE pc[t] = "sleep"
    <2>1. op[t] = "poll"
      BY <1>3 DEF IndInv, OpInv, PollPCs
    <2> QED
      BY <1>1, <1>3, <2>1 DEF WaitInv, GaveUpIn, GaveUpOut, WaitsFor
  <1> QED
    BY <1>2, <1>3 DEF Asleep

\* The invariant holds in every reachable state.
THEOREM IndInvariance == ~EarlyOpen => (Spec => []IndInv)
  <1> SUFFICES ASSUME ~EarlyOpen PROVE Spec => []IndInv
    OBVIOUS
  <1>1. IndInv /\ [Next]_vars => IndInv'
    BY IndStep
  <1> QED
    BY <1>1, IndInit, PTL DEF Spec

\* A task asleep for an event the buffer has will be woken: the wakeup is
\* still before some task.  Any number of readers, writers and pollers.
THEOREM WakeupsAreKept == ~EarlyOpen => (Spec => []NoLostWakeup)
  <1> SUFFICES ASSUME ~EarlyOpen PROVE Spec => []NoLostWakeup
    OBVIOUS
  <1> QED
    BY IndInvariance, SleepersAreCovered, PTL

=============================================================================
