------------------------- MODULE PollPromiseProofs --------------------------
(***************************************************************************)
(* Proofs that one reader, or one writer, is never disappointed: a read    *)
(* that saw bytes returns some, and what poll answered holds.  The reason  *)
(* is that only the reader moves ir, and that a writer never closes the    *)
(* gap from iw to ir, nor a reader the one from ir to iw.  On the same     *)
(* invariant rests the proof that PollDevice implements ByteQueue.         *)
(***************************************************************************)
EXTENDS PollDeviceProofs, SequenceTheorems

\* A task calls what it may call, has counted nothing before its copy, and
\* has promises only while its file is open; a writer at the wrap of iw does
\* not meet ir there; only a finished call has given up.
CallerInv ==
    \A t \in Tasks :
        /\ op[t] = "read" => t \in Readers
        /\ op[t] = "write" => t \in Writers
        /\ pc[t] \notin {"copy", "wrap", "wake", "ret"} => i[t] = 0
        /\ pc[t] = "wrap" /\ op[t] = "write" => ir # 0
        /\ mask[t] # {} => Open(t)
        /\ ret[t] = "EAGAIN" => pc[t] = "ret"

\* The task is at or behind the copy: what it was promised it is taking.
Taking(t, o) == op[t] = o /\ pc[t] \in {"copy", "wrap", "wake", "ret"}

\* The only reader r: its view of ir is exact, and a test that saw a byte,
\* or a promise of poll, means that there is one.
ReaderInv(r) ==
    /\ loaded[r] = "ir" => val[r] = ir
    /\ loaded[r] = "iw" /\ val[r] # ir => ir # iw
    /\ op[r] = "read" /\ (pc[r] = "down" \/ (pc[r] = "copy" /\ i[r] = 0)) => ir # iw
    /\ "in" \in mask[r] /\ ~Taking(r, "read") => ir # iw
    /\ "in" \in mask[r] /\ op[r] = "read" /\ loaded[r] = "iw" => val[r] # ir
    /\ "in" \in mask[r] => ~WouldBlock(r, "read")
    /\ Returned(r, "read") /\ len[r] > 0 => i[r] > 0

\* The only writer w, in the same way.
WriterInv(w) ==
    /\ loaded[w] = "iw" => val[w] = iw
    /\ loaded[w] = "ir" /\ iw # val[w] - 1 => iw # ir - 1
    /\ op[w] = "write" /\ (pc[w] = "down" \/ (pc[w] = "copy" /\ i[w] = 0)) => iw # ir - 1
    /\ "out" \in mask[w] /\ ~Taking(w, "write") => iw # ir - 1
    /\ "out" \in mask[w] /\ op[w] = "write" /\ loaded[w] = "ir" => iw # val[w] - 1
    /\ "out" \in mask[w] => ~WouldBlock(w, "write")

ReadersInv == OneReader => \A r \in Readers : ReaderInv(r)
WritersInv == OneWriter => \A w \in Writers : WriterInv(w)

-----------------------------------------------------------------------------
\* Who calls what, step by step.
LEMMA CallerStep == ~EarlyOpen /\ IndInv /\ CallerInv /\ [Next]_vars => CallerInv'
  <1> SUFFICES ASSUME ~EarlyOpen, IndInv, CallerInv, [Next]_vars PROVE CallerInv'
    OBVIOUS
  <1> USE NAssumption
      DEF IndInv, BaseInv, TypeOK, ControlType, DeviceType, CopyType, PollType,
          TestType, session, ring, queues, request, progress, test, CallerInv, Goto,
          Open
  <1>1. CASE Insmod
    <2>1. \A u \in Tasks : pc'[u] = "user"
      BY <1>1 DEF Insmod, SessionInv, OpenTasks, InCall
    <2> QED
      BY <1>1, <2>1 DEF Insmod
  <1>2. CASE InitUseCount
    BY <1>2 DEF InitUseCount
  <1>3. CASE Rmmod
    BY <1>3 DEF Rmmod
  <1>4. ASSUME NEW t \in Tasks, NEW mode \in Modes, DeviceOpen(t, mode) PROVE CallerInv'
    <2>1. CASE use_count = 0
      BY <1>4, <2>1, ResetFindsNoCall, InputAssumption DEF DeviceOpen
    <2>2. CASE use_count # 0
      BY <1>4, <2>2, InputAssumption DEF DeviceOpen
    <2> QED
      BY <2>1, <2>2
  <1>5. ASSUME NEW t \in Tasks, DeviceRelease(t) PROVE CallerInv'
    BY <1>5 DEF DeviceRelease
  <1>6. ASSUME NEW t \in Tasks, NEW n \in Lens, NEW o \in {"read", "write"},
           t \in IF o = "read" THEN Readers ELSE Writers, CallReadWrite(t, o, n)
        PROVE CallerInv'
    BY <1>6 DEF CallReadWrite
  <1>7. ASSUME NEW t \in Tasks, NEW ev \in SUBSET Events, CallPoll(t, ev) PROVE CallerInv'
    BY <1>7 DEF CallPoll
  <1>8. ASSUME NEW t \in Tasks, ReturnToUser(t) PROVE CallerInv'
    BY <1>8 DEF ReturnToUser, UsesUp
  <1>9. ASSUME NEW t \in Tasks, Signal(t) PROVE CallerInv'
    BY <1>9 DEF Signal
  <1>10. ASSUME NEW t \in Tasks, LoadFirst(t) PROVE CallerInv'
    BY <1>10 DEF LoadFirst
  <1>11. ASSUME NEW t \in Tasks, TryNonblock(t) PROVE CallerInv'
    BY <1>11 DEF TryNonblock, TestDone, Result
  <1>12. ASSUME NEW t \in Tasks, CheckLoop(t) PROVE CallerInv'
    BY <1>12 DEF CheckLoop, TestDone
  <1>13. ASSUME NEW t \in Tasks, PrepareToSleep(t) PROVE CallerInv'
    BY <1>13 DEF PrepareToSleep
  <1>14. ASSUME NEW t \in Tasks, Recheck(t) PROVE CallerInv'
    BY <1>14 DEF Recheck, TestDone
  <1>15. ASSUME NEW t \in Tasks, Schedule(t) PROVE CallerInv'
    BY <1>15 DEF Schedule, Result
  <1>16. ASSUME NEW t \in Tasks, Down(t) PROVE CallerInv'
    BY <1>16 DEF Down
  <1>17. ASSUME NEW t \in Tasks, DownInterrupted(t) PROVE CallerInv'
    BY <1>17 DEF DownInterrupted, Result
  <1>18. ASSUME NEW t \in Tasks, ReadByte(t) PROVE CallerInv'
    <2>1. /\ ir' # 0 /\ op[t] = "read" /\ ret[t] # "EAGAIN"
          /\ pc[t] = "copy" /\ pc'[t] \in CopyLoop
      BY <1>18 DEF ReadByte, CopyLoop
    <2>2. \A u \in Tasks \ {t} : pc'[u] = pc[u] /\ i'[u] = i[u]
      BY <1>18 DEF ReadByte
    <2> QED
      BY <1>18, <2>1, <2>2 DEF ReadByte, CopyLoop
  <1>19. ASSUME NEW t \in Tasks, WriteByte(t) PROVE CallerInv'
    BY <1>19 DEF WriteByte, CopyStops, CopyInv, CopyLoop, CopyExclusive, PastEnd, Limit
  <1>20. ASSUME NEW t \in Tasks, WrapIndex(t) PROVE CallerInv'
    BY <1>20 DEF WrapIndex, CopyExclusive, CopyLoop
  <1>21. ASSUME NEW t \in Tasks, Up(t) PROVE CallerInv'
    BY <1>21 DEF Up, CopyStops, Result
  <1>22. ASSUME NEW t \in Tasks, WakeOther(t) PROVE CallerInv'
    BY <1>22 DEF WakeOther, Result
  <1>23. ASSUME NEW t \in Tasks, PollWait(t) PROVE CallerInv'
    BY <1>23 DEF PollWait
  <1>24. ASSUME NEW t \in Tasks, PollLock(t) PROVE CallerInv'
    BY <1>24 DEF PollLock
  <1>25. ASSUME NEW t \in Tasks, PollIn(t) PROVE CallerInv'
    <2>1. Open(t)
      BY <1>25 DEF PollIn, TestDone, SessionInv, InCall
    <2>2. \A u \in Tasks \ {t} : mask'[u] = mask[u]
      BY <1>25 DEF PollIn
    <2> QED
      BY <1>25, <2>1, <2>2 DEF PollIn, TestDone
  <1>26. ASSUME NEW t \in Tasks, PollOut(t) PROVE CallerInv'
    <2>1. Open(t)
      BY <1>26 DEF PollOut, TestDone, SessionInv, InCall
    <2>2. \A u \in Tasks \ {t} : mask'[u] = mask[u]
      BY <1>26 DEF PollOut
    <2> QED
      BY <1>26, <2>1, <2>2 DEF PollOut, TestDone
  <1>27. ASSUME NEW t \in Tasks, PollDecide(t) PROVE CallerInv'
    BY <1>27 DEF PollDecide, Result
  <1>28. ASSUME NEW t \in Tasks, PollWoken(t) PROVE CallerInv'
    BY <1>28 DEF PollWoken
  <1>29. ASSUME NEW t \in Tasks, PollTimeout(t) PROVE CallerInv'
    BY <1>29 DEF PollTimeout
  <1>30. CASE UNCHANGED vars
    BY <1>30 DEF vars
  <1> QED
    BY <1>1, <1>2, <1>3, <1>4, <1>5, <1>6, <1>7, <1>8, <1>9, <1>10, <1>11, <1>12,
       <1>13, <1>14, <1>15, <1>16, <1>17, <1>18, <1>19, <1>20, <1>21, <1>22, <1>23,
       <1>24, <1>25, <1>26, <1>27, <1>28, <1>29, <1>30
       DEF Next, UserStep, KernelStep, DeviceRead, DeviceWrite, ReadWriteStep,
           DevicePoll, PollCore

\* The open that resets the indices finds no file open.
LEMMA ResetFindsNoFile ==
  ASSUME ~EarlyOpen, UseCountExact, NEW t \in Tasks, NEW mode \in Modes,
         DeviceOpen(t, mode), use_count = 0
  PROVE  OpenTasks = {}
  <1>1. Cardinality(OpenTasks) = 0
    BY DEF DeviceOpen, UseCountExact
  <1> QED
    BY <1>1, OpenTasksFinite, FS_EmptySet

\* The caller's part holds initially.
LEMMA CallerInit == Init => CallerInv
  BY DEF Init, CallerInv, Open

-----------------------------------------------------------------------------
\* What the only reader was promised, step by step.
LEMMA ReaderStep ==
  ASSUME ~EarlyOpen, IndInv, CallerInv, NEW r \in Readers, Readers = {r}, ReaderInv(r),
         [Next]_vars
  PROVE  ReaderInv(r)'
  <1> USE NAssumption
      DEF IndInv, BaseInv, TypeOK, ControlType, DeviceType, CopyType, PollType,
          TestType, session, ring, queues, request, progress, test, ReaderInv, Taking,
          WouldBlock, Returned, Goto
  <1>0. r \in Tasks
    BY DEF Tasks
  <1>1. CASE Insmod
    <2>1. pc[r] = "user" /\ mask[r] = {}
      BY <1>1, <1>0 DEF Insmod, SessionInv, OpenTasks, InCall, CallerInv
    <2> QED
      BY <1>1, <1>0, <2>1 DEF Insmod, LoadInv, Tests, RWTests, PollTests
  <1>2. CASE InitUseCount
    BY <1>2, <1>0 DEF InitUseCount
  <1>3. CASE Rmmod
    BY <1>3, <1>0 DEF Rmmod
  <1>4. ASSUME NEW t \in Tasks, NEW mode \in Modes, DeviceOpen(t, mode) PROVE ReaderInv(r)'
    <2>1. CASE use_count = 0
      <3>1. pc[r] = "user" /\ mask[r] = {}
        BY <1>4, <1>0, <2>1, ResetFindsNoFile
           DEF SessionInv, OpenTasks, InCall, CallerInv
      <3> QED
        BY <1>4, <1>0, <3>1 DEF DeviceOpen, LoadInv, Tests, RWTests, PollTests
    <2>2. CASE use_count # 0
      BY <1>4, <1>0, <2>2 DEF DeviceOpen
    <2> QED
      BY <2>1, <2>2
  <1>5. ASSUME NEW t \in Tasks, DeviceRelease(t) PROVE ReaderInv(r)'
    BY <1>5, <1>0 DEF DeviceRelease
  <1>6. ASSUME NEW t \in Tasks, NEW n \in Lens, NEW o \in {"read", "write"},
           t \in IF o = "read" THEN Readers ELSE Writers, CallReadWrite(t, o, n)
        PROVE ReaderInv(r)'
    <2>1. CASE t = r
      BY <1>6, <1>0, <2>1
         DEF CallReadWrite, CallerInv, LoadInv, Tests, RWTests, PollTests
    <2>2. CASE t # r
      BY <1>6, <1>0, <2>2 DEF CallReadWrite
    <2> QED
      BY <2>1, <2>2
  <1>7. ASSUME NEW t \in Tasks, NEW ev \in SUBSET Events, CallPoll(t, ev) PROVE ReaderInv(r)'
    BY <1>7, <1>0 DEF CallPoll
  <1>8. ASSUME NEW t \in Tasks, ReturnToUser(t) PROVE ReaderInv(r)'
    BY <1>8, <1>0 DEF ReturnToUser, UsesUp, CallerInv
  <1>9. ASSUME NEW t \in Tasks, Signal(t) PROVE ReaderInv(r)'
    BY <1>9, <1>0 DEF Signal
  <1>10. ASSUME NEW t \in Tasks, LoadFirst(t) PROVE ReaderInv(r)'
    BY <1>10, <1>0 DEF LoadFirst, Tests, RWTests, PollTests
  <1>11. ASSUME NEW t \in Tasks, TryNonblock(t) PROVE ReaderInv(r)'
    BY <1>11, <1>0
       DEF TryNonblock, TestDone, Result, IsBufferEmpty, IrSeen, IwSeen, BufferFull,
           Blocked
  <1>12. ASSUME NEW t \in Tasks, CheckLoop(t) PROVE ReaderInv(r)'
    BY <1>12, <1>0
       DEF CheckLoop, TestDone, IsBufferEmpty, IrSeen, IwSeen, BufferFull, Blocked
  <1>13. ASSUME NEW t \in Tasks, PrepareToSleep(t) PROVE ReaderInv(r)'
    BY <1>13, <1>0 DEF PrepareToSleep
  <1>14. ASSUME NEW t \in Tasks, Recheck(t) PROVE ReaderInv(r)'
    BY <1>14, <1>0
       DEF Recheck, TestDone, IsBufferEmpty, IrSeen, IwSeen, BufferFull, Blocked
  <1>15. ASSUME NEW t \in Tasks, Schedule(t) PROVE ReaderInv(r)'
    BY <1>15, <1>0 DEF Schedule, Result
  <1>16. ASSUME NEW t \in Tasks, Down(t) PROVE ReaderInv(r)'
    BY <1>16, <1>0
       DEF Down, CopyExclusive, CopyLoop, CopyInv, CallerInv, CopyStops, PastEnd,
           Limit, OpInv
  <1>17. ASSUME NEW t \in Tasks, DownInterrupted(t) PROVE ReaderInv(r)'
    BY <1>17, <1>0 DEF DownInterrupted, Result
  <1>18. ASSUME NEW t \in Tasks, ReadByte(t) PROVE ReaderInv(r)'
    <2>1. CASE t = r
      <3>1. pc[r] = "copy" /\ op'[r] = "read" /\ i'[r] > 0 /\ pc'[r] \in {"copy", "wrap"}
        BY <1>18, <1>0, <2>1 DEF ReadByte
      <3>2. loaded'[r] = "none" /\ ret'[r] # "EAGAIN" /\ mask' = mask
        BY <1>18, <1>0, <2>1, <3>1
           DEF ReadByte, CallerInv, LoadInv, Tests, RWTests, PollTests
      <3> QED
        BY <3>1, <3>2
    <2>2. CASE t # r
      BY <1>18, <1>0, <2>2 DEF ReadByte, CallerInv, OpInv, CopyLoop
    <2> QED
      BY <2>1, <2>2
  <1>19. ASSUME NEW t \in Tasks, WriteByte(t) PROVE ReaderInv(r)'
    BY <1>19, <1>0
       DEF WriteByte, CopyExclusive, CopyLoop, CopyInv, CallerInv, CopyStops, PastEnd,
           Limit, OpInv
  <1>20. ASSUME NEW t \in Tasks, WrapIndex(t) PROVE ReaderInv(r)'
    <2>1. CASE t = r
      <3>1. pc[r] = "wrap" /\ op'[r] = op[r] /\ i'[r] > 0 /\ pc'[r] = "copy"
        BY <1>20, <1>0, <2>1 DEF WrapIndex, CopyInv
      <3>2. loaded'[r] = "none" /\ ret'[r] # "EAGAIN" /\ mask' = mask
        BY <1>20, <1>0, <2>1, <3>1
           DEF WrapIndex, CallerInv, LoadInv, Tests, RWTests, PollTests
      <3>3. op[r] = "read" \/ (op[r] = "write" /\ ir' # iw')
        BY <1>20, <1>0, <2>1, <3>1 DEF WrapIndex, CallerInv, OpInv, CopyLoop
      <3> QED
        BY <3>1, <3>2, <3>3
    <2>2. CASE t # r
      BY <1>20, <1>0, <2>2 DEF WrapIndex, CallerInv, OpInv, CopyLoop
    <2> QED
      BY <2>1, <2>2
  <1>21. ASSUME NEW t \in Tasks, Up(t) PROVE ReaderInv(r)'
    BY <1>21, <1>0
       DEF Up, CopyStops, Result, CopyExclusive, CopyLoop, CopyInv, CallerInv,
           PastEnd, Limit, OpInv
  <1>22. ASSUME NEW t \in Tasks, WakeOther(t) PROVE ReaderInv(r)'
    <2>1. CASE t = r
      BY <1>22, <1>0, <2>1 DEF WakeOther, Result, CopyInv, CallerInv
    <2>2. CASE t # r
      BY <1>22, <1>0, <2>2 DEF WakeOther, Result
    <2> QED
      BY <2>1, <2>2
  <1>23. ASSUME NEW t \in Tasks, PollWait(t) PROVE ReaderInv(r)'
    BY <1>23, <1>0 DEF PollWait
  <1>24. ASSUME NEW t \in Tasks, PollLock(t) PROVE ReaderInv(r)'
    BY <1>24, <1>0 DEF PollLock
  <1>25. ASSUME NEW t \in Tasks, PollIn(t) PROVE ReaderInv(r)'
    <2>1. CASE t = r
      BY <1>25, <1>0, <2>1
         DEF PollIn, TestDone, IsBufferEmpty, IrSeen, IwSeen, OpInv, PollPCs,
             PollTests, CallerInv
    <2>2. CASE t # r
      BY <1>25, <1>0, <2>2 DEF PollIn, TestDone
    <2> QED
      BY <2>1, <2>2
  <1>26. ASSUME NEW t \in Tasks, PollOut(t) PROVE ReaderInv(r)'
    BY <1>26, <1>0
       DEF PollOut, TestDone, IsBufferEmpty, IrSeen, IwSeen, BufferFull, Blocked
  <1>27. ASSUME NEW t \in Tasks, PollDecide(t) PROVE ReaderInv(r)'
    <2>1. CASE t = r
      BY <1>27, <1>0, <2>1 DEF PollDecide, Result, OpInv, PollPCs
    <2>2. CASE t # r
      BY <1>27, <1>0, <2>2 DEF PollDecide, Result
    <2> QED
      BY <2>1, <2>2
  <1>28. ASSUME NEW t \in Tasks, PollWoken(t) PROVE ReaderInv(r)'
    BY <1>28, <1>0 DEF PollWoken
  <1>29. ASSUME NEW t \in Tasks, PollTimeout(t) PROVE ReaderInv(r)'
    BY <1>29, <1>0 DEF PollTimeout
  <1>30. CASE UNCHANGED vars
    BY <1>30, <1>0 DEF vars
  <1> QED
    BY <1>1, <1>2, <1>3, <1>4, <1>5, <1>6, <1>7, <1>8, <1>9, <1>10, <1>11, <1>12,
       <1>13, <1>14, <1>15, <1>16, <1>17, <1>18, <1>19, <1>20, <1>21, <1>22, <1>23,
       <1>24, <1>25, <1>26, <1>27, <1>28, <1>29, <1>30
       DEF Next, UserStep, KernelStep, DeviceRead, DeviceWrite, ReadWriteStep,
           DevicePoll, PollCore

-----------------------------------------------------------------------------
\* What the only writer was promised, step by step.
LEMMA WriterStep ==
  ASSUME ~EarlyOpen, IndInv, CallerInv, NEW w \in Writers, Writers = {w}, WriterInv(w),
         [Next]_vars
  PROVE  WriterInv(w)'
  <1> USE NAssumption
      DEF IndInv, BaseInv, TypeOK, ControlType, DeviceType, CopyType, PollType,
          TestType, session, ring, queues, request, progress, test, WriterInv, Taking,
          WouldBlock, Goto
  <1>0. w \in Tasks
    BY DEF Tasks
  <1>1. CASE Insmod
    <2>1. pc[w] = "user" /\ mask[w] = {}
      BY <1>1, <1>0 DEF Insmod, SessionInv, OpenTasks, InCall, CallerInv
    <2> QED
      BY <1>1, <1>0, <2>1 DEF Insmod, LoadInv, Tests, RWTests, PollTests
  <1>2. CASE InitUseCount
    BY <1>2, <1>0 DEF InitUseCount
  <1>3. CASE Rmmod
    BY <1>3, <1>0 DEF Rmmod
  <1>4. ASSUME NEW t \in Tasks, NEW mode \in Modes, DeviceOpen(t, mode) PROVE WriterInv(w)'
    <2>1. CASE use_count = 0
      <3>1. pc[w] = "user" /\ mask[w] = {}
        BY <1>4, <1>0, <2>1, ResetFindsNoFile
           DEF SessionInv, OpenTasks, InCall, CallerInv
      <3> QED
        BY <1>4, <1>0, <3>1 DEF DeviceOpen, LoadInv, Tests, RWTests, PollTests
    <2>2. CASE use_count # 0
      BY <1>4, <1>0, <2>2 DEF DeviceOpen
    <2> QED
      BY <2>1, <2>2
  <1>5. ASSUME NEW t \in Tasks, DeviceRelease(t) PROVE WriterInv(w)'
    BY <1>5, <1>0 DEF DeviceRelease
  <1>6. ASSUME NEW t \in Tasks, NEW n \in Lens, NEW o \in {"read", "write"},
           t \in IF o = "read" THEN Readers ELSE Writers, CallReadWrite(t, o, n)
        PROVE WriterInv(w)'
    <2>1. CASE t = w
      BY <1>6, <1>0, <2>1
         DEF CallReadWrite, CallerInv, LoadInv, Tests, RWTests, PollTests
    <2>2. CASE t # w
      BY <1>6, <1>0, <2>2 DEF CallReadWrite
    <2> QED
      BY <2>1, <2>2
  <1>7. ASSUME NEW t \in Tasks, NEW ev \in SUBSET Events, CallPoll(t, ev) PROVE WriterInv(w)'
    BY <1>7, <1>0 DEF CallPoll
  <1>8. ASSUME NEW t \in Tasks, ReturnToUser(t) PROVE WriterInv(w)'
    BY <1>8, <1>0 DEF ReturnToUser, UsesUp, CallerInv
  <1>9. ASSUME NEW t \in Tasks, Signal(t) PROVE WriterInv(w)'
    BY <1>9, <1>0 DEF Signal
  <1>10. ASSUME NEW t \in Tasks, LoadFirst(t) PROVE WriterInv(w)'
    BY <1>10, <1>0 DEF LoadFirst, Tests, RWTests, PollTests
  <1>11. ASSUME NEW t \in Tasks, TryNonblock(t) PROVE WriterInv(w)'
    BY <1>11, <1>0
       DEF TryNonblock, TestDone, Result, IsBufferEmpty, IrSeen, IwSeen, BufferFull,
           Blocked
  <1>12. ASSUME NEW t \in Tasks, CheckLoop(t) PROVE WriterInv(w)'
    BY <1>12, <1>0
       DEF CheckLoop, TestDone, IsBufferEmpty, IrSeen, IwSeen, BufferFull, Blocked
  <1>13. ASSUME NEW t \in Tasks, PrepareToSleep(t) PROVE WriterInv(w)'
    BY <1>13, <1>0 DEF PrepareToSleep
  <1>14. ASSUME NEW t \in Tasks, Recheck(t) PROVE WriterInv(w)'
    BY <1>14, <1>0
       DEF Recheck, TestDone, IsBufferEmpty, IrSeen, IwSeen, BufferFull, Blocked
  <1>15. ASSUME NEW t \in Tasks, Schedule(t) PROVE WriterInv(w)'
    BY <1>15, <1>0 DEF Schedule, Result
  <1>16. ASSUME NEW t \in Tasks, Down(t) PROVE WriterInv(w)'
    BY <1>16, <1>0
       DEF Down, CopyExclusive, CopyLoop, CopyInv, CallerInv, CopyStops, PastEnd,
           Limit, OpInv
  <1>17. ASSUME NEW t \in Tasks, DownInterrupted(t) PROVE WriterInv(w)'
    BY <1>17, <1>0 DEF DownInterrupted, Result
  <1>18. ASSUME NEW t \in Tasks, ReadByte(t) PROVE WriterInv(w)'
    BY <1>18, <1>0
       DEF ReadByte, CopyExclusive, CopyLoop, CopyInv, CallerInv, CopyStops, PastEnd,
           Limit, OpInv
  <1>19. ASSUME NEW t \in Tasks, WriteByte(t) PROVE WriterInv(w)'
    <2>1. CASE t = w
      <3>1. pc[w] = "copy" /\ op'[w] = "write" /\ i'[w] > 0 /\ pc'[w] \in {"copy", "wrap"}
        BY <1>19, <1>0, <2>1 DEF WriteByte
      <3>2. loaded'[w] = "none" /\ ret'[w] # "EAGAIN" /\ mask' = mask
        BY <1>19, <1>0, <2>1, <3>1
           DEF WriteByte, CallerInv, LoadInv, Tests, RWTests, PollTests
      <3> QED
        BY <3>1, <3>2
    <2>2. CASE t # w
      BY <1>19, <1>0, <2>2 DEF WriteByte, CallerInv, OpInv, CopyLoop
    <2> QED
      BY <2>1, <2>2
  <1>20. ASSUME NEW t \in Tasks, WrapIndex(t) PROVE WriterInv(w)'
    <2>1. CASE t = w
      <3>1. pc[w] = "wrap" /\ op'[w] = op[w] /\ i'[w] > 0 /\ pc'[w] = "copy"
        BY <1>20, <1>0, <2>1 DEF WrapIndex, CopyInv
      <3>2. loaded'[w] = "none" /\ ret'[w] # "EAGAIN" /\ mask' = mask
        BY <1>20, <1>0, <2>1, <3>1
           DEF WrapIndex, CallerInv, LoadInv, Tests, RWTests, PollTests
      <3>3. op[w] = "write" \/ (op[w] = "read" /\ ir' = 0 /\ iw' = iw)
        BY <1>20, <1>0, <2>1, <3>1 DEF WrapIndex, CallerInv, OpInv, CopyLoop
      <3> QED
        BY <3>1, <3>2, <3>3
    <2>2. CASE t # w
      BY <1>20, <1>0, <2>2 DEF WrapIndex, CallerInv, OpInv, CopyLoop
    <2> QED
      BY <2>1, <2>2
  <1>21. ASSUME NEW t \in Tasks, Up(t) PROVE WriterInv(w)'
    BY <1>21, <1>0
       DEF Up, CopyStops, Result, CopyExclusive, CopyLoop, CopyInv, CallerInv,
           PastEnd, Limit, OpInv
  <1>22. ASSUME NEW t \in Tasks, WakeOther(t) PROVE WriterInv(w)'
    <2>1. CASE t = w
      BY <1>22, <1>0, <2>1 DEF WakeOther, Result, CopyInv, CallerInv
    <2>2. CASE t # w
      BY <1>22, <1>0, <2>2 DEF WakeOther, Result
    <2> QED
      BY <2>1, <2>2
  <1>23. ASSUME NEW t \in Tasks, PollWait(t) PROVE WriterInv(w)'
    BY <1>23, <1>0 DEF PollWait
  <1>24. ASSUME NEW t \in Tasks, PollLock(t) PROVE WriterInv(w)'
    BY <1>24, <1>0 DEF PollLock
  <1>25. ASSUME NEW t \in Tasks, PollIn(t) PROVE WriterInv(w)'
    BY <1>25, <1>0
       DEF PollIn, TestDone, IsBufferEmpty, IrSeen, IwSeen, BufferFull, Blocked
  <1>26. ASSUME NEW t \in Tasks, PollOut(t) PROVE WriterInv(w)'
    <2>1. CASE t = w
      BY <1>26, <1>0, <2>1
         DEF PollOut, TestDone, BufferFull, IrSeen, IwSeen, OpInv, PollPCs, PollTests,
             CallerInv
    <2>2. CASE t # w
      BY <1>26, <1>0, <2>2 DEF PollOut, TestDone
    <2> QED
      BY <2>1, <2>2
  <1>27. ASSUME NEW t \in Tasks, PollDecide(t) PROVE WriterInv(w)'
    <2>1. CASE t = w
      BY <1>27, <1>0, <2>1 DEF PollDecide, Result, OpInv, PollPCs
    <2>2. CASE t # w
      BY <1>27, <1>0, <2>2 DEF PollDecide, Result
    <2> QED
      BY <2>1, <2>2
  <1>28. ASSUME NEW t \in Tasks, PollWoken(t) PROVE WriterInv(w)'
    BY <1>28, <1>0 DEF PollWoken
  <1>29. ASSUME NEW t \in Tasks, PollTimeout(t) PROVE WriterInv(w)'
    BY <1>29, <1>0 DEF PollTimeout
  <1>30. CASE UNCHANGED vars
    BY <1>30, <1>0 DEF vars
  <1> QED
    BY <1>1, <1>2, <1>3, <1>4, <1>5, <1>6, <1>7, <1>8, <1>9, <1>10, <1>11, <1>12,
       <1>13, <1>14, <1>15, <1>16, <1>17, <1>18, <1>19, <1>20, <1>21, <1>22, <1>23,
       <1>24, <1>25, <1>26, <1>27, <1>28, <1>29, <1>30
       DEF Next, UserStep, KernelStep, DeviceRead, DeviceWrite, ReadWriteStep,
           DevicePoll, PollCore

-----------------------------------------------------------------------------
\* The three parts as one inductive invariant.
PromiseInv == IndInv /\ CallerInv /\ ReadersInv /\ WritersInv

\* It holds initially.
LEMMA PromiseInit == Init => PromiseInv
  <1> SUFFICES ASSUME Init PROVE ReadersInv /\ WritersInv
    BY IndInit, CallerInit DEF PromiseInv
  <1>1. ReadersInv
    BY DEF Init, ReadersInv, ReaderInv, Taking, WouldBlock, Returned, Tasks
  <1>2. WritersInv
    BY DEF Init, WritersInv, WriterInv, Taking, WouldBlock, Tasks
  <1> QED
    BY <1>1, <1>2

\* Every step keeps it.
LEMMA PromiseStep == ~EarlyOpen /\ PromiseInv /\ [Next]_vars => PromiseInv'
  <1> SUFFICES ASSUME ~EarlyOpen, PromiseInv, [Next]_vars PROVE PromiseInv'
    OBVIOUS
  <1>1. IndInv' /\ CallerInv'
    BY IndStep, CallerStep DEF PromiseInv
  <1>2. ASSUME NEW r \in Readers, Readers = {r} PROVE ReaderInv(r)'
    BY <1>2, ReaderStep DEF PromiseInv, ReadersInv, OneReader
  <1>3. ASSUME NEW w \in Writers, Writers = {w} PROVE WriterInv(w)'
    BY <1>3, WriterStep DEF PromiseInv, WritersInv, OneWriter
  <1> QED
    BY <1>1, <1>2, <1>3 DEF PromiseInv, ReadersInv, WritersInv, OneReader, OneWriter

\* So it holds in every reachable state.
LEMMA PromiseInvariance == ~EarlyOpen => (Spec => []PromiseInv)
  <1> SUFFICES ASSUME ~EarlyOpen PROVE Spec => []PromiseInv
    OBVIOUS
  <1>1. PromiseInv /\ [Next]_vars => PromiseInv'
    BY PromiseStep
  <1> QED
    BY <1>1, PromiseInit, PTL DEF Spec

\* With one reader, a read of at least a byte that ends well has read one,
\* however many writers and pollers there are (line 84 to line 112).
THEOREM ReadsDeliver == ~EarlyOpen => (Spec => []ReadDelivers)
  <1> SUFFICES ASSUME ~EarlyOpen PROVE Spec => []ReadDelivers
    OBVIOUS
  <1>1. PromiseInv => ReadDelivers
    BY DEF PromiseInv, ReadersInv, ReaderInv, ReadDelivers
  <1> QED
    BY <1>1, PromiseInvariance, PTL

\* What poll answered of reading (line 55) holds until the reader has read.
THEOREM PollInKept == ~EarlyOpen => (Spec => []PollInHolds)
  <1> SUFFICES ASSUME ~EarlyOpen PROVE Spec => []PollInHolds
    OBVIOUS
  <1>1. PromiseInv => PollInHolds
    BY DEF PromiseInv, ReadersInv, ReaderInv, PollInHolds
  <1> QED
    BY <1>1, PromiseInvariance, PTL

\* What poll answered of writing (line 61) holds until the writer has written.
THEOREM PollOutKept == ~EarlyOpen => (Spec => []PollOutHolds)
  <1> SUFFICES ASSUME ~EarlyOpen PROVE Spec => []PollOutHolds
    OBVIOUS
  <1>1. PromiseInv => PollOutHolds
    BY DEF PromiseInv, WritersInv, WriterInv, PollOutHolds
  <1> QED
    BY <1>1, PromiseInvariance, PTL

\* With one writer, a write that has passed its test copies nothing only if the
\* ring is full with ir at 0: the one state in which the comparison of line 39
\* and the limit of lines 153 and 154 disagree.
THEOREM WritesNothingOnlyAtZero == ~EarlyOpen => (Spec => []EmptyHandedAtZero)
  <1> SUFFICES ASSUME ~EarlyOpen PROVE Spec => []EmptyHandedAtZero
    OBVIOUS
  <1>1. PromiseInv => EmptyHandedAtZero
    <2> SUFFICES ASSUME PromiseInv, OneWriter, NEW w \in Writers, EmptyHanded(w)
                 PROVE  ir = 0 /\ iw = N - 1
      BY DEF EmptyHandedAtZero
    <2>1. iw # ir - 1
      BY DEF PromiseInv, WritersInv, WriterInv, EmptyHanded
    <2>2. ih[w] = Limit /\ len[w] \in Nat /\ i[w] \in Nat
      BY DEF PromiseInv, IndInv, BaseInv, TypeOK, CopyType, CopyInv, CopyLoop, EmptyHanded, Tasks
    <2> QED
      BY <2>1, <2>2 DEF EmptyHanded, CopyStops, Limit
  <1> QED
    BY <1>1, PromiseInvariance, PTL

-----------------------------------------------------------------------------
(***************************************************************************)
(* PollDevice implements ByteQueue, for rings of every size.  A copy step  *)
(* puts or takes one byte; opens, closes and loads are those of the queue; *)
(* every other step, the wrap of an index included, leaves the queue as it *)
(* is.                                                                     *)
(***************************************************************************)

(* The bytes between the indices, as a sequence.                           *)

\* A place up to twice around the ring, and the remainder that wraps it.
Around(x) == IF x < N THEN x ELSE x - N

\* The remainder is that place.
LEMMA RemainderIsAround ==
  /\ \A x \in 0 .. 2 * N - 1 : x % N = Around(x) /\ Around(x) \in 0 .. N - 1
  /\ (2 * N) % N = 0
  BY NAssumption DEF Around

\* The queue's variables, as the device has them.
queuevars == <<Contents, last, OpenTasks>>

\* A step of the queue, or none.
QueueMoves == [Abstract!Next]_queuevars

\* How many bytes there are, and where they are.
Shape ==
    /\ Used = IF ir <= iw THEN (IF ir = 0 /\ iw = N THEN 0 ELSE iw - ir) ELSE iw - ir + N
    /\ Used \in 0 .. N
    /\ Contents \in Seq(Data) /\ Len(Contents) = Used
    /\ \A k \in 1 .. Used : Contents[k] = rbuf[Around(ir + k - 1)]

\* It follows from the types.
LEMMA ShapeNow == DeviceType => Shape
  <1> SUFFICES ASSUME DeviceType PROVE Shape
    OBVIOUS
  <1> USE NAssumption DEF DeviceType
  <1>1. Used = IF ir <= iw THEN (IF ir = 0 /\ iw = N THEN 0 ELSE iw - ir) ELSE iw - ir + N
    <2>1. CASE ir = 0 /\ iw = N
      BY <2>1, RemainderIsAround DEF Used
    <2>2. CASE ~(ir = 0 /\ iw = N)
      <3>1. iw - ir + N \in 0 .. 2 * N - 1
        BY <2>2
      <3>2. Used = Around(iw - ir + N)
        BY <3>1, RemainderIsAround DEF Used
      <3> QED
        BY <2>2, <3>2 DEF Around
    <2> QED
      BY <2>1, <2>2
  <1>2. Used \in 0 .. N
    BY <1>1
  <1>3. \A k \in 1 .. Used :
           /\ (ir + k - 1) % N = Around(ir + k - 1)
           /\ Around(ir + k - 1) \in 0 .. N - 1
    <2>1. \A k \in 1 .. Used : ir + k - 1 \in 0 .. 2 * N - 1
      BY <1>1, <1>2
    <2> QED
      BY <2>1, RemainderIsAround
  <1>4. Contents \in [1 .. Used -> Data]
    BY <1>3 DEF Contents
  <1>5. Contents \in Seq(Data)
    BY <1>2, <1>4, SeqDef
  <1>6. Len(Contents) = Used
    BY <1>2, <1>4, <1>5, LenProperties
  <1>7. \A k \in 1 .. Used : Contents[k] = rbuf[Around(ir + k - 1)]
    BY <1>3 DEF Contents
  <1> QED
    BY <1>1, <1>2, <1>5, <1>6, <1>7 DEF Shape

\* In the next state too.
LEMMA ShapeNext == DeviceType' => Shape'
  BY ShapeNow, PTL

-----------------------------------------------------------------------------
(* The steps that change the queue.                                        *)

\* What the steps start from.
QueueStart == DeviceType /\ DeviceType' /\ PromiseInv /\ ~EarlyOpen

\* A byte read is taken from the front (line 105).
LEMMA ReadTakes ==
  ASSUME QueueStart, NEW t \in Tasks, ReadByte(t) PROVE Abstract!Take
  <1> USE NAssumption
  <1>1. /\ ir \in 0 .. N - 1 /\ iw \in 0 .. N - 1 /\ ir # iw
        /\ ir' = ir + 1 /\ iw' = iw /\ rbuf' = rbuf /\ last' = rbuf[ir]
    <2>1. ir # N /\ iw # N
      BY DEF QueueStart, PromiseInv, IndInv, BaseInv, CopyExclusive, ReadByte, CopyLoop
    <2>2. ir # iw
      BY DEF ReadByte, CopyStops
    <2> QED
      BY <2>1, <2>2 DEF ReadByte, QueueStart, DeviceType
  <1>2. Shape /\ Shape'
    BY ShapeNow, ShapeNext DEF QueueStart
  <1>3. Used' = Used - 1 /\ Used \in Nat \ {0}
    BY <1>1, <1>2 DEF Shape
  <1>4. Contents # <<>>
    BY <1>2, <1>3, EmptySeq DEF Shape
  <1>5. Head(Contents) = rbuf[ir]
    <2>1. Head(Contents) = Contents[1]
      BY <1>4
    <2>2. Around(ir + 1 - 1) = ir
      BY <1>1 DEF Around
    <2> QED
      BY <1>2, <1>3, <2>1, <2>2 DEF Shape
  <1>6. Contents' = Tail(Contents)
    <2>1. /\ Tail(Contents) \in Seq(Data) /\ Len(Tail(Contents)) = Used - 1
          /\ \A k \in 1 .. Used - 1 : Tail(Contents)[k] = Contents[k + 1]
      BY <1>2, <1>4, HeadTailProperties DEF Shape
    <2>2. Contents' \in Seq(Data) /\ Len(Contents') = Used - 1
      BY <1>2, <1>3 DEF Shape
    <2>3. \A k \in 1 .. Used - 1 : Contents'[k] = rbuf[Around(ir + 1 + k - 1)]
      BY <1>1, <1>2, <1>3 DEF Shape
    <2>4. \A k \in 1 .. Used - 1 : Contents[k + 1] = rbuf[Around(ir + (k + 1) - 1)]
      BY <1>2, <1>3 DEF Shape
    <2>5. \A k \in 1 .. Used - 1 : Contents'[k] = Tail(Contents)[k]
      <3>1. \A k \in 1 .. Used - 1 : ir + 1 + k - 1 = ir + (k + 1) - 1
        BY <1>1, <1>3
      <3> QED
        BY <2>1, <2>3, <2>4, <3>1
    <2> QED
      BY <1>3, <2>1, <2>2, <2>5, SeqEqual
  <1>7. OpenTasks # {} /\ OpenTasks' = OpenTasks
    BY DEF ReadByte, QueueStart, PromiseInv, IndInv, BaseInv, SessionInv, InCall, OpenTasks,
           Open, session
  <1> QED
    BY <1>1, <1>4, <1>5, <1>6, <1>7 DEF Abstract!Take

\* A byte written is put at the end (line 158), and there is room for it.
LEMMA WritePuts ==
  ASSUME QueueStart, NEW t \in Tasks, WriteByte(t) PROVE \E b \in Data : Abstract!Put(b)
  <1> USE NAssumption
  <1>0. PICK b \in Data : rbuf' = [rbuf EXCEPT ![iw] = b]
    BY DEF WriteByte
  <1>1. /\ ir \in 0 .. N - 1 /\ iw \in 0 .. N - 1
        /\ iw # IF ir = 0 THEN N - 1 ELSE ir - 1
        /\ iw' = iw + 1 /\ ir' = ir /\ last' = last
        /\ rbuf \in [0 .. N -> Data]
    <2>1. ir # N /\ iw # N
      BY DEF QueueStart, PromiseInv, IndInv, BaseInv, CopyExclusive, WriteByte, CopyLoop
    <2>2. iw # Limit
      BY DEF WriteByte, CopyStops, QueueStart, PromiseInv, IndInv, CopyInv, CopyLoop
    <2> QED
      BY <2>1, <2>2 DEF WriteByte, QueueStart, DeviceType, Limit
  <1>2. Shape /\ Shape'
    BY ShapeNow, ShapeNext DEF QueueStart
  <1>3. Used' = Used + 1 /\ Used \in Nat /\ Used < N - 1
    BY <1>1, <1>2 DEF Shape
  <1>4. Contents' = Append(Contents, b)
    <2>1. /\ Append(Contents, b) \in Seq(Data) /\ Len(Append(Contents, b)) = Used + 1
          /\ \A k \in 1 .. Used : Append(Contents, b)[k] = Contents[k]
          /\ Append(Contents, b)[Used + 1] = b
      BY <1>2, AppendProperties DEF Shape
    <2>2. Contents' \in Seq(Data) /\ Len(Contents') = Used + 1
      BY <1>2, <1>3 DEF Shape
    <2>3. \A k \in 1 .. Used + 1 : Contents'[k] = rbuf'[Around(ir + k - 1)]
      BY <1>1, <1>2, <1>3 DEF Shape
    <2>4. \A k \in 1 .. Used : Around(ir + k - 1) \in 0 .. N - 1 /\ Around(ir + k - 1) # iw
      BY <1>1, <1>2, <1>3 DEF Shape, Around
    <2>5. Around(ir + (Used + 1) - 1) = iw
      BY <1>1, <1>2, <1>3 DEF Shape, Around
    <2>6. ASSUME NEW k \in 1 .. Used + 1 PROVE Contents'[k] = Append(Contents, b)[k]
      <3>1. CASE k = Used + 1
        BY <1>0, <1>1, <2>1, <2>3, <2>5, <3>1
      <3>2. CASE k # Used + 1
        <4>1. k \in 1 .. Used
          BY <1>3, <3>2
        <4>2. rbuf'[Around(ir + k - 1)] = rbuf[Around(ir + k - 1)]
          BY <1>0, <1>1, <2>4, <4>1
        <4>3. Contents[k] = rbuf[Around(ir + k - 1)]
          BY <1>2, <4>1 DEF Shape
        <4> QED
          BY <2>1, <2>3, <4>1, <4>2, <4>3
      <3> QED
        BY <3>1, <3>2
    <2> QED
      BY <1>3, <2>1, <2>2, <2>6, SeqEqual
  <1>5. OpenTasks # {} /\ OpenTasks' = OpenTasks
    BY DEF WriteByte, QueueStart, PromiseInv, IndInv, BaseInv, SessionInv, InCall, OpenTasks,
           Open, session
  <1>6. Len(Contents) < N - 1
    BY <1>2, <1>3 DEF Shape
  <1> QED
    BY <1>1, <1>4, <1>5, <1>6 DEF Abstract!Put

\* An index that wraps (lines 107 and 160) changes nothing of the queue.
LEMMA WrapStutters ==
  ASSUME QueueStart, NEW t \in Tasks, WrapIndex(t) PROVE UNCHANGED queuevars
  <1> USE NAssumption
  <1>1. Shape /\ Shape'
    BY ShapeNow, ShapeNext DEF QueueStart
  <1>2. rbuf' = rbuf /\ last' = last /\ OpenTasks' = OpenTasks
    BY DEF WrapIndex, OpenTasks, Open, session
  <1>3. Used' = Used /\ \A k \in 1 .. Used : rbuf[Around(ir' + k - 1)] = rbuf[Around(ir + k - 1)]
    <2>1. CASE op[t] = "read"
      <3>1. ir = N /\ ir' = 0 /\ iw' = iw /\ iw \in 0 .. N - 1
        BY <2>1 DEF WrapIndex, QueueStart, PromiseInv, IndInv, BaseInv, CopyInv,
           CopyExclusive, CopyLoop, DeviceType
      <3>2. Used' = Used
        BY <1>1, <3>1 DEF Shape
      <3>3. \A k \in 1 .. Used : Around(ir' + k - 1) = Around(ir + k - 1)
        BY <1>1, <3>1 DEF Shape, Around
      <3> QED
        BY <3>2, <3>3
    <2>2. CASE op[t] # "read"
      <3>1. op[t] = "write"
        BY <2>2 DEF WrapIndex, QueueStart, PromiseInv, IndInv, OpInv, CopyLoop
      <3>2. iw = N /\ iw' = 0 /\ ir' = ir /\ ir \in 1 .. N - 1
        BY <2>2, <3>1 DEF WrapIndex, QueueStart, PromiseInv, IndInv, BaseInv, CopyInv,
           CopyExclusive, CopyLoop, DeviceType, CallerInv
      <3>3. Used' = Used
        BY <1>1, <3>2 DEF Shape
      <3> QED
        BY <3>2, <3>3
    <2> QED
      BY <2>1, <2>2
  <1>4. Contents' = Contents
    <2>1. \A k \in 1 .. Used : Contents'[k] = Contents[k]
      BY <1>1, <1>2, <1>3 DEF Shape
    <2>2. /\ Contents' \in Seq(Data) /\ Len(Contents') = Used
          /\ Contents \in Seq(Data) /\ Len(Contents) = Used
      BY <1>1, <1>3 DEF Shape
    <2> QED
      BY <2>1, <2>2, SeqEqual
  <1> QED
    BY <1>2, <1>4 DEF queuevars

\* Indices set to 0 leave no byte.
LEMMA ResetEmpties == ASSUME DeviceType', ir' = 0, iw' = 0 PROVE Contents' = <<>>
  <1>1. Shape'
    BY ShapeNext
  <1>2. Contents' \in Seq(Data) /\ Len(Contents') = 0
    BY <1>1, NAssumption DEF Shape
  <1> QED
    BY <1>2, EmptySeq

\* Loading the module finds no file open, and the queue starts again.
LEMMA LoadLoses == ASSUME QueueStart, Insmod PROVE Abstract!Lose
  <1>1. Contents' = <<>>
    BY ResetEmpties DEF QueueStart, Insmod
  <1>2. OpenTasks = {} /\ OpenTasks' = OpenTasks
    BY DEF QueueStart, PromiseInv, IndInv, BaseInv, SessionInv, Insmod, OpenTasks, Open
  <1> QED
    BY <1>1, <1>2 DEF Abstract!Lose, Insmod

\* A step that leaves ring and files alone leaves the queue alone.
LEMMA ElseStutters ==
  ASSUME UNCHANGED <<rbuf, ir, iw, last, file>> PROVE UNCHANGED queuevars
  BY DEF queuevars, Contents, Used, OpenTasks, Open

\* An open (line 178) empties the queue exactly when nobody has it open.
LEMMA OpenOpens ==
  ASSUME QueueStart, NEW t \in Tasks, NEW mode \in Modes, DeviceOpen(t, mode)
  PROVE  Abstract!OpenBy(t)
  <1>1. t \notin OpenTasks /\ OpenTasks' = OpenTasks \cup {t}
    BY InputAssumption
       DEF DeviceOpen, OpenTasks, Open, QueueStart, PromiseInv, IndInv, BaseInv, TypeOK, ControlType
  <1>2. Contents' = IF OpenTasks = {} THEN <<>> ELSE Contents
    <2>1. CASE use_count = 0
      <3>1. OpenTasks = {}
        BY <2>1, ResetFindsNoFile DEF QueueStart, PromiseInv, IndInv
      <3>2. Contents' = <<>>
        BY <2>1, ResetEmpties DEF QueueStart, DeviceOpen
      <3> QED
        BY <3>1, <3>2
    <2>2. CASE use_count # 0
      <3>1. OpenTasks # {}
        BY <2>2, FS_EmptySet DEF QueueStart, PromiseInv, IndInv, UseCountExact, DeviceOpen
      <3>2. Contents' = Contents
        BY <2>2 DEF DeviceOpen, Contents, Used
      <3> QED
        BY <3>1, <3>2
    <2> QED
      BY <2>1, <2>2
  <1> QED
    BY <1>1, <1>2 DEF Abstract!OpenBy, DeviceOpen

\* A release closes, and leaves the bytes.
LEMMA ReleaseCloses ==
  ASSUME QueueStart, NEW t \in Tasks, DeviceRelease(t) PROVE Abstract!CloseBy(t)
  <1>1. t \in OpenTasks /\ OpenTasks' = OpenTasks \ {t}
    BY DEF DeviceRelease, OpenTasks, Open, QueueStart, PromiseInv, IndInv, BaseInv, TypeOK,
       ControlType
  <1>2. Contents' = Contents /\ last' = last
    BY DEF DeviceRelease, ring, Contents, Used
  <1> QED
    BY <1>1, <1>2 DEF Abstract!CloseBy

-----------------------------------------------------------------------------
\* The first state of the device is one of the queue.
LEMMA ByteInit == Init => Abstract!Init
  <1> SUFFICES ASSUME Init PROVE Abstract!Init
    OBVIOUS
  <1> USE NAssumption, InputAssumption
  <1>1. DeviceType /\ ir = 0 /\ iw = 0
    BY DEF Init, DeviceType
  <1>2. Contents \in Seq(Data) /\ Len(Contents) = 0
    BY <1>1, ShapeNow DEF Shape
  <1>3. Contents = <<>>
    BY <1>2, EmptySeq
  <1> QED
    BY <1>3 DEF Init, Abstract!Init, OpenTasks, Open

\* Every step of the device is one of the queue, or none.
LEMMA ByteStep ==
  ~EarlyOpen /\ PromiseInv /\ [Next]_vars => QueueMoves
  <1> SUFFICES ASSUME ~EarlyOpen, PromiseInv, [Next]_vars PROVE QueueMoves
    OBVIOUS
  <1>0. QueueStart
    BY TypeStep DEF QueueStart, PromiseInv, IndInv, BaseInv, TypeOK
  <1> USE DEF session, ring
  <1>1. CASE Insmod
    BY <1>0, <1>1, LoadLoses DEF QueueMoves, Abstract!Next
  <1>2. ASSUME NEW t \in Tasks, NEW mode \in Modes, DeviceOpen(t, mode)
        PROVE  QueueMoves
    BY <1>0, <1>2, OpenOpens DEF QueueMoves, Abstract!Next
  <1>3. ASSUME NEW t \in Tasks, DeviceRelease(t) PROVE QueueMoves
    BY <1>0, <1>3, ReleaseCloses DEF QueueMoves, Abstract!Next
  <1>4. ASSUME NEW t \in Tasks, ReadByte(t) PROVE QueueMoves
    BY <1>0, <1>4, ReadTakes DEF QueueMoves, Abstract!Next
  <1>5. ASSUME NEW t \in Tasks, WriteByte(t) PROVE QueueMoves
    BY <1>0, <1>5, WritePuts DEF QueueMoves, Abstract!Next
  <1>6. ASSUME NEW t \in Tasks, WrapIndex(t) PROVE QueueMoves
    BY <1>0, <1>6, WrapStutters DEF QueueMoves
  <1>7. CASE InitUseCount \/ Rmmod \/ UNCHANGED vars
    BY <1>7, ElseStutters DEF QueueMoves, InitUseCount, Rmmod, vars
  <1>8. ASSUME NEW t \in Tasks, NEW n \in Lens, NEW o \in {"read", "write"},
               CallReadWrite(t, o, n)
        PROVE  QueueMoves
    BY <1>8, ElseStutters DEF QueueMoves, CallReadWrite
  <1>9. ASSUME NEW t \in Tasks, NEW ev \in SUBSET Events, CallPoll(t, ev)
        PROVE  QueueMoves
    BY <1>9, ElseStutters DEF QueueMoves, CallPoll
  <1>10. ASSUME NEW t \in Tasks,
            \/ ReturnToUser(t) \/ Signal(t) \/ LoadFirst(t) \/ TryNonblock(t) \/ CheckLoop(t)
            \/ PrepareToSleep(t) \/ Recheck(t) \/ Schedule(t) \/ Down(t) \/ DownInterrupted(t)
            \/ Up(t) \/ WakeOther(t)
         PROVE QueueMoves
    BY <1>10, ElseStutters
       DEF QueueMoves, ReturnToUser, Signal, LoadFirst, TryNonblock, CheckLoop, PrepareToSleep,
           Recheck, Schedule, Down, DownInterrupted, Up, WakeOther
  <1>11. ASSUME NEW t \in Tasks,
            \/ PollWait(t) \/ PollLock(t) \/ PollIn(t) \/ PollOut(t) \/ PollDecide(t)
            \/ PollWoken(t) \/ PollTimeout(t)
         PROVE QueueMoves
    BY <1>11, ElseStutters
       DEF QueueMoves, PollWait, PollLock, PollIn, PollOut, PollDecide, PollWoken, PollTimeout
  <1> QED
    BY <1>1, <1>2, <1>3, <1>4, <1>5, <1>6, <1>7, <1>8, <1>9, <1>10, <1>11
       DEF Next, UserStep, KernelStep, DeviceRead, DeviceWrite, ReadWriteStep, DevicePoll, PollCore

\* What the copies do, for any ring, any tasks and any bytes, is what a bounded
\* first-in first-out queue of N - 1 bytes does.
THEOREM QueueImplemented == ~EarlyOpen => (Spec => ImplementsByteQueue)
  <1> SUFFICES ASSUME ~EarlyOpen PROVE Spec => ImplementsByteQueue
    OBVIOUS
  <1>1. PromiseInv /\ [Next]_vars => QueueMoves
    BY ByteStep
  <1> QED
    BY <1>1, ByteInit, PromiseInvariance, PTL
       DEF Spec, ImplementsByteQueue, Abstract!Spec, Abstract!vars, queuevars, QueueMoves
=============================================================================
