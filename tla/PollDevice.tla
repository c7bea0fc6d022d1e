----------------------------- MODULE PollDevice -----------------------------
(***************************************************************************)
(* The character device of rw_poll_module_1/poll.c: a ring buffer that     *)
(* tasks read, write and poll.                                             *)
(*                                                                         *)
(* Every task runs one system call at a time.  A step is what another task *)
(* or an interrupt on another processor can see happen at once: the two    *)
(* loads of a test of the buffer are separate steps, because nothing locks *)
(* ir and iw against the tests; a byte of a copy is a step; and so is the  *)
(* wrap of an index, which is N for a moment.  Purely local statements are *)
(* joined to the step before them.                                         *)
(*                                                                         *)
(* The scheduler, signals, wait queues, the semaphore and the poll core    *)
(* are the kernel's; they are modelled as poll.c uses them.                *)
(***************************************************************************)
EXTENDS Integers, FiniteSets

CONSTANTS
    N,          \* number of ring slots in use (23 in the code)
    Readers,    \* tasks that may call read
    Writers,    \* tasks that may call write
    Pollers,    \* tasks that may call poll
    Signalled,  \* tasks that may be sent a signal
    Lens,       \* request lengths of read and write
    Data,       \* byte values
    Zero,       \* the byte the module's memory is loaded with
    Modes,      \* how files may be opened: "block", "nonblock" (O_NONBLOCK)
    EarlyOpen,  \* can the node be opened before my_init has finished?
    Free        \* the holder of a free lock

Tasks == Readers \cup Writers \cup Pollers

ASSUME NAssumption == N \in Nat /\ N > 1
ASSUME TaskAssumption == IsFiniteSet(Tasks) /\ Signalled \subseteq Tasks /\ Free \notin Tasks
ASSUME InputAssumption ==
    /\ Lens \subseteq Nat
    /\ Zero \in Data
    /\ Modes \subseteq {"block", "nonblock"}
    /\ EarlyOpen \in BOOLEAN

VARIABLES
    module,     \* "out", "adding" (my_init after cdev_add), "in"
    use_count, lock,
    rbuf, ir, iw, sema,
    last,       \* history: the byte read put last into a user's buffer
    waitq,      \* waitq["qin"], waitq["qout"]: the tasks linked to a queue
    state,      \* scheduler state of a task; a poller's is "INTERRUPTIBLE"
                \* from the arming of its wait until a queue triggers it
    sig,        \* signal_pending
    file,       \* a task's open file: "closed" or its mode
    pc, op, len, i, ih,
    loaded,     \* which index the running test has loaded first
    val,        \* and the value it saw
    mask,       \* poll's result, kept until a call of the task uses it up
    events,     \* the events a poll asks for
    ret         \* result of a finished call; a count is in i

session == <<module, use_count, lock, file>>
ring == <<rbuf, ir, iw, last, sema>>
queues == <<waitq, state>>
request == <<op, len, events>>
progress == <<i, ih>>
test == <<loaded, val>>
vars == <<session, ring, queues, sig, pc, request, progress, test, mask, ret>>

-----------------------------------------------------------------------------
(* Control points.                                                         *)

Queues == {"qin", "qout"}
Events == {"in", "out"}
WaitLoop == {"check", "prep", "recheck", "sched"}
CopyLoop == {"copy", "wrap"}
RWTests == {"try", "check", "recheck"}
PollTests == {"pollin", "pollout"}
Tests == RWTests \cup PollTests
PollPCs == {"poll", "lock", "decide", "sleep"} \cup PollTests
PCs == {"user", "down", "wake", "ret"}
         \cup RWTests \cup WaitLoop \cup CopyLoop \cup PollPCs

Goto(t, where) == pc' = [pc EXCEPT ![t] = where]

Open(t) == file[t] # "closed"
OpenTasks == {t \in Tasks : Open(t)}
InCall(t) == pc[t] # "user"

-----------------------------------------------------------------------------
(* The tests of the buffer.  ir == iw is two loads; the compiler may emit  *)
(* them in either order, and the other tasks move between the two.         *)

IrSeen(t) == IF loaded[t] = "ir" THEN val[t] ELSE ir
IwSeen(t) == IF loaded[t] = "iw" THEN val[t] ELSE iw

\* Mutated: one slot off.
IsBufferEmptyOff(t) == IrSeen(t) = IwSeen(t) - 1

IsBufferEmpty(t) == IrSeen(t) = IwSeen(t)
BufferFull(t) == IwSeen(t) = IrSeen(t) - 1

Blocked(t) == IF op[t] = "read" THEN IsBufferEmpty(t) ELSE BufferFull(t)

LoadFirst(t) ==
    /\ pc[t] \in Tests
    /\ loaded[t] = "none"
    /\ \/ loaded' = [loaded EXCEPT ![t] = "ir"] /\ val' = [val EXCEPT ![t] = ir]
       \/ loaded' = [loaded EXCEPT ![t] = "iw"] /\ val' = [val EXCEPT ![t] = iw]
    /\ UNCHANGED <<session, ring, queues, sig, pc, request, progress, mask, ret>>

\* The second load and the comparison, at control point "at".
TestDone(t, at) ==
    /\ pc[t] = at
    /\ loaded[t] # "none"
    /\ loaded' = [loaded EXCEPT ![t] = "none"]
    /\ val' = [val EXCEPT ![t] = 0]

-----------------------------------------------------------------------------
(* Wait queues and results.                                                *)

OwnQueue(t) == IF op[t] = "read" THEN "qin" ELSE "qout"
\* Mutated: the wakeup goes to the tasks that wait for the same event.
OtherQueueSame(t) == IF op[t] = "read" THEN "qin" ELSE "qout"
OtherQueue(t) == IF op[t] = "read" THEN "qout" ELSE "qin"

\* set_current_state(TASK_RUNNING); remove_wait_queue
LeaveQueue(t) ==
    /\ state' = [state EXCEPT ![t] = "RUNNING"]
    /\ waitq' = [q \in Queues |-> waitq[q] \ {t}]

WakeUpInterruptible(q) ==
    state' = [t \in Tasks |-> IF t \in waitq[q] THEN "RUNNING" ELSE state[t]]

\* return r
Result(t, r) == ret' = [ret EXCEPT ![t] = r] /\ Goto(t, "ret")

-----------------------------------------------------------------------------
(* device_read and device_write up to the copy: the same steps, on the     *)
(* other queue and with the other test.                                    *)

\* The first test: only an O_NONBLOCK file gives up on it.
TryNonblock(t) ==
    /\ TestDone(t, "try")
    /\ IF Blocked(t) /\ file[t] = "nonblock"
       THEN Result(t, "EAGAIN") /\ UNCHANGED waitq
       ELSE /\ waitq' = [waitq EXCEPT ![OwnQueue(t)] = @ \cup {t}]
            /\ Goto(t, "check")
            /\ UNCHANGED ret
    /\ UNCHANGED <<session, ring, state, sig, request, progress, mask>>

\* The condition of the while loop.
CheckLoop(t) ==
    /\ TestDone(t, "check")
    /\ IF Blocked(t)
       THEN Goto(t, "prep") /\ UNCHANGED queues
       ELSE Goto(t, "down") /\ LeaveQueue(t)
    /\ UNCHANGED <<session, ring, sig, request, progress, mask, ret>>

\* Mutated: sleeps without testing again.
SleepUnchecked(t) ==
    /\ pc[t] = "prep"
    /\ state' = [state EXCEPT ![t] = "INTERRUPTIBLE"]
    /\ Goto(t, "sched")
    /\ UNCHANGED <<session, ring, waitq, sig, request, progress, test, mask, ret>>

PrepareToSleep(t) ==
    /\ pc[t] = "prep"
    /\ state' = [state EXCEPT ![t] = "INTERRUPTIBLE"]
    /\ Goto(t, "recheck")
    /\ UNCHANGED <<session, ring, waitq, sig, request, progress, test, mask, ret>>

\* The test between announcing the sleep and sleeping.
Recheck(t) ==
    /\ TestDone(t, "recheck")
    /\ IF Blocked(t)
       THEN Goto(t, "sched") /\ UNCHANGED queues
       ELSE Goto(t, "down") /\ LeaveQueue(t)
    /\ UNCHANGED <<session, ring, sig, request, progress, mask, ret>>

\* Mutated: tests once, an if for the while.
ScheduleOnce(t) ==
    /\ pc[t] = "sched"
    /\ state[t] = "RUNNING" \/ sig[t]
    /\ IF sig[t]
       THEN LeaveQueue(t) /\ Result(t, "ERESTARTSYS")
       ELSE Goto(t, "down") /\ LeaveQueue(t) /\ UNCHANGED ret
    /\ UNCHANGED <<session, ring, sig, request, progress, test, mask>>

\* schedule() comes back when the task was woken or a signal is pending.
Schedule(t) ==
    /\ pc[t] = "sched"
    /\ state[t] = "RUNNING" \/ sig[t]
    /\ IF sig[t]
       THEN LeaveQueue(t) /\ Result(t, "ERESTARTSYS")
       ELSE Goto(t, "check") /\ UNCHANGED <<queues, ret>>
    /\ UNCHANGED <<session, ring, sig, request, progress, test, mask>>

\* ih, where a writer must stop.  Mutated: one slot too far when ir is 0.
LimitLate == IF ir = 0 THEN N ELSE ir - 1
Limit == IF ir = 0 THEN N - 1 ELSE ir - 1

\* down_interruptible takes a free semaphore even with a signal pending; a
\* write then computes ih.
Down(t) ==
    /\ pc[t] = "down"
    /\ sema = 1
    /\ sema' = 0
    /\ ih' = [ih EXCEPT ![t] = IF op[t] = "read" THEN 0 ELSE Limit]
    /\ Goto(t, "copy")
    /\ UNCHANGED <<session, rbuf, ir, iw, last, queues, sig, request, i, test, mask, ret>>

\* Mutated: the result of down_interruptible is not looked at.
DownIgnored(t) ==
    /\ pc[t] = "down"
    /\ sema = 0
    /\ sig[t]
    /\ Goto(t, "copy")
    /\ UNCHANGED <<session, ring, queues, sig, request, progress, test, mask, ret>>

DownInterrupted(t) ==
    /\ pc[t] = "down"
    /\ sema = 0
    /\ sig[t]
    /\ Result(t, "ERESTARTSYS")
    /\ UNCHANGED <<session, ring, queues, sig, request, progress, test, mask>>

-----------------------------------------------------------------------------
(* The copy loops, under the semaphore, and the wakeup after it.           *)

CopyStops(t) ==
    \/ i[t] >= len[t]
    \/ IF op[t] = "read" THEN ir = iw ELSE iw = ih[t]

\* The index has run off the ring.  Mutated: off the array, a slot longer.
PastEndLate(x) == x = N + 1
PastEnd(x) == x = N

ReadByte(t) ==
    /\ pc[t] = "copy" /\ op[t] = "read" /\ ~CopyStops(t)
    /\ last' = rbuf[ir]
    /\ ir' = ir + 1
    /\ i' = [i EXCEPT ![t] = @ + 1]
    /\ IF PastEnd(ir') THEN Goto(t, "wrap") ELSE UNCHANGED pc
    /\ UNCHANGED <<session, rbuf, iw, sema, queues, sig, request, ih, test, mask, ret>>

WriteByte(t) ==
    /\ pc[t] = "copy" /\ op[t] = "write" /\ ~CopyStops(t)
    /\ \E b \in Data : rbuf' = [rbuf EXCEPT ![iw] = b]
    /\ iw' = iw + 1
    /\ i' = [i EXCEPT ![t] = @ + 1]
    /\ IF PastEnd(iw') THEN Goto(t, "wrap") ELSE UNCHANGED pc
    /\ UNCHANGED <<session, ir, last, sema, queues, sig, request, ih, test, mask, ret>>

\* if (ir==N) ir=0, or if (iw==N) iw=0
WrapIndex(t) ==
    /\ pc[t] = "wrap"
    /\ IF op[t] = "read" THEN ir' = 0 /\ UNCHANGED iw ELSE iw' = 0 /\ UNCHANGED ir
    /\ Goto(t, "copy")
    /\ UNCHANGED <<session, rbuf, last, sema, queues, sig, request, progress, test, mask, ret>>

Up(t) ==
    /\ pc[t] = "copy" /\ CopyStops(t)
    /\ sema' = 1
    /\ ih' = [ih EXCEPT ![t] = 0]
    /\ IF i[t] > 0 THEN Goto(t, "wake") /\ UNCHANGED ret ELSE Result(t, "OK")
    /\ UNCHANGED <<session, rbuf, ir, iw, last, queues, sig, request, i, test, mask>>

WakeOther(t) ==
    /\ pc[t] = "wake"
    /\ WakeUpInterruptible(OtherQueue(t))
    /\ Result(t, "OK")
    /\ UNCHANGED <<session, ring, waitq, sig, request, progress, test, mask>>

ReadWriteStep(t) ==
    \/ (pc[t] \in RWTests /\ LoadFirst(t))
    \/ TryNonblock(t) \/ CheckLoop(t) \/ PrepareToSleep(t) \/ Recheck(t)
    \/ Schedule(t) \/ Down(t) \/ DownInterrupted(t)
    \/ WrapIndex(t) \/ Up(t) \/ WakeOther(t)

DeviceRead(t) == op[t] = "read" /\ (ReadWriteStep(t) \/ ReadByte(t))
DeviceWrite(t) == op[t] = "write" /\ (ReadWriteStep(t) \/ WriteByte(t))

-----------------------------------------------------------------------------
(* device_poll, and the poll core around it: a pass calls device_poll, and *)
(* the task sleeps between passes until a queue it is linked to wakes it.  *)

\* Mutated: links the poller to qout only.
PollWaitOut(t) ==
    /\ pc[t] = "poll"
    /\ state' = [state EXCEPT ![t] = "INTERRUPTIBLE"]
    /\ waitq' = [waitq EXCEPT !["qout"] = @ \cup {t}]
    /\ mask' = [mask EXCEPT ![t] = {}]
    /\ Goto(t, "lock")
    /\ UNCHANGED <<session, ring, sig, request, progress, test, ret>>

\* The core arms the wait; poll_wait links the task to both queues.
PollWait(t) ==
    /\ pc[t] = "poll"
    /\ state' = [state EXCEPT ![t] = "INTERRUPTIBLE"]
    /\ waitq' = [q \in Queues |-> waitq[q] \cup {t}]
    /\ mask' = [mask EXCEPT ![t] = {}]
    /\ Goto(t, "lock")
    /\ UNCHANGED <<session, ring, sig, request, progress, test, ret>>

PollLock(t) ==
    /\ pc[t] = "lock"
    /\ lock = Free
    /\ lock' = t
    /\ Goto(t, "pollin")
    /\ UNCHANGED <<module, use_count, file, ring, queues, sig, request, progress, test, mask, ret>>

PollIn(t) ==
    /\ TestDone(t, "pollin")
    /\ mask' = [mask EXCEPT ![t] = IF IsBufferEmpty(t) THEN @ ELSE @ \cup {"in"}]
    /\ Goto(t, "pollout")
    /\ UNCHANGED <<session, ring, queues, sig, request, progress, ret>>

\* Mutated: the other test.
PollOutNotEmpty(t) ==
    /\ TestDone(t, "pollout")
    /\ mask' = [mask EXCEPT ![t] = IF IsBufferEmpty(t) THEN @ ELSE @ \cup {"out"}]
    /\ lock' = Free
    /\ Goto(t, "decide")
    /\ UNCHANGED <<module, use_count, file, ring, queues, sig, request, progress, ret>>

PollOut(t) ==
    /\ TestDone(t, "pollout")
    /\ mask' = [mask EXCEPT ![t] = IF BufferFull(t) THEN @ ELSE @ \cup {"out"}]
    /\ lock' = Free
    /\ Goto(t, "decide")
    /\ UNCHANGED <<module, use_count, file, ring, queues, sig, request, progress, ret>>

DevicePoll(t) ==
    \/ (pc[t] \in PollTests /\ LoadFirst(t))
    \/ PollWait(t) \/ PollLock(t) \/ PollIn(t) \/ PollOut(t)

\* The core returns when it has an event, a signal, or its time is up.
PollDecide(t) ==
    /\ pc[t] = "decide"
    /\ mask' = [mask EXCEPT ![t] = @ \cap events[t]]
    /\ IF mask'[t] # {} \/ sig[t] \/ ret[t] = "timeout"
       THEN /\ LeaveQueue(t)
            /\ Result(t, IF mask'[t] = {} /\ sig[t] THEN "EINTR" ELSE "OK")
       ELSE Goto(t, "sleep") /\ UNCHANGED <<queues, ret>>
    /\ UNCHANGED <<session, ring, sig, request, progress, test>>

PollWoken(t) ==
    /\ pc[t] = "sleep"
    /\ state[t] = "RUNNING" \/ sig[t]
    /\ Goto(t, "poll")
    /\ UNCHANGED <<session, ring, queues, sig, request, progress, test, mask, ret>>

PollTimeout(t) ==
    /\ pc[t] = "sleep"
    /\ ret' = [ret EXCEPT ![t] = "timeout"]
    /\ Goto(t, "poll")
    /\ UNCHANGED <<session, ring, queues, sig, request, progress, test, mask>>

PollCore(t) == PollDecide(t) \/ PollWoken(t)

-----------------------------------------------------------------------------
(* The module and its files.                                               *)

\* my_init up to cdev_add; loading zeroes the module's variables.
Insmod ==
    /\ module = "out"
    /\ module' = "adding"
    /\ use_count' = 0 /\ ir' = 0 /\ iw' = 0
    /\ rbuf' = [s \in 0 .. N |-> Zero]
    /\ sema' = 1
    /\ UNCHANGED <<lock, file, last, queues, sig, pc, request, progress, test, mask, ret>>

InitUseCount ==
    /\ module = "adding"
    /\ module' = "in"
    /\ use_count' = 0
    /\ UNCHANGED <<lock, file, ring, queues, sig, pc, request, progress, test, mask, ret>>

\* An open file holds a reference to the module.
Rmmod ==
    /\ module = "in"
    /\ OpenTasks = {}
    /\ module' = "out"
    /\ UNCHANGED <<use_count, lock, file, ring, queues, sig, pc, request, progress, test, mask, ret>>

DeviceOpen(t, mode) ==
    /\ pc[t] = "user" /\ ~Open(t)
    /\ module = "in" \/ (module = "adding" /\ EarlyOpen)
    /\ lock = Free
    /\ IF use_count = 0 THEN ir' = 0 /\ iw' = 0 ELSE UNCHANGED <<ir, iw>>
    /\ use_count' = use_count + 1
    /\ file' = [file EXCEPT ![t] = mode]
    /\ UNCHANGED <<module, lock, rbuf, last, sema, queues, sig, pc, request, progress, test, mask, ret>>

\* Mutated: forgets the count.
ReleaseUncounted(t) ==
    /\ pc[t] = "user" /\ Open(t)
    /\ lock = Free
    /\ use_count' = use_count
    /\ file' = [file EXCEPT ![t] = "closed"]
    /\ mask' = [mask EXCEPT ![t] = {}]
    /\ UNCHANGED <<module, lock, ring, queues, sig, pc, request, progress, test, ret>>

DeviceRelease(t) ==
    /\ pc[t] = "user" /\ Open(t)
    /\ lock = Free
    /\ use_count' = use_count - 1
    /\ file' = [file EXCEPT ![t] = "closed"]
    /\ mask' = [mask EXCEPT ![t] = {}]
    /\ UNCHANGED <<module, lock, ring, queues, sig, pc, request, progress, test, ret>>

-----------------------------------------------------------------------------
(* The user side: a task with an open file calls, and takes the result.    *)

CallReadWrite(t, o, n) ==
    /\ pc[t] = "user" /\ Open(t)
    /\ op' = [op EXCEPT ![t] = o]
    /\ len' = [len EXCEPT ![t] = n]
    /\ Goto(t, "try")
    /\ UNCHANGED <<session, ring, queues, sig, events, progress, test, mask, ret>>

CallPoll(t, ev) ==
    /\ pc[t] = "user" /\ Open(t)
    /\ op' = [op EXCEPT ![t] = "poll"]
    /\ events' = [events EXCEPT ![t] = ev]
    /\ mask' = [mask EXCEPT ![t] = {}]
    /\ Goto(t, "poll")
    /\ UNCHANGED <<session, ring, queues, sig, len, progress, test, ret>>

Signal(t) ==
    /\ t \in Signalled /\ InCall(t) /\ ~sig[t]
    /\ sig' = [sig EXCEPT ![t] = TRUE]
    /\ UNCHANGED <<session, ring, queues, pc, request, progress, test, mask, ret>>

\* What a call promised or used up: a read uses up POLLIN, a write POLLOUT.
UsesUp(o) == CASE o = "read" -> {"in"} [] o = "write" -> {"out"} [] OTHER -> {}

\* Back to user mode: signal handlers run, the call's locals are gone.
ReturnToUser(t) ==
    /\ pc[t] = "ret"
    /\ sig' = [sig EXCEPT ![t] = FALSE]
    /\ mask' = [mask EXCEPT ![t] = @ \ UsesUp(op[t])]
    /\ op' = [op EXCEPT ![t] = "none"]
    /\ len' = [len EXCEPT ![t] = 0]
    /\ i' = [i EXCEPT ![t] = 0]
    /\ events' = [events EXCEPT ![t] = {}]
    /\ ret' = [ret EXCEPT ![t] = "none"]
    /\ Goto(t, "user")
    /\ UNCHANGED <<session, ring, queues, ih, test>>

UserStep(t) ==
    \/ \E mode \in Modes : DeviceOpen(t, mode)
    \/ DeviceRelease(t)
    \/ \E n \in Lens : t \in Readers /\ CallReadWrite(t, "read", n)
    \/ \E n \in Lens : t \in Writers /\ CallReadWrite(t, "write", n)
    \/ \E ev \in SUBSET Events \ {{}} : t \in Pollers /\ CallPoll(t, ev)

KernelStep(t) == DeviceRead(t) \/ DeviceWrite(t) \/ DevicePoll(t) \/ PollCore(t)

-----------------------------------------------------------------------------
Init ==
    /\ module = "out" /\ use_count = 0 /\ lock = Free
    /\ rbuf = [s \in 0 .. N |-> Zero] /\ ir = 0 /\ iw = 0 /\ sema = 1
    /\ last = Zero
    /\ waitq = [q \in Queues |-> {}]
    /\ state = [t \in Tasks |-> "RUNNING"]
    /\ sig = [t \in Tasks |-> FALSE]
    /\ file = [t \in Tasks |-> "closed"]
    /\ pc = [t \in Tasks |-> "user"]
    /\ op = [t \in Tasks |-> "none"]
    /\ len = [t \in Tasks |-> 0]
    /\ i = [t \in Tasks |-> 0]
    /\ ih = [t \in Tasks |-> 0]
    /\ loaded = [t \in Tasks |-> "none"]
    /\ val = [t \in Tasks |-> 0]
    /\ mask = [t \in Tasks |-> {}]
    /\ events = [t \in Tasks |-> {}]
    /\ ret = [t \in Tasks |-> "none"]

Next ==
    \/ Insmod \/ InitUseCount \/ Rmmod
    \/ \E t \in Tasks : \/ UserStep(t) \/ KernelStep(t) \/ ReturnToUser(t)
                        \/ Signal(t) \/ PollTimeout(t)

Spec == Init /\ [][Next]_vars

-----------------------------------------------------------------------------
DeviceType ==
    /\ module \in {"out", "adding", "in"} /\ use_count \in Int
    /\ lock \in Tasks \cup {Free} /\ sema \in {0, 1}
    /\ rbuf \in [0 .. N -> Data] /\ last \in Data
    /\ ir \in 0 .. N /\ iw \in 0 .. N
SchedType ==
    /\ waitq \in [Queues -> SUBSET Tasks]
    /\ state \in [Tasks -> {"RUNNING", "INTERRUPTIBLE"}]
    /\ sig \in [Tasks -> BOOLEAN]
Results == {"none", "OK", "EAGAIN", "ERESTARTSYS", "EINTR", "timeout"}
ControlType ==
    /\ file \in [Tasks -> {"closed", "block", "nonblock"}]
    /\ pc \in [Tasks -> PCs]
    /\ op \in [Tasks -> {"none", "read", "write", "poll"}]
    /\ ret \in [Tasks -> Results]
CopyType == len \in [Tasks -> Nat] /\ i \in [Tasks -> Nat] /\ ih \in [Tasks -> 0 .. N - 1]
TestType == loaded \in [Tasks -> {"none", "ir", "iw"}] /\ val \in [Tasks -> 0 .. N]
PollType == mask \in [Tasks -> SUBSET Events] /\ events \in [Tasks -> SUBSET Events]

\* Every variable stays in its range; in particular neither index of the
\* ring (lines 105 and 158) ever passes N, the last slot of rbuf.
TypeOK == DeviceType /\ SchedType /\ ControlType /\ CopyType /\ TestType /\ PollType
=============================================================================
