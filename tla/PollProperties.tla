--------------------------- MODULE PollProperties ---------------------------
(***************************************************************************)
(* What makes PollDevice correct.                                          *)
(***************************************************************************)
EXTENDS PollDevice

\* The semaphore: one task at a time is in a copy loop (lines 103-109 and
\* 156-161), the semaphore is down exactly then, and the moment at which an
\* index is N belongs to that task: no copy ever touches slot N.
CopyExclusive ==
    /\ \A t, u \in Tasks : pc[t] \in CopyLoop /\ pc[u] \in CopyLoop => t = u
    /\ sema = 0 <=> \E t \in Tasks : pc[t] \in CopyLoop
    /\ ir = N => \E t \in Tasks : pc[t] = "wrap" /\ op[t] = "read"
    /\ iw = N => \E t \in Tasks : pc[t] = "wrap" /\ op[t] = "write"

\* The events a task asleep waits for.
Asleep(t) == pc[t] \in {"sched", "sleep"} /\ state[t] = "INTERRUPTIBLE"
WaitsFor(t, ev) ==
    CASE op[t] = "read" -> ev = "in" [] op[t] = "write" -> ev = "out" [] OTHER -> ev \in events[t]

\* A task that has moved an index and has not come to its wakeup yet.
OwesWakeup(t, o) == op[t] = o /\ i[t] > 0 /\ pc[t] \in {"copy", "wrap", "wake"}

\* No wakeup is lost: while a task sleeps (line 89, line 140, or in poll)
\* for an event that the buffer already has, some other task still has the
\* wakeup of line 116 or 168 before it.
NoLostWakeup ==
    \A t \in Tasks : Asleep(t) =>
        /\ WaitsFor(t, "in") /\ ir # iw => \E u \in Tasks : OwesWakeup(u, "write")
        /\ WaitsFor(t, "out") /\ iw # ir - 1 => \E u \in Tasks : OwesWakeup(u, "read")

\* use_count is the number of open files whenever the module is in: so line
\* 178 resets the indices only while no file is open.
UseCountExact == module = "in" => use_count = Cardinality(OpenTasks)

\* With one reader, what the test of line 84 saw is still there when the
\* semaphore is taken: a read of at least a byte returns at least a byte.
OneReader == \E r \in Readers : Readers = {r}
OneWriter == \E w \in Writers : Writers = {w}
Returned(t, o) == pc[t] = "ret" /\ op[t] = o /\ ret[t] = "OK"

ReadDelivers ==
    OneReader => \A t \in Readers : Returned(t, "read") /\ len[t] > 0 => i[t] > 0

\* The same for a write with one writer, as Assignment1:26 asks: "process is
\* blocked when device is full".
WriteDelivers ==
    OneWriter => \A t \in Writers : Returned(t, "write") /\ len[t] > 0 => i[t] > 0

\* What is left of it: such a write copies nothing only when the ring is full
\* and ir is 0, where buffer_full (line 39) and the limit of line 154 differ.
EmptyHanded(t) ==
    op[t] = "write" /\ pc[t] = "copy" /\ CopyStops(t) /\ i[t] = 0 /\ len[t] > 0
EmptyHandedAtZero ==
    OneWriter => \A t \in Writers : EmptyHanded(t) => ir = 0 /\ iw = N - 1

\* A call that may not go on: it is about to sleep or gives up.
WouldBlock(t, o) ==
    op[t] = o /\ (pc[t] \in {"prep", "recheck", "sched"} \/ ret[t] = "EAGAIN")

\* Assignment1:35: after POLLIN (line 55) the reader does not block, nor get
\* -EAGAIN, until it has read; after POLLOUT (line 61) neither does the
\* writer, until it has written.
PollInHolds ==
    OneReader => \A t \in Readers : "in" \in mask[t] => ~WouldBlock(t, "read")
PollOutHolds ==
    OneWriter => \A t \in Writers : "out" \in mask[t] => ~WouldBlock(t, "write")

-----------------------------------------------------------------------------
(* The device as a queue of bytes.                                         *)

\* The bytes between ir and iw; an index that is N is about to be 0.
Used == (iw - ir + N) % N
Contents == [k \in 1 .. Used |-> rbuf[(ir + k - 1) % N]]

Abstract == INSTANCE ByteQueue WITH
    Capacity <- N - 1, Users <- Tasks, queue <- Contents, taken <- last,
    users <- OpenTasks

\* What the copies do is what a bounded queue of bytes does: every byte read
\* is the oldest unread byte written, the queue never holds more than N-1,
\* and it is emptied only when no file is open.
ImplementsByteQueue == Abstract!Spec

-----------------------------------------------------------------------------
(* Liveness, under the fairness the kernel gives: a runnable task runs, the *)
(* waiters of the semaphore are served in order, and a spinlock is passed  *)
(* on.  The tasks' user code owes nothing.                                 *)

Fairness ==
    \A t \in Tasks : /\ WF_vars(KernelStep(t)) /\ WF_vars(ReturnToUser(t))
                     /\ SF_vars(Down(t)) /\ SF_vars(PollLock(t))

FairSpec == Spec /\ Fairness

Busy(t, o) == InCall(t) /\ op[t] = o

\* A read returns, or the buffer is found empty; with one reader only that
\* reader can empty it, so a read of a buffer that has bytes returns.
ReadReturns ==
    OneReader => \A t \in Readers : Busy(t, "read") ~> (~Busy(t, "read") \/ ir = iw)
WriteReturns ==
    OneWriter => \A t \in Writers : Busy(t, "write") ~> (~Busy(t, "write") \/ iw = ir - 1)

\* A poll for POLLIN by the only reader returns, or the buffer is empty.
PollReturns ==
    OneReader => \A t \in Readers \cap Pollers :
        (Busy(t, "poll") /\ "in" \in events[t]) ~> (~Busy(t, "poll") \/ ir = iw)
=============================================================================
