---------------------------- MODULE PollDeviceInv ----------------------------
(***************************************************************************)
(* The inductive invariant behind the safety properties of PollDevice.     *)
(***************************************************************************)
EXTENDS PollProperties

\* A task in a call has the file open; no file is open while the module is
\* out or, if nobody opens early, while it is being added.
SessionInv ==
    /\ \A t \in Tasks : InCall(t) => Open(t)
    /\ module = "out" => OpenTasks = {}
    /\ ~EarlyOpen /\ module = "adding" => OpenTasks = {}

\* The control point tells the call.
OpInv ==
    \A t \in Tasks :
        /\ pc[t] \in WaitLoop \cup CopyLoop \cup {"try", "down", "wake"} => op[t] \in {"read", "write"}
        /\ pc[t] \in PollPCs => op[t] = "poll"

\* Outside a test no index is held.
LoadInv == \A t \in Tasks : pc[t] \notin Tests => loaded[t] = "none"

\* Inside a copy a writer's limit is still the slot before ir, and whoever
\* is at a wrap or a wakeup has moved a byte.
CopyInv ==
    \A t \in Tasks :
        /\ pc[t] \in CopyLoop /\ op[t] = "write" => ih[t] = Limit
        /\ pc[t] \in {"wrap", "wake"} => i[t] > 0
        /\ pc[t] = "wrap" => IF op[t] = "read" THEN ir = N ELSE iw = N

\* A task that may sleep is linked to the queue that will wake it.
QueueInv ==
    \A t \in Tasks :
        /\ pc[t] \in WaitLoop => t \in waitq[OwnQueue(t)]
        /\ pc[t] \in PollPCs \ {"poll"} => t \in waitq["qin"] /\ t \in waitq["qout"]

InComing == \E u \in Tasks : OwesWakeup(u, "write")
OutComing == \E u \in Tasks : OwesWakeup(u, "read")

\* t is between the two loads of a test that decides about its sleep.
TestsIn(t) == (pc[t] = "recheck" /\ op[t] = "read") \/ pc[t] = "pollin"
TestsOut(t) == (pc[t] = "recheck" /\ op[t] = "write") \/ pc[t] = "pollout"

\* t has decided that it has no reason to stay awake for the event.
GaveUpIn(t) ==
    \/ pc[t] = "sched" /\ op[t] = "read"
    \/ pc[t] \in {"pollout", "decide"} /\ "in" \notin mask[t]
    \/ pc[t] = "sleep" /\ "in" \in events[t]
GaveUpOut(t) ==
    \/ pc[t] = "sched" /\ op[t] = "write"
    \/ pc[t] = "decide" /\ "out" \notin mask[t]
    \/ pc[t] = "sleep" /\ "out" \in events[t]

\* What is true of a task that has announced its sleep and was not woken:
\* the test it is in cannot mislead it, and the test it has done did not,
\* unless a wakeup is on its way.
WaitInv(t) ==
    /\ TestsIn(t) /\ loaded[t] = "ir" => (iw = val[t] /\ ir # iw => InComing)
    /\ TestsIn(t) /\ loaded[t] = "iw" => (iw # val[t] => InComing)
    /\ TestsOut(t) /\ loaded[t] = "ir" => (ir # val[t] => OutComing)
    /\ TestsOut(t) /\ loaded[t] = "iw" => (val[t] = ir - 1 /\ iw # ir - 1 => OutComing)
    /\ GaveUpIn(t) => (ir # iw => InComing)
    /\ GaveUpOut(t) => (iw # ir - 1 => OutComing)

WakeupInv == \A t \in Tasks : state[t] = "INTERRUPTIBLE" => WaitInv(t)

\* The conjunction that is inductive.  With early opens the counting part is
\* false, and with it the part about wakeups: a miscounted open may reset the
\* indices under a sleeping task.
BaseInv == TypeOK /\ CopyExclusive /\ SessionInv
IndInv ==
    BaseInv /\ UseCountExact /\ OpInv /\ LoadInv /\ CopyInv /\ QueueInv /\ WakeupInv
=============================================================================
