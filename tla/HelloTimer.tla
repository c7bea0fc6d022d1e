----------------------------- MODULE HelloTimer ------------------------------
(***************************************************************************)
(* timer_wq_ioctl_module_2/helloplus.c: a timer that prints and arms itself *)
(* again, and an ioctl that restarts it with another delay.                *)
(*                                                                         *)
(* The handler, the ioctls of the users and the loading and unloading of   *)
(* the module run concurrently; a step is a statement that reads or writes *)
(* what another one of them uses.  GET_DELAY and the ioctls that fail      *)
(* before they copy change nothing and are left out.                       *)
(***************************************************************************)
EXTENDS KernelTimer, FiniteSets

CONSTANTS
    Delays,     \* the delays they set
    Initial,    \* INITIAL_SECS
    EarlyOpen,  \* is the device opened before helloplus_init has finished?
    TakeTurns   \* do the users keep their SET_DELAYs apart?

ASSUME DelayAssumption == Initial \in Nat /\ Delays \subseteq Nat
ASSUME ModeAssumption == {EarlyOpen, TakeTurns} \subseteq BOOLEAN

VARIABLES
    module,     \* where loading and unloading are
    file,       \* the users that have the device open
    secs2hello,
    expires,    \* my_timer.expires, as the delay it was computed from
    pc, asked   \* a user's place in SET_DELAY, and the delay it asked for

vars == <<timer, module, file, secs2hello, expires, pc, asked>>

Goto(u, where) == pc' = [pc EXCEPT ![u] = where]

-----------------------------------------------------------------------------
(* my_timer_func.                                                          *)

Fire ==
    /\ Expire("expires")
    /\ UNCHANGED <<ready, oops, module, file, secs2hello, expires, pc, asked>>

HandlerExpires ==
    /\ handler = "expires"
    /\ handler' = "add"
    /\ expires' = secs2hello
    /\ UNCHANGED <<ready, pending, oops, module, file, secs2hello, pc, asked>>

\* Mutated: the handler does not arm its timer again.
HandlerOneShot ==
    /\ handler = "add"
    /\ handler' = "return"
    /\ UNCHANGED <<ready, pending, oops, module, file, secs2hello, expires, pc, asked>>

HandlerAdd ==
    /\ handler = "add"
    /\ AddTimer
    /\ handler' = "return"
    /\ UNCHANGED <<ready, module, file, secs2hello, expires, pc, asked>>

HandlerReturn ==
    /\ handler = "return"
    /\ handler' = "idle"
    /\ UNCHANGED <<ready, pending, oops, module, file, secs2hello, expires, pc, asked>>

-----------------------------------------------------------------------------
(* hello_ioctl with SET_DELAY.                                             *)

MayCall(u) == u \in file /\ pc[u] = "user" /\ (TakeTurns => \A v \in Users : pc[v] = "user")

CopyDelay(u, d) ==
    /\ MayCall(u)
    /\ secs2hello' = d
    /\ asked' = [asked EXCEPT ![u] = d]
    /\ Goto(u, "delete")
    /\ UNCHANGED <<timer, module, file, expires>>

\* copy_from_user may zero what it could not fill: the call fails, and the
\* delay may have changed.
CopyFails(u) ==
    /\ MayCall(u)
    /\ secs2hello' \in {secs2hello, 0}
    /\ UNCHANGED <<timer, module, file, expires, pc, asked>>

\* Mutated: del_timer for del_timer_sync.
DeleteUnsynced(u) ==
    /\ pc[u] = "delete"
    /\ DelTimer
    /\ Goto(u, "expires")
    /\ UNCHANGED <<ready, handler, oops, module, file, secs2hello, expires, asked>>

Delete(u) ==
    /\ pc[u] = "delete"
    /\ DelTimerSync
    /\ Goto(u, "expires")
    /\ UNCHANGED <<ready, handler, module, file, secs2hello, expires, asked>>

\* Mutated: arms the timer with the delay it had.
ExpiresKept(u) ==
    /\ pc[u] = "expires"
    /\ Goto(u, "add")
    /\ UNCHANGED <<timer, module, file, secs2hello, expires, asked>>

SetExpires(u) ==
    /\ pc[u] = "expires"
    /\ expires' = secs2hello
    /\ Goto(u, "add")
    /\ UNCHANGED <<timer, module, file, secs2hello, asked>>

Add(u) ==
    /\ pc[u] = "add"
    /\ AddTimer
    /\ Goto(u, "ret")
    /\ UNCHANGED <<ready, handler, module, file, secs2hello, expires, asked>>

Return(u) ==
    /\ pc[u] = "ret"
    /\ Goto(u, "user")
    /\ UNCHANGED <<timer, module, file, secs2hello, expires, asked>>

SetDelay(u) ==
    \/ \E d \in Delays : CopyDelay(u, d)
    \/ CopyFails(u) \/ Delete(u) \/ SetExpires(u) \/ Add(u) \/ Return(u)

-----------------------------------------------------------------------------
(* Files, helloplus_init and helloplus_cleanup.                            *)

Openable == module = "in" \/ (EarlyOpen /\ module \in {"live", "node", "timer"})

HelloOpen(u) ==
    /\ Openable /\ u \notin file
    /\ file' = file \cup {u}
    /\ UNCHANGED <<timer, module, secs2hello, expires, pc, asked>>

HelloRelease(u) ==
    /\ u \in file /\ pc[u] = "user"
    /\ file' = file \ {u}
    /\ UNCHANGED <<timer, module, secs2hello, expires, pc, asked>>

\* Up to cdev_add, which makes the device live.
Insmod ==
    /\ module = "out"
    /\ module' = "live"
    /\ secs2hello' = Initial
    /\ LoadTimer
    /\ UNCHANGED <<handler, oops, file, expires, pc, asked>>

\* class_create fails: the device goes again.
ClassFails ==
    /\ module = "live"
    /\ module' = "out"
    /\ UNCHANGED <<timer, file, secs2hello, expires, pc, asked>>

MakeNode ==
    /\ module = "live"
    /\ module' = "node"
    /\ UNCHANGED <<timer, file, secs2hello, expires, pc, asked>>

StartTimer ==
    /\ module = "node"
    /\ module' = "timer"
    /\ InitTimer
    /\ expires' = secs2hello
    /\ UNCHANGED <<handler, oops, file, secs2hello, pc, asked>>

InitAdds ==
    /\ module = "timer"
    /\ module' = "in"
    /\ AddTimer
    /\ UNCHANGED <<ready, handler, file, secs2hello, expires, pc, asked>>

\* Mutated: the timer is not deleted.
UnloadPending ==
    /\ module = "in" /\ file = {}
    /\ HotUnload \/ ~Running
    /\ module' = "leaving"
    /\ UNCHANGED <<timer, file, secs2hello, expires, pc, asked>>

\* helloplus_cleanup begins with del_timer: an open file keeps the module.
Rmmod ==
    /\ module = "in" /\ file = {}
    /\ HotUnload \/ ~Running
    /\ module' = "leaving"
    /\ DelTimer
    /\ UNCHANGED <<ready, handler, oops, file, secs2hello, expires, pc, asked>>

Unloaded ==
    /\ module = "leaving"
    /\ module' = "out"
    /\ UNCHANGED <<timer, file, secs2hello, expires, pc, asked>>

-----------------------------------------------------------------------------
Init ==
    /\ TimerInit
    /\ module = "out" /\ file = {}
    /\ secs2hello = Initial /\ expires = 0
    /\ pc = [u \in Users |-> "user"]
    /\ asked = [u \in Users |-> 0]

MyTimerFunc == HandlerExpires \/ HandlerAdd \/ HandlerReturn

Next ==
    /\ ~oops
    /\ \/ Fire \/ MyTimerFunc
       \/ Insmod \/ ClassFails \/ MakeNode \/ StartTimer \/ InitAdds
       \/ Rmmod \/ Unloaded
       \/ \E u \in Users : SetDelay(u) \/ HelloOpen(u) \/ HelloRelease(u)

Spec == Init /\ [][Next]_vars

-----------------------------------------------------------------------------
Phases == {"out", "live", "node", "timer", "in", "leaving"}
SetDelayPCs == {"user", "delete", "expires", "add", "ret"}

\* Every variable stays in its range.
TypeOK ==
    /\ ready \in BOOLEAN /\ pending \in BOOLEAN /\ oops \in BOOLEAN
    /\ handler \in {"idle", "expires", "add", "return"}
    /\ module \in Phases /\ file \subseteq Users
    /\ secs2hello \in Nat /\ expires \in Nat
    /\ pc \in [Users -> SetDelayPCs] /\ asked \in [Users -> Nat]
=============================================================================
