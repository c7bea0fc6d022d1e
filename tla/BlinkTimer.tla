----------------------------- MODULE BlinkTimer ------------------------------
(***************************************************************************)
(* timer_wq_ioctl_module_2/blinkplus.c: a timer that blinks the keyboard's *)
(* LEDs, and ioctls that choose the LEDs and the interval.                 *)
(*                                                                         *)
(* A value of selected_led or kbledstatus is the set of its bits; "high"   *)
(* stands for all bits above those of the LEDs.  kbledstatus is a char     *)
(* that the handler uses as an int: its neighbours are taken to be unused. *)
(* The caller's pointer is taken to be good (line 81 follows it unchecked, *)
(* for GETINV too, which changes nothing and is left out).                 *)
(***************************************************************************)
EXTENDS KernelTimer, BlinkConstants, Integers

VARIABLES
    module,     \* where loading and unloading are
    file,       \* the users that have the device open
    cur_expire_jiffies,
    expires,    \* my_timer.expires, as the interval it was computed from
    selected_led, kbledstatus,
    leds,       \* the last KDSETLED: what the keyboard shows
    pc, mask    \* a user's place in SETLED, and its argument

interval == <<cur_expire_jiffies, expires>>
lights == <<selected_led, kbledstatus, leds>>
vars == <<timer, module, file, interval, lights, pc, mask>>

-----------------------------------------------------------------------------
(* my_timer_func.                                                          *)

Fire ==
    /\ Expire("test")
    /\ UNCHANGED <<ready, oops, module, file, interval, lights, pc, mask>>

\* Mutated: once lit, stays lit.
StaysLit ==
    /\ handler = "test"
    /\ handler' = "choose"
    /\ UNCHANGED kbledstatus
    /\ UNCHANGED <<ready, pending, oops, module, file, interval, selected_led, leds, pc, mask>>

Compare ==
    /\ handler = "test"
    /\ IF kbledstatus = selected_led
       THEN kbledstatus' = RestoreLeds /\ handler' = "show"
       ELSE UNCHANGED kbledstatus /\ handler' = "choose"
    /\ UNCHANGED <<ready, pending, oops, module, file, interval, selected_led, leds, pc, mask>>

\* selected_led is loaded a second time.
Choose ==
    /\ handler = "choose"
    /\ kbledstatus' = selected_led
    /\ handler' = "show"
    /\ UNCHANGED <<ready, pending, oops, module, file, interval, selected_led, leds, pc, mask>>

SetLeds(value) == leds' = value

Show ==
    /\ handler = "show"
    /\ SetLeds(kbledstatus)
    /\ handler' = "expires"
    /\ UNCHANGED <<ready, pending, oops, module, file, interval, selected_led, kbledstatus, pc, mask>>

\* Mutated: always the initial interval.
SameInterval ==
    /\ handler = "expires"
    /\ expires' = BlinkDelay
    /\ handler' = "add"
    /\ UNCHANGED <<ready, pending, oops, module, file, cur_expire_jiffies, lights, pc, mask>>

NextInterval ==
    /\ handler = "expires"
    /\ expires' = cur_expire_jiffies
    /\ handler' = "add"
    /\ UNCHANGED <<ready, pending, oops, module, file, cur_expire_jiffies, lights, pc, mask>>

HandlerAdd ==
    /\ handler = "add"
    /\ AddTimer
    /\ handler' = "idle"
    /\ UNCHANGED <<ready, module, file, interval, lights, pc, mask>>

MyTimerFunc == Compare \/ Choose \/ Show \/ NextInterval \/ HandlerAdd

-----------------------------------------------------------------------------
(* blink_ioctl.                                                            *)

\* The conversion of a number to an int.  Mutated: as if ints had no bound.
ToIntWide(x) == x
ToInt(x) == ((x + IntMax + 1) % (2 * (IntMax + 1))) - (IntMax + 1)

SetInv(u, s) ==
    /\ pc[u] = "user" /\ u \in file
    /\ cur_expire_jiffies' = ToInt(Hz * s)
    /\ UNCHANGED <<timer, module, file, expires, lights, pc, mask>>

\* selected_led &= ~ALL_LEDS_ON
SelectNone(u, m) ==
    /\ pc[u] = "user" /\ u \in file
    /\ selected_led' = selected_led \ AllLedsOn
    /\ mask' = [mask EXCEPT ![u] = m]
    /\ pc' = [pc EXCEPT ![u] = "or"]
    /\ UNCHANGED <<timer, module, file, interval, kbledstatus, leds>>

\* selected_led |= arg
SelectMore(u) ==
    /\ pc[u] = "or"
    /\ selected_led' = selected_led \cup mask[u]
    /\ pc' = [pc EXCEPT ![u] = "user"]
    /\ UNCHANGED <<timer, module, file, interval, kbledstatus, leds, mask>>

\* Both, when the compiler stores once.
SelectOnce(u, m) ==
    /\ pc[u] = "user" /\ u \in file
    /\ selected_led' = (selected_led \ AllLedsOn) \cup m
    /\ UNCHANGED <<timer, module, file, interval, kbledstatus, leds, pc, mask>>

BlinkIoctl(u) ==
    \/ \E s \in Seconds : SetInv(u, s)
    \/ \E m \in Masks : SelectNone(u, m) \/ SelectOnce(u, m)
    \/ SelectMore(u)

-----------------------------------------------------------------------------
(* Files, kbleds_init and kbleds_cleanup.                                  *)

\* The device is live before the timer is, which no ioctl touches.
BlinkOpen(u) ==
    /\ module \in {"live", "in"} /\ u \notin file
    /\ file' = file \cup {u}
    /\ UNCHANGED <<timer, module, interval, lights, pc, mask>>

Close(u) ==
    /\ u \in file /\ pc[u] = "user"
    /\ file' = file \ {u}
    /\ UNCHANGED <<timer, module, interval, lights, pc, mask>>

Insmod ==
    /\ module = "out"
    /\ module' = "live"
    /\ LoadTimer
    /\ cur_expire_jiffies' = BlinkDelay
    /\ selected_led' = AllLedsOn
    /\ kbledstatus' = {}
    /\ UNCHANGED <<handler, oops, file, expires, leds, pc, mask>>

StartTimer ==
    /\ module = "live"
    /\ module' = "in"
    /\ ready' = TRUE /\ pending' = TRUE
    /\ expires' = cur_expire_jiffies
    /\ UNCHANGED <<handler, oops, file, cur_expire_jiffies, lights, pc, mask>>

\* kbleds_cleanup: first del_timer,
Rmmod ==
    /\ module = "in" /\ file = {}
    /\ HotUnload \/ ~Running
    /\ module' = "leaving"
    /\ DelTimer
    /\ UNCHANGED <<ready, handler, oops, file, interval, lights, pc, mask>>

\* Mutated: the LEDs are left as they are.
LeaveLeds ==
    /\ module = "leaving"
    /\ module' = "out"
    /\ UNCHANGED <<timer, file, interval, lights, pc, mask>>

\* then the LEDs, and the device goes.
RestoreKeyboard ==
    /\ module = "leaving"
    /\ module' = "out"
    /\ SetLeds(RestoreLeds)
    /\ UNCHANGED <<timer, file, interval, selected_led, kbledstatus, pc, mask>>

-----------------------------------------------------------------------------
Init ==
    /\ TimerInit
    /\ module = "out" /\ file = {}
    /\ cur_expire_jiffies = BlinkDelay /\ expires = BlinkDelay
    /\ selected_led = AllLedsOn /\ kbledstatus = {}
    /\ leds = RestoreLeds
    /\ pc = [u \in Users |-> "user"]
    /\ mask = [u \in Users |-> {}]

Next ==
    /\ ~oops
    /\ \/ Fire \/ MyTimerFunc
       \/ Insmod \/ StartTimer \/ Rmmod \/ RestoreKeyboard
       \/ \E u \in Users : BlinkIoctl(u) \/ BlinkOpen(u) \/ Close(u)

Spec == Init /\ [][Next]_vars

\* The processors serve timers and their handlers.
BlinkFairness == WF_vars(Fire) /\ WF_vars(MyTimerFunc)

FairSpec == Spec /\ BlinkFairness
=============================================================================
