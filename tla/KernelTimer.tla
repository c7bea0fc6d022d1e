----------------------------- MODULE KernelTimer -----------------------------
(***************************************************************************)
(* The kernel's timer_list, as helloplus.c and blinkplus.c use it: one     *)
(* timer, whose handler arms it again.  A pending timer may expire at any  *)
(* moment, on any processor; the kernel never runs the handler of a timer  *)
(* twice at once.  Time itself is left out.                                *)
(***************************************************************************)
EXTENDS Naturals

CONSTANTS
    Users,      \* tasks that use the device of a timer module
    HotUnload   \* may the module be unloaded while its handler runs?

ASSUME UnloadAssumption == HotUnload \in BOOLEAN

VARIABLES
    ready,      \* init_timer has been called since the module was loaded
    pending,    \* the timer is armed
    handler,    \* "idle", or the step the running handler is at
    oops        \* the kernel has stopped on a misuse of the timer

timer == <<ready, pending, handler, oops>>

Running == handler # "idle"

\* The timer_list is in the module's memory, which loading zeroes.
LoadTimer == ready' = FALSE /\ pending' = FALSE

InitTimer == ready' = TRUE /\ pending' = FALSE

\* add_timer has a BUG_ON(timer_pending(timer)).
AddTimer ==
    /\ oops' = (pending \/ ~ready)
    /\ pending' = TRUE

\* del_timer does not wait for a running handler; del_timer_sync does.
DelTimer == pending' = FALSE

DelTimerSync ==
    /\ ~Running
    /\ oops' = ~ready
    /\ pending' = FALSE

\* The timer expires: the handler starts at its first step.
Expire(first) ==
    /\ pending /\ ~Running
    /\ pending' = FALSE
    /\ handler' = first

TimerInit == ready = FALSE /\ pending = FALSE /\ handler = "idle" /\ oops = FALSE
=============================================================================
