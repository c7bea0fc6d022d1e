-------------------------- MODULE BlinkProperties ---------------------------
(***************************************************************************)
(* What makes BlinkTimer correct.                                          *)
(***************************************************************************)
EXTENDS BlinkTimer

Ints == -(IntMax + 1) .. IntMax

\* Every variable stays in its range.
BlinkTypeOK ==
    /\ ready \in BOOLEAN /\ pending \in BOOLEAN /\ oops \in BOOLEAN
    /\ handler \in {"idle", "test", "choose", "show", "expires", "add"}
    /\ module \in {"out", "live", "in", "leaving"} /\ file \subseteq Users
    /\ cur_expire_jiffies \in Ints /\ expires \in Ints
    /\ {selected_led, kbledstatus, leds} \subseteq SUBSET Bits
    /\ pc \in [Users -> {"user", "or"}] /\ mask \in [Users -> SUBSET Bits]

\* KDSETLED above 7: the LEDs show the keyboard's own state.
Normal == "high" \in leds

\* "Blink keyboard leds until the module is unloaded" (line 2): after
\* kbleds_cleanup the timer is gone, no handler is left to arm it again,
\* and the LEDs are the keyboard's own.
BlinksUntilUnloaded == module = "out" => Normal /\ ~pending /\ ~Running

\* Outside the loaded module there is no timer: the invariant behind it, for
\* unloading that meets no running handler.
UnloadInv ==
    /\ module # "in" => ~pending /\ ~Running
    /\ module = "out" => Normal

\* add_timer (line 76) never finds the timer pending or not initialised.
NoOops == ~oops

\* The timer that blinks is never lost: while the module is in it is pending,
\* or the handler that arms it again is running.
TimerAlive == module = "in" => pending \/ Running

\* The invariant behind NoOops, with UnloadInv: the timer is initialised
\* while it can be armed, and off the list while its handler runs.
ArmInv == (module = "in" => ready) /\ (Running => ~pending)

\* Lines 44-47: with a selection that is left alone the LEDs go back and
\* forth between it and the keyboard's own state, for ever, however the
\* SETLEDs before it ran into the handler.
SteadyBlink ==
    \A m \in SUBSET Leds :
        <>[](module = "in" /\ selected_led = m) => []<>(leds = m) /\ []<>Normal

\* An interval that is left alone comes into force (line 74), although
\* SETINV does not touch the timer.
Intervals == {BlinkDelay} \cup {ToInt(Hz * s) : s \in Seconds}
IntervalComes ==
    \A d \in Intervals :
        <>[](module = "in" /\ cur_expire_jiffies = d) => <>[](expires = d)
=============================================================================
