--------------------------- MODULE BlinkConstants ----------------------------
(***************************************************************************)
(* The LEDs and numbers of blinkplus.c, apart from its steps, so that a    *)
(* run can hold them for an instance of BlinkTimer.                        *)
(***************************************************************************)
EXTENDS Integers

CONSTANTS
    Leds,       \* the LEDs
    Masks,      \* the arguments of SETLED, as sets of bits
    Seconds,    \* the arguments of SETINV
    Hz,         \* ticks in a second
    IntMax      \* the largest int

Bits == Leds \cup {"high"}
AllLedsOn == Leds
RestoreLeds == Bits
BlinkDelay == Hz \div 5

ASSUME LedAssumption == "high" \notin Leds /\ Masks \subseteq SUBSET Bits
ASSUME NumberAssumption ==
    Seconds \subseteq Int /\ Hz \in Nat \ {0} /\ IntMax \in Nat /\ Hz <= IntMax
=============================================================================
