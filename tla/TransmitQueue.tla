--------------------------- MODULE TransmitQueue ----------------------------
(***************************************************************************)
(* What the transmit half of the rtl8139 driver promises the network       *)
(* stack: while the interface is in service packets go to the card through *)
(* the descriptors in turn, are taken back in that order and only when the *)
(* card has ended with them, and the stack is held off from when every     *)
(* descriptor is out until none is.                                        *)
(***************************************************************************)
EXTENDS Integers, Sequences

CONSTANT Size

VARIABLES
    flow,       \* "off", or may the stack send ("go") or not ("hold")?
    out,        \* the descriptors the card has, the oldest first
    ended,      \* those of them it has ended with
    next        \* the descriptor of the next packet

vars == <<flow, out, ended, next>>

Init == flow = "off" /\ out = <<>> /\ ended = {} /\ next = 0

SwitchOn ==
    /\ flow = "off" /\ flow' = "go"
    /\ UNCHANGED <<out, ended, next>>

SwitchOff ==
    /\ flow # "off"
    /\ flow' = "off" /\ out' = <<>> /\ ended' = {} /\ next' = 0

Send ==
    /\ flow = "go" /\ Len(out) < Size
    /\ out' = Append(out, next)
    /\ next' = (next + 1) % Size
    /\ UNCHANGED <<flow, ended>>

Transmit(d) ==
    /\ \E k \in 1..Len(out) : out[k] = d
    /\ d \notin ended
    /\ ended' = ended \cup {d}
    /\ UNCHANGED <<flow, out, next>>

TakeBack ==
    /\ out # <<>> /\ Head(out) \in ended
    /\ out' = Tail(out)
    /\ ended' = ended \ {Head(out)}
    /\ UNCHANGED <<flow, next>>

Hold ==
    /\ flow = "go" /\ Len(out) = Size
    /\ flow' = "hold"
    /\ UNCHANGED <<out, ended, next>>

Release ==
    /\ flow = "hold" /\ out = <<>>
    /\ flow' = "go"
    /\ UNCHANGED <<out, ended, next>>

Next ==
    \/ SwitchOn \/ SwitchOff \/ Send \/ TakeBack \/ Hold \/ Release
    \/ \E d \in 0..Size - 1 : Transmit(d)

Spec == Init /\ [][Next]_vars
=============================================================================
