------------------------------ MODULE ByteQueue ------------------------------
(***************************************************************************)
(* What poll.c promises of its buffer: a bounded first-in first-out queue  *)
(* of bytes that any user with an open file puts into and takes from, and  *)
(* that starts empty whenever it is opened while nobody has it open.       *)
(***************************************************************************)
EXTENDS Integers, Sequences

CONSTANTS Capacity, Users, Data

VARIABLES queue, taken, users

vars == <<queue, taken, users>>

Init == queue = <<>> /\ taken \in Data /\ users = {}

Put(b) ==
    /\ users # {}
    /\ Len(queue) < Capacity
    /\ queue' = Append(queue, b)
    /\ UNCHANGED <<taken, users>>

Take ==
    /\ users # {}
    /\ queue # <<>>
    /\ taken' = Head(queue)
    /\ queue' = Tail(queue)
    /\ UNCHANGED users

OpenBy(u) ==
    /\ u \notin users
    /\ users' = users \cup {u}
    /\ queue' = IF users = {} THEN <<>> ELSE queue
    /\ UNCHANGED taken

CloseBy(u) ==
    /\ u \in users
    /\ users' = users \ {u}
    /\ UNCHANGED <<queue, taken>>

\* Unloading the module loses what the queue held.
Lose ==
    /\ users = {}
    /\ queue' = <<>>
    /\ UNCHANGED <<taken, users>>

Next ==
    \/ Take \/ Lose
    \/ \E b \in Data : Put(b)
    \/ \E u \in Users : OpenBy(u) \/ CloseBy(u)

Spec == Init /\ [][Next]_vars
=============================================================================
