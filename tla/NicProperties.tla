--------------------------- MODULE NicProperties ----------------------------
(***************************************************************************)
(* What makes the transmit and receive rings of Rtl8139 correct.           *)
(***************************************************************************)
EXTENDS Rtl8139

Packets == [at : 0..RxBufLen - 1, len : PktSizes]

NicTypeOK ==
    /\ netif \in {"down", "up", "quiet", "masked"}
    /\ stopped \in BOOLEAN /\ lost \in BOOLEAN
    /\ cur_tx \in Slots /\ dirty_tx \in Slots /\ skew \in Slots
    /\ tsd \in [Slots -> {"reset", "busy", "done"}] /\ owed \subseteq Slots
    /\ xpc \in {"idle", "copied", "locked", "written", "advanced", "full"}
    /\ hpc \in {"idle", "tx", "status", "wake", "rx"}
    /\ intr_status \subseteq {"TxOK", "RxOK"} /\ isr \subseteq {"TxOK", "RxOK"}
    /\ cur_rx \in Nat /\ cbr \in 0..RxBufLen - 1
    /\ rxq \in Seq(Packets)

\* start_xmit overwrites (lines 14 to 36) only a descriptor and a buffer that
\* the handler has taken back: "the next available transmit descriptor".
SlotAvailable == xpc \in {"copied", "locked"} => cur_tx \notin owed

\* While the interface is up the handler takes back (line 88), and counts,
\* every packet once.
TakenBackOnce ==
    [][hpc = "status" /\ hpc' = "wake" /\ netif = "up" => dirty_tx \in owed]_nicvars

\* The queue is woken (line 94) when the whole ring is free.
WokenWhenFree == [][netif = "up" /\ stopped /\ ~stopped' => owed = {}]_nicvars

\* Flow control ends: with a ring that was opened in step, and a handler that
\* receives no packet for ever, a stopped queue is woken or the interface goes.
QueueWakes ==
    []<>(hpc = "idle") =>
        (netif = "up" /\ skew = 0 /\ stopped ~> ~stopped \/ netif # "up")

\* A queue that is stopped has not been forgotten: when the handler is done
\* with it, an interrupt is pending (line 19) or the card is still to send the
\* packet that the handler waits for, and to interrupt then.
NotForgotten ==
    netif = "up" /\ skew = 0 /\ stopped /\ hpc = "idle" =>
        "TxOK" \in intr_status \/ tsd[dirty_tx] = "busy"

\* The handler misses a header only when a packet ends exactly at the end of
\* the ring, which line 126 ("perform address-wrap if at end-of-buffer") does
\* not wrap; until then it looks where the card puts the next one.
LostOnlyAtEnd == [][~lost /\ lost' => cur_rx = RxBufLen]_nicvars

-----------------------------------------------------------------------------
(* The inductive invariant of the transmit ring, for Cpus = 1.             *)

\* The slots from one index up to another, around the end of the ring.
Between(from, to) ==
    {s \in Slots : IF from <= to THEN from <= s /\ s < to ELSE from <= s \/ s < to}

\* The slot start_xmit has just handed over, which cur_tx does not count yet.
InHand == IF xpc = "written" THEN {cur_tx} ELSE {}

\* A ring opened in step: what is owed lies between the indices, and when they
\* are equal the queue tells a full ring from an empty one.
SteppedInv ==
    /\ cur_tx # dirty_tx => owed = Between(dirty_tx, cur_tx) \cup InHand
    /\ cur_tx = dirty_tx =>
        owed = IF xpc \in {"advanced", "full"} \/ (stopped /\ hpc # "wake")
               THEN Slots ELSE InHand
    /\ xpc = "full" => cur_tx = dirty_tx
    /\ hpc = "status" => cur_tx # dirty_tx \/ stopped

\* A ring opened out of step: the handler waits at slot 0, start_xmit goes on
\* from skew to the end of the ring and stops there.
SkewedInv ==
    /\ dirty_tx = 0 /\ tsd[0] = "reset" /\ hpc # "wake"
    /\ cur_tx = 0 \/ cur_tx >= skew
    /\ owed = {s \in Slots : s >= skew /\ (cur_tx = 0 \/ s < cur_tx)} \cup InHand
    /\ cur_tx = 0 => xpc \in {"advanced", "full"} \/ stopped

\* Descriptors of a ring opened in step: busy ones are owed, owed ones have been
\* written, and one that is done and next to be taken back has an interrupt
\* pending unless the handler is in its loop.
CardInv ==
    netif = "up" /\ skew = 0 =>
        /\ \A s \in Slots : tsd[s] = "busy" => s \in owed
        /\ \A s \in owed : tsd[s] # "reset"
        /\ hpc \in {"idle", "rx"} /\ dirty_tx \in owed /\ tsd[dirty_tx] = "done" =>
               "TxOK" \in intr_status

RingInv ==
    /\ xpc # "idle" => netif = "up" /\ ~stopped
    /\ hpc # "idle" => netif # "down" /\ xpc \in {"idle", "copied"}
    /\ netif = "up" => IF skew = 0 THEN SteppedInv ELSE SkewedInv

-----------------------------------------------------------------------------
(* What the ring is for: the abstract queue, for rings opened in step.     *)

InService == netif = "up" /\ skew = 0

\* The slot that the next packet will go to, and how many are outstanding.
NextSlot == IF xpc = "written" THEN Past(cur_tx) ELSE cur_tx
Outstanding ==
    IF owed = Slots THEN NumTxDesc ELSE (NumTxDesc + NextSlot - dirty_tx) % NumTxDesc

QueueFlow == IF ~InService THEN "off" ELSE IF stopped THEN "hold" ELSE "go"
QueueOut ==
    IF InService THEN [k \in 1..Outstanding |-> (dirty_tx + k - 1) % NumTxDesc] ELSE <<>>
QueueEnded == IF InService THEN {s \in owed : tsd[s] = "done"} ELSE {}
QueueNext == IF InService THEN NextSlot ELSE 0

Promised == INSTANCE TransmitQueue WITH
    Size <- NumTxDesc, flow <- QueueFlow, out <- QueueOut,
    ended <- QueueEnded, next <- QueueNext

\* Descriptors are used in turn, come back in order and only when the card has
\* ended with them, and the queue stops with the last and starts with the
\* first: the driver, the handler and the card together are the TransmitQueue.
ImplementsTransmitQueue == Promised!Spec
=============================================================================
