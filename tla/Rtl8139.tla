------------------------------ MODULE Rtl8139 -------------------------------
(***************************************************************************)
(* pci-rtl_8139/Phase-II: opening and stopping the interface, the transmit *)
(* ring shared by start_xmit, the interrupt handler and the chip, and the  *)
(* receive ring the card fills and the handler empties.                    *)
(*                                                                         *)
(* A step is a statement that reads or writes what another one uses.  The  *)
(* files leave parts open ("CODE HERE"); what the text around such a part  *)
(* says it does is taken when other lines depend on it, the rest (copies   *)
(* of data, statistics, the stack's own calls) changes no state here.      *)
(***************************************************************************)
EXTENDS Integers, Sequences

CONSTANTS
    NumTxDesc,  \* NUM_TX_DESC
    RxBufLen,   \* RX_BUF_LEN, in the double words packets are aligned to
    PktSizes,   \* the room packets take, header included, in double words
    Cpus        \* 1: an interrupt and the driver's other code never overlap

ASSUME TxAssumption == NumTxDesc \in Nat \ {0, 1}
ASSUME RxAssumption == RxBufLen \in Nat \ {0} /\ PktSizes \subseteq 1..RxBufLen
ASSUME CpuAssumption == Cpus \in {1, 2}

VARIABLES
    netif,              \* where open and stop are
    stopped,            \* netif_queue_stopped
    cur_tx, dirty_tx,
    tsd,                \* TSD0-3: "reset", "busy" or "done" (sent or given up)
    owed,               \* history: slots handed to the card and not taken back
    skew,               \* history: cur_tx when the interface was opened
    xpc,                \* start_xmit
    intr_status, isr,   \* the register, and what the handler read in it
    hpc,                \* the handler
    cur_rx,
    rxq,                \* packets in the receive ring: where, and how long
    cbr,                \* where the card writes next
    lost                \* has the driver read where there is no header?

chip == <<tsd, intr_status, rxq, cbr>>
ring == <<stopped, cur_tx, dirty_tx, owed, skew, xpc>>
rcv == <<cur_rx, lost>>
nicvars == <<netif, chip, ring, rcv, isr, hpc>>

Slots == 0..NumTxDesc - 1

\* Mutated: a slot too many.
PastLate(slot) == (slot + 1) % (NumTxDesc + 1)

Past(slot) == (slot + 1) % NumTxDesc

\* One processor: code outside the handler runs when no handler does, and the
\* handler does not run while start_xmit has interrupts off (lines 30 to 49).
DriverRuns == Cpus = 1 => hpc = "idle"
Locked == xpc \in {"locked", "written", "advanced", "full"}

-----------------------------------------------------------------------------
(* rtl8139_open, with hardware_start, and rtl8139_stop.  The stack calls   *)
(* stop when no start_xmit runs, and free_irq waits for the handler.       *)

Open ==
    /\ netif = "down"
    /\ netif' = "up"
    /\ dirty_tx' = 0 /\ skew' = cur_tx
    /\ stopped' = FALSE
    /\ cur_rx' = 0 /\ cbr' = 0 /\ rxq' = <<>> /\ lost' = FALSE
    /\ tsd' = [s \in Slots |-> "reset"] /\ owed' = {} /\ intr_status' = {}
    /\ UNCHANGED <<cur_tx, xpc, isr, hpc>>

StopQueue ==
    /\ netif = "up" /\ xpc = "idle" /\ DriverRuns
    /\ netif' = "quiet"
    /\ stopped' = TRUE
    /\ UNCHANGED <<chip, cur_tx, dirty_tx, owed, skew, xpc, rcv, isr, hpc>>

StopChip ==
    /\ netif = "quiet" /\ DriverRuns
    /\ netif' = "masked"
    /\ intr_status' = {}
    /\ UNCHANGED <<tsd, rxq, cbr, ring, rcv, isr, hpc>>

FreeIrq ==
    /\ netif = "masked" /\ hpc = "idle"
    /\ netif' = "down"
    /\ UNCHANGED <<chip, ring, rcv, isr, hpc>>

-----------------------------------------------------------------------------
(* rtl8139_start_xmit.  A packet that is too big is dropped at once.       *)

Xmit(from, to) == xpc = from /\ xpc' = to /\ DriverRuns

CopyPacket ==
    /\ netif = "up" /\ ~stopped
    /\ Xmit("idle", "copied")
    /\ UNCHANGED <<netif, chip, stopped, cur_tx, dirty_tx, owed, skew, rcv, isr, hpc>>

Lock ==
    /\ Xmit("copied", "locked")
    /\ UNCHANGED <<netif, chip, stopped, cur_tx, dirty_tx, owed, skew, rcv, isr, hpc>>

\* The write (lines 35 and 36) stands inside the comment that line 34 opens and
\* line 40 closes, so the file as it is sends nothing; modelled as it is meant.
WriteTsd ==
    /\ Xmit("locked", "written")
    /\ tsd' = [tsd EXCEPT ![cur_tx % NumTxDesc] = "busy"]
    /\ owed' = owed \cup {cur_tx % NumTxDesc}
    /\ UNCHANGED <<netif, intr_status, rxq, cbr, stopped, cur_tx, dirty_tx, skew, rcv, isr, hpc>>

AdvanceCur ==
    /\ Xmit("written", "advanced")
    /\ cur_tx' = Past(cur_tx)
    /\ UNCHANGED <<netif, chip, stopped, dirty_tx, owed, skew, rcv, isr, hpc>>

\* Mutated: stops a packet late.
CheckFullLate ==
    /\ Xmit("advanced", IF cur_tx = Past(dirty_tx) THEN "full" ELSE "idle")
    /\ UNCHANGED <<netif, chip, stopped, cur_tx, dirty_tx, owed, skew, rcv, isr, hpc>>

\* Mutated: stops with a slot to spare.
CheckFullEarly ==
    /\ Xmit("advanced", IF Past(cur_tx) = dirty_tx THEN "full" ELSE "idle")
    /\ UNCHANGED <<netif, chip, stopped, cur_tx, dirty_tx, owed, skew, rcv, isr, hpc>>

CheckFull ==
    /\ Xmit("advanced", IF cur_tx = dirty_tx THEN "full" ELSE "idle")
    /\ UNCHANGED <<netif, chip, stopped, cur_tx, dirty_tx, owed, skew, rcv, isr, hpc>>

StopFull ==
    /\ Xmit("full", "idle")
    /\ stopped' = TRUE
    /\ UNCHANGED <<netif, chip, cur_tx, dirty_tx, owed, skew, rcv, isr, hpc>>

StartXmit == CopyPacket \/ Lock \/ WriteTsd \/ AdvanceCur \/ CheckFull \/ StopFull

-----------------------------------------------------------------------------
(* rtl8139_interrupt.                                                      *)

\* Line 19: reads what is pending and clears it.  Interrupts of other kinds
\* are only printed.
Interrupt ==
    /\ netif \in {"up", "quiet"} /\ hpc = "idle" /\ intr_status # {}
    /\ Cpus = 1 => ~Locked
    /\ isr' = intr_status /\ intr_status' = {}
    /\ hpc' = IF "TxOK" \in intr_status THEN "tx" ELSE "rx"
    /\ UNCHANGED <<netif, tsd, rxq, cbr, ring, rcv>>

\* Mutated: the loop does not look at the queue.
TxTestRing ==
    /\ hpc = "tx"
    /\ hpc' = IF dirty_tx # cur_tx THEN "status" ELSE "rx"
    /\ UNCHANGED <<netif, chip, ring, rcv, isr>>

TxTest ==
    /\ hpc = "tx"
    /\ hpc' = IF dirty_tx # cur_tx \/ stopped THEN "status" ELSE "rx"
    /\ UNCHANGED <<netif, chip, ring, rcv, isr>>

\* Mutated: does not look whether the transmission has ended.
TxStatusAny ==
    /\ hpc = "status"
    /\ hpc' = "wake"
    /\ owed' = owed \ {dirty_tx}
    /\ dirty_tx' = Past(dirty_tx)
    /\ UNCHANGED <<netif, chip, stopped, cur_tx, skew, xpc, rcv, isr>>

TxPending ==
    /\ hpc = "status" /\ tsd[dirty_tx] # "done"
    /\ hpc' = "rx"
    /\ UNCHANGED <<netif, chip, ring, rcv, isr>>

TxStatus ==
    /\ hpc = "status" /\ tsd[dirty_tx] = "done"
    /\ hpc' = "wake"
    /\ owed' = owed \ {dirty_tx}
    /\ dirty_tx' = Past(dirty_tx)
    /\ UNCHANGED <<netif, chip, stopped, cur_tx, skew, xpc, rcv, isr>>

\* Mutated: wakes the queue as soon as a slot is free.
TxWakeAny ==
    /\ hpc = "wake"
    /\ hpc' = "tx"
    /\ stopped' = FALSE
    /\ UNCHANGED <<netif, chip, cur_tx, dirty_tx, owed, skew, xpc, rcv, isr>>

TxWake ==
    /\ hpc = "wake"
    /\ hpc' = "tx"
    /\ stopped' = (stopped /\ dirty_tx # cur_tx)
    /\ UNCHANGED <<netif, chip, cur_tx, dirty_tx, owed, skew, xpc, rcv, isr>>

\* Mutated: the interrupts are acknowledged here instead of on entry.
RxDoneAcks ==
    /\ hpc = "rx" /\ ("RxOK" \notin isr \/ rxq = <<>>)
    /\ hpc' = "idle"
    /\ intr_status' = {}
    /\ UNCHANGED <<netif, tsd, rxq, cbr, ring, rcv, isr>>

RxDone ==
    /\ hpc = "rx" /\ ("RxOK" \notin isr \/ rxq = <<>>)
    /\ hpc' = "idle"
    /\ UNCHANGED <<netif, chip, ring, rcv, isr>>

\* Mutated: an address past the end goes to the beginning.
WrappedToStart(at) == IF at > RxBufLen THEN 0 ELSE at

\* Lines 126 and 127.
Wrapped(at) == IF at > RxBufLen THEN at % RxBufLen ELSE at

\* With memory for the skb or without it the packet is passed over (line 201).
RxPacket ==
    /\ hpc = "rx" /\ "RxOK" \in isr /\ rxq # <<>>
    /\ Wrapped(cur_rx) = Head(rxq).at
    /\ cur_rx' = Wrapped(cur_rx) + Head(rxq).len
    /\ rxq' = Tail(rxq)
    /\ UNCHANGED <<netif, tsd, intr_status, cbr, ring, isr, hpc, lost>>

\* The length is read where the card has put no header: what the driver makes
\* of the ring from here is left out until the interface is opened again.
RxGarbage ==
    /\ hpc = "rx" /\ "RxOK" \in isr /\ rxq # <<>>
    /\ Wrapped(cur_rx) # Head(rxq).at
    /\ lost' = TRUE
    /\ rxq' = <<>>
    /\ UNCHANGED <<netif, tsd, intr_status, cbr, ring, cur_rx, isr, hpc>>

Handler == TxTest \/ TxPending \/ TxStatus \/ TxWake \/ RxDone \/ RxPacket \/ RxGarbage

-----------------------------------------------------------------------------
(* The card.  It has bit 7 of RCR set: a packet that meets the end of the  *)
(* ring goes on behind it, and only the next one starts at the beginning.  *)

Sent(s) ==
    /\ netif \in {"up", "quiet"} /\ tsd[s] = "busy"
    /\ tsd' = [tsd EXCEPT ![s] = "done"]
    /\ intr_status' = intr_status \cup {"TxOK"}
    /\ UNCHANGED <<netif, rxq, cbr, ring, rcv, isr, hpc>>

Room(n) == IF rxq = <<>> THEN TRUE ELSE (Head(rxq).at - cbr) % RxBufLen > n

Received(n) ==
    /\ netif \in {"up", "quiet"} /\ ~lost /\ Room(n)
    /\ rxq' = Append(rxq, [at |-> cbr, len |-> n])
    /\ cbr' = (cbr + n) % RxBufLen
    /\ intr_status' = intr_status \cup {"RxOK"}
    /\ UNCHANGED <<netif, tsd, ring, rcv, isr, hpc>>

-----------------------------------------------------------------------------
NicInit ==
    /\ netif = "down" /\ stopped = TRUE /\ xpc = "idle" /\ hpc = "idle"
    /\ cur_tx = 0 /\ dirty_tx = 0 /\ skew = 0 /\ owed = {}
    /\ tsd = [s \in Slots |-> "reset"] /\ intr_status = {} /\ isr = {}
    /\ cur_rx = 0 /\ cbr = 0 /\ rxq = <<>> /\ lost = FALSE

NicNext ==
    \/ Open \/ StopQueue \/ StopChip \/ FreeIrq
    \/ StartXmit \/ Interrupt \/ Handler
    \/ \E s \in Slots : Sent(s)
    \/ \E n \in PktSizes : Received(n)

\* The processors run what can run, and the card sends what it is given.
NicFairness ==
    /\ WF_nicvars(Lock \/ WriteTsd \/ AdvanceCur \/ CheckFull \/ StopFull)
    /\ WF_nicvars(Interrupt) /\ WF_nicvars(Handler)
    /\ \A s \in Slots : WF_nicvars(Sent(s))

NicSpec == NicInit /\ [][NicNext]_nicvars /\ NicFairness
=============================================================================
