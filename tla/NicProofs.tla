----------------------------- MODULE NicProofs ------------------------------
(***************************************************************************)
(* Proofs about Rtl8139, for rings of every size: its types, that the      *)
(* transmit ring is safe when an interrupt does not overlap start_xmit,    *)
(* and where alone the receive ring gets out of step.                      *)
(***************************************************************************)
EXTENDS NicProperties, SequenceTheorems, TLAPS

USE TxAssumption, RxAssumption, CpuAssumption
  DEF TxAssumption, RxAssumption, CpuAssumption

-----------------------------------------------------------------------------
(* Types.                                                                  *)

\* Before the first open the indices are 0 and the rings empty.
LEMMA NicTypeInit == NicInit => NicTypeOK
  BY EmptySeq DEF NicInit, NicTypeOK, Slots

\* Where the remainders of lines 88 and 127 lie.
LEMMA InRing ==
  /\ \A s \in Slots : Past(s) = IF s = NumTxDesc - 1 THEN 0 ELSE s + 1
  /\ \A s \in Slots : Past(s) \in Slots /\ s % NumTxDesc = s
  /\ \A n \in Nat : n % RxBufLen \in 0..RxBufLen - 1 /\ Wrapped(n) \in Nat
  BY DEF Past, Slots, Wrapped

\* Every action keeps the types.
LEMMA NicTypeStep == NicTypeOK /\ [NicNext]_nicvars => NicTypeOK'
  <1> SUFFICES ASSUME NicTypeOK, [NicNext]_nicvars PROVE NicTypeOK'
    OBVIOUS
  <1> USE DEF NicTypeOK, chip, ring, rcv
  <1>1. CASE Open
    <2>1. 0 \in Slots /\ 0 \in 0..RxBufLen - 1 /\ <<>> \in Seq(Packets)
      BY EmptySeq DEF Slots
    <2>2. [s \in Slots |-> "reset"] \in [Slots -> {"reset", "busy", "done"}]
      OBVIOUS
    <2> QED
      BY <1>1, <2>1, <2>2 DEF Open
  <1>2. CASE StopQueue \/ StopChip \/ FreeIrq
    BY <1>2 DEF StopQueue, StopChip, FreeIrq
  <1>3. CASE StartXmit
    <2>1. CASE WriteTsd
      BY <2>1, InRing DEF WriteTsd, Xmit
    <2>2. CASE AdvanceCur
      BY <2>2, InRing DEF AdvanceCur, Xmit
    <2>3. CASE CopyPacket \/ Lock \/ CheckFull \/ StopFull
      BY <2>3 DEF CopyPacket, Lock, CheckFull, StopFull, Xmit
    <2> QED
      BY <1>3, <2>1, <2>2, <2>3 DEF StartXmit
  <1>4. CASE Interrupt
    BY <1>4 DEF Interrupt
  <1>5. CASE Handler
    <2>1. CASE RxPacket
      <3>1. Head(rxq) \in Packets /\ Tail(rxq) \in Seq(Packets)
        BY <2>1, HeadTailProperties DEF RxPacket
      <3>2. Head(rxq).len \in Nat
        <4>1. \A p \in Packets : p.len \in PktSizes
          BY Zenon DEF Packets
        <4>2. Head(rxq).len \in PktSizes
          BY Zenon, <3>1, <4>1
        <4>3. PktSizes \subseteq Nat
          OBVIOUS
        <4> QED
          BY Zenon, <4>2, <4>3
      <3>3. Wrapped(cur_rx) \in Nat
        BY InRing
      <3>4. cur_rx' \in Nat
        BY <2>1, <3>2, <3>3 DEF RxPacket
      <3> QED
        BY <2>1, <3>1, <3>4 DEF RxPacket
    <2>2. CASE RxGarbage
      <3>1. <<>> \in Seq(Packets)
        BY EmptySeq
      <3> QED
        BY <2>2, <3>1 DEF RxGarbage
    <2>3. CASE TxStatus
      BY <2>3, InRing DEF TxStatus
    <2>4. CASE TxTest \/ TxPending \/ TxWake \/ RxDone
      BY <2>4 DEF TxTest, TxPending, TxWake, RxDone
    <2> QED
      BY <1>5, <2>1, <2>2, <2>3, <2>4 DEF Handler
  <1>6. ASSUME NEW s \in Slots, Sent(s) PROVE NicTypeOK'
    BY <1>6 DEF Sent
  <1>7. ASSUME NEW n \in PktSizes, Received(n) PROVE NicTypeOK'
    <2>1. (cbr + n) % RxBufLen \in 0..RxBufLen - 1
      <3>1. cbr + n \in Nat
        BY DEF NicTypeOK
      <3> QED
        BY <3>1, InRing
    <2>2. Append(rxq, [at |-> cbr, len |-> n]) \in Seq(Packets)
      BY AppendProperties DEF Packets
    <2> QED
      BY <1>7, <2>1, <2>2 DEF Received
  <1>8. CASE UNCHANGED nicvars
    BY <1>8 DEF nicvars
  <1> QED
    BY <1>1, <1>2, <1>3, <1>4, <1>5, <1>6, <1>7, <1>8 DEF NicNext

\* All variables stay in their types, the indices inside their rings.
THEOREM NicTypeCorrect == NicSpec => []NicTypeOK
  BY NicTypeInit, NicTypeStep, PTL DEF NicSpec

-----------------------------------------------------------------------------
(* The transmit ring, for Cpus = 1.                                        *)

\* What the invariant says of an interface that is up.
UpInv == IF skew = 0 THEN SteppedInv ELSE SkewedInv

\* The ring when the handler has the next slot.
LEMMA HandlerTakesOwed ==
  NicTypeOK /\ RingInv /\ netif = "up" /\ hpc = "status" => dirty_tx \in owed \/ skew # 0
  BY DEF NicTypeOK, RingInv, SteppedInv, Between, InHand, Slots

\* While the interface is not up the rings may be in any state.
LEMMA NicRingInit == NicInit => RingInv
  BY DEF NicInit, RingInv

\* Every action of an interface that is up keeps the two halves of the
\* invariant: the indices move by one, and one slot is given or taken with them.
LEMMA NicRingStep == Cpus = 1 /\ NicTypeOK /\ RingInv /\ [NicNext]_nicvars => RingInv'
  <1> SUFFICES ASSUME Cpus = 1, NicTypeOK, RingInv, [NicNext]_nicvars PROVE RingInv'
    OBVIOUS
  <1> USE DEF chip, ring, rcv, DriverRuns, Locked, Xmit
  <1>1. CASE Open
    BY <1>1 DEF Open, RingInv, SteppedInv, SkewedInv, Between, InHand, NicTypeOK, Slots
  <1>2. CASE StopQueue \/ StopChip \/ FreeIrq
    BY <1>2 DEF StopQueue, StopChip, FreeIrq, RingInv
  <1>3. CASE CopyPacket \/ Lock
    BY <1>3 DEF CopyPacket, Lock, RingInv, SteppedInv, SkewedInv, Between, InHand
  <1>4. CASE WriteTsd
    BY <1>4, InRing DEF WriteTsd, RingInv, SteppedInv, SkewedInv, Between, InHand, NicTypeOK
  <1>5. CASE AdvanceCur
    <2>1. CASE skew = 0
      <3>1. cur_tx' = IF cur_tx = NumTxDesc - 1 THEN 0 ELSE cur_tx + 1
        BY <1>5, InRing DEF AdvanceCur, NicTypeOK
      <3>2. owed = IF cur_tx = dirty_tx THEN {cur_tx} ELSE Between(dirty_tx, cur_tx) \cup {cur_tx}
        BY <1>5, <2>1 DEF AdvanceCur, RingInv, SteppedInv, InHand
      <3>3. ASSUME cur_tx' = dirty_tx PROVE owed = Slots
        <4>1. owed = Between(dirty_tx, cur_tx) \cup {cur_tx}
          BY <3>1, <3>2, <3>3 DEF Slots, NicTypeOK
        <4>2. ASSUME NEW s \in Slots PROVE s \in owed
          BY <3>1, <3>3, <4>1 DEF Between, Slots, NicTypeOK
        <4> QED
          BY <4>2 DEF NicTypeOK
      <3>4. ASSUME cur_tx' # dirty_tx PROVE owed = Between(dirty_tx, cur_tx')
        BY <3>1, <3>2, <3>4 DEF Between, Slots, NicTypeOK
      <3> QED
        BY <1>5, <2>1, <3>3, <3>4 DEF AdvanceCur, RingInv, SteppedInv, InHand, Between
    <2>2. CASE skew # 0
      <3>1. cur_tx' = IF cur_tx = NumTxDesc - 1 THEN 0 ELSE cur_tx + 1
        BY <1>5, InRing DEF AdvanceCur, NicTypeOK
      <3>2. cur_tx # 0 /\ cur_tx >= skew
        BY <1>5, <2>2 DEF AdvanceCur, RingInv, SkewedInv, NicTypeOK
      <3>3. owed = {s \in Slots : s >= skew /\ s < cur_tx} \cup {cur_tx}
        BY <1>5, <2>2, <3>2 DEF AdvanceCur, RingInv, SkewedInv, InHand
      <3>4. owed = {s \in Slots : s >= skew /\ (cur_tx' = 0 \/ s < cur_tx')}
        BY <3>1, <3>2, <3>3 DEF Slots, NicTypeOK
      <3> QED
        BY <1>5, <2>2, <3>1, <3>2, <3>4 DEF AdvanceCur, RingInv, SkewedInv, InHand, NicTypeOK, Slots
    <2> QED
      BY <2>1, <2>2
  <1>6. CASE CheckFull
    BY <1>6 DEF CheckFull, RingInv, SteppedInv, SkewedInv, Between, InHand
  <1>7. CASE StopFull
    BY <1>7 DEF StopFull, RingInv, SteppedInv, SkewedInv, Between, InHand
  <1>8. CASE Interrupt
    BY <1>8 DEF Interrupt, RingInv, SteppedInv, SkewedInv, Between, InHand, NicTypeOK
  <1>9. CASE TxTest \/ TxPending \/ RxDone \/ RxPacket \/ RxGarbage
    BY <1>9 DEF TxTest, TxPending, RxDone, RxPacket, RxGarbage, RingInv, SteppedInv, SkewedInv,
       Between, InHand
  <1>10. CASE TxStatus
    <2>1. CASE skew = 0
      <3>1. CASE netif # "up"
        BY <1>10, <3>1 DEF TxStatus, RingInv
      <3>2. CASE netif = "up"
        <4>1. dirty_tx' = IF dirty_tx = NumTxDesc - 1 THEN 0 ELSE dirty_tx + 1
          BY <1>10, InRing DEF TxStatus, NicTypeOK
        <4>2. owed = IF cur_tx = dirty_tx THEN Slots ELSE Between(dirty_tx, cur_tx)
          BY <1>10, <2>1, <3>2 DEF TxStatus, RingInv, SteppedInv, InHand
        <4>3. owed \ {dirty_tx} = IF cur_tx = dirty_tx' THEN {} ELSE Between(dirty_tx', cur_tx)
          BY <4>1, <4>2 DEF Between, Slots, NicTypeOK
        <4> QED
          BY <1>10, <2>1, <3>2, <4>3 DEF TxStatus, RingInv, SteppedInv, InHand, Between
      <3> QED
        BY <3>1, <3>2
    <2>2. CASE skew # 0
      BY <1>10, <2>2 DEF TxStatus, RingInv, SkewedInv
    <2> QED
      BY <2>1, <2>2
  <1>11. CASE TxWake
    BY <1>11 DEF TxWake, RingInv, SteppedInv, SkewedInv, Between, InHand, Slots, NicTypeOK
  <1>12. ASSUME NEW s \in Slots, Sent(s) PROVE RingInv'
    BY <1>12 DEF Sent, RingInv, SteppedInv, SkewedInv, Between, InHand, NicTypeOK
  <1>13. ASSUME NEW n \in PktSizes, Received(n) PROVE RingInv'
    BY <1>13 DEF Received, RingInv, SteppedInv, SkewedInv, Between, InHand
  <1>14. CASE UNCHANGED nicvars
    BY <1>14 DEF nicvars, RingInv, SteppedInv, SkewedInv, Between, InHand
  <1> QED
    BY <1>1, <1>2, <1>3, <1>4, <1>5, <1>6, <1>7, <1>8, <1>9, <1>10, <1>11, <1>12, <1>13, <1>14
       DEF NicNext, StartXmit, Handler

\* Taken together, when one processor runs driver and handler.
LEMMA NicInvariance == Cpus = 1 => (NicSpec => [](NicTypeOK /\ RingInv))
  <1> SUFFICES ASSUME Cpus = 1 PROVE NicSpec => [](NicTypeOK /\ RingInv)
    OBVIOUS
  <1>1. NicTypeOK /\ RingInv /\ [NicNext]_nicvars => (NicTypeOK /\ RingInv)'
    BY NicTypeStep, NicRingStep
  <1> QED
    BY <1>1, NicTypeInit, NicRingInit, PTL DEF NicSpec

\* start_xmit uses no descriptor that the card still has (line 11 of
\* rtl8139_start_xmit: "the next available transmit descriptor").
THEOREM DescriptorAvailable == Cpus = 1 => (NicSpec => []SlotAvailable)
  <1> SUFFICES ASSUME Cpus = 1 PROVE NicSpec => []SlotAvailable
    OBVIOUS
  <1>1. NicTypeOK /\ RingInv => SlotAvailable
    <2> SUFFICES ASSUME NicTypeOK, RingInv, xpc \in {"copied", "locked"} PROVE cur_tx \notin owed
      BY DEF SlotAvailable
    <2>1. CASE skew = 0
      BY <2>1 DEF RingInv, SteppedInv, Between, InHand, NicTypeOK, Slots
    <2>2. CASE skew # 0
      BY <2>2 DEF RingInv, SkewedInv, InHand, NicTypeOK, Slots
    <2> QED
      BY <2>1, <2>2
  <1> QED
    BY <1>1, NicInvariance, PTL

\* The handler takes back (line 88 of rtl8139_interrupt) only what is owed.
THEOREM NothingTakenTwice == Cpus = 1 => (NicSpec => TakenBackOnce)
  <1> SUFFICES ASSUME Cpus = 1 PROVE NicSpec => TakenBackOnce
    OBVIOUS
  <1>1. ASSUME NicTypeOK, RingInv, [NicNext]_nicvars, hpc = "status", hpc' = "wake", netif = "up"
        PROVE  dirty_tx \in owed
    <2>1. tsd[dirty_tx] = "done"
      BY <1>1 DEF nicvars, NicNext, Open, StopQueue, StopChip, FreeIrq, StartXmit, CopyPacket,
         Lock, WriteTsd, AdvanceCur, CheckFull, StopFull, Xmit, Interrupt, Handler, TxTest,
         TxPending, TxStatus, TxWake, RxDone, RxPacket, RxGarbage, Sent, Received
    <2>2. skew = 0
      BY <1>1, <2>1 DEF RingInv, SkewedInv
    <2> QED
      BY <1>1, <2>2, HandlerTakesOwed
  <1>2. NicTypeOK /\ RingInv /\ [NicNext]_nicvars =>
          [hpc = "status" /\ hpc' = "wake" /\ netif = "up" => dirty_tx \in owed]_nicvars
    BY <1>1
  <1> QED
    BY <1>2, NicInvariance, PTL DEF NicSpec, TakenBackOnce

\* The queue is woken (line 94 of rtl8139_interrupt) when all is taken back.
THEOREM WokenOnlyWhenFree == Cpus = 1 => (NicSpec => WokenWhenFree)
  <1> SUFFICES ASSUME Cpus = 1 PROVE NicSpec => WokenWhenFree
    OBVIOUS
  <1>1. ASSUME NicTypeOK, RingInv, [NicNext]_nicvars, netif = "up", stopped, ~stopped'
        PROVE  owed = {}
    <2>1. TxWake
      BY <1>1 DEF nicvars, NicNext, Open, StopQueue, StopChip, FreeIrq, StartXmit, CopyPacket,
         Lock, WriteTsd, AdvanceCur, CheckFull, StopFull, Xmit, Interrupt, Handler, TxTest,
         TxPending, TxStatus, RxDone, RxPacket, RxGarbage, Sent, Received, chip, ring
    <2>2. hpc = "wake" /\ cur_tx = dirty_tx
      BY <1>1, <2>1 DEF TxWake
    <2> QED
      BY <1>1, <2>2 DEF RingInv, SteppedInv, SkewedInv, InHand
  <1>2. NicTypeOK /\ RingInv /\ [NicNext]_nicvars =>
          [netif = "up" /\ stopped /\ ~stopped' => owed = {}]_nicvars
    BY <1>1
  <1> QED
    BY <1>2, NicInvariance, PTL DEF NicSpec, WokenWhenFree

-----------------------------------------------------------------------------
(* A stopped queue is not forgotten, for Cpus = 1.                         *)

\* Every action keeps what is known of the descriptors.
LEMMA CardStep ==
  Cpus = 1 /\ NicTypeOK /\ RingInv /\ CardInv /\ [NicNext]_nicvars => CardInv'
  <1> SUFFICES ASSUME Cpus = 1, NicTypeOK, RingInv, CardInv, [NicNext]_nicvars,
                      netif' = "up", skew' = 0
               PROVE  /\ \A s \in Slots : tsd'[s] = "busy" => s \in owed'
                      /\ \A s \in owed' : tsd'[s] # "reset"
                      /\ hpc' \in {"idle", "rx"} /\ dirty_tx' \in owed' /\ tsd'[dirty_tx'] = "done"
                           => "TxOK" \in intr_status'
    BY DEF CardInv
  <1> USE DEF chip, ring, rcv, DriverRuns, Locked, Xmit
  <1>1. CASE Open
    BY <1>1 DEF Open
  <1>2. CASE StopQueue \/ StopChip \/ FreeIrq
    BY <1>2 DEF StopQueue, StopChip, FreeIrq
  <1>3. CASE CopyPacket \/ Lock \/ AdvanceCur \/ CheckFull \/ StopFull
    BY <1>3 DEF CopyPacket, Lock, AdvanceCur, CheckFull, StopFull, CardInv
  <1>4. CASE WriteTsd
    <2>1. cur_tx % NumTxDesc = cur_tx /\ owed \subseteq Slots
      BY InRing DEF NicTypeOK
    <2>2. tsd' = [tsd EXCEPT ![cur_tx] = "busy"] /\ owed' = owed \cup {cur_tx}
      BY <1>4, <2>1 DEF WriteTsd
    <2> QED
      BY <1>4, <2>1, <2>2 DEF WriteTsd, CardInv, NicTypeOK
  <1>5. CASE Interrupt
    BY <1>5 DEF Interrupt, CardInv
  <1>6. CASE TxTest
    <2>1. CASE hpc' = "rx"
      <3>1. cur_tx = dirty_tx /\ ~stopped /\ xpc \in {"idle", "copied"}
        BY <1>6, <2>1 DEF TxTest, RingInv
      <3>2. owed = {}
        BY <1>6, <3>1 DEF TxTest, RingInv, SteppedInv, InHand
      <3> QED
        BY <1>6, <3>2 DEF TxTest, CardInv
    <2>2. CASE hpc' # "rx"
      BY <1>6, <2>2 DEF TxTest, CardInv
    <2> QED
      BY <2>1, <2>2
  <1>7. CASE TxPending
    BY <1>7 DEF TxPending, CardInv
  <1>8. CASE TxStatus
    BY <1>8 DEF TxStatus, CardInv
  <1>9. CASE TxWake
    BY <1>9 DEF TxWake, CardInv
  <1>10. CASE RxDone \/ RxPacket \/ RxGarbage
    BY <1>10 DEF RxDone, RxPacket, RxGarbage, CardInv
  <1>11. ASSUME NEW s \in Slots, Sent(s)
         PROVE  /\ \A d \in Slots : tsd'[d] = "busy" => d \in owed'
                /\ \A d \in owed' : tsd'[d] # "reset"
                /\ hpc' \in {"idle", "rx"} /\ dirty_tx' \in owed' /\ tsd'[dirty_tx'] = "done"
                     => "TxOK" \in intr_status'
    BY <1>11 DEF Sent, CardInv, NicTypeOK
  <1>12. ASSUME NEW n \in PktSizes, Received(n)
         PROVE  /\ \A d \in Slots : tsd'[d] = "busy" => d \in owed'
                /\ \A d \in owed' : tsd'[d] # "reset"
                /\ hpc' \in {"idle", "rx"} /\ dirty_tx' \in owed' /\ tsd'[dirty_tx'] = "done"
                     => "TxOK" \in intr_status'
    BY <1>12 DEF Received, CardInv
  <1>13. CASE UNCHANGED nicvars
    BY <1>13 DEF nicvars, CardInv
  <1> QED
    BY <1>1, <1>2, <1>3, <1>4, <1>5, <1>6, <1>7, <1>8, <1>9, <1>10, <1>11, <1>12, <1>13
       DEF NicNext, StartXmit, Handler

\* All three invariants together.
NicInv == NicTypeOK /\ RingInv /\ CardInv

\* They hold for ever.
LEMMA CardInvariance == Cpus = 1 => (NicSpec => []NicInv)
  <1> SUFFICES ASSUME Cpus = 1 PROVE NicSpec => []NicInv
    OBVIOUS
  <1>1. NicInit => CardInv
    BY DEF NicInit, CardInv
  <1>2. NicInv /\ [NicNext]_nicvars => NicInv'
    BY NicTypeStep, NicRingStep, CardStep DEF NicInv
  <1> QED
    BY <1>1, <1>2, NicTypeInit, NicRingInit, PTL DEF NicSpec, NicInv

\* A queue stopped by start_xmit (line 46) is woken by whatever is still to
\* come: an interrupt, or the end of a transmission.  This is the safety
\* behind QueueWakes.
THEOREM StoppedNotForgotten == Cpus = 1 => (NicSpec => []NotForgotten)
  <1> SUFFICES ASSUME Cpus = 1 PROVE NicSpec => []NotForgotten
    OBVIOUS
  <1>1. NicInv => NotForgotten
    <2> SUFFICES ASSUME NicInv, netif = "up", skew = 0, stopped, hpc = "idle"
                 PROVE  "TxOK" \in intr_status \/ tsd[dirty_tx] = "busy"
      BY DEF NotForgotten
    <2>1. SteppedInv /\ dirty_tx \in Slots /\ cur_tx \in Slots
      BY DEF NicInv, RingInv, NicTypeOK
    <2>2. dirty_tx \in owed
      BY <2>1 DEF SteppedInv, Between, Slots
    <2>3. tsd[dirty_tx] # "reset" /\ tsd[dirty_tx] \in {"reset", "busy", "done"}
      BY <2>1, <2>2 DEF NicInv, CardInv, NicTypeOK
    <2> QED
      BY <2>2, <2>3 DEF NicInv, CardInv
  <1> QED
    BY <1>1, CardInvariance, PTL

\* An interface opened with cur_tx left where it was (line 54 of rtl8139_open
\* resets dirty_tx only): once its queue has stopped nothing wakes it before
\* the interface goes down.
THEOREM SkewedNeverWakes ==
  Cpus = 1 => (NicSpec => [][netif = "up" /\ skew # 0 /\ stopped => stopped']_nicvars)
  <1> SUFFICES ASSUME Cpus = 1
               PROVE  NicSpec => [][netif = "up" /\ skew # 0 /\ stopped => stopped']_nicvars
    OBVIOUS
  <1>1. ASSUME NicTypeOK, RingInv, [NicNext]_nicvars, netif = "up", skew # 0, stopped
        PROVE  stopped'
    <2>1. hpc # "wake"
      BY <1>1 DEF RingInv, SkewedInv
    <2> QED
      BY <1>1, <2>1
         DEF nicvars, NicNext, Open, StopQueue, StopChip, FreeIrq, StartXmit, CopyPacket, Lock,
         WriteTsd, AdvanceCur, CheckFull, StopFull, Xmit, Interrupt, Handler, TxTest,
         TxPending, TxStatus, TxWake, RxDone, RxPacket, RxGarbage, Sent, Received, chip, ring
  <1>2. NicTypeOK /\ RingInv /\ [NicNext]_nicvars =>
          [netif = "up" /\ skew # 0 /\ stopped => stopped']_nicvars
    BY <1>1
  <1> QED
    BY <1>2, NicInvariance, PTL DEF NicSpec

-----------------------------------------------------------------------------
(* The driver implements TransmitQueue, for Cpus = 1 and rings of every    *)
(* size.  WriteTsd sends, TxStatus takes back, StopFull holds and TxWake   *)
(* releases; every other step of the driver leaves the queue as it is.     *)

\* A place up to twice around the ring, and how far a slot is behind dirty_tx.
Turn(x) == IF x < NumTxDesc THEN x ELSE x - NumTxDesc
Behind(s) == IF s >= dirty_tx THEN s - dirty_tx ELSE s - dirty_tx + NumTxDesc

\* The remainder is that place.
LEMMA RemainderIsTurn ==
  \A x \in 0..2 * NumTxDesc - 1 : x % NumTxDesc = Turn(x) /\ Turn(x) \in Slots
  BY DEF Turn, Slots

\* What the queue's variables are in service: the slots from dirty_tx on, as
\* many as are owed.
QueueShape ==
    /\ NextSlot \in Slots
    /\ Outstanding = IF owed = Slots THEN NumTxDesc ELSE Behind(NextSlot)
    /\ Outstanding \in 0..NumTxDesc
    /\ QueueOut \in Seq(Slots) /\ Len(QueueOut) = Outstanding
    /\ \A k \in 1..Outstanding : QueueOut[k] = Turn(dirty_tx + k - 1)
    /\ owed = {s \in Slots : Behind(s) < Outstanding}

\* It follows from the invariants.
LEMMA QueueShapeNow == NicInv /\ InService => QueueShape
  <1> SUFFICES ASSUME NicInv, InService PROVE QueueShape
    OBVIOUS
  <1>1. cur_tx \in Slots /\ dirty_tx \in Slots /\ SteppedInv /\ owed \subseteq Slots
    BY DEF NicInv, NicTypeOK, RingInv, InService
  <1>2. NextSlot \in Slots /\ NextSlot = IF xpc = "written" THEN Past(cur_tx) ELSE cur_tx
    BY <1>1, InRing DEF NextSlot
  <1>3. Outstanding = IF owed = Slots THEN NumTxDesc ELSE Behind(NextSlot)
    <2>1. NumTxDesc + NextSlot - dirty_tx \in 0..2 * NumTxDesc - 1
      BY <1>1, <1>2 DEF Slots
    <2>2. (NumTxDesc + NextSlot - dirty_tx) % NumTxDesc = Turn(NumTxDesc + NextSlot - dirty_tx)
      BY <2>1, RemainderIsTurn
    <2>3. Turn(NumTxDesc + NextSlot - dirty_tx) = Behind(NextSlot)
      BY <1>1, <1>2 DEF Turn, Behind, Slots
    <2> QED
      BY <2>2, <2>3 DEF Outstanding
  <1>4. Outstanding \in 0..NumTxDesc
    BY <1>1, <1>2, <1>3 DEF Behind, Slots
  <1>5. \A k \in 1..Outstanding :
           /\ (dirty_tx + k - 1) % NumTxDesc = Turn(dirty_tx + k - 1)
           /\ Turn(dirty_tx + k - 1) \in Slots
    <2>1. \A k \in 1..Outstanding : dirty_tx + k - 1 \in 0..2 * NumTxDesc - 1
      BY <1>1, <1>4 DEF Slots
    <2> QED
      BY <2>1, RemainderIsTurn
  <1>6. QueueOut \in [1..Outstanding -> Slots]
    BY <1>5 DEF QueueOut
  <1>7. QueueOut \in Seq(Slots)
    BY <1>4, <1>6, SeqDef
  <1>8. Len(QueueOut) = Outstanding
    BY <1>4, <1>6, <1>7, LenProperties
  <1>9. \A k \in 1..Outstanding : QueueOut[k] = Turn(dirty_tx + k - 1)
    BY <1>5 DEF QueueOut
  <1>10. owed = {s \in Slots : Behind(s) < Outstanding}
    <2>1. CASE owed = Slots
      BY <1>1, <1>3, <2>1 DEF Behind, Slots
    <2>2. CASE owed # Slots /\ xpc = "written"
      <3>1. NextSlot = IF cur_tx = NumTxDesc - 1 THEN 0 ELSE cur_tx + 1
        BY <1>1, <1>2, <2>2, InRing
      <3>2. owed = IF cur_tx = dirty_tx THEN {cur_tx} ELSE Between(dirty_tx, cur_tx) \cup {cur_tx}
        <4>1. ~stopped
          BY <2>2 DEF NicInv, RingInv
        <4> QED
          BY <1>1, <2>2, <4>1 DEF SteppedInv, InHand
      <3>3. NextSlot # dirty_tx
        <4> SUFFICES ASSUME NextSlot = dirty_tx PROVE FALSE
          OBVIOUS
        <4>0. dirty_tx = IF cur_tx = NumTxDesc - 1 THEN 0 ELSE cur_tx + 1
          BY <3>1
        <4>1. cur_tx # dirty_tx
          BY <1>1, <4>0 DEF Slots
        <4>2. ASSUME NEW s \in Slots PROVE s \in owed
          <5>1. owed = Between(dirty_tx, cur_tx) \cup {cur_tx}
            BY <3>2, <4>1
          <5>2. s = cur_tx \/ s \in Between(dirty_tx, cur_tx)
            BY <1>1, <4>0 DEF Between, Slots
          <5> QED
            BY <5>1, <5>2
        <4> QED
          BY <1>1, <2>2, <4>2
      <3>4. Outstanding = Behind(NextSlot)
        BY <1>3, <2>2
      <3>5. \A s \in Slots : s \in owed <=> Behind(s) < Outstanding
        BY <1>1, <3>1, <3>2, <3>3, <3>4 DEF Between, Behind, Slots
      <3> QED
        BY <1>1, <3>5
    <2>3. CASE owed # Slots /\ xpc # "written"
      <3>1. NextSlot = cur_tx
        BY <1>2, <2>3
      <3>2. owed = IF cur_tx = dirty_tx THEN {} ELSE Between(dirty_tx, cur_tx)
        BY <1>1, <2>3 DEF SteppedInv, InHand
      <3>3. Outstanding = Behind(cur_tx)
        BY <1>3, <2>3, <3>1
      <3>4. \A s \in Slots : s \in owed <=> Behind(s) < Outstanding
        BY <1>1, <3>2, <3>3 DEF Between, Behind, Slots
      <3> QED
        BY <1>1, <3>4
    <2> QED
      BY <2>1, <2>2, <2>3
  <1> QED
    BY <1>2, <1>3, <1>4, <1>7, <1>8, <1>9, <1>10 DEF QueueShape

\* In the next state too.
LEMMA QueueShapeNext == NicInv' /\ InService' => QueueShape'
  BY QueueShapeNow, PTL

\* The queue's variables, as the driver has them, and a step of the queue.
queuevars == <<QueueFlow, QueueOut, QueueEnded, QueueNext>>
QueueMoves == [Promised!Next]_queuevars

\* What the steps start from.
QueueStart == Cpus = 1 /\ NicInv /\ NicInv'

\* A ring with nothing outstanding.
LEMMA NothingOut ==
  ASSUME QueueShape, owed = {}, NextSlot = dirty_tx PROVE QueueOut = <<>>
  <1>1. owed # Slots
    BY DEF Slots
  <1>2. Outstanding = 0
    BY <1>1 DEF QueueShape, Behind, Slots
  <1> QED
    BY <1>2, EmptySeq DEF QueueShape

\* The same in the next state.
LEMMA NothingOutNext ==
  (QueueShape /\ owed = {} /\ NextSlot = dirty_tx)' => (QueueOut = <<>>)'
  <1>1. QueueShape /\ owed = {} /\ NextSlot = dirty_tx => QueueOut = <<>>
    BY NothingOut
  <1> QED
    BY <1>1, PTL

\* Opening (line 54 of rtl8139_open) puts a ring in service when it finds
\* cur_tx at 0.
LEMMA OpenSwitches == ASSUME QueueStart, Open PROVE QueueMoves
  <1>1. ~InService /\ xpc' = "idle"
    BY DEF Open, InService, QueueStart, NicInv, RingInv
  <1>2. CASE InService'
    <2>1. QueueShape'
      BY <1>2, QueueShapeNext DEF QueueStart
    <2>2. owed' = {} /\ dirty_tx' = 0 /\ cur_tx' = 0 /\ ~stopped'
      BY <1>2 DEF Open, InService
    <2>3. NextSlot' = 0
      BY <1>1, <2>2 DEF NextSlot
    <2>4. QueueOut' = <<>>
      BY <2>1, <2>2, <2>3, NothingOutNext
    <2>5. QueueEnded' = {} /\ QueueNext' = 0 /\ QueueFlow' = "go"
      BY <1>2, <2>2, <2>3 DEF QueueEnded, QueueNext, QueueFlow
    <2>6. QueueFlow = "off" /\ QueueOut = <<>> /\ QueueEnded = {} /\ QueueNext = 0
      BY <1>1 DEF QueueFlow, QueueOut, QueueEnded, QueueNext
    <2> QED
      BY <2>4, <2>5, <2>6 DEF QueueMoves, Promised!Next, Promised!SwitchOn
  <1>3. CASE ~InService'
    BY <1>1, <1>3 DEF QueueMoves, queuevars, QueueFlow, QueueOut, QueueEnded, QueueNext
  <1> QED
    BY <1>2, <1>3

\* Stopping takes it out of service.
LEMMA StopSwitches == ASSUME StopQueue PROVE QueueMoves
  <1>1. ~InService'
    BY DEF StopQueue, InService
  <1>2. QueueFlow' = "off" /\ QueueOut' = <<>> /\ QueueEnded' = {} /\ QueueNext' = 0
    BY <1>1 DEF QueueFlow, QueueOut, QueueEnded, QueueNext
  <1>3. CASE InService
    BY <1>2, <1>3 DEF QueueMoves, Promised!Next, Promised!SwitchOff, QueueFlow
  <1>4. CASE ~InService
    BY <1>2, <1>4 DEF QueueMoves, queuevars, QueueFlow, QueueOut, QueueEnded, QueueNext
  <1> QED
    BY <1>3, <1>4

\* A packet handed to the card (line 36 of start_xmit) goes to the slot whose
\* turn it is, and finds one free.
LEMMA WriteSends == ASSUME QueueStart, WriteTsd, InService PROVE Promised!Send
  <1>1. InService' /\ QueueShape /\ QueueShape'
    BY QueueShapeNow, QueueShapeNext DEF WriteTsd, InService, QueueStart
  <1>2. /\ xpc = "locked" /\ xpc' = "written" /\ ~stopped /\ ~stopped'
        /\ cur_tx' = cur_tx /\ dirty_tx' = dirty_tx
        /\ cur_tx \in Slots /\ dirty_tx \in Slots /\ cur_tx % NumTxDesc = cur_tx
    BY InRing DEF WriteTsd, Xmit, QueueStart, NicInv, RingInv, NicTypeOK
  <1>3. cur_tx \notin owed /\ owed' = owed \cup {cur_tx}
    <2>1. cur_tx \notin owed
      BY <1>2 DEF QueueStart, NicInv, RingInv, SteppedInv, Between, InHand, InService, Slots
    <2> QED
      BY <1>2, <2>1 DEF WriteTsd
  <1>4. NextSlot = cur_tx /\ NextSlot' = Past(cur_tx)
    BY <1>2 DEF NextSlot, Past
  <1>5. Outstanding = Behind(cur_tx) /\ Outstanding < NumTxDesc
    <2>1. owed # Slots
      BY <1>2, <1>3
    <2> QED
      BY <1>1, <1>2, <1>4, <2>1 DEF QueueShape, Behind, Slots
  <1>6. Outstanding' = Outstanding + 1
    <2>1. NextSlot' = IF cur_tx = NumTxDesc - 1 THEN 0 ELSE cur_tx + 1
      BY <1>2, <1>4, InRing
    <2>2. \A s \in Slots : Behind(s)' = Behind(s)
      BY <1>2 DEF Behind
    <2>3. cur_tx \in owed'
      BY <1>3
    <2>4. Behind(cur_tx) < Outstanding'
      <3>1. owed' = {s \in Slots : Behind(s)' < Outstanding'}
        BY <1>1 DEF QueueShape
      <3> QED
        BY <1>2, <2>2, <2>3, <3>1
    <2>5. Slots' = Slots /\ (owed' = Slots => Outstanding' = NumTxDesc)
      BY <1>1 DEF QueueShape, Slots
    <2>6. CASE owed' = Slots
      <3>1. \A s \in Slots : s # cur_tx => Behind(s) < Behind(cur_tx)
        BY <1>1, <1>3, <1>5, <2>6 DEF QueueShape
      <3>2. Behind(cur_tx) = NumTxDesc - 1
        <4> DEFINE q == IF dirty_tx = 0 THEN NumTxDesc - 1 ELSE dirty_tx - 1
        <4>1. q \in Slots /\ Behind(q) = NumTxDesc - 1
          BY <1>2 DEF Slots, Behind
        <4>2. Behind(cur_tx) \in 0..NumTxDesc - 1
          BY <1>2 DEF Slots, Behind
        <4>3. CASE q = cur_tx
          BY <4>1, <4>3
        <4>4. CASE q # cur_tx
          <5>1. Behind(q) < Behind(cur_tx)
            BY <3>1, <4>1, <4>4
          <5> QED
            BY <4>1, <4>2, <5>1
        <4> QED
          BY <4>3, <4>4
      <3> QED
        BY <1>5, <2>5, <2>6, <3>2
    <2>7. CASE owed' # Slots
      <3>1. Outstanding' = Behind(NextSlot)'
        BY <1>1, <2>5, <2>7 DEF QueueShape
      <3>2. Behind(NextSlot)' = IF NextSlot' >= dirty_tx THEN NextSlot' - dirty_tx
                                ELSE NextSlot' - dirty_tx + NumTxDesc
        BY <1>2 DEF Behind
      <3> QED
        BY <1>2, <1>5, <2>1, <2>4, <3>1, <3>2 DEF Behind, Slots
    <2> QED
      BY <2>6, <2>7
  <1>7. QueueOut' = Append(QueueOut, QueueNext)
    <2>1. QueueNext = cur_tx
      BY <1>4 DEF QueueNext
    <2>2. /\ QueueOut \in Seq(Slots) /\ Len(QueueOut) = Outstanding /\ Outstanding \in Nat
          /\ QueueOut' \in Seq(Slots) /\ Len(QueueOut') = Outstanding + 1
      <3>1. QueueOut \in Seq(Slots) /\ Len(QueueOut) = Outstanding /\ Outstanding \in Nat
        BY <1>1 DEF QueueShape
      <3>2. Slots' = Slots
        BY DEF Slots
      <3>3. QueueOut' \in Seq(Slots) /\ Len(QueueOut') = Outstanding'
        BY <1>1, <3>2 DEF QueueShape
      <3> QED
        BY <1>6, <3>1, <3>3
    <2>3. /\ Append(QueueOut, cur_tx) \in Seq(Slots)
          /\ Len(Append(QueueOut, cur_tx)) = Outstanding + 1
          /\ \A k \in 1..Outstanding : Append(QueueOut, cur_tx)[k] = QueueOut[k]
          /\ Append(QueueOut, cur_tx)[Outstanding + 1] = cur_tx
      BY <1>2, <2>2, AppendProperties
    <2>4. \A k \in 1..Outstanding + 1 : QueueOut'[k] = Turn(dirty_tx + k - 1)
      BY <1>1, <1>2, <1>6 DEF QueueShape, Turn
    <2>5. Turn(dirty_tx + (Outstanding + 1) - 1) = cur_tx
      BY <1>2, <1>5 DEF Turn, Behind, Slots
    <2>6. ASSUME NEW k \in 1..Outstanding + 1
          PROVE  QueueOut'[k] = Append(QueueOut, cur_tx)[k]
      <3>1. CASE k = Outstanding + 1
        BY <2>3, <2>4, <2>5, <3>1
      <3>2. CASE k # Outstanding + 1
        <4>1. k \in 1..Outstanding
          BY <2>2, <3>2
        <4>2. QueueOut[k] = Turn(dirty_tx + k - 1)
          BY <1>1, <4>1 DEF QueueShape
        <4> QED
          BY <2>3, <2>4, <4>1, <4>2
      <3> QED
        BY <3>1, <3>2
    <2> QED
      BY <2>1, <2>2, <2>3, <2>6, SeqEqual
  <1>8. QueueNext' = (QueueNext + 1) % NumTxDesc
    BY <1>1, <1>4 DEF QueueNext, Past
  <1>9. QueueEnded' = QueueEnded
    <2>1. tsd' = [tsd EXCEPT ![cur_tx] = "busy"] /\ tsd \in [Slots -> {"reset", "busy", "done"}]
      BY <1>2 DEF WriteTsd, QueueStart, NicInv, NicTypeOK
    <2>2. owed \subseteq Slots
      BY DEF QueueStart, NicInv, NicTypeOK
    <2>3. {s \in owed' : tsd'[s] = "done"} = {s \in owed : tsd[s] = "done"}
      BY <1>2, <1>3, <2>1, <2>2
    <2> QED
      BY <1>1, <2>3 DEF QueueEnded
  <1>10. QueueFlow = "go" /\ QueueFlow' = "go"
    BY <1>1, <1>2 DEF QueueFlow
  <1>11. Len(QueueOut) < NumTxDesc
    BY <1>1, <1>5 DEF QueueShape
  <1> QED
    BY <1>7, <1>8, <1>9, <1>10, <1>11 DEF Promised!Send

\* The handler takes back (line 88) the oldest packet, with which the card has
\* ended.
LEMMA StatusTakesBack == ASSUME QueueStart, TxStatus, InService PROVE Promised!TakeBack
  <1>1. InService' /\ QueueShape /\ QueueShape'
    BY QueueShapeNow, QueueShapeNext DEF TxStatus, InService, QueueStart
  <1>2. /\ xpc \in {"idle", "copied"} /\ xpc' = xpc /\ stopped' = stopped /\ cur_tx' = cur_tx
        /\ dirty_tx' = Past(dirty_tx) /\ owed' = owed \ {dirty_tx} /\ tsd' = tsd
        /\ tsd[dirty_tx] = "done" /\ cur_tx \in Slots /\ dirty_tx \in Slots
    BY DEF TxStatus, QueueStart, NicInv, RingInv, NicTypeOK, chip
  <1>3. dirty_tx' = IF dirty_tx = NumTxDesc - 1 THEN 0 ELSE dirty_tx + 1
    BY <1>2, InRing
  <1>4. dirty_tx \in owed
    BY HandlerTakesOwed DEF TxStatus, QueueStart, NicInv, InService
  <1>5. NextSlot = cur_tx /\ NextSlot' = cur_tx
    BY <1>2 DEF NextSlot
  <1>6. Outstanding > 0 /\ Outstanding' = Outstanding - 1
    <2>1. Outstanding > 0
      BY <1>1, <1>2, <1>4 DEF QueueShape, Behind, Slots
    <2>2. Slots' = Slots /\ owed' # Slots
      BY <1>2 DEF Slots
    <2>3. Outstanding' = Behind(NextSlot)'
      BY <1>1, <2>2 DEF QueueShape
    <2>4. Behind(NextSlot)' = IF cur_tx >= dirty_tx' THEN cur_tx - dirty_tx'
                              ELSE cur_tx - dirty_tx' + NumTxDesc
      BY <1>5 DEF Behind
    <2>5. CASE owed = Slots
      <3>1. cur_tx = dirty_tx
        <4>1. cur_tx \in owed /\ xpc # "written"
          BY <1>2, <2>5
        <4> QED
          BY <1>2, <4>1 DEF QueueStart, NicInv, RingInv, SteppedInv, Between, InHand, InService, Slots
      <3>2. Outstanding = NumTxDesc
        BY <1>1, <2>5 DEF QueueShape
      <3>3. Outstanding' = NumTxDesc - 1
        BY <1>2, <1>3, <2>3, <2>4, <3>1 DEF Slots
      <3> QED
        BY <3>2, <3>3
    <2>6. CASE owed # Slots
      <3>1. Outstanding = Behind(cur_tx)
        BY <1>1, <1>5, <2>6 DEF QueueShape
      <3> QED
        BY <1>2, <1>3, <2>1, <2>3, <2>4, <3>1 DEF Behind, Slots
    <2> QED
      BY <2>5, <2>6
  <1>7. /\ QueueOut \in Seq(Slots) /\ Len(QueueOut) = Outstanding /\ Outstanding \in Nat
        /\ QueueOut' \in Seq(Slots) /\ Len(QueueOut') = Outstanding - 1 /\ QueueOut # <<>>
    <2>1. /\ QueueOut \in Seq(Slots) /\ Len(QueueOut) = Outstanding /\ Outstanding \in Nat
          /\ QueueOut' \in Seq(Slots) /\ Len(QueueOut') = Outstanding'
      BY <1>1 DEF QueueShape, Slots
    <2>2. QueueOut # <<>>
      BY <1>6, <2>1, EmptySeq
    <2> QED
      BY <1>6, <2>1, <2>2
  <1>8. Head(QueueOut) = dirty_tx
    <2>1. Head(QueueOut) = QueueOut[1]
      BY <1>7
    <2>2. Turn(dirty_tx + 1 - 1) = dirty_tx
      BY <1>2 DEF Turn, Slots
    <2> QED
      BY <1>1, <1>6, <1>7, <2>1, <2>2 DEF QueueShape
  <1>9. QueueOut' = Tail(QueueOut)
    <2>1. /\ Tail(QueueOut) \in Seq(Slots) /\ Len(Tail(QueueOut)) = Outstanding - 1
          /\ \A k \in 1..Outstanding - 1 : Tail(QueueOut)[k] = QueueOut[k + 1]
      BY <1>7, HeadTailProperties
    <2>2. \A k \in 1..Outstanding - 1 : QueueOut'[k] = Turn(dirty_tx' + k - 1)
      BY <1>1, <1>6 DEF QueueShape, Turn
    <2>3. \A k \in 1..Outstanding - 1 : QueueOut[k + 1] = Turn(dirty_tx + (k + 1) - 1)
      BY <1>1, <1>7 DEF QueueShape
    <2>4. \A k \in 1..Outstanding - 1 : Turn(dirty_tx' + k - 1) = Turn(dirty_tx + (k + 1) - 1)
      <3>1. Outstanding <= NumTxDesc
        BY <1>1 DEF QueueShape
      <3> QED
        BY <1>2, <1>3, <1>7, <3>1 DEF Turn, Slots
    <2>5. \A k \in 1..Outstanding - 1 : QueueOut'[k] = Tail(QueueOut)[k]
      BY <2>1, <2>2, <2>3, <2>4
    <2> QED
      BY <1>7, <2>1, <2>5, SeqEqual
  <1>10. dirty_tx \in QueueEnded /\ QueueEnded' = QueueEnded \ {dirty_tx}
    BY <1>1, <1>2, <1>4 DEF QueueEnded, InService
  <1>11. QueueFlow' = QueueFlow /\ QueueNext' = QueueNext
    BY <1>1, <1>2, <1>5 DEF QueueFlow, QueueNext
  <1> QED
    BY <1>7, <1>8, <1>9, <1>10, <1>11 DEF Promised!TakeBack

\* A step that moves no index, gives and takes nothing and leaves the state of
\* the descriptors leaves the queue.
LEMMA QueueStutters ==
  ASSUME UNCHANGED <<netif, skew, stopped, owed, dirty_tx, tsd>>, NextSlot' = NextSlot
  PROVE  UNCHANGED queuevars
  BY DEF queuevars, QueueFlow, QueueOut, QueueEnded, QueueNext, InService, Outstanding, Slots

\* A ring that is out of service before and after.
LEMMA OutOfServiceStutters == ASSUME ~InService, ~InService' PROVE UNCHANGED queuevars
  BY DEF queuevars, QueueFlow, QueueOut, QueueEnded, QueueNext

\* The queue is stopped (line 46 of start_xmit) with every slot out.
LEMMA StopHolds == ASSUME QueueStart, StopFull, InService PROVE Promised!Hold
  <1>1. InService' /\ QueueShape
    BY QueueShapeNow DEF StopFull, InService, QueueStart
  <1>2. owed = Slots
    BY DEF StopFull, Xmit, QueueStart, NicInv, RingInv, SteppedInv, InService
  <1>3. Len(QueueOut) = NumTxDesc
    BY <1>1, <1>2 DEF QueueShape
  <1>4. NextSlot' = NextSlot
    BY DEF StopFull, Xmit, NextSlot
  <1>5. QueueFlow = "go" /\ QueueFlow' = "hold"
    BY <1>1 DEF QueueFlow, StopFull, Xmit, QueueStart, NicInv, RingInv
  <1>6. UNCHANGED <<QueueOut, QueueEnded, QueueNext>>
    BY <1>1, <1>4 DEF QueueOut, QueueEnded, QueueNext, StopFull, Outstanding, Slots, chip
  <1> QED
    BY <1>3, <1>5, <1>6 DEF Promised!Hold

\* It is woken (line 94 of the handler) with none out.
LEMMA WakeReleases == ASSUME QueueStart, TxWake, InService PROVE QueueMoves
  <1>1. NextSlot' = NextSlot
    BY DEF TxWake, NextSlot
  <1>2. CASE stopped' = stopped
    BY <1>1, <1>2, QueueStutters DEF TxWake, chip, QueueMoves
  <1>3. CASE stopped' # stopped
    <2>1. stopped /\ ~stopped' /\ dirty_tx = cur_tx
      BY <1>3 DEF TxWake, QueueStart, NicInv, NicTypeOK
    <2>2. InService' /\ QueueShape
      BY QueueShapeNow DEF TxWake, InService, QueueStart
    <2>3. xpc \in {"idle", "copied"}
      BY DEF TxWake, QueueStart, NicInv, RingInv
    <2>4. owed = {}
      BY <2>1, <2>3 DEF TxWake, QueueStart, NicInv, RingInv, SteppedInv, InHand, InService
    <2>5. QueueOut = <<>>
      BY <2>1, <2>2, <2>3, <2>4, NothingOut DEF NextSlot
    <2>6. QueueFlow = "hold" /\ QueueFlow' = "go"
      BY <2>1, <2>2 DEF QueueFlow
    <2>7. UNCHANGED <<QueueOut, QueueEnded, QueueNext>>
      BY <1>1, <2>2 DEF QueueOut, QueueEnded, QueueNext, TxWake, Outstanding, Slots, chip
    <2> QED
      BY <2>5, <2>6, <2>7 DEF QueueMoves, Promised!Next, Promised!Release
  <1> QED
    BY <1>2, <1>3

\* The card ends with a packet that it has.
LEMMA SentTransmits ==
  ASSUME QueueStart, NEW s \in Slots, Sent(s), InService PROVE Promised!Transmit(s)
  <1>1. InService' /\ QueueShape
    BY QueueShapeNow DEF Sent, InService, QueueStart, ring
  <1>2. tsd[s] = "busy" /\ s \in owed
    BY DEF Sent, QueueStart, NicInv, CardInv, InService
  <1>3. \E k \in 1..Len(QueueOut) : QueueOut[k] = s
    <2>1. Behind(s) \in 0..Outstanding - 1 /\ dirty_tx \in Slots
      <3>1. dirty_tx \in Slots
        BY DEF QueueStart, NicInv, NicTypeOK
      <3>2. s \in {d \in Slots : Behind(d) < Outstanding}
        BY <1>1, <1>2, Zenon DEF QueueShape
      <3>3. Behind(s) < Outstanding
        BY <3>2
      <3>4. Outstanding \in Nat
        BY <1>1 DEF QueueShape
      <3>5. Behind(s) \in Nat
        BY <3>1 DEF Behind, Slots
      <3> QED
        BY <3>1, <3>3, <3>4, <3>5
    <2>2. Turn(dirty_tx + (Behind(s) + 1) - 1) = s
      BY <2>1 DEF Turn, Behind, Slots
    <2>3. Behind(s) + 1 \in 1..Outstanding
      BY <1>1, <2>1 DEF QueueShape
    <2> QED
      BY <1>1, <2>2, <2>3 DEF QueueShape
  <1>4. s \notin QueueEnded
    BY <1>2 DEF QueueEnded
  <1>5. QueueEnded' = QueueEnded \cup {s}
    <2>1. tsd' = [tsd EXCEPT ![s] = "done"] /\ tsd \in [Slots -> {"reset", "busy", "done"}]
          /\ owed' = owed /\ owed \subseteq Slots
      BY DEF Sent, ring, QueueStart, NicInv, NicTypeOK
    <2> QED
      BY <1>1, <1>2, <2>1 DEF QueueEnded
  <1>6. NextSlot' = NextSlot
    BY DEF Sent, ring, NextSlot
  <1>7. UNCHANGED <<QueueFlow, QueueOut, QueueNext>>
    BY <1>1, <1>6 DEF QueueFlow, QueueOut, QueueNext, Sent, ring, Outstanding, Slots
  <1> QED
    BY <1>3, <1>4, <1>5, <1>7 DEF Promised!Transmit

\* The first state of the driver is one of the queue.
LEMMA QueueInit == NicInit => Promised!Init
  BY DEF NicInit, Promised!Init, QueueFlow, QueueOut, QueueEnded, QueueNext, InService

\* Every step of the driver is one of the queue, or none.
LEMMA QueueStep == Cpus = 1 /\ NicInv /\ NicInv' /\ [NicNext]_nicvars => QueueMoves
  <1> SUFFICES ASSUME Cpus = 1, NicInv, NicInv', [NicNext]_nicvars PROVE QueueMoves
    OBVIOUS
  <1>0. QueueStart
    BY DEF QueueStart
  <1> USE DEF chip, ring
  <1>1. CASE Open
    BY <1>0, <1>1, OpenSwitches
  <1>2. CASE StopQueue
    BY <1>2, StopSwitches
  <1>3. CASE ~InService /\ ~Open
    <2>1. ~InService'
      BY <1>3
         DEF InService, nicvars, NicNext, StopQueue, StopChip, FreeIrq, StartXmit, CopyPacket, Lock,
         WriteTsd, AdvanceCur, CheckFull, StopFull, Xmit, Interrupt, Handler, TxTest,
         TxPending, TxStatus, TxWake, RxDone, RxPacket, RxGarbage, Sent, Received
    <2> QED
      BY <1>3, <2>1, OutOfServiceStutters DEF QueueMoves
  <1>4. CASE InService /\ ~Open /\ ~StopQueue
    <2> USE <1>4
    <2>1. CASE StopChip \/ FreeIrq
      BY <2>1 DEF StopChip, FreeIrq, InService
    <2>2. CASE CopyPacket \/ Lock \/ CheckFull
      BY <2>2, QueueStutters DEF CopyPacket, Lock, CheckFull, Xmit, NextSlot, QueueMoves
    <2>3. CASE WriteTsd
      BY <1>0, <2>3, WriteSends DEF QueueMoves, Promised!Next
    <2>4. CASE AdvanceCur
      BY <2>4, QueueStutters DEF AdvanceCur, Xmit, NextSlot, Past, QueueMoves
    <2>5. CASE StopFull
      BY <1>0, <2>5, StopHolds DEF QueueMoves, Promised!Next
    <2>6. CASE Interrupt \/ TxTest \/ TxPending \/ RxDone \/ RxPacket \/ RxGarbage
      BY <2>6, QueueStutters
         DEF Interrupt, TxTest, TxPending, RxDone, RxPacket, RxGarbage, NextSlot, QueueMoves
    <2>7. CASE TxStatus
      BY <1>0, <2>7, StatusTakesBack DEF QueueMoves, Promised!Next
    <2>8. CASE TxWake
      BY <1>0, <2>8, WakeReleases
    <2>9. ASSUME NEW s \in Slots, Sent(s) PROVE QueueMoves
      BY <1>0, <2>9, SentTransmits DEF QueueMoves, Promised!Next, Slots
    <2>10. ASSUME NEW n \in PktSizes, Received(n) PROVE QueueMoves
      BY <2>10, QueueStutters DEF Received, NextSlot, QueueMoves
    <2>11. CASE UNCHANGED nicvars
      BY <2>11, QueueStutters DEF nicvars, NextSlot, QueueMoves
    <2> QED
      BY <2>1, <2>2, <2>3, <2>4, <2>5, <2>6, <2>7, <2>8, <2>9, <2>10, <2>11
         DEF NicNext, StartXmit, Handler
  <1> QED
    BY <1>1, <1>2, <1>3, <1>4

\* On one processor the driver, its handler and the card are the TransmitQueue,
\* for rings of every size.
THEOREM TransmitQueueImplemented == Cpus = 1 => (NicSpec => ImplementsTransmitQueue)
  <1> SUFFICES ASSUME Cpus = 1 PROVE NicSpec => ImplementsTransmitQueue
    OBVIOUS
  <1>1. NicInv /\ NicInv' /\ [NicNext]_nicvars => QueueMoves
    BY QueueStep
  <1> QED
    BY <1>1, QueueInit, CardInvariance, PTL
       DEF NicSpec, ImplementsTransmitQueue, Promised!Spec, Promised!vars, queuevars, QueueMoves

-----------------------------------------------------------------------------
(* The receive ring, for any number of processors.                         *)

\* The place in the ring of a packet that starts where another one ends.
Place(end) == IF end < RxBufLen THEN end ELSE end - RxBufLen

\* Where the card has put the header of the n-th packet, or will put it.
Header(n) == IF n <= Len(rxq) THEN rxq[n].at ELSE cbr

\* Until the driver is lost, cur_rx is at the end of the packet before the first
\* one in the ring, and the packets follow each other to where the card is.
RxInv ==
    ~lost =>
        /\ cur_rx <= 2 * RxBufLen - 1
        /\ Place(cur_rx) = Header(1)
        /\ \A n \in 1..Len(rxq) : Place(rxq[n].at + rxq[n].len) = Header(n + 1)

\* What the two remainders do to an address behind the ring.
LEMMA Remainder ==
  ASSUME NEW x \in 0..2 * RxBufLen - 1
  PROVE  /\ x % RxBufLen = Place(x)
         /\ Wrapped(x) = IF x = RxBufLen THEN x ELSE Place(x)
  BY DEF Place, Wrapped

\* At first the ring is empty, and driver and card are at its beginning.
LEMMA RxInit == NicInit => RxInv
  BY DEF NicInit, RxInv, Place, Header

\* Every action keeps driver and card in step, until the driver is lost.
LEMMA RxStep == NicTypeOK /\ RxInv /\ [NicNext]_nicvars => RxInv'
  <1> SUFFICES ASSUME NicTypeOK, RxInv, [NicNext]_nicvars, ~lost'
               PROVE  /\ cur_rx' <= 2 * RxBufLen - 1
                      /\ Place(cur_rx') = Header(1)'
                      /\ \A n \in 1..Len(rxq') : Place(rxq'[n].at + rxq'[n].len) = Header(n + 1)'
    BY DEF RxInv, Place
  <1>1. CASE Open
    BY <1>1 DEF Open, Place, Header
  <1>2. CASE RxPacket
    <2>1. /\ rxq # <<>> /\ rxq[1] \in Packets /\ cur_rx' = rxq[1].at + rxq[1].len
          /\ rxq' = Tail(rxq) /\ ~lost /\ cbr' = cbr
      <3>1. rxq # <<>> /\ Head(rxq) = rxq[1] /\ rxq[1] \in Packets
        BY <1>2, HeadTailProperties DEF RxPacket, NicTypeOK
      <3> QED
        BY <1>2, <3>1 DEF RxPacket, rcv
    <2>2. /\ Len(rxq) \in Nat \ {0} /\ Len(Tail(rxq)) = Len(rxq) - 1
          /\ \A n \in 1..Len(rxq) - 1 : Tail(rxq)[n] = rxq[n + 1]
      BY <2>1, HeadTailProperties DEF NicTypeOK
    <2>3. Header(1)' = Header(2)
      BY <2>1, <2>2 DEF Header
    <2>4. Place(cur_rx') = Header(2)
      BY <2>1, <2>2 DEF RxInv
    <2>5. \A n \in 1..Len(rxq') : rxq'[n] = rxq[n + 1] /\ Header(n + 1)' = Header(n + 2)
      BY <2>1, <2>2 DEF Header
    <2>6. \A n \in 1..Len(rxq') : Place(rxq'[n].at + rxq'[n].len) = Header(n + 1)'
      BY <2>1, <2>2, <2>5 DEF RxInv
    <2>7. cur_rx' <= 2 * RxBufLen - 1
      <3>1. rxq[1].at \in 0..RxBufLen - 1 /\ rxq[1].len \in PktSizes
        BY Zenon, <2>1 DEF Packets
      <3>2. rxq[1].len \in 1..RxBufLen
        BY Zenon, <3>1
      <3>3. rxq[1].at + rxq[1].len <= 2 * RxBufLen - 1
        BY <3>1, <3>2
      <3> QED
        BY <2>1, <3>3
    <2> QED
      BY <2>3, <2>4, <2>6, <2>7
  <1>3. CASE RxGarbage
    BY <1>3 DEF RxGarbage
  <1>4. ASSUME NEW n \in PktSizes, Received(n)
        PROVE  /\ cur_rx' <= 2 * RxBufLen - 1
               /\ Place(cur_rx') = Header(1)'
               /\ \A k \in 1..Len(rxq') : Place(rxq'[k].at + rxq'[k].len) = Header(k + 1)'
    <2> DEFINE p == [at |-> cbr, len |-> n]
    <2>1. /\ Len(rxq) \in Nat /\ Len(rxq') = Len(rxq) + 1
          /\ \A k \in 1..Len(rxq) : rxq'[k] = rxq[k]
          /\ rxq'[Len(rxq) + 1] = p
      BY <1>4, AppendProperties DEF Received, NicTypeOK, Packets
    <2>2. cbr' = Place(cbr + n) /\ cbr \in 0..RxBufLen - 1
      <3>1. cbr \in 0..RxBufLen - 1 /\ cbr + n \in 0..2 * RxBufLen - 1
        BY DEF NicTypeOK
      <3>2. cbr' = (cbr + n) % RxBufLen
        BY <1>4 DEF Received
      <3> QED
        BY <3>1, <3>2, Remainder
    <2>3. ~lost /\ cur_rx' = cur_rx
      BY <1>4 DEF Received, rcv
    <2>4. \A k \in 1..Len(rxq) + 1 : Header(k)' = Header(k)
      BY <2>1 DEF Header
    <2>5. Place(cur_rx') = Header(1)'
      BY <2>1, <2>3, <2>4 DEF RxInv
    <2>6. ASSUME NEW k \in 1..Len(rxq')
          PROVE  Place(rxq'[k].at + rxq'[k].len) = Header(k + 1)'
      <3>1. CASE k = Len(rxq) + 1
        <4>1. rxq'[k].at = cbr /\ rxq'[k].len = n
          BY <2>1, <3>1
        <4>2. Header(k + 1)' = cbr'
          BY <2>1, <3>1 DEF Header
        <4> QED
          BY <2>2, <4>1, <4>2
      <3>2. CASE k # Len(rxq) + 1
        BY <2>1, <2>3, <2>4, <3>2 DEF RxInv
      <3> QED
        BY <3>1, <3>2
    <2> QED
      BY <2>3, <2>5, <2>6 DEF RxInv
  <1>5. ASSUME UNCHANGED <<rcv, rxq, cbr>>
        PROVE  /\ cur_rx' <= 2 * RxBufLen - 1
               /\ Place(cur_rx') = Header(1)'
               /\ \A n \in 1..Len(rxq') : Place(rxq'[n].at + rxq'[n].len) = Header(n + 1)'
    BY <1>5 DEF rcv, RxInv, Header
  <1>6. Open \/ RxPacket \/ RxGarbage \/ (\E n \in PktSizes : Received(n))
           \/ UNCHANGED <<rcv, rxq, cbr>>
    BY DEF nicvars, chip, NicNext, StopQueue, StopChip, FreeIrq, StartXmit, CopyPacket, Lock,
       WriteTsd, AdvanceCur, CheckFull, StopFull, Xmit, Interrupt, Handler, TxTest, TxPending,
       TxStatus, TxWake, RxDone, Sent
  <1> QED
    BY <1>1, <1>2, <1>3, <1>4, <1>5, <1>6

\* The handler loses its place (line 126 of rtl8139_interrupt) only behind a
\* packet that ends exactly at the end of the ring.
THEOREM LosesOnlyAtEnd == NicSpec => LostOnlyAtEnd
  <1>1. NicTypeOK /\ RxInv /\ [NicNext]_nicvars => (NicTypeOK /\ RxInv)'
    BY NicTypeStep, RxStep
  <1>2. ASSUME NicTypeOK, RxInv, [NicNext]_nicvars, ~lost, lost' PROVE cur_rx = RxBufLen
    <2>1. RxGarbage
      BY <1>2 DEF nicvars, chip, rcv, NicNext, Open, StopQueue, StopChip, FreeIrq, StartXmit,
         CopyPacket, Lock, WriteTsd, AdvanceCur, CheckFull, StopFull, Xmit, Interrupt,
         Handler, TxTest, TxPending, TxStatus, TxWake, RxDone, RxPacket, Sent, Received
    <2>2. rxq # <<>> /\ Head(rxq) = rxq[1] /\ Len(rxq) \in Nat \ {0}
      BY <2>1, <1>2, HeadTailProperties DEF RxGarbage, NicTypeOK
    <2>3. Place(cur_rx) = Head(rxq).at /\ Wrapped(cur_rx) # Head(rxq).at
      BY <1>2, <2>1, <2>2 DEF RxGarbage, RxInv, Header
    <2>4. cur_rx \in 0..2 * RxBufLen - 1
      BY <1>2 DEF RxInv, NicTypeOK
    <2> QED
      BY <2>3, <2>4, Remainder
  <1>3. NicTypeOK /\ RxInv /\ [NicNext]_nicvars => [~lost /\ lost' => cur_rx = RxBufLen]_nicvars
    BY <1>2
  <1> QED
    BY <1>1, <1>3, NicTypeInit, RxInit, PTL DEF NicSpec, LostOnlyAtEnd
=============================================================================
