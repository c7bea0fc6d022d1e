---------------------------- MODULE DriverProofs ----------------------------
(***************************************************************************)
(* Proofs about Rtl8150, and that MCDrivers runs each driver as its own    *)
(* specification has it, so that what is proved of a driver holds of the   *)
(* run that checks it.                                                     *)
(***************************************************************************)
EXTENDS MCDrivers, NicProofs, MmapProofs, SimpleProofs, HelloProofs

-----------------------------------------------------------------------------
(* The two sides of Rtl8150.                                               *)

\* At first no device is plugged in and the interface is down.
LEMMA UsbInitial == UsbStart => UsbTypeOK /\ NetInv
  <1> SUFFICES ASSUME UsbStart PROVE UsbTypeOK /\ NetInv
    OBVIOUS
  <1>1. plugged \in BOOLEAN /\ intfdata \in BOOLEAN /\ link \in BOOLEAN
    BY Zenon DEF UsbStart
  <1>2. tmp \in BOOLEAN /\ carrier \in BOOLEAN
    BY Zenon DEF UsbStart
  <1>3. UsbTypeOK
    BY <1>1, <1>2 DEF UsbStart, UsbTypeOK
  <1>4. NetInv
    BY DEF UsbStart, NetInv, UrbInv, OneInFlight, AnswerDue
  <1> QED
    BY <1>3, <1>4

\* The steps of usb_template.c keep the types and leave the network side.
LEMMA ProbeStep ==
  ASSUME UsbTypeOK,
         UsbInit \/ UsbExit \/ Plug \/ Unplug \/ ProbeAlloc \/ ProbeRegisters
  PROVE  UsbTypeOK' /\ UNCHANGED net
  <1>1. UNCHANGED net
    BY DEF UsbInit, UsbExit, Plug, Unplug, ProbeAlloc, ProbeRegisters
  <1>2. UNCHANGED <<nif, queue, xmit, tx_urb, tx_skb, link, tmp, carrier, intr_urb>>
    BY <1>1 DEF net, sending, lnk
  <1>3. plugged' \in BOOLEAN
    <2>1. CASE Plug
      BY Zenon, <2>1 DEF Plug
    <2>2. CASE Unplug
      BY Zenon, <2>2 DEF Unplug
    <2>3. CASE UsbInit \/ UsbExit \/ ProbeAlloc \/ ProbeRegisters
      BY Zenon, <2>3 DEF UsbInit, UsbExit, ProbeAlloc, ProbeRegisters, UsbTypeOK
    <2> QED
      BY <2>1, <2>2, <2>3
  <1>4. intfdata' \in BOOLEAN
    <2>1. CASE Unplug \/ UsbExit
      BY Zenon, <2>1 DEF Unplug, UsbExit, Disconnected
    <2>2. CASE ProbeRegisters
      BY Zenon, <2>2 DEF ProbeRegisters
    <2>3. CASE UsbInit \/ Plug \/ ProbeAlloc
      BY Zenon, <2>3 DEF UsbInit, Plug, ProbeAlloc, UsbTypeOK
    <2> QED
      BY <2>1, <2>2, <2>3
  <1>5. /\ driver' \in {"out", "in", "deaf"}
        /\ intf' \in {"none", "alloc", "refused", "bound"}
        /\ answer' \in {"none", "error", "nothing", "bytes"}
        /\ netdev' \in {"none", "alive", "lost", "corrupt"}
    BY DEF UsbTypeOK, UsbInit, UsbExit, Plug, Unplug, ProbeAlloc, ProbeRegisters, Disconnected
  <1>6. UsbTypeOK'
    BY <1>2, <1>3, <1>4, <1>5 DEF UsbTypeOK
  <1> QED
    BY <1>1, <1>6

NetNext ==
    \/ OpenUrbs \/ ReadLink \/ SetCarrier \/ CloseQueue \/ Unlink
    \/ XmitStop \/ XmitSubmit \/ Written \/ FreeSkb \/ Reenable
    \/ LinkChanges \/ IntrReport \/ IntrError \/ IntrResubmit

\* The steps of the network side keep the types and leave the USB side.
LEMMA NetTypeStep ==
  ASSUME UsbTypeOK, NetNext
  PROVE  UsbTypeOK' /\ UNCHANGED usb
  <1>1. UNCHANGED usb
    BY DEF NetNext, OpenUrbs, ReadLink, SetCarrier, CloseQueue, Unlink, XmitStop, XmitSubmit,
       Written, FreeSkb, Reenable, LinkChanges, IntrReport, IntrError, IntrResubmit
  <1>2. UNCHANGED <<driver, plugged, intf, intfdata, answer, netdev>>
    BY <1>1 DEF usb
  <1>3. link' \in BOOLEAN
    <2>1. CASE LinkChanges
      BY Zenon, <2>1 DEF LinkChanges
    <2>2. CASE ~LinkChanges
      <3>1. link' = link
        BY <2>2 DEF NetNext, OpenUrbs, ReadLink, SetCarrier, CloseQueue, Unlink, XmitStop,
           XmitSubmit, Written, FreeSkb, Reenable, IntrReport, IntrError, IntrResubmit, lnk
      <3> QED
        BY Zenon, <3>1 DEF UsbTypeOK
    <2> QED
      BY <2>1, <2>2
  <1>4. tmp' \in BOOLEAN
    <2>1. tmp' = tmp \/ tmp' = link
      BY DEF NetNext, OpenUrbs, ReadLink, SetCarrier, CloseQueue, Unlink, XmitStop, XmitSubmit,
         Written, FreeSkb, Reenable, LinkChanges, IntrReport, IntrError, IntrResubmit, lnk
    <2> QED
      BY Zenon, <2>1 DEF UsbTypeOK
  <1>5. carrier' \in BOOLEAN
    <2>1. carrier' = carrier \/ carrier' = tmp \/ carrier' = link
      BY DEF NetNext, OpenUrbs, ReadLink, SetCarrier, CloseQueue, Unlink, XmitStop, XmitSubmit,
         Written, FreeSkb, Reenable, LinkChanges, IntrReport, IntrError, IntrResubmit, lnk
    <2> QED
      BY Zenon, <2>1 DEF UsbTypeOK
  <1>6. /\ nif' \in {"down", "start", "carrier", "up", "closing"}
        /\ queue' \in {"stopped", "awake"} /\ xmit' \in {"idle", "submit"}
        /\ tx_urb' \in {"idle", "flying", "free", "reenable"}
        /\ tx_skb' \in {"none", "held", "left"}
        /\ intr_urb' \in {"idle", "flying", "resubmit", "lost"}
    BY DEF UsbTypeOK, NetNext, OpenUrbs, ReadLink, SetCarrier, CloseQueue, Unlink, XmitStop,
       XmitSubmit, Written, FreeSkb, Reenable, LinkChanges, IntrReport, IntrError, IntrResubmit,
       sending, lnk
  <1> QED
    BY <1>1, <1>2, <1>3, <1>4, <1>5, <1>6 DEF UsbTypeOK

\* They keep the invariant of the two urbs and the queue, too.
LEMMA NetInvStep ==
  ASSUME UsbTypeOK, NetInv, NetNext
  PROVE  NetInv'
  <1> USE DEF UsbTypeOK, NetInv, UrbInv, OneInFlight, AnswerDue, sending, lnk
  <1>1. CASE OpenUrbs \/ ReadLink \/ SetCarrier
    BY <1>1 DEF OpenUrbs, ReadLink, SetCarrier
  <1>2. CASE CloseQueue \/ Unlink
    BY <1>2 DEF CloseQueue, Unlink
  <1>3. CASE XmitStop \/ XmitSubmit
    BY <1>3 DEF XmitStop, XmitSubmit
  <1>4. CASE Written \/ FreeSkb \/ Reenable
    BY <1>4 DEF Written, FreeSkb, Reenable
  <1>5. CASE LinkChanges \/ IntrReport \/ IntrError \/ IntrResubmit
    BY <1>5 DEF LinkChanges, IntrReport, IntrError, IntrResubmit
  <1> QED
    BY <1>1, <1>2, <1>3, <1>4, <1>5 DEF NetNext

\* The invariants of the two sides, together: neither side disturbs the other.
LEMMA UsbInvariance == UsbSpec => [](UsbTypeOK /\ NetInv)
  <1> DEFINE Inv == UsbTypeOK /\ NetInv
  <1>1. Inv /\ [UsbNext]_usbvars => Inv'
    <2> SUFFICES ASSUME UsbTypeOK, NetInv, [UsbNext]_usbvars PROVE Inv'
      OBVIOUS
    <2>1. ASSUME UNCHANGED net PROVE NetInv'
      BY <2>1 DEF net, sending, lnk, NetInv, UrbInv, OneInFlight, AnswerDue
    <2>2. CASE UNCHANGED usbvars
      <3>1. UNCHANGED usb /\ UNCHANGED net
        BY <2>2 DEF usbvars
      <3>2. UsbTypeOK'
        BY <3>1 DEF usb, net, sending, lnk, UsbTypeOK
      <3> QED
        BY <2>1, <3>1, <3>2
    <2>3. CASE UsbInit \/ UsbExit \/ Plug \/ Unplug \/ ProbeAlloc \/ ProbeRegisters
      BY <2>1, <2>3, ProbeStep
    <2>4. CASE NetNext
      BY <2>4, NetTypeStep, NetInvStep
    <2> QED
      BY <2>2, <2>3, <2>4 DEF UsbNext, NetNext
  <1> QED
    BY <1>1, UsbInitial, PTL DEF UsbSpec

\* The one transmit urb is submitted only when it is idle, and what its
\* callback frees is what it sent, whatever the order of sends, failed submits,
\* closes and opens.
THEOREM OneUrbInFlight == UsbSpec => []OneInFlight
  <1>1. NetInv => OneInFlight
    BY DEF NetInv
  <1> QED
    BY <1>1, UsbInvariance, PTL

\* A stopped queue of an open interface always has an answer coming.
THEOREM StoppedIsAnswered == UsbSpec => []AnswerDue
  <1>1. NetInv => AnswerDue
    BY DEF NetInv
  <1> QED
    BY <1>1, UsbInvariance, PTL

-----------------------------------------------------------------------------
(* The run of the six drivers.                                             *)

\* A step of the bench is a step of each driver, or none.
LEMMA BenchStep ==
  ASSUME [BenchNext]_benchvars
  PROVE  /\ [SimpleNext]_simplevars /\ [MmapNext]_mmapvars
         /\ [NicNext]_nicvars /\ [UsbNext]_usbvars
         /\ [Next]_hellovars /\ [Blink!Next]_blinkvars
  <1>1. CASE Only("simple", SimpleNext, <<mmapvars, nicvars, usbvars, hellovars, blinkvars>>)
    BY Zenon, <1>1 DEF Only
  <1>2. CASE Only("mmap", Loading \/ \E f \in Files : Using(f),
                  <<simplevars, nicvars, usbvars, hellovars, blinkvars>>)
    BY Zenon, <1>2 DEF Only, MmapNext
  <1>3. CASE Only("proc", Loading \/ \E r \in Readers : Reading(r),
                  <<simplevars, nicvars, usbvars, hellovars, blinkvars>>)
    BY Zenon, <1>3 DEF Only, MmapNext
  <1>4. CASE Only("rtl8139", NicNext, <<simplevars, mmapvars, usbvars, hellovars, blinkvars>>)
    BY Zenon, <1>4 DEF Only
  <1>5. CASE Only("rtl8150", UsbNext, <<simplevars, mmapvars, nicvars, hellovars, blinkvars>>)
    BY Zenon, <1>5 DEF Only
  <1>6. CASE Only("hello", Next, <<simplevars, mmapvars, nicvars, usbvars, blinkvars>>)
    BY Zenon, <1>6 DEF Only
  <1>7. CASE Only("blink", Blink!Next, <<simplevars, mmapvars, nicvars, usbvars, hellovars>>)
    BY Zenon, <1>7 DEF Only
  <1>8. CASE UNCHANGED benchvars
    BY Zenon, <1>8 DEF benchvars
  <1> QED
    BY <1>1, <1>2, <1>3, <1>4, <1>5, <1>6, <1>7, <1>8 DEF BenchNext

\* What the run of the six drivers checks is checked of each driver's own
\* specification, its fairness included: nothing in the composition adds to
\* what a driver may do.
THEOREM BenchRunsDrivers ==
  BenchSpec => /\ SimpleSpec /\ MmapSpec /\ NicSpec /\ UsbSpec
               /\ Spec /\ Blink!FairSpec
  <1>1. BenchInit => /\ SimpleInit /\ MmapInit /\ NicInit /\ UsbStart
                     /\ Init /\ Blink!Init
    BY DEF BenchInit
  <1>2. [BenchNext]_benchvars =>
            /\ [SimpleNext]_simplevars /\ [MmapNext]_mmapvars
            /\ [NicNext]_nicvars /\ [UsbNext]_usbvars
            /\ [Next]_vars /\ [Blink!Next]_(Blink!vars)
    BY BenchStep DEF hellovars, blinkvars, Blink!vars, Blink!timer, Blink!interval, Blink!lights
  <1> QED
    BY <1>1, <1>2, PTL
       DEF BenchSpec, SimpleSpec, MmapSpec, NicSpec, UsbSpec, Spec, Blink!FairSpec, Blink!Spec

\* The five of them that have it keep their types, whatever the sizes of rings
\* and sets.
THEOREM BenchTypeCorrect == BenchSpec => []BenchTypeOK
  <1>1. SimpleInv => SimpleTypeOK
    BY DEF SimpleInv
  <1>2. MmapInv => MmapTypeOK
    BY DEF MmapInv
  <1>3. NicTypeOK /\ MmapTypeOK /\ SimpleTypeOK /\ UsbTypeOK /\ TypeOK => BenchTypeOK
    BY DEF BenchTypeOK
  <1> QED
    BY <1>1, <1>2, <1>3, BenchRunsDrivers, SimpleInvariance, MmapInvariance, NicTypeCorrect,
       UsbInvariance, HelloTypeCorrect, PTL
=============================================================================
