------------------------------ MODULE Rtl8150 -------------------------------
(***************************************************************************)
(* realtek_8150_usb: the USB side (Phase-I/usb_template.c) that probes a   *)
(* device and lets it go, and the network side (Phase-II) that sends       *)
(* through one urb and follows the link through another.                   *)
(*                                                                         *)
(* In this tree probe does not register the net device, so the two sides   *)
(* share no state.  Where the Phase-II files are open ("CODE HERE") what   *)
(* the text there says is done.  Receiving only resubmits its urb.         *)
(***************************************************************************)
EXTENDS Naturals

VARIABLES
    driver,     \* usb_rtl8150_init and _exit: "out", "in", or "deaf"
    plugged,
    intf,       \* the interface: "none", "alloc" (in probe), "refused", "bound"
    intfdata,   \* usb_set_intfdata: is it set?
    answer,     \* what the probe's read of the registers returned
    netdev      \* "none", "alive", "lost", or "corrupt": the kernel's memory is

VARIABLES
    nif,        \* "down", "start" and "carrier" (in open), "up", "closing"
    queue,      \* "stopped" or "awake"
    xmit,       \* start_xmit: "idle" or "submit"
    tx_urb,     \* "idle", "flying", or what its callback has to do
    tx_skb,     \* "none", "held", or "left" by a callback that did not free it
    link, tmp,  \* the cable, and what hardware_start has read of it
    carrier,    \* netif_carrier_ok
    intr_urb    \* "idle", "flying", "resubmit", or "lost" until the close

usb == <<driver, plugged, intf, intfdata, answer, netdev>>
sending == <<queue, xmit, tx_urb, tx_skb>>
lnk == <<link, tmp, carrier, intr_urb>>
net == <<nif, sending, lnk>>
usbvars == <<usb, net>>

-----------------------------------------------------------------------------
(* usb_template.c.                                                         *)

Sound == netdev # "corrupt"

\* usb_register may fail; usb_rtl8150_init returns 0 all the same.
UsbInit ==
    /\ Sound /\ driver = "out" /\ driver' \in {"in", "deaf"}
    /\ UNCHANGED <<plugged, intf, intfdata, answer, netdev, net>>

Plug ==
    /\ Sound /\ ~plugged /\ plugged' = TRUE
    /\ UNCHANGED <<driver, intf, intfdata, answer, netdev, net>>

\* Lines 141 to 146; without memory the device is refused.
ProbeAlloc ==
    /\ Sound /\ driver = "in" /\ plugged /\ intf = "none"
    /\ \/ intf' = "alloc" /\ netdev' = "alive"
       \/ intf' = "refused" /\ UNCHANGED netdev
    /\ answer' = "none"
    /\ UNCHANGED <<driver, plugged, intfdata, net>>

\* usb_control_msg returns an error, 0, or the number of bytes read, and line
\* 262 takes every answer but 0 for an error.
ProbeRegisters ==
    /\ intf = "alloc"
    /\ answer' \in {"error", "nothing", "bytes"}
    /\ IF answer' = "nothing"
       THEN intf' = "bound" /\ intfdata' = TRUE /\ UNCHANGED netdev
       ELSE intf' = "refused" /\ intfdata' = FALSE /\ netdev' = "none"
    /\ UNCHANGED <<driver, plugged, net>>

\* The driver's data is the private part, which lies inside the net device.
\* kfree of it (line 300) is undefined: the net device is lost, or the kernel's
\* memory is damaged and what comes then is not modelled.
Disconnected ==
    /\ intf' = "none" /\ intfdata' = FALSE /\ answer' = "none"
    /\ IF intfdata THEN netdev' \in {"lost", "corrupt"} ELSE UNCHANGED netdev

Unplug ==
    /\ Sound /\ plugged /\ intf # "alloc" /\ plugged' = FALSE
    /\ Disconnected
    /\ UNCHANGED <<driver, net>>

UsbExit ==
    /\ Sound /\ driver # "out" /\ intf # "alloc" /\ driver' = "out"
    /\ Disconnected
    /\ UNCHANGED <<plugged, net>>

-----------------------------------------------------------------------------
(* rtl8150_open, rtl8150_hardware_start and rtl8150_close.                 *)

OpenUrbs ==
    /\ nif = "down" /\ nif' = "start"
    /\ intr_urb' = "flying"
    /\ UNCHANGED <<usb, sending, link, tmp, carrier>>

ReadLink ==
    /\ nif = "start" /\ nif' = "carrier"
    /\ tmp' = link
    /\ UNCHANGED <<usb, sending, link, carrier, intr_urb>>

SetCarrier ==
    /\ nif = "carrier" /\ nif' = "up"
    /\ carrier' = tmp
    /\ queue' = "awake"
    /\ UNCHANGED <<usb, xmit, tx_urb, tx_skb, link, tmp, intr_urb>>

\* The stack calls it when no start_xmit runs.
CloseQueue ==
    /\ nif = "up" /\ xmit = "idle"
    /\ nif' = "closing"
    /\ queue' = "stopped"
    /\ UNCHANGED <<usb, xmit, tx_urb, tx_skb, lnk>>

\* Lines 27 to 29 are a comment, "Unlink all urbs", and a blank.  Taken here to
\* be usb_kill_urb, which waits for the callbacks: one that runs ends first, and
\* one with the status of an unlinked urb neither frees the skb nor enables the
\* queue (line 68).
Unlink ==
    /\ nif = "closing" /\ nif' = "down"
    /\ tx_urb \in {"idle", "flying"} /\ intr_urb # "resubmit"
    /\ tx_urb' = "idle" /\ intr_urb' = "idle"
    /\ tx_skb' = IF tx_skb = "held" THEN "left" ELSE tx_skb
    /\ UNCHANGED <<usb, queue, xmit, link, tmp, carrier>>

-----------------------------------------------------------------------------
(* rtl8150_start_xmit and write_bulk_callback.                             *)

XmitStop ==
    /\ nif = "up" /\ queue = "awake" /\ xmit = "idle"
    /\ queue' = "stopped"
    /\ tx_skb' = "held"
    /\ xmit' = "submit"
    /\ UNCHANGED <<usb, nif, tx_urb, lnk>>

\* Mutated: the queue stays stopped when the urb is refused.
SubmitOnly ==
    /\ xmit = "submit" /\ xmit' = "idle"
    /\ \/ tx_urb' = "flying" /\ UNCHANGED <<queue, tx_skb>>
       \/ tx_skb' = "left" /\ UNCHANGED <<queue, tx_urb>>
    /\ UNCHANGED <<usb, nif, lnk>>

XmitSubmit ==
    /\ xmit = "submit" /\ xmit' = "idle"
    /\ \/ tx_urb' = "flying" /\ UNCHANGED <<queue, tx_skb>>
       \/ queue' = "awake" /\ tx_skb' = "left" /\ UNCHANGED tx_urb
    /\ UNCHANGED <<usb, nif, lnk>>

\* Mutated: the queue is enabled before the skb is freed.
WrittenEarly ==
    /\ tx_urb = "flying" /\ tx_urb' \in {"free", "reenable"}
    /\ tx_skb' = IF tx_urb' = "reenable" THEN "left" ELSE tx_skb
    /\ queue' = "awake"
    /\ UNCHANGED <<usb, nif, xmit, lnk>>

\* Lines 65 to 76: success frees the skb first, an error goes on to reenable.
Written ==
    /\ tx_urb = "flying" /\ tx_urb' \in {"free", "reenable"}
    /\ tx_skb' = IF tx_urb' = "reenable" THEN "left" ELSE tx_skb
    /\ UNCHANGED <<usb, nif, queue, xmit, lnk>>

FreeSkb ==
    /\ tx_urb = "free" /\ tx_urb' = "reenable"
    /\ tx_skb' = "none"
    /\ UNCHANGED <<usb, nif, queue, xmit, lnk>>

Reenable ==
    /\ tx_urb = "reenable" /\ tx_urb' = "idle"
    /\ queue' = "awake"
    /\ UNCHANGED <<usb, nif, xmit, tx_skb, lnk>>

-----------------------------------------------------------------------------
(* The link, and intr_callback.                                            *)

LinkChanges ==
    /\ link' = ~link
    /\ UNCHANGED <<usb, nif, sending, tmp, carrier, intr_urb>>

\* Lines 137 to 148.
IntrReport ==
    /\ intr_urb = "flying" /\ intr_urb' = "resubmit"
    /\ carrier' = link
    /\ UNCHANGED <<usb, nif, sending, link, tmp>>

\* An urb with an error status is only sent again (lines 118 to 121).
IntrError ==
    /\ intr_urb = "flying" /\ intr_urb' = "resubmit"
    /\ UNCHANGED <<usb, nif, sending, link, tmp, carrier>>

\* usb_submit_urb may fail, and line 151 does not look.
IntrResubmit ==
    /\ intr_urb = "resubmit" /\ intr_urb' \in {"flying", "lost"}
    /\ UNCHANGED <<usb, nif, sending, link, tmp, carrier>>

-----------------------------------------------------------------------------
UsbStart ==
    /\ driver = "out" /\ plugged = FALSE /\ intf = "none" /\ intfdata = FALSE
    /\ answer = "none" /\ netdev = "none"
    /\ nif = "down" /\ queue = "stopped" /\ xmit = "idle" /\ tx_urb = "idle"
    /\ tx_skb = "none" /\ link = FALSE /\ tmp = FALSE /\ carrier = FALSE
    /\ intr_urb = "idle"

UsbNext ==
    \/ UsbInit \/ UsbExit \/ Plug \/ Unplug \/ ProbeAlloc \/ ProbeRegisters
    \/ OpenUrbs \/ ReadLink \/ SetCarrier \/ CloseQueue \/ Unlink
    \/ XmitStop \/ XmitSubmit \/ Written \/ FreeSkb \/ Reenable
    \/ LinkChanges \/ IntrReport \/ IntrError \/ IntrResubmit

\* What is called returns, the USB core answers every urb, and an interrupt urb
\* comes back without an error time and again.
UsbFairness ==
    /\ WF_usbvars(XmitSubmit) /\ WF_usbvars(Written)
    /\ WF_usbvars(FreeSkb \/ Reenable)
    /\ WF_usbvars(IntrResubmit) /\ SF_usbvars(IntrReport)

UsbSpec == UsbStart /\ [][UsbNext]_usbvars /\ UsbFairness
=============================================================================
