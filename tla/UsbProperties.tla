--------------------------- MODULE UsbProperties ----------------------------
(***************************************************************************)
(* What makes the two sides of Rtl8150 correct.                            *)
(***************************************************************************)
EXTENDS Rtl8150

UsbTypeOK ==
    /\ driver \in {"out", "in", "deaf"} /\ plugged \in BOOLEAN
    /\ intf \in {"none", "alloc", "refused", "bound"} /\ intfdata \in BOOLEAN
    /\ answer \in {"none", "error", "nothing", "bytes"}
    /\ netdev \in {"none", "alive", "lost", "corrupt"}
    /\ nif \in {"down", "start", "carrier", "up", "closing"}
    /\ queue \in {"stopped", "awake"} /\ xmit \in {"idle", "submit"}
    /\ tx_urb \in {"idle", "flying", "free", "reenable"}
    /\ tx_skb \in {"none", "held", "left"}
    /\ link \in BOOLEAN /\ tmp \in BOOLEAN /\ carrier \in BOOLEAN
    /\ intr_urb \in {"idle", "flying", "resubmit", "lost"}

\* What disconnect leaves (line 294: "Unregister and free memory of net_device
\* structure"): an interface that is gone has no net device.
DisconnectFrees == intf = "none" => netdev = "none"

\* start_xmit sets tx_skb and submits the one transmit urb (Phase-II lines 15
\* to 32) only when it is not in flight, after a close and an open too; so no
\* callback frees (line 87) the skb of a later packet, or one twice.
OneInFlight ==
    /\ xmit = "submit" => tx_urb = "idle"
    /\ xmit = "submit" \/ tx_urb \in {"flying", "free"} => tx_skb = "held"

\* The queue that start_xmit stopped is enabled again, by write_bulk_callback
\* (line 95) or because the submit failed, or the interface goes.
QueueEnabled == nif = "up" /\ queue = "stopped" ~> queue = "awake" \/ nif # "up"

\* Why it is: a queue that is stopped while the interface is up has a call
\* (line 15) or the transmit urb under way that will enable it.
AnswerDue == nif = "up" /\ queue = "stopped" => xmit = "submit" \/ tx_urb # "idle"

\* The carrier comes to follow the link, although hardware_start (lines 34 to
\* 43) may set what it read before the interrupt urb reported a change.
CarrierFollows ==
    \A up \in BOOLEAN : <>[](nif = "up" /\ link = up) => <>[](carrier = up)

-----------------------------------------------------------------------------
(* The inductive invariant of the network side.                            *)

\* The transmit urb is out only between an open and the end of a close, and
\* only behind a stopped queue; start_xmit runs only in between.
UrbInv ==
    /\ nif \notin {"up", "closing"} => tx_urb = "idle"
    /\ queue = "awake" => tx_urb = "idle"
    /\ xmit = "submit" => nif = "up" /\ queue = "stopped"

NetInv == UrbInv /\ OneInFlight /\ AnswerDue
=============================================================================
