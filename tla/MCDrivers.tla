----------------------------- MODULE MCDrivers ------------------------------
(***************************************************************************)
(* The six small drivers, which share no state, in one run: the first      *)
(* state picks the one that runs, so their states add up and do not        *)
(* multiply.  The files and the /proc readers of the mmap device, which    *)
(* meet only in its loading, run apart in the same way.                    *)
(*                                                                         *)
(* The two timer modules have variables of the same names: those of        *)
(* helloplus.c keep them, those of blinkplus.c are named here.             *)
(***************************************************************************)
EXTENDS NicProperties, MmapProperties, SimpleProperties, UsbProperties, HelloProperties,
        BlinkConstants

VARIABLES
    bench,      \* the driver that runs
    blink_ready, blink_pending, blink_handler, blink_oops, blink_module, blink_file,
    blink_expires, blink_pc, cur_expire_jiffies, selected_led, kbledstatus, leds, mask

Blink == INSTANCE BlinkProperties WITH
    ready <- blink_ready, pending <- blink_pending, handler <- blink_handler,
    oops <- blink_oops, module <- blink_module, file <- blink_file,
    expires <- blink_expires, pc <- blink_pc

hellovars == vars
blinkvars ==
    <<blink_ready, blink_pending, blink_handler, blink_oops, blink_module, blink_file,
      blink_expires, blink_pc, cur_expire_jiffies, selected_led, kbledstatus, leds, mask>>
benchvars == <<bench, simplevars, mmapvars, nicvars, usbvars, hellovars, blinkvars>>

Only(name, next, others) == bench = name /\ next /\ UNCHANGED <<bench, others>>

BenchInit ==
    /\ bench \in {"simple", "mmap", "proc", "rtl8139", "rtl8150", "hello", "blink"}
    /\ SimpleInit /\ MmapInit /\ NicInit /\ UsbStart /\ Init /\ Blink!Init

BenchNext ==
    \/ Only("simple", SimpleNext, <<mmapvars, nicvars, usbvars, hellovars, blinkvars>>)
    \/ Only("mmap", Loading \/ \E f \in Files : Using(f),
            <<simplevars, nicvars, usbvars, hellovars, blinkvars>>)
    \/ Only("proc", Loading \/ \E r \in Readers : Reading(r),
            <<simplevars, nicvars, usbvars, hellovars, blinkvars>>)
    \/ Only("rtl8139", NicNext, <<simplevars, mmapvars, usbvars, hellovars, blinkvars>>)
    \/ Only("rtl8150", UsbNext, <<simplevars, mmapvars, nicvars, hellovars, blinkvars>>)
    \/ Only("hello", Next, <<simplevars, mmapvars, nicvars, usbvars, blinkvars>>)
    \/ Only("blink", Blink!Next, <<simplevars, mmapvars, nicvars, usbvars, hellovars>>)

\* In its first state no driver has a step that fairness is about: the ones
\* that do not run meet it.
BenchSpec ==
    /\ BenchInit /\ [][BenchNext]_benchvars
    /\ MmapFairness /\ NicFairness /\ UsbFairness /\ Blink!BlinkFairness

\* Every variable has a value of its type, also when rings and counts wrap.
BenchTypeOK == NicTypeOK /\ MmapTypeOK /\ SimpleTypeOK /\ UsbTypeOK /\ TypeOK

\* The properties of blinkplus.c, of the variables it has here.
BlinkTypeOK == Blink!BlinkTypeOK
BlinksUntilUnloaded == Blink!BlinksUntilUnloaded
SteadyBlink == Blink!SteadyBlink
IntervalComes == Blink!IntervalComes
=============================================================================
