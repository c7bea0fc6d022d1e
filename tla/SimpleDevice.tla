---------------------------- MODULE SimpleDevice ----------------------------
(***************************************************************************)
(* simple_driver_module_0/simple.c: a buffer that read, write and ioctl    *)
(* copy, and a count that opens and releases change.                       *)
(*                                                                         *)
(* The count is loaded and stored with no lock.  What is in the buffer is  *)
(* left out: a copy only has a beginning and an end, and its length, which *)
(* lines 189 and 194 do not check against the buffer's, is taken to fit.   *)
(* Calls that fail change nothing.                                         *)
(***************************************************************************)
EXTENDS Integers, FiniteSets

CONSTANTS
    Tasks,      \* tasks that use the device
    MaxDrift    \* bound: no update overlaps another after so many overtakings

ASSUME DriftAssumption == MaxDrift \in Nat /\ IsFiniteSet(Tasks)

VARIABLES
    simple,     \* where simple_init and simple_exit are
    owns,       \* what the module has and has not given back
    use_count, loaded,      \* and the value a task has loaded of it
    tpc,        \* a task's place
    overtaken   \* history: stores that came between another task's load and store

use_vars == <<use_count, loaded, tpc, overtaken>>
simplevars == <<simple, owns, use_vars>>

-----------------------------------------------------------------------------
(* simple_init and simple_exit.                                            *)

Step(from, to) == simple = from /\ simple' = to /\ UNCHANGED use_vars

\* Without memory the failure is printed and line 67 writes to address 0.
Buffer ==
    \/ Step("out", "region") /\ owns' = {"kbuffer"}
    \/ Step("out", "oops") /\ UNCHANGED owns

Region ==
    \/ Step("region", "cdev") /\ owns' = owns \cup {"region"}
    \/ Step("region", "failed") /\ UNCHANGED owns

Cdev ==
    \/ Step("cdev", "class") /\ owns' = owns \cup {"cdev"}
    \/ Step("cdev", "failed") /\ owns' = owns \ {"region"}

\* Mutated: the region is not returned.
ClassKeepsRegion ==
    \/ Step("class", "live") /\ owns' = owns \cup {"class", "node"}
    \/ Step("class", "failed") /\ owns' = owns \ {"cdev"}

\* device_create is not checked.
Class ==
    \/ Step("class", "live") /\ owns' = owns \cup {"class", "node"}
    \/ Step("class", "failed") /\ owns' = owns \ {"cdev", "region"}

\* Mutated: a device in use can be unloaded.
FreeUsed == Step("live", "freed") /\ owns' = owns \ {"kbuffer"}

\* fops.owner (line 41): an open file keeps the module in.
FreeBuffer ==
    /\ \A t \in Tasks : tpc[t] = "closed"
    /\ Step("live", "freed")
    /\ owns' = owns \ {"kbuffer"}

Unregister == Step("freed", "gone") /\ owns' = owns \ {"cdev", "region"}

\* use_count starts again when the module is loaded the next time.
Destroy ==
    /\ simple = "gone" /\ simple' = "out"
    /\ owns' = owns \ {"class", "node"}
    /\ use_count' = 0 /\ overtaken' = 0
    /\ UNCHANGED <<loaded, tpc>>

-----------------------------------------------------------------------------
(* The file operations.                                                    *)

Task(t, from, to) ==
    /\ simple # "failed"
    /\ tpc[t] = from
    /\ tpc' = [tpc EXCEPT ![t] = to]
    /\ UNCHANGED <<simple, owns>>

Updating(t) == tpc[t] \in {"inc", "dec"}

Overlaps(t) == \E s \in Tasks \ {t} : Updating(s)

LoadCount(t) ==
    /\ Overlaps(t) => overtaken < MaxDrift
    /\ \/ simple \in {"class", "live"} /\ Task(t, "closed", "inc")
       \/ Task(t, "open", "dec")
    /\ loaded' = [loaded EXCEPT ![t] = use_count]
    /\ UNCHANGED <<use_count, overtaken>>

Overtake(t) ==
    /\ overtaken' = IF Overlaps(t) THEN overtaken + 1 ELSE overtaken
    /\ UNCHANGED loaded

\* Mutated: simple_release does not count.
StoreOpens(t) ==
    /\ \/ Task(t, "inc", "open") /\ use_count' = loaded[t] + 1
       \/ Task(t, "dec", "closed") /\ UNCHANGED use_count
    /\ Overtake(t)

StoreCount(t) ==
    /\ \/ Task(t, "inc", "open") /\ use_count' = loaded[t] + 1
       \/ Task(t, "dec", "closed") /\ use_count' = loaded[t] - 1
    /\ Overtake(t)

\* read, write, GETMSG and SETMSG copy from or to the buffer.
Copy(t) ==
    /\ Task(t, "open", "copy") \/ Task(t, "copy", "open")
    /\ UNCHANGED <<use_count, loaded, overtaken>>

-----------------------------------------------------------------------------
SimpleInit ==
    /\ simple = "out" /\ owns = {} /\ use_count = 0 /\ overtaken = 0
    /\ loaded = [t \in Tasks |-> 0] /\ tpc = [t \in Tasks |-> "closed"]

SimpleNext ==
    \/ Buffer \/ Region \/ Cdev \/ Class \/ FreeBuffer \/ Unregister \/ Destroy
    \/ \E t \in Tasks : LoadCount(t) \/ StoreCount(t) \/ Copy(t)

SimpleSpec == SimpleInit /\ [][SimpleNext]_simplevars
=============================================================================
