-------------------------- MODULE SimpleProperties --------------------------
(***************************************************************************)
(* What SimpleDevice keeps although nothing in it takes a lock.            *)
(***************************************************************************)
EXTENDS SimpleDevice

SimpleTypeOK ==
    /\ simple \in {"out", "oops", "failed", "region", "cdev", "class", "live", "freed", "gone"}
    /\ owns \subseteq {"kbuffer", "region", "cdev", "class", "node"}
    /\ use_count \in Int /\ loaded \in [Tasks -> Int]
    /\ tpc \in [Tasks -> {"closed", "inc", "dec", "open", "copy"}]
    /\ overtaken \in Nat

\* The buffer is there for every call (lines 189 to 210), also for one that
\* comes as soon as cdev_add is done, or races with the unloading.
CopiesLiveBuffer == \A t \in Tasks : tpc[t] \notin {"closed", "inc"} => "kbuffer" \in owns

OpenFiles == {t \in Tasks : tpc[t] # "closed"}

\* What the unlocked updates (lines 168 and 180) can do to use_count: each
\* store that comes between another task's load and store makes it wrong by
\* one at most.  Between updates it is the number of the open files but for
\* that many, and exactly that number if no store ever came so.
DriftBounded ==
    (\A t \in Tasks : ~Updating(t)) =>
        use_count - Cardinality(OpenFiles) \in -overtaken .. overtaken

\* A failed simple_init has returned all it had but the buffer (lines 94 to
\* 117), and an unloaded module all of it.
Unwound == (simple = "failed" => owns = {"kbuffer"}) /\ (simple = "out" => owns = {})
=============================================================================
