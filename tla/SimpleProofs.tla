---------------------------- MODULE SimpleProofs ----------------------------
(***************************************************************************)
(* Proofs about SimpleDevice, for any finite set of tasks.                 *)
(***************************************************************************)
EXTENDS SimpleProperties, FiniteSetTheorems, TLAPS

\* What the module has at each place of simple_init and simple_exit, and
\* where its device can be open.
Holds ==
    CASE simple \in {"out", "oops"} -> {}
      [] simple \in {"failed", "region"} -> {"kbuffer"}
      [] simple = "cdev" -> {"kbuffer", "region"}
      [] simple = "class" -> {"kbuffer", "region", "cdev"}
      [] simple = "live" -> {"kbuffer", "region", "cdev", "class", "node"}
      [] simple = "freed" -> {"region", "cdev", "class", "node"}
      [] simple = "gone" -> {"class", "node"}

OwnsInv ==
    /\ owns = Holds
    /\ simple \notin {"class", "live", "failed"} => \A t \in Tasks : tpc[t] = "closed"

\* An open counts from its store on, a release to its store.
Counted == {t \in Tasks : tpc[t] \in {"open", "copy", "dec"}}

\* x is wrong as a count by as many as there were overtaking stores, at most.
Near(x) == x - Cardinality(Counted) \in -overtaken .. overtaken

\* The count is near, and so is what an update that is under way has loaded
\* of it: a store changes the number by one, and every other update that is
\* under way is then overtaken once more.
CountInv == Near(use_count) /\ \A t \in Tasks : Updating(t) => Near(loaded[t])

SimpleInv == SimpleTypeOK /\ OwnsInv /\ CountInv

\* The module is out, with no file open.
LEMMA SimpleStart == SimpleInit => SimpleInv
  <1> SUFFICES ASSUME SimpleInit PROVE SimpleInv
    OBVIOUS
  <1>1. SimpleTypeOK /\ OwnsInv
    <2>1. SimpleTypeOK
      BY DEF SimpleInit, SimpleTypeOK
    <2>2. owns = {} /\ Holds = {}
      BY DEF SimpleInit, Holds
    <2> QED
      BY <2>1, <2>2 DEF SimpleInit, OwnsInv
  <1>2. Counted = {}
    BY DEF SimpleInit, Counted
  <1> QED
    BY <1>1, <1>2, FS_EmptySet DEF SimpleInit, SimpleInv, CountInv, Near, Updating

\* The tasks that count can be counted.
LEMMA CountedFinite == IsFiniteSet(Counted)
  BY DriftAssumption, FS_Subset DEF DriftAssumption, Counted

\* The steps of loading and unloading.
LEMMA LoadingStep ==
  ASSUME SimpleInv, Buffer \/ Region \/ Cdev \/ Class \/ FreeBuffer \/ Unregister \/ Destroy
  PROVE  SimpleInv'
  <1> USE DEF SimpleInv, SimpleTypeOK, OwnsInv, Holds, Step, use_vars
  <1>1. CASE Buffer \/ Region \/ Cdev \/ Class \/ FreeBuffer \/ Unregister
    <2>1. SimpleTypeOK' /\ OwnsInv'
      BY <1>1 DEF Buffer, Region, Cdev, Class, FreeBuffer, Unregister
    <2>2. CountInv'
      BY <1>1 DEF Buffer, Region, Cdev, Class, FreeBuffer, Unregister, CountInv, Near, Counted, Updating
    <2> QED
      BY <2>1, <2>2
  <1>2. CASE Destroy
    <2>1. SimpleTypeOK'
      BY <1>2 DEF Destroy
    <2>3. OwnsInv'
      <3>1. owns' = {} /\ simple' = "out" /\ \A t \in Tasks : tpc'[t] = "closed"
        BY <1>2 DEF Destroy
      <3> QED
        BY <3>1
    <2>2. Counted' = {}
      BY <1>2 DEF Destroy, Counted
    <2> QED
      BY <1>2, <2>1, <2>2, <2>3, FS_EmptySet DEF Destroy, CountInv, Near, Updating
  <1> QED
    BY <1>1, <1>2

\* What is loaded is near when the count is; a store adds the task to both, or
\* takes it from both.
LEMMA TaskStep ==
  ASSUME SimpleInv, NEW t \in Tasks, LoadCount(t) \/ StoreCount(t) \/ Copy(t)
  PROVE  SimpleInv'
  <1> USE DEF SimpleInv, SimpleTypeOK
  <1>1. SimpleTypeOK' /\ OwnsInv'
    BY DEF LoadCount, StoreCount, Copy, Task, Overtake, OwnsInv, Holds
  <1>0. Cardinality(Counted) \in Nat
    BY CountedFinite, FS_CardinalityType
  <1>2. CASE LoadCount(t)
    <2>1. Counted' = Counted
      BY <1>2 DEF LoadCount, Task, Counted
    <2> QED
      BY <1>0, <1>1, <1>2, <2>1 DEF LoadCount, Task, CountInv, Near, Updating
  <1>3. CASE StoreCount(t)
    <2>0. overtaken' = overtaken \/ overtaken' = overtaken + 1
      BY <1>3 DEF StoreCount, Overtake
    <2>3. loaded' = loaded /\ \A u \in Tasks : Updating(u)' => u # t /\ Updating(u)
      BY <1>3 DEF StoreCount, Overtake, Task, Updating
    <2>4. (\E u \in Tasks : Updating(u)') => overtaken' = overtaken + 1
      BY <1>3, <2>3 DEF StoreCount, Overtake, Overlaps
    <2>5. Updating(t) /\ Near(loaded[t])
      BY <1>3 DEF StoreCount, Task, CountInv, Updating
    <2>1. CASE tpc[t] = "inc"
      <3>1. Counted' = Counted \cup {t} /\ t \notin Counted
        BY <1>3, <2>1 DEF StoreCount, Task, Counted
      <3>2. Cardinality(Counted') = Cardinality(Counted) + 1
        BY <3>1, CountedFinite, FS_AddElement
      <3>3. use_count' = loaded[t] + 1
        BY <1>3, <2>1 DEF StoreCount, Task
      <3>4. Near(use_count)'
        BY <1>0, <2>0, <2>5, <3>2, <3>3 DEF Near
      <3>5. ASSUME NEW u \in Tasks, Updating(u)' PROVE Near(loaded[u])'
        BY <1>0, <2>3, <2>4, <3>2, <3>5 DEF Near, CountInv
      <3> QED
        BY <1>1, <3>4, <3>5 DEF CountInv
    <2>2. CASE tpc[t] = "dec"
      <3>1. Counted' = Counted \ {t} /\ t \in Counted
        BY <1>3, <2>2 DEF StoreCount, Task, Counted
      <3>2. Cardinality(Counted') = Cardinality(Counted) - 1
        BY <3>1, CountedFinite, FS_RemoveElement
      <3>3. use_count' = loaded[t] - 1
        BY <1>3, <2>2 DEF StoreCount, Task
      <3>4. Near(use_count)'
        BY <1>0, <2>0, <2>5, <3>2, <3>3 DEF Near
      <3>5. ASSUME NEW u \in Tasks, Updating(u)' PROVE Near(loaded[u])'
        BY <1>0, <2>3, <2>4, <3>2, <3>5 DEF Near, CountInv
      <3> QED
        BY <1>1, <3>4, <3>5 DEF CountInv
    <2> QED
      BY <1>3, <2>1, <2>2 DEF StoreCount, Task
  <1>4. CASE Copy(t)
    <2>1. Counted' = Counted
      BY <1>4 DEF Copy, Task, Counted
    <2> QED
      BY <1>0, <1>1, <1>4, <2>1 DEF Copy, Task, CountInv, Near, Updating
  <1> QED
    BY <1>2, <1>3, <1>4

\* The inductive invariant.
LEMMA SimpleInvariance == SimpleSpec => []SimpleInv
  <1>1. SimpleInv /\ [SimpleNext]_simplevars => SimpleInv'
    <2> SUFFICES ASSUME SimpleInv, [SimpleNext]_simplevars PROVE SimpleInv'
      OBVIOUS
    <2>1. CASE UNCHANGED simplevars
      BY <2>1 DEF simplevars, use_vars, SimpleInv, SimpleTypeOK, OwnsInv, Holds, CountInv, Near,
         Counted, Updating
    <2> QED
      BY <2>1, LoadingStep, TaskStep DEF SimpleNext
  <1> QED
    BY <1>1, SimpleStart, PTL DEF SimpleSpec

\* No call meets a freed buffer (lines 135 to 152, 189 to 210).
THEOREM BufferOutlivesCalls == SimpleSpec => []CopiesLiveBuffer
  <1>1. SimpleInv => CopiesLiveBuffer
    BY DEF SimpleInv, OwnsInv, Holds, CopiesLiveBuffer
  <1> QED
    BY <1>1, SimpleInvariance, PTL

\* However opens and releases run into each other, use_count is the number of
\* the open files but for one at most for each store that came in between
\* (lines 168 and 180).
THEOREM DriftIsBounded == SimpleSpec => []DriftBounded
  <1>1. SimpleInv => DriftBounded
    <2> SUFFICES ASSUME SimpleInv, \A t \in Tasks : ~Updating(t)
        PROVE use_count - Cardinality(OpenFiles) \in -overtaken .. overtaken
      BY DEF DriftBounded
    <2>1. Counted = OpenFiles
      BY DEF Counted, OpenFiles, Updating, SimpleInv, SimpleTypeOK
    <2> QED
      BY <2>1 DEF SimpleInv, CountInv, Near
  <1> QED
    BY <1>1, SimpleInvariance, PTL

\* A failed load leaves the buffer and nothing else, unloading leaves nothing.
THEOREM InitUnwinds == SimpleSpec => []Unwound
  <1>1. SimpleInv => Unwound
    BY DEF SimpleInv, OwnsInv, Holds, Unwound
  <1> QED
    BY <1>1, SimpleInvariance, PTL
=============================================================================
