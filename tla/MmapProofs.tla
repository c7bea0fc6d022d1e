----------------------------- MODULE MmapProofs -----------------------------
(***************************************************************************)
(* Proofs about MmapDevice, for any files, any readers and any bound.      *)
(***************************************************************************)
EXTENDS MmapProperties, TLAPS

\* What loading and unloading have registered and allocated at each stage, and
\* where the device can be in use.
StageInv ==
    /\ stage \in {"out", "insmod"} => kept = {}
    /\ stage = "proc" => kept = {"chrdev"}
    /\ stage \in {"flag", "kmalloc"} => kept = {"chrdev", "proc"}
    /\ stage = "vmalloc" => kept = {"chrdev", "proc", "kmalloc"}
    /\ stage = "live" => kept = {"chrdev", "proc", "kmalloc", "vmalloc"}
    /\ stage = "freed" => kept = {"chrdev", "proc"}
    /\ stage = "unproc" => kept = {"proc"}
    /\ stage \in {"insmod", "proc", "flag", "kmalloc"} => area = "none"
    /\ stage \in {"vmalloc", "live"} => area = "alive"
    /\ stage \in {"freed", "unproc", "out", "insmod"} => \A f \in Files : fpc[f] = "closed"
    /\ BufferThere
    /\ \A f \in mapped : fpc[f] = "open"

\* The pages the loop of f has done.
Done(f) == IF fpc[f] \in {"load", "store"} THEN virt_addr + 1 ELSE virt_addr

\* While no two loops have met, the one that runs marks or clears its pages in
\* turn, and the marks of all other files are there, or were cleared with the
\* files put in cut.
LoopInv ==
    ~overlapped =>
        /\ reserved \subseteq Area
        /\ \A f, g \in Files : InLoop(f) /\ InLoop(g) => f = g
        /\ \A f \in Files : InLoop(f) =>
            /\ virt_addr <= 2 /\ (fpc[f] # "test" => virt_addr < 2)
            /\ fpc[f] = "store" => seen[f] = virt_addr
            /\ op[f] = "open" => \A p \in Area : p < Done(f) => p \in reserved
            /\ op[f] = "release" =>
                /\ \A p \in reserved : p >= Done(f)
                /\ \A g \in Files \ {f} : InUse(g) => g \in cut
        /\ (\A f \in Files : ~InUse(f)) => reserved = {}
        /\ StaysReserved

-----------------------------------------------------------------------------
\* The module is out and nobody uses the device.
LEMMA MmapStart == MmapInit => MmapTypeOK /\ StageInv /\ LoopInv
  <1> SUFFICES ASSUME MmapInit PROVE MmapTypeOK /\ StageInv /\ LoopInv
    OBVIOUS
  <1> USE DEF MmapInit
  <1>1. MmapTypeOK
    BY DEF MmapTypeOK
  <1>2. StageInv
    BY DEF StageInv, BufferThere, InUse
  <1>3. LoopInv
    BY DEF LoopInv, InLoop, InUse, StaysReserved
  <1> QED
    BY <1>1, <1>2, <1>3

\* The beginning of a loop keeps the types.
LEMMA StartTypes ==
  ASSUME MmapTypeOK, NEW f \in Files, NEW what \in {"open", "release"}, Start(f, what)
  PROVE  /\ op' \in [Files -> {"open", "release"}] /\ overlapped' \in BOOLEAN
         /\ virt_addr' \in Nat /\ seen' = seen /\ reserved' \subseteq Nat
  <1>1. overlapped' \in BOOLEAN
    BY Zenon DEF Start
  <1> QED
    BY <1>1 DEF Start, MmapTypeOK

\* Every action keeps the types.
LEMMA MmapTypeStep == MmapTypeOK /\ [MmapNext]_mmapvars => MmapTypeOK'
  <1> SUFFICES ASSUME MmapTypeOK, [MmapNext]_mmapvars PROVE MmapTypeOK'
    OBVIOUS
  <1> USE DEF MmapTypeOK, area_vars, proc_vars
  <1>1. CASE Loading
    <2>1. CASE InsmodMmap
      BY <2>1 DEF InsmodMmap
    <2>2. CASE RemoveProc
      BY <2>2 DEF RemoveProc
    <2> QED
      BY <1>1, <2>1, <2>2 DEF Loading, RegisterFails, Register, CreateProc, SetFlag, Kmalloc, Vmalloc,
         NoMemory, FreeAreas, CharCleanup, Load
  <1>2. ASSUME NEW f \in Files, Using(f) PROVE MmapTypeOK'
    <2>1. CASE OpenFile(f) \/ Release(f)
      <3>1. \E what \in {"open", "release"} : Start(f, what)
        BY Zenon, <2>1 DEF OpenFile, Release
      <3>2. cut' \subseteq Files
        BY <2>1 DEF OpenFile, Release
      <3> QED
        BY <2>1, <3>1, <3>2, StartTypes DEF OpenFile, Release, File
    <2>2. CASE LoopTest(f) \/ LoopPage(f) \/ LoopLoad(f) \/ LoopStore(f)
      <3>1. CASE LoopTest(f)
        BY <3>1 DEF LoopTest, File
      <3>2. CASE LoopPage(f)
        BY <3>2 DEF LoopPage, File
      <3>3. CASE LoopLoad(f)
        BY <3>3 DEF LoopLoad, File
      <3>4. CASE LoopStore(f)
        BY <3>4 DEF LoopStore, File
      <3> QED
        BY <2>2, <3>1, <3>2, <3>3, <3>4
    <2>3. CASE OpenEarly(f) \/ Fill(f) \/ Mmap(f) \/ Munmap(f)
      BY <2>3 DEF OpenEarly, Fill, Mmap, Munmap, File
    <2> QED
      BY <1>2, <2>1, <2>2, <2>3 DEF Using
  <1>3. ASSUME NEW r \in Readers, Reading(r) PROVE MmapTypeOK'
    BY <1>3 DEF Reading, ReadProc, TestFlag, Data, End, GiveUp, Proc
  <1>4. CASE UNCHANGED mmapvars
    BY <1>4 DEF mmapvars
  <1> QED
    BY <1>1, <1>2, <1>3, <1>4 DEF MmapNext

\* The buffer is taken from the kernel before a file can use it, and returned
\* when none does.
LEMMA StageStep == MmapTypeOK /\ StageInv /\ [MmapNext]_mmapvars => StageInv'
  <1> SUFFICES ASSUME MmapTypeOK, StageInv, [MmapNext]_mmapvars PROVE StageInv'
    OBVIOUS
  <1> USE DEF MmapTypeOK, StageInv, BufferThere, InUse, area_vars, proc_vars
  <1>1. CASE Loading
    <2>1. CASE InsmodMmap \/ RemoveProc
      BY <1>1, <2>1 DEF InsmodMmap, RemoveProc
    <2>2. CASE FreeAreas
      BY <2>2 DEF FreeAreas, Load, Unused
    <2>3. CASE RegisterFails \/ Register \/ CreateProc \/ SetFlag
      BY <2>3 DEF RegisterFails, Register, CreateProc, SetFlag, Load
    <2>4. CASE Kmalloc \/ Vmalloc
      BY <2>4 DEF Kmalloc, Vmalloc, Load
    <2>5. CASE NoMemory \/ CharCleanup
      BY <2>5 DEF NoMemory, CharCleanup, Load
    <2> QED
      BY <1>1, <2>1, <2>2, <2>3, <2>4, <2>5 DEF Loading
  <1>2. ASSUME NEW f \in Files, Using(f) PROVE StageInv'
    <2>1. CASE OpenFile(f) \/ OpenEarly(f) \/ Release(f)
      BY <2>1 DEF OpenFile, OpenEarly, Release, File, Start
    <2>2. CASE LoopTest(f) \/ LoopPage(f) \/ LoopLoad(f) \/ LoopStore(f)
      BY <2>2 DEF LoopTest, LoopPage, LoopLoad, LoopStore, File
    <2>3. CASE Fill(f) \/ Mmap(f) \/ Munmap(f)
      BY <2>3 DEF Fill, Mmap, Munmap, File
    <2> QED
      BY <1>2, <2>1, <2>2, <2>3 DEF Using
  <1>3. ASSUME NEW r \in Readers, Reading(r) PROVE StageInv'
    BY <1>3 DEF Reading, ReadProc, TestFlag, Data, End, GiveUp, Proc
  <1>4. CASE UNCHANGED mmapvars
    BY <1>4 DEF mmapvars
  <1> QED
    BY <1>1, <1>2, <1>3, <1>4 DEF MmapNext

\* Only the steps of files and a new loading touch the marks and the loops.
LEMMA LoopStep == MmapTypeOK /\ StageInv /\ LoopInv /\ [MmapNext]_mmapvars => LoopInv'
  <1> SUFFICES ASSUME MmapTypeOK, StageInv, LoopInv, [MmapNext]_mmapvars PROVE LoopInv'
    OBVIOUS
  <1> DEFINE loop == <<virt_addr, seen, reserved, fpc, op, overlapped, cut>>
  <1> USE DEF MmapTypeOK
  <1>1. ASSUME UNCHANGED loop PROVE LoopInv'
    BY <1>1 DEF LoopInv, InLoop, InUse, Done, StaysReserved
  <1>2. CASE InsmodMmap
    BY <1>2 DEF InsmodMmap, LoopInv, InLoop, InUse, Done, StaysReserved, StageInv
  <1>3. CASE Loading /\ ~InsmodMmap
    <2>1. UNCHANGED loop
      BY <1>3 DEF Loading, RegisterFails, Register, CreateProc, SetFlag, Kmalloc, Vmalloc, NoMemory,
         FreeAreas, CharCleanup, RemoveProc, Load, area_vars
    <2> QED
      BY <1>1, <2>1
  <1>4. ASSUME NEW f \in Files, OpenFile(f) PROVE LoopInv'
    <2>1. SUFFICES ASSUME ~overlapped' PROVE LoopInv'
      BY DEF LoopInv
    <2>2. ~overlapped /\ \A g \in Files : ~InLoop(g)
      BY <1>4, <2>1 DEF OpenFile, File, Start, InLoop
    <2>3. /\ \A g \in Files : InLoop(g)' => g = f
          /\ \A g \in Files \ {f} : fpc'[g] = fpc[g]
      BY <1>4, <2>2 DEF OpenFile, File, InLoop
    <2> QED
      BY <1>4, <2>1, <2>2, <2>3 DEF OpenFile, File, Start, LoopInv, InLoop, InUse, Done,
         StaysReserved, Area
  <1>5. ASSUME NEW f \in Files, Release(f) PROVE LoopInv'
    <2>1. SUFFICES ASSUME ~overlapped' PROVE LoopInv'
      BY DEF LoopInv
    <2>2. ~overlapped /\ \A g \in Files : ~InLoop(g)
      BY <1>5, <2>1 DEF Release, File, Start, InLoop
    <2>3. /\ \A g \in Files : InLoop(g)' => g = f
          /\ \A g \in Files \ {f} : fpc'[g] = fpc[g]
      BY <1>5, <2>2 DEF Release, File, InLoop
    <2> QED
      BY <1>5, <2>1, <2>2, <2>3 DEF Release, File, Start, LoopInv, InLoop, InUse, Done,
         StaysReserved, Area
  <1>6. ASSUME NEW f \in Files, OpenEarly(f) PROVE LoopInv'
    BY <1>6 DEF OpenEarly, File, LoopInv, InLoop, InUse, Done, StaysReserved
  <1>7. ASSUME NEW f \in Files, LoopTest(f) PROVE LoopInv'
    BY <1>7 DEF LoopTest, File, LoopInv, InLoop, InUse, Done, StaysReserved, Area
  <1>8. ASSUME NEW f \in Files, LoopPage(f) PROVE LoopInv'
    BY <1>8 DEF LoopPage, File, LoopInv, InLoop, InUse, Done, StaysReserved, Area
  <1>9. ASSUME NEW f \in Files, LoopLoad(f) PROVE LoopInv'
    BY <1>9 DEF LoopLoad, File, LoopInv, InLoop, InUse, Done, StaysReserved, Area
  <1>10. ASSUME NEW f \in Files, LoopStore(f) PROVE LoopInv'
    BY <1>10 DEF LoopStore, File, LoopInv, InLoop, InUse, Done, StaysReserved, Area
  <1>11. ASSUME NEW f \in Files, Fill(f) \/ Mmap(f) \/ Munmap(f) PROVE LoopInv'
    <2>1. CASE Fill(f)
      BY <2>1 DEF Fill, File, LoopInv, InLoop, InUse, Done, StaysReserved
    <2>2. CASE Mmap(f) \/ Munmap(f)
      <3>1. UNCHANGED loop
        BY <2>2 DEF Mmap, Munmap, File
      <3> QED
        BY <1>1, <3>1
    <2> QED
      BY <1>11, <2>1, <2>2
  <1>12. ASSUME NEW r \in Readers, Reading(r) PROVE LoopInv'
    <2>1. UNCHANGED loop
      BY <1>12 DEF Reading, ReadProc, TestFlag, Data, End, GiveUp, Proc, area_vars
    <2> QED
      BY <1>1, <2>1
  <1>13. CASE UNCHANGED mmapvars
    BY <1>1, <1>13 DEF mmapvars, area_vars
  <1> QED
    BY <1>2, <1>3, <1>4, <1>5, <1>6, <1>7, <1>8, <1>9, <1>10, <1>11, <1>12,
       <1>13 DEF MmapNext, Using

\* The invariants, together.
MmapInv == MmapTypeOK /\ StageInv /\ LoopInv

\* They hold of every reachable state.
LEMMA MmapInvariance == MmapSpec => []MmapInv
  <1>1. MmapInit => MmapInv
    BY MmapStart DEF MmapInv
  <1>2. MmapInv /\ [MmapNext]_mmapvars => MmapInv'
    BY MmapTypeStep, StageStep, LoopStep DEF MmapInv
  <1> QED
    BY <1>1, <1>2, PTL DEF MmapSpec

\* Nothing is freed (line 320) while a file is being opened, is open, or is
\* mapped.
THEOREM BufferOutlivesFiles == MmapSpec => []BufferThere
  BY MmapInvariance, PTL DEF MmapInv, StageInv

\* An unloaded module has given everything back.
THEOREM NothingLeft == MmapSpec => []OutIsClean
  <1>1. MmapInv => OutIsClean
    BY DEF MmapInv, StageInv, OutIsClean
  <1> QED
    BY <1>1, MmapInvariance, PTL

\* Marks last as long as their files, but for loops and releases that met.
THEOREM MarksLast == MmapSpec => []StaysReserved
  <1>1. MmapInv => StaysReserved
    BY DEF MmapInv, LoopInv, StaysReserved
  <1> QED
    BY <1>1, MmapInvariance, PTL

\* No marked page is freed, but for loops that met.
THEOREM MarksGoFirst == MmapSpec => []FreedUnmarked
  <1>1. MmapInv => FreedUnmarked
    <2> SUFFICES ASSUME MmapInv, area = "freed", ~overlapped PROVE reserved = {}
      BY DEF FreedUnmarked
    <2>1. \A f \in Files : ~InUse(f)
      BY DEF MmapInv, StageInv, BufferThere
    <2> QED
      BY <2>1 DEF MmapInv, LoopInv
  <1> QED
    BY <1>1, MmapInvariance, PTL
=============================================================================
