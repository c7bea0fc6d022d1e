----------------------------- MODULE MmapDevice -----------------------------
(***************************************************************************)
(* mmap_module_3/mmap_kmalloc.c: a buffer that users map, and read through *)
(* /proc.                                                                  *)
(*                                                                         *)
(* Loading, unloading, the users of the device and the readers of the proc *)
(* file run concurrently.  The loops of open and release share the global  *)
(* virt_addr, here a page number from the buffer on, and load and store it *)
(* with no lock.  One minor number is registered (lines 239 and 251), so a *)
(* file is always one of minor 0, of the kmalloc area.                     *)
(***************************************************************************)
EXTENDS Integers

CONSTANTS
    Files,      \* open file descriptions
    Readers,    \* processes that read the proc file
    MaxAddr     \* bound: where virt_addr is not increased any more

ASSUME AddrAssumption == MaxAddr \in Nat

VARIABLES
    stage,      \* where loading and unloading are
    kept,       \* what the kernel holds for the module
    area,       \* kmalloc_area: "none", "alive" or "freed"
    virt_addr, seen,        \* the loops' variable, and what a file has loaded of it
    reserved,               \* the pages that are marked
    fpc, op,    \* a file's place, and whose loop it is in: open's or release's
    mapped,     \* the files whose area a user has mapped
    overlapped, \* history: have two loops run at once?
    cut,        \* history: files during which another one was released
    read_flag, rpc  \* a reader's place

area_vars == <<virt_addr, seen, reserved, fpc, op, mapped, overlapped, cut>>
proc_vars == <<read_flag, rpc>>
mmapvars == <<stage, kept, area, area_vars, proc_vars>>

Area == {0, 1}      \* the loops cover 2 * PAGE_SIZE

-----------------------------------------------------------------------------
(* mmap_kmalloc_init_module and mmap_kmalloc_cleanup_module.               *)

Load(from, to) == stage = from /\ stage' = to /\ UNCHANGED <<area_vars, rpc>>

\* Either registration may fail, and what was registered is returned (252-256).
RegisterFails == Load("insmod", "failed") /\ UNCHANGED <<kept, area, read_flag>>

Register ==
    /\ Load("insmod", "proc")
    /\ kept' = kept \cup {"chrdev"}
    /\ UNCHANGED <<area, read_flag>>

CreateProc ==
    /\ Load("proc", "flag")
    /\ kept' = kept \cup {"proc"}
    /\ UNCHANGED <<area, read_flag>>

\* Line 271: the proc file can be read already.
SetFlag ==
    /\ Load("flag", "kmalloc")
    /\ read_flag' = TRUE
    /\ UNCHANGED <<kept, area>>

Kmalloc ==
    /\ Load("kmalloc", "vmalloc")
    /\ kept' = kept \cup {"kmalloc"}
    /\ area' = "alive"
    /\ UNCHANGED read_flag

Vmalloc ==
    /\ Load("vmalloc", "live")
    /\ kept' = kept \cup {"vmalloc"}
    /\ UNCHANGED <<area, read_flag>>

\* Lines 280 and 300.
NoMemory ==
    /\ \E from \in {"kmalloc", "vmalloc"} : Load(from, "failed")
    /\ UNCHANGED <<kept, area, read_flag>>

\* A file that is not yet released holds the module (cdev->owner, line 249).
Unused == \A f \in Files : fpc[f] = "closed"

\* Mutated: unloading does not look for open files.
FreeAreasUsed ==
    /\ Load("live", "freed")
    /\ kept' = kept \ {"kmalloc", "vmalloc"}
    /\ area' = "freed"
    /\ UNCHANGED read_flag

FreeAreas ==
    /\ Unused
    /\ Load("live", "freed")
    /\ kept' = kept \ {"kmalloc", "vmalloc"}
    /\ area' = "freed"
    /\ UNCHANGED read_flag

CharCleanup ==
    /\ Load("freed", "unproc")
    /\ kept' = kept \ {"chrdev"}
    /\ UNCHANGED <<area, read_flag>>

\* Mutated: the proc entry is left.
ProcForgotten == Load("unproc", "out") /\ UNCHANGED <<kept, area, read_flag>>

\* remove_proc_entry waits for the reads in progress; a later read of a proc
\* file that is still open fails.
RemoveProc ==
    /\ \A r \in Readers : rpc[r] \in {"out", "again"}
    /\ stage = "unproc" /\ stage' = "out"
    /\ kept' = kept \ {"proc"}
    /\ rpc' = [r \in Readers |-> "out"]
    /\ UNCHANGED <<area, area_vars, read_flag>>

InsmodMmap ==
    /\ stage = "out" /\ stage' = "insmod"
    /\ area' = "none" /\ reserved' = {} /\ overlapped' = FALSE
    /\ read_flag' = TRUE
    /\ UNCHANGED <<kept, virt_addr, seen, fpc, op, mapped, cut, rpc>>

Loading ==
    \/ RegisterFails \/ Register \/ CreateProc \/ SetFlag \/ Kmalloc \/ Vmalloc
    \/ NoMemory \/ FreeAreas \/ CharCleanup \/ RemoveProc \/ InsmodMmap

-----------------------------------------------------------------------------
(* test_mmap_open and test_mmap_release.                                   *)

File(f, from, to) ==
    /\ fpc[f] = from
    /\ fpc' = [fpc EXCEPT ![f] = to]
    /\ UNCHANGED <<stage, kept, area, proc_vars>>

InLoop(f) == fpc[f] \in {"test", "page", "load", "store"}

Start(f, what) ==
    /\ virt_addr' = 0
    /\ op' = [op EXCEPT ![f] = what]
    /\ overlapped' = (overlapped \/ \E g \in Files \ {f} : InLoop(g))
    /\ UNCHANGED <<seen, reserved>>

OpenFile(f) ==
    /\ stage \in {"vmalloc", "live"}
    /\ File(f, "closed", "test") /\ Start(f, "open")
    /\ cut' = cut \ {f}
    /\ UNCHANGED mapped

\* The device answers from line 251 on.  Before line 293 open writes through a
\* null pointer: its process is killed and the module stays in use.
OpenEarly(f) ==
    /\ stage \in {"proc", "flag", "kmalloc"}
    /\ File(f, "closed", "oops")
    /\ UNCHANGED <<virt_addr, seen, reserved, op, mapped, overlapped, cut>>

LoopTest(f) ==
    /\ File(f, "test", IF virt_addr < 2 THEN "page" ELSE
                       IF op[f] = "open" THEN "fill" ELSE "closed")
    /\ UNCHANGED <<virt_addr, seen, reserved, op, mapped, overlapped, cut>>

\* Mutated: the mark is set by open and release.
MarkPage(f) ==
    /\ File(f, "page", "load")
    /\ reserved' = reserved \cup {virt_addr}
    /\ UNCHANGED <<virt_addr, seen, op, mapped, overlapped, cut>>

LoopPage(f) ==
    /\ File(f, "page", "load")
    /\ reserved' = IF op[f] = "open" THEN reserved \cup {virt_addr} ELSE reserved \ {virt_addr}
    /\ UNCHANGED <<virt_addr, seen, op, mapped, overlapped, cut>>

LoopLoad(f) ==
    /\ virt_addr < MaxAddr
    /\ File(f, "load", "store")
    /\ seen' = [seen EXCEPT ![f] = virt_addr]
    /\ UNCHANGED <<virt_addr, reserved, op, mapped, overlapped, cut>>

\* Mutated: steps over two pages.
LoopSkip(f) ==
    /\ File(f, "store", "test")
    /\ virt_addr' = seen[f] + 2
    /\ seen' = [seen EXCEPT ![f] = 0]
    /\ UNCHANGED <<reserved, op, mapped, overlapped, cut>>

\* What other loops have stored since then is lost, and a value from before
\* another loop began comes back.
LoopStore(f) ==
    /\ File(f, "store", "test")
    /\ virt_addr' = seen[f] + 1
    /\ seen' = [seen EXCEPT ![f] = 0]
    /\ UNCHANGED <<reserved, op, mapped, overlapped, cut>>

\* Lines 175 to 182 write the area and the call returns.
Fill(f) ==
    /\ File(f, "fill", "open")
    /\ UNCHANGED <<virt_addr, seen, reserved, op, mapped, overlapped, cut>>

\* mmap_kmalloc, when the length and remap_pfn_range let it succeed.
Mmap(f) ==
    /\ File(f, "open", "open")
    /\ mapped' = mapped \cup {f}
    /\ UNCHANGED <<virt_addr, seen, reserved, op, overlapped, cut>>

Munmap(f) ==
    /\ File(f, "open", "open")
    /\ mapped' = mapped \ {f}
    /\ UNCHANGED <<virt_addr, seen, reserved, op, overlapped, cut>>

\* The kernel calls release when neither a descriptor nor a mapping is left.
Release(f) ==
    /\ f \notin mapped
    /\ File(f, "open", "test") /\ Start(f, "release")
    /\ cut' = cut \cup {g \in Files \ {f} : fpc[g] # "closed"}
    /\ UNCHANGED mapped

Using(f) ==
    \/ OpenFile(f) \/ OpenEarly(f) \/ LoopTest(f) \/ LoopPage(f) \/ LoopLoad(f)
    \/ LoopStore(f) \/ Fill(f) \/ Mmap(f) \/ Munmap(f) \/ Release(f)

-----------------------------------------------------------------------------
(* test_mmap_proc_read, called until it returns 0 or the reader gives up.  *)

Proc(r, from, to) ==
    /\ rpc[r] = from
    /\ rpc' = [rpc EXCEPT ![r] = to]
    /\ UNCHANGED <<stage, kept, area, area_vars>>

ReadProc(r) ==
    /\ "proc" \in kept /\ stage # "failed"
    /\ \E from \in {"out", "again"} : Proc(r, from, "test")
    /\ UNCHANGED read_flag

TestFlag(r) ==
    /\ Proc(r, "test", IF read_flag THEN "data" ELSE "end")
    /\ UNCHANGED read_flag

\* Mutated: the flag is not turned.
DataFlagKept(r) == Proc(r, "data", "again") /\ UNCHANGED read_flag

Data(r) == Proc(r, "data", "again") /\ read_flag' = FALSE

End(r) == Proc(r, "end", "out") /\ read_flag' = TRUE

GiveUp(r) == Proc(r, "again", "out") /\ UNCHANGED read_flag

Reading(r) == ReadProc(r) \/ TestFlag(r) \/ Data(r) \/ End(r) \/ GiveUp(r)

-----------------------------------------------------------------------------
MmapInit ==
    /\ stage = "out" /\ kept = {} /\ area = "none"
    /\ virt_addr = 0 /\ seen = [f \in Files |-> 0] /\ reserved = {}
    /\ fpc = [f \in Files |-> "closed"] /\ op = [f \in Files |-> "open"]
    /\ mapped = {} /\ overlapped = FALSE /\ cut = {}
    /\ read_flag = TRUE /\ rpc = [r \in Readers |-> "out"]

MmapNext ==
    \/ Loading
    \/ \E f \in Files : Using(f)
    \/ \E r \in Readers : Reading(r)
=============================================================================
