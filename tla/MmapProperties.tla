--------------------------- MODULE MmapProperties ---------------------------
(***************************************************************************)
(* What makes MmapDevice correct, whatever its users and readers do at     *)
(* once.                                                                   *)
(***************************************************************************)
EXTENDS MmapDevice

MmapTypeOK ==
    /\ stage \in {"out", "insmod", "proc", "flag", "kmalloc", "vmalloc", "live", "freed",
                  "unproc", "failed"}
    /\ kept \subseteq {"chrdev", "proc", "kmalloc", "vmalloc"}
    /\ area \in {"none", "alive", "freed"}
    /\ virt_addr \in Nat /\ seen \in [Files -> Nat] /\ reserved \subseteq Nat
    /\ fpc \in [Files -> {"closed", "oops", "test", "page", "load", "store", "fill", "open"}]
    /\ op \in [Files -> {"open", "release"}]
    /\ mapped \subseteq Files /\ cut \subseteq Files /\ overlapped \in BOOLEAN
    /\ read_flag \in BOOLEAN
    /\ rpc \in [Readers -> {"out", "test", "data", "end", "again"}]

InUse(f) == fpc[f] \notin {"closed", "oops"}

\* The pages that a call works on (lines 157 to 182 and 204 to 212) or a user
\* has mapped are never given back (line 320), although nothing but the file
\* keeps the module.
BufferThere == \A f \in Files : InUse(f) \/ f \in mapped => area = "alive"

\* A file's pages are marked reserved from its open to its release, when no
\* two loops met (line 157) and no other file was released (line 209).
StaysReserved ==
    \A f \in Files :
        fpc[f] \in {"fill", "open"} /\ ~overlapped /\ f \notin cut => Area \subseteq reserved

\* No page is freed with its mark, when no two loops met.
FreedUnmarked == area = "freed" /\ ~overlapped => reserved = {}

\* An unloaded module leaves nothing behind (lines 317 to 328).
OutIsClean == stage \in {"out", "insmod"} => kept = {}

\* A reader of the proc file comes to its end (line 122) when the others leave
\* it alone, in whatever state they left read_flag.
LoneReaderEnds ==
    \A r \in Readers :
        <>[](\A s \in Readers \ {r} : rpc[s] = "out") => []<>(rpc[r] = "out")

MmapFairness == \A r \in Readers : WF_mmapvars(rpc[r] # "out" /\ Reading(r))
MmapSpec == MmapInit /\ [][MmapNext]_mmapvars /\ MmapFairness
=============================================================================
