------------------------------ MODULE MCMemory ------------------------------
(***************************************************************************)
(* The memory of the kernel: the virtual memory manager over physical      *)
(* pages, and the heap on its free list.  The heap is a client of the      *)
(* manager through calls both models make atomic, so a behaviour exercises *)
(* one of them: part says which.                                           *)
(***************************************************************************)
EXTENDS KHeap

VARIABLES part,
          vmMem, vmRoot, vmRegion, vmLive, vmOnline, vmTlb     \* of the virtual memory manager

vmVars == <<vmMem, vmRoot, vmRegion, vmLive, vmOnline, vmTlb>>
allVars == <<part, vars, vmVars>>

(* Nineteen usable pages in two pieces, of which the kernel's tables take  *)
(* most, a framebuffer and the kernel's own pages; two regions of four     *)
(* pages, and two devices, one of which does not fit twice.                *)
Entry(t, b, n) == [type |-> t, base |-> b, length |-> n]

Virtual == INSTANCE Vmm WITH
    BITS <- 2, ENTRIES <- 4, HhdmOffset <- 64, CPUs <- {"cpu0", "cpu1"}, BootCpu <- "cpu0",
    Memmap <- <<Entry("RESERVED", 0, 1), Entry("USABLE", 1, 8), Entry("FRAMEBUFFER", 9, 2),
                Entry("USABLE", 11, 11), Entry("EXECUTABLE_AND_MODULES", 22, 2)>>,
    KernelText <- [va |-> 0, pa |-> 22, length |-> 1],
    KernelData <- [va |-> 1, pa |-> 23, length |-> 1],
    MemRegion <- [pool |-> 130, count |-> 4], MmioRegion <- [pool |-> 134, count |-> 4],
    Counts <- {1, 2}, Devices <- {[pa |-> 40, length |-> 1], [pa |-> 50, length |-> 3]},
    mem <- vmMem, root <- vmRoot, region <- vmRegion, live <- vmLive, online <- vmOnline, tlb <- vmTlb

AllInit == part \in {"virtual", "heap"} /\ Init /\ Virtual!Init

AllNext ==
    \/ part = "virtual" /\ Virtual!Next /\ UNCHANGED <<part, vars>>
    \/ part = "heap" /\ Next /\ UNCHANGED <<part, vmVars>>

AllSpec == AllInit /\ [][AllNext]_allVars

-----------------------------------------------------------------------------
(* Every usable frame is free, a table or mapped, and only one of these,   *)
(* as long as no call panics.                                              *)
FramesAccounted == Virtual!FramesAccounted

(* Tables, regions and the translation caches of all CPUs agree after each *)
(* call of the virtual memory manager, also when a device finds no room.   *)
TablesAgree == Virtual!TablesAgree

(* vmm.c:199, "frees and unmaps n virtual pages": vm_free of an allocation *)
(* does not end in region_free's panic.                                    *)
FreeReturns == Virtual!FreeReturns
=============================================================================
