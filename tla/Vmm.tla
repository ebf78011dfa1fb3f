-------------------------------- MODULE Vmm ---------------------------------
(***************************************************************************)
(* The virtual memory manager of kernel/mm/vmm.c over regions, translation *)
(* tables and physical pages.  Its callers never overlap: the heap grows   *)
(* under kheap.lock, on any CPU, and devices are mapped and unmapped by    *)
(* the boot CPU before others start, so a call is one step.  Each CPU has  *)
(* a translation cache that it fills as it touches addresses; tlb_flush    *)
(* (tlbi vmalle1) empties the caller's and no other.                       *)
(***************************************************************************)
EXTENDS Integers, Sequences, FiniteSets, Folds, Functions, TLC, VMRegion

-----------------------------------------------------------------------------
(***************************************************************************)
(* Physical memory in pages (kernel/mm/kmem.c).  Memory is a record: free  *)
(* is the chain of free pages from kmem.free_list, tables the contents of  *)
(* the pages in use as translation tables (kernel/mm/paging.c), panic why  *)
(* the kernel stopped, "" while it runs.  Allocating and freeing hold      *)
(* kmem.spinlock.                                                          *)
(***************************************************************************)

CONSTANTS Memmap,       \* the boot loader's map: sequence of type, base, length
          HhdmOffset    \* where the boot loader maps physical page 0

ERR == -1               \* an error pointer
IS_ERR(page) == page < 0

(* Addresses are numbers of pages; an error code is no multiple of one.    *)
IS_PAGE_ALIGNED(va) == ~IS_ERR(va)

phys_to_virt(page) == page + HhdmOffset
virt_to_phys(va) == va - HhdmOffset

Panic(m, why) == IF m.panic = "" THEN [m EXCEPT !.panic = why] ELSE m

kmem_alloc(m) ==
    IF m.free = <<>> THEN [m |-> m, page |-> ERR]
    ELSE [m |-> [m EXCEPT !.free = Tail(@)], page |-> Head(m.free)]

kmem_free(m, page) == [m EXCEPT !.free = <<page>> \o @]

(* The pages of [start, end), the lowest first. *)
kmem_free_range(m, start, end) ==
    LET freed[p \in start..end] == IF p = start THEN m ELSE kmem_free(freed[p - 1], p - 1)
    IN  freed[end]

(* The usable entries in the order of the map. *)
kmem_init ==
    LET upto[i \in 0..Len(Memmap)] ==
            IF i = 0 THEN [free |-> <<>>, tables |-> <<>>, panic |-> ""]
            ELSE LET e == Memmap[i]
                 IN  IF e.type # "USABLE" THEN upto[i - 1]
                     ELSE kmem_free_range(upto[i - 1], e.base, e.base + e.length)
    IN  upto[Len(Memmap)]

-----------------------------------------------------------------------------
(***************************************************************************)
(* The translation tables of kernel/mm/paging.c: four levels of tables in  *)
(* physical pages.  An entry is <<>> (invalid), <<page>> (next table) or   *)
(* <<page, attributes>> (leaf).  Addresses are numbers of pages.           *)
(***************************************************************************)

CONSTANTS ENTRIES,      \* entries of a table
          KernelText, KernelData    \* linked sections: va, pa, length

(* L0_INDEX, ..., L3_INDEX *)
Index(va, level) == (va \div ENTRIES ^ (3 - level)) % ENTRIES

ZeroedTable == [i \in 0..ENTRIES - 1 |-> <<>>]

(* The table entry i of table leads to; a missing one is allocated or an   *)
(* error.  An error of kmem_alloc is entered and returned, and the walk    *)
(* panics on it.                                                           *)
table_next_table(m, table, i, allocate) ==
    LET a == kmem_alloc(m)
    IN  IF m.tables[table][i] # <<>> THEN [m |-> m, table |-> m.tables[table][i][1]]
        ELSE IF ~allocate \/ IS_ERR(a.page) THEN [m |-> m, table |-> ERR]
        ELSE [m |-> [a.m EXCEPT !.tables = (a.page :> ZeroedTable) @@
                                            [@ EXCEPT ![table][i] = <<a.page>>]],
              table |-> a.page]

(* Down three levels; the table of the leaf, or a panic. *)
walk_pagetable(m, pt, va, allocate) ==
    LET down[level \in 0..3] ==
            IF level = 0 THEN [m |-> m, table |-> pt]
            ELSE LET up == down[level - 1]
                 IN  IF IS_ERR(up.table) THEN up
                     ELSE table_next_table(up.m, up.table, Index(va, level - 1), allocate)
    IN  IF IS_ERR(down[3].table)
        THEN [m |-> Panic(down[3].m, "failed to get next table"), table |-> ERR]
        ELSE down[3]

Leaf(m, pt, va) ==
    LET w == walk_pagetable(m, pt, va, FALSE)
    IN  IF IS_ERR(w.table) THEN <<>> ELSE w.m.tables[w.table][Index(va, 3)]

map_page(m, pt, va, pa, attr) ==
    LET w == walk_pagetable(m, pt, va, TRUE)
        i == Index(va, 3)
    IN  IF m.panic # "" THEN m
        ELSE IF w.m.panic # "" THEN w.m
        ELSE IF w.m.tables[w.table][i] # <<>> THEN Panic(w.m, "remapping")
        ELSE [w.m EXCEPT !.tables[w.table][i] = <<pa, attr>>]

paging_map(m, pt, va, pa, n, attr) ==
    LET done[k \in 0..n] ==
            IF k = 0 THEN m ELSE map_page(done[k - 1], pt, va + k - 1, pa + k - 1, attr)
    IN  IF m.panic # "" THEN m
        ELSE IF ~IS_PAGE_ALIGNED(va) THEN Panic(m, "va not aligned")
        ELSE done[n]

unmap_page(m, pt, va) ==
    LET w == walk_pagetable(m, pt, va, FALSE)
        i == Index(va, 3)
    IN  IF m.panic # "" THEN m
        ELSE IF w.m.panic # "" THEN w.m
        ELSE IF w.m.tables[w.table][i] = <<>> THEN Panic(w.m, "unmapping unmapped")
        ELSE [w.m EXCEPT !.tables[w.table][i] = <<>>]

(* Variant: only the first page is cleared. *)
UnmapFirst(m, pt, va, n) == unmap_page(m, pt, va)

paging_unmap(m, pt, va, n) ==
    LET done[k \in 0..n] ==
            IF k = 0 THEN m ELSE unmap_page(done[k - 1], pt, va + k - 1)
    IN  done[n]

paging_lookup(m, pt, va) == Leaf(m, pt, va)[1]

map_device(m, pt, va, pa, n) == paging_map(m, pt, va, pa, n, "device")
map_text(m, pt, va, pa, n) == paging_map(m, pt, va, pa, n, "text")
map_data(m, pt, va, pa, n) == paging_map(m, pt, va, pa, n, "data")

MapEntry(m, pt, e) ==
    CASE e.type = "FRAMEBUFFER" ->
            map_device(m, pt, phys_to_virt(e.base), e.base, e.length)
      [] e.type \in {"BOOTLOADER_RECLAIMABLE", "EXECUTABLE_AND_MODULES", "USABLE"} ->
            map_data(m, pt, phys_to_virt(e.base), e.base, e.length)
      [] OTHER -> m

paging_kernel_init(m, pt) ==
    LET text == map_text(m, pt, KernelText.va, KernelText.pa, KernelText.length)
        data == map_data(text, pt, KernelData.va, KernelData.pa, KernelData.length)
        mapped[i \in 0..Len(Memmap)] ==
            IF i = 0 THEN data ELSE MapEntry(mapped[i - 1], pt, Memmap[i])
    IN  mapped[Len(Memmap)]

-----------------------------------------------------------------------------
CONSTANTS CPUs, BootCpu,
          MemRegion, MmioRegion,    \* pool and page count of the two regions
          Counts,                   \* page counts asked of vm_alloc_mem
          Devices                   \* device registers: pa, length

VARIABLES mem,      \* physical memory: free pages, tables, panic
          root,     \* kernel_page_table
          region,   \* kernel_mem_region and mmio_region
          live,     \* what callers hold: region, va, n, and pa for devices
          online,   \* the CPUs that run on kernel_page_table
          tlb       \* the translations each CPU has cached: va, pa

vars == <<mem, root, region, live, online, tlb>>

vm_init ==
    LET a == kmem_alloc(kmem_init)
        table == [a.m EXCEPT !.tables = a.page :> ZeroedTable]
    IN  /\ root = a.page
        /\ mem = paging_kernel_init(table, a.page)
        /\ region = [mem |-> region_init(MemRegion.pool, MemRegion.count),
                     mmio |-> region_init(MmioRegion.pool, MmioRegion.count)]

Init == vm_init /\ live = {} /\ online = {BootCpu} /\ tlb = [c \in CPUs |-> {}]

tlb_flush(c) == [tlb EXCEPT ![c] = {}]

Running == mem.panic = ""

BootCpuAlone == online = {BootCpu}

(* A secondary CPU, once woken, switches to the kernel's tables. *)
vm_set_kernel_page_table(c) ==
    /\ Running
    /\ c \notin online
    /\ online' = online \cup {c}
    /\ tlb' = tlb_flush(c)
    /\ UNCHANGED <<mem, root, region, live>>

Hold(r, va, n, pa) == [region |-> r, va |-> va, n |-> n, pa |-> pa]

(* Sizes are page counts: a size that is no multiple of a page returns     *)
(* -EINVAL and changes nothing.  The result of region_alloc is not tested, *)
(* so a region without room passes its error on to paging_map.             *)
vm_map(c, pa, n, r) ==
    LET a == region_alloc(region[r], n)
        va == IF a.va = <<>> THEN ERR ELSE a.va[1]
        m == paging_map(mem, root, va, pa, n, "device")
    IN  /\ Running
        /\ mem' = m
        /\ region' = [region EXCEPT ![r] = a.r]
        /\ live' = IF m.panic = "" THEN live \cup {Hold(r, va, n, pa)} ELSE live
        /\ tlb' = tlb_flush(c)
        /\ UNCHANGED <<root, online>>

(* -EINVAL as in vm_map. *)
vm_unmap(c, h) ==
    /\ Running
    /\ region' = [region EXCEPT ![h.region] = region_free(@, h.va)]
    /\ mem' = paging_unmap(mem, root, h.va, h.n)
    /\ live' = live \ {h}
    /\ tlb' = tlb_flush(c)
    /\ UNCHANGED <<root, online>>

(* Variant: one frame backs every page. *)
MapOneFrame(va, n) ==
    LET a == kmem_alloc(mem)
        done[k \in 0..n] == IF k = 0 THEN a.m
                            ELSE paging_map(done[k - 1], root, va + k - 1, a.page, 1, "data")
    IN  IF IS_ERR(a.page) THEN Panic(mem, "ran out of physical memory") ELSE done[n]

(* The pages of vm_alloc: a frame for each, mapped one by one. *)
MapFrames(va, n) ==
    LET done[k \in 0..n] ==
            IF k = 0 THEN mem
            ELSE LET a == kmem_alloc(done[k - 1])
                 IN  IF IS_ERR(a.page) THEN Panic(a.m, "ran out of physical memory")
                     ELSE paging_map(a.m, root, va + k - 1,
                            virt_to_phys(phys_to_virt(a.page)), 1, "data")
    IN  done[n]

(* A region without room returns an error and changes nothing. *)
vm_alloc(c, n, r) ==
    LET a == region_alloc(region[r], n)
    IN  /\ Running
        /\ a.va # <<>>
        /\ region' = [region EXCEPT ![r] = a.r]
        /\ mem' = MapFrames(a.va[1], n)
        /\ live' = live \cup {Hold(r, a.va[1], n, ERR)}
        /\ tlb' = tlb_flush(c)
        /\ UNCHANGED <<root, online>>

(* The loop of vm_free: the bound is read from the allocation's slot again *)
(* for each page, and each page goes through vm_unmap.                     *)
FreePages(h) ==
    LET slot == region_find(region[h.region], h.va)
        done[k \in 0..h.n] ==
            IF k = 0 THEN [m |-> mem, r |-> region[h.region]]
            ELSE LET s == done[k - 1]
                     va == h.va + k - 1
                 IN  IF k - 1 >= s.r.allocations[slot].page_count THEN s
                     ELSE [m |-> kmem_free(paging_unmap(s.m, root, va, 1),
                                           paging_lookup(s.m, root, va)),
                           r |-> region_free(s.r, va)]
    IN  done[h.n]

vm_free(c, h) ==
    LET s == FreePages(h)
        r == region_free(s.r, h.va)
    IN  /\ Running
        /\ region' = [region EXCEPT ![h.region] = r]
        /\ mem' = IF r.allocator.ok THEN s.m
                  ELSE Panic(s.m, "tried freeing non existent allocation")
        /\ live' = live \ {h}
        /\ tlb' = tlb_flush(c)
        /\ UNCHANGED <<root, online>>

(* A CPU uses an address of a region and caches its translation. *)
Touch(c, va) ==
    /\ Running
    /\ Leaf(mem, root, va) # <<>>
    /\ tlb' = [tlb EXCEPT ![c] = @ \cup {<<va, Leaf(mem, root, va)[1]>>}]
    /\ UNCHANGED <<mem, root, region, live, online>>

Span(r) == r.pool..(r.pool + r.count - 1)
RegionPages == Span(MemRegion) \cup Span(MmioRegion)

(* The kernel's calls: only the probes of devices map and unmap registers, *)
(* and they end before other CPUs are woken (kernel_main).  Nothing calls  *)
(* vm_free; it is let in where vm_unmap is.                                *)
Next ==
    \/ /\ BootCpuAlone
       /\ \/ \E d \in Devices : vm_map(BootCpu, d.pa, d.length, "mmio")
          \/ \E h \in {g \in live : g.region = "mmio"} : vm_unmap(BootCpu, h)
          \/ \E h \in {g \in live : g.region = "mem"} : vm_free(BootCpu, h)
    \/ \E c \in CPUs : vm_set_kernel_page_table(c)
    \/ \E c \in online :
        \/ \E n \in Counts : vm_alloc(c, n, "mem")
        \/ \E va \in RegionPages : Touch(c, va)

Spec == Init /\ [][Next]_vars

-----------------------------------------------------------------------------
Usable == {i \in DOMAIN Memmap : Memmap[i].type = "USABLE"}
Frames == UNION {Memmap[i].base..(Memmap[i].base + Memmap[i].length - 1) : i \in Usable}
FreeFrames == {mem.free[i] : i \in DOMAIN mem.free}
HeldPages(h) == h.va..(h.va + h.n - 1)
Mapped(va) == Leaf(mem, root, va)[1]

(* Free pages and tables are usable frames of the boot loader's map.       *)
TypeOK ==
    /\ FreeFrames \cup DOMAIN mem.tables \subseteq Frames
    /\ root \in Frames
    /\ \A c \in CPUs : tlb[c] \subseteq RegionPages \X Nat

(* Every usable frame is in one place only: on the free list once, a       *)
(* translation table, or behind one page of an allocation.  Nothing leaks  *)
(* and no frame is used twice.                                             *)
FramesAccounted ==
    Running =>
      LET held == UNION {HeldPages(h) : h \in {g \in live : g.region = "mem"}}
          backing == {Mapped(va) : va \in held}
      IN  /\ Cardinality(FreeFrames) = Len(mem.free)
          /\ Cardinality(backing) = Cardinality(held)
          /\ FreeFrames \cap DOMAIN mem.tables = {}
          /\ FreeFrames \cap backing = {}
          /\ backing \cap DOMAIN mem.tables = {}
          /\ FreeFrames \cup backing \cup DOMAIN mem.tables = Frames

(* The panics that leave a call half done: what it mapped stays mapped.    *)
HalfDone == {"failed to get next table", "ran out of physical memory",
             "tried freeing non existent allocation"}

(* The tables and the regions agree: a page of a region translates exactly *)
(* when a caller holds it, and a device's pages to its registers in order. *)
(* So paging never meets a page that is mapped already, or not mapped, and *)
(* a device that finds no room stops the kernel with nothing mapped.       *)
MappedIffHeld ==
    /\ mem.panic \notin {"remapping", "unmapping unmapped"}
    /\ mem.panic \notin HalfDone =>
        /\ {va \in RegionPages : Leaf(mem, root, va) # <<>>} = UNION {HeldPages(h) : h \in live}
        /\ \A h \in live : h.pa # ERR =>
              \A k \in 0..h.n - 1 : Leaf(mem, root, h.va + k) = <<h.pa + k, "device">>

(* What vm_init mapped stays mapped: the kernel's sections, and each page  *)
(* of memory the kernel uses at its place in the higher half.              *)
KernelStaysMapped ==
    /\ \A k \in 0..KernelText.length - 1 :
            Leaf(mem, root, KernelText.va + k) = <<KernelText.pa + k, "text">>
    /\ \A k \in 0..KernelData.length - 1 :
            Leaf(mem, root, KernelData.va + k) = <<KernelData.pa + k, "data">>
    /\ \A i \in DOMAIN Memmap : \A p \in Memmap[i].base..(Memmap[i].base + Memmap[i].length - 1) :
            Memmap[i].type # "RESERVED" =>
                Leaf(mem, root, phys_to_virt(p)) \in {<<p, "data">>, <<p, "device">>}

(* No CPU keeps a translation the tables no longer hold, although a flush  *)
(* reaches the caller's cache only: once other CPUs run, tables only grow. *)
TlbCoherent ==
    \A c \in CPUs : \A e \in tlb[c] : Running => Leaf(mem, root, e[1]) # <<>> /\ Mapped(e[1]) = e[2]

(* Tables, regions, the kernel's own mappings and what the CPUs cache of   *)
(* them agree.                                                             *)
TablesAgree == MappedIffHeld /\ KernelStaysMapped /\ TlbCoherent

(* vmm.c:199, "frees and unmaps n virtual pages": vm_free of an allocation *)
(* returns.                                                                *)
FreeReturns == mem.panic # "tried freeing non existent allocation"

=============================================================================
