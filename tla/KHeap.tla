------------------------------- MODULE KHeap --------------------------------
(***************************************************************************)
(* The kernel heap of kernel/mm/kheap.c on the free list.  kalloc and      *)
(* kfree hold kheap.lock throughout, so each call is one step.             *)
(* Of vm_alloc_mem (kernel/mm/vmm.c) the heap sees that it returns a       *)
(* page-aligned range that it has not given out, or an error.              *)
(***************************************************************************)
EXTENDS Naturals, Sequences, FiniteSetsExt

-----------------------------------------------------------------------------
(***************************************************************************)
(* The first-fit free list of lib/allocator/freelist.c as functions of the *)
(* list.  A list is the sequence of its blocks in the order of their next  *)
(* pointers; a block is its address and the size its header holds.  An     *)
(* allocated block keeps its header, which freelist_free finds in front of *)
(* the pointer, so blocks rather than pointers are handed out and back.    *)
(***************************************************************************)

CONSTANT Header     \* sizeof(FreeListBlockEntry)

ASSUME HeaderAssumption == Header \in Nat \ {0}

(* The list without block i, and with the entry as block i. *)
Unlinked(s, i) == SubSeq(s, 1, i - 1) \o SubSeq(s, i + 1, Len(s))
Linked(s, i, entry) == SubSeq(s, 1, i - 1) \o <<entry>> \o SubSeq(s, i, Len(s))

(* Variant: neighbours are never merged. *)
CoalesceNever(s, i) == s

(* coalesce(s[i], s[i + 1]): a null neighbour or a gap leaves them apart. *)
coalesce(s, i) ==
    IF i < Len(s) /\ s[i].at + s[i].size = s[i + 1].at
    THEN Unlinked([s EXCEPT ![i].size = @ + s[i + 1].size], i + 1)
    ELSE s

(* The loop stops at the first block with no successor below the entry. *)
Predecessor(s, entry) ==
    CHOOSE k \in 1..Len(s) :
        /\ k = Len(s) \/ s[k + 1].at > entry.at
        /\ \A j \in 1..k - 1 : s[j + 1].at < entry.at

Link(s, entry) ==
    IF s = <<>> \/ entry.at < s[1].at THEN coalesce(<<entry>> \o s, 1)
    ELSE LET k == Predecessor(s, entry)
         IN  coalesce(coalesce(Linked(s, k + 1, entry), k + 1), k)

Block(at, size) == [at |-> at, size |-> size]

freelist_init(pool, size) == [list |-> <<Block(pool, size)>>, capacity |-> size]

freelist_free(fl, entry) == [fl EXCEPT !.list = Link(@, entry)]

freelist_add_region(fl, pool, size) ==
    [list |-> Link(fl.list, Block(pool, size)), capacity |-> fl.capacity + size]

(* The first block that can hold the size and a header; 0 when none can. *)
FirstFit(fl, size) ==
    LET fits == {i \in 1..Len(fl.list) : fl.list[i].size >= size + Header}
    IN  IF fits = {} THEN 0 ELSE Min(fits)

(* Variant: the rest begins right behind the header. *)
TakeSplitsAtHeader(s, i, size) ==
    LET b == s[i]
    IN  [list |-> [s EXCEPT ![i] = Block(b.at + Header, b.size - Header)],
         block |-> Block(b.at, size + Header)]

(* Splits block i when the rest can hold a header, else consumes it whole. *)
Take(s, i, size) ==
    LET b == s[i]
        actual_size == size + Header
        remain == b.size - actual_size
    IN  IF remain >= Header
        THEN [list |-> [s EXCEPT ![i] = Block(b.at + actual_size, remain)],
              block |-> Block(b.at, actual_size)]
        ELSE [list |-> Unlinked(s, i), block |-> b]

(* freelist_alloc with a head that is not null and a size that is not 0:   *)
(* the list afterwards and the block, or no block for -ENOMEM.             *)
freelist_alloc(fl, size) ==
    LET i == FirstFit(fl, size)
    IN  IF i = 0 THEN [fl |-> fl, block |-> <<>>]
        ELSE LET t == Take(fl.list, i, size)
             IN  [fl |-> [fl EXCEPT !.list = t.list], block |-> <<t.block>>]

-----------------------------------------------------------------------------
CONSTANTS PAGE_SIZE, INITIAL_HEAP_SIZE, MAX_HEAP_SIZE,
          Pages,        \* pages of kernel addresses vm_alloc_mem may give
          Sizes         \* the sizes callers ask for

ASSUME HeapAssumption ==
    /\ PAGE_SIZE \in Nat /\ PAGE_SIZE >= Header /\ MAX_HEAP_SIZE \in Nat
    /\ INITIAL_HEAP_SIZE \in Nat \ {0} /\ INITIAL_HEAP_SIZE % PAGE_SIZE = 0
    /\ Sizes \subseteq Nat \ {0}
    /\ Pages \subseteq Nat \ {0} /\ IsFiniteSet(Pages)

VARIABLES freelist, \* kheap.freelist
          pool,     \* the bytes vm_alloc_mem gave the heap
          used,     \* the allocations: block and the size asked for
          ret       \* how the last call ended

vars == <<freelist, pool, used, ret>>

Bytes(at, n) == at..(at + n - 1)
RoundUp(n, d) == ((n + d - 1) \div d) * d

(* The ranges vm_alloc_mem(n) may return. *)
vm_alloc_mem(n) ==
    {p * PAGE_SIZE : p \in {q \in Pages :
        /\ q..(q + (n \div PAGE_SIZE) - 1) \subseteq Pages
        /\ Bytes(q * PAGE_SIZE, n) \cap pool = {}}}

kheap_init ==
    \E p \in {q * PAGE_SIZE : q \in {r \in Pages :
                  r..(r + (INITIAL_HEAP_SIZE \div PAGE_SIZE) - 1) \subseteq Pages}} :
        /\ freelist = freelist_init(p, INITIAL_HEAP_SIZE)
        /\ pool = Bytes(p, INITIAL_HEAP_SIZE)
        /\ used = {}
        /\ ret = "ok"

Running == ret \notin {"head is null", "fault"}

(* The allocation succeeds: the caller gets the block. *)
Return(a, more, size) ==
    /\ freelist' = a.fl
    /\ pool' = pool \cup more
    /\ used' = used \cup {[block |-> a.block[1], size |-> size]}
    /\ ret' = "ok"

(* The calls that end without an allocation: an ASSERT of freelist_alloc   *)
(* fails, or the heap cannot grow far enough.                              *)
Fail(how, fl, more) ==
    /\ freelist' = fl
    /\ pool' = pool \cup more
    /\ ret' = how
    /\ UNCHANGED used

MayGrow(size) == freelist.capacity + size <= MAX_HEAP_SIZE

GrownSize(size) == RoundUp(size, PAGE_SIZE)

(* grow_heap and the second attempt of kalloc: the limit leaves the heap   *)
(* as it is, and an error of vm_alloc_mem is written to as if it were a    *)
(* region.                                                                 *)
grow_heap(size) ==
    \/ ~MayGrow(size) /\ Fail("ENOMEM", freelist, {})
    \/ MayGrow(size) /\ Fail("fault", freelist, {})
    \/ /\ MayGrow(size)
       /\ \E p \in vm_alloc_mem(GrownSize(size)) :
            LET n == GrownSize(size)
                fl == freelist_add_region(freelist, p, n)
                a == freelist_alloc(fl, size)
            IN  IF a.block = <<>> THEN Fail("ENOMEM", fl, Bytes(p, n))
                ELSE Return(a, Bytes(p, n), size)

kalloc(size) ==
    /\ Running
    /\ IF freelist.list = <<>> THEN Fail("head is null", freelist, {})
       ELSE LET a == freelist_alloc(freelist, size)
            IN  IF a.block = <<>> THEN grow_heap(size) ELSE Return(a, {}, size)

kfree(u) ==
    /\ Running
    /\ IF freelist.list = <<>> THEN Fail("head is null", freelist, {})
       ELSE /\ freelist' = freelist_free(freelist, u.block)
            /\ used' = used \ {u}
            /\ ret' = "ok"
            /\ UNCHANGED pool

Init == kheap_init
Next == (\E size \in Sizes : kalloc(size)) \/ (\E u \in used : kfree(u))
Spec == Init /\ [][Next]_vars

-----------------------------------------------------------------------------
FreeBlocks == {freelist.list[i] : i \in DOMAIN freelist.list}
UsedBlocks == {u.block : u \in used}
BlockBytes(b) == Bytes(b.at, b.size)

HeapSpan == Cardinality(Pages) * PAGE_SIZE

(* No block is empty or larger than the heap's address range, and the      *)
(* heap's bytes are bytes of the pages it may have.                        *)
TypeOK ==
    /\ freelist \in [list : Seq([at : Nat, size : 1..HeapSpan]), capacity : Nat]
    /\ pool \subseteq UNION {Bytes(p * PAGE_SIZE, PAGE_SIZE) : p \in Pages}
    /\ used \in SUBSET [block : [at : Nat, size : Nat], size : Sizes]
    /\ ret \in {"ok", "ENOMEM", "head is null", "fault"}

(* Splitting, consuming, linking and coalescing lose no byte and hand none *)
(* out twice: the free and the allocated blocks tile the pool, and         *)
(* capacity counts it.                                                     *)
Tiling ==
    /\ UNION {BlockBytes(b) : b \in FreeBlocks \cup UsedBlocks} = pool
    /\ \A b, d \in FreeBlocks \cup UsedBlocks :
            b = d \/ BlockBytes(b) \cap BlockBytes(d) = {}
    /\ FreeBlocks \cap UsedBlocks = {}
    /\ freelist.capacity = Cardinality(pool)

(* The list stays sorted by address, every block in it can hold a header,  *)
(* and no two neighbours touch: what coalesce merges never comes apart.    *)
Coalesced ==
    LET s == freelist.list
    IN  /\ \A i \in 1..Len(s) - 1 : s[i].at + s[i].size < s[i + 1].at
        /\ \A i \in DOMAIN s : s[i].size >= Header

(* freelist_alloc returns -ENOMEM only when no run of free bytes could     *)
(* hold the request and its header, even across old and new regions.       *)
FailsOnlyWhenFull ==
    \A size \in Sizes :
        freelist_alloc(freelist, size).block = <<>> =>
            ~\E at \in pool : Bytes(at, size + Header)
                 \subseteq pool \ UNION {BlockBytes(b) : b \in UsedBlocks}

(* grow_heap compares with the maximum before it rounds up to pages: the   *)
(* heap may outgrow it, but by less than a page however often it grows.    *)
LimitedGrowth ==
    \/ freelist.capacity = INITIAL_HEAP_SIZE
    \/ freelist.capacity < MAX_HEAP_SIZE + PAGE_SIZE

(* freelist.c loses no byte and merges what touches, so an allocation      *)
(* fails only when no run of free bytes is long enough; and kheap.c grows  *)
(* the heap past its maximum by less than a page.                          *)
NothingWasted == Tiling /\ Coalesced /\ FailsOnlyWhenFull /\ LimitedGrowth

Heap == INSTANCE HeapSpec WITH
            owned <- {[at |-> u.block.at + Header, size |-> u.size] : u \in used}

(* Callers own disjoint bytes of the size they asked for until they free   *)
(* them, whatever others allocate and free.                                *)
ImplementsHeap == Heap!Spec

=============================================================================
