------------------------------ MODULE VMRegion ------------------------------
(***************************************************************************)
(* A range of kernel addresses (kernel/mm/vmm_region.c): the bitmap of its *)
(* pages and a table of the live allocations, as functions of the region.  *)
(* Its callers hold the region's lock.                                     *)
(***************************************************************************)
EXTENDS Integers, Sequences

-----------------------------------------------------------------------------
(***************************************************************************)
(* The bitmap allocator of lib/allocator/bitmap.c as functions of the      *)
(* allocator.  A byte of the bitmap is the set of its bits that are 1, an  *)
(* address is the number of a page.  The callers hold the region's lock.   *)
(* A failed ASSERT, and the panic on a page that is not allocated, give an *)
(* allocator whose ok is FALSE.                                            *)
(***************************************************************************)

CONSTANT BITS       \* bits of a byte of the bitmap

ASSUME BitsAssumption == BITS \in Nat \ {0}

SIZE_TO_BITMAP_BYTES(pages) == (pages + BITS - 1) \div BITS

(* A region's allocator with its storage cleared. *)
ClearedBitmap(pool_addr, page_count) ==
    [bitmap |-> [b \in 0..SIZE_TO_BITMAP_BYTES(page_count) - 1 |-> {}],
     page_count |-> page_count, pool |-> pool_addr, ok |-> TRUE]

bm_get_page_allocated(a, page) == page % BITS \in a.bitmap[page \div BITS]

bm_set_page_allocate(bitmap, page) ==
    [bitmap EXCEPT ![page \div BITS] = @ \cup {page % BITS}]

bm_set_page_free(bitmap, page) ==
    [bitmap EXCEPT ![page \div BITS] = @ \ {page % BITS}]

(* Variant: the loop stops one page early. *)
SetPagesShort(bitmap, first, n) ==
    LET done[k \in 0..n] == IF k = 0 THEN bitmap
                            ELSE bm_set_page_allocate(done[k - 1], first + k - 1)
    IN  done[n - 1]

(* Pages first, ..., first + n - 1 one after the other. *)
SetPages(bitmap, first, n) ==
    LET done[k \in 0..n] == IF k = 0 THEN bitmap
                            ELSE bm_set_page_allocate(done[k - 1], first + k - 1)
    IN  done[n]

ClearPages(bitmap, first, n) ==
    LET done[k \in 0..n] == IF k = 0 THEN bitmap
                            ELSE bm_set_page_free(done[k - 1], first + k - 1)
    IN  done[n]

(* Variant: the search goes on behind the whole run. *)
FindStepsByCount(a, n) ==
    LET from[start \in Nat] ==
            IF start + n > a.page_count THEN a.page_count
            ELSE IF \A i \in 0..n - 1 : ~bm_get_page_allocated(a, start + i) THEN start
            ELSE from[start + n]
    IN  from[0]

(* The first start of n free pages; page_count stands for SIZE_MAX.  The   *)
(* search goes on behind the first allocated page it meets.                *)
bm_find_n_free_pages(a, n) ==
    LET taken(start) == {i \in 0..n - 1 : bm_get_page_allocated(a, start + i)}
        from[start \in Nat] ==
            IF start + n > a.page_count THEN a.page_count
            ELSE IF taken(start) = {} THEN start
            ELSE from[start + 1 + CHOOSE i \in taken(start) : \A j \in taken(start) : i <= j]
    IN  from[0]

Stopped(a) == [a EXCEPT !.ok = FALSE]

bm_allocate(a, page, n) ==
    IF page < a.page_count /\ page + n <= a.page_count /\ n > 0
    THEN [a EXCEPT !.bitmap = SetPages(@, page, n)]
    ELSE Stopped(a)

bm_page_to_addr(a, page) == a.pool + page

bm_addr_to_page(a, addr) == addr - a.pool

bm_free(a, addr, n) ==
    LET page == bm_addr_to_page(a, addr)
    IN  IF /\ addr >= a.pool /\ addr < a.pool + a.page_count
           /\ page + n <= a.page_count /\ n > 0
           /\ \A pos \in page..(page + n - 1) : bm_get_page_allocated(a, pos)
        THEN [a EXCEPT !.bitmap = ClearPages(@, page, n)]
        ELSE Stopped(a)

(* bitmap_alloc: the allocator and the address, none for -ENOMEM. *)
bitmap_alloc(a, n) ==
    LET pos == bm_find_n_free_pages(a, n)
    IN  IF pos = a.page_count THEN [a |-> a, va |-> <<>>]
        ELSE [a |-> bm_allocate(a, pos, n), va |-> <<bm_page_to_addr(a, pos)>>]

bitmap_free(a, addr, n) == bm_free(a, addr, n)

AllocatedPages(a) == {p \in 0..a.page_count - 1 : bm_get_page_allocated(a, p)}

-----------------------------------------------------------------------------
NullPtr == 0
EmptySlot == [va |-> NullPtr, page_count |-> 0]

(* allocations_size is what STATIC_ALLOC_VM_REGION sets it to. *)
AllocationsSize(pages) == SIZE_TO_BITMAP_BYTES(pages)

region_init(pool_addr, pages) ==
    [allocator |-> ClearedBitmap(pool_addr, pages),
     allocations |-> [i \in 1..AllocationsSize(pages) |-> EmptySlot]]

(* The first slot with this address; 0 for -ENOENT. *)
region_find(r, addr) ==
    LET hits == {i \in DOMAIN r.allocations : r.allocations[i].va = addr}
    IN  IF hits = {} THEN 0 ELSE CHOOSE i \in hits : \A j \in hits : i <= j

(* Variant: slots are numbered from 0. *)
RecordBefore(r, i, a, n) ==
    [allocator |-> a.a,
     allocations |-> [r.allocations EXCEPT ![IF i > 1 THEN i - 1 ELSE 1] =
                        [va |-> a.va[1], page_count |-> n]]]

Record(r, i, a, n) ==
    [allocator |-> a.a,
     allocations |-> [r.allocations EXCEPT ![i] = [va |-> a.va[1], page_count |-> n]]]

region_alloc(r, n) ==
    LET i == region_find(r, NullPtr)
        a == bitmap_alloc(r.allocator, n)
    IN  IF i = 0 \/ a.va = <<>> THEN [r |-> r, va |-> <<>>]
        ELSE [r |-> Record(r, i, a, n), va |-> a.va]

(* An address that was not allocated panics. *)
region_free(r, addr) ==
    LET i == region_find(r, addr)
    IN  IF i = 0 THEN [r EXCEPT !.allocator = Stopped(@)]
        ELSE [allocator |-> bitmap_free(r.allocator, addr, r.allocations[i].page_count),
              allocations |-> [r.allocations EXCEPT ![i] = EmptySlot]]

=============================================================================
