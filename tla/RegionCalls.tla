----------------------------- MODULE RegionCalls ----------------------------
(* One region with callers that allocate runs of pages and free them.      *)
EXTENDS VMRegion

CONSTANTS Pool,         \* first page of the region, not 0
          PageCount,    \* pages of the region
          Counts        \* page counts the callers ask for

ASSUME RegionAssumption ==
    /\ Pool \in Nat \ {0} /\ PageCount \in Nat \ {0}
    /\ Counts \subseteq Nat \ {0}

VARIABLES region, owned     \* the region, and what its callers hold

regionVars == <<region, owned>>

RegionInit == region = region_init(Pool, PageCount) /\ owned = {}

Alloc(n) ==
    LET a == region_alloc(region, n)
    IN  /\ region' = a.r
        /\ owned' = owned \cup {[at |-> a.va[i], size |-> n] : i \in DOMAIN a.va}

Release(o) ==
    /\ region' = region_free(region, o.at)
    /\ owned' = owned \ {o}

RegionNext == (\E n \in Counts : Alloc(n)) \/ (\E o \in owned : Release(o))

RegionSpec == RegionInit /\ [][RegionNext]_regionVars

-----------------------------------------------------------------------------
Slots == {region.allocations[i] : i \in DOMAIN region.allocations} \ {EmptySlot}

(* The bitmap has bits for its pages only, and slots hold addresses of the *)
(* region.                                                                 *)
RegionTypeOK ==
    /\ \A b \in DOMAIN region.allocator.bitmap : region.allocator.bitmap[b] \subseteq 0..BITS - 1
    /\ Slots \subseteq [va : Pool..(Pool + PageCount - 1), page_count : 1..PageCount]

(* The callers hold exactly what the slots record, and the bits that are   *)
(* set are exactly the pages of those allocations: across byte boundaries  *)
(* no page is leaked or freed with a neighbour.                            *)
BitsMatchSlots ==
    /\ Slots = {[va |-> o.at, page_count |-> o.size] : o \in owned}
    /\ {p + Pool : p \in AllocatedPages(region.allocator)} =
          UNION {o.at..(o.at + o.size - 1) : o \in owned}

(* The skipping search finds the lowest run of n free pages, for every n   *)
(* and every bitmap that calls can lead to.                                *)
SearchIsFirstFit ==
    LET a == region.allocator
        runs(n) == {s \in 0..a.page_count - n :
                        s..(s + n - 1) \cap AllocatedPages(a) = {}}
    IN  \A n \in 1..a.page_count :
            LET s == bm_find_n_free_pages(a, n)
            IN  IF runs(n) = {} THEN s = a.page_count
                ELSE s \in runs(n) /\ \A t \in runs(n) : s <= t

(* Callers that free what they were given trip no ASSERT and no panic.     *)
NoPanic == region.allocator.ok

Ranges == INSTANCE HeapSpec WITH pool <- Pool..(Pool + PageCount - 1)

(* Whatever is allocated and freed, callers own disjoint runs of pages of  *)
(* the region.                                                             *)
ImplementsRanges == Ranges!Spec

=============================================================================
