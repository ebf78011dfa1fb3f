------------------------------ MODULE HeapSpec ------------------------------
(***************************************************************************)
(* What kalloc and kfree promise: a caller gets bytes of the pool that     *)
(* nobody else owns, keeps them until it frees them, and the pool grows.   *)
(***************************************************************************)
EXTENDS Naturals

VARIABLES pool,     \* the bytes the heap has
          owned     \* the allocations: address and number of bytes

Bytes(b) == b.at..(b.at + b.size - 1)

Init == owned = {}

Alloc(b) ==
    /\ b.size > 0
    /\ Bytes(b) \subseteq pool'
    /\ \A o \in owned : Bytes(o) \cap Bytes(b) = {}
    /\ owned' = owned \cup {b}
    /\ pool \subseteq pool'

Free(b) ==
    /\ b \in owned
    /\ owned' = owned \ {b}
    /\ UNCHANGED pool

Grow == pool \subseteq pool' /\ UNCHANGED owned

Next ==
    \/ \E b \in owned' \ owned : Alloc(b)
    \/ \E b \in owned : Free(b)
    \/ Grow

Spec == Init /\ [][Next]_<<pool, owned>>
=============================================================================
