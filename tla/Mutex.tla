------------------------------- MODULE Mutex --------------------------------
(* What a set of spinlocks promises the kernel: each lock has at most one  *)
(* owner, is taken only when free and released only by its owner.          *)
CONSTANTS Contexts, Locks, Free

VARIABLE owner

Init == owner = [l \in Locks |-> Free]

Acquire(p, l) ==
    /\ owner[l] = Free
    /\ owner' = [owner EXCEPT ![l] = p]

Release(p, l) ==
    /\ owner[l] = p
    /\ owner' = [owner EXCEPT ![l] = Free]

Next == \E p \in Contexts, l \in Locks : Acquire(p, l) \/ Release(p, l)

Spec == Init /\ [][Next]_owner
=============================================================================
