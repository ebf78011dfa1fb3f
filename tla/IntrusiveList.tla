---------------------------- MODULE IntrusiveList ---------------------------
(***************************************************************************)
(* The intrusive doubly linked list of lib/ds/intrusivelist.c, pointer by  *)
(* pointer.  Run queues, wait queues and the task table are such lists;    *)
(* their callers hold the owner's spinlock, so an operation is one step.   *)
(***************************************************************************)
EXTENDS Naturals

CONSTANTS Lists,    \* the IntrusiveList structures
          Nodes,    \* the IntrusiveNode structures
          NULL      \* nullptr

ListAssumption == NULL \notin Nodes

VARIABLES head, tail, count,    \* fields of each list
          next, prev,           \* fields of each node
          fault                 \* whether a null pointer was dereferenced

fields == <<head, tail, count, next, prev>>
vars == <<head, tail, count, next, prev, fault>>

(* intrusivelist_init and intrusivelist_node_init *)
Init ==
    /\ head = [l \in Lists |-> NULL]
    /\ tail = [l \in Lists |-> NULL]
    /\ count = [l \in Lists |-> 0]
    /\ next = [n \in Nodes |-> NULL]
    /\ prev = [n \in Nodes |-> NULL]
    /\ fault = FALSE

(* The node a list reaches from its head in k steps, and the list as the   *)
(* sequence of the nodes reached in fewer than count steps.                *)
Reached(l) ==
    LET r[k \in Nat] == IF k = 0 THEN head[l]
                        ELSE IF r[k - 1] \in Nodes THEN next[r[k - 1]] ELSE NULL
    IN  r

Walk(l) == [i \in 1..count[l] |-> Reached(l)[i - 1]]

MembersOf(l) == {Walk(l)[i] : i \in 1..count[l]}

Linked == UNION {MembersOf(l) : l \in Lists}

-----------------------------------------------------------------------------
(* The callers insert nodes that are in no list and remove nodes from the  *)
(* list they are in.                                                       *)

intrusivelist_insert_head(l, n) ==
    /\ n \notin Linked
    /\ next' = [next EXCEPT ![n] = head[l]]
    /\ prev' = [m \in Nodes |-> IF m = n THEN NULL
                                ELSE IF m = head[l] THEN n ELSE prev[m]]
    /\ tail' = [tail EXCEPT ![l] = IF head[l] # NULL THEN @ ELSE n]
    /\ head' = [head EXCEPT ![l] = n]
    /\ count' = [count EXCEPT ![l] = @ + 1]
    /\ UNCHANGED fault

intrusivelist_insert_tail(l, n) ==
    /\ n \notin Linked
    /\ prev' = [prev EXCEPT ![n] = tail[l]]
    /\ next' = [m \in Nodes |-> IF m = n THEN NULL
                                ELSE IF m = tail[l] THEN n ELSE next[m]]
    /\ head' = [head EXCEPT ![l] = IF tail[l] # NULL THEN @ ELSE n]
    /\ tail' = [tail EXCEPT ![l] = n]
    /\ count' = [count EXCEPT ![l] = @ + 1]
    /\ UNCHANGED fault

(* Bridges the gap between the neighbours of n; an end of the list moves   *)
(* when n has no neighbour on that side.                                   *)
Unlink(l, n) ==
    /\ next' = [m \in Nodes |-> IF m = n THEN NULL
                                ELSE IF m = prev[n] THEN next[n] ELSE next[m]]
    /\ prev' = [m \in Nodes |-> IF m = n THEN NULL
                                ELSE IF m = next[n] THEN prev[n] ELSE prev[m]]
    /\ head' = [head EXCEPT ![l] = IF prev[n] # NULL THEN @ ELSE next[n]]
    /\ tail' = [tail EXCEPT ![l] = IF next[n] # NULL THEN @ ELSE prev[n]]
    /\ count' = [count EXCEPT ![l] = @ - 1]
    /\ UNCHANGED fault

intrusivelist_remove(l, n) ==
    /\ n \in MembersOf(l)
    /\ Unlink(l, n)

(* Does not look at the head's prev: the new head, if any, becomes first. *)
intrusivelist_remove_head(l) ==
    LET n == head[l]
    IN  /\ n # NULL
        /\ head' = [head EXCEPT ![l] = next[n]]
        /\ tail' = [tail EXCEPT ![l] = IF next[n] # NULL THEN @ ELSE NULL]
        /\ prev' = [m \in Nodes |-> IF m \in {n, next[n]} THEN NULL ELSE prev[m]]
        /\ next' = [next EXCEPT ![n] = NULL]
        /\ count' = [count EXCEPT ![l] = @ - 1]
        /\ UNCHANGED fault

(* A null dereference is a synchronous exception, which stops the kernel. *)
Fault == fault' = TRUE /\ UNCHANGED fields

(* Unlike the head's, this removal does not ask whether there is a node. *)
intrusivelist_remove_tail(l) ==
    LET n == tail[l]
    IN  IF n = NULL THEN Fault
        ELSE /\ tail' = [tail EXCEPT ![l] = prev[n]]
             /\ head' = [head EXCEPT ![l] = IF prev[n] # NULL THEN @ ELSE NULL]
             /\ next' = [m \in Nodes |-> IF m \in {n, prev[n]} THEN NULL ELSE next[m]]
             /\ prev' = [prev EXCEPT ![n] = NULL]
             /\ count' = [count EXCEPT ![l] = @ - 1]
             /\ UNCHANGED fault

Next ==
    /\ ~fault
    /\ \E l \in Lists :
        \/ \E n \in Nodes : \/ intrusivelist_insert_head(l, n)
                            \/ intrusivelist_insert_tail(l, n)
                            \/ intrusivelist_remove(l, n)
        \/ intrusivelist_remove_head(l)
        \/ intrusivelist_remove_tail(l)

Spec == Init /\ [][Next]_vars

-----------------------------------------------------------------------------
(* Every field has its type. *)
TypeOK ==
    /\ head \in [Lists -> Nodes \cup {NULL}]
    /\ tail \in [Lists -> Nodes \cup {NULL}]
    /\ count \in [Lists -> Nat]
    /\ next \in [Nodes -> Nodes \cup {NULL}]
    /\ prev \in [Nodes -> Nodes \cup {NULL}]

(* The lists, read along next for count steps, are the abstract lists: no  *)
(* operation loses, repeats or reorders nodes, or touches another list.    *)
Abstract == INSTANCE ListSpec WITH seq <- [l \in Lists |-> Walk(l)]

ImplementsLists == Abstract!Spec

(* The two directions agree: the walk ends at tail with a null next, and   *)
(* prev inverts next, so removals by either end see the same list.         *)
LinksAgree ==
    \A l \in Lists :
        /\ tail[l] = IF count[l] = 0 THEN NULL ELSE Walk(l)[count[l]]
        /\ Reached(l)[count[l]] = NULL
        /\ \A i \in 1..count[l] :
               prev[Walk(l)[i]] = IF i = 1 THEN NULL ELSE Walk(l)[i - 1]

=============================================================================
