----------------------------- MODULE LinkedList -----------------------------
(***************************************************************************)
(* The generic list of lib/ds/linkedlist.c, pointer by pointer, with its   *)
(* nodes taken from and given back to the kernel heap.                     *)
(***************************************************************************)
EXTENDS Naturals, FiniteSets

CONSTANTS Nodes,    \* the addresses at which the heap can hold a Node
          Data,     \* what the list's owners put in it
          NULL,     \* nullptr
          JUNK      \* what a field of a freed node holds

LinkedListAssumption ==
    NULL \notin Nodes \cup Data /\ JUNK \notin Nodes \cup Data \cup {NULL}

VARIABLES head, tail, count,    \* the LinkedList
          node,                 \* the Node structures in the heap
          live,                 \* the nodes allocated
          ret,                  \* the result of the last call
          fault                 \* whether a null or an error pointer was dereferenced

vars == <<head, tail, count, node, live, ret, fault>>
list == <<head, tail, count, node, live>>

Freed == [data |-> JUNK, next |-> JUNK, prev |-> JUNK]

(* linkedlist_init *)
Init ==
    /\ head = NULL /\ tail = NULL /\ count = 0
    /\ node = [n \in Nodes |-> Freed]
    /\ live = {}
    /\ ret = NULL /\ fault = FALSE

(* The nodes along next, starting at head, count of them, and their data. *)
Reached ==
    LET r[k \in Nat] == IF k = 0 THEN head
                        ELSE IF r[k - 1] \in Nodes THEN node[r[k - 1]].next ELSE JUNK
    IN  r

Walk == [i \in 1..count |-> Reached[i - 1]]

Items == [i \in 1..count |-> IF Walk[i] \in Nodes THEN node[Walk[i]].data ELSE JUNK]

-----------------------------------------------------------------------------
(* Neither address is mapped: an exception stops the kernel. *)
Fault == fault' = TRUE /\ UNCHANGED <<list, ret>>

(* kalloc(sizeof(Node)): any free place, or -ENOMEM as a pointer, which    *)
(* the callers do not test.                                                *)
OutOfMemory == live = Nodes
kalloc == Nodes \ live

(* kfree: the heap writes its own header over the node. *)
kfree(n) == live' = live \ {n}

linkedlist_insert_head(d) ==
    \/ OutOfMemory /\ Fault
    \/ \E n \in kalloc :
           /\ live' = live \cup {n}
           /\ node' = [m \in Nodes |->
                  IF m = n THEN [data |-> d, next |-> head, prev |-> NULL]
                  ELSE IF m = head THEN [node[m] EXCEPT !.prev = n] ELSE node[m]]
           /\ tail' = IF head # NULL THEN tail ELSE n
           /\ head' = n
           /\ count' = count + 1
           /\ ret' = NULL /\ UNCHANGED fault

linkedlist_insert_tail(d) ==
    \/ OutOfMemory /\ Fault
    \/ \E n \in kalloc :
           /\ live' = live \cup {n}
           /\ node' = [m \in Nodes |->
                  IF m = n THEN [data |-> d, next |-> NULL, prev |-> tail]
                  ELSE IF m = tail THEN [node[m] EXCEPT !.next = n] ELSE node[m]]
           /\ head' = IF tail # NULL THEN head ELSE n
           /\ tail' = n
           /\ count' = count + 1
           /\ ret' = NULL /\ UNCHANGED fault

(* Variant: the data is read after kfree. *)
RemoveHeadReadsFreed ==
    IF head = NULL THEN ret' = NULL /\ UNCHANGED <<list, fault>>
    ELSE /\ head' = node[head].next
         /\ tail' = IF head' # NULL THEN tail ELSE NULL
         /\ node' = [m \in Nodes |-> IF m = head THEN Freed
                         ELSE IF m = head' THEN [node[m] EXCEPT !.prev = NULL] ELSE node[m]]
         /\ ret' = node'[head].data
         /\ kfree(head)
         /\ count' = count - 1
         /\ UNCHANGED fault

linkedlist_remove_head ==
    IF head = NULL THEN ret' = NULL /\ UNCHANGED <<list, fault>>
    ELSE /\ head' = node[head].next
         /\ tail' = IF head' # NULL THEN tail ELSE NULL
         /\ ret' = node[head].data
         /\ node' = [m \in Nodes |-> IF m = head THEN Freed
                         ELSE IF m = head' THEN [node[m] EXCEPT !.prev = NULL] ELSE node[m]]
         /\ kfree(head)
         /\ count' = count - 1
         /\ UNCHANGED fault

(* Unlike the head's, this removal does not ask whether there is a node. *)
linkedlist_remove_tail ==
    IF tail = NULL THEN Fault
    ELSE /\ tail' = node[tail].prev
         /\ head' = IF tail' # NULL THEN head ELSE NULL
         /\ ret' = node[tail].data
         /\ node' = [m \in Nodes |-> IF m = tail THEN Freed
                         ELSE IF m = tail' THEN [node[m] EXCEPT !.next = NULL] ELSE node[m]]
         /\ kfree(tail)
         /\ count' = count - 1
         /\ UNCHANGED fault

linkedlist_peek_head ==
    ret' = (IF head = NULL THEN NULL ELSE node[head].data) /\ UNCHANGED <<list, fault>>

linkedlist_peek_tail ==
    ret' = (IF tail = NULL THEN NULL ELSE node[tail].data) /\ UNCHANGED <<list, fault>>

Next ==
    /\ ~fault
    /\ \/ \E d \in Data : linkedlist_insert_head(d) \/ linkedlist_insert_tail(d)
       \/ linkedlist_remove_head
       \/ linkedlist_remove_tail
       \/ linkedlist_peek_head
       \/ linkedlist_peek_tail

Spec == Init /\ [][Next]_vars

-----------------------------------------------------------------------------
(* The data along next, and what every call returns, are those of a deque: *)
(* no order of calls at the two ends loses, repeats or reorders an item,   *)
(* or reads a freed node.                                                  *)
Abstract == INSTANCE DequeSpec WITH items <- Items

ImplementsDeque == Abstract!Spec

(* The list "allocates memory using kernel heap and frees them"            *)
(* (linkedlist.h): the allocated nodes are exactly those it still links,   *)
(* and linkedlist_count counts them.                                       *)
NodesAreLinked ==
    /\ live = {Walk[i] : i \in 1..count}
    /\ Cardinality(live) = count

=============================================================================
