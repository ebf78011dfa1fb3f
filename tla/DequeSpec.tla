------------------------------ MODULE DequeSpec -----------------------------
(* What the heap-allocated list promises: a sequence of data pointers,     *)
(* repeats allowed, used at both ends, and the result of the last call.    *)
EXTENDS Naturals, Sequences

CONSTANTS Data, NULL

VARIABLES items, ret

Init == items = <<>> /\ ret = NULL

InsertHead(d) == items' = <<d>> \o items /\ ret' = NULL
InsertTail(d) == items' = Append(items, d) /\ ret' = NULL

First == IF items = <<>> THEN NULL ELSE Head(items)
Final == IF items = <<>> THEN NULL ELSE items[Len(items)]

RemoveHead == ret' = First /\ items' = IF items = <<>> THEN <<>> ELSE Tail(items)
RemoveTail == items # <<>> /\ ret' = Final /\ items' = SubSeq(items, 1, Len(items) - 1)

Peek == ret' \in {First, Final} /\ UNCHANGED items

Next ==
    \/ \E d \in Data : InsertHead(d) \/ InsertTail(d)
    \/ RemoveHead
    \/ RemoveTail
    \/ Peek

Spec == Init /\ [][Next]_<<items, ret>>
=============================================================================
