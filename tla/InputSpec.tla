----------------------------- MODULE InputSpec ------------------------------
(***************************************************************************)
(* What the console promises of its input: a first-in, first-out queue of  *)
(* at most Room characters.  A character that arrives when the queue is    *)
(* full is dropped; the queue itself never loses, repeats or reorders one. *)
(***************************************************************************)
EXTENDS Integers, Sequences

CONSTANTS Char, Room

VARIABLE queue

Init == queue = <<>>

Receive(c) == Len(queue) < Room /\ queue' = Append(queue, c)

Read == queue # <<>> /\ queue' = Tail(queue)

Next == Read \/ \E c \in Char : Receive(c)

Spec == Init /\ [][Next]_queue

=============================================================================
