------------------------------ MODULE ListSpec ------------------------------
(* What the intrusive lists promise: each list is a sequence of nodes, a   *)
(* node is in at most one list, and the operations are those of a deque    *)
(* that can also drop a node from its middle.                              *)
EXTENDS Naturals, Sequences

CONSTANTS Lists, Nodes

VARIABLE seq

Members == {n \in Nodes : \E l \in Lists : \E i \in 1..Len(seq[l]) : seq[l][i] = n}

Init == seq = [l \in Lists |-> <<>>]

InsertHead(l, n) ==
    n \notin Members /\ seq' = [seq EXCEPT ![l] = <<n>> \o @]

InsertTail(l, n) ==
    n \notin Members /\ seq' = [seq EXCEPT ![l] = Append(@, n)]

Without(s, i) == SubSeq(s, 1, i - 1) \o SubSeq(s, i + 1, Len(s))

Drop(l, n) ==
    \E i \in 1..Len(seq[l]) : seq[l][i] = n /\ seq' = [seq EXCEPT ![l] = Without(@, i)]

Next == \E l \in Lists, n \in Nodes :
            InsertHead(l, n) \/ InsertTail(l, n) \/ Drop(l, n)

Spec == Init /\ [][Next]_seq
=============================================================================
