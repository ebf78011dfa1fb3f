------------------------------- MODULE FdtSpec -------------------------------
(***************************************************************************)
(* What editing a device tree promises: a tree of named nodes, in order,   *)
(* each with named values, and edits that touch what they name and nothing *)
(* else.  Node i is the i-th in the order of the text; a node's parent     *)
(* comes before it, and a node's descendants follow it directly.           *)
(***************************************************************************)
EXTENDS Integers, Sequences, SequencesExt, FiniteSets

VARIABLE tree       \* sequence of [name, parent, props]; empty before it is built

(* The node and its descendants. *)
Below(i) == {j \in i..Len(tree) : \A k \in i + 1..j : tree[k].parent >= i}

(* Build any tree at once. *)
Build == tree = <<>> /\ Len(tree') > 0 /\ \A i \in 1..Len(tree') : tree'[i].parent < i

(* A new first child for node p. *)
Add(p) ==
    /\ Len(tree') = Len(tree) + 1
    /\ tree'[p + 1].parent = p
    /\ tree'[p + 1].props = <<>>
    /\ \A j \in 1..Len(tree) :
          tree'[IF j > p THEN j + 1 ELSE j]
              = [tree[j] EXCEPT !.parent = IF @ > p THEN @ + 1 ELSE @]

(* Node i goes with all below it; the root stays. *)
Delete(i) ==
    LET gone == Below(i)
        n == Cardinality(gone)
    IN  /\ i > 1
        /\ tree' = [j \in 1..Len(tree) - n |->
                       LET old == tree[IF j < i THEN j ELSE j + n]
                       IN  [old EXCEPT !.parent = IF @ > i THEN @ - n ELSE @]]

Rename(i) ==
    /\ Len(tree') = Len(tree)
    /\ tree' = [tree EXCEPT ![i].name = tree'[i].name]

(* Property k of node i gets another value, goes, or comes first. *)
Change(i) == \E k \in 1..Len(tree[i].props) :
    /\ Len(tree') = Len(tree)
    /\ Len(tree'[i].props) = Len(tree[i].props)
    /\ tree' = [tree EXCEPT ![i].props[k][2] = tree'[i].props[k][2]]

Drop(i) == \E k \in 1..Len(tree[i].props) : tree' = [tree EXCEPT ![i].props = RemoveAt(@, k)]

Set(i) ==
    /\ Len(tree') = Len(tree)
    /\ Len(tree'[i].props) > 0
    /\ tree' = [tree EXCEPT ![i].props = <<tree'[i].props[1]>> \o @]

Edit(i) == Add(i) \/ Delete(i) \/ Rename(i) \/ Change(i) \/ Drop(i) \/ Set(i)

Init == tree = <<>>

Next == Build \/ \E i \in 1..Len(tree) : Edit(i)

Spec == Init /\ [][Next]_tree

=============================================================================
