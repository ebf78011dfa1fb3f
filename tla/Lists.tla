-------------------------------- MODULE Lists -------------------------------
(***************************************************************************)
(* The two kinds of list of lib/ds: intrusive lists, and a list that       *)
(* allocates its nodes.                                                    *)
(***************************************************************************)
EXTENDS Integers, Sequences

CONSTANTS Lists, Nodes,     \* the intrusive lists, and the nodes of all lists
          Data,             \* what the allocating list is given
          null, junk

VARIABLES ilHead, ilTail, ilCount, ilNext, ilPrev, ilFault,
          llHead, llTail, llCount, llNode, llLive, llRet, llFault

ilVars == <<ilHead, ilTail, ilCount, ilNext, ilPrev, ilFault>>
llVars == <<llHead, llTail, llCount, llNode, llLive, llRet, llFault>>

Intrusive == INSTANCE IntrusiveList WITH
    NULL <- null,
    head <- ilHead, tail <- ilTail, count <- ilCount, next <- ilNext, prev <- ilPrev,
    fault <- ilFault

Linked == INSTANCE LinkedList WITH
    NULL <- null, JUNK <- junk,
    head <- llHead, tail <- llTail, count <- llCount, node <- llNode,
    live <- llLive, ret <- llRet, fault <- llFault

ASSUME ListsAssumption == Intrusive!ListAssumption /\ Linked!LinkedListAssumption

(* The intrusive lists implement sequences of nodes, the same from either  *)
(* end; the allocating list implements a deque, and its nodes on the heap  *)
(* are those it links.                                                     *)
ImplementsLists ==
    /\ Intrusive!ImplementsLists /\ []Intrusive!LinksAgree
    /\ Linked!ImplementsDeque /\ []Linked!NodesAreLinked

=============================================================================
