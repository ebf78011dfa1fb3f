--------------------------------- MODULE Fdt ---------------------------------
(***************************************************************************)
(* A device tree over its life: built with the sequential writer, opened   *)
(* in a buffer with room, edited in any order, and packed.                 *)
(***************************************************************************)
EXTENDS FdtEdit

CONSTANTS BufSize,      \* words of the buffer
          NodeNames,    \* names of nodes other than the root
          PropNames, Values,
          MaxWritten,   \* bound on the words written before the tree is finished
          MaxEdits      \* bound on the edits

VARIABLES b, err, edits,
          tree          \* history: the tree that b stands for
vars == <<b, err, edits, tree>>

(* The tree of FdtSpec that a complete blob stands for. *)
Tree(c) ==
    IF c.magic # FDT_MAGIC \/ fdt_check_full(c) # 0 THEN <<>>
    ELSE LET Index(nodes, o) == IF o < 0 THEN 0 ELSE SelectInSeq(nodes, LAMBDA n : n = o)
             Each(out, nodes) ==
                [i \in 1..Len(nodes) |->
                    [name |-> Word(c, nodes[i] + 1), parent |-> Index(nodes, Parent(out, nodes[i])),
                     props |-> Props(c, out, nodes[i])]]
             Of(out) == Each(out, Ordered(Starts(c, out)))
         IN  Of(Outline(c))

-----------------------------------------------------------------------------
Init == b = NoBlob /\ err = 0 /\ edits = 0 /\ tree = <<>>

Call(r) == b' = r.b /\ err' = r.err

-----------------------------------------------------------------------------
(* Sequential writing: nodes are begun and ended in any order, and the     *)
(* properties of a node come before its children, as the format requires   *)
(* (no value of an instance ends in the word FDT_END_NODE).                *)
Create == b = NoBlob /\ (Call(fdt_create(b, BufSize)) \/ Call(fdt_create_empty_tree(b, BufSize)))

Reserve ==
    /\ b.magic = FDT_SW_MAGIC
    /\ Call(fdt_add_reservemap_entry(b, 1)) \/ Call(fdt_finish_reservemap(b))

Begin ==
    /\ b.magic = FDT_SW_MAGIC /\ Len(b.words) < MaxWritten
    /\ \E name \in NodeNames \cup {EMPTY} : Call(fdt_begin_node(b, name))

Property ==
    /\ b.magic = FDT_SW_MAGIC /\ Len(b.words) < MaxWritten
    /\ b.words # <<>> /\ Last(b.words) # FDT_END_NODE
    /\ \E name \in PropNames, v \in Values : Call(fdt_property(b, name, v))

End == b.magic = FDT_SW_MAGIC /\ Len(b.words) < MaxWritten /\ Call(fdt_end_node(b))

Finish == b.magic = FDT_SW_MAGIC /\ Call(fdt_finish(b))

Resize == b.magic = FDT_SW_MAGIC /\ Call(fdt_resize(b, BufSize + 1))

-----------------------------------------------------------------------------
Complete == b.magic = FDT_MAGIC /\ fdt_check_full(b) = 0

Offsets == IF Complete THEN ToSet(Nodes(b)) ELSE {}

Reopen == Complete /\ Call(fdt_open_into(b, BufSize))

Pack == Complete /\ Call(fdt_pack(b))

MemRsv == Complete /\ (Call(fdt_add_mem_rsv(b, 1)) \/ Call(fdt_del_mem_rsv(b, 0)))

EditNode ==
    \E o \in Offsets, name \in NodeNames :
        Call(fdt_add_subnode(b, o, name)) \/ (o # 0 /\ Call(fdt_set_name(b, o, name)))

RemoveNode == \E o \in Offsets \ {0} : Call(fdt_del_node(b, o)) \/ Call(fdt_nop_node(b, o))

EditProperty ==
    \E o \in Offsets, name \in PropNames, v \in Values :
        \/ Call(fdt_setprop(b, o, name, v))
        \/ Call(fdt_appendprop(b, o, name, v))
        \/ Call(fdt_setprop_inplace(b, o, name, v))

RemoveProperty ==
    \E o \in Offsets, name \in PropNames :
        Call(fdt_delprop(b, o, name)) \/ Call(fdt_nop_property(b, o, name))

Write == Create \/ Reserve \/ Begin \/ Property \/ End \/ Finish \/ Resize

Edit == Reopen \/ Pack \/ MemRsv \/ EditNode \/ RemoveNode \/ EditProperty \/ RemoveProperty

Next ==
    /\ \/ Write /\ UNCHANGED edits
       \/ edits < MaxEdits /\ Edit /\ edits' = edits + 1
    /\ tree' = Tree(b')

Spec == Init /\ [][Next]_vars

Abstract == INSTANCE FdtSpec WITH tree <- tree

-----------------------------------------------------------------------------
TypeOK ==
    /\ b.size_dt_struct = Len(b.words)
    /\ b.size_dt_strings = Len(b.names)
    /\ err <= 0

(* A finished blob is accepted by fdt_check_full exactly if every node     *)
(* that was begun was ended, and nothing stands outside the root, whose     *)
(* name is empty.                                                          *)
CheckedIfBalanced ==
    LET Balanced(tags) == Count(b, tags, FDT_BEGIN_NODE) = Count(b, tags, FDT_END_NODE)
        OneRoot(out) == \A t \in DOMAIN out :
            \/ Word(b, t) \in {FDT_NOP, FDT_END}
            \/ out[t] # {}
            \/ t = 0 /\ Word(b, t) = FDT_BEGIN_NODE /\ Word(b, 1) = EMPTY
    IN  b.magic = FDT_MAGIC =>
            (fdt_check_full(b) = 0 <=> Balanced(Tags(b)) /\ OneRoot(Outline(b)))

(* Every lookup by scanning finds what the nesting says: parent, depth,    *)
(* children in order, and the first property of a name.                    *)
LookupsAgree ==
    LET Value(props, k) == IF k = 0 THEN <<NOTFOUND>> ELSE props[k][2]
        First(set) == IF set = {} THEN NOTFOUND ELSE Min(set)
        Properties(o, props) == \A name \in PropNames :
            fdt_getprop(b, o, name) = Value(props, SelectInSeq(props, LAMBDA p : p[1] = name))
        Subs(o, mine) ==
            /\ Subnodes(b, o) = Ordered(mine)
            /\ \A name \in NodeNames :
                  fdt_subnode_offset(b, o, name)
                    = First({k \in mine : fdt_nodename_eq(Word(b, k + 1), name)})
        Agree(out) == \A o \in Offsets :
            /\ fdt_parent_offset(b, o) = Parent(out, o)
            /\ fdt_node_depth(b, o) = Cardinality(out[o])
            /\ Properties(o, Props(b, out, o))
            /\ Subs(o, Children(b, out, o))
    IN  Agree(Outline(b))

(* The path of a node names its ancestors, and leads back to it unless,    *)
(* somewhere on the way, an earlier sibling matches the name.  A buffer    *)
(* too small for the path is refused.                                      *)
PathsAgree ==
    LET Shadowed(out, o) == \E k \in Starts(b, out) :
            /\ k < o /\ Parent(out, k) = Parent(out, o)
            /\ fdt_nodename_eq(Word(b, k + 1), Word(b, o + 1))
        Leads(o, up, out, names) ==
            /\ \A size \in {2 * Len(names) - 1, 20} : fdt_get_path(b, o, size)
                  = IF size = 1 THEN <<NOSPACE>> ELSE names
            /\ Len(names) > 1 => fdt_get_path(b, o, 2 * Len(names) - 2) = <<NOSPACE>>
            /\ \/ \E i \in 1..Len(up) : Shadowed(out, up[i])
               \/ fdt_path_offset(b, [alias |-> 0, names |-> Tail(names)]) = o
        Named(o, up, out) == Leads(o, up, out, [i \in 1..Len(up) |-> Word(b, up[i] + 1)])
        Agree(out) == \A o \in Offsets : Named(o, Ordered(out[o] \cup {o}), out)
    IN  Agree(Outline(b))

(* Repeating a search from where it last succeeded meets exactly the       *)
(* nodes that match, in order; a phandle leads to the first node that has  *)
(* it, and 0 to none.                                                      *)
SearchesFind ==
    LET First(set) == IF set = {} THEN NOTFOUND ELSE Min(set)
        Has(value, string) == value # <<NOTFOUND>> /\ string \in ToSet(value)
        Find(nodes) ==
            /\ fdt_node_offset_by_phandle(b, 0) < 0
            /\ \A h \in 1..FDT_MAX_PHANDLE :
                  fdt_node_offset_by_phandle(b, h) = First({o \in nodes : fdt_get_phandle(b, o) = h})
            /\ \A start \in nodes \cup {-1}, v \in Values :
                  /\ fdt_node_offset_by_compatible(b, start, v[1])
                       = First({p \in nodes : p > start /\ Has(fdt_getprop(b, p, COMPATIBLE), v[1])})
                  /\ fdt_node_offset_by_prop_value(b, start, PHANDLE, v)
                       = First({p \in nodes : p > start /\ fdt_getprop(b, p, PHANDLE) = v})
    IN  Complete => Find(Offsets)

(* A call that fails changes nothing, the strings included. *)
FailureChangesNothing == [][err' < 0 => b' = b]_vars

(* Building and editing implement the tree of FdtSpec: each call changes   *)
(* the one node or property it names, wherever the words move.             *)
ImplementsTree == Abstract!Spec

=============================================================================
