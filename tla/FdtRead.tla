------------------------------ MODULE FdtRead -------------------------------
(***************************************************************************)
(* Reading a blob: libfdt's fdt_ro.c and fdt_addresses.c, as operators on  *)
(* the blobs below.  A lookup yields an offset or a negative error.        *)
(* A property lookup yields the offset of the property's tag.  A path is   *)
(* an alias, or 0 for none, and a sequence of names.                       *)
(***************************************************************************)
EXTENDS Integers, Sequences, SequencesExt, FiniteSetsExt

-----------------------------------------------------------------------------
(***************************************************************************)
(* The flattened device tree of the vendored libfdt: its header, its       *)
(* structure block, and the walk over the block's tags (fdt.c,             *)
(* fdt_check.c).                                                           *)
(*                                                                         *)
(* Sizes and offsets count words of four bytes, the size of a tag, so an   *)
(* offset is always aligned.  A blob is                                    *)
(*   the fields of the header, as unsigned numbers below WordSpace;        *)
(*   rsv, the reservation entries, a size of 0 ending the list;            *)
(*   words, the structure block: tags, name words, and for a property its  *)
(*     length, the offset of its name, and its value;                      *)
(*   names, the strings block, one word per string.                        *)
(* A name is one word: ten times the name proper plus the unit address     *)
(* after its @, 0 standing for none.  Name 0 is the empty name.            *)
(***************************************************************************)

CONSTANT WordSpace      \* numbers of the header wrap here: 2^32

INT_MAX == WordSpace \div 2 - 1

FDT_BEGIN_NODE == 1
FDT_END_NODE == 2
FDT_PROP == 3
FDT_NOP == 4
FDT_END == 9

FDT_MAGIC == "magic"
FDT_SW_MAGIC == "sw magic"
HEADER_SIZE == 2        \* version 17, the only one produced here
FIRST_VERSION == 2
LAST_VERSION == 17

(* The errors of libfdt.h, negated. *)
NOTFOUND == -1
EXISTS == -2
NOSPACE == -3
BADOFFSET == -4
BADPATH == -5
BADPHANDLE == -6
BADSTATE == -7
TRUNCATED == -8
BADMAGIC == -9
BADVERSION == -10
BADSTRUCTURE == -11
BADLAYOUT == -12
INTERNAL == -13

(* The value, unless err is an error. *)
OrError(err, value) == IF err < 0 THEN err ELSE value

-----------------------------------------------------------------------------
(* Header *)

fdt_ro_probe(b) ==
    IF b.magic = FDT_MAGIC
    THEN IF b.version < FIRST_VERSION \/ b.last_comp_version > LAST_VERSION THEN BADVERSION
         ELSE IF b.totalsize < INT_MAX THEN b.totalsize ELSE TRUNCATED
    ELSE IF b.magic # FDT_SW_MAGIC THEN BADMAGIC
    ELSE IF b.size_dt_struct = 0 THEN BADSTATE
    ELSE IF b.totalsize < INT_MAX THEN b.totalsize ELSE TRUNCATED

check_off(total, off) == off >= HEADER_SIZE /\ off <= total

check_block(total, base, size) ==
    /\ check_off(total, base)
    /\ (base + size) % WordSpace >= base
    /\ check_off(total, (base + size) % WordSpace)

fdt_check_header(b) ==
    IF b.magic # FDT_MAGIC THEN BADMAGIC
    ELSE IF \/ b.version < FIRST_VERSION
            \/ b.last_comp_version > LAST_VERSION
            \/ b.version < b.last_comp_version
    THEN BADVERSION
    ELSE IF /\ b.totalsize >= HEADER_SIZE
            /\ b.totalsize <= INT_MAX
            /\ check_off(b.totalsize, b.off_mem_rsvmap)
            /\ IF b.version < 17 THEN check_off(b.totalsize, b.off_dt_struct)
               ELSE check_block(b.totalsize, b.off_dt_struct, b.size_dt_struct)
            /\ check_block(b.totalsize, b.off_dt_strings, b.size_dt_strings)
    THEN 0
    ELSE TRUNCATED

-----------------------------------------------------------------------------
(* Tags.  Word(b, o) is the word at offset o of the structure block. *)

Word(b, o) == b.words[o + 1]

(* len words can be read at offset o of the structure block. *)
fdt_offset_ptr(b, o, len) ==
    LET Within(from, to, limit) == to >= from /\ to <= limit
        Absolute(absoffset) ==
            absoffset >= o /\ Within(absoffset, (absoffset + len) % WordSpace, b.totalsize)
    IN  /\ o >= 0
        /\ Absolute((o + b.off_dt_struct) % WordSpace)
        /\ b.version >= 17 => Within(o, (o + len) % WordSpace, b.size_dt_struct)

(* The offset behind the tag at o, or -1: a property's length leads past   *)
(* the end of the block or wraps.  A name ends in its one word, where the  *)
(* code scans for the byte 0.  Before version 16 longer values start at a  *)
(* multiple of eight bytes.                                                *)
TagEnd(b, o) ==
    LET Fits(sum) == sum < INT_MAX /\ sum >= o + 1
        Aligned(len) == IF b.version < 16 /\ len >= 2 /\ (o + 3) % 2 # 0 THEN 1 ELSE 0
    IN  IF Word(b, o) \in {FDT_END_NODE, FDT_NOP, FDT_END} THEN o + 1
        ELSE IF Word(b, o) \notin {FDT_BEGIN_NODE, FDT_PROP} \/ ~fdt_offset_ptr(b, o + 1, 1) THEN -1
        ELSE IF Word(b, o) = FDT_BEGIN_NODE THEN o + 2
        ELSE IF Fits((Word(b, o + 1) + o + 1) % WordSpace)
        THEN o + 3 + Word(b, o + 1) + Aligned(Word(b, o + 1))
        ELSE -1

(* Variant: the length of a property's value is trusted. *)
TagTrustingLength(b, o) ==
    LET Tag(end) ==
            IF end < 0 THEN [tag |-> FDT_END, next |-> BADSTRUCTURE]
            ELSE [tag |-> Word(b, o), next |-> end]
    IN  IF fdt_offset_ptr(b, o, 1) THEN Tag(TagEnd(b, o))
        ELSE [tag |-> FDT_END, next |-> TRUNCATED]

(* The tag at o and the offset of the next one.  A structure block that    *)
(* breaks off, or a word that is no tag, reads as FDT_END with an error.   *)
fdt_next_tag(b, o) ==
    LET Tag(end) ==
            IF end < 0 \/ ~fdt_offset_ptr(b, o, (end - o) % WordSpace)
            THEN [tag |-> FDT_END, next |-> BADSTRUCTURE]
            ELSE [tag |-> Word(b, o), next |-> end]
    IN  IF fdt_offset_ptr(b, o, 1) THEN Tag(TagEnd(b, o))
        ELSE [tag |-> FDT_END, next |-> TRUNCATED]

(* The offset after the tag of a node, and of a property. *)
NextIf(tag, t) == IF t.tag = tag THEN t.next ELSE BADOFFSET

fdt_check_node_offset(b, o) ==
    IF o < 0 THEN BADOFFSET ELSE NextIf(FDT_BEGIN_NODE, fdt_next_tag(b, o))

fdt_check_prop_offset(b, o) ==
    IF o < 0 THEN BADOFFSET ELSE NextIf(FDT_PROP, fdt_next_tag(b, o))

(* The next node in the order of the block and its depth relative to the   *)
(* caller's.  When the depth falls below 0 the offset is the one after the *)
(* subtree.                                                                *)
fdt_next_node(b, o, depth) ==
    LET walk[p \in 0..Len(b.words), d \in -2..Len(b.words)] ==
            LET At(t) ==
                  CASE t.tag \in {FDT_PROP, FDT_NOP} -> walk[t.next, d]
                    [] t.tag = FDT_BEGIN_NODE -> [offset |-> p, depth |-> d + 1]
                    [] t.tag = FDT_END_NODE ->
                          IF d < 1 THEN [offset |-> t.next, depth |-> d - 1] ELSE walk[t.next, d - 1]
                    [] t.tag = FDT_END -> [offset |-> IF t.next >= 0 THEN NOTFOUND ELSE t.next,
                                           depth |-> d]
            IN  At(fdt_next_tag(b, p))
        From(start) == IF start < 0 THEN [offset |-> start, depth |-> depth] ELSE walk[start, depth]
    IN  From(IF o >= 0 THEN fdt_check_node_offset(b, o) ELSE 0)

(* The same with no depth: the walk goes to the end of the block, where a  *)
(* block that breaks off counts as ended.                                  *)
NextNode(b, o) ==
    LET walk[p \in 0..Len(b.words)] ==
            LET At(t) ==
                  CASE t.tag \in {FDT_PROP, FDT_NOP, FDT_END_NODE} -> walk[t.next]
                    [] t.tag = FDT_BEGIN_NODE -> p
                    [] t.tag = FDT_END ->
                          IF t.next >= 0 \/ t.next = TRUNCATED THEN NOTFOUND ELSE t.next
            IN  At(fdt_next_tag(b, p))
        From(start) == OrError(start, walk[start])
    IN  From(IF o >= 0 THEN fdt_check_node_offset(b, o) ELSE 0)

fdt_first_subnode(b, o) ==
    LET First(n) == IF n.offset < 0 \/ n.depth # 1 THEN NOTFOUND ELSE n.offset
    IN  First(fdt_next_node(b, o, 0))

fdt_next_subnode(b, o) ==
    LET next[p \in 0..Len(b.words), d \in 0..Len(b.words)] ==
            LET At(n) ==
                  IF n.offset < 0 \/ n.depth < 1 THEN NOTFOUND
                  ELSE IF n.depth > 1 THEN next[n.offset, n.depth] ELSE n.offset
            IN  At(fdt_next_node(b, p, d))
    IN  next[o, 1]

(* fdt_for_each_subnode *)
Subnodes(b, o) ==
    LET from[p \in -20..Len(b.words)] ==
            IF p < 0 THEN <<>> ELSE <<p>> \o from[fdt_next_subnode(b, p)]
    IN  from[fdt_first_subnode(b, o)]

(* All nodes in the order of the block, as a loop over NextNode. *)
Nodes(b) ==
    LET from[p \in -20..Len(b.words)] ==
            IF p < 0 THEN <<>> ELSE <<p>> \o from[NextNode(b, p)]
    IN  from[NextNode(b, -1)]

-----------------------------------------------------------------------------
(* Checking a whole blob *)

fdt_num_mem_rsv(b) ==
    LET ends == {i \in 1..Len(b.rsv) : b.rsv[i] = 0}
    IN  IF ends = {} THEN TRUNCATED ELSE Min(ends) - 1

(* The name a property points at.  While a blob is built its strings grow  *)
(* down from the end of the buffer, and offsets are from there.            *)
fdt_get_string(b, off) ==
    LET size == b.size_dt_strings
    IN  IF b.magic = FDT_MAGIC /\ off \in 0..size - 1 THEN b.names[off + 1]
        ELSE IF b.magic = FDT_SW_MAGIC /\ -off \in 1..size THEN b.names[size + off + 1]
        ELSE BADOFFSET

fdt_check_full(b) ==
    LET check[o \in 0..Len(b.words), depth \in 0..Len(b.words), expect_end \in BOOLEAN] ==
            LET At(t) ==
                  IF t.next < 0 THEN t.next
                  ELSE IF expect_end /\ t.tag # FDT_END THEN BADSTRUCTURE
                  ELSE CASE t.tag = FDT_NOP -> check[t.next, depth, expect_end]
                         [] t.tag = FDT_END -> IF depth # 0 THEN BADSTRUCTURE ELSE 0
                         [] t.tag = FDT_BEGIN_NODE ->
                              IF depth = 0 /\ Word(b, o + 1) # 0 THEN BADSTRUCTURE
                              ELSE check[t.next, depth + 1, expect_end]
                         [] t.tag = FDT_END_NODE ->
                              IF depth = 0 THEN BADSTRUCTURE
                              ELSE check[t.next, depth - 1, depth = 1]
                         [] t.tag = FDT_PROP ->
                              IF fdt_get_string(b, Word(b, o + 2)) < 0 THEN BADOFFSET
                              ELSE check[t.next, depth, expect_end]
            IN  At(fdt_next_tag(b, o))
    IN  OrError(fdt_check_header(b), OrError(fdt_num_mem_rsv(b), check[0, 0, FALSE]))

-----------------------------------------------------------------------------
(* Names, as words. *)
EMPTY == 0
PHANDLE == 10
LINUX_PHANDLE == 20
COMPATIBLE == 30
ALIASES == 40
ADDRESS_CELLS == 50
SIZE_CELLS == 60
CPUS == 110
CPU == 12               \* "cpu": a node cpu@n is 120 + n
REG == 130
INTERRUPTS == 140
INTERRUPT_PARENT == 150
INTERRUPT_CONTROLLER == 160
INTERRUPT_CELLS == 170
FDT_MAX_PHANDLE == 4    \* 0xfffffffe

(* s matches the name p if it is p, or p up to its @. *)
fdt_nodename_eq(p, s) == p = s \/ (s % 10 = 0 /\ p \div 10 = s \div 10)

fdt_get_name(b, o) ==
    OrError(fdt_ro_probe(b), OrError(fdt_check_node_offset(b, o), Word(b, o + 1)))

-----------------------------------------------------------------------------
(* Properties *)

(* The first property from o on, past NOPs only; o may be an error. *)
nextprop(b, o) ==
    LET from[p \in 0..Len(b.words)] ==
            LET At(t) ==
                  CASE t.tag = FDT_END -> IF t.next >= 0 THEN BADSTRUCTURE ELSE t.next
                    [] t.tag = FDT_PROP -> p
                    [] t.tag = FDT_NOP -> from[t.next]
                    [] OTHER -> NOTFOUND
            IN  At(fdt_next_tag(b, p))
    IN  OrError(o, from[o])

fdt_first_property_offset(b, o) == nextprop(b, fdt_check_node_offset(b, o))

fdt_next_property_offset(b, o) == nextprop(b, fdt_check_prop_offset(b, o))

fdt_get_property(b, o, name) ==
    LET find[p \in -20..Len(b.words)] ==
            IF p < 0 THEN p
            ELSE IF fdt_get_string(b, Word(b, p + 2)) = name THEN p
            ELSE find[fdt_next_property_offset(b, p)]
    IN  find[fdt_first_property_offset(b, o)]

(* The value, or <<error>> with a negative error. *)
fdt_getprop_by_offset(b, p) ==
    IF p < 0 THEN <<p>> ELSE SubSeq(b.words, p + 4, p + 3 + Word(b, p + 1))

fdt_getprop(b, o, name) == fdt_getprop_by_offset(b, fdt_get_property(b, o, name))

Found(value) == value = <<>> \/ value[1] >= 0

(* A value of any other length than one cell is no phandle. *)
fdt_get_phandle(b, o) ==
    LET Cell(v, other) == IF Found(v) /\ Len(v) = 1 THEN v[1] ELSE other
    IN  Cell(fdt_getprop(b, o, PHANDLE), Cell(fdt_getprop(b, o, LINUX_PHANDLE), 0))

-----------------------------------------------------------------------------
(* Nodes *)

fdt_subnode_offset(b, o, name) ==
    LET find[p \in -20..Len(b.words), depth \in -1..Len(b.words)] ==
            IF p < 0 THEN IF depth < 0 THEN NOTFOUND ELSE p
            ELSE IF depth < 0 THEN NOTFOUND
            ELSE IF depth = 1 /\ fdt_nodename_eq(fdt_get_name(b, p), name) THEN p
            ELSE LET From(n) == find[n.offset, n.depth] IN From(fdt_next_node(b, p, depth))
    IN  OrError(fdt_ro_probe(b), find[o, 0])

(* One component after the other from a node on. *)
Descend(b, o, names) ==
    LET down[k \in 0..Len(names)] ==
            IF k = 0 THEN o
            ELSE OrError(down[k - 1], fdt_subnode_offset(b, down[k - 1], names[k]))
    IN  down[Len(names)]

(* An alias is a property of /aliases that holds a path from the root.     *)
fdt_get_alias(b, alias) ==
    LET IfFound(v) == IF Found(v) THEN v ELSE <<>>
        Of(aliases) == IF aliases < 0 THEN <<>> ELSE IfFound(fdt_getprop(b, aliases, alias))
    IN  Of(Descend(b, 0, <<ALIASES>>))

fdt_path_offset(b, path) ==
    LET Start(v) == IF v = <<>> THEN BADPATH ELSE Descend(b, 0, v)
    IN  OrError(fdt_ro_probe(b),
                Descend(b, IF path.alias = 0 THEN 0 ELSE Start(fdt_get_alias(b, path.alias)),
                        path.names))

(* The names from the root to the node at o, or <<error>>.  The buffer is  *)
(* the sequence of names copied so far; each takes its length and one more *)
(* for the slash.                                                          *)
fdt_get_path(b, o, buflen) ==
    LET Length(n) == IF n = EMPTY THEN 1 ELSE 2
        walk[p \in -20..Len(b.words), depth \in -1..Len(b.words), buf \in Seq(Nat)] ==
            IF p = NOTFOUND \/ p > o \/ (p >= 0 /\ depth < 0) THEN <<BADOFFSET>>
            ELSE IF p < 0 THEN <<IF p = BADOFFSET THEN BADSTRUCTURE ELSE p>>
            ELSE LET Copied(name, kept) ==
                       IF /\ Len(kept) >= depth
                          /\ FoldSeq(LAMBDA n, sum : Length(n) + sum, Length(name), kept) <= buflen
                       THEN Append(kept, name) ELSE kept
                     On(n, new) ==
                       IF p = o THEN IF Len(new) < depth + 1 THEN <<NOSPACE>> ELSE new
                       ELSE walk[n.offset, n.depth, new]
                 IN  On(fdt_next_node(b, p, depth),
                        Copied(fdt_get_name(b, p),
                               IF Len(buf) > depth THEN SubSeq(buf, 1, depth) ELSE buf))
    IN  IF fdt_ro_probe(b) < 0 THEN <<fdt_ro_probe(b)>>
        ELSE IF buflen < 2 THEN <<NOSPACE>>
        ELSE walk[0, 0, <<>>]

(* The ancestor at the given depth of the node at o, and the node's depth. *)
fdt_supernode_atdepth_offset(b, o, supernodedepth) ==
    LET walk[p \in -20..Len(b.words), depth \in -1..Len(b.words), super \in -20..Len(b.words)] ==
            IF p < 0 \/ p > o
            THEN [offset |-> IF p = BADOFFSET THEN BADSTRUCTURE
                             ELSE IF p = NOTFOUND \/ p >= 0 THEN BADOFFSET ELSE p,
                  depth |-> depth]
            ELSE LET here == IF depth = supernodedepth THEN p ELSE super
                     On(n) == walk[n.offset, n.depth, here]
                 IN  IF p = o
                     THEN [offset |-> IF supernodedepth > depth THEN NOTFOUND ELSE here,
                           depth |-> depth]
                     ELSE On(fdt_next_node(b, p, depth))
    IN  IF fdt_ro_probe(b) < 0 THEN [offset |-> fdt_ro_probe(b), depth |-> 0]
        ELSE IF supernodedepth < 0 THEN [offset |-> NOTFOUND, depth |-> 0]
        ELSE walk[0, 0, INTERNAL]

fdt_node_depth(b, o) ==
    LET Depth(s) == IF s.offset = 0 THEN s.depth ELSE IF s.offset < 0 THEN s.offset ELSE INTERNAL
    IN  Depth(fdt_supernode_atdepth_offset(b, o, 0))

(* Variant: the ancestor asked for is the node's own depth. *)
ParentAtOwnDepth(b, o) ==
    LET At(depth) == OrError(depth, fdt_supernode_atdepth_offset(b, o, depth).offset)
    IN  At(fdt_node_depth(b, o))

fdt_parent_offset(b, o) ==
    LET At(depth) == OrError(depth, fdt_supernode_atdepth_offset(b, o, depth - 1).offset)
    IN  At(fdt_node_depth(b, o))

(* The first node after start with P, or what ended the walk. *)
Search(b, start, P(_)) ==
    LET from[p \in -20..Len(b.words)] == IF p < 0 \/ P(p) THEN p ELSE from[NextNode(b, p)]
    IN  from[NextNode(b, start)]

fdt_node_offset_by_prop_value(b, start, name, value) ==
    Search(b, start, LAMBDA p : fdt_getprop(b, p, name) = value)

fdt_node_offset_by_phandle(b, phandle) ==
    IF phandle = 0 \/ phandle = FDT_MAX_PHANDLE + 1 THEN BADPHANDLE
    ELSE Search(b, -1, LAMBDA p : fdt_get_phandle(b, p) = phandle)

(* A compatible value is a list of strings, one word each. *)
fdt_node_check_compatible(b, o, compatible) ==
    LET In(v) == IF ~Found(v) THEN v[1] ELSE IF compatible \in ToSet(v) THEN 0 ELSE 1
    IN  In(fdt_getprop(b, o, COMPATIBLE))

fdt_node_offset_by_compatible(b, start, compatible) ==
    LET from[p \in -20..Len(b.words)] ==
            LET On(err) == IF err < 0 /\ err # NOTFOUND THEN err
                           ELSE IF err = 0 THEN p ELSE from[NextNode(b, p)]
            IN  OrError(p, On(fdt_node_check_compatible(b, p, compatible)))
    IN  from[NextNode(b, start)]

=============================================================================
