------------------------------ MODULE FdtEdit -------------------------------
(***************************************************************************)
(* Changing a blob: libfdt's fdt_rw.c (with room to move things), and      *)
(* fdt_wip.c (in place).  A call on blob b yields its result, an error or  *)
(* 0, and the blob after it.  An editing call moves what follows the       *)
(* splice point and adjusts the header; it has room while the end of the   *)
(* strings stays within totalsize.                                         *)
(***************************************************************************)
EXTENDS FdtRead

RSV_SIZE == 1       \* of a reservation entry

Return(err, b) == [err |-> err, b |-> b]

(* The result, unless err is an error; b is the blob before the call. *)
OrReturn(err, b, result) == IF err < 0 THEN Return(err, b) ELSE result

fdt_blocks_misordered(b, rsv, words) ==
    \/ b.off_mem_rsvmap < HEADER_SIZE
    \/ b.off_dt_struct < b.off_mem_rsvmap + rsv
    \/ b.off_dt_strings < b.off_dt_struct + words
    \/ b.totalsize < b.off_dt_strings + b.size_dt_strings

fdt_rw_probe(b) ==
    OrError(fdt_ro_probe(b),
            IF b.version < 17 THEN BADVERSION
            ELSE IF fdt_blocks_misordered(b, RSV_SIZE, b.size_dt_struct) THEN BADLAYOUT
            ELSE 0)

fdt_data_size(b) == b.off_dt_strings + b.size_dt_strings

(* Room for newlen words in the place of the oldlen at soff of the blob? *)
fdt_splice(b, soff, oldlen, newlen) ==
    IF oldlen < 0 \/ soff < 0 \/ soff + oldlen > fdt_data_size(b)
       \/ fdt_data_size(b) + newlen < oldlen THEN BADOFFSET
    ELSE IF fdt_data_size(b) - oldlen + newlen > b.totalsize THEN NOSPACE
    ELSE 0

(* Replace oldlen words at offset o of the structure block. *)
fdt_splice_struct(b, o, oldlen, new) ==
    OrReturn(fdt_splice(b, b.off_dt_struct + o, oldlen, Len(new)), b,
        Return(0, [b EXCEPT !.words = SubSeq(@, 1, o) \o new \o SubSeq(@, o + oldlen + 1, Len(@)),
                            !.size_dt_struct = @ + Len(new) - oldlen,
                            !.off_dt_strings = @ + Len(new) - oldlen]))

(* Replace oldn entries at n of the reservation map. *)
fdt_splice_mem_rsv(b, n, oldn, new) ==
    LET delta == (Len(new) - oldn) * RSV_SIZE
    IN  OrReturn(fdt_splice(b, b.off_mem_rsvmap + n * RSV_SIZE, oldn * RSV_SIZE,
                            Len(new) * RSV_SIZE), b,
            Return(0, [b EXCEPT !.rsv = SubSeq(@, 1, n) \o new \o SubSeq(@, n + oldn + 1, Len(@)),
                                !.off_dt_struct = @ + delta, !.off_dt_strings = @ + delta]))

(* The offset of string s, found or added, and whether it was added. *)
fdt_find_add_string(b, s) ==
    LET room == fdt_splice(b, b.off_dt_strings + b.size_dt_strings, 0, 1)
        At(i) ==
          IF i # 0 THEN [off |-> i - 1, allocated |-> FALSE, b |-> b]
          ELSE IF room # 0 THEN [off |-> room, allocated |-> FALSE, b |-> b]
          ELSE [off |-> b.size_dt_strings, allocated |-> TRUE,
                b |-> [b EXCEPT !.names = Append(SubSeq(@, 1, b.size_dt_strings), s),
                                !.size_dt_strings = @ + 1]]
    IN  At(SelectInSeq(SubSeq(b.names, 1, b.size_dt_strings), LAMBDA n : n = s))

fdt_del_last_string(b) == [b EXCEPT !.size_dt_strings = @ - 1, !.names = Front(@)]

-----------------------------------------------------------------------------
fdt_add_mem_rsv(b, size) ==
    OrReturn(fdt_rw_probe(b), b, fdt_splice_mem_rsv(b, fdt_num_mem_rsv(b), 0, <<size>>))

fdt_del_mem_rsv(b, n) ==
    OrReturn(fdt_rw_probe(b), b,
             IF n >= fdt_num_mem_rsv(b) THEN Return(NOTFOUND, b)
             ELSE fdt_splice_mem_rsv(b, n, 1, <<>>))

(* A new property becomes the first of its node. *)
fdt_add_property(b, o, name, value) ==
    LET Spliced(s, r) ==
            IF r.err # 0 THEN Return(r.err, IF s.allocated THEN fdt_del_last_string(r.b) ELSE r.b)
            ELSE r
        At(next, s) ==
            OrReturn(next, b, OrReturn(s.off, b,
                Spliced(s, fdt_splice_struct(s.b, next, 0, <<FDT_PROP, Len(value), s.off>> \o value))))
    IN  At(fdt_check_node_offset(b, o), fdt_find_add_string(b, name))

(* Give the property at offset p another value. *)
fdt_resize_property(b, p, value) ==
    LET Spliced(r) == IF r.err # 0 THEN r ELSE [r EXCEPT !.b.words[p + 2] = Len(value)]
    IN  Spliced(fdt_splice_struct(b, p + 3, Word(b, p + 1), value))

fdt_setprop(b, o, name, value) ==
    LET At(p) == IF p = NOTFOUND THEN fdt_add_property(b, o, name, value)
                 ELSE OrReturn(p, b, fdt_resize_property(b, p, value))
    IN  OrReturn(fdt_rw_probe(b), b, At(fdt_get_property(b, o, name)))

fdt_appendprop(b, o, name, value) ==
    LET At(p) == IF p < 0 THEN fdt_add_property(b, o, name, value)
                 ELSE fdt_resize_property(b, p, fdt_getprop_by_offset(b, p) \o value)
    IN  OrReturn(fdt_rw_probe(b), b, At(fdt_get_property(b, o, name)))

fdt_delprop(b, o, name) ==
    LET At(p) == OrReturn(p, b, fdt_splice_struct(b, p, 3 + Word(b, p + 1), <<>>))
    IN  OrReturn(fdt_rw_probe(b), b, At(fdt_get_property(b, o, name)))

fdt_set_name(b, o, name) ==
    OrReturn(fdt_rw_probe(b), b,
             OrReturn(fdt_get_name(b, o), b, fdt_splice_struct(b, o + 1, 1, <<name>>)))

(* A new node follows its parent's properties. *)
fdt_add_subnode(b, o, name) ==
    LET past[p \in 0..Len(b.words)] ==
            LET At(t) == IF t.tag \in {FDT_PROP, FDT_NOP} THEN past[t.next] ELSE p
            IN  At(fdt_next_tag(b, p))
        With(sub) ==
            IF sub >= 0 THEN Return(EXISTS, b)
            ELSE IF sub # NOTFOUND THEN Return(sub, b)
            ELSE fdt_splice_struct(b, past[o + 2], 0, <<FDT_BEGIN_NODE, name, FDT_END_NODE>>)
    IN  OrReturn(fdt_rw_probe(b), b, With(fdt_subnode_offset(b, o, name)))

(* The offset after the node at o and all it contains. *)
fdt_node_end_offset(b, o) ==
    LET walk[p \in -20..Len(b.words), depth \in -1..Len(b.words)] ==
            LET On(n) == walk[n.offset, n.depth]
            IN  IF p < 0 \/ depth < 0 THEN p ELSE On(fdt_next_node(b, p, depth))
    IN  walk[o, 0]

(* Variant: the node's own end tag stays. *)
DelNodeShort(b, o) ==
    LET To(end) == OrReturn(end, b, fdt_splice_struct(b, o, end - o - 1, <<>>))
    IN  OrReturn(fdt_rw_probe(b), b, To(fdt_node_end_offset(b, o)))

fdt_del_node(b, o) ==
    LET To(end) == OrReturn(end, b, fdt_splice_struct(b, o, end - o, <<>>))
    IN  OrReturn(fdt_rw_probe(b), b, To(fdt_node_end_offset(b, o)))

(* The three blocks one behind the other. *)
fdt_packblocks(b) ==
    LET Behind(n) ==
          [b EXCEPT !.off_mem_rsvmap = HEADER_SIZE, !.rsv = SubSeq(@, 1, n),
                    !.off_dt_struct = HEADER_SIZE + n * RSV_SIZE,
                    !.off_dt_strings = HEADER_SIZE + n * RSV_SIZE + b.size_dt_struct]
    IN  Behind(fdt_num_mem_rsv(b) + 1)

fdt_move(b, bufsize) == IF b.totalsize > bufsize THEN NOSPACE ELSE 0

(* The offset after FDT_END, or the error that ended the walk. *)
StructSize(b) ==
    LET walk[o \in 0..Len(b.words)] ==
            LET At(t) == IF t.tag = FDT_END THEN t.next ELSE walk[t.next] IN At(fdt_next_tag(b, o))
    IN  IF b.version >= 17 THEN b.size_dt_struct ELSE IF b.version = 16 THEN walk[0] ELSE BADVERSION

(* The buffer is the one that holds the blob, as in every call here: blocks *)
(* to be reordered are built behind the blob first and need the room.       *)
fdt_open_into(b, bufsize) ==
    LET Reordered(newsize, words) ==
          IF bufsize < newsize \/ b.totalsize + newsize > bufsize THEN Return(NOSPACE, b)
          ELSE Return(0, [fdt_packblocks([b EXCEPT !.size_dt_struct = words])
                            EXCEPT !.magic = FDT_MAGIC, !.totalsize = bufsize,
                                   !.version = 17, !.last_comp_version = 16])
        Open(rsv, words) ==
          IF fdt_blocks_misordered(b, rsv, words)
          THEN Reordered(HEADER_SIZE + rsv + words + b.size_dt_strings, words)
          ELSE OrReturn(fdt_move(b, bufsize), b,
                        Return(0, [b EXCEPT !.version = 17, !.size_dt_struct = words,
                                            !.totalsize = bufsize]))
        Of(words) == OrReturn(words, b, Open((fdt_num_mem_rsv(b) + 1) * RSV_SIZE, words))
    IN  OrReturn(fdt_ro_probe(b), b, Of(StructSize(b)))

fdt_pack(b) ==
    LET Packed(p) == Return(0, [p EXCEPT !.totalsize = fdt_data_size(p)])
    IN  OrReturn(fdt_rw_probe(b), b, Packed(fdt_packblocks(b)))

-----------------------------------------------------------------------------
(* In place *)

fdt_setprop_inplace(b, o, name, value) ==
    LET At(p) == IF Word(b, p + 1) # Len(value) THEN Return(NOSPACE, b)
                 ELSE Return(0, [b EXCEPT !.words = [i \in 1..Len(@) |->
                          IF i \in p + 4..p + 3 + Len(value) THEN value[i - p - 3] ELSE @[i]]])
        IfFound(p) == OrReturn(p, b, At(p))
    IN  IfFound(fdt_get_property(b, o, name))

fdt_nop_region(b, o, len) ==
    [b EXCEPT !.words = [i \in 1..Len(@) |-> IF i \in o + 1..o + len THEN FDT_NOP ELSE @[i]]]

fdt_nop_property(b, o, name) ==
    LET At(p) == OrReturn(p, b, Return(0, fdt_nop_region(b, p, 3 + Word(b, p + 1))))
    IN  At(fdt_get_property(b, o, name))

fdt_nop_node(b, o) ==
    LET To(end) == OrReturn(end, b, Return(0, fdt_nop_region(b, o, end - o)))
    IN  To(fdt_node_end_offset(b, o))

-----------------------------------------------------------------------------
(***************************************************************************)
(* Writing a blob from beginning to end: libfdt's fdt_sw.c and             *)
(* fdt_empty_tree.c.  A blob is first in state 'memrsv', then 'struct',    *)
(* then complete; the states are told apart by the magic number and by     *)
(* off_dt_strings, which is 0, then totalsize.  Strings grow down from the *)
(* end of the buffer until fdt_finish moves them behind the structure.     *)
(***************************************************************************)

fdt_sw_probe(b) ==
    IF b.magic = FDT_MAGIC THEN BADSTATE ELSE IF b.magic # FDT_SW_MAGIC THEN BADMAGIC ELSE 0

fdt_sw_probe_memrsv(b) ==
    OrError(fdt_sw_probe(b), IF b.off_dt_strings # 0 THEN BADSTATE ELSE 0)

fdt_sw_probe_struct(b) ==
    OrError(fdt_sw_probe(b), IF b.off_dt_strings # b.totalsize THEN BADSTATE ELSE 0)

(* The blob of a buffer that holds none. *)
NoBlob == [magic |-> "none", version |-> 0, last_comp_version |-> 0, totalsize |-> 0,
           off_mem_rsvmap |-> 0, off_dt_struct |-> 0, off_dt_strings |-> 0,
           size_dt_strings |-> 0, size_dt_struct |-> 0, rsv |-> <<>>, words |-> <<>>,
           names |-> <<>>]

fdt_create(b, bufsize) ==
    IF bufsize < HEADER_SIZE THEN Return(NOSPACE, b)
    ELSE Return(0, [NoBlob EXCEPT !.magic = FDT_SW_MAGIC, !.version = LAST_VERSION,
                                  !.totalsize = bufsize, !.off_mem_rsvmap = HEADER_SIZE,
                                  !.off_dt_struct = HEADER_SIZE])

(* Append words to the structure block, or fail. *)
fdt_grab_space(b, new) ==
    LET spaceleft == b.totalsize - b.off_dt_struct - b.size_dt_strings
    IN  IF b.size_dt_struct + Len(new) > spaceleft THEN Return(NOSPACE, b)
        ELSE Return(0, [b EXCEPT !.words = @ \o new, !.size_dt_struct = @ + Len(new)])

fdt_resize(b, bufsize) ==
    LET used == b.off_dt_struct + b.size_dt_struct + b.size_dt_strings
    IN  OrReturn(fdt_sw_probe(b), b,
                 IF used > b.totalsize THEN Return(INTERNAL, b)
                 ELSE IF used > bufsize THEN Return(NOSPACE, b)
                 ELSE Return(0, [b EXCEPT !.totalsize = bufsize,
                                          !.off_dt_strings = IF @ = 0 THEN 0 ELSE bufsize]))

fdt_add_reservemap_entry(b, size) ==
    OrReturn(fdt_sw_probe_memrsv(b), b,
             IF b.off_dt_struct + RSV_SIZE > b.totalsize THEN Return(NOSPACE, b)
             ELSE Return(0, [b EXCEPT !.rsv = Append(@, size), !.off_dt_struct = @ + RSV_SIZE]))

fdt_finish_reservemap(b) ==
    LET Finished(r) == IF r.err # 0 THEN r ELSE [r EXCEPT !.b.off_dt_strings = b.totalsize]
    IN  Finished(fdt_add_reservemap_entry(b, 0))

fdt_begin_node(b, name) ==
    OrReturn(fdt_sw_probe_struct(b), b, fdt_grab_space(b, <<FDT_BEGIN_NODE, name>>))

fdt_end_node(b) ==
    OrReturn(fdt_sw_probe_struct(b), b, fdt_grab_space(b, <<FDT_END_NODE>>))

(* The offset from the buffer's end, 0 when there is no room. *)
FindAddSwString(b, s) ==
    LET top == b.off_dt_struct + b.size_dt_struct
        At(i) ==
          IF i # 0 THEN [off |-> i - 1 - b.size_dt_strings, allocated |-> FALSE, b |-> b]
          ELSE IF b.totalsize - (b.size_dt_strings + 1) < top
          THEN [off |-> 0, allocated |-> TRUE, b |-> b]
          ELSE [off |-> -(b.size_dt_strings + 1), allocated |-> TRUE,
                b |-> [b EXCEPT !.names = <<s>> \o @, !.size_dt_strings = @ + 1]]
    IN  At(SelectInSeq(b.names, LAMBDA n : n = s))

fdt_property(b, name, value) ==
    LET Grabbed(s, r) ==
            IF r.err # 0 /\ s.allocated
            THEN Return(r.err, [r.b EXCEPT !.size_dt_strings = @ - 1, !.names = Tail(@)])
            ELSE r
        Named(s) ==
            IF s.off = 0 THEN Return(NOSPACE, b)
            ELSE Grabbed(s, fdt_grab_space(s.b, <<FDT_PROP, Len(value), s.off>> \o value))
    IN  OrReturn(fdt_sw_probe_struct(b), b, Named(FindAddSwString(b, name)))

(* The walk corrects the name offset of every property. *)
fdt_finish(b) ==
    LET Walk(c) ==
          LET correct[o \in 0..Len(c.words), words \in Seq(Int)] ==
                LET At(t) ==
                      IF t.tag = FDT_END THEN [next |-> t.next, words |-> words]
                      ELSE IF t.tag = FDT_PROP
                      THEN correct[t.next, [words EXCEPT ![o + 3] = @ + c.size_dt_strings]]
                      ELSE correct[t.next, words]
                IN  At(fdt_next_tag([c EXCEPT !.words = words], o))
          IN  correct[0, c.words]
        Complete(c, walked, top) ==
          IF walked.next < 0
          THEN Return(walked.next, [c EXCEPT !.words = walked.words, !.off_dt_strings = top])
          ELSE Return(0, [c EXCEPT !.words = walked.words, !.off_dt_strings = top,
                                   !.totalsize = top + c.size_dt_strings,
                                   !.last_comp_version = 16, !.magic = FDT_MAGIC])
        Ended(r) == IF r.err # 0 THEN r
                    ELSE Complete(r.b, Walk(r.b), r.b.off_dt_struct + r.b.size_dt_struct)
    IN  OrReturn(fdt_sw_probe_struct(b), b, Ended(fdt_grab_space(b, <<FDT_END>>)))

(* Each step on what the one before returned. *)
fdt_create_empty_tree(b, bufsize) ==
    LET Then(r, F(_)) == IF r.err # 0 THEN r ELSE F(r.b)
        Root(r) == Then(Then(r, LAMBDA c : fdt_begin_node(c, EMPTY)), fdt_end_node)
    IN  Then(Then(Root(Then(fdt_create(b, bufsize), fdt_finish_reservemap)), fdt_finish),
             LAMBDA c : fdt_open_into(c, bufsize))

-----------------------------------------------------------------------------
(***************************************************************************)
(* The reference for every lookup in a device tree: the nesting of the     *)
(* structure block, by matching each FDT_BEGIN_NODE with its FDT_END_NODE. *)
(***************************************************************************)

(* Outline(c)[t] is the set of nodes that are open at tag t. *)

Tags(c) ==
    LET from[o \in 0..Len(c.words)] ==
            LET At(t) == IF t.tag = FDT_END THEN {o} ELSE {o} \cup from[t.next]
            IN  At(fdt_next_tag(c, o))
    IN  from[0]

Count(c, tags, kind) == Cardinality({t \in tags : Word(c, t) = kind})

Outline(c) ==
    LET Nest(tags) ==
            [t \in tags |-> LET before == {s \in tags : s < t}
                            IN  Count(c, before, FDT_BEGIN_NODE) - Count(c, before, FDT_END_NODE)]
        Open(tags, nest) ==
            [t \in tags |-> {o \in tags : /\ o < t /\ Word(c, o) = FDT_BEGIN_NODE
                                          /\ \A s \in tags : o < s /\ s <= t => nest[s] > nest[o]}]
        Of(tags) == Open(tags, Nest(tags))
    IN  Of(Tags(c))

Starts(c, out) == {t \in DOMAIN out : Word(c, t) = FDT_BEGIN_NODE}

Parent(out, o) == IF out[o] = {} THEN NOTFOUND ELSE Max(out[o])

Children(c, out, o) == {k \in Starts(c, out) : Parent(out, k) = o}

Ordered(set) == SetToSortSeq(set, <)

(* A node's own properties come before its children. *)
Props(c, out, o) ==
    LET Mine(kids) == {p \in DOMAIN out : /\ Word(c, p) = FDT_PROP /\ Parent(out, p) = o
                                          /\ \A k \in kids : p < k}
        At(p) == <<fdt_get_string(c, Word(c, p + 2)), fdt_getprop_by_offset(c, p)>>
        Each(seq) == [i \in 1..Len(seq) |-> At(seq[i])]
    IN  Each(Ordered(Mine(Children(c, out, o))))

=============================================================================
