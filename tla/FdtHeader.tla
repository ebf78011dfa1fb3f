------------------------------ MODULE FdtHeader ------------------------------
(***************************************************************************)
(* Reading a blob whose header and words are arbitrary, as fdt_check_full  *)
(* and every search do: check the header once, then go from tag to tag.    *)
(***************************************************************************)
EXTENDS FdtRead

CONSTANTS Headers, Contents     \* headers, and the words that follow off_dt_struct

VARIABLES b, at                 \* at: the offset of the next tag, or an error
vars == <<b, at>>

Init ==
    /\ \E h \in Headers, w \in Contents : b = [h EXCEPT !.words = w]
    /\ at = 0

Step ==
    /\ fdt_check_header(b) = 0
    /\ at >= 0
    /\ LET t == fdt_next_tag(b, at)
       IN  at' = IF t.tag = FDT_END /\ t.next >= 0 THEN NOTFOUND ELSE t.next
    /\ UNCHANGED b

Spec == Init /\ [][Step]_vars /\ WF_vars(Step)

-----------------------------------------------------------------------------
(* In a blob whose header passes, no block begins or ends outside the      *)
(* blob, although the sums of the header's fields can wrap.                *)
BlocksInside ==
    fdt_check_header(b) = 0 =>
        /\ HEADER_SIZE <= b.off_dt_strings
        /\ b.off_dt_strings + b.size_dt_strings <= b.totalsize
        /\ HEADER_SIZE <= b.off_dt_struct /\ b.off_dt_struct <= b.totalsize
        /\ b.version >= 17 => b.off_dt_struct + b.size_dt_struct <= b.totalsize

(* Whatever the words say, the walk stays inside the blob, and inside the  *)
(* structure block if the header gives its size.                           *)
WalkInside ==
    fdt_check_header(b) = 0 /\ at >= 0 =>
        /\ b.off_dt_struct + at <= b.totalsize
        /\ b.version >= 17 => at <= b.size_dt_struct
        /\ \A n \in 0..WordSpace - 1 :
              fdt_offset_ptr(b, at, n) => b.off_dt_struct + at + n <= b.totalsize

(* The walk over the tags of any blob ends. *)
WalkEnds == <>[](fdt_check_header(b) # 0 \/ at < 0)

=============================================================================
