-------------------------------- MODULE Printf ------------------------------
(***************************************************************************)
(* __vsnprintf of kernel/debug/printf.c, which every message of the kernel *)
(* goes through: one step per character of the format, with the argument   *)
(* a directive takes chosen when it is reached.  Characters are strings of *)
(* one letter.                                                             *)
(***************************************************************************)
EXTENDS Integers, SequencesExt

CONSTANTS BufSize,      \* buf_size
          MaxFormat,    \* bound on the format's length
          U64,          \* 2^64, scaled
          Ints,         \* the i32 arguments of %d
          Longs,        \* the i64 arguments of %x and %p
          Doubles,      \* the f64 arguments of %f: sign, integer part, fraction digits
          Texts,        \* the strings passed to %s
          Letters       \* the characters of formats and of %c

VARIABLES buffer,       \* the characters in buffer, from its start
          write_count,
          spec,         \* state_format_specifier
          read,         \* characters of the format read, for the bound
          wanted,       \* what the directives read so far stand for
          astray,       \* whether characters went through a wrong pointer
          state,        \* "format", "returned", "wild" when a corrupted memory
                        \* ended the call
          ret           \* the value returned

vars == <<buffer, write_count, spec, read, wanted, astray, state, ret>>

Directives == {"d", "x", "f", "p", "s", "c", "b", "%"}

digits == <<"0", "1", "2", "3", "4", "5", "6", "7", "8", "9", "A", "B", "C", "D", "E", "F">>

-----------------------------------------------------------------------------

(* The digits from the least significant one, then the sign. *)
_print_int(x, base, sign) ==
    LET negative == sign /\ x < 0
        xx == (IF negative THEN -x ELSE x) % U64
        from[v \in 0..(U64 - 1)] ==
            Cons(digits[(v % base) + 1],
                 IF v \div base = 0 THEN <<>> ELSE from[v \div base])
    IN  from[xx] \o (IF negative THEN <<"-">> ELSE <<>>)

print_int(x, base, sign) == Reverse(_print_int(x, base, sign))

(* s put at place write_count of the buffer, over what is there. *)
Put(s) ==
    LET all == SubSeq(buffer, 1, write_count) \o s
    IN  IF Len(all) <= BufSize THEN all ELSE SubSeq(all, 1, BufSize)

(* What a call may come to once it has written to memory it does not own. *)
Corrupted(c) == IF c THEN {"format", "wild"} ELSE {"format"}

(* The stores that count.  The count is not tested again until the next    *)
(* character of the format: what does not fit is written behind the        *)
(* buffer, over whatever the caller keeps there.                           *)
Emit(s) ==
    /\ buffer' = Put(s)
    /\ write_count' = write_count + Len(s)
    /\ state' \in Corrupted(write_count' > BufSize)
    /\ UNCHANGED astray

(* *write_count++ moves the pointer to the count, not the count: s is      *)
(* stored uncounted, and what the function stores or counts from then on   *)
(* goes through a pointer to whatever follows the count on the stack.      *)
Strays(counted, s, more) ==
    /\ buffer' = Put(counted \o s)
    /\ write_count' = write_count + Len(counted)
    /\ astray' = TRUE
    /\ state' \in Corrupted(more \/ write_count + Len(counted \o s) > BufSize)

(* A newline in the string is followed by a carriage return through the    *)
(* pointer; the rest of the string goes astray.                            *)
print_string(s) ==
    LET N == {i \in 1..Len(s) : s[i] = "\n"}
        k == CHOOSE i \in N : \A j \in N : i <= j
    IN  IF N = {} THEN Emit(s)
        ELSE Strays(SubSeq(s, 1, k), <<"\r">>, k < Len(s))

(* The integer's first digit is stored uncounted, the rest goes astray. *)
print_double(f) ==
    Strays(IF f.neg THEN <<"-">> ELSE <<>>,
           <<Last(_print_int(f.int, 10, FALSE))>>, TRUE)

-----------------------------------------------------------------------------
(* What a value looks like in base b, from the most significant digit. *)
Numeral(v, b) ==
    LET n == CHOOSE k \in 1..20 : b^k > v /\ (k = 1 \/ b^(k - 1) <= v)
    IN  [i \in 1..n |-> digits[((v \div b^(n - i)) % b) + 1]]

Signed(v) == IF v < 0 THEN Cons("-", Numeral(-v, 10)) ELSE Numeral(v, 10)

Float(f) == (IF f.neg THEN <<"-">> ELSE <<>>) \o Numeral(f.int, 10) \o <<".">> \o f.frac

Boolean(v) == IF v THEN <<"t", "r", "u", "e">> ELSE <<"f", "a", "l", "s", "e">>

Wants(s) == wanted' = wanted \o s

-----------------------------------------------------------------------------
Reading(ch) ==
    /\ state = "format"
    /\ read < MaxFormat
    /\ read' = read + 1

(* The test at the head of the loop: more was written than fits. *)
Full == write_count > BufSize

GiveUp(ch) ==
    /\ Reading(ch)
    /\ Full
    /\ state' = "returned" /\ ret' = 0
    /\ UNCHANGED <<buffer, write_count, spec, wanted, astray>>

(* A character outside a directive. *)
Plain(ch) ==
    /\ Reading(ch)
    /\ ~Full /\ ~spec
    /\ \/ /\ ch = "%"
          /\ spec' = TRUE
          /\ UNCHANGED <<buffer, write_count, wanted, astray, state>>
       \/ /\ ch # "%"
          /\ Emit(IF ch = "\n" THEN <<"\n", "\r">> ELSE <<ch>>)
          /\ Wants(<<ch>>)
          /\ UNCHANGED spec
    /\ UNCHANGED ret

(* The character of a directive, with its argument. *)
Directive(ch) ==
    /\ Reading(ch)
    /\ ~Full /\ spec
    /\ \/ ch = "d" /\ \E v \in Ints : Emit(print_int(v, 10, TRUE)) /\ Wants(Signed(v))
       \/ ch = "x" /\ \E v \in Longs :
              Emit(print_int(v, 16, FALSE)) /\ Wants(Numeral(v % U64, 16))
       \/ ch = "f" /\ \E f \in Doubles : print_double(f) /\ Wants(Float(f))
       \/ ch = "p" /\ \E v \in Longs :
              /\ Emit(<<"0", "x">> \o print_int(v, 16, FALSE))
              /\ Wants(<<"0", "x">> \o Numeral(v % U64, 16))
       \/ ch = "s" /\ \E s \in Texts : print_string(s) /\ Wants(s)
       \/ ch = "s" /\ Emit(<<"n", "u", "l", "l">>) /\ Wants(<<"n", "u", "l", "l">>)
       \/ ch = "c" /\ \E c \in Letters : Emit(<<c>>) /\ Wants(<<c>>)
       \/ ch = "b" /\ \E v \in BOOLEAN : Emit(Boolean(v)) /\ Wants(Boolean(v))
       \/ ch = "%" /\ Emit(<<"%">>) /\ Wants(<<"%">>)
       \/ ch \notin Directives /\ Emit(<<"%", ch>>) /\ Wants(<<"%", ch>>)
    /\ spec' = FALSE
    /\ UNCHANGED ret

(* The end of the format; a last lone % prints nothing. *)
Return ==
    /\ state = "format"
    /\ state' = "returned" /\ ret' = write_count
    /\ UNCHANGED <<buffer, write_count, spec, read, wanted, astray>>

Init ==
    /\ buffer = <<>> /\ write_count = 0
    /\ spec = FALSE
    /\ read = 0 /\ wanted = <<>> /\ astray = FALSE
    /\ state = "format" /\ ret = 0

Next ==
    \/ \E ch \in Letters \cup Directives : GiveUp(ch) \/ Plain(ch) \/ Directive(ch)
    \/ Return

Spec == Init /\ [][Next]_vars

-----------------------------------------------------------------------------
(* Carriage returns go with newlines and are not part of the text. *)
WithoutCR(s) == SelectSeq(s, LAMBDA c : c # "\r")

(* The text fits, with a carriage return for each newline. *)
Fits == Len(wanted) + Len(SelectSeq(wanted, LAMBDA c : c = "\n")) <= BufSize

(* The "Supports" list of printf.h: a call whose text fits returns, and    *)
(* what it returns counts the characters of the buffer, which are the text *)
(* of the format with every directive replaced by its argument, numbers in *)
(* their base.                                                             *)
Rendered ==
    Fits => /\ state # "wild"
            /\ state = "returned" => /\ ret = Len(buffer)
                                     /\ WithoutCR(buffer) = wanted

(* The same, of calls that print no float and no string with a newline.    *)
RenderedUnlessAstray == astray \/ Rendered

=============================================================================
