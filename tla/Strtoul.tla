------------------------------- MODULE Strtoul ------------------------------
(***************************************************************************)
(* strtoul of lib/stdlib.c with the character classes of ctype.h, over     *)
(* characters given by their codes, beside what it should compute.         *)
(* A string is a sequence; the code reads 0 after its last character.      *)
(***************************************************************************)
EXTENDS Integers, SequencesExt

CONSTANTS ULONG_MAX,    \* scaled
          Alphabet,     \* the characters strings are made of
          MaxLength,    \* of a string
          Bases         \* the bases asked for

StrtoulAssumption ==
    ULONG_MAX \in Nat /\ Alphabet \subseteq 1..127 /\ Bases \subseteq {0} \cup 2..36

VARIABLES str, base,    \* the arguments
          out           \* the result and the end pointer

vars == <<str, base, out>>

(* isdigit, isspace, isupper and isalpha: unsigned differences, which wrap *)
(* below the first character of the class (2^16 for 2^32).                *)
Within(c, first, n) == (c - first) % 2^16 < n

isdigit(c) == Within(c, 48, 10)
isspace(c) == c = 32 \/ Within(c, 9, 5)
isupper(c) == Within(c, 65, 26)
isalpha(c) == Within(c, 97, 26) \/ Within(c, 65, 26)

(* nptr[i] of a string t. *)
At(t, i) == IF i < Len(t) THEN t[i + 1] ELSE 0

(* The value of a digit; None when the character ends the number. *)
None == 99
Digit(c) ==
    IF isdigit(c) THEN c - 48
    ELSE IF isalpha(c) THEN c - (IF isupper(c) THEN 65 - 10 ELSE 97 - 10)
    ELSE None

-----------------------------------------------------------------------------
(* The scan.  p is the place of c, the character at hand: s - 1 in the     *)
(* code, whose s is always one past it.                                    *)

SkipSpaces(t) ==
    LET from[p \in 0..Len(t)] == IF isspace(At(t, p)) THEN from[p + 1] ELSE p
    IN  from[0]

Sign(t, p) == [p |-> IF At(t, p) \in {43, 45} THEN p + 1 ELSE p, neg |-> At(t, p) = 45]

(* "0x" is passed over when the base allows it, and settles a base of 0. *)
Prefix(t, p, b) ==
    IF b \in {0, 16} /\ At(t, p) = 48 /\ At(t, p + 1) \in {120, 88}
    THEN [p |-> p + 2, base |-> 16]
    ELSE [p |-> p, base |-> IF b # 0 THEN b ELSE IF At(t, p) = 48 THEN 8 ELSE 10]

(* One digit.  any is -1 once the number does not fit. *)
Step(n, c, b) ==
    LET cutoff == ULONG_MAX \div b
        cutlim == ULONG_MAX % b
    IN  IF n.any < 0 THEN n
        ELSE IF n.acc > cutoff \/ (n.acc = cutoff /\ c > cutlim)
        THEN [acc |-> ULONG_MAX, any |-> -1]
        ELSE [acc |-> (n.acc * b + c) % (ULONG_MAX + 1), any |-> 1]

(* The digits from p on, and the place of the character that ends them. *)
Digits(t, p, b) ==
    LET upto[q \in p..Len(t)] ==    \* after the characters before q
            IF q = p THEN [end |-> p, n |-> [acc |-> 0, any |-> 0]]
            ELSE LET m == upto[q - 1]
                     c == Digit(At(t, q - 1))
                 IN  IF m.end < q - 1 \/ c >= b THEN m
                     ELSE [end |-> q, n |-> Step(m.n, c, b)]
    IN  upto[Len(t)]

strtoul(t, b) ==
    LET sign == Sign(t, SkipSpaces(t))
        start == Prefix(t, sign.p, b)
        number == Digits(t, start.p, start.base)
        any == number.n.any
    IN  [value |-> IF sign.neg /\ any > 0
                   THEN (-number.n.acc) % (ULONG_MAX + 1) ELSE number.n.acc,
         end |-> IF any # 0 THEN number.end ELSE 0]

-----------------------------------------------------------------------------
NotCalled == [value |-> -1, end |-> -1]

Init ==
    /\ str \in BoundedSeq(Alphabet, MaxLength)
    /\ base \in Bases
    /\ out = NotCalled

Next ==
    /\ out = NotCalled
    /\ out' = strtoul(str, base)
    /\ UNCHANGED <<str, base>>

Spec == Init /\ [][Next]_vars

-----------------------------------------------------------------------------
(* A reading of the string as spaces, sign, prefix and digits, by the      *)
(* places at which each part ends; parts are as long as they can be.       *)
Greatest(S) == CHOOSE m \in S : \A k \in S : k <= m

Reading ==
    LET char(i) == At(str, i)
        isHex(i) == char(i) = 48 /\ char(i + 1) \in {120, 88}
        spaces == Greatest({i \in 0..Len(str) : \A j \in 0..(i - 1) : char(j) \in {32} \cup 9..13})
        sign == spaces + (IF char(spaces) \in {43, 45} THEN 1 ELSE 0)
        radix == IF base # 0 THEN base ELSE IF isHex(sign) THEN 16
                 ELSE IF char(sign) = 48 THEN 8 ELSE 10
        start == sign + (IF radix = 16 /\ isHex(sign) THEN 2 ELSE 0)
        isNumeral(c) == \/ c \in 48..57 /\ c - 48 < radix
                        \/ c \in 65..90 /\ c - 55 < radix
                        \/ c \in 97..122 /\ c - 87 < radix
        end == Greatest({i \in start..Len(str) : \A j \in start..(i - 1) : isNumeral(char(j))})
    IN  [start |-> start, end |-> end, negative |-> char(spaces) = 45,
         value |-> FoldSet(LAMBDA i, v : v + Digit(char(i)) * radix^(end - 1 - i), 0,
                           start..(end - 1))]

(* The result is the number written, negated modulo the width after a      *)
(* minus sign, and ULONG_MAX when the number does not fit, whatever its    *)
(* sign: the cutoff decides this before the multiplication can wrap.       *)
ValueOrLimit ==
    out # NotCalled =>
        LET r == Reading
        IN  out.value = IF r.value > ULONG_MAX THEN ULONG_MAX
                        ELSE IF r.negative THEN (-r.value) % (ULONG_MAX + 1)
                        ELSE r.value

(* The end pointer is just after the last digit, also of a number that     *)
(* does not fit, and at the start when no digit was read.                  *)
EndsAfterDigits ==
    out # NotCalled =>
        LET r == Reading IN out.end = IF r.end > r.start THEN r.end ELSE 0
=============================================================================
