----------------------------- MODULE FlantermUtf8 -----------------------------
(***************************************************************************)
(* The decoding of characters of several bytes in flanterm_putchar,        *)
(* against the definition of UTF-8 (RFC 3629).  Bytes are fed to a fresh   *)
(* terminal of one line until no character is pending.                     *)
(***************************************************************************)
EXTENDS Flanterm

CONSTANT Bytes    \* the bytes that are fed, 27 (ESC) not among them

VARIABLES t,      \* the context
          fed     \* the bytes since it was fresh

Init == t = flanterm_fb_init /\ fed = <<>>

\* Sequences longer than this would only repeat a character cut short.
MaxFed == 5

Done == fed # <<>> /\ t.unicode_remaining = 0

Feed ==
    /\ ~Done /\ Len(fed) < MaxFed
    /\ \E c \in Bytes : t' = flanterm_putchar(t, c) /\ fed' = Append(fed, c)
Restart == (Done \/ Len(fed) = MaxFed) /\ t' = flanterm_fb_init /\ fed' = <<>>

Next == Feed \/ Restart
Spec == Init /\ [][Next]_<<t, fed>>

\* The glyphs on the line before the cursor.
Printed == [i \in 1 .. t.cursor_x |-> Pending(t, i - 1).c]

-------------------------------------------------------------------------------
(* The definition.                                                         *)

Tail6(c) == c \in 128 .. 191
\* How many bytes the lead byte c announces; 1 if it is none.
Announced(c) == IF c \in 194 .. 223 THEN 2 ELSE IF c \in 224 .. 239 THEN 3
                ELSE IF c \in 240 .. 244 THEN 4 ELSE 1
\* The number the bits of s stand for.
Value(s) ==
    LET n == Len(s)
        f[k \in 1 .. n] == IF k = 1 THEN s[1] % 2^(IF n = 2 THEN 5 ELSE 7 - n)
                           ELSE f[k - 1] * 64 + (s[k] % 64)
    IN  IF n = 1 THEN s[1] ELSE f[n]
Complete(s) ==
    s # <<>> /\ Len(s) = Announced(s[1]) /\ \A k \in 2 .. Len(s) : Tail6(s[k])
\* The least number that takes n bytes.
Least0(n) == IF n = 2 THEN 128 ELSE IF n = 3 THEN 2048 ELSE 65536
Overlong(s) == Value(s) < Least0(Len(s))
Surrogate(s) == Value(s) \in 55296 .. 57343
OutOfRange(s) == Value(s) > MAX_CP
WellFormed(s) == Len(s) > 1 /\ Complete(s) /\ ~Overlong(s) /\ ~Surrogate(s) /\ ~OutOfRange(s)
\* F4 is followed by a byte that leaves the range.
LeavesRange(s) == Len(s) > 1 /\ s[1] = 244 /\ s[2] \in 144 .. 191

\* What a byte that is no part of a longer character prints.
Single(c) == IF c \in 32 .. 126 THEN <<c>> ELSE IF c >= 128 THEN <<BLOCK>> ELSE <<>>
Shown(cp) ==
    IF Cp437Of(cp) # -1 THEN <<Cp437Of(cp)>>
    ELSE IF WidthOf(cp) = 2 THEN <<BLOCK, SPACE>>
    ELSE IF WidthOf(cp) = 1 THEN <<BLOCK>> ELSE <<>>

\* The bytes from k on: a character, or as much of one as there is, and the rest.
\* A character that is cut short or not well-formed prints one replacement.
Reference(s) ==
    LET n == Len(s)
        end(k) == CHOOSE j \in k .. n :
                      /\ j - k < Announced(s[k]) /\ \A m \in k + 1 .. j : Tail6(s[m])
                      /\ j = n \/ j - k + 1 = Announced(s[k]) \/ ~Tail6(s[j + 1])
        part(c) == IF Len(c) = 1 /\ Announced(c[1]) = 1 THEN Single(c[1])
                   ELSE IF WellFormed(c) THEN Shown(Value(c)) ELSE <<BLOCK>>
        f[k \in 1 .. n + 1] == IF k > n THEN <<>>
                               ELSE part(SubSeq(s, k, end(k))) \o f[end(k) + 1]
    IN  f[1]

-------------------------------------------------------------------------------
\* Bytes are decoded as UTF-8: a well-formed sequence prints the glyph of its code
\* point, once, and an overlong form, a surrogate, or a character cut short by
\* another prints one replacement however many bytes it has, losing nothing of
\* what follows.
DecodesUtf8 ==
    Done /\ (\A k \in 1 .. Len(fed) : ~LeavesRange(SubSeq(fed, k, Len(fed))))
        => Printed = Reference(fed)

===============================================================================
