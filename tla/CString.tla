------------------------------- MODULE CString ------------------------------
(***************************************************************************)
(* lib/string.c: each function as its loop over a small memory, beside a   *)
(* definition by quantifiers of what it should compute.  Memory is bytes   *)
(* 0..Size-1; a call passes areas and terminated strings that lie in it,   *)
(* as every caller in the kernel and in libfdt does.                       *)
(***************************************************************************)
EXTENDS Integers, FiniteSets

CONSTANTS Size,     \* bytes of memory
          Byte,     \* the byte values that occur
          Chars,    \* the i32 values passed as a character
          U32       \* 2^32, scaled: more than any length in memory

CStringAssumption == 0 \in Byte /\ Byte \subseteq 0..255 /\ U32 > Size

VARIABLES mem,      \* the bytes
          call      \* the last call, with its result

vars == <<mem, call>>

Addr == 0..(Size - 1)
NULL == -1          \* nullptr
WILD == -2          \* the loop left the memory: any address

u8(c) == c % 256

Reads(a, n) == a + n <= Size
IsString(m, s) == \E t \in s..(Size - 1) : m[t] = 0

Least(S) == CHOOSE x \in S : \A y \in S : x <= y
Greatest(S) == CHOOSE x \in S : \A y \in S : y <= x

-----------------------------------------------------------------------------
(* Copying and filling *)

(* n bytes copied upwards from s to d, the k-th after the ones before it. *)
CopyUp(m, d, s, n) ==
    LET after[k \in 0..n] ==
            IF k = 0 THEN m
            ELSE [after[k - 1] EXCEPT ![d + k - 1] = after[k - 1][s + k - 1]]
    IN  after[n]

CopyDown(m, d, s, n) ==
    LET after[k \in 0..n] ==
            IF k = 0 THEN m
            ELSE [after[k - 1] EXCEPT ![d + n - k] = after[k - 1][s + n - k]]
    IN  after[n]

(* Variant: the direction is chosen the wrong way round. *)
MoveBackwards(m, d, s, n) == IF d < s THEN CopyDown(m, d, s, n) ELSE CopyUp(m, d, s, n)

memmove(m, d, s, n) == IF d < s THEN CopyUp(m, d, s, n) ELSE CopyDown(m, d, s, n)

memcpy(m, d, s, n) == CopyUp(m, d, s, n)

memset(m, s, byte, n) ==
    LET after[k \in 0..n] ==
            IF k = 0 THEN m ELSE [after[k - 1] EXCEPT ![s + k - 1] = byte]
    IN  after[n]

-----------------------------------------------------------------------------
(* Searching *)

memchr(m, s, c, n) ==
    LET scan[k \in 0..n] == IF k = n THEN NULL
                            ELSE IF m[s + k] = u8(c) THEN s + k ELSE scan[k + 1]
    IN  scan[0]

memrchr(m, s, c, n) ==
    LET scan[k \in 0..n] == IF k = 0 THEN NULL
                            ELSE IF m[s + k - 1] = u8(c) THEN s + k - 1 ELSE scan[k - 1]
    IN  scan[n]

strlen(m, s) ==
    LET scan[p \in s..(Size - 1)] == IF m[p] = 0 THEN p - s ELSE scan[p + 1]
    IN  scan[s]

strrchr(m, s, c) == memrchr(m, s, c, strlen(m, s) + 1)

strnlen(m, s, n) ==
    LET p == memchr(m, s, 0, n) IN IF p # NULL THEN p - s ELSE n

(* The loop's first test reads *s, the first character, at every turn. *)
strchrnul(m, s, c) ==
    LET scan[p \in s..Size] ==
            IF p = Size THEN WILD
            ELSE IF m[s] = 0 \/ m[p] = u8(c) THEN p ELSE scan[p + 1]
    IN  IF u8(c) = 0 THEN s + strlen(m, s) ELSE scan[s]

strchr(m, s, c) ==
    LET r == strchrnul(m, s, c)
    IN  IF r = WILD THEN WILD ELSE IF m[r] = u8(c) THEN r ELSE NULL

-----------------------------------------------------------------------------
(* Comparing *)

memcmp(m, a, b, n) ==
    LET diff[k \in 0..n] == IF k = n THEN 0
                            ELSE IF m[a + k] # m[b + k] THEN m[a + k] - m[b + k]
                            ELSE diff[k + 1]
    IN  diff[0]

(* left is decremented before it is tested, at equal characters only. *)
strncmp(m, a, b, n) ==
    LET diff[k \in 0..Size, left \in 0..(U32 - 1)] ==
            LET less == (left - 1) % U32
            IN  IF m[a + k] # 0 /\ m[a + k] = m[b + k] /\ less > 0
                THEN diff[k + 1, less]
                ELSE m[a + k] - m[b + k]
    IN  diff[0, n]

strcmp(m, a, b) ==
    LET diff[k \in 0..Size] ==
            IF m[a + k] # 0 /\ m[a + k] = m[b + k] THEN diff[k + 1]
            ELSE m[a + k] - m[b + k]
    IN  diff[0]

-----------------------------------------------------------------------------
(* Calls.  A function that writes changes mem; the others set a result.    *)

Writes(f, d, x, n, m) ==
    /\ mem' = m
    /\ call' = [f |-> f, a |-> d, x |-> x, n |-> n, ret |-> d]

Returns(f, a, x, n, r) ==
    /\ call' = [f |-> f, a |-> a, x |-> x, n |-> n, ret |-> r]
    /\ UNCHANGED mem

Overlap(d, s, n) == d < s + n /\ s < d + n

Init ==
    /\ mem \in [Addr -> Byte]
    /\ call = [f |-> "none", a |-> 0, x |-> 0, n |-> 0, ret |-> 0]

Next == call.f = "none" /\
    \/ \E a \in Addr, x \in Addr, n \in 0..Size :
           /\ Reads(a, n) /\ Reads(x, n)
           /\ \/ Writes("memmove", a, x, n, memmove(mem, a, x, n))
              \/ ~Overlap(a, x, n) /\ Writes("memcpy", a, x, n, memcpy(mem, a, x, n))
              \/ Returns("memcmp", a, x, n, memcmp(mem, a, x, n))
    \/ \E a \in Addr, x \in Chars, n \in 0..Size :
           /\ Reads(a, n)
           /\ \/ Writes("memset", a, u8(x), n, memset(mem, a, u8(x), n))
              \/ Returns("memchr", a, x, n, memchr(mem, a, x, n))
              \/ Returns("memrchr", a, x, n, memrchr(mem, a, x, n))
              \/ Returns("strnlen", a, 0, n, strnlen(mem, a, n))
    \/ \E a \in Addr, x \in Chars :
           /\ IsString(mem, a)
           /\ \/ Returns("strlen", a, 0, 0, strlen(mem, a))
              \/ Returns("strrchr", a, x, 0, strrchr(mem, a, x))
              \/ Returns("strchrnul", a, x, 0, strchrnul(mem, a, x))
              \/ Returns("strchr", a, x, 0, strchr(mem, a, x))
    \/ \E a \in Addr, x \in Addr :
           /\ IsString(mem, a) /\ IsString(mem, x)
           /\ \/ Returns("strcmp", a, x, 0, strcmp(mem, a, x))
              \/ \E n \in 0..Size : Returns("strncmp", a, x, n, strncmp(mem, a, x, n))

Spec == Init /\ [][Next]_vars

-----------------------------------------------------------------------------
(* What the functions should compute. *)

Found(A, c) == {p \in A : mem[p] = u8(c)}
FirstOf(S) == IF S = {} THEN NULL ELSE Least(S)
FinalOf(S) == IF S = {} THEN NULL ELSE Greatest(S)

Area(a, n) == a..(a + n - 1)
Terminator(s) == Least({t \in s..(Size - 1) : mem[t] = 0})
Text(s) == s..Terminator(s)

Sign(v) == IF v < 0 THEN -1 ELSE IF v > 0 THEN 1 ELSE 0

(* Lexicographic order of the first n bytes at a and at b. *)
Order(a, b, n) ==
    LET D == {k \in 0..(n - 1) : mem[a + k] # mem[b + k]}
    IN  IF D = {} THEN 0 ELSE Sign(mem[a + Least(D)] - mem[b + Least(D)])

Shorter(a, b) ==
    1 + Least({Terminator(a) - a, Terminator(b) - b})

AtMost(n, k) == IF n < k THEN n ELSE k

(* A copy leaves the source's old bytes at the destination even when the   *)
(* two areas overlap, and every other byte alone (memmove; memcpy and      *)
(* memset, whose areas do not overlap).                                    *)
CopiesOldBytes ==
    [][\A p \in Addr :
           mem'[p] = IF call'.f \in {"memmove", "memcpy"} /\ p \in Area(call'.a, call'.n)
                     THEN mem[call'.x + p - call'.a]
                     ELSE IF call'.f = "memset" /\ p \in Area(call'.a, call'.n)
                     THEN call'.x ELSE mem[p]]_vars

(* The searches find the first, or the last, place in their area or string *)
(* that holds the character as a byte, the terminator included.  strchr    *)
(* and strchrnul do so when there is one; in a string without it they run  *)
(* past the terminator.                                                    *)
SearchesFind ==
    /\ call.f \in {"strchr", "strchrnul"} /\ Found(Text(call.a), call.x) # {} =>
           call.ret = FirstOf(Found(Text(call.a), call.x))
    /\ call.f = "memchr" => call.ret = FirstOf(Found(Area(call.a, call.n), call.x))
    /\ call.f = "memrchr" => call.ret = FinalOf(Found(Area(call.a, call.n), call.x))
    /\ call.f = "strrchr" => call.ret = FinalOf(Found(Text(call.a), call.x))
    /\ call.f = "strlen" => call.ret = Terminator(call.a) - call.a
    /\ call.f = "strnlen" =>
           call.ret = LET S == {p \in Area(call.a, call.n) : mem[p] = 0}
                      IN  IF S = {} THEN call.n ELSE Least(S) - call.a

(* The comparisons return the lexicographic order, and those of strings    *)
(* look at nothing after a terminator.  A strncmp of no characters is left *)
(* out: its count wraps, and it compares the whole strings.                *)
ComparisonsOrder ==
    /\ call.f = "memcmp" => Sign(call.ret) = Order(call.a, call.x, call.n)
    /\ call.f = "strcmp" => Sign(call.ret) = Order(call.a, call.x, Shorter(call.a, call.x))
    /\ call.f = "strncmp" /\ call.n > 0 =>
           Sign(call.ret) = Order(call.a, call.x, AtMost(call.n, Shorter(call.a, call.x)))

=============================================================================
