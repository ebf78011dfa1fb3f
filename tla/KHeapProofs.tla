----------------------------- MODULE KHeapProofs ----------------------------
(* Proofs about module KHeap, for headers, pages and requests of any size. *)
EXTENDS KHeap, FiniteSetTheorems, TLAPS

Blocks == [at : Nat, size : {n \in Nat : n >= Header}]

(* Byte x belongs to block b, to a block of list s. *)
In(x, b) == b.at <= x /\ x < b.at + b.size
InList(x, s) == \E i \in 1..Len(s) : In(x, s[i])

(* The blocks of s are in the order of their addresses, and a block may    *)
(* touch its successor only at the places of X.                            *)
Apart(s, X) ==
    \A i, j \in 1..Len(s) : i < j =>
        /\ s[i].at + s[i].size <= s[j].at
        /\ s[i].at + s[i].size = s[j].at => i \in X /\ j = i + 1

Lists == {s \in Seq(Blocks) : Apart(s, {})}

FreeLists == [list : Lists, capacity : Nat]

(* The bytes of b left list s, which is now l. *)
Moved(s, l, b) ==
    \A x \in Nat : /\ InList(x, s) <=> InList(x, l) \/ In(x, b)
                   /\ ~(InList(x, l) /\ In(x, b))

(* Every byte of P is in the list s or in one allocation of U. *)
Tiled(P, s, U) ==
    /\ \A x \in Nat : x \in P <=> InList(x, s) \/ \E u \in U : In(x, u.block)
    /\ \A x \in Nat : \A u \in U :
           In(x, u.block) => ~InList(x, s) /\ \A v \in U : In(x, v.block) => v = u

Allocations == {u \in [block : Blocks, size : Sizes] : u.block.size >= u.size + Header}

(* The list and the allocations account for the bytes of P, once each, and *)
(* capacity counts them.                                                   *)
Sound(fl, P, U) ==
    /\ fl \in FreeLists
    /\ P \subseteq Nat /\ IsFiniteSet(P) /\ fl.capacity = Cardinality(P)
    /\ U \subseteq Allocations
    /\ Tiled(P, fl.list, U)

IInv == Sound(freelist, pool, used)

(* What the caller sees of an allocation, and what all callers own. *)
Own(u) == [at |-> u.block.at + Header, size |-> u.size]
Owned == {Own(u) : u \in used}

-----------------------------------------------------------------------------
(* Sequences. *)

(* A set of numbers that is not empty has a least one. *)
LEMMA LeastElement ==
    ASSUME NEW T, T \subseteq Nat, T # {}
    PROVE  \E x \in T : \A y \in T : x <= y
  <1>1. PICK x \in T : \A y \in T : ~(<<y, x>> \in OpToRel(<, Nat))
    BY NatLessThanWellFounded, WFMin, Zenon
  <1>2. ASSUME NEW y \in T PROVE x <= y
    <2>1. x \in Nat /\ y \in Nat
      OBVIOUS
    <2>2. <<y, x>> \in Nat \X Nat /\ ~(<<y, x>> \in OpToRel(<, Nat))
      BY <1>1, <2>1, Zenon
    <2>3. ~(y < x)
      BY <2>2, Zenon DEF OpToRel
    <2> QED
      BY <2>1, <2>3
  <1> QED
    BY <1>2, Zenon

(* Two sequences in a row, position by position. *)
LEMMA InARow ==
    ASSUME NEW S, NEW a \in Seq(S), NEW b \in Seq(S)
    PROVE  /\ a \o b \in Seq(S) /\ Len(a \o b) = Len(a) + Len(b)
           /\ \A j \in 1..Len(a) + Len(b) : (a \o b)[j] = IF j <= Len(a) THEN a[j] ELSE b[j - Len(a)]
  OBVIOUS

(* The sequence after Unlinked, position by position. *)
LEMMA UnlinkedPositions ==
    ASSUME NEW S, NEW s \in Seq(S), NEW i \in 1..Len(s)
    PROVE  /\ Unlinked(s, i) \in Seq(S) /\ Len(Unlinked(s, i)) = Len(s) - 1
           /\ \A j \in 1..Len(s) - 1 : Unlinked(s, i)[j] = IF j < i THEN s[j] ELSE s[j + 1]
  <1> DEFINE a == SubSeq(s, 1, i - 1)
             b == SubSeq(s, i + 1, Len(s))
  <1>1. Len(s) \in Nat /\ i \in Nat /\ 1 <= i /\ i <= Len(s)
    OBVIOUS
  <1>2. /\ a \in Seq(S) /\ Len(a) = i - 1
        /\ \A j \in 1..i - 1 : a[j] = s[j]
    BY <1>1
  <1>3. /\ b \in Seq(S) /\ Len(b) = Len(s) - i
        /\ \A j \in 1..Len(s) - i : b[j] = s[j + i]
    BY <1>1
  <1> HIDE DEF a, b
  <1>4. Unlinked(s, i) = a \o b
    BY DEF Unlinked, a, b
  <1>5. /\ a \o b \in Seq(S) /\ Len(a \o b) = Len(s) - 1
        /\ \A j \in 1..Len(s) - 1 : (a \o b)[j] = IF j <= i - 1 THEN a[j] ELSE b[j - (i - 1)]
    <2>1. /\ a \o b \in Seq(S) /\ Len(a \o b) = Len(a) + Len(b)
          /\ \A j \in 1..Len(a) + Len(b) : (a \o b)[j] = IF j <= Len(a) THEN a[j] ELSE b[j - Len(a)]
      BY <1>2, <1>3, InARow, Zenon
    <2>2. Len(a) + Len(b) = Len(s) - 1
      BY <1>1, <1>2, <1>3
    <2>3. Len(a) = i - 1
      BY <1>2
    <2> QED
      BY <2>1, <2>2, <2>3, Zenon
  <1>6. ASSUME NEW j \in 1..Len(s) - 1
        PROVE  (a \o b)[j] = IF j < i THEN s[j] ELSE s[j + 1]
    <2>1. CASE j < i
      BY <1>1, <1>2, <1>5, <2>1
    <2>2. CASE ~(j < i)
      <3>1. j - (i - 1) \in 1..Len(s) - i /\ j - (i - 1) + i = j + 1 /\ ~(j <= i - 1)
        BY <1>1, <2>2
      <3>2. b[j - (i - 1)] = s[j + 1]
        BY <1>3, <3>1
      <3> QED
        BY <1>5, <2>2, <3>1, <3>2
    <2> QED
      BY <2>1, <2>2, Zenon
  <1> QED
    BY <1>4, <1>5, <1>6

(* The sequence after Linked, position by position. *)
LEMMA LinkedPositions ==
    ASSUME NEW S, NEW s \in Seq(S), NEW i \in 1..Len(s) + 1, NEW e \in S
    PROVE  /\ Linked(s, i, e) \in Seq(S) /\ Len(Linked(s, i, e)) = Len(s) + 1
           /\ \A j \in 1..Len(s) + 1 :
                  /\ j < i => Linked(s, i, e)[j] = s[j]
                  /\ j = i => Linked(s, i, e)[j] = e
                  /\ i < j => Linked(s, i, e)[j] = s[j - 1]
  <1> DEFINE a == SubSeq(s, 1, i - 1)
             b == SubSeq(s, i, Len(s))
             c == a \o <<e>>
  <1>1. Len(s) \in Nat /\ i \in Nat /\ 1 <= i /\ i <= Len(s) + 1
    OBVIOUS
  <1>2. /\ a \in Seq(S) /\ Len(a) = i - 1
        /\ \A j \in 1..i - 1 : a[j] = s[j]
    BY <1>1
  <1>3. /\ b \in Seq(S) /\ Len(b) = Len(s) - i + 1
        /\ \A j \in 1..Len(s) - i + 1 : b[j] = s[j + i - 1]
    BY <1>1
  <1>4. /\ c \in Seq(S) /\ Len(c) = i
        /\ \A j \in 1..i : c[j] = IF j < i THEN s[j] ELSE e
    BY <1>1, <1>2
  <1> HIDE DEF a, b, c
  <1>5. Linked(s, i, e) = c \o b
    BY DEF Linked, a, b, c
  <1>6. /\ c \o b \in Seq(S) /\ Len(c \o b) = Len(s) + 1
        /\ \A j \in 1..Len(s) + 1 : (c \o b)[j] = IF j <= i THEN c[j] ELSE b[j - i]
    <2>1. /\ c \o b \in Seq(S) /\ Len(c \o b) = Len(c) + Len(b)
          /\ \A j \in 1..Len(c) + Len(b) : (c \o b)[j] = IF j <= Len(c) THEN c[j] ELSE b[j - Len(c)]
      BY <1>3, <1>4, InARow, Zenon
    <2>2. Len(c) + Len(b) = Len(s) + 1
      BY <1>1, <1>3, <1>4
    <2>3. Len(c) = i
      BY <1>4
    <2> QED
      BY <2>1, <2>2, <2>3, Zenon
  <1>7. ASSUME NEW j \in 1..Len(s) + 1
        PROVE  /\ j < i => (c \o b)[j] = s[j]
               /\ j = i => (c \o b)[j] = e
               /\ i < j => (c \o b)[j] = s[j - 1]
    <2>1. CASE j <= i
      BY <1>1, <1>4, <1>6, <2>1
    <2>2. CASE ~(j <= i)
      <3>1. j - i \in 1..Len(s) - i + 1 /\ j - i + i - 1 = j - 1 /\ ~(j < i) /\ j # i
        BY <1>1, <2>2
      <3>2. b[j - i] = s[j - 1]
        BY <1>3, <3>1
      <3> QED
        BY <1>6, <2>2, <3>1, <3>2
    <2> QED
      BY <2>1, <2>2, Zenon
  <1> QED
    BY <1>5, <1>6, <1>7

-----------------------------------------------------------------------------
(* The list of freelist.c. *)

(* What a block's fields are. *)
LEMMA BlockFields ==
    ASSUME NEW b \in Blocks
    PROVE  b.at \in Nat /\ b.size \in Nat /\ b.size >= Header /\ b.size > 0
  BY HeaderAssumption DEF Blocks

(* A record of the two fields is a block. *)
LEMMA BlockIsBlock ==
    ASSUME NEW at \in Nat, NEW n \in Nat, n >= Header
    PROVE  Block(at, n) \in Blocks /\ Block(at, n).at = at /\ Block(at, n).size = n
  BY DEF Blocks, Block

(* A block with another size. *)
LEMMA BlockResized ==
    ASSUME NEW b \in Blocks, NEW n
    PROVE  [b EXCEPT !.size = n] = Block(b.at, n)
  BY DEF Blocks, Block

(* The bytes from a to a + m + k are those of two neighbours. *)
LEMMA Halves ==
    ASSUME NEW a \in Nat, NEW m \in Nat, NEW k \in Nat, NEW x \in Nat
    PROVE  (a <= x /\ x < a + (m + k)) <=>
           ((a <= x /\ x < a + m) \/ (a + m <= x /\ x < (a + m) + k))
  OBVIOUS

(* Numbers that are ordered and differ are strictly ordered. *)
LEMMA Less ==
    ASSUME NEW a \in Nat, NEW m \in Nat, NEW b \in Nat
    PROVE  (a + m <= b /\ a + m # b) <=> a + m < b
  OBVIOUS

(* A block with another one behind it ends before what follows that one. *)
LEMMA Between ==
    ASSUME NEW a \in Nat, NEW m \in Nat, NEW b \in Nat, NEW n \in Nat, NEW c \in Nat,
           a + m <= b, n > 0, b + n <= c
    PROVE  a + m <= c /\ a + m # c
  OBVIOUS

(* Of two blocks that do not overlap, the one that starts first ends first. *)
LEMMA EndsFirst ==
    ASSUME NEW a \in Nat, NEW m \in Nat, NEW b \in Nat, NEW n \in Nat,
           a + m <= b \/ b + n <= a, n > 0, a <= b
    PROVE  a + m <= b
  OBVIOUS

(* Two blocks are a block together. *)
LEMMA Together ==
    ASSUME NEW m \in Nat, NEW n \in Nat, m >= Header
    PROVE  m + n \in Nat /\ m + n >= Header
  BY HeaderAssumption

(* coalesce in a list where blocks touch at X: place i is settled, the     *)
(* bytes stay, and at most one place goes.                                 *)
LEMMA CoalesceKeeps ==
    ASSUME NEW s \in Seq(Blocks), NEW i \in 1..Len(s), NEW X \in SUBSET (1..i), Apart(s, X)
    PROVE  /\ coalesce(s, i) \in Seq(Blocks) /\ Apart(coalesce(s, i), X \ {i})
           /\ Len(coalesce(s, i)) \in Nat /\ Len(coalesce(s, i)) >= Len(s) - 1
           /\ \A x \in Nat : InList(x, coalesce(s, i)) <=> InList(x, s)
  <1>1. Len(s) \in Nat /\ i \in Nat /\ 1 <= i /\ i <= Len(s)
    OBVIOUS
  <1>2. CASE ~(i < Len(s) /\ s[i].at + s[i].size = s[i + 1].at)
    <2>1. coalesce(s, i) = s
      BY <1>2, Zenon DEF coalesce
    <2>2. Apart(s, X \ {i})
      <3> SUFFICES ASSUME NEW p \in 1..Len(s), NEW q \in 1..Len(s), p < q
                   PROVE  /\ s[p].at + s[p].size <= s[q].at
                          /\ s[p].at + s[p].size = s[q].at => p \in X \ {i} /\ q = p + 1
        BY Zenon DEF Apart
      <3>1. /\ s[p].at + s[p].size <= s[q].at
            /\ s[p].at + s[p].size = s[q].at => p \in X /\ q = p + 1
        BY Zenon DEF Apart
      <3>2. ASSUME s[p].at + s[p].size = s[q].at, p = i PROVE FALSE
        <4>1. q = i + 1 /\ i < Len(s)
          BY <1>1, <3>1, <3>2
        <4> QED
          BY <1>2, <3>2, <4>1, Zenon
      <3> QED
        BY <3>1, <3>2, Zenon
    <2> QED
      BY <1>1, <2>1, <2>2
  <1>3. CASE i < Len(s) /\ s[i].at + s[i].size = s[i + 1].at
    <2> DEFINE n == s[i].size + s[i + 1].size
               t == [s EXCEPT ![i].size = @ + s[i + 1].size]
               r == Unlinked(t, i + 1)
    <2>1. s[i] \in Blocks /\ s[i + 1] \in Blocks /\ i + 1 \in 1..Len(s)
      BY <1>1, <1>3
    <2>0. /\ s[i].at \in Nat /\ s[i].size \in Nat /\ s[i].size >= Header
          /\ s[i + 1].at \in Nat /\ s[i + 1].size \in Nat /\ s[i + 1].size >= Header
      BY <2>1, BlockFields, Zenon
    <2>2. n \in Nat /\ n >= Header
      BY <2>0, Together, Zenon
    <2>9. \A x \in Nat : (s[i].at <= x /\ x < s[i].at + n) <=> (In(x, s[i]) \/ In(x, s[i + 1]))
      <3> SUFFICES ASSUME NEW x \in Nat
                   PROVE  (s[i].at <= x /\ x < s[i].at + n) <=> (In(x, s[i]) \/ In(x, s[i + 1]))
        BY Zenon
      <3> DEFINE a == s[i].at
                 m == s[i].size
                 k == s[i + 1].size
      <3>1. a \in Nat /\ m \in Nat /\ k \in Nat
        BY <2>0, Zenon
      <3>2. In(x, s[i]) <=> a <= x /\ x < a + m
        BY Zenon DEF In
      <3>3. In(x, s[i + 1]) <=> a + m <= x /\ x < (a + m) + k
        BY <1>3, Zenon DEF In
      <3>4. n = m + k
        BY Zenon DEF n
      <3> HIDE DEF a, m, k
      <3>5. (a <= x /\ x < a + (m + k)) <=> (In(x, s[i]) \/ In(x, s[i + 1]))
        BY <3>1, <3>2, <3>3, Halves, Zenon
      <3> QED
        BY <3>4, <3>5, Zenon DEF a
    <2>3. /\ t \in Seq(Blocks) /\ Len(t) = Len(s) /\ t[i] = Block(s[i].at, n)
          /\ \A j \in 1..Len(s) : j # i => t[j] = s[j]
      <3> HIDE DEF n
      <3>0. Block(s[i].at, n) \in Blocks
        BY <2>0, <2>2, BlockIsBlock, Zenon
      <3>1. [s[i] EXCEPT !.size = n] = Block(s[i].at, n) /\ Block(s[i].at, n) \in Blocks
        BY <2>1, <3>0, BlockResized, Zenon
      <3>2. t = [s EXCEPT ![i] = Block(s[i].at, n)]
        BY <3>1, Zenon DEF n
      <3> HIDE DEF t
      <3> QED
        BY <3>1, <3>2
    <2> HIDE DEF n, t
    <2>4. /\ r \in Seq(Blocks) /\ Len(r) = Len(s) - 1
          /\ \A j \in 1..Len(s) - 1 : r[j] = IF j < i + 1 THEN t[j] ELSE t[j + 1]
      <3>1. i + 1 \in 1..Len(t)
        BY <2>1, <2>3
      <3>2. /\ r \in Seq(Blocks) /\ Len(r) = Len(t) - 1
            /\ \A j \in 1..Len(t) - 1 : r[j] = IF j < i + 1 THEN t[j] ELSE t[j + 1]
        BY <2>3, <3>1, UnlinkedPositions, Zenon
      <3> QED
        BY <2>3, <3>2, Zenon
    <2>5. coalesce(s, i) = r
      BY <1>3, Zenon DEF coalesce, r, t
    <2> HIDE DEF r
    <2>6. \A j \in 1..Len(s) - 1 :
              /\ j < i => r[j] = s[j]
              /\ j = i => r[j].at = s[i].at /\ r[j].size = n
              /\ j > i => r[j] = s[j + 1]
      BY <1>1, <2>2, <2>3, <2>4, BlockIsBlock DEF Block
    <2>7. Apart(r, X \ {i})
      <3> SUFFICES ASSUME NEW p \in 1..Len(s) - 1, NEW q \in 1..Len(s) - 1, p < q
                   PROVE  /\ r[p].at + r[p].size <= r[q].at
                          /\ r[p].at + r[p].size = r[q].at => p \in X \ {i} /\ q = p + 1
        BY <2>4, Zenon DEF Apart
      <3> DEFINE P == IF p < i THEN p ELSE p + 1
                 Q == IF q <= i THEN q ELSE q + 1
      <3>1. P \in 1..Len(s) /\ Q \in 1..Len(s) /\ P < Q
        BY <1>1
      <3>2. r[q].at = s[Q].at
        BY <1>1, <2>6
      <3>3. r[p].at + r[p].size = s[P].at + s[P].size
        <4>1. CASE p = i
          BY <1>1, <1>3, <2>0, <2>6, <4>1 DEF n
        <4>2. CASE p # i
          BY <1>1, <2>6, <4>2
        <4> QED
          BY <4>1, <4>2
      <3>4. /\ s[P].at + s[P].size <= s[Q].at
            /\ s[P].at + s[P].size = s[Q].at => P \in X /\ Q = P + 1
        BY <3>1, Zenon DEF Apart
      <3>5. ASSUME P \in X, Q = P + 1 PROVE p \in X \ {i} /\ q = p + 1
        BY <1>1, <3>5
      <3> QED
        BY <3>2, <3>3, <3>4, <3>5, Zenon
    <2>8. ASSUME NEW x \in Nat PROVE InList(x, r) <=> InList(x, s)
      <3>1. ASSUME NEW j \in 1..Len(r), In(x, r[j]) PROVE InList(x, s)
        <4>1. CASE j < i
          <5>1. j \in 1..Len(s) - 1 /\ j \in 1..Len(s)
            BY <1>1, <2>4
          <5>2. r[j] = s[j]
            BY <2>6, <4>1, <5>1, Zenon
          <5> QED
            BY <3>1, <5>1, <5>2, Zenon DEF InList
        <4>2. CASE j = i
          <5>1. In(x, s[i]) \/ In(x, s[i + 1])
            <6>1. r[j].at = s[i].at /\ r[j].size = n
              BY <1>1, <1>3, <2>4, <2>6, <4>2
            <6>2. s[i].at <= x /\ x < s[i].at + n
              BY <3>1, <6>1, Zenon DEF In
            <6> QED
              BY <2>9, <6>2, Zenon
          <5> QED
            BY <2>1, <5>1, Zenon DEF InList
        <4>3. CASE j > i
          <5>1. j \in 1..Len(s) - 1 /\ j + 1 \in 1..Len(s)
            BY <1>1, <2>4
          <5>2. r[j] = s[j + 1]
            BY <2>6, <4>3, <5>1, Zenon
          <5> QED
            BY <3>1, <5>1, <5>2, Zenon DEF InList
        <4> QED
          BY <1>1, <2>4, <4>1, <4>2, <4>3
      <3>2. ASSUME NEW j \in 1..Len(s), In(x, s[j]) PROVE InList(x, r)
        <4>1. CASE j < i
          <5>1. j \in 1..Len(s) - 1 /\ j \in 1..Len(r)
            BY <1>1, <1>3, <2>4, <4>1
          <5>2. r[j] = s[j]
            BY <2>6, <4>1, <5>1, Zenon
          <5> QED
            BY <3>2, <5>1, <5>2, Zenon DEF InList
        <4>2. CASE j = i \/ j = i + 1
          <5>1. i \in 1..Len(r) /\ r[i].at = s[i].at /\ r[i].size = n
            BY <1>1, <1>3, <2>4, <2>6
          <5>2. In(x, r[i])
            <6>1. In(x, s[i]) \/ In(x, s[i + 1])
              BY <3>2, <4>2, Zenon
            <6>2. s[i].at <= x /\ x < s[i].at + n
              BY <2>9, <6>1, Zenon
            <6> QED
              BY <5>1, <6>2, Zenon DEF In
          <5> QED
            BY <5>1, <5>2, Zenon DEF InList
        <4>3. CASE j > i + 1
          <5>1. j - 1 \in 1..Len(r) /\ j - 1 > i /\ j - 1 + 1 = j
            BY <1>1, <2>4, <4>3
          <5>2. r[j - 1] = s[j]
            BY <2>4, <2>6, <5>1, Zenon
          <5> QED
            BY <3>2, <5>1, <5>2, Zenon DEF InList
        <4> QED
          BY <1>1, <4>1, <4>2, <4>3
      <3> QED
        BY <3>1, <3>2, Zenon DEF InList
    <2> QED
      BY <1>1, <2>4, <2>5, <2>7, <2>8
  <1> QED
    BY <1>2, <1>3, Zenon

(* Blocks without a common byte lie one before the other. *)
LEMMA DisjointBlocks ==
    ASSUME NEW b \in Blocks, NEW d \in Blocks, \A x \in Nat : ~(In(x, b) /\ In(x, d))
    PROVE  b.at + b.size <= d.at \/ d.at + d.size <= b.at
  <1>1. /\ b.at \in Nat /\ b.size \in Nat /\ b.size > 0
        /\ d.at \in Nat /\ d.size \in Nat /\ d.size > 0
    BY BlockFields, Zenon
  <1>2. ~(In(b.at, b) /\ In(b.at, d)) /\ ~(In(d.at, b) /\ In(d.at, d))
    BY <1>1, Zenon
  <1> QED
    BY <1>1, <1>2 DEF In

(* A list without a byte in common with a block. *)
LEMMA DisjointList ==
    ASSUME NEW s \in Seq(Blocks), NEW e \in Blocks, \A x \in Nat : ~(In(x, e) /\ InList(x, s))
    PROVE  \A i \in 1..Len(s) :
               /\ s[i].at \in Nat /\ s[i].size \in Nat /\ s[i].size > 0
               /\ s[i].at + s[i].size <= e.at \/ e.at + e.size <= s[i].at
  <1> SUFFICES ASSUME NEW i \in 1..Len(s)
               PROVE  /\ s[i].at \in Nat /\ s[i].size \in Nat /\ s[i].size > 0
                      /\ s[i].at + s[i].size <= e.at \/ e.at + e.size <= s[i].at
    BY Zenon
  <1>1. s[i] \in Blocks
    OBVIOUS
  <1>2. \A x \in Nat : ~(In(x, s[i]) /\ In(x, e))
    BY Zenon DEF InList
  <1> QED
    BY <1>1, <1>2, BlockFields, DisjointBlocks, Zenon

(* Linking a block in front of the list. *)
LEMMA LinkFirst ==
    ASSUME NEW s \in Lists, NEW e \in Blocks, \A x \in Nat : ~(In(x, e) /\ InList(x, s)),
           s = <<>> \/ e.at < s[1].at
    PROVE  /\ Link(s, e) \in Lists
           /\ \A x \in Nat : InList(x, Link(s, e)) <=> InList(x, s) \/ In(x, e)
  <1> DEFINE t == <<e>> \o s
  <1>1. s \in Seq(Blocks) /\ Apart(s, {}) /\ Len(s) \in Nat
    BY DEF Lists
  <1>2. /\ t \in Seq(Blocks) /\ Len(t) = Len(s) + 1 /\ t[1] = e
        /\ \A j \in 1..Len(s) : t[j + 1] = s[j]
    BY <1>1
  <1>3. \A i \in 1..Len(s) : /\ s[i].at \in Nat /\ s[i].size \in Nat /\ s[i].size > 0
                             /\ s[i].at + s[i].size <= e.at \/ e.at + e.size <= s[i].at
    BY <1>1, DisjointList, Zenon
  <1>4. e.at \in Nat /\ e.size \in Nat /\ e.size > 0
    BY BlockFields, Zenon
  <1> HIDE DEF t
  <1>5. ASSUME NEW j \in 1..Len(s)
        PROVE  e.at + e.size <= s[j].at /\ (e.at + e.size = s[j].at => j = 1)
    <2>1. 1 \in 1..Len(s) /\ e.at < s[1].at
      <3>1. Len(s) >= 1 /\ s # <<>>
        BY <1>1, <1>5
      <3> QED
        BY <1>1, <3>1
    <2>2. e.at + e.size <= s[1].at /\ s[1].at \in Nat /\ s[1].size \in Nat /\ s[1].size > 0
      BY <1>3, <1>4, <2>1
    <2>3. CASE j = 1
      BY <2>2, <2>3
    <2>4. CASE j # 1
      <3>1. s[1].at + s[1].size <= s[j].at
        BY <1>1, <2>1, <2>4 DEF Apart
      <3>2. /\ e.at \in Nat /\ e.size \in Nat /\ s[1].at \in Nat /\ s[1].size \in Nat
            /\ s[j].at \in Nat /\ e.at + e.size <= s[1].at /\ s[1].size > 0
        BY <1>3, <1>4, <2>2, Zenon
      <3> DEFINE f == s[1].at
                 h == s[1].size
                 c == s[j].at
      <3>3. /\ e.at \in Nat /\ e.size \in Nat /\ f \in Nat /\ h \in Nat /\ c \in Nat
            /\ e.at + e.size <= f /\ h > 0 /\ f + h <= c
        BY <3>1, <3>2, Zenon
      <3> HIDE DEF f, h, c
      <3>4. e.at + e.size <= c /\ e.at + e.size # c
        BY <3>3, Between, Zenon
      <3> QED
        BY <3>4, Zenon DEF c
    <2> QED
      BY <2>3, <2>4, Zenon
  <1>6. Apart(t, {1})
    <2> SUFFICES ASSUME NEW p \in 1..Len(s) + 1, NEW q \in 1..Len(s) + 1, p < q
                 PROVE  /\ t[p].at + t[p].size <= t[q].at
                        /\ t[p].at + t[p].size = t[q].at => p \in {1} /\ q = p + 1
      BY <1>2, Zenon DEF Apart
    <2>1. q - 1 \in 1..Len(s) /\ q - 1 + 1 = q
      BY <1>1
    <2>2. t[q] = s[q - 1]
      BY <1>2, <2>1, Zenon
    <2>3. CASE p = 1
      <3>1. /\ e.at + e.size <= s[q - 1].at
            /\ e.at + e.size = s[q - 1].at => q - 1 = 1
        BY <1>5, <2>1, Zenon
      <3>2. q - 1 = 1 => q = 1 + 1
        BY <1>1
      <3> QED
        BY <1>2, <2>2, <2>3, <3>1, <3>2, Zenon
    <2>4. CASE p # 1
      <3>1. p - 1 \in 1..Len(s) /\ p - 1 + 1 = p /\ p - 1 < q - 1
        BY <1>1, <2>4
      <3>2. t[p] = s[p - 1]
        BY <1>2, <3>1, Zenon
      <3>3. s[p - 1].at + s[p - 1].size <= s[q - 1].at /\ s[p - 1].at + s[p - 1].size # s[q - 1].at
        BY <1>1, <2>1, <3>1, Zenon DEF Apart
      <3> QED
        BY <2>2, <3>2, <3>3, Zenon
    <2> QED
      BY <2>3, <2>4, Zenon
  <1>7. ASSUME NEW x \in Nat PROVE InList(x, t) <=> InList(x, s) \/ In(x, e)
    <2>1. ASSUME NEW j \in 1..Len(t), In(x, t[j]) PROVE InList(x, s) \/ In(x, e)
      <3>1. CASE j = 1
        BY <1>2, <2>1, <3>1, Zenon
      <3>2. CASE j # 1
        <4>1. j - 1 \in 1..Len(s) /\ j - 1 + 1 = j
          BY <1>1, <1>2, <3>2
        <4>2. t[j] = s[j - 1]
          BY <1>2, <4>1, Zenon
        <4> QED
          BY <2>1, <4>1, <4>2, Zenon DEF InList
      <3> QED
        BY <3>1, <3>2, Zenon
    <2>2. ASSUME NEW j \in 1..Len(s), In(x, s[j]) PROVE InList(x, t)
      <3>1. j + 1 \in 1..Len(t) /\ t[j + 1] = s[j]
        BY <1>1, <1>2
      <3> QED
        BY <2>2, <3>1, Zenon DEF InList
    <2>3. ASSUME In(x, e) PROVE InList(x, t)
      <3>1. 1 \in 1..Len(t) /\ t[1] = e
        BY <1>1, <1>2
      <3> QED
        BY <2>3, <3>1, Zenon DEF InList
    <2> QED
      BY <2>1, <2>2, <2>3, Zenon DEF InList
  <1>8. Link(s, e) = coalesce(t, 1)
    BY Zenon DEF Link, t
  <1>9. 1 \in 1..Len(t) /\ {1} \in SUBSET (1..1) /\ {1} \ {1} = {}
    BY <1>1, <1>2
  <1>10. /\ coalesce(t, 1) \in Seq(Blocks) /\ Apart(coalesce(t, 1), {1} \ {1})
         /\ \A x \in Nat : InList(x, coalesce(t, 1)) <=> InList(x, t)
    BY <1>2, <1>6, <1>9, CoalesceKeeps, Zenon
  <1> QED
    BY <1>7, <1>8, <1>9, <1>10, Zenon DEF Lists

(* The loop of Link ends behind a block that begins below the entry, in    *)
(* front of one that begins above it.                                      *)
LEMMA PredecessorFound ==
    ASSUME NEW s \in Lists, NEW e \in Blocks, \A x \in Nat : ~(In(x, e) /\ InList(x, s)),
           ~(s = <<>> \/ e.at < s[1].at)
    PROVE  LET k == Predecessor(s, e)
           IN  k \in 1..Len(s) /\ s[k].at < e.at /\ (k = Len(s) \/ s[k + 1].at > e.at)
  <1> DEFINE Stop(k) == k = Len(s) \/ s[k + 1].at > e.at
             T == {k \in 1..Len(s) : Stop(k)}
  <1>1. s \in Seq(Blocks) /\ Len(s) \in Nat
    BY DEF Lists
  <1>2. Len(s) >= 1
    BY <1>1
  <1>3. e.at \in Nat /\ e.size \in Nat /\ e.size > 0
    BY BlockFields, Zenon
  <1>4. \A i \in 1..Len(s) : /\ s[i].at \in Nat /\ s[i].size \in Nat /\ s[i].size > 0
                             /\ s[i].at + s[i].size <= e.at \/ e.at + e.size <= s[i].at
    BY <1>1, DisjointList, Zenon
  <1>5. \A i \in 1..Len(s) : s[i].at \in Nat /\ s[i].at # e.at
    BY <1>3, <1>4
  <1>6. T # {} /\ T \subseteq Nat
    BY <1>1, <1>2
  <1>7. PICK m \in T : \A y \in T : m <= y
    BY <1>6, LeastElement, Zenon
  <1>8. m \in 1..Len(s) /\ Stop(m)
    BY <1>7, Zenon
  <1>9. ASSUME NEW j \in 1..m - 1 PROVE s[j + 1].at < e.at
    <2>1. j \in 1..Len(s) /\ j + 1 \in 1..Len(s) /\ ~(m <= j)
      BY <1>1, <1>8
    <2>2. ~Stop(j)
      BY <1>7, <2>1, Zenon
    <2>3. ~(s[j + 1].at > e.at)
      BY <2>2, Zenon
    <2> QED
      BY <1>3, <1>5, <2>1, <2>3
  <1> DEFINE k == Predecessor(s, e)
  <1>10. /\ k \in 1..Len(s) /\ Stop(k)
         /\ \A j \in 1..k - 1 : s[j + 1].at < e.at
    BY <1>8, <1>9, Zenon DEF Predecessor
  <1> HIDE DEF k
  <1>11. s[k].at < e.at
    <2>1. CASE k = 1
      BY <1>1, <1>2, <1>3, <1>5, <2>1
    <2>2. CASE k # 1
      <3>1. k - 1 \in 1..k - 1 /\ k - 1 + 1 = k
        BY <1>1, <1>10, <2>2
      <3> QED
        BY <1>10, <3>1, Zenon
    <2> QED
      BY <2>1, <2>2, Zenon
  <1> QED
    BY <1>10, <1>11, Zenon DEF k

(* Linking a block behind its predecessor: it may be merged with both      *)
(* neighbours.                                                             *)
LEMMA LinkBehind ==
    ASSUME NEW s \in Lists, NEW e \in Blocks, \A x \in Nat : ~(In(x, e) /\ InList(x, s)),
           ~(s = <<>> \/ e.at < s[1].at)
    PROVE  /\ Link(s, e) \in Lists
           /\ \A x \in Nat : InList(x, Link(s, e)) <=> InList(x, s) \/ In(x, e)
  <1> DEFINE k == Predecessor(s, e)
             m == k + 1
             t == Linked(s, m, e)
             u == coalesce(t, m)
  <1>1. s \in Seq(Blocks) /\ Apart(s, {}) /\ Len(s) \in Nat
    BY DEF Lists
  <1>2. k \in 1..Len(s) /\ s[k].at < e.at /\ (k = Len(s) \/ s[k + 1].at > e.at)
    BY PredecessorFound, Zenon
  <1>3. Link(s, e) = coalesce(u, k)
    BY Zenon DEF Link
  <1> HIDE DEF k
  <1>4. k + 1 \in 1..Len(s) + 1 /\ k \in Nat
    BY <1>1, <1>2
  <1>0. m \in 1..Len(s) + 1
    BY <1>4
  <1> HIDE DEF m
  <1>5. /\ t \in Seq(Blocks) /\ Len(t) = Len(s) + 1
        /\ \A j \in 1..Len(s) + 1 :
               /\ j < m => t[j] = s[j]
               /\ j = m => t[j] = e
               /\ m < j => t[j] = s[j - 1]
    BY <1>0, <1>1, LinkedPositions, SMTT(30)
  <1> HIDE DEF t
  <1> USE DEF m
  <1>6. \A i \in 1..Len(s) : /\ s[i].at \in Nat /\ s[i].size \in Nat /\ s[i].size > 0
                             /\ s[i].at + s[i].size <= e.at \/ e.at + e.size <= s[i].at
    BY <1>1, DisjointList, Zenon
  <1>7. e.at \in Nat /\ e.size \in Nat /\ e.size > 0
    BY BlockFields, Zenon
  <1>8. \A i, j \in 1..Len(s) : i < j => s[i].at + s[i].size < s[j].at
    <2> SUFFICES ASSUME NEW i \in 1..Len(s), NEW j \in 1..Len(s), i < j
                 PROVE  s[i].at + s[i].size < s[j].at
      BY Zenon
    <2>1. s[i].at + s[i].size <= s[j].at /\ s[i].at + s[i].size # s[j].at
      BY <1>1, Zenon DEF Apart
    <2>2. s[i].at \in Nat /\ s[i].size \in Nat /\ s[j].at \in Nat
      BY <1>6, Zenon
    <2> QED
      BY <2>1, <2>2, Less, Zenon
  <1>9. ASSUME NEW i \in 1..Len(s), i <= k
        PROVE  s[i].at + s[i].size <= e.at /\ (s[i].at + s[i].size = e.at => i = k)
    <2>0. k \in 1..Len(s) /\ s[k].at <= e.at
      BY <1>2, <1>6, <1>7
    <2>1. s[k].at + s[k].size <= e.at
      BY <1>6, <1>7, <2>0, EndsFirst, Zenon
    <2>2. CASE i = k
      BY <2>1, <2>2, Zenon
    <2>3. CASE i # k
      <3>1. s[i].at + s[i].size < s[k].at
        BY <1>2, <1>8, <1>9, <2>3
      <3>2. s[i].at + s[i].size <= s[k].at
        BY <1>6, <2>0, <3>1, Less, Zenon
      <3>3. /\ s[i].at \in Nat /\ s[i].size \in Nat /\ s[k].at \in Nat /\ s[k].size \in Nat
            /\ e.at \in Nat /\ s[k].size > 0
        BY <1>6, <1>7, <2>0, Zenon
      <3>4. s[i].at + s[i].size <= e.at /\ s[i].at + s[i].size # e.at
        BY <2>1, <3>2, <3>3, Between, Zenon
      <3> QED
        BY <3>4, Zenon
    <2> QED
      BY <2>2, <2>3, Zenon
  <1>10. ASSUME NEW i \in 1..Len(s), i > k
         PROVE  e.at + e.size <= s[i].at /\ (e.at + e.size = s[i].at => i = k + 1)
    <2>1. k + 1 \in 1..Len(s) /\ s[k + 1].at > e.at
      BY <1>1, <1>2, <1>10
    <2>2. e.at + e.size <= s[k + 1].at /\ s[k + 1].at \in Nat /\ s[k + 1].size \in Nat
      <3>1. /\ s[k + 1].at \in Nat /\ s[k + 1].size \in Nat /\ s[k + 1].size > 0
            /\ s[k + 1].at + s[k + 1].size <= e.at \/ e.at + e.size <= s[k + 1].at
        BY <1>6, <2>1, Zenon
      <3> QED
        BY <1>7, <2>1, <3>1
    <2>3. CASE i = k + 1
      BY <2>2, <2>3, Zenon
    <2>4. CASE i # k + 1
      <3>1. s[k + 1].at + s[k + 1].size < s[i].at
        BY <1>2, <1>8, <1>10, <2>1, <2>4
      <3>2. s[i].at \in Nat
        BY <1>6, Zenon
      <3> DEFINE a == e.at
                 n == e.size
                 b == s[k + 1].at
                 h == s[k + 1].size
                 c == s[i].at
      <3>3. a \in Nat /\ n \in Nat /\ b \in Nat /\ h \in Nat /\ c \in Nat /\ a + n <= b /\ b + h < c
        BY <1>7, <2>2, <3>1, <3>2, Zenon
      <3> HIDE DEF a, n, b, h, c
      <3>4. a + n <= c /\ a + n # c
        BY <3>3
      <3> QED
        BY <3>4, Zenon DEF a, n, c
    <2> QED
      BY <2>3, <2>4, Zenon
  <1>11. Apart(t, {k, k + 1})
    <2> SUFFICES ASSUME NEW p \in 1..Len(s) + 1, NEW q \in 1..Len(s) + 1, p < q
                 PROVE  /\ t[p].at + t[p].size <= t[q].at
                        /\ t[p].at + t[p].size = t[q].at => p \in {k, k + 1} /\ q = p + 1
      BY <1>5, Zenon DEF Apart
    <2>1. CASE p = k + 1
      <3>1. q - 1 \in 1..Len(s) /\ q - 1 > k /\ k + 1 < q
        BY <1>1, <1>4, <2>1
      <3>2. t[p] = e /\ t[q] = s[q - 1]
        BY <1>5, <2>1, <3>1, Zenon
      <3>3. q - 1 = k + 1 => q = p + 1
        BY <1>4, <2>1
      <3> QED
        BY <1>10, <2>1, <3>1, <3>2, <3>3, Zenon
    <2>2. CASE q = k + 1
      <3>1. p \in 1..Len(s) /\ p <= k /\ p < k + 1
        BY <1>1, <1>2, <1>4, <2>2
      <3>2. t[p] = s[p] /\ t[q] = e
        BY <1>5, <2>2, <3>1, Zenon
      <3> QED
        BY <1>9, <2>2, <3>1, <3>2, Zenon
    <2>3. CASE p # k + 1 /\ q # k + 1
      <3> DEFINE P == IF p < k + 1 THEN p ELSE p - 1
                 Q == IF q < k + 1 THEN q ELSE q - 1
      <3>1. P \in 1..Len(s) /\ Q \in 1..Len(s) /\ P < Q
        BY <1>1, <1>2, <1>4, <2>3
      <3>2. t[p] = s[P] /\ t[q] = s[Q]
        <4>1. (p < k + 1 \/ k + 1 < p) /\ (q < k + 1 \/ k + 1 < q)
          BY <1>4, <2>3
        <4>2. (k + 1 < p => ~(p < k + 1)) /\ (k + 1 < q => ~(q < k + 1))
          BY <1>4
        <4> QED
          BY <1>5, <4>1, <4>2, Zenon
      <3> HIDE DEF P, Q
      <3>3. s[P].at + s[P].size < s[Q].at /\ s[P].at \in Nat /\ s[P].size \in Nat /\ s[Q].at \in Nat
        BY <1>6, <1>8, <3>1, Zenon
      <3>4. s[P].at + s[P].size <= s[Q].at /\ s[P].at + s[P].size # s[Q].at
        BY <3>3
      <3> QED
        BY <3>2, <3>4, Zenon
    <2> QED
      BY <2>1, <2>2, <2>3, Zenon
  <1>12. ASSUME NEW x \in Nat PROVE InList(x, t) <=> InList(x, s) \/ In(x, e)
    <2>1. ASSUME NEW j \in 1..Len(t), In(x, t[j]) PROVE InList(x, s) \/ In(x, e)
      <3>1. CASE j < k + 1
        <4>1. j \in 1..Len(s) /\ t[j] = s[j]
          BY <1>1, <1>2, <1>5, <3>1
        <4> QED
          BY <2>1, <4>1, Zenon DEF InList
      <3>2. CASE j = k + 1
        <4>1. t[j] = e
          BY <1>4, <1>5, <3>2
        <4> QED
          BY <2>1, <4>1, Zenon
      <3>3. CASE k + 1 < j
        <4>1. j - 1 \in 1..Len(s)
          BY <1>1, <1>4, <1>5, <3>3
        <4>2. t[j] = s[j - 1]
          BY <1>5, <3>3, <4>1, Zenon
        <4> QED
          BY <2>1, <4>1, <4>2, Zenon DEF InList
      <3> QED
        BY <1>4, <3>1, <3>2, <3>3
    <2>2. ASSUME NEW j \in 1..Len(s), In(x, s[j]) PROVE InList(x, t)
      <3>1. CASE j < k + 1
        <4>1. j \in 1..Len(s) + 1
          BY <1>1
        <4>2. t[j] = s[j]
          BY <1>5, <3>1, <4>1, Zenon
        <4> QED
          BY <1>5, <2>2, <4>1, <4>2, Zenon DEF InList
      <3>2. CASE ~(j < k + 1)
        <4>1. j + 1 \in 1..Len(s) + 1 /\ k + 1 < j + 1 /\ j + 1 - 1 = j
          BY <1>1, <1>4, <3>2
        <4>2. t[j + 1] = s[j + 1 - 1]
          BY <1>5, <4>1, SMT
        <4>3. t[j + 1] = s[j]
          BY <4>1, <4>2, Zenon
        <4> QED
          BY <1>5, <2>2, <4>1, <4>3, Zenon DEF InList
      <3> QED
        BY <3>1, <3>2, Zenon
    <2>3. ASSUME In(x, e) PROVE InList(x, t)
      <3>1. t[k + 1] = e
        BY <1>4, <1>5
      <3> QED
        BY <1>4, <1>5, <2>3, <3>1, Zenon DEF InList
    <2> QED
      BY <2>1, <2>2, <2>3, Zenon DEF InList
  <1>13. /\ k + 1 \in 1..Len(t) /\ {k, k + 1} \in SUBSET (1..k + 1)
         /\ {k, k + 1} \ {k + 1} = {k} /\ {k} \in SUBSET (1..k) /\ {k} \ {k} = {}
    BY <1>2, <1>4, <1>5
  <1>14. /\ u \in Seq(Blocks) /\ Apart(u, {k, k + 1} \ {k + 1})
         /\ Len(u) \in Nat /\ Len(u) >= Len(t) - 1
         /\ \A x \in Nat : InList(x, u) <=> InList(x, t)
    BY <1>5, <1>11, <1>13, CoalesceKeeps, Zenon
  <1> HIDE DEF u
  <1>15. k \in 1..Len(u) /\ Apart(u, {k})
    <2>1. Len(u) \in Nat /\ Len(u) >= Len(t) - 1
      BY <1>14, Zenon
    <2>2. k \in 1..Len(u)
      BY <1>1, <1>2, <1>4, <1>5, <2>1
    <2> QED
      BY <1>13, <1>14, <2>2, Zenon
  <1>16. /\ coalesce(u, k) \in Seq(Blocks) /\ Apart(coalesce(u, k), {k} \ {k})
         /\ \A x \in Nat : InList(x, coalesce(u, k)) <=> InList(x, u)
    BY <1>13, <1>14, <1>15, CoalesceKeeps, Zenon
  <1>17. coalesce(u, k) \in Lists
    BY <1>13, <1>16, Zenon DEF Lists
  <1>18. \A x \in Nat : InList(x, coalesce(u, k)) <=> InList(x, s) \/ In(x, e)
    BY <1>12, <1>14, <1>16, Zenon
  <1> QED
    BY <1>3, <1>17, <1>18, Zenon

(* Link keeps the list sorted and merged, and adds exactly the bytes of    *)
(* the block.                                                              *)
LEMMA LinkKeeps ==
    ASSUME NEW s \in Lists, NEW e \in Blocks, \A x \in Nat : ~(In(x, e) /\ InList(x, s))
    PROVE  /\ Link(s, e) \in Lists
           /\ \A x \in Nat : InList(x, Link(s, e)) <=> InList(x, s) \/ In(x, e)
  BY LinkFirst, LinkBehind, Zenon

(* The blocks of a list in numbers: they do not touch, so no byte is in    *)
(* two of them.                                                            *)
LEMMA ListOrder ==
    ASSUME NEW s \in Lists
    PROVE  /\ s \in Seq(Blocks) /\ Len(s) \in Nat
           /\ \A i \in 1..Len(s) : /\ s[i] \in Blocks /\ s[i].at \in Nat /\ s[i].size \in Nat
                                   /\ s[i].size >= Header /\ s[i].size > 0
           /\ \A i, j \in 1..Len(s) : i < j => s[i].at + s[i].size < s[j].at
           /\ \A x \in Nat : \A i, j \in 1..Len(s) : In(x, s[i]) /\ In(x, s[j]) => i = j
  <1>1. s \in Seq(Blocks) /\ Len(s) \in Nat /\ Apart(s, {})
    BY DEF Lists
  <1>2. ASSUME NEW i \in 1..Len(s)
        PROVE  s[i] \in Blocks /\ s[i].at \in Nat /\ s[i].size \in Nat /\ s[i].size >= Header /\ s[i].size > 0
    <2>1. s[i] \in Blocks
      BY <1>1
    <2> QED
      BY <2>1, BlockFields, Zenon
  <1>3. ASSUME NEW i \in 1..Len(s), NEW j \in 1..Len(s), i < j
        PROVE  s[i].at + s[i].size < s[j].at
    <2>1. s[i].at + s[i].size <= s[j].at /\ s[i].at + s[i].size # s[j].at
      BY <1>1, <1>3, Zenon DEF Apart
    <2> QED
      BY <1>2, <2>1, Less, Zenon
  <1>4. ASSUME NEW x \in Nat, NEW i \in 1..Len(s), NEW j \in 1..Len(s), In(x, s[i]), In(x, s[j]), i < j
        PROVE  FALSE
    <2> DEFINE e == s[i].at + s[i].size
               a == s[j].at
    <2>1. e < a
      BY <1>3, <1>4, Zenon
    <2>2. x < e /\ a <= x
      BY <1>4, Zenon DEF In
    <2>3. a \in Nat /\ e \in Nat
      BY <1>2
    <2> HIDE DEF a, e
    <2> QED
      BY <2>1, <2>2, <2>3
  <1>5. ASSUME NEW x \in Nat, NEW i \in 1..Len(s), NEW j \in 1..Len(s), In(x, s[i]), In(x, s[j])
        PROVE  i = j
    <2>1. i < j \/ j < i \/ i = j
      BY <1>1
    <2> QED
      BY <1>4, <1>5, <2>1, Zenon
  <1> QED
    BY <1>1, <1>2, <1>3, <1>5, Zenon

(* A sequence of blocks in order that do not touch is a list. *)
LEMMA OrderIsList ==
    ASSUME NEW s \in Seq(Blocks),
           \A i, j \in 1..Len(s) : i < j => s[i].at + s[i].size < s[j].at
    PROVE  s \in Lists
  <1> SUFFICES ASSUME NEW i \in 1..Len(s), NEW j \in 1..Len(s), i < j
               PROVE  s[i].at + s[i].size <= s[j].at /\ s[i].at + s[i].size # s[j].at
    BY Zenon DEF Lists, Apart
  <1>1. s[i] \in Blocks /\ s[j] \in Blocks
    OBVIOUS
  <1>2. s[i].at \in Nat /\ s[i].size \in Nat /\ s[j].at \in Nat
    BY <1>1, BlockFields, Zenon
  <1> QED
    BY <1>2, Less, Zenon

(* Splitting block i: its first bytes go, the rest stays in its place. *)
LEMMA TakeSplits ==
    ASSUME NEW s \in Lists, NEW i \in 1..Len(s), NEW n \in Nat, n >= Header,
           s[i].size >= n + Header
    PROVE  LET r == [s EXCEPT ![i] = Block(s[i].at + n, s[i].size - n)]
           IN  /\ r \in Lists /\ Block(s[i].at, n) \in Blocks
               /\ \A x \in Nat : /\ InList(x, s) <=> InList(x, r) \/ In(x, Block(s[i].at, n))
                                 /\ ~(InList(x, r) /\ In(x, Block(s[i].at, n)))
  <1> DEFINE r == [s EXCEPT ![i] = Block(s[i].at + n, s[i].size - n)]
  <1> DEFINE a == s[i].at
             m == s[i].size
             d == Block(a, n)
             e == Block(a + n, m - n)
  <1>1. /\ s \in Seq(Blocks) /\ Len(s) \in Nat
        /\ \A j \in 1..Len(s) : s[j] \in Blocks /\ s[j].at \in Nat /\ s[j].size \in Nat
        /\ \A p, q \in 1..Len(s) : p < q => s[p].at + s[p].size < s[q].at
        /\ \A x \in Nat : \A p, q \in 1..Len(s) : In(x, s[p]) /\ In(x, s[q]) => p = q
    BY ListOrder, Zenon
  <1>2. a \in Nat /\ m \in Nat /\ m >= n + Header /\ Header \in Nat
    BY <1>1, HeaderAssumption
  <1> HIDE DEF a, m
  <1>3. a + n \in Nat /\ m - n \in Nat /\ m - n >= Header
    BY <1>2
  <1>4. /\ d \in Blocks /\ d.at = a /\ d.size = n
        /\ e \in Blocks /\ e.at = a + n /\ e.size = m - n
    BY <1>2, <1>3, BlockIsBlock, Zenon
  <1> HIDE DEF d, e
  <1>5. /\ r \in Seq(Blocks) /\ Len(r) = Len(s) /\ r[i] = e
        /\ \A j \in 1..Len(s) : j # i => r[j] = s[j]
    <2>1. r = [s EXCEPT ![i] = e]
      BY Zenon DEF e, a, m
    <2> HIDE DEF r
    <2> QED
      BY <1>1, <1>4, <2>1
  <1> HIDE DEF r
  <1>6. \A x \in Nat : /\ In(x, s[i]) <=> In(x, d) \/ In(x, e)
                       /\ ~(In(x, d) /\ In(x, e))
    <2> SUFFICES ASSUME NEW x \in Nat
                 PROVE  /\ In(x, s[i]) <=> In(x, d) \/ In(x, e)
                        /\ ~(In(x, d) /\ In(x, e))
      BY Zenon
    <2>1. /\ In(x, s[i]) <=> a <= x /\ x < a + m
          /\ In(x, d) <=> a <= x /\ x < a + n
          /\ In(x, e) <=> a + n <= x /\ x < (a + n) + (m - n)
      BY <1>4, Zenon DEF In, a, m
    <2> QED
      BY <1>2, <1>3, <2>1
  <1>7. \A x \in Nat : \A j \in 1..Len(s) : j # i => ~(In(x, s[j]) /\ In(x, d))
    BY <1>1, <1>6, Zenon
  <1>8. \A p, q \in 1..Len(s) : p < q => r[p].at + r[p].size < r[q].at
    <2> SUFFICES ASSUME NEW p \in 1..Len(s), NEW q \in 1..Len(s), p < q
                 PROVE  r[p].at + r[p].size < r[q].at
      BY Zenon
    <2>1. s[p].at + s[p].size < s[q].at
      BY <1>1, Zenon
    <2>2. CASE p = i
      <3>1. r[p].at + r[p].size = a + n + (m - n) /\ a + n + (m - n) = a + m
        BY <1>2, <1>3, <1>4, <1>5, <2>2
      <3>2. q # i
        BY <1>1, <2>2
      <3> QED
        BY <1>5, <2>1, <2>2, <3>1, <3>2, Zenon DEF a, m
    <2>3. CASE q = i
      <3>1. p # i
        BY <1>1, <2>3
      <3>2. r[p] = s[p] /\ r[q].at = a + n
        BY <1>4, <1>5, <2>3, <3>1, Zenon
      <3>3. s[p].at + s[p].size < a /\ s[p].at \in Nat /\ s[p].size \in Nat
        BY <1>1, <2>1, <2>3, Zenon DEF a
      <3> DEFINE h == s[p].at + s[p].size
      <3>4. h \in Nat /\ h < a
        BY <3>3, SMTT(30)
      <3> HIDE DEF h
      <3>5. h < a + n
        BY <1>2, <3>4
      <3> QED
        BY <3>2, <3>5, Zenon DEF h
    <2>4. CASE p # i /\ q # i
      BY <1>5, <2>1, <2>4, Zenon
    <2> QED
      BY <2>2, <2>3, <2>4, Zenon
  <1>9. r \in Lists
    BY <1>5, <1>8, OrderIsList, Zenon
  <1>10. ASSUME NEW x \in Nat
         PROVE  /\ InList(x, s) <=> InList(x, r) \/ In(x, d)
                /\ ~(InList(x, r) /\ In(x, d))
    <2>1. ASSUME NEW j \in 1..Len(s), In(x, s[j]) PROVE InList(x, r) \/ In(x, d)
      BY <1>5, <1>6, <2>1, Zenon DEF InList
    <2>2. ASSUME NEW j \in 1..Len(s), In(x, r[j]) PROVE InList(x, s) /\ ~In(x, d)
      BY <1>5, <1>6, <1>7, <2>2, Zenon DEF InList
    <2>3. In(x, d) => InList(x, s)
      BY <1>6, Zenon DEF InList
    <2> QED
      BY <1>5, <2>1, <2>2, <2>3, Zenon DEF InList
  <1> QED
    BY <1>4, <1>9, <1>10, Zenon DEF d, a, r

(* Consuming block i whole. *)
LEMMA TakeConsumes ==
    ASSUME NEW s \in Lists, NEW i \in 1..Len(s)
    PROVE  /\ Unlinked(s, i) \in Lists
           /\ \A x \in Nat : /\ InList(x, s) <=> InList(x, Unlinked(s, i)) \/ In(x, s[i])
                             /\ ~(InList(x, Unlinked(s, i)) /\ In(x, s[i]))
  <1> DEFINE r == Unlinked(s, i)
  <1>1. /\ s \in Seq(Blocks) /\ Len(s) \in Nat
        /\ \A p, q \in 1..Len(s) : p < q => s[p].at + s[p].size < s[q].at
        /\ \A x \in Nat : \A p, q \in 1..Len(s) : In(x, s[p]) /\ In(x, s[q]) => p = q
    BY ListOrder, Zenon
  <1>2. /\ r \in Seq(Blocks) /\ Len(r) = Len(s) - 1
        /\ \A j \in 1..Len(s) - 1 : r[j] = IF j < i THEN s[j] ELSE s[j + 1]
    BY <1>1, UnlinkedPositions, SMTT(30)
  <1> HIDE DEF r
  <1> DEFINE Old(j) == IF j < i THEN j ELSE j + 1
  <1>3. \A j \in 1..Len(r) : Old(j) \in 1..Len(s) /\ Old(j) # i
    BY <1>1, <1>2
  <1>4. \A j \in 1..Len(r) : r[j] = s[Old(j)]
    BY <1>2, Zenon
  <1>5. \A p, q \in 1..Len(r) : p < q => Old(p) < Old(q)
    BY <1>1, <1>2
  <1>6. \A k \in 1..Len(s) : k # i => \E j \in 1..Len(r) : Old(j) = k
    <2> SUFFICES ASSUME NEW k \in 1..Len(s), k # i PROVE \E j \in 1..Len(r) : Old(j) = k
      BY Zenon
    <2>1. CASE k < i
      BY <1>1, <1>2, <2>1
    <2>2. CASE k > i
      <3>1. k - 1 \in 1..Len(r) /\ Old(k - 1) = k
        BY <1>1, <1>2, <2>2
      <3> QED
        BY <3>1, Zenon
    <2> QED
      BY <1>1, <2>1, <2>2
  <1> HIDE DEF Old
  <1>7. \A p, q \in 1..Len(r) : p < q => r[p].at + r[p].size < r[q].at
    BY <1>1, <1>3, <1>4, <1>5, Zenon
  <1>8. r \in Lists
    BY <1>2, <1>7, OrderIsList, Zenon
  <1>9. ASSUME NEW x \in Nat
        PROVE  (InList(x, s) <=> InList(x, r) \/ In(x, s[i])) /\ ~(InList(x, r) /\ In(x, s[i]))
    <2>1. ASSUME NEW k \in 1..Len(s), In(x, s[k]), k # i PROVE InList(x, r)
      BY <1>4, <1>6, <2>1, Zenon DEF InList
    <2>2. ASSUME NEW j \in 1..Len(r), In(x, r[j]) PROVE InList(x, s) /\ ~In(x, s[i])
      BY <1>1, <1>3, <1>4, <2>2, Zenon DEF InList
    <2> QED
      BY <2>1, <2>2, Zenon DEF InList
  <1> QED
    BY <1>8, <1>9, Zenon DEF r

(* Take moves bytes from the list to the block, whichever way it goes, and *)
(* the block holds the request and its header.                             *)
LEMMA TakeKeeps ==
    ASSUME NEW s \in Lists, NEW i \in 1..Len(s), NEW size \in Nat, s[i].size >= size + Header
    PROVE  LET t == Take(s, i, size)
           IN  /\ t.list \in Lists /\ t.block \in Blocks /\ t.block.size >= size + Header
               /\ \A x \in Nat : /\ InList(x, s) <=> InList(x, t.list) \/ In(x, t.block)
                                 /\ ~(InList(x, t.list) /\ In(x, t.block))
  <1> DEFINE b == s[i]
             n == size + Header
             t == Take(s, i, size)
             r == [s EXCEPT ![i] = Block(b.at + n, b.size - n)]
  <1>1. Header \in Nat /\ n \in Nat /\ n >= Header
    BY HeaderAssumption
  <1>2. b \in Blocks /\ b.at \in Nat /\ b.size \in Nat
    BY ListOrder, Zenon
  <1>3. CASE b.size - n >= Header
    <2>1. t = [list |-> r, block |-> Block(b.at, n)]
      BY <1>3, Zenon DEF Take
    <2> HIDE DEF t, r
    <2>2. t.list = r /\ t.block = Block(b.at, n)
      BY <2>1
    <2>3. b.size >= n + Header
      BY <1>1, <1>2, <1>3
    <2>4. n >= size + Header
      BY <1>1
    <2> HIDE DEF n, t
    <2>5. /\ r \in Lists /\ Block(b.at, n) \in Blocks
          /\ \A x \in Nat : /\ InList(x, s) <=> InList(x, r) \/ In(x, Block(b.at, n))
                            /\ ~(InList(x, r) /\ In(x, Block(b.at, n)))
      BY <1>1, <2>3, TakeSplits, Zenon DEF r
    <2>6. Block(b.at, n).size = n
      BY <1>1, <1>2, BlockIsBlock, Zenon
    <2> HIDE DEF r, b
    <2>7. /\ t.list \in Lists /\ t.block \in Blocks /\ t.block.size >= size + Header
          /\ \A x \in Nat : /\ InList(x, s) <=> InList(x, t.list) \/ In(x, t.block)
                            /\ ~(InList(x, t.list) /\ In(x, t.block))
      BY <2>2, <2>4, <2>5, <2>6, Zenon
    <2> QED
      BY <2>7, Zenon DEF t
  <1>4. CASE ~(b.size - n >= Header)
    <2>1. t = [list |-> Unlinked(s, i), block |-> b]
      BY <1>4, Zenon DEF Take
    <2> HIDE DEF t
    <2>2. t.list = Unlinked(s, i) /\ t.block = b
      BY <2>1
    <2>3. /\ Unlinked(s, i) \in Lists
          /\ \A x \in Nat : /\ InList(x, s) <=> InList(x, Unlinked(s, i)) \/ In(x, b)
                            /\ ~(InList(x, Unlinked(s, i)) /\ In(x, b))
      BY TakeConsumes, Zenon
    <2>4. b.size >= size + Header
      OBVIOUS
    <2> HIDE DEF b
    <2>5. /\ t.list \in Lists /\ t.block \in Blocks /\ t.block.size >= size + Header
          /\ \A x \in Nat : /\ InList(x, s) <=> InList(x, t.list) \/ In(x, t.block)
                            /\ ~(InList(x, t.list) /\ In(x, t.block))
      BY <1>2, <2>2, <2>3, <2>4, Zenon
    <2> QED
      BY <2>5, Zenon DEF t
  <1> QED
    BY <1>3, <1>4, Zenon

(* FirstFit finds a block that can hold the request, or there is none. *)
LEMMA FirstFitFinds ==
    ASSUME NEW fl, fl.list \in Lists, NEW size \in Nat
    PROVE  LET s == fl.list
               k == FirstFit(fl, size)
           IN  \/ k = 0 /\ \A i \in 1..Len(s) : ~(s[i].size >= size + Header)
               \/ k # 0 /\ k \in 1..Len(s) /\ s[k].size >= size + Header
  <1> DEFINE s == fl.list
             T == {i \in 1..Len(s) : s[i].size >= size + Header}
             k == FirstFit(fl, size)
  <1>1. k = IF T = {} THEN 0 ELSE Min(T)
    BY Zenon DEF FirstFit
  <1>2. Len(s) \in Nat
    BY ListOrder, Zenon
  <1>3. CASE T = {}
    BY <1>1, <1>3, Zenon
  <1>4. CASE T # {}
    <2>1. T \subseteq Nat
      BY <1>2
    <2>2. PICK m \in T : \A y \in T : m <= y
      BY <1>4, <2>1, LeastElement, Zenon
    <2>3. Min(T) \in T
      BY <2>2, Zenon DEF Min
    <2>4. k \in T
      BY <1>1, <1>4, <2>3, Zenon
    <2>5. k \in 1..Len(s) /\ s[k].size >= size + Header
      BY <2>4, Zenon
    <2>6. k # 0
      BY <1>2, <2>5
    <2> QED
      BY <2>5, <2>6, Zenon
  <1> QED
    BY <1>3, <1>4, Zenon

(* freelist_alloc moves the bytes of one block, or fails because no block  *)
(* can hold the request.                                                   *)
LEMMA AllocKeeps ==
    ASSUME NEW fl \in FreeLists, NEW size \in Nat
    PROVE  LET a == freelist_alloc(fl, size)
           IN  \/ /\ a.block = <<>>
                  /\ \A i \in 1..Len(fl.list) : ~(fl.list[i].size >= size + Header)
               \/ /\ a.block # <<>> /\ a.fl \in FreeLists /\ a.fl.capacity = fl.capacity
                  /\ a.block[1] \in Blocks /\ a.block[1].size >= size + Header
                  /\ Moved(fl.list, a.fl.list, a.block[1])
  <1> DEFINE a == freelist_alloc(fl, size)
             k == FirstFit(fl, size)
             s == fl.list
             t == Take(s, k, size)
  <1>1. s \in Lists /\ fl.capacity \in Nat
    BY DEF FreeLists
  <1>2. \/ k = 0 /\ \A i \in 1..Len(s) : ~(s[i].size >= size + Header)
        \/ k # 0 /\ k \in 1..Len(s) /\ s[k].size >= size + Header
    BY <1>1, FirstFitFinds, Zenon
  <1>3. CASE k = 0
    <2>1. a = [fl |-> fl, block |-> <<>>]
      BY <1>3, Zenon DEF freelist_alloc
    <2> HIDE DEF a
    <2>2. a.block = <<>>
      BY <2>1
    <2> QED
      BY <1>2, <1>3, <2>2, Zenon DEF a
  <1>4. CASE k # 0
    <2>1. a = [fl |-> [fl EXCEPT !.list = t.list], block |-> <<t.block>>]
      BY <1>4, Zenon DEF freelist_alloc
    <2>2. /\ t.list \in Lists /\ t.block \in Blocks /\ t.block.size >= size + Header
          /\ Moved(s, t.list, t.block)
      <3> HIDE DEF k, s
      <3> QED
        BY <1>1, <1>2, <1>4, TakeKeeps, Zenon DEF Moved
    <2> HIDE DEF a, t
    <2>3. a.block = <<t.block>> /\ a.fl = [fl EXCEPT !.list = t.list]
      BY <2>1
    <2>4. a.block # <<>> /\ a.block[1] = t.block
      BY <2>3
    <2>5. a.fl \in FreeLists /\ a.fl.list = t.list /\ a.fl.capacity = fl.capacity
      BY <2>2, <2>3 DEF FreeLists
    <2> QED
      BY <2>2, <2>4, <2>5, Zenon DEF a
  <1> QED
    BY <1>3, <1>4, Zenon

-----------------------------------------------------------------------------
(* Bytes and allocations. *)

(* The bytes of a block as a set, and their number. *)
LEMMA BlockIsInterval ==
    ASSUME NEW b \in Blocks
    PROVE  /\ \A x : x \in BlockBytes(b) <=> x \in Nat /\ In(x, b)
           /\ IsFiniteSet(BlockBytes(b)) /\ Cardinality(BlockBytes(b)) = b.size
           /\ b.at \in BlockBytes(b)
  <1> DEFINE a == b.at
             n == b.size
  <1>1. a \in Nat /\ n \in Nat /\ n > 0
    BY BlockFields, Zenon
  <1>2. BlockBytes(b) = a..(a + n - 1)
    BY Zenon DEF BlockBytes, Bytes
  <1>3. \A x : In(x, b) <=> a <= x /\ x < a + n
    BY Zenon DEF In
  <1> HIDE DEF a, n
  <1>4. a \in Int /\ a + n - 1 \in Int /\ ~(a > a + n - 1) /\ (a + n - 1) - a + 1 = n
    BY <1>1
  <1>5. IsFiniteSet(a..(a + n - 1)) /\ Cardinality(a..(a + n - 1)) = n
    <2>1. /\ IsFiniteSet(a..(a + n - 1))
          /\ Cardinality(a..(a + n - 1)) = IF a > a + n - 1 THEN 0 ELSE (a + n - 1) - a + 1
      BY <1>4, FS_Interval, Zenon
    <2> QED
      BY <1>4, <2>1, Zenon
  <1>6. \A x : x \in a..(a + n - 1) <=> x \in Nat /\ a <= x /\ x < a + n
    BY <1>1
  <1>7. a \in a..(a + n - 1)
    BY <1>1
  <1> QED
    BY <1>2, <1>3, <1>5, <1>6, <1>7, Zenon DEF a, n

(* An allocation's block holds a byte of it, and its bytes are in the      *)
(* block.                                                                  *)
LEMMA AllocationFields ==
    ASSUME NEW u \in Allocations
    PROVE  /\ u.block \in Blocks /\ u.block.at \in Nat /\ u.block.size \in Nat
           /\ u.size \in Nat /\ u.size > 0 /\ u.size \in Sizes
           /\ u.block.size >= u.size + Header /\ In(u.block.at, u.block)
  <1>1. u.block \in Blocks /\ u.size \in Sizes /\ u.block.size >= u.size + Header
    BY DEF Allocations
  <1>2. u.size \in Nat /\ u.size > 0
    <2>1. u.size \in Nat \ {0}
      BY <1>1, HeapAssumption, Zenon
    <2> QED
      BY <2>1
  <1>3. u.block.at \in Nat /\ u.block.size \in Nat /\ u.block.size > 0
    BY <1>1, BlockFields, Zenon
  <1>4. In(u.block.at, u.block)
    BY <1>3 DEF In
  <1> QED
    BY <1>1, <1>2, <1>3, <1>4, Zenon

(* Taking a block from the list for a new allocation keeps the tiling. *)
LEMMA TiledTake ==
    ASSUME NEW P, NEW s, NEW U, NEW l, NEW b, NEW w, Tiled(P, s, U), Moved(s, l, b), w.block = b
    PROVE  Tiled(P, l, U \cup {w})
  <1>1. ASSUME NEW x \in Nat
        PROVE  x \in P <=> InList(x, l) \/ \E u \in U \cup {w} : In(x, u.block)
    <2>1. x \in P <=> InList(x, s) \/ \E u \in U : In(x, u.block)
      BY Zenon DEF Tiled
    <2>2. InList(x, s) <=> InList(x, l) \/ In(x, b)
      BY Zenon DEF Moved
    <2> QED
      BY <2>1, <2>2, Zenon
  <1>2. ASSUME NEW x \in Nat, NEW u \in U \cup {w}, In(x, u.block)
        PROVE  ~InList(x, l) /\ \A v \in U \cup {w} : In(x, v.block) => v = u
    <2>1. (InList(x, s) <=> InList(x, l) \/ In(x, b)) /\ ~(InList(x, l) /\ In(x, b))
      BY Zenon DEF Moved
    <2>2. \A y \in U : In(x, y.block) => ~InList(x, s) /\ \A v \in U : In(x, v.block) => v = y
      BY Zenon DEF Tiled
    <2>3. CASE u = w
      BY <1>2, <2>1, <2>2, <2>3, Zenon
    <2>4. CASE u \in U
      BY <1>2, <2>1, <2>2, <2>4, Zenon
    <2> QED
      BY <2>3, <2>4, Zenon
  <1> QED
    BY <1>1, <1>2, Zenon DEF Tiled

(* Giving an allocation's block to the list keeps the tiling. *)
LEMMA TiledFree ==
    ASSUME NEW P, NEW s, NEW U, NEW l, NEW w \in U, Tiled(P, s, U),
           \A x \in Nat : InList(x, l) <=> InList(x, s) \/ In(x, w.block)
    PROVE  Tiled(P, l, U \ {w})
  <1>1. ASSUME NEW x \in Nat
        PROVE  x \in P <=> InList(x, l) \/ \E u \in U \ {w} : In(x, u.block)
    <2>1. x \in P <=> InList(x, s) \/ \E u \in U : In(x, u.block)
      BY Zenon DEF Tiled
    <2>2. InList(x, l) <=> InList(x, s) \/ In(x, w.block)
      OBVIOUS
    <2>3. ASSUME NEW u \in U, In(x, u.block) PROVE In(x, w.block) \/ \E y \in U \ {w} : In(x, y.block)
      BY <2>3, Zenon
    <2>4. In(x, w.block) => \E u \in U : In(x, u.block)
      BY Zenon
    <2> QED
      BY <2>1, <2>2, <2>3, <2>4, Zenon
  <1>2. ASSUME NEW x \in Nat, NEW u \in U \ {w}, In(x, u.block)
        PROVE  ~InList(x, l) /\ \A v \in U \ {w} : In(x, v.block) => v = u
    <2>1. ~InList(x, s) /\ \A v \in U : In(x, v.block) => v = u
      BY <1>2, Zenon DEF Tiled
    <2>2. u # w
      BY <1>2, Zenon
    <2> QED
      BY <2>1, <2>2, Zenon
  <1> QED
    BY <1>1, <1>2, Zenon DEF Tiled

(* Adding a region that shares no byte with the pool keeps the tiling. *)
LEMMA TiledGrow ==
    ASSUME NEW P, NEW s, NEW U, NEW l, NEW b \in Blocks, Tiled(P, s, U),
           BlockBytes(b) \cap P = {},
           \A x \in Nat : InList(x, l) <=> InList(x, s) \/ In(x, b)
    PROVE  Tiled(P \cup BlockBytes(b), l, U)
  <1>1. \A x \in Nat : x \in BlockBytes(b) <=> In(x, b)
    BY BlockIsInterval, Zenon
  <1>2. ASSUME NEW x \in Nat
        PROVE  x \in P \cup BlockBytes(b) <=> InList(x, l) \/ \E u \in U : In(x, u.block)
    <2>1. x \in P <=> InList(x, s) \/ \E u \in U : In(x, u.block)
      BY Zenon DEF Tiled
    <2> QED
      BY <1>1, <2>1, Zenon
  <1>3. ASSUME NEW x \in Nat, NEW u \in U, In(x, u.block)
        PROVE  ~InList(x, l) /\ \A v \in U : In(x, v.block) => v = u
    <2>1. ~InList(x, s) /\ \A v \in U : In(x, v.block) => v = u
      BY <1>3, Zenon DEF Tiled
    <2>2. x \in P
      BY <1>3, Zenon DEF Tiled
    <2>3. ~In(x, b)
      BY <1>1, <2>2, Zenon
    <2> QED
      BY <2>1, <2>3, Zenon
  <1> QED
    BY <1>2, <1>3, Zenon DEF Tiled

-----------------------------------------------------------------------------
(* The heap. *)

(* A region is a multiple of the page size, so that it can hold a header. *)
LEMMA RegionHoldsHeader ==
    ASSUME NEW size \in Nat \ {0}
    PROVE  GrownSize(size) \in Nat /\ GrownSize(size) >= Header
  <1> DEFINE d == PAGE_SIZE
             q == (size + d - 1) \div d
  <1>1. d \in Nat /\ d >= Header /\ Header \in Nat /\ d > 0
    BY HeaderAssumption, HeapAssumption
  <1> HIDE DEF d
  <1> DEFINE n == size + d - 1
  <1>2. n \in Nat /\ n >= d
    BY <1>1
  <1>3. q \in Nat /\ q >= 1
    <2> HIDE DEF n
    <2>1. n \div d \in Nat /\ n \div d >= 1
      BY <1>1, <1>2
    <2> QED
      BY <2>1 DEF n
  <1> HIDE DEF q
  <1>4. q * d \in Nat /\ q * d >= d
    BY <1>1, <1>3
  <1>5. GrownSize(size) = q * d
    BY Zenon DEF GrownSize, RoundUp, q, d
  <1>6. q * d >= Header
    BY <1>1, <1>4
  <1> QED
    BY <1>4, <1>5, <1>6, Zenon

(* kheap_init: one block that holds a header. *)
LEMMA InitSound == Init => IInv
  <1> SUFFICES ASSUME Init PROVE Sound(freelist, pool, used)
    BY Zenon DEF IInv
  <1> DEFINE n == INITIAL_HEAP_SIZE
             d == PAGE_SIZE
  <1>1. n \in Nat /\ n >= Header /\ d \in Nat
    <2>1. n \in Nat \ {0} /\ d \in Nat /\ d >= Header /\ Header \in Nat \ {0} /\ n % d = 0
      BY HeaderAssumption, HeapAssumption, Zenon
    <2> HIDE DEF n, d
    <2>2. d \in Nat \ {0}
      BY <2>1
    <2>3. n >= d
      BY <2>1, <2>2
    <2> QED
      BY <2>1, <2>3
  <1>2. PICK p \in {q * PAGE_SIZE : q \in {r \in Pages :
                  r..(r + (INITIAL_HEAP_SIZE \div PAGE_SIZE) - 1) \subseteq Pages}} :
            freelist = freelist_init(p, n) /\ pool = Bytes(p, n) /\ used = {}
    BY Zenon DEF Init, kheap_init
  <1>3. p \in Nat
    <2>1. PICK q \in Pages : p = q * PAGE_SIZE
      BY <1>2, Zenon
    <2>2. q \in Nat
      <3>1. q \in Nat \ {0}
        BY HeapAssumption, Zenon
      <3> QED
        BY <3>1
    <2> QED
      BY <1>1, <2>1, <2>2
  <1> DEFINE b == Block(p, n)
  <1> HIDE DEF n, d
  <1>4. b \in Blocks /\ b.at = p /\ b.size = n
    BY <1>1, <1>3, BlockIsBlock, Zenon
  <1>5. freelist = [list |-> <<b>>, capacity |-> n]
    BY <1>2, Zenon DEF freelist_init
  <1>6. pool = BlockBytes(b)
    BY <1>2, <1>4, Zenon DEF BlockBytes
  <1> HIDE DEF b
  <1>7. /\ pool \subseteq Nat /\ IsFiniteSet(pool) /\ Cardinality(pool) = n
        /\ \A x \in Nat : x \in pool <=> In(x, b)
    BY <1>4, <1>6, BlockIsInterval, Zenon
  <1>8. <<b>> \in Seq(Blocks) /\ Len(<<b>>) = 1 /\ <<b>>[1] = b
    BY <1>4
  <1>9. <<b>> \in Lists
    <2>1. \A i, j \in 1..1 : ~(i < j)
      OBVIOUS
    <2> QED
      BY <1>8, <2>1, OrderIsList, Zenon
  <1>10. freelist \in FreeLists /\ freelist.list = <<b>> /\ freelist.capacity = n
    BY <1>1, <1>5, <1>9 DEF FreeLists
  <1>11. \A x \in Nat : InList(x, <<b>>) <=> In(x, b)
    <2>1. \A i \in 1..1 : i = 1
      OBVIOUS
    <2>2. 1 \in 1..1
      OBVIOUS
    <2> QED
      BY <1>8, <2>1, <2>2, Zenon DEF InList
  <1>12. Tiled(pool, freelist.list, used)
    BY <1>2, <1>7, <1>10, <1>11, Zenon DEF Tiled
  <1> QED
    BY <1>2, <1>7, <1>10, <1>12, Zenon DEF Sound

(* freelist_add_region: what vm_alloc_mem returns is new to the heap. *)
LEMMA GrowSound ==
    ASSUME IInv, NEW size \in Sizes, NEW p \in vm_alloc_mem(GrownSize(size))
    PROVE  LET n == GrownSize(size)
           IN  Sound(freelist_add_region(freelist, p, n), pool \cup Bytes(p, n), used)
  <1> DEFINE n == GrownSize(size)
             b == Block(p, n)
             l == Link(freelist.list, b)
             fl == freelist_add_region(freelist, p, n)
  <1>1. size \in Nat \ {0}
    BY HeapAssumption, Zenon
  <1>2. n \in Nat /\ n >= Header
    BY <1>1, RegionHoldsHeader, Zenon
  <1>3. PICK q \in Pages : p = q * PAGE_SIZE /\ Bytes(q * PAGE_SIZE, n) \cap pool = {}
    BY Zenon DEF vm_alloc_mem
  <1>4. p \in Nat
    <2>1. q \in Nat \ {0} /\ PAGE_SIZE \in Nat
      BY HeapAssumption, Zenon
    <2> QED
      BY <1>3, <2>1
  <1>5. Bytes(p, n) \cap pool = {}
    BY <1>3, Zenon
  <1> HIDE DEF n
  <1>6. b \in Blocks /\ b.at = p /\ b.size = n
    BY <1>2, <1>4, BlockIsBlock, Zenon
  <1>7. Bytes(p, n) = BlockBytes(b)
    BY <1>6, Zenon DEF BlockBytes
  <1>8. fl = [list |-> l, capacity |-> freelist.capacity + n]
    BY Zenon DEF freelist_add_region
  <1> HIDE DEF b, fl
  <1>9. /\ freelist \in FreeLists /\ freelist.capacity = Cardinality(pool)
        /\ pool \subseteq Nat /\ IsFiniteSet(pool) /\ used \subseteq Allocations
        /\ Tiled(pool, freelist.list, used)
    BY Zenon DEF IInv, Sound
  <1>10. freelist.list \in Lists /\ freelist.capacity \in Nat
    BY <1>9 DEF FreeLists
  <1>11. /\ \A x : x \in BlockBytes(b) <=> x \in Nat /\ In(x, b)
         /\ IsFiniteSet(BlockBytes(b)) /\ Cardinality(BlockBytes(b)) = n
    BY <1>6, BlockIsInterval, Zenon
  <1>12. \A x \in Nat : ~(In(x, b) /\ InList(x, freelist.list))
    BY <1>5, <1>7, <1>9, <1>11, ZenonT(30) DEF Tiled
  <1>13. l \in Lists /\ \A x \in Nat : InList(x, l) <=> InList(x, freelist.list) \/ In(x, b)
    BY <1>6, <1>10, <1>12, LinkKeeps, Zenon
  <1> HIDE DEF l
  <1>14. Tiled(pool \cup BlockBytes(b), l, used)
    BY <1>5, <1>6, <1>7, <1>9, <1>13, TiledGrow, Zenon
  <1>15. IsFiniteSet(pool \cup BlockBytes(b)) /\ Cardinality(pool \cup BlockBytes(b)) = Cardinality(pool) + n
    <2>1. pool \cap BlockBytes(b) = {}
      BY <1>5, <1>7, Zenon
    <2>2. Cardinality(pool \cap BlockBytes(b)) = 0
      BY <2>1, FS_EmptySet, Zenon
    <2>3. /\ IsFiniteSet(pool \cup BlockBytes(b))
          /\ Cardinality(pool \cup BlockBytes(b)) =
                 Cardinality(pool) + Cardinality(BlockBytes(b)) - Cardinality(pool \cap BlockBytes(b))
      BY <1>9, <1>11, FS_Union, Zenon
    <2>4. Cardinality(pool \cup BlockBytes(b)) = Cardinality(pool) + n - 0
      BY <1>11, <2>2, <2>3, Zenon
    <2>5. Cardinality(pool) \in Nat
      BY <1>9, <1>10, Zenon
    <2> QED
      BY <1>2, <2>3, <2>4, <2>5
  <1>16. fl \in FreeLists /\ fl.list = l /\ fl.capacity = freelist.capacity + n
    BY <1>2, <1>8, <1>10, <1>13 DEF FreeLists
  <1>17. pool \cup BlockBytes(b) \subseteq Nat
    BY <1>9, <1>11, Zenon
  <1>18. Sound(fl, pool \cup BlockBytes(b), used)
    BY <1>9, <1>14, <1>15, <1>16, <1>17, Zenon DEF Sound
  <1> QED
    BY <1>7, <1>18, Zenon DEF fl, n

(* A call that ends without an allocation. *)
LEMMA FailSound ==
    ASSUME NEW how, NEW fl, NEW more, Sound(fl, pool \cup more, used), Fail(how, fl, more)
    PROVE  IInv'
  <1>1. freelist' = fl /\ pool' = pool \cup more /\ used' = used
    BY Zenon DEF Fail
  <1>2. Sound(freelist', pool', used')
    BY <1>1, Zenon
  <1> QED
    BY <1>2, Zenon DEF IInv, Sound, Tiled, InList

(* A call that returns a block. *)
LEMMA ReturnSound ==
    ASSUME NEW fl, NEW more, NEW size \in Sizes, Sound(fl, pool \cup more, used),
           freelist_alloc(fl, size).block # <<>>, Return(freelist_alloc(fl, size), more, size)
    PROVE  IInv'
  <1> DEFINE a == freelist_alloc(fl, size)
             P == pool \cup more
             b == a.block[1]
             w == [block |-> b, size |-> size]
  <1>1. /\ fl \in FreeLists /\ P \subseteq Nat /\ IsFiniteSet(P) /\ fl.capacity = Cardinality(P)
        /\ used \subseteq Allocations /\ Tiled(P, fl.list, used)
    BY Zenon DEF Sound
  <1>2. size \in Nat
    <2>1. size \in Nat \ {0}
      BY HeapAssumption, Zenon
    <2> QED
      BY <2>1
  <1>3. /\ a.fl \in FreeLists /\ a.fl.capacity = fl.capacity
        /\ b \in Blocks /\ b.size >= size + Header /\ Moved(fl.list, a.fl.list, b)
    BY <1>1, <1>2, AllocKeeps, Zenon
  <1>4. freelist' = a.fl /\ pool' = P /\ used' = used \cup {w}
    BY Zenon DEF Return
  <1> HIDE DEF a, b, P
  <1>5. w.block = b /\ w \in Allocations
    BY <1>3 DEF Allocations
  <1> HIDE DEF w
  <1>6. Tiled(P, a.fl.list, used \cup {w})
    BY <1>1, <1>3, <1>5, TiledTake, Zenon
  <1>7. Sound(a.fl, P, used \cup {w})
    BY <1>1, <1>3, <1>5, <1>6, Zenon DEF Sound
  <1>8. Sound(freelist', pool', used')
    BY <1>4, <1>7, Zenon
  <1> QED
    BY <1>8, Zenon DEF IInv, Sound, Tiled, InList

(* kalloc, with or without growing the heap. *)
LEMMA KallocSound ==
    ASSUME IInv, NEW size \in Sizes, kalloc(size)
    PROVE  IInv'
  <1> DEFINE a == freelist_alloc(freelist, size)
  <1>1. Sound(freelist, pool \cup {}, used)
    <2>1. pool \cup {} = pool
      BY Zenon
    <2> QED
      BY <2>1, Zenon DEF IInv
  <1>2. CASE freelist.list = <<>>
    <2>1. Fail("head is null", freelist, {})
      BY <1>2, Zenon DEF kalloc
    <2> QED
      BY <1>1, <2>1, FailSound, Zenon
  <1>3. CASE freelist.list # <<>> /\ a.block # <<>>
    <2>1. Return(a, {}, size)
      BY <1>3, Zenon DEF kalloc
    <2> QED
      BY <1>1, <1>3, <2>1, ReturnSound, Zenon
  <1>4. CASE freelist.list # <<>> /\ a.block = <<>>
    <2>1. grow_heap(size)
      BY <1>4, Zenon DEF kalloc
    <2>2. CASE Fail("ENOMEM", freelist, {}) \/ Fail("fault", freelist, {})
      BY <1>1, <2>2, FailSound, Zenon
    <2>3. CASE ~(Fail("ENOMEM", freelist, {}) \/ Fail("fault", freelist, {}))
      <3> DEFINE n == GrownSize(size)
      <3>1. PICK p \in vm_alloc_mem(n) :
                LET fl == freelist_add_region(freelist, p, n)
                    c == freelist_alloc(fl, size)
                IN  IF c.block = <<>> THEN Fail("ENOMEM", fl, Bytes(p, n))
                    ELSE Return(c, Bytes(p, n), size)
        BY <2>1, <2>3, Zenon DEF grow_heap
      <3> DEFINE fl == freelist_add_region(freelist, p, n)
                 c == freelist_alloc(fl, size)
      <3>2. Sound(fl, pool \cup Bytes(p, n), used)
        BY GrowSound, Zenon
      <3>3. CASE c.block = <<>>
        BY <3>1, <3>2, <3>3, FailSound, Zenon
      <3>4. CASE c.block # <<>>
        <4>1. Return(c, Bytes(p, n), size)
          BY <3>1, <3>4, Zenon
        <4> HIDE DEF fl
        <4> QED
          BY <3>2, <3>4, <4>1, ReturnSound, Zenon
      <3> QED
        BY <3>3, <3>4, Zenon
    <2> QED
      BY <2>2, <2>3, Zenon
  <1> QED
    BY <1>2, <1>3, <1>4, Zenon

(* kfree: the block is nobody else's, so linking it keeps the list. *)
LEMMA KfreeSound ==
    ASSUME IInv, NEW u \in used, kfree(u)
    PROVE  IInv'
  <1>1. /\ freelist \in FreeLists /\ pool \subseteq Nat /\ IsFiniteSet(pool)
        /\ freelist.capacity = Cardinality(pool)
        /\ used \subseteq Allocations /\ Tiled(pool, freelist.list, used)
    BY Zenon DEF IInv, Sound
  <1>2. CASE freelist.list = <<>>
    <2>1. Fail("head is null", freelist, {}) /\ pool \cup {} = pool
      BY <1>2, Zenon DEF kfree
    <2>2. Sound(freelist, pool \cup {}, used)
      BY <2>1, Zenon DEF IInv
    <2> QED
      BY <2>1, <2>2, FailSound, Zenon
  <1>3. CASE freelist.list # <<>>
    <2> DEFINE l == Link(freelist.list, u.block)
               fl == [freelist EXCEPT !.list = l]
    <2>1. freelist' = fl /\ used' = used \ {u} /\ pool' = pool
      BY <1>3, Zenon DEF kfree, freelist_free
    <2>2. u.block \in Blocks
      BY <1>1, AllocationFields, Zenon
    <2>3. freelist.list \in Lists /\ freelist.capacity \in Nat
      BY <1>1 DEF FreeLists
    <2>4. \A x \in Nat : ~(In(x, u.block) /\ InList(x, freelist.list))
      BY <1>1, Zenon DEF Tiled
    <2>5. l \in Lists /\ \A x \in Nat : InList(x, l) <=> InList(x, freelist.list) \/ In(x, u.block)
      BY <2>2, <2>3, <2>4, LinkKeeps, Zenon
    <2> HIDE DEF l
    <2>6. fl \in FreeLists /\ fl.list = l /\ fl.capacity = freelist.capacity
      BY <1>1, <2>3, <2>5 DEF FreeLists
    <2> HIDE DEF fl
    <2>7. Tiled(pool, l, used \ {u})
      BY <1>1, <2>5, TiledFree, Zenon
    <2>8. Sound(fl, pool, used \ {u})
      BY <1>1, <2>6, <2>7, Zenon DEF Sound
    <2>9. Sound(freelist', pool', used')
      BY <2>1, <2>8, Zenon
    <2> QED
      BY <2>9, Zenon DEF IInv, Sound, Tiled, InList
  <1> QED
    BY <1>2, <1>3, Zenon

-----------------------------------------------------------------------------
(* What the invariant says in the terms of KHeap. *)

(* The facts of the invariant, and the blocks in its terms. *)
LEMMA BlocksOfState ==
    ASSUME IInv
    PROVE  /\ freelist.list \in Lists /\ used \subseteq Allocations
           /\ pool \subseteq Nat /\ freelist.capacity = Cardinality(pool)
           /\ Tiled(pool, freelist.list, used)
           /\ \A b : b \in FreeBlocks <=> \E i \in 1..Len(freelist.list) : b = freelist.list[i]
           /\ \A b \in FreeBlocks \cup UsedBlocks : b \in Blocks
  <1>1. /\ freelist \in FreeLists /\ pool \subseteq Nat /\ freelist.capacity = Cardinality(pool)
        /\ used \subseteq Allocations /\ Tiled(pool, freelist.list, used)
    BY Zenon DEF IInv, Sound
  <1>2. freelist.list \in Lists
    BY <1>1 DEF FreeLists
  <1>3. freelist.list \in Seq(Blocks) /\ \A i \in 1..Len(freelist.list) : freelist.list[i] \in Blocks
    BY <1>2, ListOrder, Zenon
  <1>4. DOMAIN freelist.list = 1..Len(freelist.list)
    BY <1>3
  <1>5. \A b : b \in FreeBlocks <=> \E i \in 1..Len(freelist.list) : b = freelist.list[i]
    BY <1>4, Zenon DEF FreeBlocks
  <1>6. \A b \in UsedBlocks : b \in Blocks
    BY <1>1, AllocationFields, Zenon DEF UsedBlocks
  <1>7. \A b \in FreeBlocks : b \in Blocks
    BY <1>3, <1>5, Zenon
  <1> QED
    BY <1>1, <1>2, <1>5, <1>6, <1>7, Zenon

(* A byte of the pool is in one block. *)
LEMMA TilingHolds ==
    ASSUME IInv
    PROVE  Tiling
  <1> DEFINE s == freelist.list
             All == FreeBlocks \cup UsedBlocks
  <1>1. /\ s \in Lists /\ pool \subseteq Nat /\ freelist.capacity = Cardinality(pool)
        /\ Tiled(pool, s, used)
        /\ \A b : b \in FreeBlocks <=> \E i \in 1..Len(s) : b = s[i]
        /\ \A b \in All : b \in Blocks
    BY BlocksOfState, Zenon
  <1>2. \A x \in Nat : \A i, j \in 1..Len(s) : In(x, s[i]) /\ In(x, s[j]) => i = j
    BY <1>1, ListOrder, Zenon
  <1> HIDE DEF s
  <1>3. \A b \in All : /\ \A x : x \in BlockBytes(b) <=> x \in Nat /\ In(x, b)
                       /\ b.at \in BlockBytes(b)
    BY <1>1, BlockIsInterval, Zenon
  <1>4. ASSUME NEW x \in Nat
        PROVE  (\E b \in All : In(x, b)) <=> InList(x, s) \/ \E u \in used : In(x, u.block)
    BY <1>1, Zenon DEF InList, UsedBlocks
  <1>5. UNION {BlockBytes(b) : b \in All} = pool
    <2>1. ASSUME NEW x PROVE x \in UNION {BlockBytes(b) : b \in All} <=> x \in pool
      <3>1. x \in UNION {BlockBytes(b) : b \in All} <=> \E b \in All : x \in BlockBytes(b)
        BY Zenon
      <3>2. (\E b \in All : x \in BlockBytes(b)) <=> x \in Nat /\ \E b \in All : In(x, b)
        BY <1>3, Zenon
      <3>3. x \in Nat => (x \in pool <=> InList(x, s) \/ \E u \in used : In(x, u.block))
        BY <1>1, Zenon DEF Tiled
      <3> QED
        BY <1>1, <1>4, <3>1, <3>2, <3>3, Zenon
    <2> QED
      BY <2>1, Zenon
  <1>6. ASSUME NEW b \in All, NEW d \in All, NEW x \in Nat, In(x, b), In(x, d)
        PROVE  b = d /\ ~(b \in FreeBlocks /\ d \in UsedBlocks)
    <2>1. b \in FreeBlocks => InList(x, s)
      BY <1>1, <1>6, Zenon DEF InList
    <2>2. d \in FreeBlocks => InList(x, s)
      BY <1>1, <1>6, Zenon DEF InList
    <2>3. b \in FreeBlocks /\ d \in FreeBlocks => b = d
      <3> SUFFICES ASSUME b \in FreeBlocks, d \in FreeBlocks PROVE b = d
        BY Zenon
      <3>1. PICK i \in 1..Len(s) : b = s[i]
        BY <1>1, Zenon
      <3>2. PICK j \in 1..Len(s) : d = s[j]
        BY <1>1, Zenon
      <3> QED
        BY <1>2, <1>6, <3>1, <3>2, Zenon
    <2>4. b \in UsedBlocks => ~InList(x, s)
      BY <1>1, <1>6, Zenon DEF Tiled, UsedBlocks
    <2>5. d \in UsedBlocks => ~InList(x, s)
      BY <1>1, <1>6, Zenon DEF Tiled, UsedBlocks
    <2>6. b \in UsedBlocks /\ d \in UsedBlocks => b = d
      <3> SUFFICES ASSUME b \in UsedBlocks, d \in UsedBlocks PROVE b = d
        BY Zenon
      <3>1. PICK u \in used : b = u.block
        BY Zenon DEF UsedBlocks
      <3>2. PICK v \in used : d = v.block
        BY Zenon DEF UsedBlocks
      <3>3. v = u
        BY <1>1, <1>6, <3>1, <3>2, Zenon DEF Tiled
      <3> QED
        BY <3>1, <3>2, <3>3, Zenon
    <2> QED
      BY <2>1, <2>2, <2>3, <2>4, <2>5, <2>6, Zenon
  <1>7. \A b, d \in All : b = d \/ BlockBytes(b) \cap BlockBytes(d) = {}
    <2> SUFFICES ASSUME NEW b \in All, NEW d \in All, NEW x \in BlockBytes(b), x \in BlockBytes(d)
                 PROVE  b = d
      BY Zenon
    <2>1. x \in Nat /\ In(x, b) /\ In(x, d)
      BY <1>3, Zenon
    <2> QED
      BY <1>6, <2>1, Zenon
  <1>8. FreeBlocks \cap UsedBlocks = {}
    <2> SUFFICES ASSUME NEW b \in FreeBlocks, b \in UsedBlocks PROVE FALSE
      BY Zenon
    <2>1. b.at \in Nat /\ In(b.at, b)
      BY <1>3, Zenon
    <2> QED
      BY <1>6, <2>1, Zenon
  <1> HIDE DEF All
  <1> QED
    BY <1>1, <1>5, <1>7, <1>8, Zenon DEF Tiling, All

(* The list is in order, merged, and of blocks that hold a header. *)
LEMMA CoalescedHolds ==
    ASSUME IInv
    PROVE  Coalesced
  <1> DEFINE s == freelist.list
  <1>1. s \in Lists
    BY BlocksOfState, Zenon
  <1> HIDE DEF s
  <1>2. /\ s \in Seq(Blocks) /\ Len(s) \in Nat
        /\ \A i \in 1..Len(s) : s[i].size >= Header
        /\ \A i, j \in 1..Len(s) : i < j => s[i].at + s[i].size < s[j].at
    BY <1>1, ListOrder, Zenon
  <1>3. DOMAIN s = 1..Len(s)
    BY <1>2
  <1>4. \A i \in 1..Len(s) - 1 : i \in 1..Len(s) /\ i + 1 \in 1..Len(s) /\ i < i + 1
    BY <1>2
  <1>5. \A i \in 1..Len(s) - 1 : s[i].at + s[i].size < s[i + 1].at
    BY <1>2, <1>4, Zenon
  <1> QED
    BY <1>2, <1>3, <1>5, Zenon DEF Coalesced, s

(* A run of free bytes lies in one block: what it would share with a       *)
(* second block touches the first.  So a block holds the run, or the run   *)
(* is too long for every block.                                            *)
LEMMA FailsOnlyWhenFullHolds ==
    ASSUME IInv
    PROVE  FailsOnlyWhenFull
  <1> DEFINE s == freelist.list
  <1> SUFFICES ASSUME NEW size \in Sizes, freelist_alloc(freelist, size).block = <<>>,
                      NEW at \in pool,
                      Bytes(at, size + Header) \subseteq pool \ UNION {BlockBytes(b) : b \in UsedBlocks}
               PROVE  FALSE
    BY Zenon DEF FailsOnlyWhenFull
  <1> DEFINE n == size + Header
  <1>1. size \in Nat /\ size > 0 /\ Header \in Nat /\ Header > 0
    <2>1. size \in Nat \ {0} /\ Header \in Nat \ {0}
      BY HeapAssumption, HeaderAssumption, Zenon
    <2> QED
      BY <2>1
  <1>2. /\ s \in Lists /\ pool \subseteq Nat /\ used \subseteq Allocations
        /\ Tiled(pool, s, used) /\ freelist \in FreeLists
    BY BlocksOfState, Zenon DEF IInv, Sound
  <1>3. \A i \in 1..Len(s) : ~(s[i].size >= n)
    BY <1>1, <1>2, AllocKeeps, Zenon
  <1>4. n \in Nat /\ n > 0
    BY <1>1
  <1>5. at \in Nat
    BY <1>2, Zenon
  <1> HIDE DEF s, n
  <1>6. /\ Len(s) \in Nat
        /\ \A i \in 1..Len(s) : s[i].at \in Nat /\ s[i].size \in Nat
        /\ \A i, j \in 1..Len(s) : i < j => s[i].at + s[i].size < s[j].at
    BY <1>2, ListOrder, Zenon
  <1>7. ASSUME NEW x \in Nat, at <= x, x < at + n PROVE InList(x, s)
    <2>1. x \in at..(at + n - 1)
      BY <1>4, <1>5, <1>7
    <2>2. x \in pool /\ x \notin UNION {BlockBytes(b) : b \in UsedBlocks}
      BY <2>1, Zenon DEF Bytes, n
    <2>3. ASSUME NEW u \in used, In(x, u.block) PROVE FALSE
      <3>1. u.block \in Blocks /\ u.block \in UsedBlocks
        BY <1>2, AllocationFields, Zenon DEF UsedBlocks
      <3>2. x \in BlockBytes(u.block)
        BY <2>3, <3>1, BlockIsInterval, Zenon
      <3> QED
        BY <2>2, <3>1, <3>2, Zenon
    <2> QED
      BY <1>2, <2>2, <2>3, Zenon DEF Tiled
  <1>8. PICK i \in 1..Len(s) : In(at, s[i])
    <2>1. at <= at /\ at < at + n
      BY <1>4, <1>5
    <2> QED
      BY <1>5, <1>7, <2>1, Zenon DEF InList
  <1> DEFINE a == s[i].at
             m == s[i].size
             y == a + m
  <1>9. a \in Nat /\ m \in Nat /\ a <= at /\ at < a + m /\ ~(m >= n)
    BY <1>3, <1>6, <1>8, Zenon DEF In
  <1> HIDE DEF a, m
  <1>10. y \in Nat /\ at <= y /\ y < at + n
    BY <1>4, <1>5, <1>9
  <1>11. PICK j \in 1..Len(s) : In(y, s[j])
    BY <1>7, <1>10, Zenon DEF InList
  <1> DEFINE c == s[j].at
             d == s[j].size
  <1>12. c \in Nat /\ d \in Nat /\ c <= y /\ y < c + d
    BY <1>6, <1>11, Zenon DEF In
  <1>13. (i < j => y < c) /\ (j < i => c + d < a)
    BY <1>6, Zenon DEF a, m
  <1>14. i = j => c = a /\ d = m
    BY Zenon DEF a, m
  <1> HIDE DEF c, d
  <1>15. i < j \/ j < i \/ i = j
    BY <1>6
  <1> QED
    BY <1>9, <1>12, <1>13, <1>14, <1>15

-----------------------------------------------------------------------------
(* Steps of the heap as steps of HeapSpec. *)

(* The caller's bytes are bytes of the block behind the header. *)
LEMMA OwnBytes ==
    ASSUME NEW u \in Allocations
    PROVE  /\ Own(u).size > 0 /\ Own(u).at \in Heap!Bytes(Own(u))
           /\ \A x \in Heap!Bytes(Own(u)) : x \in Nat /\ In(x, u.block)
  <1> DEFINE a == u.block.at
             m == u.block.size
             k == u.size
             h == Header
  <1>1. a \in Nat /\ m \in Nat /\ k \in Nat /\ k > 0 /\ m >= k + h /\ h \in Nat
    BY AllocationFields, HeaderAssumption, Zenon
  <1>2. Own(u).at = a + h /\ Own(u).size = k
    BY DEF Own
  <1>3. Heap!Bytes(Own(u)) = (a + h)..((a + h) + k - 1)
    BY <1>2, Zenon DEF Heap!Bytes
  <1>4. \A x : In(x, u.block) <=> a <= x /\ x < a + m
    BY Zenon DEF In
  <1> HIDE DEF a, m, k, h
  <1>5. \A x \in (a + h)..((a + h) + k - 1) : x \in Nat /\ a <= x /\ x < a + m
    BY <1>1
  <1>6. a + h \in (a + h)..((a + h) + k - 1)
    BY <1>1
  <1> QED
    BY <1>1, <1>2, <1>3, <1>4, <1>5, <1>6, Zenon

(* The mapping of the refinement. *)
LEMMA OwnedIs ==
    /\ {[at |-> u.block.at + Header, size |-> u.size] : u \in used} = Owned
    /\ {[at |-> u.block.at + Header, size |-> u.size] : u \in used}' = Owned'
  BY Zenon DEF Owned, Own

(* Allocations with a byte in common are the same. *)
LEMMA OwnDiffers ==
    ASSUME IInv, NEW u \in used, NEW v \in used, Own(u) = Own(v)
    PROVE  u = v
  <1>1. used \subseteq Allocations /\ Tiled(pool, freelist.list, used)
    BY BlocksOfState, Zenon
  <1>2. Own(u).at \in Nat /\ In(Own(u).at, u.block) /\ In(Own(u).at, v.block)
    BY <1>1, OwnBytes, Zenon
  <1> QED
    BY <1>1, <1>2, Zenon DEF Tiled

(* A call that returns a block is an Alloc. *)
LEMMA ReturnAllocates ==
    ASSUME NEW fl, NEW more, NEW size \in Sizes, Sound(fl, pool \cup more, used),
           freelist_alloc(fl, size).block # <<>>, Return(freelist_alloc(fl, size), more, size)
    PROVE  Heap!Next
  <1> DEFINE c == freelist_alloc(fl, size)
             P == pool \cup more
             b == c.block[1]
             w == [block |-> b, size |-> size]
  <1>1. fl \in FreeLists /\ used \subseteq Allocations /\ Tiled(P, fl.list, used)
    BY Zenon DEF Sound
  <1>2. size \in Nat
    <2>1. size \in Nat \ {0}
      BY HeapAssumption, Zenon
    <2> QED
      BY <2>1
  <1>3. b \in Blocks /\ b.size >= size + Header /\ Moved(fl.list, c.fl.list, b)
    BY <1>1, <1>2, AllocKeeps, Zenon
  <1>4. pool' = P /\ used' = used \cup {w}
    BY Zenon DEF Return
  <1> HIDE DEF c, b
  <1>5. w.block = b /\ w \in Allocations
    BY <1>3 DEF Allocations
  <1> HIDE DEF w
  <1>6. \A x \in Nat : In(x, b) => x \in P /\ \A u \in used : ~In(x, u.block)
    BY <1>1, <1>3, Zenon DEF Moved, Tiled
  <1>7. Own(w).size > 0 /\ Own(w).at \in Heap!Bytes(Own(w))
        /\ \A x \in Heap!Bytes(Own(w)) : x \in Nat /\ In(x, b)
    BY <1>5, OwnBytes, Zenon
  <1>8. Heap!Bytes(Own(w)) \subseteq pool'
    BY <1>4, <1>6, <1>7, Zenon
  <1>9. \A o \in Owned : Heap!Bytes(o) \cap Heap!Bytes(Own(w)) = {}
    <2> SUFFICES ASSUME NEW u \in used, NEW x \in Heap!Bytes(Own(u)), x \in Heap!Bytes(Own(w))
                 PROVE  FALSE
      BY Zenon DEF Owned
    <2>1. x \in Nat /\ In(x, u.block) /\ In(x, b)
      BY <1>1, <1>7, OwnBytes, Zenon
    <2> QED
      BY <1>6, <2>1, Zenon
  <1>10. Own(w) \notin Owned
    BY <1>7, <1>9, Zenon
  <1>11. Owned' = Owned \cup {Own(w)}
    BY <1>4, Zenon DEF Owned, Own
  <1>12. pool \subseteq pool'
    BY <1>4, Zenon
  <1>13. Own(w) \in Owned' \ Owned
    BY <1>10, <1>11, Zenon
  <1>14. Heap!Alloc(Own(w))
    BY <1>7, <1>8, <1>9, <1>11, <1>12, OwnedIs, Zenon DEF Heap!Alloc
  <1> QED
    BY <1>13, <1>14, OwnedIs, Zenon DEF Heap!Next

(* A call that fails leaves the owners, and at most grows the pool. *)
LEMMA FailGrows ==
    ASSUME NEW how, NEW fl, NEW more, Fail(how, fl, more)
    PROVE  Heap!Next
  <1>1. pool \subseteq pool' /\ used' = used
    BY Zenon DEF Fail
  <1>2. Owned' = Owned
    BY <1>1, Zenon DEF Owned, Own
  <1>3. Heap!Grow
    BY <1>1, <1>2, OwnedIs, Zenon DEF Heap!Grow
  <1> QED
    BY <1>3, Zenon DEF Heap!Next

(* kalloc as a step of HeapSpec. *)
LEMMA KallocImplements ==
    ASSUME IInv, NEW size \in Sizes, kalloc(size)
    PROVE  Heap!Next
  <1> DEFINE a == freelist_alloc(freelist, size)
  <1>1. Sound(freelist, pool \cup {}, used)
    <2>1. pool \cup {} = pool
      BY Zenon
    <2> QED
      BY <2>1, Zenon DEF IInv
  <1>2. CASE freelist.list = <<>>
    <2>1. Fail("head is null", freelist, {})
      BY <1>2, Zenon DEF kalloc
    <2> QED
      BY <2>1, FailGrows, Zenon
  <1>3. CASE freelist.list # <<>> /\ a.block # <<>>
    <2>1. Return(a, {}, size)
      BY <1>3, Zenon DEF kalloc
    <2> QED
      BY <1>1, <1>3, <2>1, ReturnAllocates, Zenon
  <1>4. CASE freelist.list # <<>> /\ a.block = <<>>
    <2>1. grow_heap(size)
      BY <1>4, Zenon DEF kalloc
    <2>2. CASE Fail("ENOMEM", freelist, {}) \/ Fail("fault", freelist, {})
      BY <2>2, FailGrows, Zenon
    <2>3. CASE ~(Fail("ENOMEM", freelist, {}) \/ Fail("fault", freelist, {}))
      <3> DEFINE n == GrownSize(size)
      <3>1. PICK p \in vm_alloc_mem(n) :
                LET fl == freelist_add_region(freelist, p, n)
                    c == freelist_alloc(fl, size)
                IN  IF c.block = <<>> THEN Fail("ENOMEM", fl, Bytes(p, n))
                    ELSE Return(c, Bytes(p, n), size)
        BY <2>1, <2>3, Zenon DEF grow_heap
      <3> DEFINE fl == freelist_add_region(freelist, p, n)
                 c == freelist_alloc(fl, size)
      <3>2. Sound(fl, pool \cup Bytes(p, n), used)
        BY GrowSound, Zenon
      <3>3. CASE c.block = <<>>
        BY <3>1, <3>3, FailGrows, Zenon
      <3>4. CASE c.block # <<>>
        <4>1. Return(c, Bytes(p, n), size)
          BY <3>1, <3>4, Zenon
        <4> HIDE DEF fl
        <4> QED
          BY <3>2, <3>4, <4>1, ReturnAllocates, Zenon
      <3> QED
        BY <3>3, <3>4, Zenon
    <2> QED
      BY <2>2, <2>3, Zenon
  <1> QED
    BY <1>2, <1>3, <1>4, Zenon

(* kfree as a step of HeapSpec. *)
LEMMA KfreeImplements ==
    ASSUME IInv, NEW u \in used, kfree(u)
    PROVE  Heap!Next
  <1>1. CASE freelist.list = <<>>
    <2>1. Fail("head is null", freelist, {})
      BY <1>1, Zenon DEF kfree
    <2> QED
      BY <2>1, FailGrows, Zenon
  <1>2. CASE freelist.list # <<>>
    <2>1. used' = used \ {u} /\ pool' = pool
      BY <1>2, Zenon DEF kfree
    <2>2. \A v \in used : Own(v) = Own(u) => v = u
      BY OwnDiffers, Zenon
    <2>3. Owned' = {Own(v) : v \in used \ {u}}
      BY <2>1, Zenon DEF Owned, Own
    <2>4. {Own(v) : v \in used \ {u}} = Owned \ {Own(u)}
      BY <2>2, Zenon DEF Owned
    <2>5. Own(u) \in Owned
      BY Zenon DEF Owned
    <2>6. Heap!Free(Own(u))
      BY <2>1, <2>3, <2>4, <2>5, OwnedIs, Zenon DEF Heap!Free
    <2> QED
      BY <2>5, <2>6, OwnedIs, Zenon DEF Heap!Next
  <1> QED
    BY <1>1, <1>2, Zenon

-----------------------------------------------------------------------------
(* The maximum. *)

(* Rounding up to pages adds less than a page. *)
LEMMA RoundedBelow ==
    ASSUME NEW size \in Nat \ {0}
    PROVE  GrownSize(size) < size + PAGE_SIZE
  <1> DEFINE d == PAGE_SIZE
             n == size + d - 1
  <1>1. d \in Nat /\ d > 0
    BY HeaderAssumption, HeapAssumption
  <1> HIDE DEF d
  <1>2. n \in Nat
    BY <1>1
  <1>3. GrownSize(size) = (n \div d) * d
    BY Zenon DEF GrownSize, RoundUp, n, d
  <1>4. (n \div d) * d <= n
    <2> HIDE DEF n
    <2>1. n = d * (n \div d) + (n % d) /\ n % d >= 0 /\ n \div d \in Nat /\ n % d \in Nat
      BY <1>1, <1>2
    <2> QED
      BY <1>1, <1>2, <2>1
  <1>5. (n \div d) * d < size + d
    <2>1. (n \div d) * d \in Nat
      <3> HIDE DEF n
      <3> QED
        BY <1>1, <1>2
    <2> QED
      BY <1>1, <1>4, <2>1
  <1> QED
    BY <1>3, <1>5, Zenon DEF d

(* Taking a block leaves the capacity. *)
LEMMA AllocKeepsCapacity ==
    ASSUME NEW fl \in FreeLists, NEW size
    PROVE  freelist_alloc(fl, size).fl.capacity = fl.capacity
  <1> DEFINE i == FirstFit(fl, size)
             t == Take(fl.list, i, size)
  <1>1. freelist_alloc(fl, size)
            = IF i = 0 THEN [fl |-> fl, block |-> <<>>]
              ELSE [fl |-> [fl EXCEPT !.list = t.list], block |-> <<t.block>>]
    BY Zenon DEF freelist_alloc
  <1> HIDE DEF i, t
  <1> QED
    BY <1>1 DEF FreeLists

(* Every growth starts from a capacity that leaves room for the request. *)
LEMMA GrowthLimited ==
    ASSUME IInv, LimitedGrowth, [Next]_vars
    PROVE  LimitedGrowth'
  <1>1. freelist \in FreeLists
    BY Zenon DEF IInv, Sound
  <1>2. CASE freelist'.capacity = freelist.capacity
    BY <1>2, Zenon DEF LimitedGrowth
  <1>3. CASE freelist'.capacity # freelist.capacity
    <2>1. PICK size \in Sizes : kalloc(size)
      <3>1. CASE UNCHANGED vars
        BY <1>3, <3>1, Zenon DEF vars
      <3>2. CASE \E u \in used : kfree(u)
        <4>1. PICK u \in used : kfree(u)
          BY <3>2, Zenon
        <4>2. freelist' = freelist \/ freelist' = [freelist EXCEPT !.list = Link(@, u.block)]
          BY <4>1, Zenon DEF kfree, Fail, freelist_free
        <4>3. freelist'.capacity = freelist.capacity
          BY <1>1, <4>2 DEF FreeLists
        <4> QED
          BY <1>3, <4>3, Zenon
      <3> QED
        BY <3>1, <3>2, Zenon DEF Next
    <2> DEFINE n == GrownSize(size)
               a == freelist_alloc(freelist, size)
    <2>2. a.fl.capacity = freelist.capacity
      BY <1>1, AllocKeepsCapacity, Zenon
    <2>3. MayGrow(size) /\ \E p \in vm_alloc_mem(n) :
              LET fl == freelist_add_region(freelist, p, n)
                  c == freelist_alloc(fl, size)
              IN  IF c.block = <<>> THEN Fail("ENOMEM", fl, Bytes(p, n))
                  ELSE Return(c, Bytes(p, n), size)
      <3>1. freelist' # freelist /\ freelist' # a.fl
        BY <1>3, <2>2, Zenon
      <3>2. /\ ~Fail("head is null", freelist, {}) /\ ~Fail("ENOMEM", freelist, {})
            /\ ~Fail("fault", freelist, {}) /\ ~Return(a, {}, size)
        BY <3>1, Zenon DEF Fail, Return
      <3>3. grow_heap(size)
        BY <2>1, <3>2, Zenon DEF kalloc
      <3> QED
        BY <3>2, <3>3, Zenon DEF grow_heap
    <2>4. PICK p \in vm_alloc_mem(n) :
              LET fl == freelist_add_region(freelist, p, n)
                  c == freelist_alloc(fl, size)
              IN  IF c.block = <<>> THEN Fail("ENOMEM", fl, Bytes(p, n))
                  ELSE Return(c, Bytes(p, n), size)
      BY <2>3, Zenon
    <2> DEFINE fl == freelist_add_region(freelist, p, n)
               c == freelist_alloc(fl, size)
    <2>5. fl \in FreeLists
      BY GrowSound, Zenon DEF Sound
    <2>6. c.fl.capacity = fl.capacity
      BY <2>5, AllocKeepsCapacity, Zenon
    <2>7. fl.capacity = freelist.capacity + n
      BY DEF freelist_add_region
    <2>8. freelist'.capacity = fl.capacity
      <3> HIDE DEF fl
      <3>1. freelist' = fl \/ freelist' = c.fl
        BY <2>4, Zenon DEF Fail, Return, fl
      <3> QED
        BY <2>6, <3>1, Zenon
    <2> HIDE DEF fl, c
    <2>9. size \in Nat \ {0} /\ MAX_HEAP_SIZE \in Nat /\ PAGE_SIZE \in Nat
      BY HeapAssumption, Zenon
    <2>10. n < size + PAGE_SIZE /\ n \in Nat
      BY <2>9, RoundedBelow, RegionHoldsHeader, Zenon
    <2> HIDE DEF n
    <2>11. freelist.capacity \in Nat /\ freelist.capacity + size <= MAX_HEAP_SIZE
      BY <1>1, <2>3 DEF FreeLists, MayGrow
    <2>12. freelist.capacity + n < MAX_HEAP_SIZE + PAGE_SIZE
      BY <2>9, <2>10, <2>11
    <2>13. freelist'.capacity < MAX_HEAP_SIZE + PAGE_SIZE
      BY <2>7, <2>8, <2>12, Zenon
    <2> QED
      BY <2>13, Zenon DEF LimitedGrowth
  <1> QED
    BY <1>2, <1>3, Zenon

-----------------------------------------------------------------------------
(* The theorems. *)

(* The invariant holds in every state of the heap. *)
LEMMA Invariant == Spec => []IInv
  <1>1. IInv /\ [Next]_vars => IInv'
    <2> SUFFICES ASSUME IInv, [Next]_vars PROVE IInv'
      BY Zenon
    <2>1. CASE UNCHANGED vars
      <3>1. freelist' = freelist /\ pool' = pool /\ used' = used
        BY <2>1, Zenon DEF vars
      <3>2. Sound(freelist', pool', used')
        BY <3>1, Zenon DEF IInv
      <3> QED
        BY <3>2, Zenon DEF IInv, Sound, Tiled, InList
    <2>2. CASE \E size \in Sizes : kalloc(size)
      BY <2>2, KallocSound, Zenon
    <2>3. CASE \E u \in used : kfree(u)
      BY <2>3, KfreeSound, Zenon
    <2> QED
      BY <2>1, <2>2, <2>3, Zenon DEF Next
  <1> QED
    BY InitSound, <1>1, PTL DEF Spec

(* For headers, pages, limits and requests of any size: freelist.c loses   *)
(* no byte and hands none out twice, merges every two blocks that touch,   *)
(* and says -ENOMEM only when no run of free bytes can hold the request;   *)
(* and kheap.c outgrows the maximum by less than a page.                   *)
THEOREM NothingWastedAlways == Spec => []NothingWasted
  <1>1. IInv /\ LimitedGrowth => NothingWasted
    BY TilingHolds, CoalescedHolds, FailsOnlyWhenFullHolds, Zenon DEF NothingWasted
  <1>2. Init => LimitedGrowth
    <2> SUFFICES ASSUME Init PROVE LimitedGrowth
      BY Zenon
    <2>1. PICK p : freelist = freelist_init(p, INITIAL_HEAP_SIZE)
      BY Zenon DEF Init, kheap_init
    <2>2. freelist.capacity = INITIAL_HEAP_SIZE
      BY <2>1 DEF freelist_init
    <2> QED
      BY <2>2, Zenon DEF LimitedGrowth
  <1>3. IInv /\ LimitedGrowth /\ [Next]_vars => LimitedGrowth'
    BY GrowthLimited, Zenon
  <1> QED
    BY Invariant, <1>1, <1>2, <1>3, PTL DEF Spec

(* kalloc and kfree keep the promise of HeapSpec, whatever the sizes: a    *)
(* caller owns its bytes alone from kalloc to kfree.                       *)
THEOREM KHeapImplementsHeap == Spec => ImplementsHeap
  <1>1. Init => Heap!Init
    <2> SUFFICES ASSUME Init PROVE Heap!Init
      BY Zenon
    <2>1. used = {}
      BY Zenon DEF Init, kheap_init
    <2>2. Owned = {}
      BY <2>1, Zenon DEF Owned
    <2> QED
      BY <2>2, OwnedIs, Zenon DEF Heap!Init
  <1>2. IInv /\ [Next]_vars =>
            [Heap!Next]_<<pool, {[at |-> u.block.at + Header, size |-> u.size] : u \in used}>>
    <2> SUFFICES ASSUME IInv, [Next]_vars
                 PROVE  [Heap!Next]_<<pool, {[at |-> u.block.at + Header, size |-> u.size] : u \in used}>>
      BY Zenon
    <2>1. CASE UNCHANGED vars
      BY <2>1, Zenon DEF vars
    <2>2. CASE \E size \in Sizes : kalloc(size)
      BY <2>2, KallocImplements, Zenon
    <2>3. CASE \E u \in used : kfree(u)
      BY <2>3, KfreeImplements, Zenon
    <2> QED
      BY <2>1, <2>2, <2>3, Zenon DEF Next
  <1> QED
    BY Invariant, <1>1, <1>2, PTL DEF Spec, ImplementsHeap, Heap!Spec
=============================================================================
