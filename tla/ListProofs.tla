--------------------------- MODULE ListProofs -----------------------------
(* The two kinds of list, for any number of lists and nodes and all orders *)
(* of calls.                                                               *)
EXTENDS Lists, TLAPS

-----------------------------------------------------------------------------
(* Sequences, place by place. *)

(* s without its k-th element. *)
Dropped(s, k) == SubSeq(s, 1, k - 1) \o SubSeq(s, k + 1, Len(s))

(* Two sequences in a row. *)
LEMMA InARow ==
    ASSUME NEW S, NEW a \in Seq(S), NEW b \in Seq(S)
    PROVE  /\ a \o b \in Seq(S) /\ Len(a \o b) = Len(a) + Len(b)
           /\ \A j \in 1..Len(a) + Len(b) : (a \o b)[j] = IF j <= Len(a) THEN a[j] ELSE b[j - Len(a)]
  OBVIOUS

(* An element before a sequence. *)
LEMMA Before ==
    ASSUME NEW S, NEW s \in Seq(S), NEW n \in S
    PROVE  /\ <<n>> \o s \in Seq(S) /\ Len(<<n>> \o s) = Len(s) + 1 /\ (<<n>> \o s)[1] = n
           /\ \A i \in 1..Len(s) : (<<n>> \o s)[i + 1] = s[i]
  OBVIOUS

(* An element behind a sequence. *)
LEMMA Behind ==
    ASSUME NEW S, NEW s \in Seq(S), NEW n \in S
    PROVE  /\ Append(s, n) \in Seq(S) /\ Len(Append(s, n)) = Len(s) + 1
           /\ Append(s, n)[Len(s) + 1] = n
           /\ \A i \in 1..Len(s) : Append(s, n)[i] = s[i]
  OBVIOUS

(* A sequence without one of its elements. *)
LEMMA DroppedAt ==
    ASSUME NEW S, NEW s \in Seq(S), NEW k \in 1..Len(s)
    PROVE  /\ Dropped(s, k) \in Seq(S) /\ Len(Dropped(s, k)) = Len(s) - 1
           /\ \A j \in 1..Len(s) - 1 : j < k => Dropped(s, k)[j] = s[j]
           /\ \A j \in 1..Len(s) - 1 : j >= k => Dropped(s, k)[j] = s[j + 1]
  <1> DEFINE a == SubSeq(s, 1, k - 1)
             b == SubSeq(s, k + 1, Len(s))
  <1>1. Len(s) \in Nat /\ k \in Nat /\ 1 <= k /\ k <= Len(s)
    OBVIOUS
  <1>2. a \in Seq(S) /\ Len(a) = k - 1 /\ \A j \in 1..k - 1 : a[j] = s[j]
    BY <1>1
  <1>3. b \in Seq(S) /\ Len(b) = Len(s) - k /\ \A j \in 1..Len(s) - k : b[j] = s[j + k]
    BY <1>1
  <1>4. Dropped(s, k) = a \o b
    BY Zenon DEF Dropped
  <1> HIDE DEF a, b
  <1>5. /\ a \o b \in Seq(S) /\ Len(a \o b) = Len(a) + Len(b)
        /\ \A j \in 1..Len(a) + Len(b) : (a \o b)[j] = IF j <= Len(a) THEN a[j] ELSE b[j - Len(a)]
    BY <1>2, <1>3, InARow, Zenon
  <1>6. Len(a) = k - 1 /\ Len(a) + Len(b) = Len(s) - 1
    BY <1>1, <1>2, <1>3
  <1>7. \A j \in 1..Len(s) - 1 : (a \o b)[j] = IF j <= k - 1 THEN a[j] ELSE b[j - (k - 1)]
    BY <1>5, <1>6, Zenon
  <1>8. ASSUME NEW j \in 1..Len(s) - 1, j < k PROVE (a \o b)[j] = s[j]
    <2>1. j <= k - 1 /\ j \in 1..k - 1
      BY <1>1, <1>8
    <2> QED
      BY <1>2, <1>7, <2>1, Zenon
  <1>9. ASSUME NEW j \in 1..Len(s) - 1, j >= k PROVE (a \o b)[j] = s[j + 1]
    <2>1. ~(j <= k - 1) /\ j - (k - 1) \in 1..Len(s) - k /\ j - (k - 1) + k = j + 1
      BY <1>1, <1>9
    <2> QED
      BY <1>3, <1>7, <2>1, Zenon
  <1> QED
    BY <1>4, <1>5, <1>6, <1>8, <1>9, Zenon

-----------------------------------------------------------------------------
(* Pointers. *)

(* The nodes of s are linked from h to t by nx, and back by pv. *)
Chain(s, h, t, nx, pv) ==
    /\ Len(s) = 0 => h = null /\ t = null
    /\ Len(s) > 0 => h = s[1] /\ t = s[Len(s)]
    /\ \A i \in 1..Len(s) :
           /\ i = Len(s) => nx[s[i]] = null
           /\ i < Len(s) => nx[s[i]] = s[i + 1]
           /\ i = 1 => pv[s[i]] = null
           /\ i > 1 => pv[s[i]] = s[i - 1]

Distinct(s) == \A i, j \in 1..Len(s) : s[i] = s[j] => i = j

(* A null pointer is none to a node. *)
LEMMA NullIsNoNode == null \notin Nodes /\ junk \notin Nodes \cup Data \cup {null} /\ null \notin Data
  BY ListsAssumption, Zenon DEF Intrusive!ListAssumption, Linked!LinkedListAssumption

(* A node linked before the first. *)
LEMMA ChainBefore ==
    ASSUME NEW s \in Seq(Nodes), NEW n \in Nodes, NEW h, NEW t, NEW nx, NEW pv,
           Chain(s, h, t, nx, pv),
           NEW mx, NEW qv, mx[n] = h, qv[n] = null,
           \A i \in 1..Len(s) : mx[s[i]] = nx[s[i]],
           \A i \in 1..Len(s) : i = 1 => qv[s[i]] = n,
           \A i \in 1..Len(s) : i > 1 => qv[s[i]] = pv[s[i]],
           NEW u, h # null => u = t, h = null => u = n
    PROVE  Chain(<<n>> \o s, n, u, mx, qv)
  <1> DEFINE r == <<n>> \o s
  <1>1. Len(s) \in Nat /\ \A i \in 1..Len(s) : s[i] \in Nodes
    OBVIOUS
  <1>2. /\ r \in Seq(Nodes) /\ Len(r) = Len(s) + 1 /\ r[1] = n
        /\ \A i \in 1..Len(s) : r[i + 1] = s[i]
    BY Before
  <1> HIDE DEF r
  <1>3. u = r[Len(r)]
    <2>1. CASE Len(s) = 0
      BY <1>2, <2>1 DEF Chain
    <2>2. CASE Len(s) # 0
      <3>1. Len(s) > 0 /\ Len(s) \in 1..Len(s) /\ 1 \in 1..Len(s)
        BY <1>1, <2>2
      <3>2. h = s[1] /\ t = s[Len(s)]
        BY <3>1, Zenon DEF Chain
      <3>3. u = t
        BY <1>1, <3>1, <3>2, NullIsNoNode, Zenon
      <3> QED
        BY <1>2, <3>1, <3>2, <3>3, Zenon
    <2> QED
      BY <2>1, <2>2, Zenon
  <1>4. ASSUME NEW i \in 1..Len(r), i = 1
        PROVE  /\ i = Len(r) => mx[r[i]] = null
               /\ i < Len(r) => mx[r[i]] = r[i + 1]
               /\ qv[r[i]] = null
    BY <1>1, <1>2, <1>4 DEF Chain
  <1>5. ASSUME NEW i \in 1..Len(r), i > 1
        PROVE  /\ i = Len(r) => mx[r[i]] = null
               /\ i < Len(r) => mx[r[i]] = r[i + 1]
               /\ qv[r[i]] = r[i - 1]
    <2> DEFINE j == i - 1
    <2>1. /\ j \in 1..Len(s) /\ i = j + 1 /\ (i = Len(r) <=> j = Len(s)) /\ (i < Len(r) <=> j < Len(s))
          /\ (j = 1 => i - 1 = 1) /\ (j > 1 => i - 1 = (j - 1) + 1 /\ j - 1 \in 1..Len(s))
          /\ (j < Len(s) => j + 1 \in 1..Len(s)) /\ (j = 1 \/ j > 1)
      BY <1>1, <1>2, <1>5
    <2> HIDE DEF j
    <2>2. r[i] = s[j] /\ mx[s[j]] = nx[s[j]]
      BY <1>2, <2>1, Zenon
    <2>3. j < Len(s) => r[i + 1] = s[j + 1]
      BY <1>2, <2>1, Zenon
    <2>4. qv[s[j]] = r[i - 1]
      <3>1. CASE j = 1
        BY <1>2, <2>1, <3>1, Zenon
      <3>2. CASE j > 1
        <4>1. qv[s[j]] = s[j - 1]
          BY <2>1, <3>2, Zenon DEF Chain
        <4>2. r[j - 1 + 1] = s[j - 1]
          BY <1>2, <2>1, <3>2, Zenon
        <4> QED
          BY <2>1, <3>2, <4>1, <4>2, Zenon
      <3> QED
        BY <2>1, <3>1, <3>2, Zenon
    <2> QED
      BY <2>1, <2>2, <2>3, <2>4, Zenon DEF Chain
  <1>6. Len(r) # 0 /\ \A i \in 1..Len(r) : i = 1 \/ i > 1
    BY <1>1, <1>2
  <1>7. \A i \in 1..Len(r) : ~(i = 1 /\ i > 1)
    BY <1>1, <1>2
  <1>8. Chain(r, n, u, mx, qv)
    BY <1>2, <1>3, <1>4, <1>5, <1>6, <1>7, Zenon DEF Chain
  <1> QED
    BY <1>8, Zenon DEF r

(* A node linked behind the last. *)
LEMMA ChainBehind ==
    ASSUME NEW s \in Seq(Nodes), NEW n \in Nodes, NEW h, NEW t, NEW nx, NEW pv,
           Chain(s, h, t, nx, pv),
           NEW mx, NEW qv, mx[n] = null, qv[n] = t,
           \A i \in 1..Len(s) : qv[s[i]] = pv[s[i]],
           \A i \in 1..Len(s) : i = Len(s) => mx[s[i]] = n,
           \A i \in 1..Len(s) : i < Len(s) => mx[s[i]] = nx[s[i]],
           NEW u, t # null => u = h, t = null => u = n
    PROVE  Chain(Append(s, n), u, n, mx, qv)
  <1> DEFINE r == Append(s, n)
  <1>1. Len(s) \in Nat /\ \A i \in 1..Len(s) : s[i] \in Nodes
    OBVIOUS
  <1>2. /\ r \in Seq(Nodes) /\ Len(r) = Len(s) + 1 /\ r[Len(s) + 1] = n
        /\ \A i \in 1..Len(s) : r[i] = s[i]
    BY Behind
  <1> HIDE DEF r
  <1>3. u = r[1]
    <2>1. CASE Len(s) = 0
      BY <1>2, <2>1 DEF Chain
    <2>2. CASE Len(s) # 0
      <3>1. Len(s) > 0 /\ Len(s) \in 1..Len(s) /\ 1 \in 1..Len(s)
        BY <1>1, <2>2
      <3>2. h = s[1] /\ t = s[Len(s)]
        BY <3>1, Zenon DEF Chain
      <3>3. u = h
        BY <1>1, <3>1, <3>2, NullIsNoNode, Zenon
      <3> QED
        BY <1>2, <3>1, <3>2, <3>3, Zenon
    <2> QED
      BY <2>1, <2>2, Zenon
  <1>4. ASSUME NEW i \in 1..Len(r), i = Len(r)
        PROVE  /\ mx[r[i]] = null
               /\ i = 1 => qv[r[i]] = null
               /\ i > 1 => qv[r[i]] = r[i - 1]
    <2>1. r[i] = n
      BY <1>2, <1>4, Zenon
    <2>2. i = 1 => Len(s) = 0
      BY <1>1, <1>2, <1>4
    <2>3. i > 1 => i - 1 \in 1..Len(s) /\ i - 1 = Len(s) /\ Len(s) > 0
      BY <1>1, <1>2, <1>4
    <2>4. i > 1 => r[i - 1] = t
      BY <1>2, <2>3, Zenon DEF Chain
    <2> QED
      BY <2>1, <2>2, <2>4, Zenon DEF Chain
  <1>5. ASSUME NEW i \in 1..Len(r), i < Len(r)
        PROVE  /\ mx[r[i]] = r[i + 1]
               /\ i = 1 => qv[r[i]] = null
               /\ i > 1 => qv[r[i]] = r[i - 1]
    <2>1. /\ i \in 1..Len(s) /\ (i = Len(s) \/ i < Len(s))
          /\ (i < Len(s) => i + 1 \in 1..Len(s)) /\ (i > 1 => i - 1 \in 1..Len(s))
      BY <1>1, <1>2, <1>5
    <2>2. r[i] = s[i] /\ qv[s[i]] = pv[s[i]]
      BY <1>2, <2>1, Zenon
    <2>3. mx[s[i]] = r[i + 1]
      BY <1>2, <2>1, Zenon DEF Chain
    <2>4. i > 1 => r[i - 1] = s[i - 1]
      BY <1>2, <2>1, Zenon
    <2> QED
      BY <2>1, <2>2, <2>3, <2>4, Zenon DEF Chain
  <1>6. Len(r) # 0 /\ \A i \in 1..Len(r) : i = Len(r) \/ i < Len(r)
    BY <1>1, <1>2
  <1>7. \A i \in 1..Len(r) : ~(i = Len(r) /\ i < Len(r))
    BY <1>1, <1>2
  <1>8. n = r[Len(r)]
    BY <1>2, Zenon
  <1>9. Chain(r, u, n, mx, qv)
    BY <1>2, <1>3, <1>4, <1>5, <1>6, <1>7, <1>8, Zenon DEF Chain
  <1> QED
    BY <1>9, Zenon DEF r

(* In the chain s the k-th node n is bypassed: from nx and pv to mx and    *)
(* qv, with g and e the ends for h and t.                                  *)
Bypassed(s, k, n, h, t, nx, pv, mx, qv, g, e) ==
    /\ s \in Seq(Nodes) /\ Distinct(s) /\ k \in 1..Len(s) /\ n = s[k]
    /\ Chain(s, h, t, nx, pv)
    /\ \A i \in 1..Len(s) : i # k => (s[i] = pv[n] => mx[s[i]] = nx[n])
    /\ \A i \in 1..Len(s) : i # k => (s[i] # pv[n] => mx[s[i]] = nx[s[i]])
    /\ \A i \in 1..Len(s) : i # k => (s[i] = nx[n] => qv[s[i]] = pv[n])
    /\ \A i \in 1..Len(s) : i # k => (s[i] # nx[n] => qv[s[i]] = pv[s[i]])
    /\ (pv[n] # null => g = h) /\ (pv[n] = null => g = nx[n])
    /\ (nx[n] # null => e = t) /\ (nx[n] = null => e = pv[n])

(* The node at k taken out, its neighbours linked to each other. *)
LEMMA ChainDropped ==
    ASSUME NEW s, NEW k, NEW n, NEW h, NEW t, NEW nx, NEW pv, NEW mx, NEW qv, NEW g, NEW e,
           Bypassed(s, k, n, h, t, nx, pv, mx, qv, g, e)
    PROVE  Chain(Dropped(s, k), g, e, mx, qv)
  <1> DEFINE r == Dropped(s, k)
             L == Len(s)
  <1>0. s \in Seq(Nodes) /\ k \in 1..L /\ n = s[k] /\ Chain(s, h, t, nx, pv)
    BY Zenon DEF Bypassed
  <1>1. L \in Nat /\ k \in Nat /\ 1 <= k /\ k <= L /\ \A i \in 1..L : s[i] \in Nodes
    BY <1>0
  <1>2. /\ r \in Seq(Nodes) /\ Len(r) = L - 1
        /\ \A j \in 1..L - 1 : j < k => r[j] = s[j]
        /\ \A j \in 1..L - 1 : j >= k => r[j] = s[j + 1]
    BY <1>0, DroppedAt
  <1>3. \A i, j \in 1..L : s[i] = s[j] => i = j
    BY Zenon DEF Bypassed, Distinct
  <1>4. /\ k = 1 => pv[n] = null
        /\ k > 1 => pv[n] = s[k - 1]
        /\ k = L => nx[n] = null
        /\ k < L => nx[n] = s[k + 1]
    BY <1>0, Zenon DEF Chain
  <1>5. /\ h = s[1] /\ t = s[L]
    <2>1. L > 0
      BY <1>1
    <2> QED
      BY <1>0, <2>1, Zenon DEF Chain
  <1>6. \A i \in 1..L : /\ i = L => nx[s[i]] = null
                        /\ i < L => nx[s[i]] = s[i + 1]
                        /\ i = 1 => pv[s[i]] = null
                        /\ i > 1 => pv[s[i]] = s[i - 1]
    BY <1>0, Zenon DEF Chain
  <1>7. /\ \A i \in 1..L : i # k => (s[i] = pv[n] => mx[s[i]] = nx[n])
        /\ \A i \in 1..L : i # k => (s[i] # pv[n] => mx[s[i]] = nx[s[i]])
        /\ \A i \in 1..L : i # k => (s[i] = nx[n] => qv[s[i]] = pv[n])
        /\ \A i \in 1..L : i # k => (s[i] # nx[n] => qv[s[i]] = pv[s[i]])
    BY Zenon DEF Bypassed
  <1>a. /\ (pv[n] # null => g = h) /\ (pv[n] = null => g = nx[n])
        /\ (nx[n] # null => e = t) /\ (nx[n] = null => e = pv[n])
    BY Zenon DEF Bypassed
  <1> HIDE DEF r, L
  (* The links of the nodes that stay. *)
  <1>8. ASSUME NEW i \in 1..L, i # k
        PROVE  /\ i = k - 1 => mx[s[i]] = nx[n]
               /\ i # k - 1 => mx[s[i]] = nx[s[i]]
               /\ i = k + 1 => qv[s[i]] = pv[n]
               /\ i # k + 1 => qv[s[i]] = pv[s[i]]
    <2>1. i = k - 1 => k > 1
      BY <1>1
    <2>2. i = k + 1 => k < L
      BY <1>1
    <2>3. i # k - 1 => s[i] # pv[n]
      <3>1. CASE k = 1
        BY <1>1, <1>4, <3>1, NullIsNoNode, Zenon
      <3>2. CASE k > 1
        <4>1. k - 1 \in 1..L
          BY <1>1, <3>2
        <4> QED
          BY <1>3, <1>4, <3>2, <4>1, Zenon
      <3> QED
        BY <1>1, <3>1, <3>2
    <2>4. i # k + 1 => s[i] # nx[n]
      <3>1. CASE k = L
        BY <1>1, <1>4, <3>1, NullIsNoNode, Zenon
      <3>2. CASE k < L
        <4>1. k + 1 \in 1..L
          BY <1>1, <3>2
        <4> QED
          BY <1>3, <1>4, <3>2, <4>1, Zenon
      <3> QED
        BY <1>1, <3>1, <3>2
    <2> QED
      BY <1>4, <1>7, <1>8, <2>1, <2>2, <2>3, <2>4, Zenon
  <1>9. ASSUME L = 1 PROVE g = null /\ e = null
    <2>1. k = 1 /\ k = L
      BY <1>1, <1>9
    <2> QED
      BY <1>4, <1>a, <2>1, Zenon
  <1>10. ASSUME L > 1 PROVE g = r[1] /\ e = r[L - 1]
    <2>1. 1 \in 1..L - 1 /\ L - 1 \in 1..L - 1 /\ 1 + 1 = 2 /\ L - 1 + 1 = L /\ k + 1 \in Nat
      BY <1>1, <1>10
    <2>2. g = r[1]
      <3>1. CASE k = 1
        <4>1. k < L /\ 1 >= k /\ k + 1 = 1 + 1 /\ k + 1 \in 1..L
          BY <1>1, <1>10, <3>1
        <4> QED
          BY <1>2, <1>4, <1>a, <2>1, <3>1, <4>1, Zenon
      <3>2. CASE k > 1
        <4>1. k - 1 \in 1..L /\ 1 < k
          BY <1>1, <3>2
        <4>2. g = h
          BY <1>1, <1>4, <1>a, <3>2, <4>1, NullIsNoNode, Zenon
        <4> QED
          BY <1>2, <1>5, <2>1, <4>1, <4>2, Zenon
      <3> QED
        BY <1>1, <3>1, <3>2
    <2>3. e = r[L - 1]
      <3>1. CASE k = L
        <4>1. k > 1 /\ L - 1 < k /\ k - 1 = L - 1
          BY <1>1, <1>10, <3>1
        <4> QED
          BY <1>2, <1>4, <1>a, <2>1, <3>1, <4>1, Zenon
      <3>2. CASE k < L
        <4>1. k + 1 \in 1..L /\ L - 1 >= k
          BY <1>1, <3>2
        <4>2. e = t
          BY <1>1, <1>4, <1>a, <3>2, <4>1, NullIsNoNode, Zenon
        <4> QED
          BY <1>2, <1>5, <2>1, <4>1, <4>2, Zenon
      <3> QED
        BY <1>1, <3>1, <3>2
    <2> QED
      BY <2>2, <2>3, Zenon
  <1>11. ASSUME NEW j \in 1..L - 1
         PROVE  /\ j = L - 1 => mx[r[j]] = null
                /\ j < L - 1 => mx[r[j]] = r[j + 1]
    <2>1. CASE j < k - 1
      <3>1. /\ j \in 1..L /\ j # k /\ j # k - 1 /\ j < k /\ j + 1 < k /\ j + 1 \in 1..L - 1
            /\ j # L - 1 /\ j < L
        BY <1>1, <2>1
      <3>2. r[j] = s[j] /\ mx[s[j]] = nx[s[j]]
        BY <1>2, <1>8, <3>1, Zenon
      <3>3. r[j + 1] = s[j + 1]
        BY <1>2, <3>1, Zenon
      <3>4. nx[s[j]] = s[j + 1]
        BY <1>6, <3>1, Zenon
      <3> QED
        BY <3>1, <3>2, <3>3, <3>4, Zenon
    <2>2. CASE j = k - 1
      <3>1. /\ j \in 1..L /\ j # k /\ j < k /\ j + 1 = k /\ (j = L - 1 => k = L)
            /\ (j < L - 1 => k < L /\ k \in 1..L - 1 /\ k >= k)
        BY <1>1, <2>2
      <3>2. mx[r[j]] = nx[n]
        BY <1>2, <1>8, <2>2, <3>1, Zenon
      <3> QED
        BY <1>2, <1>4, <3>1, <3>2, Zenon
    <2>3. CASE j >= k
      <3> DEFINE i == j + 1
      <3>1. /\ i \in 1..L /\ i # k /\ i # k - 1 /\ (j = L - 1 => i = L)
            /\ (j < L - 1 => i < L /\ i \in 1..L - 1 /\ i >= k)
        BY <1>1, <2>3
      <3>2. r[j] = s[i]
        BY <1>2, <2>3, Zenon
      <3> HIDE DEF i
      <3>3. mx[s[i]] = nx[s[i]]
        BY <1>8, <3>1, Zenon
      <3>4. j < L - 1 => r[i] = s[i + 1]
        BY <1>2, <3>1, Zenon
      <3>5. j < L - 1 => nx[s[i]] = r[i]
        BY <1>6, <3>1, <3>4, Zenon
      <3>6. j = L - 1 => nx[s[i]] = null
        BY <1>6, <3>1, Zenon
      <3> QED
        BY <3>2, <3>3, <3>5, <3>6, Zenon DEF i
    <2>4. j < k - 1 \/ j = k - 1 \/ j >= k
      BY <1>1
    <2> QED
      BY <2>1, <2>2, <2>3, <2>4, Zenon
  <1>12. ASSUME NEW j \in 1..L - 1
         PROVE  /\ j = 1 => qv[r[j]] = null
                /\ j > 1 => qv[r[j]] = r[j - 1]
    <2>1. CASE j < k
      <3>1. /\ j \in 1..L /\ j # k /\ j # k + 1
            /\ (j > 1 => j - 1 \in 1..L - 1 /\ j - 1 < k)
        BY <1>1, <2>1
      <3>2. r[j] = s[j] /\ qv[s[j]] = pv[s[j]]
        BY <1>2, <1>8, <2>1, <3>1, Zenon
      <3> QED
        BY <1>2, <1>6, <3>1, <3>2, Zenon
    <2>2. CASE j = k
      <3> DEFINE i == k + 1
      <3>1. /\ i \in 1..L /\ i # k /\ j >= k
            /\ (j > 1 => k > 1 /\ k - 1 \in 1..L - 1 /\ k - 1 < k)
        BY <1>1, <2>2
      <3>2. r[j] = s[i]
        BY <1>2, <2>2, <3>1, Zenon
      <3>3. qv[s[i]] = pv[n]
        BY <1>8, <3>1, Zenon
      <3>4. j > 1 => r[k - 1] = s[k - 1]
        BY <1>2, <3>1, Zenon
      <3> HIDE DEF i
      <3> QED
        BY <1>4, <2>2, <3>1, <3>2, <3>3, <3>4, Zenon
    <2>3. CASE j > k
      <3> DEFINE i == j + 1
      <3>1. /\ i \in 1..L /\ i # k /\ i # k + 1 /\ i > 1 /\ i - 1 = j
            /\ j >= k /\ j # 1 /\ j - 1 \in 1..L - 1 /\ j - 1 >= k /\ j - 1 + 1 = j
        BY <1>1, <2>3
      <3>2. r[j] = s[i] /\ r[j - 1] = s[j]
        BY <1>2, <3>1, Zenon
      <3>3. qv[s[i]] = pv[s[i]]
        BY <1>8, <3>1, Zenon
      <3>4. pv[s[i]] = s[j]
        BY <1>6, <3>1, Zenon
      <3> QED
        BY <3>1, <3>2, <3>3, <3>4, Zenon
    <2>4. j < k \/ j = k \/ j > k
      BY <1>1
    <2> QED
      BY <2>1, <2>2, <2>3, <2>4, Zenon
  <1>13. (Len(r) = 0 => L = 1) /\ (Len(r) > 0 => L > 1)
    BY <1>1, <1>2
  <1>14. Chain(r, g, e, mx, qv)
    BY <1>2, <1>9, <1>10, <1>11, <1>12, <1>13, Zenon DEF Chain
  <1> QED
    BY <1>14, Zenon DEF r

(* A chain whose nodes keep their links. *)
LEMMA ChainKept ==
    ASSUME NEW s \in Seq(Nodes), NEW h, NEW t, NEW nx, NEW pv, Chain(s, h, t, nx, pv),
           NEW mx, NEW qv, \A i \in 1..Len(s) : mx[s[i]] = nx[s[i]] /\ qv[s[i]] = pv[s[i]]
    PROVE  Chain(s, h, t, mx, qv)
  BY Zenon DEF Chain

-----------------------------------------------------------------------------
(* Distinct nodes. *)

(* A new node before the others. *)
LEMMA DistinctBefore ==
    ASSUME NEW s \in Seq(Nodes), Distinct(s), NEW n \in Nodes, \A i \in 1..Len(s) : s[i] # n
    PROVE  Distinct(<<n>> \o s)
  <1> DEFINE r == <<n>> \o s
  <1>1. Len(s) \in Nat
    OBVIOUS
  <1>2. Len(r) = Len(s) + 1 /\ r[1] = n /\ \A i \in 1..Len(s) : r[i + 1] = s[i]
    BY Before
  <1> HIDE DEF r
  <1>3. \A i \in 1..Len(r) : i = 1 \/ (i - 1 \in 1..Len(s) /\ i - 1 + 1 = i)
    BY <1>1, <1>2
  <1>4. ASSUME NEW i \in 1..Len(r), NEW j \in 1..Len(r), r[i] = r[j] PROVE i = j
    <2>1. i # 1 => r[i] = s[i - 1] /\ i - 1 \in 1..Len(s)
      BY <1>2, <1>3, Zenon
    <2>2. j # 1 => r[j] = s[j - 1] /\ j - 1 \in 1..Len(s)
      BY <1>2, <1>3, Zenon
    <2>3. CASE i # 1 /\ j # 1
      <3>1. i - 1 = j - 1
        BY <1>4, <2>1, <2>2, <2>3, Zenon DEF Distinct
      <3> QED
        BY <3>1
    <2>4. CASE ~(i # 1 /\ j # 1)
      BY <1>2, <1>4, <2>1, <2>2, <2>4, Zenon
    <2> QED
      BY <2>3, <2>4, Zenon
  <1> QED
    BY <1>4, Zenon DEF Distinct, r

(* A new node behind the others. *)
LEMMA DistinctBehind ==
    ASSUME NEW s \in Seq(Nodes), Distinct(s), NEW n \in Nodes, \A i \in 1..Len(s) : s[i] # n
    PROVE  Distinct(Append(s, n))
  <1> DEFINE r == Append(s, n)
  <1>1. Len(s) \in Nat
    OBVIOUS
  <1>2. Len(r) = Len(s) + 1 /\ r[Len(s) + 1] = n /\ \A i \in 1..Len(s) : r[i] = s[i]
    BY Behind
  <1> HIDE DEF r
  <1>3. \A i \in 1..Len(r) : i = Len(s) + 1 \/ i \in 1..Len(s)
    BY <1>1, <1>2
  <1>4. ASSUME NEW i \in 1..Len(r), NEW j \in 1..Len(r), r[i] = r[j] PROVE i = j
    BY <1>2, <1>3, <1>4, Zenon DEF Distinct
  <1> QED
    BY <1>4, Zenon DEF Distinct, r

(* One node fewer. *)
LEMMA DistinctDropped ==
    ASSUME NEW s \in Seq(Nodes), Distinct(s), NEW k \in 1..Len(s)
    PROVE  /\ Distinct(Dropped(s, k))
           /\ \A j \in 1..Len(Dropped(s, k)) :
                  \E i \in 1..Len(s) : i # k /\ Dropped(s, k)[j] = s[i]
           /\ \A i \in 1..Len(s) : i # k =>
                  \E j \in 1..Len(Dropped(s, k)) : Dropped(s, k)[j] = s[i]
  <1> DEFINE r == Dropped(s, k)
  <1>1. Len(s) \in Nat /\ k \in Nat
    OBVIOUS
  <1>2. /\ Len(r) = Len(s) - 1
        /\ \A j \in 1..Len(s) - 1 : j < k => r[j] = s[j]
        /\ \A j \in 1..Len(s) - 1 : j >= k => r[j] = s[j + 1]
    BY DroppedAt
  <1> HIDE DEF r
  <1> DEFINE at(j) == IF j < k THEN j ELSE j + 1
  <1>3. ASSUME NEW j \in 1..Len(r) PROVE r[j] = s[at(j)]
    <2>1. j \in 1..Len(s) - 1 /\ (j < k \/ j >= k) /\ (j >= k => ~(j < k))
      BY <1>1, <1>2
    <2> QED
      BY <1>2, <2>1, Zenon
  <1>4. \A j \in 1..Len(r) : at(j) \in 1..Len(s) /\ at(j) # k
    BY <1>1, <1>2
  <1>5. \A i, j \in 1..Len(r) : at(i) = at(j) => i = j
    BY <1>1, <1>2
  <1>6. ASSUME NEW i \in 1..Len(s), i # k PROVE \E j \in 1..Len(r) : at(j) = i
    <2>1. CASE i < k
      <3>1. i \in 1..Len(r) /\ at(i) = i
        BY <1>1, <1>2, <2>1
      <3> QED
        BY <3>1, Zenon
    <2>2. CASE i > k
      <3>1. i - 1 \in 1..Len(r) /\ at(i - 1) = i
        BY <1>1, <1>2, <2>2
      <3> QED
        BY <3>1, Zenon
    <2>3. i < k \/ i > k
      BY <1>1, <1>6
    <2> QED
      BY <2>1, <2>2, <2>3, Zenon
  <1> HIDE DEF at
  <1>7. \A i, j \in 1..Len(r) : r[i] = r[j] => i = j
    BY <1>3, <1>4, <1>5, Zenon DEF Distinct
  <1>8. \A j \in 1..Len(r) : \E i \in 1..Len(s) : i # k /\ r[j] = s[i]
    BY <1>3, <1>4, Zenon
  <1>9. \A i \in 1..Len(s) : i # k => \E j \in 1..Len(r) : r[j] = s[i]
    BY <1>3, <1>6, Zenon
  <1> QED
    BY <1>7, <1>8, <1>9, Zenon DEF Distinct, r

-----------------------------------------------------------------------------
(* The intrusive lists. *)

(* The lists with heads h, tails t and counts c are the sequences q, no    *)
(* node in two places.                                                     *)
Laid(q, h, t, c, nx, pv) ==
    /\ q \in [Lists -> Seq(Nodes)]
    /\ \A l \in Lists : /\ c[l] = Len(q[l])
                        /\ Chain(q[l], h[l], t[l], nx, pv)
                        /\ Distinct(q[l])
    /\ \A l, m \in Lists : l # m =>
           \A i \in 1..Len(q[l]), j \in 1..Len(q[m]) : q[l][i] # q[m][j]

(* What an operation on list l leaves alone: the fields of other lists. *)
Others(l, h, t, c, g, u, d) ==
    \A m \in Lists : m # l => g[m] = h[m] /\ u[m] = t[m] /\ d[m] = c[m]

(* From q, list l becomes s, and the nodes of the others keep their links. *)
Moved(q, h, t, c, nx, pv, l, s, g, u, d, mx, qv) ==
    /\ Laid(q, h, t, c, nx, pv) /\ l \in Lists /\ s \in Seq(Nodes) /\ Distinct(s)
    /\ d[l] = Len(s) /\ Chain(s, g[l], u[l], mx, qv) /\ Others(l, h, t, c, g, u, d)
    /\ \A m \in Lists : m # l => \A i \in 1..Len(q[m]) :
           mx[q[m][i]] = nx[q[m][i]] /\ qv[q[m][i]] = pv[q[m][i]]
    /\ \A m \in Lists : m # l => \A i \in 1..Len(q[m]), j \in 1..Len(s) : q[m][i] # s[j]

(* The other lists stay as they are. *)
LEMMA OneList ==
    ASSUME NEW q, NEW h, NEW t, NEW c, NEW nx, NEW pv, NEW l, NEW s,
           NEW g, NEW u, NEW d, NEW mx, NEW qv,
           Moved(q, h, t, c, nx, pv, l, s, g, u, d, mx, qv)
    PROVE  Laid([q EXCEPT ![l] = s], g, u, d, mx, qv)
  <1> DEFINE p == [q EXCEPT ![l] = s]
  <1>0. /\ Laid(q, h, t, c, nx, pv) /\ l \in Lists /\ s \in Seq(Nodes) /\ Distinct(s)
        /\ d[l] = Len(s) /\ Chain(s, g[l], u[l], mx, qv)
    BY Zenon DEF Moved
  <1>1. q \in [Lists -> Seq(Nodes)]
    BY <1>0, Zenon DEF Laid
  <1>2. p \in [Lists -> Seq(Nodes)] /\ p[l] = s /\ \A m \in Lists : m # l => p[m] = q[m]
    BY <1>0, <1>1, Zenon
  <1> HIDE DEF p
  <1>3. ASSUME NEW m \in Lists, m # l
        PROVE  d[m] = Len(q[m]) /\ Chain(q[m], g[m], u[m], mx, qv) /\ Distinct(q[m])
    <2>1. c[m] = Len(q[m]) /\ Chain(q[m], h[m], t[m], nx, pv) /\ Distinct(q[m])
      BY <1>0, Zenon DEF Laid
    <2>2. \A i \in 1..Len(q[m]) : mx[q[m][i]] = nx[q[m][i]] /\ qv[q[m][i]] = pv[q[m][i]]
      BY <1>3, Zenon DEF Moved
    <2>3. g[m] = h[m] /\ u[m] = t[m] /\ d[m] = c[m]
      BY <1>3, Zenon DEF Moved, Others
    <2>4. q[m] \in Seq(Nodes)
      BY <1>1, Zenon
    <2>5. Chain(q[m], h[m], t[m], mx, qv)
      BY ONLY <2>1, <2>2, <2>4, ChainKept, Zenon
    <2> QED
      BY <2>1, <2>3, <2>5, Zenon
  <1>4. \A m \in Lists : d[m] = Len(p[m]) /\ Chain(p[m], g[m], u[m], mx, qv) /\ Distinct(p[m])
    BY <1>0, <1>2, <1>3, Zenon
  <1>5. ASSUME NEW a \in Lists, NEW b \in Lists, a # b,
               NEW i \in 1..Len(p[a]), NEW j \in 1..Len(p[b])
        PROVE  p[a][i] # p[b][j]
    <2>1. CASE a = l
      <3>1. p[a] = s /\ p[b] = q[b] /\ b # l
        BY <1>2, <1>5, <2>1, Zenon
      <3>2. \A k \in 1..Len(q[b]), n \in 1..Len(s) : q[b][k] # s[n]
        BY <3>1, Zenon DEF Moved
      <3> QED
        BY <3>1, <3>2
    <2>2. CASE b = l
      <3>1. p[b] = s /\ p[a] = q[a] /\ a # l
        BY <1>2, <1>5, <2>2, Zenon
      <3>2. \A k \in 1..Len(q[a]), n \in 1..Len(s) : q[a][k] # s[n]
        BY <3>1, Zenon DEF Moved
      <3> QED
        BY <3>1, <3>2
    <2>3. CASE a # l /\ b # l
      <3>1. p[a] = q[a] /\ p[b] = q[b]
        BY <1>2, <2>3, Zenon
      <3>2. \A k \in 1..Len(q[a]), n \in 1..Len(q[b]) : q[a][k] # q[b][n]
        BY <1>0, <1>5, Zenon DEF Laid
      <3> QED
        BY <3>1, <3>2
    <2> QED
      BY <2>1, <2>2, <2>3, Zenon
  <1> QED
    BY <1>2, <1>4, <1>5, Zenon DEF Laid, p

(* The end nodes of a list are its own, or null. *)
LEMMA Ends ==
    ASSUME NEW q, NEW h, NEW t, NEW c, NEW nx, NEW pv, Laid(q, h, t, c, nx, pv),
           NEW l \in Lists
    PROVE  /\ q[l] \in Seq(Nodes) /\ Len(q[l]) \in Nat /\ Distinct(q[l])
           /\ Chain(q[l], h[l], t[l], nx, pv) /\ c[l] = Len(q[l])
           /\ \A i \in 1..Len(q[l]) : q[l][i] \in Nodes
           /\ (Len(q[l]) = 0 /\ h[l] = null /\ t[l] = null)
              \/ (/\ 1 \in 1..Len(q[l]) /\ Len(q[l]) \in 1..Len(q[l])
                  /\ h[l] = q[l][1] /\ t[l] = q[l][Len(q[l])])
  <1>1. q[l] \in Seq(Nodes) /\ Distinct(q[l]) /\ Chain(q[l], h[l], t[l], nx, pv) /\ c[l] = Len(q[l])
    BY Zenon DEF Laid
  <1>2. Len(q[l]) \in Nat /\ \A i \in 1..Len(q[l]) : q[l][i] \in Nodes
    BY ONLY <1>1
  <1>3. Len(q[l]) = 0 \/ (Len(q[l]) > 0 /\ 1 \in 1..Len(q[l]) /\ Len(q[l]) \in 1..Len(q[l]))
    BY ONLY <1>2
  <1> QED
    BY <1>1, <1>2, <1>3, Zenon DEF Chain

(* n, a free node, is linked before the head of l: from nx and pv to mx   *)
(* and qv, with the fields g, u, d for h, t, c.                            *)
PutBefore(q, h, t, c, nx, pv, l, n, g, u, d, mx, qv) ==
    /\ Laid(q, h, t, c, nx, pv) /\ l \in Lists /\ n \in Nodes
    /\ \A m \in Lists : \A i \in 1..Len(q[m]) : q[m][i] # n
    /\ Others(l, h, t, c, g, u, d) /\ d[l] = c[l] + 1
    /\ g[l] = n /\ (h[l] # null => u[l] = t[l]) /\ (h[l] = null => u[l] = n)
    /\ mx[n] = h[l] /\ qv[n] = null
    /\ \A x \in Nodes : x # n => mx[x] = nx[x]
    /\ \A x \in Nodes : x # n => (x = h[l] => qv[x] = n)
    /\ \A x \in Nodes : x # n => (x # h[l] => qv[x] = pv[x])

(* Insertion of a free node before the head. *)
LEMMA LaidBefore ==
    ASSUME NEW q, NEW h, NEW t, NEW c, NEW nx, NEW pv, NEW l, NEW n,
           NEW g, NEW u, NEW d, NEW mx, NEW qv,
           PutBefore(q, h, t, c, nx, pv, l, n, g, u, d, mx, qv)
    PROVE  Laid([q EXCEPT ![l] = <<n>> \o q[l]], g, u, d, mx, qv)
  <1>0. /\ Laid(q, h, t, c, nx, pv) /\ l \in Lists /\ n \in Nodes
        /\ \A m \in Lists : \A i \in 1..Len(q[m]) : q[m][i] # n
        /\ Others(l, h, t, c, g, u, d) /\ d[l] = c[l] + 1
        /\ g[l] = n /\ (h[l] # null => u[l] = t[l]) /\ (h[l] = null => u[l] = n)
        /\ mx[n] = h[l] /\ qv[n] = null
        /\ \A x \in Nodes : x # n => mx[x] = nx[x]
        /\ \A x \in Nodes : x # n => (x = h[l] => qv[x] = n)
        /\ \A x \in Nodes : x # n => (x # h[l] => qv[x] = pv[x])
    BY Zenon DEF PutBefore
  <1> DEFINE s == q[l]
             r == <<n>> \o s
  <1>1. /\ s \in Seq(Nodes) /\ Len(s) \in Nat /\ Distinct(s)
        /\ Chain(s, h[l], t[l], nx, pv) /\ c[l] = Len(s)
        /\ \A i \in 1..Len(s) : s[i] \in Nodes
        /\ (Len(s) = 0 /\ h[l] = null) \/ (1 \in 1..Len(s) /\ h[l] = s[1])
    BY <1>0, Ends
  <1>2. \A i \in 1..Len(s) : s[i] # n
    BY <1>0, Zenon
  <1>3. ASSUME NEW m \in Lists, m # l, NEW i \in 1..Len(q[m])
        PROVE  /\ q[m][i] \in Nodes /\ q[m][i] # n /\ q[m][i] # h[l]
               /\ \A j \in 1..Len(s) : q[m][i] # s[j]
    <2>1. q[m][i] \in Nodes
      BY <1>0, Ends, Zenon
    <2>2. \A j \in 1..Len(q[l]) : q[m][i] # q[l][j]
      BY <1>0, <1>3, Zenon DEF Laid
    <2> QED
      BY <1>0, <1>1, <2>1, <2>2, NullIsNoNode, ZenonT(30)
  <1> HIDE DEF s
  <1>4. r \in Seq(Nodes) /\ Len(r) = Len(s) + 1 /\ r[1] = n /\ \A i \in 1..Len(s) : r[i + 1] = s[i]
    BY ONLY <1>1, <1>0, Before
  <1>5. Distinct(r)
    BY <1>0, <1>1, <1>2, DistinctBefore, Zenon
  <1>6. Chain(r, n, u[l], mx, qv)
    <2>1. \A i \in 1..Len(s) : mx[s[i]] = nx[s[i]]
      BY <1>0, <1>1, <1>2, Zenon
    <2>2. \A i \in 1..Len(s) : i = 1 => qv[s[i]] = n
      BY <1>0, <1>1, <1>2
    <2>3. \A i \in 1..Len(s) : i > 1 => qv[s[i]] = pv[s[i]]
      <3> SUFFICES ASSUME NEW i \in 1..Len(s), i > 1 PROVE qv[s[i]] = pv[s[i]]
        BY <1>0, Zenon
      <3>1. i # 1 /\ Len(s) # 0
        BY ONLY <1>1, i \in 1..Len(s), i > 1
      <3>2. s[i] # h[l]
        BY <1>0, <1>1, <3>1, Zenon DEF Distinct
      <3> QED
        BY <1>0, <1>1, <1>2, <3>2, Zenon
    <2>4. /\ n \in Nodes /\ mx[n] = h[l] /\ qv[n] = null
          /\ (h[l] # null => u[l] = t[l]) /\ (h[l] = null => u[l] = n)
      BY <1>0, Zenon
    <2>5. s \in Seq(Nodes) /\ Chain(s, h[l], t[l], nx, pv)
      BY <1>1, Zenon
    <2> QED
      BY ONLY <2>1, <2>2, <2>3, <2>4, <2>5, ChainBefore
  <1>7. d[l] = Len(r) /\ Chain(r, g[l], u[l], mx, qv)
    BY <1>0, <1>1, <1>4, <1>6, Zenon
  <1>8. \A m \in Lists : m # l => \A i \in 1..Len(q[m]) :
            mx[q[m][i]] = nx[q[m][i]] /\ qv[q[m][i]] = pv[q[m][i]]
    BY <1>0, <1>3, Zenon
  <1>9. \A m \in Lists : m # l => \A i \in 1..Len(q[m]), j \in 1..Len(r) : q[m][i] # r[j]
    <2> SUFFICES ASSUME NEW m \in Lists, m # l, NEW i \in 1..Len(q[m]), NEW j \in 1..Len(r)
                 PROVE  q[m][i] # r[j]
      BY <1>0, Zenon
    <2>1. j = 1 \/ (j - 1 \in 1..Len(s) /\ j - 1 + 1 = j)
      BY ONLY <1>1, <1>4, j \in 1..Len(r)
    <2>2. r[j] = n \/ \E k \in 1..Len(s) : r[j] = s[k]
      BY <1>0, <1>4, <2>1, ZenonT(30)
    <2> QED
      BY <1>0, <1>3, <2>2
  <1> HIDE DEF r
  <1>10. Moved(q, h, t, c, nx, pv, l, r, g, u, d, mx, qv)
    BY <1>0, <1>4, <1>5, <1>7, <1>8, <1>9, Zenon DEF Moved
  <1>11. Laid([q EXCEPT ![l] = r], g, u, d, mx, qv)
    BY ONLY <1>10, OneList, Zenon
  <1> QED
    BY <1>0, <1>11, Zenon DEF r, s

(* Likewise behind the tail. *)
PutBehind(q, h, t, c, nx, pv, l, n, g, u, d, mx, qv) ==
    /\ Laid(q, h, t, c, nx, pv) /\ l \in Lists /\ n \in Nodes
    /\ \A m \in Lists : \A i \in 1..Len(q[m]) : q[m][i] # n
    /\ Others(l, h, t, c, g, u, d) /\ d[l] = c[l] + 1
    /\ u[l] = n /\ (t[l] # null => g[l] = h[l]) /\ (t[l] = null => g[l] = n)
    /\ mx[n] = null /\ qv[n] = t[l]
    /\ \A x \in Nodes : x # n => qv[x] = pv[x]
    /\ \A x \in Nodes : x # n => (x = t[l] => mx[x] = n)
    /\ \A x \in Nodes : x # n => (x # t[l] => mx[x] = nx[x])

(* Insertion of a free node behind the tail. *)
LEMMA LaidBehind ==
    ASSUME NEW q, NEW h, NEW t, NEW c, NEW nx, NEW pv, NEW l, NEW n,
           NEW g, NEW u, NEW d, NEW mx, NEW qv,
           PutBehind(q, h, t, c, nx, pv, l, n, g, u, d, mx, qv)
    PROVE  Laid([q EXCEPT ![l] = Append(q[l], n)], g, u, d, mx, qv)
  <1>0. /\ Laid(q, h, t, c, nx, pv) /\ l \in Lists /\ n \in Nodes
        /\ \A m \in Lists : \A i \in 1..Len(q[m]) : q[m][i] # n
        /\ Others(l, h, t, c, g, u, d) /\ d[l] = c[l] + 1
        /\ u[l] = n /\ (t[l] # null => g[l] = h[l]) /\ (t[l] = null => g[l] = n)
        /\ mx[n] = null /\ qv[n] = t[l]
        /\ \A x \in Nodes : x # n => qv[x] = pv[x]
        /\ \A x \in Nodes : x # n => (x = t[l] => mx[x] = n)
        /\ \A x \in Nodes : x # n => (x # t[l] => mx[x] = nx[x])
    BY Zenon DEF PutBehind
  <1> DEFINE s == q[l]
             r == Append(s, n)
  <1>1. /\ s \in Seq(Nodes) /\ Len(s) \in Nat /\ Distinct(s)
        /\ Chain(s, h[l], t[l], nx, pv) /\ c[l] = Len(s)
        /\ \A i \in 1..Len(s) : s[i] \in Nodes
        /\ (Len(s) = 0 /\ t[l] = null) \/ (Len(s) \in 1..Len(s) /\ t[l] = s[Len(s)])
    BY <1>0, Ends
  <1>2. \A i \in 1..Len(s) : s[i] # n
    BY <1>0, Zenon
  <1>3. ASSUME NEW m \in Lists, m # l, NEW i \in 1..Len(q[m])
        PROVE  /\ q[m][i] \in Nodes /\ q[m][i] # n /\ q[m][i] # t[l]
               /\ \A j \in 1..Len(s) : q[m][i] # s[j]
    <2>1. q[m][i] \in Nodes
      BY <1>0, Ends, Zenon
    <2>2. \A j \in 1..Len(q[l]) : q[m][i] # q[l][j]
      BY <1>0, <1>3, Zenon DEF Laid
    <2> QED
      BY <1>0, <1>1, <2>1, <2>2, NullIsNoNode, ZenonT(30)
  <1> HIDE DEF s
  <1>4. r \in Seq(Nodes) /\ Len(r) = Len(s) + 1 /\ r[Len(s) + 1] = n /\ \A i \in 1..Len(s) : r[i] = s[i]
    BY ONLY <1>1, <1>0, Behind
  <1>5. Distinct(r)
    BY <1>0, <1>1, <1>2, DistinctBehind, Zenon
  <1>6. Chain(r, g[l], n, mx, qv)
    <2>1. \A i \in 1..Len(s) : qv[s[i]] = pv[s[i]]
      BY <1>0, <1>1, <1>2, Zenon
    <2>2. \A i \in 1..Len(s) : i = Len(s) => mx[s[i]] = n
      BY <1>0, <1>1, <1>2
    <2>3. \A i \in 1..Len(s) : i < Len(s) => mx[s[i]] = nx[s[i]]
      <3> SUFFICES ASSUME NEW i \in 1..Len(s), i < Len(s) PROVE mx[s[i]] = nx[s[i]]
        BY <1>0, Zenon
      <3>1. i # Len(s) /\ Len(s) # 0
        BY ONLY <1>1, i \in 1..Len(s), i < Len(s)
      <3>2. s[i] # t[l]
        BY <1>0, <1>1, <3>1, Zenon DEF Distinct
      <3> QED
        BY <1>0, <1>1, <1>2, <3>2, Zenon
    <2>4. /\ n \in Nodes /\ mx[n] = null /\ qv[n] = t[l]
          /\ (t[l] # null => g[l] = h[l]) /\ (t[l] = null => g[l] = n)
      BY <1>0, Zenon
    <2>5. s \in Seq(Nodes) /\ Chain(s, h[l], t[l], nx, pv)
      BY <1>1, Zenon
    <2> QED
      BY ONLY <2>1, <2>2, <2>3, <2>4, <2>5, ChainBehind
  <1>7. d[l] = Len(r) /\ Chain(r, g[l], u[l], mx, qv)
    BY <1>0, <1>1, <1>4, <1>6, Zenon
  <1>8. \A m \in Lists : m # l => \A i \in 1..Len(q[m]) :
            mx[q[m][i]] = nx[q[m][i]] /\ qv[q[m][i]] = pv[q[m][i]]
    BY <1>0, <1>3, Zenon
  <1>9. \A m \in Lists : m # l => \A i \in 1..Len(q[m]), j \in 1..Len(r) : q[m][i] # r[j]
    <2> SUFFICES ASSUME NEW m \in Lists, m # l, NEW i \in 1..Len(q[m]), NEW j \in 1..Len(r)
                 PROVE  q[m][i] # r[j]
      BY <1>0, Zenon
    <2>1. j = Len(s) + 1 \/ j \in 1..Len(s)
      BY ONLY <1>1, <1>4, j \in 1..Len(r)
    <2>2. r[j] = n \/ \E k \in 1..Len(s) : r[j] = s[k]
      BY <1>0, <1>4, <2>1, Zenon
    <2> QED
      BY <1>0, <1>3, <2>2
  <1> HIDE DEF r
  <1>10. Moved(q, h, t, c, nx, pv, l, r, g, u, d, mx, qv)
    BY <1>0, <1>4, <1>5, <1>7, <1>8, <1>9, Zenon DEF Moved
  <1>11. Laid([q EXCEPT ![l] = r], g, u, d, mx, qv)
    BY ONLY <1>10, OneList, Zenon
  <1> QED
    BY <1>0, <1>11, Zenon DEF r, s

(* n, the k-th node of l, is unlinked. *)
TakenOut(q, h, t, c, nx, pv, l, k, n, g, u, d, mx, qv) ==
    /\ Laid(q, h, t, c, nx, pv) /\ l \in Lists /\ k \in 1..Len(q[l]) /\ n = q[l][k]
    /\ Others(l, h, t, c, g, u, d) /\ d[l] = c[l] - 1
    /\ (pv[n] # null => g[l] = h[l]) /\ (pv[n] = null => g[l] = nx[n])
    /\ (nx[n] # null => u[l] = t[l]) /\ (nx[n] = null => u[l] = pv[n])
    /\ \A x \in Nodes : x # n => (x = pv[n] => mx[x] = nx[n])
    /\ \A x \in Nodes : x # n => (x # pv[n] => mx[x] = nx[x])
    /\ \A x \in Nodes : x # n => (x = nx[n] => qv[x] = pv[n])
    /\ \A x \in Nodes : x # n => (x # nx[n] => qv[x] = pv[x])

(* A node leaves, its neighbours linked to each other. *)
LEMMA LaidDropped ==
    ASSUME NEW q, NEW h, NEW t, NEW c, NEW nx, NEW pv, NEW l, NEW k, NEW n,
           NEW g, NEW u, NEW d, NEW mx, NEW qv,
           TakenOut(q, h, t, c, nx, pv, l, k, n, g, u, d, mx, qv)
    PROVE  Laid([q EXCEPT ![l] = Dropped(q[l], k)], g, u, d, mx, qv)
  <1>0. /\ Laid(q, h, t, c, nx, pv) /\ l \in Lists /\ k \in 1..Len(q[l]) /\ n = q[l][k]
        /\ Others(l, h, t, c, g, u, d) /\ d[l] = c[l] - 1
        /\ (pv[n] # null => g[l] = h[l]) /\ (pv[n] = null => g[l] = nx[n])
        /\ (nx[n] # null => u[l] = t[l]) /\ (nx[n] = null => u[l] = pv[n])
        /\ \A x \in Nodes : x # n => (x = pv[n] => mx[x] = nx[n])
        /\ \A x \in Nodes : x # n => (x # pv[n] => mx[x] = nx[x])
        /\ \A x \in Nodes : x # n => (x = nx[n] => qv[x] = pv[n])
        /\ \A x \in Nodes : x # n => (x # nx[n] => qv[x] = pv[x])
    BY Zenon DEF TakenOut
  <1> DEFINE s == q[l]
             r == Dropped(s, k)
  <1>1. /\ s \in Seq(Nodes) /\ Len(s) \in Nat /\ Distinct(s)
        /\ Chain(s, h[l], t[l], nx, pv) /\ c[l] = Len(s)
        /\ \A i \in 1..Len(s) : s[i] \in Nodes
    BY <1>0, Ends
  <1>2. k \in 1..Len(s) /\ n = s[k]
    BY <1>0, Zenon
  <1>3. (pv[n] = null \/ \E j \in 1..Len(s) : pv[n] = s[j])
        /\ (nx[n] = null \/ \E j \in 1..Len(s) : nx[n] = s[j])
    <2> HIDE DEF s
    <2>1. /\ (k = 1 \/ (k > 1 /\ k - 1 \in 1..Len(s)))
          /\ (k = Len(s) \/ (k < Len(s) /\ k + 1 \in 1..Len(s)))
      BY ONLY <1>1, <1>2
    <2>2. /\ k = Len(s) => nx[n] = null
          /\ k < Len(s) => nx[n] = s[k + 1]
          /\ k = 1 => pv[n] = null
          /\ k > 1 => pv[n] = s[k - 1]
      BY ONLY <1>1, <1>2, Zenon DEF Chain
    <2> QED
      BY ONLY <2>1, <2>2, Zenon
  <1>4. ASSUME NEW m \in Lists, m # l, NEW i \in 1..Len(q[m])
        PROVE  /\ q[m][i] \in Nodes /\ q[m][i] # n /\ q[m][i] # pv[n] /\ q[m][i] # nx[n]
               /\ \A j \in 1..Len(s) : q[m][i] # s[j]
    <2>1. q[m][i] \in Nodes
      BY <1>0, Ends, Zenon
    <2>2. \A j \in 1..Len(q[l]) : q[m][i] # q[l][j]
      BY <1>0, <1>4, Zenon DEF Laid
    <2> QED
      BY <1>0, <1>2, <1>3, <2>1, <2>2, NullIsNoNode, Zenon
  <1> HIDE DEF s
  <1>5. r \in Seq(Nodes) /\ Len(r) = Len(s) - 1
    BY ONLY <1>1, <1>2, DroppedAt
  <1>6. Distinct(r) /\ \A j \in 1..Len(r) : \E i \in 1..Len(s) : i # k /\ r[j] = s[i]
    BY ONLY <1>1, <1>2, DistinctDropped, Zenon
  <1>7. Chain(r, g[l], u[l], mx, qv)
    <2>1. \A i \in 1..Len(s) : i # k => s[i] # n
      BY <1>0, <1>1, <1>2 DEF Distinct
    <2>2. /\ \A i \in 1..Len(s) : i # k => (s[i] = pv[n] => mx[s[i]] = nx[n])
          /\ \A i \in 1..Len(s) : i # k => (s[i] # pv[n] => mx[s[i]] = nx[s[i]])
      BY <1>0, <1>1, <2>1, Zenon
    <2>3. /\ \A i \in 1..Len(s) : i # k => (s[i] = nx[n] => qv[s[i]] = pv[n])
          /\ \A i \in 1..Len(s) : i # k => (s[i] # nx[n] => qv[s[i]] = pv[s[i]])
      BY <1>0, <1>1, <2>1, Zenon
    <2>4. /\ (pv[n] # null => g[l] = h[l]) /\ (pv[n] = null => g[l] = nx[n])
          /\ (nx[n] # null => u[l] = t[l]) /\ (nx[n] = null => u[l] = pv[n])
      BY <1>0, Zenon
    <2>5. Bypassed(s, k, n, h[l], t[l], nx, pv, mx, qv, g[l], u[l])
      BY ONLY <1>1, <1>2, <2>2, <2>3, <2>4, Zenon DEF Bypassed
    <2> QED
      BY ONLY <2>5, ChainDropped, Zenon
  <1>8. d[l] = Len(r)
    BY <1>0, <1>1, <1>5, Zenon
  <1>9. \A m \in Lists : m # l => \A i \in 1..Len(q[m]) :
            mx[q[m][i]] = nx[q[m][i]] /\ qv[q[m][i]] = pv[q[m][i]]
    BY <1>0, <1>4, Zenon
  <1>10. \A m \in Lists : m # l => \A i \in 1..Len(q[m]), j \in 1..Len(r) : q[m][i] # r[j]
    BY <1>0, <1>4, <1>6
  <1> HIDE DEF r
  <1>11. Moved(q, h, t, c, nx, pv, l, r, g, u, d, mx, qv)
    BY <1>0, <1>5, <1>6, <1>7, <1>8, <1>9, <1>10, Zenon DEF Moved
  <1>12. Laid([q EXCEPT ![l] = r], g, u, d, mx, qv)
    BY ONLY <1>11, OneList, Zenon
  <1> QED
    BY <1>0, <1>12, Zenon DEF r, s

-----------------------------------------------------------------------------
(* The operations of the intrusive lists on the sequences laid out. *)

(* The lists of the program are laid out as q, before and after a step. *)
Now(q) == Laid(q, ilHead, ilTail, ilCount, ilNext, ilPrev)
Then(q) == Laid(q, ilHead', ilTail', ilCount', ilNext', ilPrev')

(* Node n is in none of the sequences. *)
Fresh(q, n) == \A m \in Lists : \A i \in 1..Len(q[m]) : q[m][i] # n

(* intrusivelist_insert_head *)
LEMMA InsertHead ==
    ASSUME NEW q, Intrusive!TypeOK, Now(q), NEW l \in Lists, NEW n \in Nodes, Fresh(q, n),
           Intrusive!intrusivelist_insert_head(l, n)
    PROVE  Intrusive!TypeOK' /\ Then([q EXCEPT ![l] = <<n>> \o q[l]])
  <1>1. /\ ilHead \in [Lists -> Nodes \cup {null}] /\ ilTail \in [Lists -> Nodes \cup {null}]
        /\ ilCount \in [Lists -> Nat]
        /\ ilNext \in [Nodes -> Nodes \cup {null}] /\ ilPrev \in [Nodes -> Nodes \cup {null}]
    BY Zenon DEF Intrusive!TypeOK
  <1>2. /\ ilNext' = [ilNext EXCEPT ![n] = ilHead[l]]
        /\ ilPrev' = [m \in Nodes |-> IF m = n THEN null
                                      ELSE IF m = ilHead[l] THEN n ELSE ilPrev[m]]
        /\ ilTail' = [ilTail EXCEPT ![l] = IF ilHead[l] # null THEN ilTail[l] ELSE n]
        /\ ilHead' = [ilHead EXCEPT ![l] = n]
        /\ ilCount' = [ilCount EXCEPT ![l] = ilCount[l] + 1]
    BY Zenon DEF Intrusive!intrusivelist_insert_head
  <1>3. Intrusive!TypeOK'
    <2>1. ilCount[l] + 1 \in Nat
      BY ONLY <1>1, l \in Lists
    <2> QED
      BY ONLY <1>1, <1>2, <2>1, l \in Lists, n \in Nodes DEF Intrusive!TypeOK
  <1>4. \A m \in Lists : \A i \in 1..Len(q[m]) : q[m][i] # n
    BY Zenon DEF Fresh
  <1> DEFINE p == [q EXCEPT ![l] = <<n>> \o q[l]]
  <1>5. Then(p)
    <2>1. Others(l, ilHead, ilTail, ilCount, ilHead', ilTail', ilCount')
      BY <1>1, <1>2, Zenon DEF Others
    <2>2. /\ ilCount'[l] = ilCount[l] + 1 /\ ilHead'[l] = n
          /\ (ilHead[l] # null => ilTail'[l] = ilTail[l]) /\ (ilHead[l] = null => ilTail'[l] = n)
      BY <1>1, <1>2, Zenon
    <2>3. /\ ilNext'[n] = ilHead[l] /\ ilPrev'[n] = null
          /\ \A x \in Nodes : x # n => ilNext'[x] = ilNext[x]
          /\ \A x \in Nodes : x # n => (x = ilHead[l] => ilPrev'[x] = n)
          /\ \A x \in Nodes : x # n => (x # ilHead[l] => ilPrev'[x] = ilPrev[x])
      BY <1>1, <1>2, Zenon
    <2>4. PutBefore(q, ilHead, ilTail, ilCount, ilNext, ilPrev, l, n,
                    ilHead', ilTail', ilCount', ilNext', ilPrev')
      BY <1>4, <2>1, <2>2, <2>3, Zenon DEF PutBefore, Now
    <2> QED
      BY ONLY <2>4, LaidBefore, Zenon DEF Then
  <1> QED
    BY <1>3, <1>5, Zenon

(* intrusivelist_insert_tail *)
LEMMA InsertTail ==
    ASSUME NEW q, Intrusive!TypeOK, Now(q), NEW l \in Lists, NEW n \in Nodes, Fresh(q, n),
           Intrusive!intrusivelist_insert_tail(l, n)
    PROVE  Intrusive!TypeOK' /\ Then([q EXCEPT ![l] = Append(q[l], n)])
  <1>1. /\ ilHead \in [Lists -> Nodes \cup {null}] /\ ilTail \in [Lists -> Nodes \cup {null}]
        /\ ilCount \in [Lists -> Nat]
        /\ ilNext \in [Nodes -> Nodes \cup {null}] /\ ilPrev \in [Nodes -> Nodes \cup {null}]
    BY Zenon DEF Intrusive!TypeOK
  <1>2. /\ ilPrev' = [ilPrev EXCEPT ![n] = ilTail[l]]
        /\ ilNext' = [m \in Nodes |-> IF m = n THEN null
                                      ELSE IF m = ilTail[l] THEN n ELSE ilNext[m]]
        /\ ilHead' = [ilHead EXCEPT ![l] = IF ilTail[l] # null THEN ilHead[l] ELSE n]
        /\ ilTail' = [ilTail EXCEPT ![l] = n]
        /\ ilCount' = [ilCount EXCEPT ![l] = ilCount[l] + 1]
    BY Zenon DEF Intrusive!intrusivelist_insert_tail
  <1>3. Intrusive!TypeOK'
    <2>1. ilCount[l] + 1 \in Nat
      BY ONLY <1>1, l \in Lists
    <2> QED
      BY ONLY <1>1, <1>2, <2>1, l \in Lists, n \in Nodes DEF Intrusive!TypeOK
  <1>4. \A m \in Lists : \A i \in 1..Len(q[m]) : q[m][i] # n
    BY Zenon DEF Fresh
  <1> DEFINE p == [q EXCEPT ![l] = Append(q[l], n)]
  <1>5. Then(p)
    <2>1. Others(l, ilHead, ilTail, ilCount, ilHead', ilTail', ilCount')
      BY <1>1, <1>2, Zenon DEF Others
    <2>2. /\ ilCount'[l] = ilCount[l] + 1 /\ ilTail'[l] = n
          /\ (ilTail[l] # null => ilHead'[l] = ilHead[l]) /\ (ilTail[l] = null => ilHead'[l] = n)
      BY <1>1, <1>2, Zenon
    <2>3. /\ ilNext'[n] = null /\ ilPrev'[n] = ilTail[l]
          /\ \A x \in Nodes : x # n => ilPrev'[x] = ilPrev[x]
          /\ \A x \in Nodes : x # n => (x = ilTail[l] => ilNext'[x] = n)
          /\ \A x \in Nodes : x # n => (x # ilTail[l] => ilNext'[x] = ilNext[x])
      BY <1>1, <1>2, Zenon
    <2>4. PutBehind(q, ilHead, ilTail, ilCount, ilNext, ilPrev, l, n,
                    ilHead', ilTail', ilCount', ilNext', ilPrev')
      BY <1>4, <2>1, <2>2, <2>3, Zenon DEF PutBehind, Now
    <2> QED
      BY ONLY <2>4, LaidBehind, Zenon DEF Then
  <1> QED
    BY <1>3, <1>5, Zenon

(* The k-th node of l is unlinked by this step. *)
Leaves(q, l, k, n) ==
    TakenOut(q, ilHead, ilTail, ilCount, ilNext, ilPrev, l, k, n,
             ilHead', ilTail', ilCount', ilNext', ilPrev')

(* An unlinked node leaves the list. *)
LEMMA Unlinked ==
    ASSUME NEW q, Now(q), NEW l \in Lists, NEW k, NEW n, Leaves(q, l, k, n)
    PROVE  Then([q EXCEPT ![l] = Dropped(q[l], k)])
  BY LaidDropped, Zenon DEF Leaves, Then

(* intrusivelist_remove *)
LEMMA Remove ==
    ASSUME NEW q, Intrusive!TypeOK, Now(q), NEW l \in Lists, NEW n \in Nodes,
           NEW k \in 1..Len(q[l]), n = q[l][k], Intrusive!intrusivelist_remove(l, n)
    PROVE  Intrusive!TypeOK' /\ Leaves(q, l, k, n)
  <1>1. /\ ilHead \in [Lists -> Nodes \cup {null}] /\ ilTail \in [Lists -> Nodes \cup {null}]
        /\ ilCount \in [Lists -> Nat]
        /\ ilNext \in [Nodes -> Nodes \cup {null}] /\ ilPrev \in [Nodes -> Nodes \cup {null}]
    BY Zenon DEF Intrusive!TypeOK
  <1>2. /\ ilNext' = [m \in Nodes |-> IF m = n THEN null
                                      ELSE IF m = ilPrev[n] THEN ilNext[n] ELSE ilNext[m]]
        /\ ilPrev' = [m \in Nodes |-> IF m = n THEN null
                                      ELSE IF m = ilNext[n] THEN ilPrev[n] ELSE ilPrev[m]]
        /\ ilHead' = [ilHead EXCEPT ![l] = IF ilPrev[n] # null THEN ilHead[l] ELSE ilNext[n]]
        /\ ilTail' = [ilTail EXCEPT ![l] = IF ilNext[n] # null THEN ilTail[l] ELSE ilPrev[n]]
        /\ ilCount' = [ilCount EXCEPT ![l] = ilCount[l] - 1]
    BY Zenon DEF Intrusive!intrusivelist_remove, Intrusive!Unlink
  <1>3. k \in 1..Len(q[l]) /\ n = q[l][k]
    BY Zenon
  <1>4. ilCount[l] = Len(q[l]) /\ Len(q[l]) \in Nat
    BY Ends DEF Now
  <1>5. Intrusive!TypeOK'
    <2>1. ilCount[l] - 1 \in Nat
      BY ONLY <1>3, <1>4
    <2> QED
      BY ONLY <1>1, <1>2, <2>1, l \in Lists, n \in Nodes DEF Intrusive!TypeOK
  <1>6. Leaves(q, l, k, n)
    <2>1. Others(l, ilHead, ilTail, ilCount, ilHead', ilTail', ilCount')
      BY <1>1, <1>2, Zenon DEF Others
    <2>2. /\ ilCount'[l] = ilCount[l] - 1
          /\ (ilPrev[n] # null => ilHead'[l] = ilHead[l]) /\ (ilPrev[n] = null => ilHead'[l] = ilNext[n])
          /\ (ilNext[n] # null => ilTail'[l] = ilTail[l]) /\ (ilNext[n] = null => ilTail'[l] = ilPrev[n])
      BY <1>1, <1>2, Zenon
    <2>3. /\ \A x \in Nodes : x # n => (x = ilPrev[n] => ilNext'[x] = ilNext[n])
          /\ \A x \in Nodes : x # n => (x # ilPrev[n] => ilNext'[x] = ilNext[x])
          /\ \A x \in Nodes : x # n => (x = ilNext[n] => ilPrev'[x] = ilPrev[n])
          /\ \A x \in Nodes : x # n => (x # ilNext[n] => ilPrev'[x] = ilPrev[x])
      BY <1>1, <1>2, Zenon
    <2> QED
      BY <1>3, <2>1, <2>2, <2>3, Zenon DEF Leaves, TakenOut, Now
  <1> QED
    BY <1>5, <1>6, Zenon

(* intrusivelist_remove_head, which does not read the head's prev *)
LEMMA RemoveHead ==
    ASSUME NEW q, Intrusive!TypeOK, Now(q), NEW l \in Lists,
           Intrusive!intrusivelist_remove_head(l)
    PROVE  Intrusive!TypeOK' /\ ilHead[l] \in Nodes /\ \E k : Leaves(q, l, k, ilHead[l])
  <1>1. /\ ilHead \in [Lists -> Nodes \cup {null}] /\ ilTail \in [Lists -> Nodes \cup {null}]
        /\ ilCount \in [Lists -> Nat]
        /\ ilNext \in [Nodes -> Nodes \cup {null}] /\ ilPrev \in [Nodes -> Nodes \cup {null}]
    BY Zenon DEF Intrusive!TypeOK
  <1> DEFINE n == ilHead[l]
  <1>2. /\ n # null
        /\ ilHead' = [ilHead EXCEPT ![l] = ilNext[n]]
        /\ ilTail' = [ilTail EXCEPT ![l] = IF ilNext[n] # null THEN ilTail[l] ELSE null]
        /\ ilPrev' = [m \in Nodes |-> IF m \in {n, ilNext[n]} THEN null ELSE ilPrev[m]]
        /\ ilNext' = [ilNext EXCEPT ![n] = null]
        /\ ilCount' = [ilCount EXCEPT ![l] = ilCount[l] - 1]
    BY Zenon DEF Intrusive!intrusivelist_remove_head
  <1>3. /\ Len(q[l]) \in Nat /\ ilCount[l] = Len(q[l])
        /\ 1 \in 1..Len(q[l]) /\ n = q[l][1] /\ Chain(q[l], ilHead[l], ilTail[l], ilNext, ilPrev)
    BY <1>2, Ends DEF Now
  <1>4. n \in Nodes
    BY <1>1, <1>2, Zenon
  <1>5. ilPrev[n] = null
    BY <1>3, Zenon DEF Chain
  <1> HIDE DEF n
  <1>6. Intrusive!TypeOK'
    <2>1. ilCount[l] - 1 \in Nat
      BY ONLY <1>3
    <2> QED
      BY ONLY <1>1, <1>2, <1>4, <2>1, l \in Lists DEF Intrusive!TypeOK
  <1>7. Leaves(q, l, 1, n)
    <2>1. Others(l, ilHead, ilTail, ilCount, ilHead', ilTail', ilCount')
      BY <1>1, <1>2, Zenon DEF Others
    <2>2. /\ ilCount'[l] = ilCount[l] - 1 /\ ilHead'[l] = ilNext[n]
          /\ (ilNext[n] # null => ilTail'[l] = ilTail[l]) /\ (ilNext[n] = null => ilTail'[l] = null)
      BY <1>1, <1>2, Zenon
    <2>3. /\ \A x \in Nodes : x # n => x # ilPrev[n] /\ ilNext'[x] = ilNext[x]
          /\ \A x \in Nodes : x # n => (x = ilNext[n] => ilPrev'[x] = null)
          /\ \A x \in Nodes : x # n => (x # ilNext[n] => ilPrev'[x] = ilPrev[x])
      BY <1>1, <1>2, <1>4, <1>5, NullIsNoNode, Zenon
    <2> QED
      BY <1>3, <1>5, <2>1, <2>2, <2>3, Zenon DEF Leaves, TakenOut, Now
  <1> QED
    BY <1>4, <1>6, <1>7, Zenon DEF n

(* intrusivelist_remove_tail *)
LEMMA RemoveTail ==
    ASSUME NEW q, Intrusive!TypeOK, Now(q), NEW l \in Lists,
           Intrusive!intrusivelist_remove_tail(l), ilTail[l] # null
    PROVE  Intrusive!TypeOK' /\ ilTail[l] \in Nodes /\ \E k : Leaves(q, l, k, ilTail[l])
  <1>1. /\ ilHead \in [Lists -> Nodes \cup {null}] /\ ilTail \in [Lists -> Nodes \cup {null}]
        /\ ilCount \in [Lists -> Nat]
        /\ ilNext \in [Nodes -> Nodes \cup {null}] /\ ilPrev \in [Nodes -> Nodes \cup {null}]
    BY Zenon DEF Intrusive!TypeOK
  <1> DEFINE n == ilTail[l]
  <1>2. /\ n # null
        /\ ilTail' = [ilTail EXCEPT ![l] = ilPrev[n]]
        /\ ilHead' = [ilHead EXCEPT ![l] = IF ilPrev[n] # null THEN ilHead[l] ELSE null]
        /\ ilNext' = [m \in Nodes |-> IF m \in {n, ilPrev[n]} THEN null ELSE ilNext[m]]
        /\ ilPrev' = [ilPrev EXCEPT ![n] = null]
        /\ ilCount' = [ilCount EXCEPT ![l] = ilCount[l] - 1]
    BY Zenon DEF Intrusive!intrusivelist_remove_tail
  <1>3. /\ Len(q[l]) \in Nat /\ ilCount[l] = Len(q[l])
        /\ Len(q[l]) \in 1..Len(q[l]) /\ n = q[l][Len(q[l])]
        /\ Chain(q[l], ilHead[l], ilTail[l], ilNext, ilPrev)
    BY <1>2, Ends DEF Now
  <1>4. n \in Nodes
    BY <1>1, <1>2, Zenon
  <1>5. ilNext[n] = null
    BY <1>3, Zenon DEF Chain
  <1> HIDE DEF n
  <1>6. Intrusive!TypeOK'
    <2>1. ilCount[l] - 1 \in Nat
      BY ONLY <1>3
    <2> QED
      BY ONLY <1>1, <1>2, <1>4, <2>1, l \in Lists DEF Intrusive!TypeOK
  <1>7. Leaves(q, l, Len(q[l]), n)
    <2>1. Others(l, ilHead, ilTail, ilCount, ilHead', ilTail', ilCount')
      BY <1>1, <1>2, Zenon DEF Others
    <2>2. /\ ilCount'[l] = ilCount[l] - 1 /\ ilTail'[l] = ilPrev[n]
          /\ (ilPrev[n] # null => ilHead'[l] = ilHead[l]) /\ (ilPrev[n] = null => ilHead'[l] = null)
      BY <1>1, <1>2, Zenon
    <2>3. /\ \A x \in Nodes : x # n => x # ilNext[n] /\ ilPrev'[x] = ilPrev[x]
          /\ \A x \in Nodes : x # n => (x = ilPrev[n] => ilNext'[x] = null)
          /\ \A x \in Nodes : x # n => (x # ilPrev[n] => ilNext'[x] = ilNext[x])
      BY <1>1, <1>2, <1>4, <1>5, NullIsNoNode, Zenon
    <2> QED
      BY <1>3, <1>5, <2>1, <2>2, <2>3, Zenon DEF Leaves, TakenOut, Now
  <1> QED
    BY <1>4, <1>6, <1>7, Zenon DEF n

-----------------------------------------------------------------------------
(* The operations of the list that allocates its nodes. *)

NodeType == [data : Data \cup {junk}, next : Nodes \cup {null, junk}, prev : Nodes \cup {null, junk}]

(* The links of the nodes in the heap. *)
NextOf(nd) == [m \in Nodes |-> nd[m].next]
PrevOf(nd) == [m \in Nodes |-> nd[m].prev]

(* The data of the nodes of s. *)
DataOf(s, nd) == [i \in 1..Len(s) |-> nd[s[i]].data]

(* The list is the nodes of s, which are those allocated. *)
Held(s, h, t, c, nd, lv) ==
    /\ s \in Seq(Nodes) /\ Distinct(s) /\ c = Len(s)
    /\ Chain(s, h, t, NextOf(nd), PrevOf(nd))
    /\ nd \in [Nodes -> NodeType]
    /\ \A i \in 1..Len(s) : nd[s[i]].data \in Data
    /\ \A i \in 1..Len(s) : s[i] \in lv
    /\ \A n \in lv : \E i \in 1..Len(s) : s[i] = n

(* Sequences that agree everywhere are the same. *)
LEMMA SameSeq ==
    ASSUME NEW S, NEW a \in Seq(S), NEW b \in Seq(S), Len(a) = Len(b),
           \A i \in 1..Len(a) : a[i] = b[i]
    PROVE  a = b
  OBVIOUS

(* The data are a sequence. *)
LEMMA DataSeq ==
    ASSUME NEW s, NEW h, NEW t, NEW c, NEW nd, NEW lv, Held(s, h, t, c, nd, lv)
    PROVE  /\ DataOf(s, nd) \in Seq(Data) /\ Len(DataOf(s, nd)) = Len(s)
           /\ \A i \in 1..Len(s) : DataOf(s, nd)[i] = nd[s[i]].data
  <1>1. s \in Seq(Nodes) /\ \A i \in 1..Len(s) : nd[s[i]].data \in Data
    BY Zenon DEF Held
  <1> QED
    BY ONLY <1>1 DEF DataOf

(* The list of the program is s, before and after a step. *)
HeldNow(s) == Held(s, llHead, llTail, llCount, llNode, llLive)
HeldThen(s) == Held(s, llHead', llTail', llCount', llNode', llLive')

(* The ends of the list, null or allocated nodes. *)
LEMMA HeldEnds ==
    ASSUME NEW s, NEW h, NEW t, NEW c, NEW nd, NEW lv, Held(s, h, t, c, nd, lv)
    PROVE  /\ s \in Seq(Nodes) /\ Len(s) \in Nat /\ \A i \in 1..Len(s) : s[i] \in Nodes
           /\ (Len(s) = 0 /\ h = null /\ t = null)
              \/ (/\ Len(s) # 0 /\ 1 \in 1..Len(s) /\ Len(s) \in 1..Len(s)
                  /\ h = s[1] /\ t = s[Len(s)] /\ h \in Nodes /\ t \in Nodes)
  <1>1. s \in Seq(Nodes) /\ Chain(s, h, t, NextOf(nd), PrevOf(nd))
    BY Zenon DEF Held
  <1>2. Len(s) \in Nat /\ \A i \in 1..Len(s) : s[i] \in Nodes
    BY ONLY <1>1
  <1>3. Len(s) = 0 \/ (Len(s) # 0 /\ Len(s) > 0 /\ 1 \in 1..Len(s) /\ Len(s) \in 1..Len(s))
    BY ONLY <1>2
  <1> QED
    BY <1>1, <1>2, <1>3, Zenon DEF Chain

(* linkedlist_insert_head, when kalloc gives n *)
LEMMA PushHead ==
    ASSUME NEW s, HeldNow(s), NEW d \in Data, NEW n \in Nodes \ llLive,
           llLive' = llLive \cup {n},
           llNode' = [m \in Nodes |->
               IF m = n THEN [data |-> d, next |-> llHead, prev |-> null]
               ELSE IF m = llHead THEN [llNode[m] EXCEPT !.prev = n] ELSE llNode[m]],
           llTail' = IF llHead # null THEN llTail ELSE n,
           llHead' = n, llCount' = llCount + 1
    PROVE  /\ HeldThen(<<n>> \o s)
           /\ DataOf(<<n>> \o s, llNode') = <<d>> \o DataOf(s, llNode)
  <1> DEFINE r == <<n>> \o s
             mx == NextOf(llNode')
             qv == PrevOf(llNode')
  <1>1. /\ s \in Seq(Nodes) /\ Distinct(s) /\ llCount = Len(s)
        /\ Chain(s, llHead, llTail, NextOf(llNode), PrevOf(llNode))
        /\ llNode \in [Nodes -> NodeType]
        /\ \A i \in 1..Len(s) : llNode[s[i]].data \in Data
        /\ \A i \in 1..Len(s) : s[i] \in llLive
        /\ \A x \in llLive : \E i \in 1..Len(s) : s[i] = x
    BY Zenon DEF HeldNow, Held
  <1>2. /\ Len(s) \in Nat /\ \A i \in 1..Len(s) : s[i] \in Nodes
        /\ (Len(s) = 0 /\ llHead = null) \/ (1 \in 1..Len(s) /\ llHead = s[1] /\ llHead \in Nodes)
    BY HeldEnds DEF HeldNow
  <1>3. r \in Seq(Nodes) /\ Len(r) = Len(s) + 1 /\ r[1] = n /\ \A i \in 1..Len(s) : r[i + 1] = s[i]
    BY ONLY <1>1, n \in Nodes, Before
  <1>4. \A i \in 1..Len(s) : s[i] # n
    BY <1>1, Zenon
  <1>5. llHead \in Nodes \cup {null}
    BY <1>2, Zenon
  <1>6. /\ llNode' \in [Nodes -> NodeType]
        /\ mx[n] = llHead /\ qv[n] = null /\ llNode'[n].data = d
        /\ \A x \in Nodes : x # n => mx[x] = NextOf(llNode)[x] /\ llNode'[x].data = llNode[x].data
        /\ \A x \in Nodes : x # n => (x = llHead => qv[x] = n)
        /\ \A x \in Nodes : x # n => (x # llHead => qv[x] = PrevOf(llNode)[x])
    BY <1>1, <1>5, SMTT(30) DEF NodeType, NextOf, PrevOf
  <1>7. Distinct(r)
    BY <1>1, <1>4, DistinctBefore, Zenon
  <1> HIDE DEF mx, qv
  <1>8. Chain(r, n, llTail', mx, qv)
    <2>1. \A i \in 1..Len(s) : mx[s[i]] = NextOf(llNode)[s[i]]
      BY ONLY <1>2, <1>4, <1>6, Zenon
    <2>2. \A i \in 1..Len(s) : i = 1 => qv[s[i]] = n
      <3>1. \A i \in 1..Len(s) : Len(s) # 0
        BY ONLY <1>2
      <3> QED
        BY ONLY <1>2, <1>4, <1>6, <3>1, Zenon
    <2>3. \A i \in 1..Len(s) : i > 1 => qv[s[i]] = PrevOf(llNode)[s[i]]
      <3> SUFFICES ASSUME NEW i \in 1..Len(s), i > 1 PROVE qv[s[i]] = PrevOf(llNode)[s[i]]
        BY Zenon
      <3>1. i # 1 /\ Len(s) # 0
        BY ONLY <1>2, i \in 1..Len(s), i > 1
      <3>2. s[i] # llHead
        BY <1>1, <1>2, <3>1, Zenon DEF Distinct
      <3> QED
        BY ONLY <1>2, <1>4, <1>6, <3>2, i \in 1..Len(s), Zenon
    <2>4. /\ s \in Seq(Nodes) /\ n \in Nodes /\ mx[n] = llHead /\ qv[n] = null
          /\ Chain(s, llHead, llTail, NextOf(llNode), PrevOf(llNode))
          /\ (llHead # null => llTail' = llTail) /\ (llHead = null => llTail' = n)
      BY <1>1, <1>6, Zenon
    <2> QED
      BY ONLY <2>1, <2>2, <2>3, <2>4, ChainBefore
  <1>9. \A i \in 1..Len(r) : i = 1 \/ (i - 1 \in 1..Len(s) /\ i - 1 + 1 = i)
    BY ONLY <1>2, <1>3
  <1>10. \A i \in 1..Len(s) : i + 1 \in 1..Len(r)
    BY ONLY <1>2, <1>3
  <1>11. 1 \in 1..Len(r)
    BY ONLY <1>2, <1>3
  <1>12. /\ \A i \in 1..Len(r) : llNode'[r[i]].data \in Data
         /\ \A i \in 1..Len(r) : r[i] \in llLive'
         /\ \A x \in llLive' : \E i \in 1..Len(r) : r[i] = x
    <2>1. \A i \in 1..Len(r) : r[i] = n \/ \E j \in 1..Len(s) : r[i] = s[j]
      BY ONLY <1>3, <1>9, Zenon
    <2>2. \A j \in 1..Len(s) : llNode'[s[j]].data \in Data
      BY ONLY <1>1, <1>2, <1>4, <1>6, Zenon
    <2>3. \A i \in 1..Len(r) : llNode'[r[i]].data \in Data
      BY ONLY <1>6, <2>1, <2>2, d \in Data, Zenon
    <2>4. llLive' = llLive \cup {n}
      BY Zenon
    <2>5. \A i \in 1..Len(r) : r[i] \in llLive'
      BY ONLY <1>1, <2>1, <2>4, Zenon
    <2>6. \A x \in llLive' : \E i \in 1..Len(r) : r[i] = x
      BY ONLY <1>1, <1>3, <1>10, <1>11, <2>4, Zenon
    <2> QED
      BY <2>3, <2>5, <2>6, Zenon
  <1>13. HeldThen(r)
    <2>1. llHead' = n /\ llCount' = Len(r)
      BY ONLY <1>1, <1>3, llHead' = n, llCount' = llCount + 1, Zenon
    <2> QED
      BY ONLY <1>3, <1>6, <1>7, <1>8, <1>12, <2>1, Zenon DEF HeldThen, Held, mx, qv
  <1>14. DataOf(r, llNode') = <<d>> \o DataOf(s, llNode)
    <2> DEFINE a == DataOf(s, llNode)
               b == DataOf(r, llNode')
    <2>2. a \in Seq(Data) /\ Len(a) = Len(s) /\ \A i \in 1..Len(s) : a[i] = llNode[s[i]].data
      BY DataSeq DEF HeldNow
    <2>3. b \in Seq(Data) /\ Len(b) = Len(r) /\ \A i \in 1..Len(r) : b[i] = llNode'[r[i]].data
      <3>1. Held(r, llHead', llTail', llCount', llNode', llLive')
        BY <1>13, Zenon DEF HeldThen
      <3> HIDE DEF r
      <3> QED
        BY ONLY <3>1, DataSeq
    <2> HIDE DEF a, b
    <2>4. /\ <<d>> \o a \in Seq(Data) /\ Len(<<d>> \o a) = Len(a) + 1 /\ (<<d>> \o a)[1] = d
          /\ \A i \in 1..Len(a) : (<<d>> \o a)[i + 1] = a[i]
      BY ONLY <2>2, d \in Data, Before
    <2>5. ASSUME NEW i \in 1..Len(b) PROVE b[i] = (<<d>> \o a)[i]
      <3>1. CASE i = 1
        BY ONLY <1>3, <1>6, <1>11, <2>3, <2>4, <3>1, Zenon
      <3>2. CASE i # 1
        <4> DEFINE j == i - 1
        <4>1. j \in 1..Len(s) /\ i = j + 1 /\ i \in 1..Len(r)
          BY ONLY <1>9, <2>3, <3>2, i \in 1..Len(b), Zenon
        <4> HIDE DEF j
        <4>2. r[i] = s[j] /\ (<<d>> \o a)[i] = a[j]
          BY ONLY <1>3, <2>2, <2>4, <4>1, Zenon
        <4>3. llNode'[s[j]].data = llNode[s[j]].data
          BY ONLY <1>2, <1>4, <1>6, <4>1, Zenon
        <4> QED
          BY ONLY <2>2, <2>3, <4>1, <4>2, <4>3, Zenon
      <3> QED
        BY <3>1, <3>2, Zenon
    <2>6. Len(b) = Len(<<d>> \o a)
      BY ONLY <1>3, <2>2, <2>3, <2>4, Zenon
    <2>7. b = <<d>> \o a
      BY ONLY <2>3, <2>4, <2>5, <2>6, SameSeq, Zenon
    <2> QED
      BY <2>7, Zenon DEF a, b
  <1> QED
    BY <1>13, <1>14, Zenon DEF r

(* linkedlist_insert_tail, when kalloc gives n *)
LEMMA PushTail ==
    ASSUME NEW s, HeldNow(s), NEW d \in Data, NEW n \in Nodes \ llLive,
           llLive' = llLive \cup {n},
           llNode' = [m \in Nodes |->
               IF m = n THEN [data |-> d, next |-> null, prev |-> llTail]
               ELSE IF m = llTail THEN [llNode[m] EXCEPT !.next = n] ELSE llNode[m]],
           llHead' = IF llTail # null THEN llHead ELSE n,
           llTail' = n, llCount' = llCount + 1
    PROVE  /\ HeldThen(Append(s, n))
           /\ DataOf(Append(s, n), llNode') = Append(DataOf(s, llNode), d)
  <1> DEFINE r == Append(s, n)
             mx == NextOf(llNode')
             qv == PrevOf(llNode')
  <1>1. /\ s \in Seq(Nodes) /\ Distinct(s) /\ llCount = Len(s)
        /\ Chain(s, llHead, llTail, NextOf(llNode), PrevOf(llNode))
        /\ llNode \in [Nodes -> NodeType]
        /\ \A i \in 1..Len(s) : llNode[s[i]].data \in Data
        /\ \A i \in 1..Len(s) : s[i] \in llLive
        /\ \A x \in llLive : \E i \in 1..Len(s) : s[i] = x
    BY Zenon DEF HeldNow, Held
  <1>2. /\ Len(s) \in Nat /\ \A i \in 1..Len(s) : s[i] \in Nodes
        /\ (Len(s) = 0 /\ llTail = null) \/ (Len(s) \in 1..Len(s) /\ llTail = s[Len(s)] /\ llTail \in Nodes)
    BY HeldEnds DEF HeldNow
  <1>3. r \in Seq(Nodes) /\ Len(r) = Len(s) + 1 /\ r[Len(s) + 1] = n /\ \A i \in 1..Len(s) : r[i] = s[i]
    BY ONLY <1>1, n \in Nodes, Behind
  <1>4. \A i \in 1..Len(s) : s[i] # n
    BY <1>1, Zenon
  <1>5. llTail \in Nodes \cup {null}
    BY <1>2, Zenon
  <1>6. /\ llNode' \in [Nodes -> NodeType]
        /\ mx[n] = null /\ qv[n] = llTail /\ llNode'[n].data = d
        /\ \A x \in Nodes : x # n => qv[x] = PrevOf(llNode)[x] /\ llNode'[x].data = llNode[x].data
        /\ \A x \in Nodes : x # n => (x = llTail => mx[x] = n)
        /\ \A x \in Nodes : x # n => (x # llTail => mx[x] = NextOf(llNode)[x])
    BY <1>1, <1>5, SMTT(30) DEF NodeType, NextOf, PrevOf
  <1>7. Distinct(r)
    BY <1>1, <1>4, DistinctBehind, Zenon
  <1> HIDE DEF mx, qv
  <1>8. Chain(r, llHead', n, mx, qv)
    <2>1. \A i \in 1..Len(s) : qv[s[i]] = PrevOf(llNode)[s[i]]
      BY ONLY <1>2, <1>4, <1>6, Zenon
    <2>2. \A i \in 1..Len(s) : i = Len(s) => mx[s[i]] = n
      <3>1. \A i \in 1..Len(s) : Len(s) # 0
        BY ONLY <1>2
      <3> QED
        BY ONLY <1>2, <1>4, <1>6, <3>1, Zenon
    <2>3. \A i \in 1..Len(s) : i < Len(s) => mx[s[i]] = NextOf(llNode)[s[i]]
      <3> SUFFICES ASSUME NEW i \in 1..Len(s), i < Len(s) PROVE mx[s[i]] = NextOf(llNode)[s[i]]
        BY Zenon
      <3>1. i # Len(s) /\ Len(s) # 0
        BY ONLY <1>2, i \in 1..Len(s), i < Len(s)
      <3>2. s[i] # llTail
        BY <1>1, <1>2, <3>1, Zenon DEF Distinct
      <3> QED
        BY ONLY <1>2, <1>4, <1>6, <3>2, i \in 1..Len(s), Zenon
    <2>4. /\ s \in Seq(Nodes) /\ n \in Nodes /\ mx[n] = null /\ qv[n] = llTail
          /\ Chain(s, llHead, llTail, NextOf(llNode), PrevOf(llNode))
          /\ (llTail # null => llHead' = llHead) /\ (llTail = null => llHead' = n)
      BY <1>1, <1>6, Zenon
    <2> QED
      BY ONLY <2>1, <2>2, <2>3, <2>4, ChainBehind
  <1>9. \A i \in 1..Len(r) : i = Len(s) + 1 \/ i \in 1..Len(s)
    BY ONLY <1>2, <1>3
  <1>10. \A i \in 1..Len(s) : i \in 1..Len(r)
    BY ONLY <1>2, <1>3
  <1>11. Len(s) + 1 \in 1..Len(r)
    BY ONLY <1>2, <1>3
  <1>12. /\ \A i \in 1..Len(r) : llNode'[r[i]].data \in Data
         /\ \A i \in 1..Len(r) : r[i] \in llLive'
         /\ \A x \in llLive' : \E i \in 1..Len(r) : r[i] = x
    <2>1. \A i \in 1..Len(r) : r[i] = n \/ \E j \in 1..Len(s) : r[i] = s[j]
      BY ONLY <1>3, <1>9, Zenon
    <2>2. \A j \in 1..Len(s) : llNode'[s[j]].data \in Data
      BY ONLY <1>1, <1>2, <1>4, <1>6, Zenon
    <2>3. \A i \in 1..Len(r) : llNode'[r[i]].data \in Data
      BY ONLY <1>6, <2>1, <2>2, d \in Data, Zenon
    <2>4. llLive' = llLive \cup {n}
      BY Zenon
    <2>5. \A i \in 1..Len(r) : r[i] \in llLive'
      BY ONLY <1>1, <2>1, <2>4, Zenon
    <2>6. \A x \in llLive' : \E i \in 1..Len(r) : r[i] = x
      BY ONLY <1>1, <1>3, <1>10, <1>11, <2>4, Zenon
    <2> QED
      BY <2>3, <2>5, <2>6, Zenon
  <1>13. HeldThen(r)
    <2>1. llTail' = n /\ llCount' = Len(r)
      BY ONLY <1>1, <1>3, llTail' = n, llCount' = llCount + 1, Zenon
    <2> QED
      BY ONLY <1>3, <1>6, <1>7, <1>8, <1>12, <2>1, Zenon DEF HeldThen, Held, mx, qv
  <1>14. DataOf(r, llNode') = Append(DataOf(s, llNode), d)
    <2> DEFINE a == DataOf(s, llNode)
               b == DataOf(r, llNode')
    <2>2. a \in Seq(Data) /\ Len(a) = Len(s) /\ \A i \in 1..Len(s) : a[i] = llNode[s[i]].data
      BY DataSeq DEF HeldNow
    <2>3. b \in Seq(Data) /\ Len(b) = Len(r) /\ \A i \in 1..Len(r) : b[i] = llNode'[r[i]].data
      <3>1. Held(r, llHead', llTail', llCount', llNode', llLive')
        BY <1>13, Zenon DEF HeldThen
      <3> HIDE DEF r
      <3> QED
        BY ONLY <3>1, DataSeq
    <2> HIDE DEF a, b
    <2>4. /\ Append(a, d) \in Seq(Data) /\ Len(Append(a, d)) = Len(a) + 1
          /\ Append(a, d)[Len(a) + 1] = d
          /\ \A i \in 1..Len(a) : Append(a, d)[i] = a[i]
      BY ONLY <2>2, d \in Data, Behind
    <2>5. ASSUME NEW i \in 1..Len(b) PROVE b[i] = Append(a, d)[i]
      <3>1. CASE i = Len(s) + 1
        BY ONLY <1>3, <1>6, <1>11, <2>2, <2>3, <2>4, <3>1, Zenon
      <3>2. CASE i \in 1..Len(s)
        <4>1. r[i] = s[i] /\ Append(a, d)[i] = a[i] /\ i \in 1..Len(r)
          BY ONLY <1>3, <1>10, <2>2, <2>4, <3>2, Zenon
        <4>2. llNode'[s[i]].data = llNode[s[i]].data
          BY ONLY <1>2, <1>4, <1>6, <3>2, Zenon
        <4> QED
          BY ONLY <2>2, <2>3, <3>2, <4>1, <4>2, Zenon
      <3>3. i = Len(s) + 1 \/ i \in 1..Len(s)
        BY ONLY <1>9, <2>3, i \in 1..Len(b), Zenon
      <3> QED
        BY <3>1, <3>2, <3>3, Zenon
    <2>6. Len(b) = Len(Append(a, d))
      BY ONLY <1>3, <2>2, <2>3, <2>4, Zenon
    <2>7. b = Append(a, d)
      BY ONLY <2>3, <2>4, <2>5, <2>6, SameSeq, Zenon
    <2> QED
      BY <2>7, Zenon DEF a, b
  <1> QED
    BY <1>13, <1>14, Zenon DEF r

(* A node leaves the list and is freed. *)
Freeing(s, k, n) ==
    /\ Bypassed(s, k, n, llHead, llTail, NextOf(llNode), PrevOf(llNode),
                NextOf(llNode'), PrevOf(llNode'), llHead', llTail')
    /\ llNode' \in [Nodes -> NodeType]
    /\ \A x \in Nodes : x # n => llNode'[x].data = llNode[x].data
    /\ llLive' = llLive \ {n} /\ llCount' = llCount - 1

(* Freeing the k-th node takes its datum out of the data in order. *)
LEMMA Popped ==
    ASSUME NEW s, HeldNow(s), NEW k, NEW n, Freeing(s, k, n)
    PROVE  /\ HeldThen(Dropped(s, k))
           /\ DataOf(Dropped(s, k), llNode') = Dropped(DataOf(s, llNode), k)
  <1> DEFINE r == Dropped(s, k)
  <1>1. /\ s \in Seq(Nodes) /\ Distinct(s) /\ llCount = Len(s)
        /\ \A i \in 1..Len(s) : llNode[s[i]].data \in Data
        /\ \A i \in 1..Len(s) : s[i] \in llLive
        /\ \A x \in llLive : \E i \in 1..Len(s) : s[i] = x
    BY Zenon DEF HeldNow, Held
  <1>2. k \in 1..Len(s) /\ n = s[k]
    BY Zenon DEF Freeing, Bypassed
  <1>3. /\ llNode' \in [Nodes -> NodeType]
        /\ \A x \in Nodes : x # n => llNode'[x].data = llNode[x].data
        /\ llLive' = llLive \ {n} /\ llCount' = llCount - 1
    BY Zenon DEF Freeing
  <1>4. /\ r \in Seq(Nodes) /\ Len(r) = Len(s) - 1
        /\ \A j \in 1..Len(s) - 1 : j < k => r[j] = s[j]
        /\ \A j \in 1..Len(s) - 1 : j >= k => r[j] = s[j + 1]
    BY ONLY <1>1, <1>2, DroppedAt
  <1>5. /\ Distinct(r)
        /\ \A j \in 1..Len(r) : \E i \in 1..Len(s) : i # k /\ r[j] = s[i]
        /\ \A i \in 1..Len(s) : i # k => \E j \in 1..Len(r) : r[j] = s[i]
    BY ONLY <1>1, <1>2, DistinctDropped, Zenon
  <1>6. Chain(r, llHead', llTail', NextOf(llNode'), PrevOf(llNode'))
    BY ChainDropped, Zenon DEF Freeing
  <1>7. \A i \in 1..Len(s) : i # k => s[i] # n
    BY <1>1, <1>2, Zenon DEF Distinct
  <1>8. \A i \in 1..Len(s) : s[i] \in Nodes
    BY ONLY <1>1
  <1> HIDE DEF r
  <1>9. \A i \in 1..Len(s) : i # k => llNode'[s[i]].data = llNode[s[i]].data
    BY ONLY <1>3, <1>7, <1>8, Zenon
  <1>10. \A j \in 1..Len(r) : llNode'[r[j]].data \in Data /\ r[j] \in llLive'
    <2> TAKE j \in 1..Len(r)
    <2>1. PICK i \in 1..Len(s) : i # k /\ r[j] = s[i]
      BY ONLY <1>5, j \in 1..Len(r), Zenon
    <2>2. s[i] # n /\ llNode'[s[i]].data = llNode[s[i]].data
      BY ONLY <1>7, <1>9, <2>1, Zenon
    <2>3. llNode[s[i]].data \in Data /\ s[i] \in llLive
      BY ONLY <1>1, <2>1, Zenon
    <2> QED
      BY ONLY <1>3, <2>1, <2>2, <2>3, Zenon
  <1>11. \A x \in llLive' : \E j \in 1..Len(r) : r[j] = x
    <2> SUFFICES ASSUME NEW x \in llLive' PROVE \E j \in 1..Len(r) : r[j] = x
      BY Zenon
    <2>1. x \in llLive /\ x # n
      BY ONLY <1>3, x \in llLive', Zenon
    <2>2. PICK i \in 1..Len(s) : s[i] = x
      BY ONLY <1>1, <2>1, Zenon
    <2>3. i # k
      BY ONLY <1>2, <2>1, <2>2, Zenon
    <2> QED
      BY ONLY <1>5, <2>2, <2>3, Zenon
  <1>12. llCount' = Len(r)
    BY ONLY <1>1, <1>3, <1>4, Zenon
  <1>13. HeldThen(r)
    BY ONLY <1>3, <1>4, <1>5, <1>6, <1>10, <1>11, <1>12, Zenon DEF HeldThen, Held
  <1>14. DataOf(r, llNode') = Dropped(DataOf(s, llNode), k)
    <2> DEFINE a == DataOf(s, llNode)
               b == DataOf(r, llNode')
               e == Dropped(a, k)
    <2>2. a \in Seq(Data) /\ Len(a) = Len(s) /\ \A i \in 1..Len(s) : a[i] = llNode[s[i]].data
      BY DataSeq DEF HeldNow
    <2>3. b \in Seq(Data) /\ Len(b) = Len(r) /\ \A i \in 1..Len(r) : b[i] = llNode'[r[i]].data
      <3>1. Held(r, llHead', llTail', llCount', llNode', llLive')
        BY <1>13, Zenon DEF HeldThen
      <3> QED
        BY ONLY <3>1, DataSeq
    <2> HIDE DEF a, b
    <2>4. /\ e \in Seq(Data) /\ Len(e) = Len(a) - 1
          /\ \A j \in 1..Len(a) - 1 : j < k => e[j] = a[j]
          /\ \A j \in 1..Len(a) - 1 : j >= k => e[j] = a[j + 1]
      <3>1. k \in 1..Len(a)
        BY ONLY <1>2, <2>2, Zenon
      <3> QED
        BY ONLY <2>2, <3>1, DroppedAt, Zenon
    <2> HIDE DEF e
    <2>5. Len(s) \in Nat /\ k \in Nat
      BY ONLY <1>1, <1>2
    <2>6. ASSUME NEW j \in 1..Len(b) PROVE b[j] = e[j]
      <3>1. j \in 1..Len(s) - 1 /\ j \in 1..Len(a) - 1 /\ j \in 1..Len(r)
        BY ONLY <1>4, <2>2, <2>3, j \in 1..Len(b), Zenon
      <3>2. CASE j < k
        <4>1. j \in 1..Len(s) /\ j # k
          BY ONLY <2>5, <3>1, <3>2
        <4>2. r[j] = s[j] /\ e[j] = a[j]
          BY ONLY <1>4, <2>4, <3>1, <3>2, Zenon
        <4> QED
          BY ONLY <1>9, <2>2, <2>3, <3>1, <4>1, <4>2, Zenon
      <3>3. CASE j >= k
        <4> DEFINE i == j + 1
        <4>1. i \in 1..Len(s) /\ i # k
          BY ONLY <2>5, <3>1, <3>3
        <4>2. r[j] = s[i] /\ e[j] = a[i]
          BY ONLY <1>4, <2>4, <3>1, <3>3, Zenon
        <4> HIDE DEF i
        <4> QED
          BY ONLY <1>9, <2>2, <2>3, <3>1, <4>1, <4>2, Zenon
      <3>4. j < k \/ j >= k
        BY ONLY <2>5, <3>1
      <3> QED
        BY <3>2, <3>3, <3>4, Zenon
    <2>7. Len(b) = Len(e)
      BY ONLY <1>4, <2>2, <2>3, <2>4, Zenon
    <2>8. b = e
      BY ONLY <2>3, <2>4, <2>6, <2>7, SameSeq
    <2> QED
      BY <2>8, Zenon DEF a, b, e
  <1> QED
    BY <1>13, <1>14, Zenon DEF r

(* The first m elements of a sequence. *)
LEMMA FirstOf ==
    ASSUME NEW S, NEW a \in Seq(S), NEW m \in 0..Len(a)
    PROVE  /\ SubSeq(a, 1, m) \in Seq(S) /\ Len(SubSeq(a, 1, m)) = m
           /\ \A j \in 1..m : SubSeq(a, 1, m)[j] = a[j]
  OBVIOUS

(* A sequence without its first, and without its last, element. *)
LEMMA DroppedEnds ==
    ASSUME NEW S, NEW a \in Seq(S), Len(a) # 0
    PROVE  /\ Dropped(a, 1) = Tail(a) /\ Dropped(a, Len(a)) = SubSeq(a, 1, Len(a) - 1)
           /\ Head(a) = a[1] /\ a # <<>>
  <1>1. Len(a) \in Nat /\ 1 \in 1..Len(a) /\ Len(a) \in 1..Len(a)
    OBVIOUS
  <1>2. Dropped(a, 1) = Tail(a)
    <2> DEFINE r == Dropped(a, 1)
    <2>1. r \in Seq(S) /\ Len(r) = Len(a) - 1 /\ \A j \in 1..Len(a) - 1 : j >= 1 => r[j] = a[j + 1]
      BY <1>1, DroppedAt
    <2> HIDE DEF r
    <2>2. Tail(a) \in Seq(S) /\ Len(Tail(a)) = Len(a) - 1 /\ \A j \in 1..Len(a) - 1 : Tail(a)[j] = a[j + 1]
      BY <1>1
    <2>3. \A j \in 1..Len(a) - 1 : j >= 1
      BY <1>1
    <2>4. r = Tail(a)
      BY ONLY <2>1, <2>2, <2>3, SameSeq
    <2> QED
      BY <2>4, Zenon DEF r
  <1>3. Dropped(a, Len(a)) = SubSeq(a, 1, Len(a) - 1)
    <2> DEFINE r == Dropped(a, Len(a))
               z == SubSeq(a, 1, Len(a) - 1)
    <2>1. r \in Seq(S) /\ Len(r) = Len(a) - 1 /\ \A j \in 1..Len(a) - 1 : j < Len(a) => r[j] = a[j]
      BY <1>1, DroppedAt
    <2>2. z \in Seq(S) /\ Len(z) = Len(a) - 1 /\ \A j \in 1..Len(a) - 1 : z[j] = a[j]
      <3>1. Len(a) - 1 \in 0..Len(a)
        BY <1>1
      <3> QED
        BY <3>1, FirstOf, Zenon
    <2> HIDE DEF r, z
    <2>3. \A j \in 1..Len(a) - 1 : j < Len(a)
      BY <1>1
    <2>4. r = z
      BY ONLY <2>1, <2>2, <2>3, SameSeq
    <2> QED
      BY <2>4, Zenon DEF r, z
  <1>4. Head(a) = a[1] /\ a # <<>>
    OBVIOUS
  <1> QED
    BY <1>2, <1>3, <1>4, Zenon

(* linkedlist_remove_head on a list that is not empty *)
LEMMA PopHead ==
    ASSUME NEW s, HeldNow(s), llHead # null,
           llHead' = llNode[llHead].next,
           llTail' = IF llHead' # null THEN llTail ELSE null,
           llNode' = [m \in Nodes |-> IF m = llHead THEN [data |-> junk, next |-> junk, prev |-> junk]
                         ELSE IF m = llHead' THEN [llNode[m] EXCEPT !.prev = null] ELSE llNode[m]],
           llLive' = llLive \ {llHead}, llCount' = llCount - 1
    PROVE  Freeing(s, 1, llHead)
  <1> DEFINE n == llHead
             nx == NextOf(llNode)
             pv == PrevOf(llNode)
             mx == NextOf(llNode')
             qv == PrevOf(llNode')
  <1>1. /\ s \in Seq(Nodes) /\ Distinct(s) /\ Chain(s, llHead, llTail, nx, pv)
        /\ llNode \in [Nodes -> NodeType]
    BY Zenon DEF HeldNow, Held
  <1>2. /\ \A i \in 1..Len(s) : s[i] \in Nodes
        /\ 1 \in 1..Len(s) /\ n = s[1] /\ n \in Nodes
    BY HeldEnds DEF HeldNow
  <1>3. llHead' = nx[n]
    BY <1>2, Zenon DEF NextOf
  <1>4. /\ llNode' \in [Nodes -> NodeType]
        /\ \A x \in Nodes : x # n => mx[x] = nx[x] /\ llNode'[x].data = llNode[x].data
        /\ \A x \in Nodes : x # n => (x = llHead' => qv[x] = null)
        /\ \A x \in Nodes : x # n => (x # llHead' => qv[x] = pv[x])
    BY <1>1 DEF NodeType, NextOf, PrevOf
  <1>5. (nx[n] # null => llTail' = llTail) /\ (nx[n] = null => llTail' = null)
    BY <1>3, Zenon
  <1>6. llLive' = llLive \ {n} /\ llCount' = llCount - 1
    BY Zenon
  <1> HIDE DEF n, nx, pv, mx, qv
  <1>7. pv[n] = null
    BY ONLY <1>1, <1>2, Zenon DEF Chain
  <1>8. \A i \in 1..Len(s) : i # 1 => s[i] # n /\ s[i] # pv[n]
    BY ONLY <1>1, <1>2, <1>7, NullIsNoNode, Zenon DEF Distinct
  <1>9. \A i \in 1..Len(s) : i # 1 => mx[s[i]] = nx[s[i]]
    BY ONLY <1>2, <1>4, <1>8, Zenon
  <1>10. \A i \in 1..Len(s) : i # 1 => (s[i] = nx[n] => qv[s[i]] = pv[n])
    BY ONLY <1>2, <1>3, <1>4, <1>7, <1>8, Zenon
  <1>11. \A i \in 1..Len(s) : i # 1 => (s[i] # nx[n] => qv[s[i]] = pv[s[i]])
    BY ONLY <1>2, <1>3, <1>4, <1>8, Zenon
  <1>12. Bypassed(s, 1, n, llHead, llTail, nx, pv, mx, qv, llHead', llTail')
    BY ONLY <1>1, <1>2, <1>3, <1>5, <1>7, <1>8, <1>9, <1>10, <1>11, Zenon DEF Bypassed
  <1>13. /\ llNode' \in [Nodes -> NodeType]
         /\ \A x \in Nodes : x # n => llNode'[x].data = llNode[x].data
    BY ONLY <1>4, Zenon
  <1> QED
    BY ONLY <1>6, <1>12, <1>13, Zenon DEF Freeing, n, nx, pv, mx, qv

(* linkedlist_remove_tail on a list that is not empty *)
LEMMA PopTail ==
    ASSUME NEW s, HeldNow(s), llTail # null,
           llTail' = llNode[llTail].prev,
           llHead' = IF llTail' # null THEN llHead ELSE null,
           llNode' = [m \in Nodes |-> IF m = llTail THEN [data |-> junk, next |-> junk, prev |-> junk]
                         ELSE IF m = llTail' THEN [llNode[m] EXCEPT !.next = null] ELSE llNode[m]],
           llLive' = llLive \ {llTail}, llCount' = llCount - 1
    PROVE  Freeing(s, Len(s), llTail)
  <1> DEFINE n == llTail
             nx == NextOf(llNode)
             pv == PrevOf(llNode)
             mx == NextOf(llNode')
             qv == PrevOf(llNode')
  <1>1. /\ s \in Seq(Nodes) /\ Distinct(s) /\ Chain(s, llHead, llTail, nx, pv)
        /\ llNode \in [Nodes -> NodeType]
    BY Zenon DEF HeldNow, Held
  <1>2. /\ \A i \in 1..Len(s) : s[i] \in Nodes
        /\ Len(s) \in 1..Len(s) /\ n = s[Len(s)] /\ n \in Nodes
    BY HeldEnds DEF HeldNow
  <1>3. llTail' = pv[n]
    BY <1>2, Zenon DEF PrevOf
  <1>4. /\ llNode' \in [Nodes -> NodeType]
        /\ \A x \in Nodes : x # n => qv[x] = pv[x] /\ llNode'[x].data = llNode[x].data
        /\ \A x \in Nodes : x # n => (x = llTail' => mx[x] = null)
        /\ \A x \in Nodes : x # n => (x # llTail' => mx[x] = nx[x])
    BY <1>1 DEF NodeType, NextOf, PrevOf
  <1>5. (pv[n] # null => llHead' = llHead) /\ (pv[n] = null => llHead' = null)
    BY <1>3, Zenon
  <1>6. llLive' = llLive \ {n} /\ llCount' = llCount - 1
    BY Zenon
  <1> HIDE DEF n, nx, pv, mx, qv
  <1>7. nx[n] = null
    BY ONLY <1>1, <1>2, Zenon DEF Chain
  <1>8. \A i \in 1..Len(s) : i # Len(s) => s[i] # n /\ s[i] # nx[n]
    BY ONLY <1>1, <1>2, <1>7, NullIsNoNode, Zenon DEF Distinct
  <1>9. \A i \in 1..Len(s) : i # Len(s) => qv[s[i]] = pv[s[i]]
    BY ONLY <1>2, <1>4, <1>8, Zenon
  <1>10. \A i \in 1..Len(s) : i # Len(s) => (s[i] = pv[n] => mx[s[i]] = nx[n])
    BY ONLY <1>2, <1>3, <1>4, <1>7, <1>8, Zenon
  <1>11. \A i \in 1..Len(s) : i # Len(s) => (s[i] # pv[n] => mx[s[i]] = nx[s[i]])
    BY ONLY <1>2, <1>3, <1>4, <1>8, Zenon
  <1>12. Bypassed(s, Len(s), n, llHead, llTail, nx, pv, mx, qv, llHead', llTail')
    BY ONLY <1>1, <1>2, <1>3, <1>5, <1>7, <1>8, <1>9, <1>10, <1>11, Zenon DEF Bypassed
  <1>13. /\ llNode' \in [Nodes -> NodeType]
         /\ \A x \in Nodes : x # n => llNode'[x].data = llNode[x].data
    BY ONLY <1>4, Zenon
  <1> QED
    BY ONLY <1>6, <1>12, <1>13, Zenon DEF Freeing, n, nx, pv, mx, qv

(* The data at the ends of the list. *)
LEMMA EndData ==
    ASSUME NEW s, NEW a, HeldNow(s), a = DataOf(s, llNode)
    PROVE  /\ a \in Seq(Data) /\ Len(a) = Len(s)
           /\ (llHead = null <=> a = <<>>) /\ (llTail = null <=> a = <<>>)
           /\ (llHead # null => Len(a) # 0)
           /\ (IF llHead = null THEN null ELSE llNode[llHead].data) =
                  (IF a = <<>> THEN null ELSE Head(a))
           /\ (IF llTail = null THEN null ELSE llNode[llTail].data) =
                  (IF a = <<>> THEN null ELSE a[Len(a)])
  <1>1. a \in Seq(Data) /\ Len(a) = Len(s) /\ \A i \in 1..Len(s) : a[i] = llNode[s[i]].data
    BY DataSeq DEF HeldNow
  <1>2. (Len(s) = 0 /\ llHead = null /\ llTail = null)
        \/ (/\ Len(s) # 0 /\ 1 \in 1..Len(s) /\ Len(s) \in 1..Len(s)
            /\ llHead = s[1] /\ llTail = s[Len(s)] /\ llHead \in Nodes /\ llTail \in Nodes)
    BY HeldEnds DEF HeldNow
  <1>3. (a = <<>> <=> Len(a) = 0) /\ (a # <<>> => Head(a) = a[1])
    BY ONLY <1>1
  <1>4. llHead = null <=> Len(s) = 0
    BY ONLY <1>2, NullIsNoNode, Zenon
  <1>5. llTail = null <=> Len(s) = 0
    BY ONLY <1>2, NullIsNoNode, Zenon
  <1>6. llHead # null => a[1] = llNode[llHead].data /\ a[Len(a)] = llNode[llTail].data
    BY ONLY <1>1, <1>2, <1>4, Zenon
  <1> QED
    BY ONLY <1>1, <1>3, <1>4, <1>5, <1>6, Zenon

-----------------------------------------------------------------------------
(* Induction: the order on numbers is well-founded. *)

Orders == INSTANCE WellFoundedInduction

(* A set of numbers that is not empty has a least one. *)
LEMMA LeastElement ==
    ASSUME NEW T, T \subseteq Nat, T # {}
    PROVE  \E x \in T : \A y \in T : x <= y
  <1>1. PICK x \in T : \A y \in T : ~(<<y, x>> \in Orders!OpToRel(<, Nat))
    BY Orders!NatLessThanWellFounded, Orders!WFMin, Zenon
  <1>2. ASSUME NEW y \in T PROVE x <= y
    <2>1. x \in Nat /\ y \in Nat
      OBVIOUS
    <2>2. <<y, x>> \in Nat \X Nat /\ ~(<<y, x>> \in Orders!OpToRel(<, Nat))
      BY <1>1, <2>1, Zenon
    <2>3. ~(y < x)
      BY <2>2, Zenon DEF Orders!OpToRel
    <2> QED
      BY <2>1, <2>3
  <1> QED
    BY <1>2, Zenon

(* A set of numbers that has 0, and with a number below n the next one,    *)
(* has all of them up to n.                                                *)
LEMMA UpTo ==
    ASSUME NEW n \in Nat, NEW T, 0 \in T, \A k \in 0..n - 1 : k \in T => k + 1 \in T
    PROVE  \A k \in 0..n : k \in T
  <1> DEFINE out == {k \in 0..n : k \notin T}
  <1> SUFFICES ASSUME out # {} PROVE FALSE
    OBVIOUS
  <1>1. out \subseteq Nat
    OBVIOUS
  <1>2. PICK x \in out : \A y \in out : x <= y
    BY <1>1, LeastElement, Zenon
  <1>3. x # 0 /\ x \in Nat /\ x - 1 \in 0..n - 1 /\ x \notin T
    BY <1>2
  <1>4. x - 1 \in T
    <2>1. ~(x <= x - 1) /\ x - 1 \in 0..n
      BY <1>3
    <2> QED
      BY <1>2, <2>1, Zenon
  <1>5. x - 1 + 1 = x
    BY <1>3
  <1> QED
    BY <1>3, <1>4, <1>5, Zenon

-----------------------------------------------------------------------------
(* Lists as their callers walk them. *)

(* The nodes met from h along nx, then z. *)
Trail(h, nx, z) ==
    LET r[k \in Nat] == IF k = 0 THEN h
                        ELSE IF r[k - 1] \in Nodes THEN nx[r[k - 1]] ELSE z
    IN  r

(* From its head a chain is walked node by node, and ends. *)
LEMMA ChainTrail ==
    ASSUME NEW s \in Seq(Nodes), NEW h, NEW t, NEW nx, NEW pv, Chain(s, h, t, nx, pv),
           NEW z, z \notin Nodes
    PROVE  /\ \A i \in 1..Len(s) : Trail(h, nx, z)[i - 1] = s[i]
           /\ Trail(h, nx, z)[Len(s)] = null
  <1> DEFINE L == Len(s)
             w == [k \in Nat |-> IF k < L THEN s[k + 1] ELSE IF k = L THEN null ELSE z]
             T(r) == r = [k \in Nat |-> IF k = 0 THEN h
                                        ELSE IF r[k - 1] \in Nodes THEN nx[r[k - 1]] ELSE z]
             u == Trail(h, nx, z)
  <1>1. L \in Nat
    OBVIOUS
  <1>2. \A i \in 1..L : s[i] \in Nodes /\ (i = L => nx[s[i]] = null)
                        /\ (i < L => nx[s[i]] = s[i + 1])
    BY DEF Chain
  <1>3. (L = 0 => h = null) /\ (L > 0 => h = s[1])
    BY Zenon DEF Chain
  <1> HIDE DEF L
  <1>4. T(w)
    <2>1. ASSUME NEW k \in Nat
          PROVE  w[k] = IF k = 0 THEN h
                        ELSE IF w[k - 1] \in Nodes THEN nx[w[k - 1]] ELSE z
      <3>1. CASE k = 0
        BY <1>1, <1>3, <3>1
      <3>2. CASE k # 0 /\ k <= L
        <4>1. k \in 1..L /\ k - 1 \in Nat /\ k - 1 < L /\ k - 1 + 1 = k /\ (k < L \/ k = L) /\ ~(L < L)
          BY <1>1, <3>2
        <4>2. w[k - 1] = s[k]
          BY <4>1, Zenon
        <4>3. w[k] = nx[s[k]]
          BY <1>2, <4>1, Zenon
        <4> QED
          BY <1>2, <3>2, <4>1, <4>2, <4>3, Zenon
      <3>3. CASE k > L
        <4>1. k - 1 \in Nat /\ ~(k - 1 < L) /\ ~(k < L) /\ k # L /\ k # 0
          BY <1>1, <3>3
        <4>2. w[k - 1] \in {null, z} /\ w[k] = z
          BY <4>1, Zenon
        <4> QED
          BY <4>1, <4>2, NullIsNoNode, Zenon
      <3>4. k = 0 \/ (k # 0 /\ k <= L) \/ k > L
        BY <1>1
      <3> QED
        BY <3>1, <3>2, <3>3, <3>4, Zenon
    <2> QED
      BY <2>1, Zenon
  <1>5. T(u)
    <2>1. \E r : T(r)
      BY <1>4, Zenon
    <2>2. u = CHOOSE r : T(r)
      BY Zenon DEF Trail
    <2> QED
      BY <2>1, <2>2, Zenon
  <1> DEFINE E == {k \in Nat : (k < L => u[k] = s[k + 1]) /\ (k = L => u[k] = null)}
  <1>6. \A k \in Nat : u[k] = IF k = 0 THEN h
                              ELSE IF u[k - 1] \in Nodes THEN nx[u[k - 1]] ELSE z
    <2> HIDE DEF u
    <2> DEFINE v == [k \in Nat |-> IF k = 0 THEN h
                                  ELSE IF u[k - 1] \in Nodes THEN nx[u[k - 1]] ELSE z]
    <2>1. u = v
      BY <1>5, Zenon
    <2>2. \A k \in Nat : v[k] = IF k = 0 THEN h
                               ELSE IF u[k - 1] \in Nodes THEN nx[u[k - 1]] ELSE z
      BY Zenon
    <2> HIDE DEF v
    <2> QED
      BY <2>1, <2>2, Zenon
  <1> HIDE DEF u, w, T
  <1>7. 0 \in E
    <2>1. u[0] = h
      BY <1>6
    <2>2. 0 + 1 = 1 /\ 0 \in Nat /\ (0 < L => L > 0)
      BY <1>1
    <2> QED
      BY <1>3, <2>1, <2>2, Zenon
  <1>8. ASSUME NEW k \in 0..L - 1, k \in E PROVE k + 1 \in E
    <2> DEFINE a == k + 1
    <2>1. k \in Nat /\ k < L /\ a \in Nat /\ a # 0 /\ a - 1 = k /\ a \in 1..L
      BY <1>1
    <2>2. u[k] = s[a]
      BY <1>8, <2>1, Zenon
    <2> HIDE DEF a
    <2>3. s[a] \in Nodes /\ u[a - 1] = s[a]
      BY <1>2, <2>1, <2>2, Zenon
    <2>4. u[a] = nx[s[a]]
      BY <1>6, <2>1, <2>3, Zenon
    <2>5. a \in E
      BY <1>2, <2>1, <2>4, Zenon
    <2> QED
      BY <2>5, Zenon DEF a
  <1> HIDE DEF E
  <1>9. \A k \in 0..L : k \in E
    BY <1>1, <1>7, <1>8, UpTo, Zenon
  <1>10. \A i \in 1..L : i - 1 \in 0..L /\ i - 1 < L /\ i - 1 + 1 = i
    BY <1>1
  <1>11. L \in 0..L
    BY <1>1
  <1> QED
    BY <1>9, <1>10, <1>11, Zenon DEF E, u, L

(* Walked from its head for its count, each list is its sequence. *)
LEMMA ListWalk ==
    ASSUME NEW q, NEW h, NEW t, NEW c, NEW nx, NEW pv, Laid(q, h, t, c, nx, pv),
           NEW l \in Lists
    PROVE  /\ [i \in 1..c[l] |-> Trail(h[l], nx, null)[i - 1]] = q[l]
           /\ Trail(h[l], nx, null)[c[l]] = null
  <1> DEFINE s == q[l]
             f == Trail(h[l], nx, null)
  <1>1. s \in Seq(Nodes) /\ Chain(s, h[l], t[l], nx, pv) /\ c[l] = Len(s)
    BY Zenon DEF Laid
  <1>2. (\A i \in 1..Len(s) : f[i - 1] = s[i]) /\ f[Len(s)] = null
    BY ONLY <1>1, NullIsNoNode, ChainTrail
  <1> HIDE DEF s, f
  <1>3. s = [i \in 1..Len(s) |-> s[i]]
    BY ONLY <1>1
  <1>4. [i \in 1..Len(s) |-> f[i - 1]] = [i \in 1..Len(s) |-> s[i]]
    BY ONLY <1>2, Zenon
  <1>5. [i \in 1..c[l] |-> f[i - 1]] = s /\ f[c[l]] = null
    BY ONLY <1>1, <1>2, <1>3, <1>4, Zenon
  <1> QED
    BY <1>5, Zenon DEF s, f

(* Before a step the walks of intrusivelist.c are the sequences laid out. *)
LEMMA WalkNow ==
    ASSUME NEW q, Now(q)
    PROVE  /\ \A l \in Lists : Intrusive!Walk(l) = q[l]
           /\ \A l \in Lists : Intrusive!Reached(l)[ilCount[l]] = null
           /\ [l \in Lists |-> Intrusive!Walk(l)] = q
  <1>1. q \in [Lists -> Seq(Nodes)]
    BY Zenon DEF Now, Laid
  <1>2. ASSUME NEW l \in Lists
        PROVE  Intrusive!Walk(l) = q[l] /\ Intrusive!Reached(l)[ilCount[l]] = null
    <2>1. Intrusive!Reached(l) = Trail(ilHead[l], ilNext, null)
      BY Zenon DEF Intrusive!Reached, Trail
    <2>2. Intrusive!Walk(l) = [i \in 1..ilCount[l] |-> Trail(ilHead[l], ilNext, null)[i - 1]]
      BY <2>1, Zenon DEF Intrusive!Walk
    <2>3. /\ [i \in 1..ilCount[l] |-> Trail(ilHead[l], ilNext, null)[i - 1]] = q[l]
          /\ Trail(ilHead[l], ilNext, null)[ilCount[l]] = null
      BY ListWalk DEF Now
    <2> QED
      BY <2>1, <2>2, <2>3, Zenon
  <1> QED
    BY <1>1, <1>2, Zenon

(* After a step, too. *)
LEMMA WalkThen ==
    ASSUME NEW q, Then(q)
    PROVE  [l \in Lists |-> Intrusive!Walk(l)]' = q
  <1>1. q \in [Lists -> Seq(Nodes)]
    BY Zenon DEF Then, Laid
  <1>2. ASSUME NEW l \in Lists PROVE Intrusive!Walk(l)' = q[l]
    <2>1. Intrusive!Reached(l)' = Trail(ilHead'[l], ilNext', null)
      BY Zenon DEF Intrusive!Reached, Trail
    <2>2. Intrusive!Walk(l)' = [i \in 1..ilCount'[l] |-> Trail(ilHead'[l], ilNext', null)[i - 1]]
      BY <2>1, Zenon DEF Intrusive!Walk
    <2>3. [i \in 1..ilCount'[l] |-> Trail(ilHead'[l], ilNext', null)[i - 1]] = q[l]
      BY ListWalk DEF Then
    <2> QED
      BY <2>2, <2>3, Zenon
  <1>3. [l \in Lists |-> Intrusive!Walk(l)]' = [l \in Lists |-> Intrusive!Walk(l)']
    BY Zenon
  <1> QED
    BY <1>1, <1>2, <1>3, Zenon

(* A node in no list is in no sequence. *)
LEMMA FreeNode ==
    ASSUME NEW q, Now(q), NEW n \in Nodes, n \notin Intrusive!Linked
    PROVE  Fresh(q, n) /\ n \notin Intrusive!Abstract!Members
  <1>1. \A l \in Lists : Intrusive!Walk(l) = q[l]
    BY WalkNow, Zenon
  <1>2. \A l \in Lists : ilCount[l] = Len(q[l])
    BY Zenon DEF Now, Laid
  <1>3. ASSUME NEW m \in Lists, NEW i \in 1..Len(q[m]) PROVE q[m][i] # n
    <2>1. q[m][i] \in Intrusive!MembersOf(m)
      BY <1>1, <1>2, Zenon DEF Intrusive!MembersOf
    <2>2. q[m][i] \in Intrusive!Linked
      BY <2>1, Zenon DEF Intrusive!Linked
    <2> QED
      BY <2>2, Zenon
  <1>4. ASSUME n \in Intrusive!Abstract!Members PROVE FALSE
    <2>1. PICK l \in Lists : \E i \in 1..Len(Intrusive!Walk(l)) : Intrusive!Walk(l)[i] = n
      BY <1>4, Zenon DEF Intrusive!Abstract!Members
    <2> QED
      BY <1>1, <1>3, <2>1, Zenon
  <1> QED
    BY <1>3, <1>4, Zenon DEF Fresh

(* The inductive invariant of the intrusive lists: some sequences of nodes *)
(* are laid out in the fields.                                             *)
ListInv == Intrusive!TypeOK /\ \E q : Now(q)

(* The lists of intrusivelist_new are laid out as empty sequences. *)
LEMMA ListInit == Intrusive!Init => ListInv /\ Intrusive!Abstract!Init
  <1> SUFFICES ASSUME Intrusive!Init PROVE ListInv /\ Intrusive!Abstract!Init
    OBVIOUS
  <1> DEFINE q == [l \in Lists |-> <<>>]
  <1>1. Intrusive!TypeOK
    BY DEF Intrusive!Init, Intrusive!TypeOK
  <1>2. \A l \in Lists : /\ q[l] = <<>> /\ q[l] \in Seq(Nodes) /\ Len(q[l]) = 0 /\ 1..Len(q[l]) = {}
                         /\ ~(Len(q[l]) > 0)
    OBVIOUS
  <1>3. \A l \in Lists : ilHead[l] = null /\ ilTail[l] = null /\ ilCount[l] = 0
    BY Zenon DEF Intrusive!Init
  <1>4. q \in [Lists -> Seq(Nodes)]
    BY <1>2, Zenon
  <1> HIDE DEF q
  <1>5. Now(q)
    <2>1. \A l \in Lists : ilCount[l] = Len(q[l])
      BY <1>2, <1>3, Zenon
    <2>2. \A l \in Lists : Chain(q[l], ilHead[l], ilTail[l], ilNext, ilPrev)
      BY <1>2, <1>3, Zenon DEF Chain
    <2>3. \A l \in Lists : Distinct(q[l])
      BY <1>2, Zenon DEF Distinct
    <2> QED
      BY <1>2, <1>4, <2>1, <2>2, <2>3, Zenon DEF Now, Laid
  <1>6. [l \in Lists |-> Intrusive!Walk(l)] = q
    BY <1>5, WalkNow, Zenon
  <1> QED
    BY <1>1, <1>5, <1>6, Zenon DEF ListInv, Intrusive!Abstract!Init, q

(* Each call of intrusivelist.c keeps some layout, and does to the walks what ListSpec allows. *)
LEMMA ListStep ==
    ASSUME ListInv, [Intrusive!Next]_(Intrusive!vars)
    PROVE  ListInv' /\ [Intrusive!Abstract!Next]_([l \in Lists |-> Intrusive!Walk(l)])
  <1>1. Intrusive!TypeOK
    BY Zenon DEF ListInv
  <1>2. PICK q : Now(q)
    BY Zenon DEF ListInv
  <1>3. ASSUME NEW p, Then(p), Intrusive!TypeOK' PROVE ListInv'
    BY <1>3, Zenon DEF ListInv, Now, Then
  <1>4. ASSUME UNCHANGED Intrusive!fields
        PROVE  ListInv' /\ UNCHANGED [l \in Lists |-> Intrusive!Walk(l)]
    <2>1. /\ ilHead' = ilHead /\ ilTail' = ilTail /\ ilCount' = ilCount
          /\ ilNext' = ilNext /\ ilPrev' = ilPrev
      BY <1>4, Zenon DEF Intrusive!fields
    <2>2. Then(q)
      BY <1>2, <2>1, Zenon DEF Now, Then
    <2>3. Intrusive!TypeOK'
      BY <1>1, <2>1, Zenon DEF Intrusive!TypeOK
    <2>4. [l \in Lists |-> Intrusive!Walk(l)]' = [l \in Lists |-> Intrusive!Walk(l)]
      BY <1>2, <2>2, WalkNow, WalkThen, Zenon
    <2> QED
      BY <1>3, <2>2, <2>3, <2>4, Zenon
  <1>5. ASSUME NEW l \in Lists, NEW n \in Nodes, Intrusive!intrusivelist_insert_head(l, n)
        PROVE  ListInv' /\ Intrusive!Abstract!Next
    <2> DEFINE p == [q EXCEPT ![l] = <<n>> \o q[l]]
    <2>1. n \notin Intrusive!Linked
      BY <1>5, Zenon DEF Intrusive!intrusivelist_insert_head
    <2>2. Fresh(q, n) /\ n \notin Intrusive!Abstract!Members
      BY <1>2, <2>1, FreeNode, Zenon
    <2>3. Intrusive!TypeOK' /\ Then(p)
      BY <1>1, <1>2, <1>5, <2>2, InsertHead, Zenon
    <2>4. [k \in Lists |-> Intrusive!Walk(k)] = q
      BY <1>2, WalkNow, Zenon
    <2>5. [k \in Lists |-> Intrusive!Walk(k)]' = p
      BY <2>3, WalkThen, Zenon
    <2> HIDE DEF p
    <2>6. Intrusive!Abstract!InsertHead(l, n)
      BY <2>2, <2>4, <2>5, Zenon DEF Intrusive!Abstract!InsertHead, p
    <2> QED
      BY <1>3, <2>3, <2>6, Zenon DEF Intrusive!Abstract!Next
  <1>6. ASSUME NEW l \in Lists, NEW n \in Nodes, Intrusive!intrusivelist_insert_tail(l, n)
        PROVE  ListInv' /\ Intrusive!Abstract!Next
    <2> DEFINE p == [q EXCEPT ![l] = Append(q[l], n)]
    <2>1. n \notin Intrusive!Linked
      BY <1>6, Zenon DEF Intrusive!intrusivelist_insert_tail
    <2>2. Fresh(q, n) /\ n \notin Intrusive!Abstract!Members
      BY <1>2, <2>1, FreeNode, Zenon
    <2>3. Intrusive!TypeOK' /\ Then(p)
      BY <1>1, <1>2, <1>6, <2>2, InsertTail, Zenon
    <2>4. [k \in Lists |-> Intrusive!Walk(k)] = q
      BY <1>2, WalkNow, Zenon
    <2>5. [k \in Lists |-> Intrusive!Walk(k)]' = p
      BY <2>3, WalkThen, Zenon
    <2> HIDE DEF p
    <2>6. Intrusive!Abstract!InsertTail(l, n)
      BY <2>2, <2>4, <2>5, Zenon DEF Intrusive!Abstract!InsertTail, p
    <2> QED
      BY <1>3, <2>3, <2>6, Zenon DEF Intrusive!Abstract!Next
  <1>7. ASSUME NEW l \in Lists, NEW k, NEW n \in Nodes, Leaves(q, l, k, n), Intrusive!TypeOK'
        PROVE  ListInv' /\ Intrusive!Abstract!Next
    <2> DEFINE p == [q EXCEPT ![l] = Dropped(q[l], k)]
    <2>1. Then(p)
      BY <1>2, <1>7, Unlinked, Zenon
    <2>0. k \in 1..Len(q[l]) /\ n = q[l][k]
      BY <1>7, Zenon DEF Leaves, TakenOut
    <2>2. [m \in Lists |-> Intrusive!Walk(m)] = q
      BY <1>2, WalkNow, Zenon
    <2>3. [m \in Lists |-> Intrusive!Walk(m)]' = p
      BY <2>1, WalkThen, Zenon
    <2>4. p = [q EXCEPT ![l] = Intrusive!Abstract!Without(q[l], k)]
      BY Zenon DEF Intrusive!Abstract!Without, Dropped
    <2> HIDE DEF p
    <2>5. Intrusive!Abstract!Drop(l, n)
      BY <2>0, <2>2, <2>3, <2>4, Zenon DEF Intrusive!Abstract!Drop
    <2> QED
      BY <1>3, <1>7, <2>1, <2>5, Zenon DEF Intrusive!Abstract!Next
  <1>8. ASSUME NEW l \in Lists, NEW n \in Nodes, Intrusive!intrusivelist_remove(l, n)
        PROVE  ListInv' /\ Intrusive!Abstract!Next
    <2>1. Intrusive!Walk(l) = q[l]
      BY <1>2, WalkNow, Zenon
    <2>2. ilCount[l] = Len(q[l])
      BY <1>2, Zenon DEF Now, Laid
    <2>3. PICK k \in 1..Len(q[l]) : n = q[l][k]
      BY <1>8, <2>1, <2>2, Zenon DEF Intrusive!intrusivelist_remove, Intrusive!MembersOf
    <2>4. Intrusive!TypeOK' /\ Leaves(q, l, k, n)
      BY <1>1, <1>2, <1>8, <2>3, Remove, Zenon
    <2> QED
      BY <1>7, <2>4, Zenon
  <1>9. ASSUME NEW l \in Lists, Intrusive!intrusivelist_remove_head(l)
        PROVE  ListInv' /\ Intrusive!Abstract!Next
    <2>1. Intrusive!TypeOK' /\ ilHead[l] \in Nodes /\ \E k : Leaves(q, l, k, ilHead[l])
      BY <1>1, <1>2, <1>9, RemoveHead, Zenon
    <2> QED
      BY <1>7, <2>1, Zenon
  <1>10. ASSUME NEW l \in Lists, Intrusive!intrusivelist_remove_tail(l)
         PROVE  ListInv' /\ [Intrusive!Abstract!Next]_([k \in Lists |-> Intrusive!Walk(k)])
    <2>1. CASE ilTail[l] = null
      <3>1. UNCHANGED Intrusive!fields
        BY <1>10, <2>1, Zenon DEF Intrusive!intrusivelist_remove_tail, Intrusive!Fault
      <3> QED
        BY <1>4, <3>1, Zenon
    <2>2. CASE ilTail[l] # null
      <3>1. Intrusive!TypeOK' /\ ilTail[l] \in Nodes /\ \E k : Leaves(q, l, k, ilTail[l])
        BY <1>1, <1>2, <1>10, <2>2, RemoveTail, Zenon
      <3> QED
        BY <1>7, <3>1, Zenon
    <2> QED
      BY <2>1, <2>2, Zenon
  <1>11. CASE UNCHANGED Intrusive!vars
    <2>1. UNCHANGED Intrusive!fields
      BY <1>11, Zenon DEF Intrusive!vars, Intrusive!fields
    <2> QED
      BY <1>4, <2>1, Zenon
  <1> QED
    BY <1>5, <1>6, <1>8, <1>9, <1>10, <1>11, Zenon DEF Intrusive!Next

(* In a list laid out, prev undoes next and the ends are the ends. *)
LEMMA ListLinks == ListInv => Intrusive!LinksAgree
  <1> SUFFICES ASSUME NEW q, Now(q), NEW l \in Lists
               PROVE  /\ ilTail[l] = IF ilCount[l] = 0 THEN null ELSE Intrusive!Walk(l)[ilCount[l]]
                      /\ Intrusive!Reached(l)[ilCount[l]] = null
                      /\ \A i \in 1..ilCount[l] : ilPrev[Intrusive!Walk(l)[i]] =
                             IF i = 1 THEN null ELSE Intrusive!Walk(l)[i - 1]
    BY Zenon DEF ListInv, Intrusive!LinksAgree
  <1>1. Intrusive!Walk(l) = q[l] /\ Intrusive!Reached(l)[ilCount[l]] = null
    BY WalkNow, ZenonT(30)
  <1>2. /\ ilCount[l] = Len(q[l]) /\ Chain(q[l], ilHead[l], ilTail[l], ilNext, ilPrev)
        /\ Len(q[l]) \in Nat
    BY Ends DEF Now
  <1>3. (Len(q[l]) = 0 \/ Len(q[l]) > 0) /\ \A i \in 1..Len(q[l]) : i = 1 \/ i > 1
    BY ONLY <1>2
  <1> QED
    BY <1>1, <1>2, <1>3, Zenon DEF Chain

(* Whatever nodes are inserted and removed, in the middle or at either     *)
(* end, of any number of lists: the lists implement sequences of nodes     *)
(* (intrusivelist.c), and prev inverts next up to tail.                    *)
THEOREM IntrusiveLists ==
    Intrusive!Spec => Intrusive!ImplementsLists /\ []Intrusive!LinksAgree
  <1>1. ListInv /\ [Intrusive!Next]_(Intrusive!vars) =>
            ListInv' /\ [Intrusive!Abstract!Next]_([l \in Lists |-> Intrusive!Walk(l)])
    BY ListStep, Zenon
  <1> QED
    BY <1>1, ListInit, ListLinks, PTL
       DEF Intrusive!Spec, Intrusive!ImplementsLists, Intrusive!Abstract!Spec

-----------------------------------------------------------------------------
(* The list that allocates its nodes is a deque. *)

(* Walked from the head, the nodes are s. *)
LEMMA HeldWalk ==
    ASSUME NEW s, NEW h, NEW t, NEW c, NEW nd, NEW lv, Held(s, h, t, c, nd, lv)
    PROVE  [i \in 1..c |-> Trail(h, NextOf(nd), junk)[i - 1]] = s
  <1> DEFINE f == Trail(h, NextOf(nd), junk)
  <1>1. s \in Seq(Nodes) /\ Chain(s, h, t, NextOf(nd), PrevOf(nd)) /\ c = Len(s)
    BY Zenon DEF Held
  <1>2. \A i \in 1..Len(s) : f[i - 1] = s[i]
    <2>1. junk \notin Nodes
      BY NullIsNoNode, Zenon
    <2> QED
      BY ONLY <1>1, <2>1, ChainTrail
  <1> HIDE DEF f
  <1>3. s = [i \in 1..Len(s) |-> s[i]]
    BY ONLY <1>1
  <1>4. [i \in 1..Len(s) |-> f[i - 1]] = [i \in 1..Len(s) |-> s[i]]
    BY ONLY <1>2, Zenon
  <1> QED
    BY ONLY <1>1, <1>3, <1>4, Zenon DEF f

(* The walk of the model reads the same trail. *)
LEMMA TrailNow == Linked!Reached = Trail(llHead, NextOf(llNode), junk)
  <1>1. ASSUME NEW r
        PROVE  [k \in Nat |-> IF k = 0 THEN llHead
                              ELSE IF r[k - 1] \in Nodes THEN llNode[r[k - 1]].next ELSE junk]
             = [k \in Nat |-> IF k = 0 THEN llHead
                              ELSE IF r[k - 1] \in Nodes THEN NextOf(llNode)[r[k - 1]] ELSE junk]
    BY Zenon DEF NextOf
  <1> QED
    BY <1>1 DEF Linked!Reached, Trail

(* After a step, too. *)
LEMMA TrailThen == Linked!Reached' = Trail(llHead', NextOf(llNode'), junk)
  <1>1. ASSUME NEW r
        PROVE  [k \in Nat |-> IF k = 0 THEN llHead'
                              ELSE IF r[k - 1] \in Nodes THEN llNode'[r[k - 1]].next ELSE junk]
             = [k \in Nat |-> IF k = 0 THEN llHead'
                              ELSE IF r[k - 1] \in Nodes THEN NextOf(llNode')[r[k - 1]] ELSE junk]
    BY Zenon DEF NextOf
  <1> QED
    BY <1>1 DEF Linked!Reached, Trail

(* The data read along the list are those of the sequence it holds. *)
LEMMA ItemsNow ==
    ASSUME NEW s, HeldNow(s)
    PROVE  Linked!Walk = s /\ Linked!Items = DataOf(s, llNode)
  <1>1. [i \in 1..llCount |-> Trail(llHead, NextOf(llNode), junk)[i - 1]] = s
    BY HeldWalk DEF HeldNow
  <1>2. Linked!Walk = s
    BY <1>1, TrailNow, Zenon DEF Linked!Walk
  <1>3. llCount = Len(s) /\ s \in Seq(Nodes)
    BY Zenon DEF HeldNow, Held
  <1>4. \A i \in 1..Len(s) : s[i] \in Nodes
    BY ONLY <1>3
  <1>5. Linked!Items = DataOf(s, llNode)
    BY <1>2, <1>3, <1>4, Zenon DEF Linked!Items, DataOf
  <1> QED
    BY <1>2, <1>5, Zenon

(* After a step, too. *)
LEMMA ItemsThen ==
    ASSUME NEW s, HeldThen(s)
    PROVE  Linked!Items' = DataOf(s, llNode')
  <1>1. [i \in 1..llCount' |-> Trail(llHead', NextOf(llNode'), junk)[i - 1]] = s
    BY HeldWalk DEF HeldThen
  <1>2. Linked!Walk' = s
    BY <1>1, TrailThen, Zenon DEF Linked!Walk
  <1>3. llCount' = Len(s) /\ s \in Seq(Nodes)
    BY Zenon DEF HeldThen, Held
  <1>4. \A i \in 1..Len(s) : s[i] \in Nodes
    BY ONLY <1>3
  <1>5. Linked!Items' = DataOf(s, llNode')
    BY <1>2, <1>3, <1>4, Zenon DEF Linked!Items, DataOf
  <1> QED
    BY <1>5, Zenon

(* The inductive invariant of the allocating list. *)
DequeInv == \E s : HeldNow(s)

(* The list of linkedlist_new holds nothing. *)
LEMMA DequeInit == Linked!Init => DequeInv /\ Linked!Abstract!Init
  <1> SUFFICES ASSUME Linked!Init PROVE DequeInv /\ Linked!Abstract!Init
    OBVIOUS
  <1> DEFINE s == <<>>
  <1>1. /\ llHead = null /\ llTail = null /\ llCount = 0 /\ llLive = {} /\ llRet = null
        /\ llNode = [n \in Nodes |-> [data |-> junk, next |-> junk, prev |-> junk]]
    BY Zenon DEF Linked!Init, Linked!Freed
  <1>2. s \in Seq(Nodes) /\ Len(s) = 0 /\ 1..Len(s) = {} /\ ~(Len(s) > 0)
    OBVIOUS
  <1>3. llNode \in [Nodes -> NodeType]
    BY <1>1 DEF NodeType
  <1> HIDE DEF s
  <1>4. HeldNow(s)
    BY ONLY <1>1, <1>2, <1>3, Zenon DEF HeldNow, Held, Chain, Distinct
  <1>5. Linked!Items = <<>>
    <2>1. Linked!Items \in Seq(Data) /\ Len(Linked!Items) = 0
      BY <1>2, <1>4, ItemsNow, EndData, Zenon
    <2> QED
      BY ONLY <2>1
  <1> QED
    BY <1>1, <1>4, <1>5, Zenon DEF DequeInv, Linked!Abstract!Init

(* Calls that leave the list alone. *)
LEMMA SameList ==
    ASSUME NEW s, HeldNow(s), UNCHANGED Linked!list
    PROVE  DequeInv' /\ Linked!Items' = Linked!Items
  <1>1. /\ llHead' = llHead /\ llTail' = llTail /\ llCount' = llCount
        /\ llNode' = llNode /\ llLive' = llLive
    BY Zenon DEF Linked!list
  <1>2. HeldThen(s)
    BY <1>1, Zenon DEF HeldNow, HeldThen
  <1>3. Linked!Items' = Linked!Items
    BY <1>1, <1>2, ItemsNow, ItemsThen, Zenon
  <1> QED
    BY <1>2, <1>3, Zenon DEF DequeInv, HeldNow, HeldThen

(* Each call of linkedlist.c keeps the list held, and does to the data what DequeSpec allows. *)
LEMMA DequeStep ==
    ASSUME DequeInv, [Linked!Next]_(Linked!vars)
    PROVE  DequeInv' /\ [Linked!Abstract!Next]_<<Linked!Items, llRet>>
  <1>1. PICK s : HeldNow(s)
    BY Zenon DEF DequeInv
  <1>2. ASSUME NEW r, HeldThen(r) PROVE DequeInv'
    BY <1>2, Zenon DEF DequeInv, HeldNow, HeldThen
  <1>3. CASE UNCHANGED Linked!vars
    <2>1. UNCHANGED Linked!list /\ llRet' = llRet
      BY <1>3, Zenon DEF Linked!vars, Linked!list
    <2> QED
      BY <1>1, <2>1, SameList, Zenon
  <1>4. ASSUME Linked!Fault PROVE DequeInv' /\ UNCHANGED <<Linked!Items, llRet>>
    <2>1. UNCHANGED Linked!list /\ llRet' = llRet
      BY <1>4, Zenon DEF Linked!Fault
    <2> QED
      BY <1>1, <2>1, SameList, Zenon
  <1>5. ASSUME NEW d \in Data, Linked!linkedlist_insert_head(d)
        PROVE  DequeInv' /\ [Linked!Abstract!Next]_<<Linked!Items, llRet>>
    <2>1. CASE Linked!Fault
      BY <1>4, <2>1, Zenon
    <2>2. CASE ~Linked!Fault
      <3>1. PICK n \in Nodes \ llLive :
               /\ llLive' = llLive \cup {n}
               /\ llNode' = [m \in Nodes |->
                      IF m = n THEN [data |-> d, next |-> llHead, prev |-> null]
                      ELSE IF m = llHead THEN [llNode[m] EXCEPT !.prev = n] ELSE llNode[m]]
               /\ llTail' = IF llHead # null THEN llTail ELSE n
               /\ llHead' = n /\ llCount' = llCount + 1 /\ llRet' = null
        BY <1>5, <2>2, Zenon DEF Linked!linkedlist_insert_head, Linked!kalloc
      <3>2. HeldThen(<<n>> \o s) /\ DataOf(<<n>> \o s, llNode') = <<d>> \o DataOf(s, llNode)
        BY ONLY <1>1, <3>1, d \in Data, PushHead, Zenon
      <3>3. Linked!Items' = <<d>> \o Linked!Items
        BY <1>1, <3>2, ItemsNow, ItemsThen, Zenon
      <3> QED
        BY <1>2, <3>1, <3>2, <3>3, Zenon DEF Linked!Abstract!Next, Linked!Abstract!InsertHead
    <2> QED
      BY <2>1, <2>2, Zenon
  <1>6. ASSUME NEW d \in Data, Linked!linkedlist_insert_tail(d)
        PROVE  DequeInv' /\ [Linked!Abstract!Next]_<<Linked!Items, llRet>>
    <2>1. CASE Linked!Fault
      BY <1>4, <2>1, Zenon
    <2>2. CASE ~Linked!Fault
      <3>1. PICK n \in Nodes \ llLive :
               /\ llLive' = llLive \cup {n}
               /\ llNode' = [m \in Nodes |->
                      IF m = n THEN [data |-> d, next |-> null, prev |-> llTail]
                      ELSE IF m = llTail THEN [llNode[m] EXCEPT !.next = n] ELSE llNode[m]]
               /\ llHead' = IF llTail # null THEN llHead ELSE n
               /\ llTail' = n /\ llCount' = llCount + 1 /\ llRet' = null
        BY <1>6, <2>2, Zenon DEF Linked!linkedlist_insert_tail, Linked!kalloc
      <3>2. HeldThen(Append(s, n)) /\ DataOf(Append(s, n), llNode') = Append(DataOf(s, llNode), d)
        BY ONLY <1>1, <3>1, d \in Data, PushTail, Zenon
      <3>3. Linked!Items' = Append(Linked!Items, d)
        BY <1>1, <3>2, ItemsNow, ItemsThen, Zenon
      <3> QED
        BY <1>2, <3>1, <3>2, <3>3, Zenon DEF Linked!Abstract!Next, Linked!Abstract!InsertTail
    <2> QED
      BY <2>1, <2>2, Zenon
  <1> DEFINE a == Linked!Items
  <1>7. /\ a \in Seq(Data) /\ Len(a) = Len(s)
        /\ (llHead = null <=> a = <<>>) /\ (llTail = null <=> a = <<>>)
        /\ (llHead # null => Len(a) # 0)
        /\ (IF llHead = null THEN null ELSE llNode[llHead].data) = Linked!Abstract!First
        /\ (IF llTail = null THEN null ELSE llNode[llTail].data) = Linked!Abstract!Final
    <2>1. a = DataOf(s, llNode)
      BY <1>1, ItemsNow, Zenon
    <2>2. /\ Linked!Abstract!First = IF a = <<>> THEN null ELSE Head(a)
          /\ Linked!Abstract!Final = IF a = <<>> THEN null ELSE a[Len(a)]
      BY Zenon DEF Linked!Abstract!First, Linked!Abstract!Final
    <2> HIDE DEF a
    <2>3. /\ a \in Seq(Data) /\ Len(a) = Len(s)
          /\ (llHead = null <=> a = <<>>) /\ (llTail = null <=> a = <<>>)
          /\ (llHead # null => Len(a) # 0)
          /\ (IF llHead = null THEN null ELSE llNode[llHead].data) =
                 (IF a = <<>> THEN null ELSE Head(a))
          /\ (IF llTail = null THEN null ELSE llNode[llTail].data) =
                 (IF a = <<>> THEN null ELSE a[Len(a)])
      BY ONLY <1>1, <2>1, EndData
    <2> QED
      BY ONLY <2>2, <2>3, Zenon
  <1>8. ASSUME Linked!linkedlist_remove_head
        PROVE  DequeInv' /\ Linked!Abstract!RemoveHead
    <2>1. CASE llHead = null
      <3>1. UNCHANGED Linked!list /\ llRet' = null
        BY <1>8, <2>1, Zenon DEF Linked!linkedlist_remove_head
      <3>2. DequeInv' /\ Linked!Items' = Linked!Items
        BY <1>1, <3>1, SameList, Zenon
      <3> QED
        BY <1>7, <2>1, <3>1, <3>2, Zenon DEF Linked!Abstract!RemoveHead
    <2>2. CASE llHead # null
      <3>1. /\ llHead' = llNode[llHead].next
            /\ llTail' = IF llHead' # null THEN llTail ELSE null
            /\ llRet' = llNode[llHead].data
            /\ llNode' = [m \in Nodes |-> IF m = llHead THEN [data |-> junk, next |-> junk, prev |-> junk]
                             ELSE IF m = llHead' THEN [llNode[m] EXCEPT !.prev = null] ELSE llNode[m]]
            /\ llLive' = llLive \ {llHead} /\ llCount' = llCount - 1
        BY <1>8, <2>2, Zenon DEF Linked!linkedlist_remove_head, Linked!kfree, Linked!Freed
      <3>2. Freeing(s, 1, llHead)
        BY ONLY <1>1, <2>2, <3>1, PopHead, Zenon
      <3>3. HeldThen(Dropped(s, 1)) /\ a' = Dropped(a, 1)
        <4>1. HeldThen(Dropped(s, 1)) /\ DataOf(Dropped(s, 1), llNode') = Dropped(DataOf(s, llNode), 1)
          BY ONLY <1>1, <3>2, Popped, Zenon
        <4> QED
          BY <1>1, <4>1, ItemsNow, ItemsThen, Zenon
      <3>4. Dropped(a, 1) = Tail(a)
        BY ONLY <1>7, <2>2, DroppedEnds
      <3>5. llRet' = Linked!Abstract!First
        BY ONLY <1>7, <2>2, <3>1, Zenon
      <3> QED
        BY <1>2, <1>7, <2>2, <3>3, <3>4, <3>5, Zenon DEF Linked!Abstract!RemoveHead
    <2> QED
      BY <2>1, <2>2, Zenon
  <1>9. ASSUME Linked!linkedlist_remove_tail
        PROVE  DequeInv' /\ [Linked!Abstract!Next]_<<Linked!Items, llRet>>
    <2>1. CASE llTail = null
      BY <1>4, <1>9, <2>1, Zenon DEF Linked!linkedlist_remove_tail
    <2>2. CASE llTail # null
      <3>1. /\ llTail' = llNode[llTail].prev
            /\ llHead' = IF llTail' # null THEN llHead ELSE null
            /\ llRet' = llNode[llTail].data
            /\ llNode' = [m \in Nodes |-> IF m = llTail THEN [data |-> junk, next |-> junk, prev |-> junk]
                             ELSE IF m = llTail' THEN [llNode[m] EXCEPT !.next = null] ELSE llNode[m]]
            /\ llLive' = llLive \ {llTail} /\ llCount' = llCount - 1
        BY <1>9, <2>2, Zenon DEF Linked!linkedlist_remove_tail, Linked!kfree, Linked!Freed
      <3>2. Freeing(s, Len(s), llTail)
        BY ONLY <1>1, <2>2, <3>1, PopTail, Zenon
      <3>3. HeldThen(Dropped(s, Len(s))) /\ a' = Dropped(a, Len(s))
        <4>1. HeldThen(Dropped(s, Len(s))) /\ DataOf(Dropped(s, Len(s)), llNode') = Dropped(DataOf(s, llNode), Len(s))
          BY ONLY <1>1, <3>2, Popped, Zenon
        <4> QED
          BY <1>1, <4>1, ItemsNow, ItemsThen, Zenon
      <3>4. Dropped(a, Len(a)) = SubSeq(a, 1, Len(a) - 1)
        BY ONLY <1>7, <2>2, DroppedEnds
      <3>5. llRet' = Linked!Abstract!Final /\ a # <<>>
        BY ONLY <1>7, <2>2, <3>1, Zenon
      <3>6. a' = SubSeq(a, 1, Len(a) - 1)
        BY ONLY <1>7, <3>3, <3>4, Zenon
      <3> QED
        BY <1>2, <3>3, <3>5, <3>6, Zenon DEF Linked!Abstract!Next, Linked!Abstract!RemoveTail
    <2> QED
      BY <2>1, <2>2, Zenon
  <1>10. ASSUME Linked!linkedlist_peek_head \/ Linked!linkedlist_peek_tail
         PROVE  DequeInv' /\ Linked!Abstract!Peek
    <2>1. /\ llRet' \in {Linked!Abstract!First, Linked!Abstract!Final}
          /\ UNCHANGED Linked!list
      BY <1>7, <1>10, Zenon DEF Linked!linkedlist_peek_head, Linked!linkedlist_peek_tail
    <2>2. DequeInv' /\ Linked!Items' = Linked!Items
      BY <1>1, <2>1, SameList, Zenon
    <2> QED
      BY <2>1, <2>2, Zenon DEF Linked!Abstract!Peek
  <1> QED
    BY <1>3, <1>5, <1>6, <1>8, <1>9, <1>10, Zenon DEF Linked!Next, Linked!Abstract!Next

-----------------------------------------------------------------------------
(* As many nodes as the list counts. *)

Counting == INSTANCE FiniteSetTheorems

(* The nodes allocated are those linked, as many as the count. *)
LEMMA DequeNodes == DequeInv => Linked!NodesAreLinked
  <1> SUFFICES ASSUME NEW s, HeldNow(s)
               PROVE  llLive = {Linked!Walk[i] : i \in 1..llCount} /\ Counting!Cardinality(llLive) = llCount
    BY Zenon DEF DequeInv, Linked!NodesAreLinked, Linked!Cardinality, Counting!Cardinality
  <1>1. /\ s \in Seq(Nodes) /\ Distinct(s) /\ llCount = Len(s)
        /\ \A i \in 1..Len(s) : s[i] \in llLive
        /\ \A n \in llLive : \E i \in 1..Len(s) : s[i] = n
    BY Zenon DEF HeldNow, Held
  <1>2. Linked!Walk = s
    BY ItemsNow, Zenon
  <1>3. Len(s) \in Nat /\ DOMAIN s = 1..Len(s) /\ s = [i \in 1..Len(s) |-> s[i]]
    BY ONLY <1>1
  <1>4. llLive = {s[i] : i \in 1..llCount}
    BY ONLY <1>1, Zenon
  <1>5. s \in [1..Len(s) -> llLive]
    BY ONLY <1>1, <1>3, Zenon
  <1>6. s \in Counting!Bijection(1..Len(s), llLive)
    BY ONLY <1>1, <1>3, <1>5, Zenon
       DEF Counting!Bijection, Counting!Injection, Counting!Surjection, Counting!IsInjective, Distinct
  <1>7. Counting!Cardinality(llLive) = Len(s)
    BY ONLY <1>3, <1>6, Counting!FS_CountingElements, Zenon DEF Counting!ExistsBijection
  <1> QED
    BY ONLY <1>1, <1>2, <1>4, <1>7, Zenon

(* linkedlist.c, whatever is inserted, removed and looked at: the data and *)
(* the results are those of a deque, and the nodes on the heap are those   *)
(* the list links, as many as its count.                                   *)
THEOREM AllocatingList ==
    Linked!Spec => Linked!ImplementsDeque /\ []Linked!NodesAreLinked
  <1>1. DequeInv /\ [Linked!Next]_(Linked!vars) =>
            DequeInv' /\ [Linked!Abstract!Next]_<<Linked!Items, llRet>>
    BY DequeStep, Zenon
  <1> QED
    BY <1>1, DequeInit, DequeNodes, PTL
       DEF Linked!Spec, Linked!ImplementsDeque, Linked!Abstract!Spec

(* Both lists of lib/ds, together. *)
THEOREM ListsRefinement == Intrusive!Spec /\ Linked!Spec => ImplementsLists
  BY IntrusiveLists, AllocatingList, PTL DEF ImplementsLists

=============================================================================
