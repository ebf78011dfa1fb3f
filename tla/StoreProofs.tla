---------------------------- MODULE StoreProofs -----------------------------
(***************************************************************************)
(* Proofs about the kernel's stores of fixed size and their callers: the   *)
(* console's input ring (module ConsoleInput), for a ring of any capacity  *)
(* and a FIFO of any depth; the region of pages with its bitmap (module    *)
(* RegionCalls), for regions and bytes of any size; and the arenas of the  *)
(* console's output (module ConsoleOutput), for arenas, messages and lists *)
(* of backends of any size.                                                *)
(***************************************************************************)
EXTENDS RegionCalls, ConsoleInput, ConsoleOutput, TLAPS

-----------------------------------------------------------------------------
(* The ring. *)

(* A sequence is a function of its places. *)
LEMMA SeqPlaces ==
    ASSUME NEW S, NEW s \in Seq(S)
    PROVE  Len(s) \in Nat /\ DOMAIN s = 1..Len(s) /\ s = [k \in 1..Len(s) |-> s[k]]
  OBVIOUS

(* What is taken from the front, and what is left. *)
LEMMA HeadAndTail ==
    ASSUME NEW S, NEW s \in Seq(S), s # <<>>
    PROVE  /\ Head(s) = s[1] /\ Head(s) \in S
           /\ Tail(s) \in Seq(S) /\ Len(Tail(s)) = Len(s) - 1
           /\ \A k \in 1..Len(s) - 1 : Tail(s)[k] = s[k + 1]
  OBVIOUS

(* Two sequences in a row. *)
LEMMA InARow ==
    ASSUME NEW S, NEW a \in Seq(S), NEW b \in Seq(S)
    PROVE  /\ a \o b \in Seq(S) /\ Len(a \o b) = Len(a) + Len(b)
           /\ \A k \in 1..Len(a) + Len(b) : (a \o b)[k] = IF k <= Len(a) THEN a[k] ELSE b[k - Len(a)]
  OBVIOUS

Contents == Char \cup {Element}

(* Advancing an index wraps at the end of the buffer. *)
LEMMA AdvanceIs ==
    \A i \in 0..Capacity - 1 :
        /\ Advance(i) = (IF i + 1 = Capacity THEN 0 ELSE i + 1)
        /\ Advance(i) \in 0..Capacity - 1
  BY CapacityAssumption DEF Advance

(* A function on 1..n is a sequence of length n. *)
LEMMA FunctionIsSeq ==
    ASSUME NEW S, NEW n \in Nat, NEW f \in [1..n -> S]
    PROVE  f \in Seq(S) /\ Len(f) = n
  OBVIOUS

(* Count and Slot stay inside the buffer. *)
LEMMA RingFacts ==
    ASSUME TypeOK
    PROVE  /\ Count \in 0..Capacity - 1
           /\ \A k \in 0..Capacity - 1 : Slot(k) \in 0..Capacity - 1
           /\ Held \in [1..Count -> Contents]
           /\ Held \in Seq(Contents) /\ Len(Held) = Count
  <1>1. recv_rb.head \in 0..Capacity - 1 /\ recv_rb.tail \in 0..Capacity - 1
    BY DEF TypeOK
  <1>2. Count \in 0..Capacity - 1
    BY <1>1, CapacityAssumption DEF Count
  <1>3. \A k \in 0..Capacity - 1 : Slot(k) \in 0..Capacity - 1
    BY <1>1, CapacityAssumption DEF Slot
  <1>4. recv_rb.buffer \in [0..Capacity - 1 -> Contents]
    BY DEF TypeOK, Contents
  <1>5. \A k \in 1..Count : recv_rb.buffer[Slot(k - 1)] \in Contents
    BY <1>2, <1>3, <1>4, CapacityAssumption
  <1>6. Held \in [1..Count -> Contents]
    BY <1>5 DEF Held
  <1> QED
    BY <1>2, <1>3, <1>6, FunctionIsSeq

-----------------------------------------------------------------------------
(* The two operations on the ring. *)

RingType == [buffer : [0..Capacity - 1 -> Char \cup {Element}],
             head : 0..Capacity - 1, tail : 0..Capacity - 1]

(* The ring is full exactly when it holds Capacity - 1 characters. *)
LEMMA FullIs == ASSUME TypeOK PROVE Advance(recv_rb.head) = recv_rb.tail <=> Count = Capacity - 1
  <1>1. recv_rb.head \in 0..Capacity - 1 /\ recv_rb.tail \in 0..Capacity - 1
    BY DEF TypeOK
  <1> QED
    BY <1>1, AdvanceIs, CapacityAssumption DEF Count

(* A push into a ring that is not full appends to what it holds. *)
LEMMA PushAppends ==
    ASSUME TypeOK, NEW c \in Char, Advance(recv_rb.head) # recv_rb.tail,
           recv_rb' = [recv_rb EXCEPT !.buffer[recv_rb.head] = c,
                                      !.head = Advance(recv_rb.head)]
    PROVE  recv_rb' \in RingType /\ Count < Capacity - 1 /\ Held' = Append(Held, c)
  <1> DEFINE h == recv_rb.head
             t == recv_rb.tail
             b == recv_rb.buffer
  <1>1. /\ h \in 0..Capacity - 1 /\ t \in 0..Capacity - 1 /\ b \in [0..Capacity - 1 -> Contents]
    BY DEF TypeOK, Contents
  <1>2. /\ recv_rb'.head = Advance(h) /\ recv_rb'.tail = t
        /\ recv_rb'.buffer = [b EXCEPT ![h] = c]
    BY DEF TypeOK
  <1>3. recv_rb' \in RingType
    BY <1>1, AdvanceIs, Zenon DEF TypeOK, RingType
  <1>4. Count' = Count + 1 /\ Count < Capacity - 1
    BY <1>1, <1>2, AdvanceIs, CapacityAssumption DEF Count
  <1>5. \A k \in 0..Capacity - 1 : Slot(k)' = Slot(k)
    BY <1>2 DEF Slot
  <1>6. Slot(Count) = h
    BY <1>1, CapacityAssumption DEF Count, Slot
  <1>7. \A k \in 0..Count - 1 : Slot(k) # h
    BY <1>1, CapacityAssumption DEF Count, Slot
  <1>8. \A k \in 1..Count + 1 : Held'[k] = Append(Held, c)[k]
    <2> SUFFICES ASSUME NEW k \in 1..Count + 1 PROVE Held'[k] = Append(Held, c)[k]
      BY Zenon
    <2>1. Count \in 0..Capacity - 1 /\ Held \in Seq(Contents) /\ Len(Held) = Count
      BY RingFacts
    <2>5. k - 1 \in 0..Capacity - 1 /\ k \in 1..Count'
      BY <1>4, <2>1, CapacityAssumption
    <2>2. Held'[k] = [b EXCEPT ![h] = c][Slot(k - 1)]
      BY <1>2, <1>5, <2>5 DEF Held
    <2>3. CASE k = Count + 1
      <3>0. k - 1 = Count
        BY <2>1, <2>3
      <3>1. Held'[k] = c
        BY <1>1, <1>6, <2>2, <3>0, Zenon
      <3> QED
        BY <3>1, <2>1, <2>3
    <2>4. CASE k # Count + 1
      <3>1. k \in 1..Count /\ k - 1 \in 0..Count - 1 /\ k - 1 \in 0..Capacity - 1
        BY <2>1, <2>4, <2>5
      <3>2. Slot(k - 1) \in 0..Capacity - 1 /\ Slot(k - 1) # h
        BY <1>7, <3>1, RingFacts
      <3>3. Held'[k] = b[Slot(k - 1)]
        BY <1>1, <2>2, <3>2
      <3>4. Held[k] = b[Slot(k - 1)]
        BY <3>1 DEF Held
      <3> QED
        BY <2>1, <3>1, <3>3, <3>4
    <2> QED
      BY <2>3, <2>4, Zenon
  <1>9. Append(Held, c) = [k \in 1..Count + 1 |-> Append(Held, c)[k]]
    <2>1. Count \in Nat /\ Held \in Seq(Contents) /\ Len(Held) = Count
      BY RingFacts
    <2>2. c \in Contents
      BY DEF Contents
    <2>3. Append(Held, c) \in Seq(Contents) /\ Len(Append(Held, c)) = Count + 1
      BY <2>1, <2>2
    <2> QED
      BY <2>3, SeqPlaces, Zenon
  <1>10. DOMAIN Held' = 1..Count + 1 /\ Held' = [k \in 1..Count + 1 |-> Held'[k]]
    BY <1>4 DEF Held
  <1> QED
    BY <1>3, <1>4, <1>8, <1>9, <1>10, Zenon

(* A pop from a ring that is not empty takes the oldest character. *)
LEMMA PopTakesHead ==
    ASSUME TypeOK, recv_rb.head # recv_rb.tail,
           recv_rb' = [recv_rb EXCEPT !.tail = Advance(recv_rb.tail)]
    PROVE  /\ recv_rb' \in RingType /\ Held # <<>>
           /\ Held' = Tail(Held) /\ recv_rb.buffer[recv_rb.tail] = Head(Held)
  <1> DEFINE h == recv_rb.head
             t == recv_rb.tail
             b == recv_rb.buffer
  <1>1. h \in 0..Capacity - 1 /\ t \in 0..Capacity - 1
    BY DEF TypeOK
  <1>2. recv_rb'.head = h /\ recv_rb'.tail = Advance(t) /\ recv_rb'.buffer = b
    BY DEF TypeOK
  <1>3. recv_rb' \in RingType
    BY <1>1, AdvanceIs, SMTT(30) DEF TypeOK, RingType
  <1>4. Count' = Count - 1 /\ Count > 0
    BY <1>1, <1>2, AdvanceIs, CapacityAssumption DEF Count
  <1>5. \A k \in 0..Count - 2 : Slot(k)' = Slot(k + 1)
    BY <1>1, <1>2, AdvanceIs, CapacityAssumption DEF Count, Slot
  <1>6. Slot(0) = t
    BY <1>1, CapacityAssumption DEF Slot
  <1>7. Count \in Nat /\ Held \in Seq(Contents) /\ Len(Held) = Count
    BY RingFacts
  <1>8. Held # <<>>
    BY <1>4, <1>7
  <1>9. Head(Held) = b[t]
    <2>1. Held[1] = b[Slot(1 - 1)]
      BY <1>4, <1>7 DEF Held
    <2> QED
      BY <1>6, <1>7, <1>8, <2>1
  <1>10. Tail(Held) \in Seq(Contents) /\ Len(Tail(Held)) = Count - 1
    BY <1>7, <1>8, HeadAndTail
  <1>11. \A k \in 1..Count - 1 : Held'[k] = Tail(Held)[k]
    <2> SUFFICES ASSUME NEW k \in 1..Count - 1 PROVE Held'[k] = Tail(Held)[k]
      BY Zenon
    <2>1. k - 1 \in 0..Count - 2 /\ k \in 1..Count' /\ k + 1 \in 1..Count /\ (k - 1) + 1 = (k + 1) - 1
      BY <1>4, <1>7
    <2>2. Held'[k] = b[Slot(k - 1)']
      BY <1>2, <2>1 DEF Held
    <2>3. Held[k + 1] = b[Slot((k + 1) - 1)]
      BY <2>1 DEF Held
    <2>4. Tail(Held)[k] = Held[k + 1]
      BY <1>7, <1>8, <1>10, HeadAndTail
    <2> QED
      BY <1>5, <2>1, <2>2, <2>3, <2>4, Zenon
  <1>12. Held' = [k \in 1..Count - 1 |-> Held'[k]]
    BY <1>4 DEF Held
  <1>13. Tail(Held) = [k \in 1..Count - 1 |-> Tail(Held)[k]]
    BY <1>10, SeqPlaces, Zenon
  <1> QED
    BY <1>3, <1>8, <1>9, <1>11, <1>12, <1>13, Zenon

-----------------------------------------------------------------------------
(* What the steps do to the queue the ring represents. *)

(* The handler takes the FIFO's first character and appends it, or drops   *)
(* it when the ring holds all it can.                                      *)
LEMMA HandlerStep ==
    ASSUME TypeOK, recieve_irq_handler
    PROVE  /\ rx # <<>> /\ Head(rx) \in Char /\ rx' = Tail(rx)
           /\ \/ /\ Count < Capacity - 1 /\ recv_rb' \in RingType
                 /\ Held' = Append(Held, Head(rx)) /\ dropped' = dropped
              \/ /\ Count = Capacity - 1 /\ recv_rb' = recv_rb
                 /\ dropped' = dropped \cup {Head(rx)}
  <1>1. rx \in Seq(Char) /\ Len(rx) >= Trigger /\ rx' = Tail(rx)
    BY DEF TypeOK, recieve_irq_handler
  <1>2. rx # <<>> /\ Head(rx) \in Char
    BY <1>1, HardwareAssumption
  <1>3. CASE Advance(recv_rb.head) = recv_rb.tail
    <2>1. recv_rb' = recv_rb /\ dropped' = dropped \cup {Head(rx)}
      BY <1>3 DEF recieve_irq_handler, console_receive_char, ringbuffer_push
    <2> QED
      BY <1>1, <1>2, <1>3, <2>1, FullIs
  <1>4. CASE Advance(recv_rb.head) # recv_rb.tail
    <2>1. /\ recv_rb' = [recv_rb EXCEPT !.buffer[recv_rb.head] = Head(rx),
                                        !.head = Advance(recv_rb.head)]
          /\ dropped' = dropped
      BY <1>4 DEF recieve_irq_handler, console_receive_char, ringbuffer_push
    <2> QED
      BY <1>1, <1>2, <1>4, <2>1, PushAppends, Zenon
  <1> QED
    BY <1>3, <1>4

(* console_read takes the oldest character of the ring. *)
LEMMA ReadStep ==
    ASSUME TypeOK, console_read
    PROVE  /\ Held # <<>> /\ recv_rb' \in RingType
           /\ Held' = Tail(Held) /\ read' = Append(read, Head(Held))
           /\ UNCHANGED <<line, rx, dropped>>
  <1>1. recv_rb.head # recv_rb.tail
    BY DEF console_read, ringbuffer_empty
  <1>2. /\ recv_rb' = [recv_rb EXCEPT !.tail = Advance(recv_rb.tail)]
        /\ read' = Append(read, recv_rb.buffer[recv_rb.tail])
        /\ UNCHANGED <<line, rx, dropped>>
    BY <1>1 DEF console_read, ringbuffer_pop
  <1> QED
    BY <1>1, <1>2, PopTakesHead

-----------------------------------------------------------------------------
(* Type correctness, and the ring as a queue. *)

(* Every field of the console's input path keeps its type: the indices of  *)
(* the ring never leave its buffer, whatever its capacity.                 *)
THEOREM TypeCorrect == Spec => []TypeOK
  <1>1. Init => TypeOK
    BY CapacityAssumption DEF Init, TypeOK, ringbuffer_init
  <1>2. ASSUME TypeOK, [Next]_vars PROVE TypeOK'
    <2>1. CASE UNCHANGED vars
      BY <1>2, <2>1 DEF TypeOK, vars
    <2>2. CASE Arrive
      <3>1. line' \in Nat /\ rx' \in Seq(Char)
        BY <1>2, <2>2, CharAssumption DEF Arrive, TypeOK
      <3> QED
        BY <1>2, <2>2, <3>1 DEF Arrive, TypeOK
    <2>3. CASE recieve_irq_handler
      <3>1. rx # <<>> /\ Head(rx) \in Char /\ rx' = Tail(rx)
        BY <1>2, <2>3, HandlerStep
      <3>2. rx' \in Seq(Char)
        BY <1>2, <3>1 DEF TypeOK
      <3>3. recv_rb' \in RingType /\ dropped' \subseteq Char
        BY <1>2, <2>3, <3>1, HandlerStep DEF TypeOK, RingType
      <3>4. line' = line /\ read' = read
        BY <2>3 DEF recieve_irq_handler
      <3> QED
        BY <1>2, <3>2, <3>3, <3>4 DEF TypeOK, RingType
    <2>4. CASE console_read
      <3>1. /\ Held # <<>> /\ recv_rb' \in RingType /\ read' = Append(read, Head(Held))
            /\ UNCHANGED <<line, rx, dropped>>
        BY <1>2, <2>4, ReadStep
      <3>2. Head(Held) \in Contents
        BY <1>2, <3>1, RingFacts, HeadAndTail
      <3>3. read' \in Seq(Char \cup {Element})
        BY <1>2, <3>1, <3>2 DEF TypeOK, Contents
      <3> QED
        BY <1>2, <3>1, <3>3 DEF TypeOK, RingType
    <2> QED
      BY <1>2, <2>1, <2>2, <2>3, <2>4 DEF Next
  <1> QED
    BY <1>1, <1>2, PTL DEF Spec

(* The ring with its two wrapping indices is a first-in, first-out queue   *)
(* of Capacity - 1 characters: pushes by the interrupt handler and pops by *)
(* readers never lose, repeat or reorder what it holds.                    *)
THEOREM Refinement == Spec => ImplementsQueue
  <1>1. Init => Queue!Init
    <2> SUFFICES ASSUME Init PROVE Held = <<>>
      BY DEF Queue!Init
    <2>1. Count = 0
      BY DEF Init, ringbuffer_init, Count
    <2> QED
      BY <2>1 DEF Held
  <1>2. ASSUME TypeOK, [Next]_vars PROVE [Queue!Next]_Held
    <2>1. CASE UNCHANGED recv_rb
      <3>1. Count' = Count /\ \A k : Slot(k)' = Slot(k)
        BY <2>1 DEF Count, Slot
      <3>2. Held' = Held
        BY <2>1, <3>1 DEF Held
      <3> QED
        BY <3>2
    <2>2. CASE recieve_irq_handler /\ recv_rb' # recv_rb
      <3>1. /\ Count < Capacity - 1 /\ Held' = Append(Held, Head(rx)) /\ Head(rx) \in Char
        BY <1>2, <2>2, HandlerStep
      <3>2. Len(Held) < Capacity - 1
        BY <1>2, <3>1, RingFacts
      <3> QED
        BY <3>1, <3>2 DEF Queue!Next, Queue!Receive
    <2>3. CASE console_read
      BY <1>2, <2>3, ReadStep DEF Queue!Next, Queue!Read
    <2> QED
      BY <1>2, <2>1, <2>2, <2>3 DEF Next, Arrive, vars
  <1> QED
    BY <1>1, <1>2, TypeCorrect, PTL DEF Spec, ImplementsQueue, Queue!Spec

-----------------------------------------------------------------------------
(* Order: what was read, what the ring holds and what the FIFO holds form  *)
(* one rising sequence, and no character of it is newer than line.         *)

Stream == (read \o Held) \o rx

Rising(s, n) == /\ \A i, j \in 1..Len(s) : i < j => s[i] < s[j]
                /\ \A i \in 1..Len(s) : s[i] <= n

Ordered == Rising(Stream, line)

(* The character the line delivers next is newer than all before it. *)
LEMMA RisingAppend ==
    ASSUME NEW s \in Seq(Nat), NEW n \in Nat, Rising(s, n)
    PROVE  Rising(Append(s, n + 1), n + 1)
  <1>1. /\ Len(Append(s, n + 1)) = Len(s) + 1
        /\ \A i \in 1..Len(s) : Append(s, n + 1)[i] = s[i] /\ s[i] \in Nat
        /\ Append(s, n + 1)[Len(s) + 1] = n + 1
        /\ Len(s) \in Nat
    OBVIOUS
  <1>2. ASSUME NEW t, t = Append(s, n + 1) PROVE Rising(t, n + 1)
    BY <1>1, <1>2 DEF Rising
  <1> QED
    BY <1>2, Zenon

(* Taking an element out of the middle leaves a rising sequence. *)
LEMMA RisingDrop ==
    ASSUME NEW a \in Seq(Nat), NEW r \in Seq(Nat), r # <<>>, NEW n \in Nat, Rising(a \o r, n)
    PROVE  /\ Rising(a \o Tail(r), n)
           /\ \A i \in 1..Len(a) : a[i] < Head(r)
  <1> DEFINE s == a \o r
             t == a \o Tail(r)
             f(i) == IF i <= Len(a) THEN i ELSE i + 1
  <1>1. /\ Len(a) \in Nat /\ Len(r) \in Nat \ {0} /\ Len(Tail(r)) = Len(r) - 1
        /\ Len(s) = Len(a) + Len(r) /\ Len(t) = Len(a) + Len(r) - 1
    OBVIOUS
  <1>2. /\ \A i \in 1..Len(a) : s[i] = a[i] /\ t[i] = a[i]
        /\ s[Len(a) + 1] = Head(r)
    OBVIOUS
  <1>3. \A i \in 1..Len(t) : i > Len(a) => t[i] = s[i + 1]
    BY <1>1
  <1>4. \A i \in 1..Len(t) : t[i] = s[f(i)] /\ f(i) \in 1..Len(s)
    BY <1>1, <1>2, <1>3
  <1>5. \A i, j \in 1..Len(t) : i < j => f(i) < f(j)
    BY <1>1
  <1>6. /\ \A i, j \in 1..Len(s) : i < j => s[i] < s[j]
        /\ \A i \in 1..Len(s) : s[i] <= n
    BY DEF Rising
  <1>7. \A i, j \in 1..Len(t) : i < j => t[i] < t[j]
    BY <1>4, <1>5, <1>6, Zenon
  <1>8. \A i \in 1..Len(t) : t[i] <= n
    BY <1>4, <1>6
  <1> HIDE DEF s, t
  <1>9. \A i \in 1..Len(a) : a[i] < Head(r)
    <2>1. ASSUME NEW i \in 1..Len(a) PROVE a[i] < Head(r)
      <3>1. i \in 1..Len(s) /\ Len(a) + 1 \in 1..Len(s) /\ i < Len(a) + 1
        BY <1>1
      <3>2. s[i] < s[Len(a) + 1]
        BY <1>6, <3>1
      <3> QED
        BY <1>2, <3>2
    <2> QED
      BY <2>1
  <1>10. Rising(t, n)
    BY <1>7, <1>8 DEF Rising
  <1> QED
    BY <1>9, <1>10 DEF t

(* The element moves from the second sequence to the end of the first:     *)
(* nothing changes in the whole.                                           *)
LEMMA MoveHead ==
    ASSUME NEW S, NEW a \in Seq(S), NEW r \in Seq(S), r # <<>>
    PROVE  Append(a, Head(r)) \o Tail(r) = a \o r
  <1> DEFINE u == Append(a, Head(r)) \o Tail(r)
             v == a \o r
  <1>1. /\ Head(r) = r[1] /\ Head(r) \in S /\ Tail(r) \in Seq(S) /\ Len(Tail(r)) = Len(r) - 1
        /\ \A k \in 1..Len(r) - 1 : Tail(r)[k] = r[k + 1]
    BY HeadAndTail
  <1>2. /\ Append(a, Head(r)) \in Seq(S) /\ Len(Append(a, Head(r))) = Len(a) + 1
        /\ \A k \in 1..Len(a) : Append(a, Head(r))[k] = a[k]
        /\ Append(a, Head(r))[Len(a) + 1] = r[1]
    BY <1>1
  <1>3. /\ u \in Seq(S) /\ Len(u) = Len(a) + 1 + (Len(r) - 1)
        /\ \A k \in 1..Len(a) + 1 + (Len(r) - 1) :
               u[k] = IF k <= Len(a) + 1 THEN Append(a, Head(r))[k] ELSE Tail(r)[k - (Len(a) + 1)]
    BY <1>1, <1>2, InARow
  <1>4. /\ v \in Seq(S) /\ Len(v) = Len(a) + Len(r)
        /\ \A k \in 1..Len(a) + Len(r) : v[k] = IF k <= Len(a) THEN a[k] ELSE r[k - Len(a)]
    BY InARow
  <1> HIDE DEF u, v
  <1>5. Len(a) \in Nat /\ Len(r) \in Nat /\ Len(r) > 0
    OBVIOUS
  <1>6. ASSUME NEW k \in 1..Len(a) + Len(r) PROVE u[k] = v[k]
    <2>1. k \in 1..Len(a) + 1 + (Len(r) - 1)
      BY <1>5
    <2>2. CASE k <= Len(a)
      BY <1>2, <1>3, <1>4, <1>5, <2>1, <2>2
    <2>3. CASE k = Len(a) + 1
      BY <1>2, <1>3, <1>4, <1>5, <2>1, <2>3
    <2>4. CASE k > Len(a) + 1
      <3>1. k - (Len(a) + 1) \in 1..Len(r) - 1 /\ (k - (Len(a) + 1)) + 1 = k - Len(a)
        BY <1>5, <2>4
      <3> QED
        BY <1>1, <1>3, <1>4, <1>5, <2>1, <2>4, <3>1
    <2> QED
      BY <1>5, <2>2, <2>3, <2>4
  <1>7. Len(u) = Len(v)
    BY <1>3, <1>4, <1>5
  <1>8. u = v
    BY <1>3, <1>4, <1>6, <1>7
  <1> QED
    BY <1>8 DEF u, v

(* Appending to the second of two sequences appends to the whole. *)
LEMMA AppendLast ==
    \A a, r \in Seq(Nat), c \in Nat : a \o Append(r, c) = Append(a \o r, c)
  OBVIOUS

(* A sequence over a set is one over any larger set. *)
LEMMA SeqMonotone ==
    ASSUME NEW S, NEW T, S \subseteq T, NEW s \in Seq(S)
    PROVE  s \in Seq(T)
  <1>1. Len(s) \in Nat /\ s \in [1..Len(s) -> T]
    OBVIOUS
  <1> QED
    BY <1>1, FunctionIsSeq

(* Every step keeps the order; the character a handler takes is newer than *)
(* all that was read or is in the ring.                                    *)
LEMMA OrderedStep ==
    ASSUME TypeOK, Ordered, [Next]_vars
    PROVE  /\ Ordered'
           /\ recieve_irq_handler => \A k \in 1..Len(Held) : Held[k] < Head(rx)
  <1>1. /\ Char \subseteq Nat /\ Contents \subseteq Nat /\ line \in Nat
        /\ read \in Seq(Nat) /\ rx \in Seq(Nat)
    <2>1. Char \subseteq Nat /\ Contents \subseteq Nat /\ line \in Nat
      BY CharAssumption DEF TypeOK, Contents
    <2>2. read \in Seq(Contents) /\ rx \in Seq(Char)
      BY DEF TypeOK, Contents
    <2>3. read \in Seq(Nat)
      BY <2>1, <2>2, SeqMonotone, Zenon
    <2>4. rx \in Seq(Nat)
      BY <2>1, <2>2, SeqMonotone, Zenon
    <2> QED
      BY <2>1, <2>3, <2>4
  <1>2. Held \in Seq(Nat)
    <2>1. Held \in Seq(Contents)
      BY RingFacts
    <2> QED
      BY <1>1, <2>1, SeqMonotone, Zenon
  <1>3. read \o Held \in Seq(Nat) /\ Stream \in Seq(Nat)
    BY <1>1, <1>2, InARow DEF Stream
  <1>4. ASSUME recv_rb' = recv_rb PROVE Held' = Held
    <2>1. Count' = Count /\ \A k : Slot(k)' = Slot(k)
      BY <1>4 DEF Count, Slot
    <2> QED
      BY <1>4, <2>1 DEF Held
  <1>5. CASE UNCHANGED vars
    <2>1. Held' = Held
      BY <1>4, <1>5 DEF vars
    <2>2. Stream' = Stream
      BY <1>5, <2>1 DEF vars, Stream
    <2>3. ~recieve_irq_handler
      <3> SUFFICES ASSUME recieve_irq_handler PROVE FALSE
        OBVIOUS
      <3>1. rx # <<>> /\ rx' = Tail(rx)
        BY HandlerStep
      <3>2. Len(Tail(rx)) # Len(rx)
        BY <1>1, <3>1
      <3> QED
        BY <1>5, <3>1, <3>2 DEF vars
    <2> QED
      BY <1>5, <2>2, <2>3 DEF Ordered, Rising, vars
  <1>6. CASE Arrive
    <2>1. Held' = Held
      BY <1>4, <1>6 DEF Arrive
    <2>2. Stream' = Stream \/ Stream' = Append(Stream, line + 1)
      <3>1. line + 1 \in Nat
        BY <1>1
      <3>2. (read \o Held) \o Append(rx, line + 1) = Append((read \o Held) \o rx, line + 1)
        BY <1>1, <1>3, <3>1, AppendLast, Zenon
      <3> QED
        BY <1>6, <2>1, <3>2, Zenon DEF Arrive, Stream
    <2>3. line' = line + 1 /\ ~recieve_irq_handler
      BY <1>1, <1>6 DEF Arrive, recieve_irq_handler
    <2>4. Rising(Stream, line + 1)
      <3>1. \A i \in 1..Len(Stream) : Stream[i] \in Nat
        BY <1>3
      <3> QED
        BY <1>1, <3>1 DEF Ordered, Rising
    <2>5. Rising(Append(Stream, line + 1), line + 1)
      BY <1>1, <1>3, RisingAppend DEF Ordered
    <2>6. Rising(Stream', line')
      BY <2>2, <2>3, <2>4, <2>5, Zenon
    <2> QED
      BY <2>3, <2>6 DEF Ordered, Rising
  <1>7. CASE recieve_irq_handler
    <2>1. rx # <<>> /\ rx' = Tail(rx) /\ read' = read /\ line' = line
      BY <1>7, HandlerStep DEF recieve_irq_handler
    <2>2. /\ Rising((read \o Held) \o Tail(rx), line)
          /\ \A i \in 1..Len(read \o Held) : (read \o Held)[i] < Head(rx)
      BY <1>1, <1>3, <2>1, RisingDrop, Zenon DEF Ordered, Stream
    <2>3. \A k \in 1..Len(Held) : Held[k] < Head(rx)
      <3>1. ASSUME NEW k \in 1..Len(Held) PROVE Held[k] < Head(rx)
        <4>1. Len(read) + k \in 1..Len(read \o Held) /\ (read \o Held)[Len(read) + k] = Held[k]
          BY <1>1, <1>2
        <4> QED
          BY <2>2, <4>1, Zenon
      <3> QED
        BY <3>1
    <2>4. Rising(Stream', line')
      <3>1. CASE Held' = Append(Held, Head(rx))
        <4>1. Head(rx) \in Nat
          BY <1>1, <2>1
        <4>2. read \o Append(Held, Head(rx)) = Append(read \o Held, Head(rx))
          BY <1>1, <1>2, <4>1, AppendLast, Zenon
        <4>3. Append(read \o Held, Head(rx)) \o Tail(rx) = (read \o Held) \o rx
          BY <1>1, <1>3, <2>1, MoveHead, Zenon
        <4>4. Stream' = Stream
          BY <2>1, <3>1, <4>2, <4>3, Zenon DEF Stream
        <4> QED
          BY <2>1, <4>4 DEF Ordered
      <3>2. CASE recv_rb' = recv_rb
        BY <1>4, <2>1, <2>2, <3>2 DEF Stream
      <3> QED
        BY <1>7, <3>1, <3>2, HandlerStep
    <2> QED
      BY <2>3, <2>4 DEF Ordered, Rising
  <1>8. CASE console_read
    <2>1. /\ Held # <<>> /\ Held' = Tail(Held) /\ read' = Append(read, Head(Held))
          /\ line' = line /\ rx' = rx
      BY <1>8, ReadStep
    <2>2. Append(read, Head(Held)) \o Tail(Held) = read \o Held
      BY <1>1, <1>2, <2>1, MoveHead, Zenon
    <2>3. Stream' = Stream
      BY <2>1, <2>2, Zenon DEF Stream
    <2>4. ~recieve_irq_handler
      <3>1. recieve_irq_handler => read' = read
        BY DEF recieve_irq_handler
      <3>2. Head(Held) \in Nat
        BY <1>2, <2>1
      <3>3. Len(Append(read, Head(Held))) # Len(read)
        BY <1>1, <3>2
      <3> QED
        BY <2>1, <3>1, <3>3
    <2> QED
      BY <2>1, <2>3, <2>4 DEF Ordered, Rising
  <1> QED
    BY <1>5, <1>6, <1>7, <1>8 DEF Next

(* The order of the stream holds in every reachable state. *)
THEOREM OrderKept == Spec => []Ordered
  <1>1. Init => Ordered
    <2> SUFFICES ASSUME Init PROVE Ordered
      OBVIOUS
    <2>1. Count = 0
      BY DEF Init, ringbuffer_init, Count
    <2>2. Held = <<>> /\ read = <<>> /\ rx = <<>>
      BY <2>1 DEF Init, Held
    <2>3. Len(Stream) = 0
      BY <2>2 DEF Stream
    <2> QED
      BY <2>3 DEF Ordered, Rising
  <1>2. TypeOK /\ Ordered /\ [Next]_vars => Ordered'
    BY OrderedStep
  <1> QED
    BY <1>1, <1>2, TypeCorrect, PTL DEF Spec

(* Readers get characters in the order they arrived, none of them twice,   *)
(* through a ring of any capacity.                                         *)
THEOREM ReadInOrder == Spec => []InOrder
  <1>1. TypeOK /\ Ordered => InOrder
    <2> SUFFICES ASSUME TypeOK, Ordered PROVE InOrder
      OBVIOUS
    <2>1. Len(Stream) \in Nat
      <3>1. read \in Seq(Contents) /\ rx \in Seq(Contents)
        <4>1. read \in Seq(Contents) /\ rx \in Seq(Char) /\ Char \subseteq Contents
          BY DEF TypeOK, Contents
        <4> QED
          BY <4>1, SeqMonotone
      <3>2. Held \in Seq(Contents)
        BY RingFacts
      <3>3. Stream \in Seq(Contents)
        BY <3>1, <3>2, InARow DEF Stream
      <3> QED
        BY <3>3
    <2>2. \A i \in 1..Len(Stream) - 1 : Stream[i] < Stream[i + 1]
      BY <2>1 DEF Ordered, Rising
    <2> QED
      BY <2>2 DEF InOrder, Stream
  <1> QED
    BY <1>1, TypeCorrect, OrderKept, PTL

(* A character is dropped only when the ring holds Capacity - 1 others.    *)
THEOREM DropOnlyFull == Spec => LostOnlyWhenFull
  <1> DEFINE Step == \A c \in dropped' \ dropped :
                        Count = Capacity - 1 /\ c \notin {Held[k] : k \in 1..Count}
  <1>1. ASSUME TypeOK, Ordered, [Next]_vars PROVE [Step]_vars
    <2>1. CASE recieve_irq_handler
      <3>1. ASSUME NEW c \in dropped' \ dropped
            PROVE  Count = Capacity - 1 /\ c = Head(rx)
        BY <1>1, <2>1, <3>1, HandlerStep
      <3>2. Len(Held) = Count /\ \A k \in 1..Len(Held) : Held[k] < Head(rx)
        BY <1>1, <2>1, OrderedStep, RingFacts
      <3>3. Head(rx) \in Nat
        BY <1>1, <2>1, HandlerStep, CharAssumption, Zenon
      <3>4. Head(rx) \notin {Held[k] : k \in 1..Count}
        <4>1. \A x \in Nat : ~(x < x)
          OBVIOUS
        <4> QED
          BY <3>2, <3>3, <4>1
      <3> QED
        BY <3>1, <3>4
    <2>2. CASE Arrive \/ UNCHANGED vars
      BY <2>2 DEF Arrive, vars
    <2>3. CASE console_read
      <3>1. dropped' = dropped
        BY <2>3 DEF console_read
      <3> QED
        BY <3>1
    <2> QED
      BY <1>1, <2>1, <2>2, <2>3 DEF Next
  <1> QED
    BY <1>1, TypeCorrect, OrderKept, PTL DEF Spec, LostOnlyWhenFull

-----------------------------------------------------------------------------
(* The region of pages. *)

Orders == INSTANCE WellFoundedInduction

-----------------------------------------------------------------------------
(* Induction and division. *)

(* A set of numbers that is not empty has a least one. *)
LEMMA LeastElement ==
    ASSUME NEW T, T \subseteq Nat, T # {}
    PROVE  \E x \in T : \A y \in T : x <= y
  <1>1. PICK x \in T : \A y \in T : ~(<<y, x>> \in Orders!OpToRel(<, Nat))
    BY Orders!NatLessThanWellFounded, Orders!WFMin, Zenon
  <1>2. ASSUME NEW y \in T PROVE x <= y
    <2>1. x \in Nat /\ y \in Nat
      OBVIOUS
    <2>2. <<y, x>> \in Nat \X Nat /\ ~(<<y, x>> \in Orders!OpToRel(<, Nat))
      BY <1>1, <2>1, Zenon
    <2>3. ~(y < x)
      BY <2>2, Zenon DEF Orders!OpToRel
    <2> QED
      BY <2>1, <2>3
  <1> QED
    BY <1>2, Zenon

(* A set of numbers that has 0, and with a number below n the next one,    *)
(* has all of them up to n.                                                *)
LEMMA UpTo ==
    ASSUME NEW n \in Nat, NEW T, 0 \in T, \A k \in 0..n - 1 : k \in T => k + 1 \in T
    PROVE  \A k \in 0..n : k \in T
  <1> DEFINE rest == {k \in 0..n : k \notin T}
  <1> SUFFICES ASSUME rest # {} PROVE FALSE
    OBVIOUS
  <1>1. rest \subseteq Nat
    OBVIOUS
  <1>2. PICK x \in rest : \A y \in rest : x <= y
    BY <1>1, LeastElement, Zenon
  <1>3. x # 0 /\ x \in Nat /\ x - 1 \in 0..n - 1 /\ x \notin T
    BY <1>2
  <1>4. x - 1 \in T
    <2>1. ~(x <= x - 1) /\ x - 1 \in 0..n
      BY <1>3
    <2> QED
      BY <1>2, <2>1, Zenon
  <1>5. x - 1 + 1 = x
    BY <1>3
  <1> QED
    BY <1>3, <1>4, <1>5, Zenon

(* Division by the number of bits. *)
LEMMA DivMod ==
    ASSUME NEW p \in Nat
    PROVE  /\ p \div BITS \in Nat /\ p % BITS \in 0..BITS - 1
           /\ p = BITS * (p \div BITS) + (p % BITS)
  BY BitsAssumption

(* f is the values of a loop of n steps in S that starts from base. *)
IsLoop(f, S, n, base, step) ==
    f \in [0..n -> S] /\ f[0] = base /\ \A k \in 1..n : f[k] = step[k][f[k - 1]]

(* A loop that goes from k - 1 to k by a function has a result. *)
LEMMA LoopExists ==
    ASSUME NEW S, NEW n \in Nat, NEW base \in S, NEW step \in [1..n -> [S -> S]]
    PROVE  \E f : IsLoop(f, S, n, base, step)
  <1> DEFINE Loop(f, m) == /\ f \in [0..m -> S] /\ f[0] = base
                           /\ \A k \in 1..m : f[k] = step[k][f[k - 1]]
             T == {m \in Nat : \E f : Loop(f, m)}
  <1>1. 0 \in T
    <2>1. Loop([k \in 0..0 |-> base], 0)
      OBVIOUS
    <2> QED
      BY <2>1, Zenon
  <1>2. ASSUME NEW m \in 0..n - 1, m \in T PROVE m + 1 \in T
    <2>1. PICK f : Loop(f, m)
      BY <1>2, Zenon
    <2> DEFINE g == [k \in 0..m + 1 |-> IF k = m + 1 THEN step[m + 1][f[m]] ELSE f[k]]
    <2>2. m \in Nat /\ m + 1 \in 1..n /\ m + 1 \in Nat /\ f[m] \in S
      BY <2>1
    <2>3. step[m + 1][f[m]] \in S
      BY <2>2, Zenon
    <2>4. \A k \in 0..m + 1 : k = m + 1 \/ k \in 0..m
      BY <2>2
    <2>5. g \in [0..m + 1 -> S]
      BY <2>1, <2>3, <2>4, Zenon
    <2>6. g[0] = base
      BY <2>1, <2>2
    <2>7. ASSUME NEW k \in 1..m + 1 PROVE g[k] = step[k][g[k - 1]]
      <3>1. k - 1 \in 0..m /\ k - 1 # m + 1 /\ k \in 0..m + 1 /\ k - 1 \in 0..m + 1
        BY <2>2
      <3>2. g[k - 1] = f[k - 1]
        BY <3>1, Zenon
      <3>3. CASE k = m + 1
        <4>1. k - 1 = m
          BY <2>2, <3>3
        <4> QED
          BY <3>1, <3>2, <3>3, <4>1, Zenon
      <3>4. CASE k # m + 1
        <4>1. k \in 1..m
          BY <2>2, <3>4
        <4> QED
          BY <2>1, <3>1, <3>2, <3>4, <4>1, Zenon
      <3> QED
        BY <3>3, <3>4, Zenon
    <2>8. Loop(g, m + 1)
      BY <2>5, <2>6, <2>7, Zenon
    <2> QED
      BY <2>2, <2>8, Zenon
  <1> HIDE DEF T
  <1>3. n \in T
    <2>1. \A k \in 0..n : k \in T
      BY <1>1, <1>2, UpTo, Zenon
    <2> QED
      BY <2>1
  <1> USE DEF T
  <1>4. PICK f : Loop(f, n)
    BY <1>3, Zenon
  <1> QED
    BY <1>4, Zenon DEF IsLoop

-----------------------------------------------------------------------------
(* The bitmap. *)

NB == SIZE_TO_BITMAP_BYTES(PageCount)
Bitmaps == [0..NB - 1 -> SUBSET (0..BITS - 1)]
Page == 0..PageCount - 1

(* Whether page p is marked in bitmap b. *)
On(b, p) == p % BITS \in b[p \div BITS]

(* Every page of the region has a byte. *)
LEMMA ByteOf == ASSUME NEW p \in Page PROVE p \div BITS \in 0..NB - 1
  <1>1. /\ p \in Nat /\ PageCount \in Nat \ {0} /\ p < PageCount /\ BITS \in Nat \ {0}
        /\ PageCount + BITS - 1 \in Nat
    BY BitsAssumption, RegionAssumption DEF Page
  <1> DEFINE q == p \div BITS
             e == PageCount + BITS - 1
  <1>2. q \in Nat /\ p % BITS >= 0 /\ p = BITS * q + (p % BITS) /\ p % BITS \in Int
    BY <1>1, DivMod
  <1>3. e \div BITS \in Nat /\ e % BITS <= BITS - 1 /\ e = BITS * (e \div BITS) + (e % BITS)
        /\ e % BITS \in Int
    BY <1>1, DivMod, SMTT(30)
  <1>4. NB = e \div BITS
    BY Zenon DEF NB, SIZE_TO_BITMAP_BYTES
  <1> HIDE DEF q, e
  <1>5. BITS * q < BITS * NB /\ NB \in Nat
    <2>1. e = PageCount + BITS - 1
      BY Zenon DEF e
    <2>2. BITS * q \in Int /\ BITS * (e \div BITS) \in Int
      BY <1>1, <1>2, <1>3
    <2> QED
      BY <1>1, <1>2, <1>3, <1>4, <2>1, <2>2
  <1>6. \A a, b \in Nat : BITS * a < BITS * b => a < b
    BY <1>1
  <1>7. q < NB
    BY <1>2, <1>5, <1>6, Zenon
  <1> QED
    BY <1>2, <1>5, <1>7 DEF q

(* Two pages with the same bit of the same byte are one. *)
LEMMA SameBit ==
    ASSUME NEW p \in Page, NEW q \in Page, p \div BITS = q \div BITS, p % BITS = q % BITS
    PROVE  p = q
  <1>1. p \in Nat /\ q \in Nat
    BY RegionAssumption DEF Page
  <1> QED
    BY <1>1, DivMod, Zenon

(* bm_set_page_allocate and bm_set_page_free change one page. *)
LEMMA OnePage ==
    ASSUME NEW b \in Bitmaps, NEW p \in Page
    PROVE  /\ bm_set_page_allocate(b, p) \in Bitmaps /\ bm_set_page_free(b, p) \in Bitmaps
           /\ \A q \in Page : On(bm_set_page_allocate(b, p), q) <=> q = p \/ On(b, q)
           /\ \A q \in Page : On(bm_set_page_free(b, p), q) <=> q # p /\ On(b, q)
  <1>1. /\ p \div BITS \in 0..NB - 1 /\ p % BITS \in 0..BITS - 1
    BY ByteOf, DivMod, RegionAssumption DEF Page
  <1>2. bm_set_page_allocate(b, p) \in Bitmaps /\ bm_set_page_free(b, p) \in Bitmaps
    BY <1>1, Zenon DEF Bitmaps, bm_set_page_allocate, bm_set_page_free
  <1>3. ASSUME NEW q \in Page
        PROVE  /\ On(bm_set_page_allocate(b, p), q) <=> q = p \/ On(b, q)
               /\ On(bm_set_page_free(b, p), q) <=> q # p /\ On(b, q)
    <2>1. q \div BITS \in 0..NB - 1
      BY ByteOf, Zenon
    <2>2. CASE q \div BITS # p \div BITS
      <3>1. /\ bm_set_page_allocate(b, p)[q \div BITS] = b[q \div BITS]
            /\ bm_set_page_free(b, p)[q \div BITS] = b[q \div BITS] /\ q # p
        BY <2>1, <2>2, Zenon DEF bm_set_page_allocate, bm_set_page_free, Bitmaps
      <3> QED
        BY <3>1, Zenon DEF On
    <2>3. CASE q \div BITS = p \div BITS
      <3>1. /\ bm_set_page_allocate(b, p)[q \div BITS] = b[q \div BITS] \cup {p % BITS}
            /\ bm_set_page_free(b, p)[q \div BITS] = b[q \div BITS] \ {p % BITS}
        BY <2>1, <2>3, Zenon DEF bm_set_page_allocate, bm_set_page_free, Bitmaps
      <3>2. q % BITS = p % BITS <=> q = p
        BY <2>3, SameBit, Zenon
      <3> QED
        BY <3>1, <3>2, Zenon DEF On
    <2> QED
      BY <2>2, <2>3, Zenon
  <1> QED
    BY <1>2, <1>3, Zenon

(* The loop of bm_allocate marks its pages and no other.                   *)
LEMMA SetRun ==
    ASSUME NEW b \in Bitmaps, NEW first \in Nat, NEW n \in Nat, first + n <= PageCount
    PROVE  /\ SetPages(b, first, n) \in Bitmaps
           /\ \A q \in Page : On(SetPages(b, first, n), q) <=> q \in first..(first + n - 1) \/ On(b, q)
  <1> DEFINE Eq(f) == f = [k \in 0..n |-> IF k = 0 THEN b
                                          ELSE bm_set_page_allocate(f[k - 1], first + k - 1)]
             done == CHOOSE f : Eq(f)
             step == [k \in 1..n |-> [x \in Bitmaps |-> bm_set_page_allocate(x, first + k - 1)]]
  <1>1. \A k \in 1..n : first + k - 1 \in Page
    BY RegionAssumption DEF Page
  <1>2. step \in [1..n -> [Bitmaps -> Bitmaps]]
    BY <1>1, OnePage, Zenon
  <1>3. \E f : Eq(f)
    <2> HIDE DEF step
    <2>0. PICK f : IsLoop(f, Bitmaps, n, b, step)
      BY <1>2, LoopExists, Zenon
    <2>1. /\ f \in [0..n -> Bitmaps] /\ f[0] = b
          /\ \A k \in 1..n : f[k] = step[k][f[k - 1]]
      BY <2>0, Zenon DEF IsLoop
    <2> USE DEF step
    <2>2. ASSUME NEW k \in 1..n PROVE f[k] = bm_set_page_allocate(f[k - 1], first + k - 1)
      <3>1. k - 1 \in 0..n
        OBVIOUS
      <3> QED
        BY <2>1, <3>1, Zenon
    <2>3. \A k \in 0..n : k = 0 \/ k \in 1..n
      OBVIOUS
    <2> QED
      BY <2>1, <2>2, <2>3, Zenon
  <1>4. Eq(done)
    BY <1>3, Zenon
  <1>5. SetPages(b, first, n) = done[n]
    BY Zenon DEF SetPages
  <1> HIDE DEF done
  <1>6. done[0] = b /\ \A k \in 1..n : done[k] = bm_set_page_allocate(done[k - 1], first + k - 1)
    BY <1>4
  <1> DEFINE T == {k \in 0..n : /\ done[k] \in Bitmaps
                                /\ \A q \in Page : On(done[k], q) <=> q \in first..(first + k - 1) \/ On(b, q)}
  <1>7. 0 \in T
    BY <1>6 DEF Page
  <1>8. ASSUME NEW k \in 0..n - 1, k \in T PROVE k + 1 \in T
    <2>1. /\ k + 1 \in 1..n /\ k + 1 - 1 = k /\ first + (k + 1) - 1 = first + k /\ k + 1 \in 0..n
      OBVIOUS
    <2>2. done[k + 1] = bm_set_page_allocate(done[k], first + k) /\ first + k \in Page
      BY <1>1, <1>6, <2>1
    <2>3. /\ done[k + 1] \in Bitmaps
          /\ \A q \in Page : On(done[k + 1], q) <=> q = first + k \/ On(done[k], q)
      BY <1>8, <2>2, OnePage
    <2>4. ASSUME NEW q \in Page
          PROVE  q \in first..(first + (k + 1) - 1) <=> q \in first..(first + k - 1) \/ q = first + k
      BY <2>1, RegionAssumption DEF Page
    <2>5. \A q \in Page : On(done[k], q) <=> q \in first..(first + k - 1) \/ On(b, q)
      BY <1>8, Zenon
    <2>6. \A q \in Page : On(done[k + 1], q) <=> q \in first..(first + (k + 1) - 1) \/ On(b, q)
      BY <2>3, <2>4, <2>5, Zenon
    <2> QED
      BY <2>1, <2>3, <2>6, Zenon
  <1> HIDE DEF T
  <1>9. n \in T
    BY <1>7, <1>8, UpTo
  <1> QED
    BY <1>5, <1>9, Zenon DEF T

(* The loop of bm_free clears its pages and no other.                      *)
LEMMA ClearRun ==
    ASSUME NEW b \in Bitmaps, NEW first \in Nat, NEW n \in Nat, first + n <= PageCount
    PROVE  /\ ClearPages(b, first, n) \in Bitmaps
           /\ \A q \in Page : On(ClearPages(b, first, n), q) <=> q \notin first..(first + n - 1) /\ On(b, q)
  <1> DEFINE Eq(f) == f = [k \in 0..n |-> IF k = 0 THEN b
                                          ELSE bm_set_page_free(f[k - 1], first + k - 1)]
             done == CHOOSE f : Eq(f)
             step == [k \in 1..n |-> [x \in Bitmaps |-> bm_set_page_free(x, first + k - 1)]]
  <1>1. \A k \in 1..n : first + k - 1 \in Page
    BY RegionAssumption DEF Page
  <1>2. step \in [1..n -> [Bitmaps -> Bitmaps]]
    BY <1>1, OnePage, Zenon
  <1>3. \E f : Eq(f)
    <2> HIDE DEF step
    <2>0. PICK f : IsLoop(f, Bitmaps, n, b, step)
      BY <1>2, LoopExists, Zenon
    <2>1. /\ f \in [0..n -> Bitmaps] /\ f[0] = b
          /\ \A k \in 1..n : f[k] = step[k][f[k - 1]]
      BY <2>0, Zenon DEF IsLoop
    <2> USE DEF step
    <2>2. ASSUME NEW k \in 1..n PROVE f[k] = bm_set_page_free(f[k - 1], first + k - 1)
      <3>1. k - 1 \in 0..n
        OBVIOUS
      <3> QED
        BY <2>1, <3>1, Zenon
    <2>3. \A k \in 0..n : k = 0 \/ k \in 1..n
      OBVIOUS
    <2> QED
      BY <2>1, <2>2, <2>3, Zenon
  <1>4. Eq(done)
    BY <1>3, Zenon
  <1>5. ClearPages(b, first, n) = done[n]
    BY Zenon DEF ClearPages
  <1> HIDE DEF done
  <1>6. done[0] = b /\ \A k \in 1..n : done[k] = bm_set_page_free(done[k - 1], first + k - 1)
    BY <1>4
  <1> DEFINE T == {k \in 0..n : /\ done[k] \in Bitmaps
                                /\ \A q \in Page : On(done[k], q) <=> q \notin first..(first + k - 1) /\ On(b, q)}
  <1>7. 0 \in T
    BY <1>6 DEF Page
  <1>8. ASSUME NEW k \in 0..n - 1, k \in T PROVE k + 1 \in T
    <2>1. /\ k + 1 \in 1..n /\ k + 1 - 1 = k /\ first + (k + 1) - 1 = first + k /\ k + 1 \in 0..n
      OBVIOUS
    <2>2. done[k + 1] = bm_set_page_free(done[k], first + k) /\ first + k \in Page
      BY <1>1, <1>6, <2>1
    <2>3. /\ done[k + 1] \in Bitmaps
          /\ \A q \in Page : On(done[k + 1], q) <=> q # first + k /\ On(done[k], q)
      BY <1>8, <2>2, OnePage
    <2>4. ASSUME NEW q \in Page
          PROVE  q \in first..(first + (k + 1) - 1) <=> q \in first..(first + k - 1) \/ q = first + k
      BY <2>1, RegionAssumption DEF Page
    <2>5. \A q \in Page : On(done[k], q) <=> q \notin first..(first + k - 1) /\ On(b, q)
      BY <1>8, Zenon
    <2>6. \A q \in Page : On(done[k + 1], q) <=> q \notin first..(first + (k + 1) - 1) /\ On(b, q)
      BY <2>3, <2>4, <2>5, Zenon
    <2> QED
      BY <2>1, <2>3, <2>6, Zenon
  <1> HIDE DEF T
  <1>9. n \in T
    BY <1>7, <1>8, UpTo
  <1> QED
    BY <1>5, <1>9, Zenon DEF T

-----------------------------------------------------------------------------
(* The search of bm_find_n_free_pages, with A the pages that are taken.    *)

Taken(A, n, start) == {i \in 0..n - 1 : start + i \in A}

Skip(A, n, start) ==
    CHOOSE i \in Taken(A, n, start) : \A j \in Taken(A, n, start) : i <= j

(* g answers the search from every start. *)
Searches(g, A, count, n) ==
    g = [start \in Nat |-> IF start + n > count THEN count
                           ELSE IF Taken(A, n, start) = {} THEN start
                           ELSE g[start + 1 + Skip(A, n, start)]]

Run(s, A, count, n) == s + n <= count /\ Taken(A, n, s) = {}

(* s is the first run from start on, or count when there is none. *)
IsFirst(s, A, count, n, start) ==
    \/ /\ s \in Nat /\ s >= start /\ Run(s, A, count, n)
       /\ \A t \in Nat : t >= start /\ t < s => ~Run(t, A, count, n)
    \/ /\ s = count
       /\ \A t \in Nat : t >= start => ~Run(t, A, count, n)

(* There is one first run. *)
LEMMA FirstExists ==
    ASSUME NEW A, NEW count \in Nat, NEW n \in Nat \ {0}, NEW start \in Nat
    PROVE  \E s : IsFirst(s, A, count, n, start)
  <1> DEFINE T == {t \in Nat : t >= start /\ Run(t, A, count, n)}
  <1>1. CASE T = {}
    <2>1. IsFirst(count, A, count, n, start)
      BY <1>1, Zenon DEF IsFirst
    <2> QED
      BY <2>1, Zenon
  <1>2. CASE T # {}
    <2>1. T \subseteq Nat
      OBVIOUS
    <2>2. PICK s \in T : \A t \in T : s <= t
      BY <1>2, <2>1, LeastElement, Zenon
    <2>3. ASSUME NEW t \in Nat, t >= start, t < s PROVE ~Run(t, A, count, n)
      <3>1. ~(s <= t)
        BY <2>3
      <3> QED
        BY <2>2, <2>3, <3>1, Zenon
    <2>4. IsFirst(s, A, count, n, start)
      BY <2>3, Zenon DEF IsFirst
    <2> QED
      BY <2>4, Zenon
  <1> QED
    BY <1>1, <1>2, Zenon

(* Two first runs are one. *)
LEMMA FirstUnique ==
    ASSUME NEW A, NEW count \in Nat, NEW n \in Nat \ {0}, NEW start \in Nat,
           NEW s, NEW r, IsFirst(s, A, count, n, start), IsFirst(r, A, count, n, start)
    PROVE  s = r
  <1>1. CASE s = count /\ \A t \in Nat : t >= start => ~Run(t, A, count, n)
    BY <1>1, Zenon DEF IsFirst
  <1>2. CASE r = count /\ \A t \in Nat : t >= start => ~Run(t, A, count, n)
    BY <1>2, Zenon DEF IsFirst
  <1>3. CASE /\ s \in Nat /\ s >= start /\ Run(s, A, count, n)
             /\ \A t \in Nat : t >= start /\ t < s => ~Run(t, A, count, n)
             /\ r \in Nat /\ r >= start /\ Run(r, A, count, n)
             /\ \A t \in Nat : t >= start /\ t < r => ~Run(t, A, count, n)
    BY <1>3
  <1> QED
    BY <1>1, <1>2, <1>3, Zenon DEF IsFirst

(* A search that meets a taken page goes on behind it and misses no run.   *)
LEMMA SkipFirst ==
    ASSUME NEW A, NEW count \in Nat, NEW n \in Nat \ {0}, NEW start \in Nat,
           Taken(A, n, start) # {}
    PROVE  /\ Skip(A, n, start) \in 0..n - 1
           /\ start + 1 + Skip(A, n, start) \in Nat
           /\ \A s : IsFirst(s, A, count, n, start + 1 + Skip(A, n, start))
                       => IsFirst(s, A, count, n, start)
  <1> DEFINE T == Taken(A, n, start)
             k == Skip(A, n, start)
  <1>1. T \subseteq Nat
    BY DEF Taken
  <1>2. \E i \in T : \A j \in T : i <= j
    BY <1>1, LeastElement, Zenon
  <1>3. k \in T
    BY <1>2, Zenon DEF Skip
  <1>4. k \in 0..n - 1 /\ start + k \in A
    BY <1>3, Zenon DEF Taken
  <1> HIDE DEF k
  <1>5. start + 1 + k \in Nat /\ k \in Nat
    BY <1>4
  <1>6. ASSUME NEW t \in Nat, t >= start, t < start + 1 + k PROVE ~Run(t, A, count, n)
    <2>1. start + k - t \in 0..n - 1 /\ t + (start + k - t) = start + k
      BY <1>4, <1>5, <1>6
    <2>2. start + k - t \in Taken(A, n, t)
      BY <1>4, <2>1, Zenon DEF Taken
    <2> QED
      BY <2>2, Zenon DEF Run
  <1>7. ASSUME NEW s, IsFirst(s, A, count, n, start + 1 + k)
        PROVE  IsFirst(s, A, count, n, start)
    <2>1. \A t \in Nat : t >= start => t < start + 1 + k \/ t >= start + 1 + k
      BY <1>5
    <2>2. CASE /\ s \in Nat /\ s >= start + 1 + k /\ Run(s, A, count, n)
               /\ \A t \in Nat : t >= start + 1 + k /\ t < s => ~Run(t, A, count, n)
      <3>1. s >= start
        BY <1>5, <2>2
      <3>2. \A t \in Nat : t >= start /\ t < s => ~Run(t, A, count, n)
        BY <1>6, <2>1, <2>2, Zenon
      <3> QED
        BY <2>2, <3>1, <3>2, Zenon DEF IsFirst
    <2>3. CASE s = count /\ \A t \in Nat : t >= start + 1 + k => ~Run(t, A, count, n)
      BY <1>6, <2>1, <2>3, Zenon DEF IsFirst
    <2> QED
      BY <1>7, <2>2, <2>3, Zenon DEF IsFirst
  <1> QED
    BY <1>4, <1>5, <1>7, Zenon DEF k

(* The search is defined: some function answers it. *)
LEMMA SearchExists ==
    ASSUME NEW A, NEW count \in Nat, NEW n \in Nat \ {0}
    PROVE  \E g : Searches(g, A, count, n)
  <1> DEFINE first(start) == CHOOSE s : IsFirst(s, A, count, n, start)
             g == [start \in Nat |-> first(start)]
  <1>1. ASSUME NEW start \in Nat PROVE IsFirst(first(start), A, count, n, start)
    BY FirstExists, Zenon
  <1>2. ASSUME NEW start \in Nat
        PROVE  g[start] = IF start + n > count THEN count
                          ELSE IF Taken(A, n, start) = {} THEN start
                          ELSE g[start + 1 + Skip(A, n, start)]
    <2>0. g[start] = first(start) /\ IsFirst(first(start), A, count, n, start)
      BY <1>1, Zenon
    <2> HIDE DEF first
    <2>1. CASE start + n > count
      <3>1. \A t \in Nat : t >= start => ~(t + n <= count)
        BY <2>1
      <3>2. IsFirst(count, A, count, n, start)
        BY <3>1, Zenon DEF IsFirst, Run
      <3>3. first(start) = count
        BY <2>0, <3>2, FirstUnique, Zenon
      <3> QED
        BY <2>0, <2>1, <3>3, Zenon
    <2>2. CASE ~(start + n > count) /\ Taken(A, n, start) = {}
      <3>1. start >= start /\ start + n <= count /\ \A t \in Nat : ~(t >= start /\ t < start)
        BY <2>2
      <3>2. IsFirst(start, A, count, n, start)
        BY <2>2, <3>1, Zenon DEF IsFirst, Run
      <3>3. first(start) = start
        BY <2>0, <3>2, FirstUnique, Zenon
      <3> QED
        BY <2>0, <2>2, <3>3, Zenon
    <2>3. CASE ~(start + n > count) /\ Taken(A, n, start) # {}
      <3> DEFINE next == start + 1 + Skip(A, n, start)
      <3>1. next \in Nat
        BY <2>3, SkipFirst, Zenon
      <3>2. g[next] = first(next) /\ IsFirst(first(next), A, count, n, next)
        BY <1>1, <3>1, Zenon DEF first
      <3>3. IsFirst(first(next), A, count, n, start)
        BY <2>3, <3>2, SkipFirst, Zenon
      <3>4. first(start) = first(next)
        BY <2>0, <3>3, FirstUnique, Zenon
      <3> QED
        BY <2>0, <2>3, <3>2, <3>4, Zenon
    <2> QED
      BY <2>1, <2>2, <2>3, Zenon
  <1>3. Searches(g, A, count, n)
    <2> DEFINE v(start) == IF start + n > count THEN count
                           ELSE IF Taken(A, n, start) = {} THEN start
                           ELSE g[start + 1 + Skip(A, n, start)]
    <2>1. g = [start \in Nat |-> v(start)]
      <3>1. \A start \in Nat : first(start) = v(start)
        BY <1>2, Zenon
      <3> HIDE DEF first, v
      <3> QED
        BY <3>1, Zenon
    <2> QED
      BY <2>1, Zenon DEF Searches
  <1> QED
    BY <1>3, Zenon

(* Whatever function answers the search, its answer is the first run.      *)
LEMMA SearchFinds ==
    ASSUME NEW A, NEW count \in Nat, NEW n \in Nat \ {0}, NEW g, Searches(g, A, count, n)
    PROVE  IsFirst(g[0], A, count, n, 0)
  <1>1. ASSUME NEW start \in Nat
        PROVE  g[start] = IF start + n > count THEN count
                          ELSE IF Taken(A, n, start) = {} THEN start
                          ELSE g[start + 1 + Skip(A, n, start)]
    BY Zenon DEF Searches
  <1> DEFINE good(k) == IsFirst(g[count - k], A, count, n, count - k)
             bad == {k \in 0..count : ~good(k)}
  <1>2. ASSUME bad # {} PROVE FALSE
    <2>1. bad \subseteq Nat
      OBVIOUS
    <2> HIDE DEF good
    <2>2. PICK k \in bad : \A j \in bad : k <= j
      BY <1>2, <2>1, LeastElement, Zenon
    <2> DEFINE start == count - k
    <2>3. start \in Nat /\ k \in 0..count
      BY <2>2
    <2>4. ~IsFirst(g[start], A, count, n, start)
      BY <2>2, Zenon DEF good
    <2>5. CASE start + n > count
      <3>1. \A t \in Nat : t >= start => ~(t + n <= count)
        BY <2>3, <2>5
      <3>2. g[start] = count
        BY <1>1, <2>3, <2>5, Zenon
      <3> QED
        BY <2>4, <3>1, <3>2, Zenon DEF IsFirst, Run
    <2>6. CASE ~(start + n > count) /\ Taken(A, n, start) = {}
      <3>1. start >= start /\ start + n <= count /\ \A t \in Nat : ~(t >= start /\ t < start)
        BY <2>3, <2>6
      <3>2. g[start] = start
        BY <1>1, <2>3, <2>6, Zenon
      <3> HIDE DEF start
      <3> QED
        BY <2>3, <2>4, <2>6, <3>1, <3>2, Zenon DEF IsFirst, Run
    <2>7. CASE ~(start + n > count) /\ Taken(A, n, start) # {}
      <3> DEFINE s == Skip(A, n, start)
                 j == count - (start + 1 + s)
      <3>1. s \in 0..n - 1 /\ g[start] = g[start + 1 + s]
        BY <1>1, <2>3, <2>7, SkipFirst, Zenon
      <3>2. /\ \A r : IsFirst(r, A, count, n, start + 1 + s) => IsFirst(r, A, count, n, start)
        BY <2>3, <2>7, SkipFirst, Zenon
      <3> HIDE DEF s
      <3>3. j \in 0..count /\ ~(k <= j) /\ count - j = start + 1 + s
        BY <2>3, <2>7, <3>1
      <3> HIDE DEF j
      <3>4. good(j)
        BY <2>2, <3>3, Zenon
      <3> QED
        BY <2>4, <3>1, <3>2, <3>3, <3>4, Zenon DEF good
    <2> QED
      BY <2>5, <2>6, <2>7, Zenon
  <1>3. good(count)
    <2> HIDE DEF good
    <2>1. count \in 0..count
      OBVIOUS
    <2> QED
      BY <1>2, <2>1, Zenon
  <1> QED
    BY <1>3

(* The pages whose bits are 1. *)
Marked(a) == {p \in Nat : bm_get_page_allocated(a, p)}

(* bm_find_n_free_pages finds the lowest run of n free pages.              *)
LEMMA FindSpec ==
    ASSUME NEW a, a.page_count \in Nat, NEW n \in Nat \ {0}
    PROVE  IsFirst(bm_find_n_free_pages(a, n), Marked(a), a.page_count, n, 0)
  <1> DEFINE taken(start) == {i \in 0..n - 1 : bm_get_page_allocated(a, start + i)}
             Eq(g) == g = [start \in Nat |->
                              IF start + n > a.page_count THEN a.page_count
                              ELSE IF taken(start) = {} THEN start
                              ELSE g[start + 1 + CHOOSE i \in taken(start) :
                                                     \A j \in taken(start) : i <= j]]
             from == CHOOSE g : Eq(g)
  <1>1. ASSUME NEW start \in Nat PROVE taken(start) = Taken(Marked(a), n, start)
    BY DEF Taken, Marked
  <1>2. ASSUME NEW g PROVE Eq(g) <=> Searches(g, Marked(a), a.page_count, n)
    <2> DEFINE least(T) == CHOOSE i \in T : \A j \in T : i <= j
               l(start) == IF start + n > a.page_count THEN a.page_count
                           ELSE IF taken(start) = {} THEN start
                           ELSE g[start + 1 + least(taken(start))]
               r(start) == IF start + n > a.page_count THEN a.page_count
                           ELSE IF Taken(Marked(a), n, start) = {} THEN start
                           ELSE g[start + 1 + least(Taken(Marked(a), n, start))]
    <2>1. Eq(g) <=> g = [start \in Nat |-> l(start)]
      BY Zenon
    <2>2. Searches(g, Marked(a), a.page_count, n) <=> g = [start \in Nat |-> r(start)]
      BY Zenon DEF Searches, Skip
    <2>3. \A start \in Nat : l(start) = r(start)
      <3> HIDE DEF taken, least
      <3> QED
        BY <1>1, Zenon
    <2> HIDE DEF l, r
    <2>4. [start \in Nat |-> l(start)] = [start \in Nat |-> r(start)]
      BY <2>3, Zenon
    <2> QED
      BY <2>1, <2>2, <2>4, Zenon
  <1>3. Eq(from)
    <2> HIDE DEF Eq
    <2> QED
      BY <1>2, SearchExists, Zenon
  <1>4. bm_find_n_free_pages(a, n) = from[0]
    BY Zenon DEF bm_find_n_free_pages
  <1> HIDE DEF Eq, from
  <1> QED
    BY <1>2, <1>3, <1>4, SearchFinds, Zenon

-----------------------------------------------------------------------------
(* The inductive invariant. *)

Live == {s \in [va : Nat, page_count : Nat] :
            s.va >= Pool /\ s.page_count >= 1 /\ s.va + s.page_count <= Pool + PageCount}

Pages(s) == s.va..(s.va + s.page_count - 1)

Allocators == [bitmap : Bitmaps, page_count : {PageCount}, pool : {Pool}, ok : {TRUE}]

Tables == [1..NB -> {EmptySlot} \cup Live]

Used(table) == {i \in 1..NB : table[i] # EmptySlot}

(* No page is in two slots. *)
Apart(table) ==
    \A i, j \in Used(table) : i # j => Pages(table[i]) \cap Pages(table[j]) = {}

(* The bits of the pages of slots are set, and no other. *)
BitsOf(table, b) ==
    \A p \in Page : On(b, p) <=> \E i \in Used(table) : Pool + p \in Pages(table[i])

Block(s) == [at |-> s.va, size |-> s.page_count]

(* The callers hold what slots record. *)
Recorded(table, held) == held = {Block(table[i]) : i \in Used(table)}

IInv ==
    /\ region \in [allocator : Allocators, allocations : Tables]
    /\ Apart(region.allocations)
    /\ BitsOf(region.allocations, region.allocator.bitmap)
    /\ Recorded(region.allocations, owned)

(* Facts on slots. *)
LEMMA SlotFacts ==
    ASSUME NEW table \in Tables
    PROVE  /\ NB \in Nat
           /\ \A i \in 1..NB : table[i].va = NullPtr => table[i] = EmptySlot
           /\ \A i \in Used(table) :
                 LET s == table[i]
                 IN  /\ s \in Live /\ s.va \in Nat /\ s.page_count \in Nat \ {0}
                     /\ s.va - Pool \in Nat /\ (s.va - Pool) + s.page_count <= PageCount
                     /\ s.va # NullPtr /\ s.va \in Pages(s)
                     /\ s = [va |-> s.va, page_count |-> s.page_count]
  <1>1. NB \in Nat
    BY DivMod, BitsAssumption, RegionAssumption DEF NB, SIZE_TO_BITMAP_BYTES
  <1>2. ASSUME NEW s \in Live
        PROVE  /\ s.va \in Nat /\ s.page_count \in Nat \ {0}
               /\ s.va - Pool \in Nat /\ (s.va - Pool) + s.page_count <= PageCount
               /\ s.va # NullPtr /\ s.va \in Pages(s)
               /\ s = [va |-> s.va, page_count |-> s.page_count]
    BY RegionAssumption DEF Live, Pages, NullPtr
  <1>3. \A i \in 1..NB : table[i] = EmptySlot \/ table[i] \in Live
    BY Zenon DEF Tables
  <1> QED
    BY <1>1, <1>2, <1>3, Zenon DEF Used

(* region_find gives a slot with the address, or there is none. *)
LEMMA FindSlot ==
    ASSUME NEW r, r.allocations \in Tables, NEW addr
    PROVE  \/ /\ region_find(r, addr) = 0
              /\ \A i \in 1..NB : r.allocations[i].va # addr
           \/ /\ region_find(r, addr) \in 1..NB
              /\ r.allocations[region_find(r, addr)].va = addr
  <1> DEFINE hits == {i \in DOMAIN r.allocations : r.allocations[i].va = addr}
             least == CHOOSE i \in hits : \A j \in hits : i <= j
  <1>1. DOMAIN r.allocations = 1..NB
    BY Zenon DEF Tables
  <1>2. region_find(r, addr) = IF hits = {} THEN 0 ELSE least
    BY Zenon DEF region_find
  <1>3. CASE hits = {}
    BY <1>1, <1>2, <1>3, Zenon
  <1>4. CASE hits # {}
    <2>1. hits \subseteq Nat
      BY <1>1, SlotFacts
    <2> HIDE DEF hits
    <2>2. \E i \in hits : \A j \in hits : i <= j
      BY <1>4, <2>1, LeastElement, Zenon
    <2>3. least \in hits
      BY <2>2, Zenon
    <2> HIDE DEF least
    <2> USE DEF hits
    <2> QED
      BY <1>1, <1>2, <1>4, <2>3, Zenon
  <1> QED
    BY <1>3, <1>4, Zenon

(* region_alloc fails and changes nothing, or marks n free pages of the    *)
(* region and records them in an empty slot.                               *)
AllocTo(n, i, pos) ==
    [r |-> [allocator |-> [region.allocator EXCEPT !.bitmap = SetPages(@, pos, n)],
            allocations |-> [region.allocations EXCEPT ![i] = [va |-> Pool + pos, page_count |-> n]]],
     va |-> <<Pool + pos>>]

LEMMA AllocResult ==
    ASSUME IInv, NEW n \in Nat \ {0}
    PROVE  \/ region_alloc(region, n) = [r |-> region, va |-> <<>>]
           \/ \E i \in 1..NB, pos \in Nat :
                 /\ region.allocations[i] = EmptySlot
                 /\ pos + n <= PageCount
                 /\ \A q \in pos..(pos + n - 1) : ~On(region.allocator.bitmap, q)
                 /\ region_alloc(region, n) = AllocTo(n, i, pos)
  <1> DEFINE al == region.allocator
             i == region_find(region, NullPtr)
             pos == bm_find_n_free_pages(al, n)
             a == bitmap_alloc(al, n)
  <1>1. /\ region.allocations \in Tables /\ al \in Allocators
        /\ al.page_count = PageCount /\ al.pool = Pool /\ PageCount \in Nat
    BY RegionAssumption, Zenon DEF IInv, Allocators
  <1> HIDE DEF i, pos, a
  <1>2. region_alloc(region, n) = IF i = 0 \/ a.va = <<>> THEN [r |-> region, va |-> <<>>]
                                  ELSE [r |-> Record(region, i, a, n), va |-> a.va]
    BY Zenon DEF region_alloc, i, a
  <1>3. CASE i = 0 \/ a.va = <<>>
    BY <1>2, <1>3, Zenon
  <1>4. CASE i # 0 /\ a.va # <<>>
    <2>1. i \in 1..NB /\ region.allocations[i] = EmptySlot
      <3>1. i \in 1..NB /\ region.allocations[i].va = NullPtr
        BY <1>1, <1>4, FindSlot, Zenon DEF i
      <3> QED
        BY <1>1, <3>1, SlotFacts, Zenon
    <2>2. a = IF pos = PageCount THEN [a |-> al, va |-> <<>>]
              ELSE [a |-> bm_allocate(al, pos, n), va |-> <<Pool + pos>>]
      BY <1>1, Zenon DEF a, pos, bitmap_alloc, bm_page_to_addr
    <2>3. pos # PageCount
      <3>1. CASE pos = PageCount
        <4>1. a = [a |-> al, va |-> <<>>]
          BY <2>2, <3>1, Zenon
        <4> QED
          BY <1>4, <4>1, Zenon
      <3> QED
        BY <3>1, Zenon
    <2>4. IsFirst(pos, Marked(al), PageCount, n, 0)
      BY <1>1, FindSpec, Zenon DEF pos
    <2>5. pos \in Nat /\ Run(pos, Marked(al), PageCount, n)
      BY <2>3, <2>4, Zenon DEF IsFirst
    <2>6. pos + n <= PageCount /\ Taken(Marked(al), n, pos) = {}
      BY <2>5, Zenon DEF Run
    <2>7. ASSUME NEW q \in pos..(pos + n - 1) PROVE ~On(al.bitmap, q)
      <3>1. q \in Nat /\ q - pos \in 0..n - 1 /\ pos + (q - pos) = q
        BY <2>5
      <3>2. q \notin Marked(al)
        BY <2>6, <3>1, Zenon DEF Taken
      <3> QED
        BY <3>1, <3>2, Zenon DEF Marked, On, bm_get_page_allocated
    <2>8. pos < PageCount /\ n > 0
      BY <1>1, <2>5, <2>6
    <2>9. bm_allocate(al, pos, n) = [al EXCEPT !.bitmap = SetPages(@, pos, n)]
      BY <1>1, <2>6, <2>8, Zenon DEF bm_allocate
    <2>10. a = [a |-> [al EXCEPT !.bitmap = SetPages(@, pos, n)], va |-> <<Pool + pos>>]
      BY <2>2, <2>3, <2>9, Zenon
    <2>11. /\ a.a = [al EXCEPT !.bitmap = SetPages(@, pos, n)]
           /\ a.va = <<Pool + pos>> /\ a.va[1] = Pool + pos
      BY <2>10, Zenon
    <2>12. region_alloc(region, n) = AllocTo(n, i, pos)
      BY <1>2, <1>4, <2>11, Zenon DEF AllocTo, Record
    <2> QED
      BY <2>1, <2>5, <2>6, <2>7, <2>12, Zenon
  <1> QED
    BY <1>3, <1>4, Zenon

(* region_free of what a caller holds clears its pages and its slot.       *)
FreeAt(i) ==
    LET s == region.allocations[i]
    IN  [allocator |-> [region.allocator EXCEPT
                           !.bitmap = ClearPages(@, s.va - Pool, s.page_count)],
         allocations |-> [region.allocations EXCEPT ![i] = EmptySlot]]

LEMMA FreeResult ==
    ASSUME IInv, NEW o \in owned
    PROVE  \E i \in Used(region.allocations) :
              /\ o = Block(region.allocations[i])
              /\ region_free(region, o.at) = FreeAt(i)
  <1> DEFINE table == region.allocations
             al == region.allocator
             i == region_find(region, o.at)
  <1>1. /\ table \in Tables /\ al \in Allocators
        /\ al.page_count = PageCount /\ al.pool = Pool /\ PageCount \in Nat /\ Pool \in Nat
    BY RegionAssumption, Zenon DEF IInv, Allocators
  <1>2. PICK k \in Used(table) : o = Block(table[k])
    BY Zenon DEF IInv, Recorded
  <1>3. o.at = table[k].va /\ k \in 1..NB
    BY <1>2, Zenon DEF Block, Used
  <1> HIDE DEF i
  <1>4. i \in 1..NB /\ table[i].va = table[k].va
    BY <1>1, <1>3, FindSlot, Zenon DEF i
  <1>5. i \in Used(table)
    <2>1. table[k].va # NullPtr
      BY <1>1, <1>2, SlotFacts, Zenon
    <2>2. EmptySlot.va = NullPtr
      BY Zenon DEF EmptySlot
    <2> QED
      BY <1>4, <2>1, <2>2, Zenon DEF Used
  <1>6. i = k
    <2>1. table[i].va \in Pages(table[i]) /\ table[k].va \in Pages(table[k])
      BY <1>1, <1>2, <1>5, SlotFacts, Zenon
    <2>2. Apart(table)
      BY Zenon DEF IInv
    <2>3. table[i].va \in Pages(table[i]) \cap Pages(table[k])
      BY <1>4, <2>1, Zenon
    <2> QED
      BY <1>2, <1>5, <2>2, <2>3, Zenon DEF Apart
  <1> DEFINE s == table[i]
             page == s.va - Pool
             n == s.page_count
  <1>7. /\ s.va \in Nat /\ n \in Nat \ {0} /\ page \in Nat /\ page + n <= PageCount
    BY <1>1, <1>5, SlotFacts, Zenon
  <1>8. s.va >= Pool /\ s.va < Pool + PageCount /\ n > 0
    <2> HIDE DEF s
    <2> QED
      BY <1>1, <1>7
  <1>9. ASSUME NEW q \in page..(page + n - 1) PROVE bm_get_page_allocated(al, q)
    <2>1. q \in Page /\ Pool + q \in s.va..(s.va + n - 1)
      <3> HIDE DEF s
      <3> QED
        BY <1>1, <1>7 DEF Page
    <2>2. On(al.bitmap, q)
      BY <1>5, <2>1, Zenon DEF IInv, BitsOf, Pages
    <2> QED
      BY <2>2, Zenon DEF On, bm_get_page_allocated
  <1>10. bitmap_free(al, s.va, n) = [al EXCEPT !.bitmap = ClearPages(@, page, n)]
    <2> HIDE DEF s
    <2> QED
      BY <1>1, <1>7, <1>8, <1>9, Zenon DEF bitmap_free, bm_free, bm_addr_to_page
  <1>11. i # 0
    BY <1>1, <1>4, SlotFacts
  <1>12. region_free(region, o.at) =
            [allocator |-> bitmap_free(al, s.va, n), allocations |-> [table EXCEPT ![i] = EmptySlot]]
    BY <1>3, <1>4, <1>11, Zenon DEF region_free, i
  <1>13. region_free(region, o.at) = FreeAt(i)
    BY <1>10, <1>12, Zenon DEF FreeAt
  <1> QED
    BY <1>2, <1>5, <1>6, <1>13, Zenon

(* Slots that are apart have different blocks. *)
LEMMA BlocksDiffer ==
    ASSUME NEW table \in Tables, Apart(table), NEW i \in Used(table), NEW j \in Used(table),
           Block(table[i]) = Block(table[j])
    PROVE  i = j
  <1>1. table[i].va = table[j].va
    BY Zenon DEF Block
  <1>2. table[i].va \in Pages(table[i]) /\ table[j].va \in Pages(table[j])
    BY SlotFacts, Zenon
  <1>3. table[i].va \in Pages(table[i]) \cap Pages(table[j])
    BY <1>1, <1>2, Zenon
  <1> QED
    BY <1>3, Zenon DEF Apart

(* Recording n free pages in an empty slot. *)
LEMMA AddSlot ==
    ASSUME NEW table \in Tables, NEW b \in Bitmaps, NEW held,
           Apart(table), BitsOf(table, b), Recorded(table, held),
           NEW i \in 1..NB, table[i] = EmptySlot,
           NEW pos \in Nat, NEW n \in Nat \ {0}, pos + n <= PageCount,
           \A q \in pos..(pos + n - 1) : ~On(b, q)
    PROVE  LET s == [va |-> Pool + pos, page_count |-> n]
               new == [table EXCEPT ![i] = s]
           IN  /\ new \in Tables /\ Apart(new) /\ BitsOf(new, SetPages(b, pos, n))
               /\ Recorded(new, held \cup {Block(s)})
               /\ \A j \in Used(table) : Pages(table[j]) \cap Pages(s) = {}
               /\ s \in Live
  <1> DEFINE s == [va |-> Pool + pos, page_count |-> n]
             new == [table EXCEPT ![i] = s]
  <1> SUFFICES /\ new \in Tables /\ Apart(new) /\ BitsOf(new, SetPages(b, pos, n))
               /\ Recorded(new, held \cup {Block(s)})
               /\ \A j \in Used(table) : Pages(table[j]) \cap Pages(s) = {}
               /\ s \in Live
    BY Zenon
  <1>1. /\ s \in Live /\ Pages(s) = (Pool + pos)..(Pool + pos + n - 1) /\ Pool \in Nat
        /\ PageCount \in Nat
    BY RegionAssumption DEF Live, Pages
  <1>2. s # EmptySlot
    BY RegionAssumption, Zenon DEF EmptySlot, NullPtr
  <1>3. new \in Tables /\ \A j \in 1..NB : new[j] = IF j = i THEN s ELSE table[j]
    BY <1>1, Zenon DEF Tables
  <1> HIDE DEF s, new
  <1>4. /\ Used(new) = Used(table) \cup {i} /\ i \notin Used(table) /\ new[i] = s
        /\ \A j \in Used(table) : new[j] = table[j] /\ j # i
    <2>1. \A j \in 1..NB : new[j] # EmptySlot <=> j = i \/ table[j] # EmptySlot
      BY <1>2, <1>3, Zenon
    <2>2. Used(new) = Used(table) \cup {i}
      BY <2>1, Zenon DEF Used
    <2>3. i \notin Used(table)
      BY Zenon DEF Used
    <2>4. \A j \in Used(table) : j \in 1..NB /\ j # i
      BY <2>3, Zenon DEF Used
    <2> QED
      BY <1>3, <2>2, <2>3, <2>4, Zenon
  <1>5. ASSUME NEW j \in Used(table), NEW x \in Pages(table[j]), x \in Pages(s) PROVE FALSE
    <2>1. x - Pool \in pos..(pos + n - 1) /\ x - Pool \in Page /\ Pool + (x - Pool) = x
      BY <1>1, <1>5 DEF Page
    <2>2. On(b, x - Pool)
      BY <1>5, <2>1, Zenon DEF BitsOf
    <2> QED
      BY <2>1, <2>2, Zenon
  <1>6. \A j \in Used(table) : Pages(table[j]) \cap Pages(s) = {}
    BY <1>5, Zenon
  <1>7. Apart(new)
    <2>1. ASSUME NEW j \in Used(new), NEW k \in Used(new), j # k
          PROVE  Pages(new[j]) \cap Pages(new[k]) = {}
      <3>1. CASE j = i
        <4>1. k \in Used(table) /\ new[k] = table[k] /\ new[j] = s
          BY <1>4, <2>1, <3>1, Zenon
        <4>2. Pages(table[k]) \cap Pages(s) = {}
          BY <1>6, <4>1, Zenon
        <4> QED
          BY <4>1, <4>2, Zenon
      <3>2. CASE k = i
        <4>1. j \in Used(table) /\ new[j] = table[j] /\ new[k] = s
          BY <1>4, <2>1, <3>2, Zenon
        <4> QED
          BY <1>6, <4>1, Zenon
      <3>3. CASE j # i /\ k # i
        <4>1. j \in Used(table) /\ k \in Used(table) /\ new[j] = table[j] /\ new[k] = table[k]
          BY <1>4, <3>3, Zenon
        <4> QED
          BY <2>1, <4>1, Zenon DEF Apart
      <3> QED
        BY <3>1, <3>2, <3>3, Zenon
    <2> QED
      BY <2>1, Zenon DEF Apart
  <1>8. BitsOf(new, SetPages(b, pos, n))
    <2> SUFFICES ASSUME NEW p \in Page
                 PROVE  On(SetPages(b, pos, n), p) <=> \E j \in Used(new) : Pool + p \in Pages(new[j])
      BY Zenon DEF BitsOf
    <2>1. On(SetPages(b, pos, n), p) <=> p \in pos..(pos + n - 1) \/ On(b, p)
      BY SetRun, Zenon
    <2>2. p \in pos..(pos + n - 1) <=> Pool + p \in Pages(s)
      BY <1>1 DEF Page
    <2>3. On(b, p) <=> \E j \in Used(table) : Pool + p \in Pages(table[j])
      BY Zenon DEF BitsOf
    <2> QED
      BY <1>4, <2>1, <2>2, <2>3, Zenon
  <1>9. Recorded(new, held \cup {Block(s)})
    BY <1>4, Zenon DEF Recorded
  <1> QED
    BY <1>1, <1>3, <1>6, <1>7, <1>8, <1>9, Zenon

(* Clearing a slot and its pages. *)
LEMMA DropSlot ==
    ASSUME NEW table \in Tables, NEW b \in Bitmaps, NEW held,
           Apart(table), BitsOf(table, b), Recorded(table, held),
           NEW i \in Used(table),
           NEW new, new = [table EXCEPT ![i] = EmptySlot]
    PROVE  /\ new \in Tables /\ Apart(new)
           /\ BitsOf(new, ClearPages(b, table[i].va - Pool, table[i].page_count))
           /\ ClearPages(b, table[i].va - Pool, table[i].page_count) \in Bitmaps
           /\ Recorded(new, held \ {Block(table[i])})
  <1> DEFINE s == table[i]
             first == s.va - Pool
             n == s.page_count
  <1>1. /\ s.va \in Nat /\ n \in Nat \ {0} /\ first \in Nat /\ first + n <= PageCount
        /\ i \in 1..NB /\ n \in Nat
    <2>1. /\ s.va \in Nat /\ n \in Nat \ {0} /\ first \in Nat /\ first + n <= PageCount
      BY SlotFacts, Zenon
    <2> QED
      BY <2>1, Zenon DEF Used
  <1>2. new \in Tables /\ \A j \in 1..NB : new[j] = IF j = i THEN EmptySlot ELSE table[j]
    BY <1>1, Zenon DEF Tables
  <1>3. /\ \A j : j \in Used(new) <=> j \in Used(table) /\ j # i
        /\ \A j \in Used(new) : new[j] = table[j]
    BY <1>2, Zenon DEF Used
  <1>4. Apart(new)
    <2>1. ASSUME NEW j \in Used(new), NEW k \in Used(new), j # k
          PROVE  Pages(new[j]) \cap Pages(new[k]) = {}
      <3>1. j \in Used(table) /\ k \in Used(table) /\ new[j] = table[j] /\ new[k] = table[k]
        BY <1>3, Zenon
      <3> QED
        BY <2>1, <3>1, Zenon DEF Apart
    <2> QED
      BY <2>1, Zenon DEF Apart
  <1>5. /\ ClearPages(b, first, n) \in Bitmaps
        /\ \A q \in Page : On(ClearPages(b, first, n), q) <=> q \notin first..(first + n - 1) /\ On(b, q)
    <2> HIDE DEF s
    <2> QED
      BY <1>1, ClearRun, Zenon
  <1>6. BitsOf(new, ClearPages(b, first, n))
    <2> SUFFICES ASSUME NEW p \in Page
                 PROVE  On(ClearPages(b, first, n), p)
                          <=> \E j \in Used(new) : Pool + p \in Pages(new[j])
      BY Zenon DEF BitsOf
    <2>1. On(ClearPages(b, first, n), p) <=> p \notin first..(first + n - 1) /\ On(b, p)
      BY <1>5, Zenon
    <2>2. p \in first..(first + n - 1) <=> Pool + p \in Pages(s)
      <3> HIDE DEF s
      <3> QED
        BY <1>1, RegionAssumption DEF Page, Pages
    <2>3. On(b, p) <=> \E j \in Used(table) : Pool + p \in Pages(table[j])
      BY Zenon DEF BitsOf
    <2>4. \A j \in Used(table) : j # i => ~(Pool + p \in Pages(table[j]) /\ Pool + p \in Pages(s))
      BY Zenon DEF Apart
    <2> QED
      BY <1>3, <2>1, <2>2, <2>3, <2>4, Zenon
  <1>7. Recorded(new, held \ {Block(s)})
    <2>1. \A j \in Used(table) : Block(table[j]) = Block(s) => j = i
      BY BlocksDiffer, Zenon
    <2> QED
      BY <1>3, <2>1, Zenon DEF Recorded
  <1> QED
    BY <1>2, <1>4, <1>5, <1>6, <1>7, Zenon

-----------------------------------------------------------------------------
(* Theorems. *)

(* What a step does: nothing, one block more, or one block less.           *)
LEMMA StepResult ==
    ASSUME IInv, RegionNext
    PROVE  /\ IInv'
           /\ \/ UNCHANGED owned
              \/ \E s \in Live : /\ owned' = owned \cup {Block(s)}
                                 /\ \A j \in Used(region.allocations) :
                                       Pages(region.allocations[j]) \cap Pages(s) = {}
              \/ \E o \in owned : owned' = owned \ {o}
  <1> DEFINE table == region.allocations
             al == region.allocator
             b == al.bitmap
  <1>1. /\ table \in Tables /\ al \in Allocators /\ b \in Bitmaps
        /\ Apart(table) /\ BitsOf(table, b) /\ Recorded(table, owned)
    BY Zenon DEF IInv, Allocators
  <1>2. ASSUME NEW m \in Bitmaps
        PROVE  [al EXCEPT !.bitmap = m] \in Allocators /\ [al EXCEPT !.bitmap = m].bitmap = m
    <2> HIDE DEF al
    <2> QED
      BY <1>1, <1>2, Zenon DEF Allocators
  <1>3. ASSUME NEW m \in Bitmaps, NEW t \in Tables, NEW held,
               Apart(t), BitsOf(t, m), Recorded(t, held),
               region' = [allocator |-> [al EXCEPT !.bitmap = m], allocations |-> t],
               owned' = held
        PROVE  IInv'
    <2>1. region' \in [allocator : Allocators, allocations : Tables]
      BY <1>2, <1>3, Zenon
    <2>2. region'.allocations = t /\ region'.allocator.bitmap = m
      <3>1. region'.allocations = t /\ region'.allocator = [al EXCEPT !.bitmap = m]
        BY <1>3, Zenon
      <3> QED
        BY <1>2, <3>1, Zenon
    <2>3. Apart(region'.allocations) /\ BitsOf(region'.allocations, region'.allocator.bitmap)
          /\ Recorded(region'.allocations, owned')
      BY <1>3, <2>2, Zenon
    <2> QED
      BY <2>1, <2>3, Zenon DEF IInv, Apart, BitsOf, Recorded, Used, Pages, Block, On, Page, NB, Bitmaps
  <1>4. ASSUME NEW n \in Counts, Alloc(n)
        PROVE  /\ IInv'
               /\ \/ UNCHANGED owned
                  \/ \E s \in Live : /\ owned' = owned \cup {Block(s)}
                                     /\ \A j \in Used(table) : Pages(table[j]) \cap Pages(s) = {}
    <2>1. n \in Nat \ {0}
      BY RegionAssumption, Zenon
    <2>2. /\ region' = region_alloc(region, n).r
          /\ owned' = owned \cup {[at |-> region_alloc(region, n).va[i], size |-> n] :
                                     i \in DOMAIN region_alloc(region, n).va}
      BY <1>4, Zenon DEF Alloc
    <2>3. CASE region_alloc(region, n) = [r |-> region, va |-> <<>>]
      <3>1. region_alloc(region, n).r = region /\ region_alloc(region, n).va = <<>>
        BY <2>3
      <3>2. region' = region
        BY <2>2, <3>1, Zenon
      <3>3. DOMAIN region_alloc(region, n).va = {}
        BY <3>1
      <3>4. owned' = owned
        <4> DEFINE add == {[at |-> region_alloc(region, n).va[i], size |-> n] :
                              i \in DOMAIN region_alloc(region, n).va}
        <4>1. add = {}
          BY <3>3, Zenon
        <4> HIDE DEF add
        <4>2. owned' = owned \cup add
          BY <2>2, Zenon DEF add
        <4> QED
          BY <4>1, <4>2, Zenon
      <3>5. IInv'
        BY <3>2, <3>4, Zenon DEF IInv, Apart, BitsOf, Recorded, Used, Pages, Block, On, Page, NB, Bitmaps
      <3> QED
        BY <3>4, <3>5, Zenon
    <2>4. ASSUME NEW i \in 1..NB, NEW pos \in Nat, table[i] = EmptySlot, pos + n <= PageCount,
                 \A q \in pos..(pos + n - 1) : ~On(b, q),
                 region_alloc(region, n) = AllocTo(n, i, pos)
          PROVE  /\ IInv'
                 /\ \E s \in Live : /\ owned' = owned \cup {Block(s)}
                                    /\ \A j \in Used(table) : Pages(table[j]) \cap Pages(s) = {}
      <3> DEFINE s == [va |-> Pool + pos, page_count |-> n]
                 new == [table EXCEPT ![i] = s]
                 m == SetPages(b, pos, n)
      <3>1. /\ region_alloc(region, n).r = [allocator |-> [al EXCEPT !.bitmap = SetPages(@, pos, n)],
                                            allocations |-> new]
            /\ region_alloc(region, n).va = <<Pool + pos>>
        BY <2>4 DEF AllocTo
      <3>2. /\ new \in Tables /\ Apart(new) /\ BitsOf(new, m) /\ Recorded(new, owned \cup {Block(s)})
            /\ \A j \in Used(table) : Pages(table[j]) \cap Pages(s) = {}
            /\ s \in Live
        <4> HIDE DEF table, b
        <4> QED
          BY <1>1, <2>1, <2>4, AddSlot, Zenon
      <3>3. m \in Bitmaps
        BY <1>1, <2>1, <2>4, SetRun, Zenon
      <3>4. region' = [allocator |-> [al EXCEPT !.bitmap = m], allocations |-> new]
        BY <2>2, <3>1, Zenon
      <3>5. owned' = owned \cup {Block(s)}
        <4> DEFINE va == region_alloc(region, n).va
        <4> HIDE DEF va
        <4>1. va = <<Pool + pos>>
          BY <3>1, Zenon DEF va
        <4>2. {[at |-> va[k], size |-> n] : k \in DOMAIN va} = {Block(s)}
          BY <4>1 DEF Block
        <4> QED
          BY <2>2, <4>2, Zenon DEF va
      <3>7. IInv'
        <4> HIDE DEF s, new, m
        <4> QED
          BY <1>3, <3>2, <3>3, <3>4, <3>5, Zenon
      <3> QED
        <4> HIDE DEF s
        <4> QED
          BY <3>2, <3>5, <3>7, Zenon
    <2> QED
      BY <2>1, <2>3, <2>4, AllocResult, Zenon
  <1>5. ASSUME NEW o \in owned, Release(o) PROVE IInv' /\ owned' = owned \ {o}
    <2>1. region' = region_free(region, o.at) /\ owned' = owned \ {o}
      BY <1>5, Zenon DEF Release
    <2>2. PICK i \in Used(table) : o = Block(table[i]) /\ region_free(region, o.at) = FreeAt(i)
      BY FreeResult, Zenon
    <2> DEFINE new == [table EXCEPT ![i] = EmptySlot]
               m == ClearPages(b, table[i].va - Pool, table[i].page_count)
    <2>3. /\ new \in Tables /\ Apart(new) /\ BitsOf(new, m) /\ m \in Bitmaps
          /\ Recorded(new, owned \ {Block(table[i])})
      <3> HIDE DEF table, b
      <3> QED
        BY <1>1, DropSlot, Zenon
    <2>4. region' = [allocator |-> [al EXCEPT !.bitmap = m], allocations |-> new]
      BY <2>1, <2>2, Zenon DEF FreeAt
    <2>5. owned' = owned \ {Block(table[i])}
      BY <2>1, <2>2, Zenon
    <2> HIDE DEF new, m
    <2>6. IInv'
      BY <1>3, <2>3, <2>4, <2>5, Zenon
    <2> QED
      BY <2>1, <2>6, Zenon
  <1> QED
    BY <1>4, <1>5, Zenon DEF RegionNext

(* A region whose storage is cleared. *)
LEMMA InitInv == RegionInit => IInv
  <1> SUFFICES ASSUME RegionInit PROVE IInv
    OBVIOUS
  <1> DEFINE table == [i \in 1..NB |-> EmptySlot]
             bits == [k \in 0..NB - 1 |-> {}]
  <1>1. region = [allocator |-> [bitmap |-> bits, page_count |-> PageCount, pool |-> Pool, ok |-> TRUE],
                  allocations |-> table] /\ owned = {}
    BY Zenon DEF RegionInit, region_init, ClearedBitmap, AllocationsSize, NB
  <1>2. bits \in Bitmaps /\ table \in Tables
    BY Zenon DEF Bitmaps, Tables
  <1>3. Used(table) = {}
    BY Zenon DEF Used
  <1>4. \A p \in Page : ~On(bits, p)
    BY ByteOf, Zenon DEF On
  <1> HIDE DEF bits, table
  <1>5. region.allocations = table /\ region.allocator.bitmap = bits
    BY <1>1, Zenon
  <1>6. region \in [allocator : Allocators, allocations : Tables]
    BY <1>1, <1>2, Zenon DEF Allocators
  <1>7. Apart(table) /\ BitsOf(table, bits) /\ Recorded(table, owned)
    BY <1>1, <1>3, <1>4, Zenon DEF Apart, BitsOf, Recorded
  <1> QED
    BY <1>5, <1>6, <1>7, Zenon DEF IInv

(* The inductive invariant holds of every run of calls.                    *)
THEOREM Invariance == RegionSpec => []IInv
  <1>1. IInv /\ [RegionNext]_regionVars => IInv'
    <2> SUFFICES ASSUME IInv, [RegionNext]_regionVars PROVE IInv'
      OBVIOUS
    <2>1. CASE RegionNext
      BY <2>1, StepResult, Zenon
    <2>2. CASE UNCHANGED regionVars
      BY <2>2, Zenon DEF regionVars, IInv, Apart, BitsOf, Recorded, Used, Pages, Block, On, Page, NB, Bitmaps
    <2> QED
      BY <2>1, <2>2, Zenon
  <1> QED
    BY <1>1, InitInv, PTL DEF RegionSpec

(* The slots of the invariant are the Slots of the properties. *)
LEMMA SlotsUsed ==
    ASSUME IInv
    PROVE  \A s : s \in Slots <=> \E i \in Used(region.allocations) : s = region.allocations[i]
  <1>1. DOMAIN region.allocations = 1..NB
    BY Zenon DEF IInv, Tables
  <1> QED
    BY <1>1, Zenon DEF Slots, Used

(* The bitmap has bits of bytes only, and slots hold runs of pages of the  *)
(* region, for every size of region and byte.                              *)
THEOREM RegionTypeCorrect == RegionSpec => []RegionTypeOK
  <1>1. IInv => RegionTypeOK
    <2> SUFFICES ASSUME IInv PROVE RegionTypeOK
      OBVIOUS
    <2>1. region.allocator.bitmap \in Bitmaps /\ region.allocations \in Tables
      BY Zenon DEF IInv, Allocators
    <2>2. ASSUME NEW s \in Slots
          PROVE  s \in [va : Pool..(Pool + PageCount - 1), page_count : 1..PageCount]
      <3>1. s \in Live
        <4>1. PICK i \in Used(region.allocations) : s = region.allocations[i]
          BY SlotsUsed, Zenon
        <4>2. region.allocations[i] \in Live
          BY <2>1, SlotFacts, Zenon
        <4> QED
          BY <4>1, <4>2, Zenon
      <3> QED
        BY <3>1, RegionAssumption DEF Live
    <2>3. \A k \in DOMAIN region.allocator.bitmap : region.allocator.bitmap[k] \subseteq 0..BITS - 1
      BY <2>1, Zenon DEF Bitmaps
    <2> QED
      BY <2>2, <2>3, Zenon DEF RegionTypeOK
  <1> QED
    BY <1>1, Invariance, PTL

(* Bits, slots and what the callers hold agree, for every size of region   *)
(* and byte: no page is leaked, and none is freed with a neighbour.        *)
THEOREM Agreement == RegionSpec => []BitsMatchSlots
  <1>1. IInv => BitsMatchSlots
    <2> SUFFICES ASSUME IInv PROVE BitsMatchSlots
      OBVIOUS
    <2> DEFINE table == region.allocations
               al == region.allocator
    <2>1. /\ table \in Tables /\ al.page_count = PageCount /\ Recorded(table, owned)
          /\ BitsOf(table, al.bitmap)
      BY Zenon DEF IInv, Allocators
    <2>2. \A i \in Used(table) : /\ Block(table[i]).at = table[i].va
                                 /\ Block(table[i]).size = table[i].page_count
      BY Zenon DEF Block
    <2>3. \A i \in Used(table) : table[i] = [va |-> table[i].va, page_count |-> table[i].page_count]
      BY <2>1, SlotFacts, Zenon
    <2>4. Slots = {[va |-> o.at, page_count |-> o.size] : o \in owned}
      <3>1. ASSUME NEW s \in Slots PROVE \E o \in owned : s = [va |-> o.at, page_count |-> o.size]
        <4>1. PICK i \in Used(table) : s = table[i]
          BY SlotsUsed, Zenon
        <4>2. Block(table[i]) \in owned
          BY <2>1, Zenon DEF Recorded
        <4>3. s = [va |-> Block(table[i]).at, page_count |-> Block(table[i]).size]
          BY <2>2, <2>3, <4>1, Zenon
        <4> QED
          BY <4>2, <4>3, Zenon
      <3>2. ASSUME NEW o \in owned PROVE [va |-> o.at, page_count |-> o.size] \in Slots
        <4>1. PICK i \in Used(table) : o = Block(table[i])
          BY <2>1, Zenon DEF Recorded
        <4>2. [va |-> o.at, page_count |-> o.size] = table[i]
          BY <2>2, <2>3, <4>1, Zenon
        <4> QED
          BY <4>2, SlotsUsed, Zenon
      <3> QED
        BY <3>1, <3>2, Zenon
    <2>5. {p + Pool : p \in AllocatedPages(al)} = UNION {o.at..(o.at + o.size - 1) : o \in owned}
      <3>1. ASSUME NEW p \in AllocatedPages(al) PROVE \E o \in owned : p + Pool \in o.at..(o.at + o.size - 1)
        <4>1. p \in Page /\ On(al.bitmap, p)
          BY <2>1, <3>1, Zenon DEF AllocatedPages, Page, On, bm_get_page_allocated
        <4>2. PICK i \in Used(table) : Pool + p \in Pages(table[i])
          BY <2>1, <4>1, Zenon DEF BitsOf
        <4>3. Block(table[i]) \in owned
          BY <2>1, Zenon DEF Recorded
        <4>4. Pool + p = p + Pool
          BY <4>1, RegionAssumption DEF Page
        <4>5. p + Pool \in Block(table[i]).at..(Block(table[i]).at + Block(table[i]).size - 1)
          BY <2>2, <4>2, <4>4, Zenon DEF Pages
        <4> QED
          BY <4>3, <4>5, Zenon
      <3>2. ASSUME NEW o \in owned, NEW x \in o.at..(o.at + o.size - 1)
            PROVE  \E p \in AllocatedPages(al) : x = p + Pool
        <4>1. PICK i \in Used(table) : o = Block(table[i])
          BY <2>1, Zenon DEF Recorded
        <4>2. x \in Pages(table[i])
          BY <2>2, <4>1, Zenon DEF Pages
        <4>3. x - Pool \in Page /\ Pool + (x - Pool) = x /\ x = (x - Pool) + Pool
          <5>1. /\ table[i].va \in Nat /\ table[i].page_count \in Nat \ {0}
                /\ table[i].va - Pool \in Nat /\ (table[i].va - Pool) + table[i].page_count <= PageCount
            BY <2>1, SlotFacts, Zenon
          <5> HIDE DEF table
          <5> QED
            BY <4>2, <5>1, RegionAssumption DEF Pages, Page
        <4>4. On(al.bitmap, x - Pool)
          BY <2>1, <4>2, <4>3, Zenon DEF BitsOf
        <4>5. x - Pool \in AllocatedPages(al)
          BY <2>1, <4>3, <4>4, Zenon DEF AllocatedPages, Page, On, bm_get_page_allocated
        <4> QED
          BY <4>3, <4>5, Zenon
      <3> DEFINE left == {p + Pool : p \in AllocatedPages(al)}
                 right == UNION {o.at..(o.at + o.size - 1) : o \in owned}
      <3>3. ASSUME NEW x \in left PROVE x \in right
        <4>1. PICK p \in AllocatedPages(al) : x = p + Pool
          BY Zenon
        <4> QED
          BY <3>1, <4>1, Zenon
      <3>4. ASSUME NEW x \in right PROVE x \in left
        <4>1. PICK o \in owned : x \in o.at..(o.at + o.size - 1)
          BY Zenon
        <4> QED
          BY <3>2, <4>1, Zenon
      <3> HIDE DEF left, right
      <3>5. left = right
        BY <3>3, <3>4, Zenon
      <3> QED
        BY <3>5, Zenon DEF left, right
    <2> QED
      BY <2>4, <2>5, Zenon DEF BitsMatchSlots
  <1> QED
    BY <1>1, Invariance, PTL

(* The search of bm_find_n_free_pages, which goes on behind the page that  *)
(* stops it, finds the lowest run of free pages.                           *)
THEOREM FirstFit == RegionSpec => []SearchIsFirstFit
  <1>1. IInv => SearchIsFirstFit
    <2> SUFFICES ASSUME IInv PROVE SearchIsFirstFit
      OBVIOUS
    <2> DEFINE al == region.allocator
               runs(n) == {s \in 0..al.page_count - n : s..(s + n - 1) \cap AllocatedPages(al) = {}}
    <2>1. al.page_count = PageCount /\ PageCount \in Nat
      BY RegionAssumption, Zenon DEF IInv, Allocators
    <2>2. ASSUME NEW n \in 1..PageCount
          PROVE  LET s == bm_find_n_free_pages(al, n)
                 IN  IF runs(n) = {} THEN s = PageCount
                     ELSE s \in runs(n) /\ \A t \in runs(n) : s <= t
      <3> DEFINE s == bm_find_n_free_pages(al, n)
      <3>1. n \in Nat \ {0} /\ IsFirst(s, Marked(al), PageCount, n, 0)
        <4>1. n \in Nat \ {0}
          BY <2>1
        <4> QED
          BY <2>1, <4>1, FindSpec, Zenon
      <3>2. ASSUME NEW t \in Nat PROVE Run(t, Marked(al), PageCount, n) <=> t \in runs(n)
        <4>1. t + n <= PageCount <=> t \in 0..PageCount - n
          BY <2>1
        <4>2. ASSUME t + n <= PageCount
              PROVE  Taken(Marked(al), n, t) = {} <=> t..(t + n - 1) \cap AllocatedPages(al) = {}
          <5>1. ASSUME NEW i \in Taken(Marked(al), n, t)
                PROVE  t + i \in t..(t + n - 1) \cap AllocatedPages(al)
            <6>1. i \in 0..n - 1 /\ t + i \in Marked(al)
              BY Zenon DEF Taken
            <6>2. t + i \in t..(t + n - 1) /\ t + i \in 0..PageCount - 1
              BY <2>1, <4>2, <6>1
            <6>3. t + i \in AllocatedPages(al)
              BY <2>1, <6>1, <6>2, Zenon DEF AllocatedPages, Marked
            <6> QED
              BY <6>2, <6>3, Zenon
          <5>2. ASSUME NEW q \in t..(t + n - 1), q \in AllocatedPages(al)
                PROVE  q - t \in Taken(Marked(al), n, t)
            <6>1. q \in Nat /\ q - t \in 0..n - 1 /\ t + (q - t) = q
              BY <2>1
            <6>2. q \in Marked(al)
              BY <5>2, <6>1, Zenon DEF AllocatedPages, Marked
            <6> QED
              BY <6>1, <6>2, Zenon DEF Taken
          <5> QED
            BY <5>1, <5>2, Zenon
        <4> QED
          BY <2>1, <4>1, <4>2, Zenon DEF Run
      <3>3. \A t \in runs(n) : t \in Nat /\ t >= 0
        BY <2>1
      <3> HIDE DEF runs, s
      <3>4. CASE s = PageCount /\ \A t \in Nat : t >= 0 => ~Run(t, Marked(al), PageCount, n)
        <4>1. runs(n) = {}
          BY <3>2, <3>3, <3>4, Zenon
        <4> QED
          BY <3>4, <4>1, Zenon DEF s
      <3>5. CASE /\ s \in Nat /\ s >= 0 /\ Run(s, Marked(al), PageCount, n)
                 /\ \A t \in Nat : t >= 0 /\ t < s => ~Run(t, Marked(al), PageCount, n)
        <4>1. s \in runs(n)
          BY <3>2, <3>5, Zenon
        <4>2. ASSUME NEW t \in runs(n) PROVE s <= t
          <5>1. t \in Nat /\ t >= 0 /\ Run(t, Marked(al), PageCount, n)
            BY <3>2, <3>3, Zenon
          <5>2. ~(t < s)
            BY <3>5, <5>1, Zenon
          <5> QED
            BY <3>5, <5>1, <5>2
        <4> QED
          BY <4>1, <4>2, Zenon DEF s
      <3> QED
        BY <3>1, <3>4, <3>5, Zenon DEF IsFirst
    <2> HIDE DEF al
    <2> QED
      BY <2>1, <2>2, Zenon DEF SearchIsFirstFit, al
  <1> QED
    BY <1>1, Invariance, PTL

(* Callers that free what they were given trip no ASSERT and no panic.     *)
THEOREM NeverStops == RegionSpec => []NoPanic
  <1>1. IInv => NoPanic
    BY Zenon DEF IInv, Allocators, NoPanic
  <1> QED
    BY <1>1, Invariance, PTL

(* The region implements disjoint ranges: every call that allocates gives  *)
(* pages of the region that nobody holds.                                  *)
THEOREM RegionRefinement == RegionSpec => ImplementsRanges
  <1>1. RegionInit => Ranges!Init
    BY Zenon DEF RegionInit, Ranges!Init
  <1>2. IInv /\ [RegionNext]_regionVars => [Ranges!Next]_<<Pool..(Pool + PageCount - 1), owned>>
    <2> SUFFICES ASSUME IInv, [RegionNext]_regionVars, owned' # owned PROVE Ranges!Next
      BY RegionAssumption, Zenon
    <2> DEFINE table == region.allocations
    <2>1. RegionNext
      BY Zenon DEF regionVars
    <2>2. table \in Tables /\ Recorded(table, owned)
      BY Zenon DEF IInv
    <2>3. ASSUME NEW s \in Live, owned' = owned \cup {Block(s)},
                 \A j \in Used(table) : Pages(table[j]) \cap Pages(s) = {}
          PROVE  Ranges!Next
      <3>1. /\ Block(s).at = s.va /\ Block(s).size = s.page_count
            /\ Ranges!Bytes(Block(s)) = Pages(s)
            /\ Block(s).size > 0 /\ Pages(s) \subseteq Pool..(Pool + PageCount - 1)
        BY RegionAssumption DEF Block, Ranges!Bytes, Pages, Live
      <3>2. \A o \in owned : Ranges!Bytes(o) \cap Ranges!Bytes(Block(s)) = {}
        <4>1. \A j \in Used(table) : Ranges!Bytes(Block(table[j])) = Pages(table[j])
          BY Zenon DEF Block, Ranges!Bytes, Pages
        <4> QED
          BY <2>2, <2>3, <3>1, <4>1, Zenon DEF Recorded
      <3>3. Block(s) \in owned' \ owned
        BY <2>3, Zenon
      <3>4. Ranges!Alloc(Block(s))
        BY <2>3, <3>1, <3>2, Zenon DEF Ranges!Alloc
      <3> QED
        BY <3>3, <3>4, Zenon DEF Ranges!Next
    <2>4. ASSUME NEW o \in owned, owned' = owned \ {o} PROVE Ranges!Next
      <3>1. Ranges!Free(o)
        BY <2>4, Zenon DEF Ranges!Free
      <3> QED
        BY <3>1, Zenon DEF Ranges!Next
    <2> QED
      BY <2>1, <2>3, <2>4, StepResult, Zenon
  <1> QED
    BY <1>1, <1>2, Invariance, PTL DEF RegionSpec, ImplementsRanges, Ranges!Spec


-----------------------------------------------------------------------------
(* The output arenas. *)

(* The console, and the states its calls work on. *)
Arenas(n) == [count : 0..n, capacity : {n}]
Records == [msg : Nat, len : Nat]
Msgs == Seq(Nat)
Consoles == [backends : Seq(Backends), enable_buffering : BOOLEAN,
             io_events : Arenas(EventCount), events : Seq(Records),
             io_messages : Arenas(MsgSize), pool : [1..MsgSize -> Nat]]
States == [c : Consoles, out : [Backends -> Seq(Msgs)], failed : Seq(Msgs)]

(* The records the event arena counts lie in the bytes the message arena   *)
(* counts.                                                                 *)
Sound(c) ==
    /\ c \in Consoles /\ c.io_events.count <= Len(c.events)
    /\ \A i \in 1..c.io_events.count : c.events[i].msg + c.events[i].len <= c.io_messages.count
    /\ (c.io_events.count = 0 => c.io_messages.count = 0)

(* Places of an interval of the pool. *)
LEMMA Places ==
    ASSUME NEW m \in Nat, NEW n \in Nat, NEW N \in Nat
    PROVE  /\ \A i \in m + 1 .. m + n : i - m \in 1..n
           /\ \A j \in 1..n : m + j \in m + 1 .. m + n /\ (m + j) - m = j
           /\ m + n <= N => \A j \in 1..n : m + j \in 1..N
  OBVIOUS

(* What ends by N ends by any later place, and has no place behind N. *)
LEMMA Beyond ==
    ASSUME NEW m \in Nat, NEW n \in Nat, NEW N \in Nat, m + n <= N, NEW k \in Nat
    PROVE  m + n <= N + k /\ \A j \in 1..n : m + j \notin N + 1 .. N + k
  OBVIOUS

(* Sequences that agree in every place. *)
LEMMA SameSeq ==
    ASSUME NEW S, NEW a \in Seq(S), NEW b \in Seq(S), Len(a) = Len(b),
           \A i \in 1..Len(a) : a[i] = b[i]
    PROVE  a = b
  OBVIOUS

(* A place of the message pool, and what is read there. *)
LEMMA TextIs ==
    ASSUME NEW p \in [1..MsgSize -> Nat], NEW m \in Nat, NEW n \in Nat, m + n <= MsgSize
    PROVE  /\ SubSeq(p, m + 1, m + n) \in Msgs /\ Len(SubSeq(p, m + 1, m + n)) = n
           /\ \A j \in 1..n : SubSeq(p, m + 1, m + n)[j] = p[m + j]
  <1>1. MsgSize \in Nat
    BY OutputAssumption
  <1>2. p \in Seq(Nat) /\ Len(p) = MsgSize
    BY <1>1
  <1> QED
    BY <1>1, <1>2 DEF Msgs

(* The fields of a console. *)
LEMMA Fields ==
    ASSUME NEW c, Sound(c)
    PROVE  /\ c \in Consoles /\ MsgSize \in Nat /\ EventCount \in Nat /\ EventCount > 0
           /\ c.io_events \in Arenas(EventCount) /\ c.io_messages \in Arenas(MsgSize)
           /\ c.io_events.count \in Nat /\ c.io_events.count <= EventCount
           /\ c.io_events.capacity = EventCount
           /\ c.io_messages.count \in Nat /\ c.io_messages.count <= MsgSize
           /\ c.io_messages.capacity = MsgSize
           /\ c.pool \in [1..MsgSize -> Nat] /\ c.events \in Seq(Records)
           /\ c.backends \in Seq(Backends) /\ c.enable_buffering \in BOOLEAN
  BY OutputAssumption DEF Sound, Consoles, Arenas

(* The message of a buffered event. *)
LEMMA EventText ==
    ASSUME NEW c, Sound(c), NEW i \in 1..c.io_events.count
    PROVE  /\ c.events[i] \in Records /\ c.events[i].msg \in Nat /\ c.events[i].len \in Nat
           /\ c.events[i].msg + c.events[i].len <= c.io_messages.count
           /\ Text(c, c.events[i]) \in Msgs /\ Len(Text(c, c.events[i])) = c.events[i].len
           /\ \A j \in 1..c.events[i].len : Text(c, c.events[i])[j] = c.pool[c.events[i].msg + j]
  <1>1. /\ c.io_events.count \in Nat /\ c.io_messages.count \in Nat /\ c.io_messages.count <= MsgSize
        /\ c.pool \in [1..MsgSize -> Nat] /\ c.events \in Seq(Records) /\ MsgSize \in Nat
    BY Fields
  <1>2. c.io_events.count <= Len(c.events) /\ c.events[i].msg + c.events[i].len <= c.io_messages.count
    BY Zenon DEF Sound
  <1>3. c.events[i] \in Records
    BY <1>1, <1>2
  <1> DEFINE m == c.events[i].msg
             n == c.events[i].len
  <1>4. m \in Nat /\ n \in Nat
    BY <1>3 DEF Records
  <1>5. m + n <= MsgSize
    BY <1>1, <1>2, <1>4
  <1>6. /\ SubSeq(c.pool, m + 1, m + n) \in Msgs /\ Len(SubSeq(c.pool, m + 1, m + n)) = n
        /\ \A j \in 1..n : SubSeq(c.pool, m + 1, m + n)[j] = c.pool[m + j]
    BY <1>1, <1>4, <1>5, TextIs, Zenon
  <1> QED
    BY <1>2, <1>3, <1>4, <1>6, Zenon DEF Text

(* The buffered messages. *)
LEMMA PendingIs ==
    ASSUME NEW c, Sound(c)
    PROVE  /\ Pending(c) \in Seq(Msgs) /\ Len(Pending(c)) = c.io_events.count
           /\ \A i \in 1..c.io_events.count : Pending(c)[i] = Text(c, c.events[i])
  <1>1. c.io_events.count \in Nat
    BY Fields
  <1>2. \A i \in 1..c.io_events.count : Text(c, c.events[i]) \in Msgs
    BY EventText, Zenon
  <1> QED
    BY <1>1, <1>2 DEF Pending

(* A message copied behind those in the pool. *)
Copied(c, e) ==
    [i \in 1..MsgSize |->
        IF i \in c.io_messages.count + 1 .. c.io_messages.count + Len(e)
        THEN e[i - c.io_messages.count] ELSE c.pool[i]]

(* The bytes of the message arena after an allocation. *)
Grown(a, n) == [a EXCEPT !.count = @ + n]

(* The console after the copy. *)
WithMessage(c, e) ==
    [c EXCEPT !.io_messages = Grown(c.io_messages, Len(e)), !.pool = Copied(c, e)]

(* The console with the event's record, too. *)
WithEvent(c, e) ==
    [WithMessage(c, e) EXCEPT !.io_events = Grown(c.io_events, 1),
        !.events = Append(SubSeq(@, 1, c.io_events.count), [msg |-> c.io_messages.count, len |-> Len(e)])]

(* What is left of an arena. *)
LEMMA RoomIs ==
    \A c, k, n \in Nat : (n < c + k <=> n - c < k) /\ (c <= n => (c = n <=> n - c < 1))
  OBVIOUS

(* The three ways through write_event. *)
LEMMA WriteEventIs ==
    ASSUME NEW s \in States, Sound(s.c), NEW e \in Msgs
    PROVE  /\ MsgSize < s.c.io_messages.count + Len(e) =>
                write_event(s, e) = [s EXCEPT !.failed = <<e>>]
           /\ ~(MsgSize < s.c.io_messages.count + Len(e)) /\ s.c.io_events.count = EventCount =>
                write_event(s, e) = [s EXCEPT !.c = WithMessage(s.c, e), !.failed = <<e>>]
           /\ ~(MsgSize < s.c.io_messages.count + Len(e)) /\ s.c.io_events.count # EventCount =>
                write_event(s, e) = [s EXCEPT !.c = WithEvent(s.c, e)]
  <1> DEFINE m == s.c.io_messages
             v == s.c.io_events
             d == WithMessage(s.c, e)
  <1>1. /\ m.count \in Nat /\ m.capacity = MsgSize /\ v.count \in Nat /\ v.capacity = EventCount
        /\ v.count <= EventCount /\ EventCount \in Nat /\ MsgSize \in Nat /\ s.c \in Consoles
    BY Fields
  <1>2. Len(e) \in Nat
    BY DEF Msgs
  <1>3. /\ MsgSize < m.count + Len(e) <=> arena_left(m) < Len(e)
        /\ v.count = EventCount <=> arena_left(v) < 1
    <2>1. arena_left(m) = MsgSize - m.count /\ arena_left(v) = EventCount - v.count
      BY <1>1, Zenon DEF arena_left
    <2>2. /\ MsgSize < m.count + Len(e) <=> MsgSize - m.count < Len(e)
          /\ v.count = EventCount <=> EventCount - v.count < 1
      <3> HIDE DEF m, v
      <3> QED
        BY ONLY <1>1, <1>2, RoomIs
    <2> QED
      BY ONLY <2>1, <2>2, Zenon
  <1>4. /\ MsgSize < m.count + Len(e) => arena_alloc(m, Len(e)) = [a |-> m, at |-> ERR]
        /\ ~(MsgSize < m.count + Len(e)) => arena_alloc(m, Len(e)) = [a |-> Grown(m, Len(e)), at |-> m.count]
        /\ v.count = EventCount => arena_alloc(v, 1) = [a |-> v, at |-> ERR]
        /\ v.count # EventCount => arena_alloc(v, 1) = [a |-> Grown(v, 1), at |-> v.count]
    BY <1>3, Zenon DEF arena_alloc, Grown
  <1>5. m.count # ERR /\ v.count # ERR
    BY <1>1 DEF ERR
  <1>6. CASE MsgSize < m.count + Len(e)
    <2>1. arena_alloc(m, Len(e)).at = ERR
      BY <1>4, <1>6
    <2> QED
      BY <1>6, <2>1, Zenon DEF write_event
  <1>7. ASSUME ~(MsgSize < m.count + Len(e)) 
        PROVE  /\ arena_alloc(m, Len(e)).at # ERR
               /\ [s.c EXCEPT !.io_messages = arena_alloc(m, Len(e)).a,
                     !.pool = [i \in 1..MsgSize |->
                                 IF i \in arena_alloc(m, Len(e)).at + 1 .. arena_alloc(m, Len(e)).at + Len(e)
                                 THEN e[i - arena_alloc(m, Len(e)).at] ELSE @[i]]] = d
               /\ d.io_events = v
    <2>1. arena_alloc(m, Len(e)).at = m.count /\ arena_alloc(m, Len(e)).a = Grown(m, Len(e))
      BY <1>4, <1>7
    <2>2. d.io_events = v
      BY <1>1 DEF Consoles, WithMessage
    <2> QED
      BY <1>5, <2>1, <2>2, Zenon DEF Copied, WithMessage
  <1>8. CASE ~(MsgSize < m.count + Len(e)) /\ v.count = EventCount
    <2>1. arena_alloc(v, 1).at = ERR
      BY <1>4, <1>8
    <2> HIDE DEF d
    <2>2. write_event(s, e) = [s EXCEPT !.c = d, !.failed = <<e>>]
      BY <1>7, <1>8, <2>1, Zenon DEF write_event
    <2> QED
      BY <1>8, <2>2, Zenon DEF d
  <1>9. CASE ~(MsgSize < m.count + Len(e)) /\ v.count # EventCount
    <2>1. arena_alloc(v, 1).at = v.count /\ arena_alloc(v, 1).a = Grown(v, 1)
      BY <1>4, <1>9
    <2>2. arena_alloc(m, Len(e)).at = m.count
      BY <1>4, <1>9
    <2> HIDE DEF d
    <2>3. write_event(s, e) =
             [s EXCEPT !.c = [d EXCEPT !.io_events = Grown(v, 1),
                !.events = Append(SubSeq(@, 1, v.count), [msg |-> m.count, len |-> Len(e)])]]
      BY <1>5, <1>7, <1>9, <2>1, <2>2, Zenon DEF write_event
    <2> QED
      BY <1>9, <2>3, Zenon DEF d, WithEvent
  <1> QED
    BY <1>6, <1>8, <1>9, Zenon

(* The fields after a copy that fits. *)
LEMMA MessageFields ==
    ASSUME NEW c, Sound(c), NEW e \in Msgs, ~(MsgSize < c.io_messages.count + Len(e)),
           NEW d, d = WithMessage(c, e)
    PROVE  /\ d \in Consoles /\ d.io_messages.count = c.io_messages.count + Len(e)
           /\ d.io_events = c.io_events /\ d.events = c.events /\ d.backends = c.backends
           /\ d.enable_buffering = c.enable_buffering /\ d.pool = Copied(c, e)
  <1>1. /\ c \in Consoles /\ MsgSize \in Nat
        /\ c.io_messages \in Arenas(MsgSize) /\ c.io_messages.count \in Nat
        /\ c.pool \in [1..MsgSize -> Nat]
    BY Fields
  <1>2. Len(e) \in Nat /\ \A i \in 1..Len(e) : e[i] \in Nat
    BY DEF Msgs
  <1>3. /\ Grown(c.io_messages, Len(e)) \in Arenas(MsgSize)
        /\ Grown(c.io_messages, Len(e)).count = c.io_messages.count + Len(e)
    BY <1>1, <1>2 DEF Grown, Arenas
  <1>4. Copied(c, e) \in [1..MsgSize -> Nat]
    <2>1. ASSUME NEW i \in 1..MsgSize, i \in c.io_messages.count + 1 .. c.io_messages.count + Len(e)
          PROVE  i - c.io_messages.count \in 1..Len(e)
      BY <1>1, <1>2, <2>1, Places, Zenon
    <2> DEFINE x(i) == IF i \in c.io_messages.count + 1 .. c.io_messages.count + Len(e)
                       THEN e[i - c.io_messages.count] ELSE c.pool[i]
    <2>2. \A i \in 1..MsgSize : x(i) \in Nat
      BY <1>1, <1>2, <2>1, Zenon
    <2>3. [i \in 1..MsgSize |-> x(i)] \in [1..MsgSize -> Nat]
      BY <2>2, Zenon
    <2> QED
      BY <2>3, Zenon DEF Copied
  <1> QED
    BY <1>1, <1>3, <1>4, Zenon DEF Consoles, WithMessage

(* The fields with the event's record. *)
LEMMA EventFields ==
    ASSUME NEW c, Sound(c), NEW e \in Msgs, ~(MsgSize < c.io_messages.count + Len(e)),
           c.io_events.count # EventCount, NEW f, f = WithEvent(c, e)
    PROVE  /\ f \in Consoles /\ f.io_messages.count = c.io_messages.count + Len(e)
           /\ f.io_events.count = c.io_events.count + 1
           /\ f.events = Append(SubSeq(c.events, 1, c.io_events.count),
                                [msg |-> c.io_messages.count, len |-> Len(e)])
           /\ f.backends = c.backends
           /\ f.enable_buffering = c.enable_buffering /\ f.pool = Copied(c, e)
  <1> DEFINE d == WithMessage(c, e)
             h == [msg |-> c.io_messages.count, len |-> Len(e)]
             g == Append(SubSeq(c.events, 1, c.io_events.count), h)
  <1>1. /\ d \in Consoles /\ d.io_messages.count = c.io_messages.count + Len(e)
        /\ d.io_events = c.io_events /\ d.events = c.events /\ d.backends = c.backends
        /\ d.enable_buffering = c.enable_buffering /\ d.pool = Copied(c, e)
    BY MessageFields, Zenon
  <1>2. /\ c.io_events.count \in Nat /\ c.io_events.count <= EventCount /\ EventCount \in Nat
        /\ c.io_events \in Arenas(EventCount) /\ c.events \in Seq(Records)
        /\ c.io_messages.count \in Nat /\ c.io_events.count <= Len(c.events)
    BY Fields DEF Sound
  <1>3. h \in Records
    BY <1>2 DEF Records, Msgs
  <1>4. SubSeq(c.events, 1, c.io_events.count) \in Seq(Records)
    BY <1>2
  <1>5. g \in Seq(Records)
    BY <1>3, <1>4
  <1>6. /\ Grown(c.io_events, 1) \in Arenas(EventCount)
        /\ Grown(c.io_events, 1).count = c.io_events.count + 1
    BY <1>2 DEF Grown, Arenas
  <1>7. f = [d EXCEPT !.io_events = Grown(c.io_events, 1), !.events = g]
    BY <1>1, Zenon DEF WithEvent
  <1> HIDE DEF d, g
  <1>8. /\ f \in Consoles /\ f.io_messages = d.io_messages /\ f.io_events = Grown(c.io_events, 1)
        /\ f.events = g /\ f.backends = d.backends /\ f.enable_buffering = d.enable_buffering
        /\ f.pool = d.pool
    BY ONLY <1>1, <1>5, <1>6, <1>7, Zenon DEF Consoles
  <1> QED
    BY <1>1, <1>6, <1>8, Zenon DEF g

(* The records that were there and the new one. *)
LEMMA RecordsKept ==
    ASSUME NEW k \in Nat, NEW q \in Seq(Records), k <= Len(q), NEW h \in Records,
           NEW g, g = Append(SubSeq(q, 1, k), h)
    PROVE  Len(g) = k + 1 /\ g[k + 1] = h /\ \A i \in 1..k : g[i] = q[i]
  <1>1. /\ SubSeq(q, 1, k) \in Seq(Records) /\ Len(SubSeq(q, 1, k)) = k
        /\ \A i \in 1..k : SubSeq(q, 1, k)[i] = q[i]
    OBVIOUS
  <1> QED
    BY <1>1

(* Copying behind the messages leaves them as they are. *)
LEMMA TextKept ==
    ASSUME NEW c, Sound(c), NEW e \in Msgs, ~(MsgSize < c.io_messages.count + Len(e)),
           NEW f, f \in Consoles, f.pool = Copied(c, e),
           NEW i \in 1..c.io_events.count, f.events[i] = c.events[i]
    PROVE  Text(f, f.events[i]) = Text(c, c.events[i])
  <1> DEFINE m == c.events[i].msg
             n == c.events[i].len
             a == Text(c, c.events[i])
             b == Text(f, f.events[i])
  <1>1. /\ m \in Nat /\ n \in Nat /\ m + n <= c.io_messages.count
        /\ a \in Msgs /\ Len(a) = n /\ \A j \in 1..n : a[j] = c.pool[m + j]
    BY EventText, Zenon
  <1>2. c.io_messages.count \in Nat /\ c.io_messages.count <= MsgSize /\ MsgSize \in Nat
    BY Fields
  <1>3. f.pool \in [1..MsgSize -> Nat]
    BY ONLY f \in Consoles DEF Consoles
  <1>31. m + n <= MsgSize
    <2> HIDE DEF m, n, a
    <2> QED
      BY ONLY <1>1, <1>2
  <1>4. b = SubSeq(f.pool, m + 1, m + n)
    BY Zenon DEF Text
  <1> HIDE DEF a, b, m, n
  <1>5. b \in Msgs /\ Len(b) = n /\ \A j \in 1..n : b[j] = f.pool[m + j]
    BY ONLY <1>1, <1>3, <1>31, <1>4, TextIs, Zenon
  <1>6. ASSUME NEW j \in 1..n PROVE f.pool[m + j] = c.pool[m + j]
    <2>1. m + j \in 1..MsgSize
      BY ONLY <1>1, <1>2, <1>31, j \in 1..n, Places, Zenon
    <2>2. m + j \notin c.io_messages.count + 1 .. c.io_messages.count + Len(e)
      <3>1. Len(e) \in Nat
        BY DEF Msgs
      <3> QED
        BY ONLY <1>1, <1>2, <3>1, j \in 1..n, Beyond, Zenon
    <2> QED
      BY <2>1, <2>2, Zenon DEF Copied
  <1>7. a = b
    BY ONLY <1>1, <1>5, <1>6, SameSeq, Zenon DEF Msgs
  <1> QED
    BY <1>7, Zenon DEF a, b

(* What is read at the new record is the message written. *)
LEMMA TextAdded ==
    ASSUME NEW c, Sound(c), NEW e \in Msgs, ~(MsgSize < c.io_messages.count + Len(e)),
           NEW f, f \in Consoles, f.pool = Copied(c, e)
    PROVE  Text(f, [msg |-> c.io_messages.count, len |-> Len(e)]) = e
  <1> DEFINE m == c.io_messages.count
             b == Text(f, [msg |-> c.io_messages.count, len |-> Len(e)])
  <1>1. m \in Nat /\ m <= MsgSize /\ MsgSize \in Nat
    BY Fields
  <1>2. Len(e) \in Nat /\ e \in Seq(Nat)
    BY DEF Msgs
  <1>3. f.pool \in [1..MsgSize -> Nat]
    BY ONLY f \in Consoles DEF Consoles
  <1>4. b = SubSeq(f.pool, m + 1, m + Len(e))
    BY Zenon DEF Text
  <1> HIDE DEF b, m
  <1>31. m + Len(e) <= MsgSize
    BY <1>1, <1>2 DEF m
  <1>5. b \in Msgs /\ Len(b) = Len(e) /\ \A j \in 1..Len(e) : b[j] = f.pool[m + j]
    BY ONLY <1>1, <1>2, <1>3, <1>31, <1>4, TextIs, Zenon
  <1>6. ASSUME NEW j \in 1..Len(e) PROVE f.pool[m + j] = e[j]
    <2>1. m + j \in 1..MsgSize /\ m + j \in m + 1 .. m + Len(e) /\ (m + j) - m = j
      BY ONLY <1>1, <1>2, <1>31, j \in 1..Len(e), Places, Zenon
    <2>2. \A i \in 1..MsgSize :
             Copied(c, e)[i] = IF i \in m + 1 .. m + Len(e) THEN e[i - m] ELSE c.pool[i]
      BY ONLY Zenon DEF Copied, m
    <2>3. ASSUME NEW i \in 1..MsgSize, i \in m + 1 .. m + Len(e), i - m = j
          PROVE  Copied(c, e)[i] = e[j]
      BY <2>2, <2>3, Zenon
    <2>4. Copied(c, e)[m + j] = e[j]
      BY <2>1, <2>3, Zenon
    <2> QED
      BY ONLY <2>4, f.pool = Copied(c, e), Zenon
  <1>7. b = e
    BY ONLY <1>2, <1>5, <1>6, SameSeq, Zenon DEF Msgs
  <1> QED
    BY <1>7, Zenon DEF b

(* An event that fits is behind those buffered. *)
LEMMA Added ==
    ASSUME NEW c, Sound(c), NEW e \in Msgs, ~(MsgSize < c.io_messages.count + Len(e)),
           c.io_events.count # EventCount, NEW f, f = WithEvent(c, e)
    PROVE  Sound(f) /\ Pending(f) = Append(Pending(c), e)
  <1> DEFINE k == c.io_events.count
             h == [msg |-> c.io_messages.count, len |-> Len(e)]
  <1>1. /\ f \in Consoles /\ f.io_messages.count = c.io_messages.count + Len(e)
        /\ f.io_events.count = k + 1 /\ f.pool = Copied(c, e)
        /\ f.events = Append(SubSeq(c.events, 1, k), h)
    BY EventFields, Zenon
  <1>2. /\ k \in Nat /\ c.io_messages.count \in Nat /\ c.events \in Seq(Records)
        /\ k <= Len(c.events) /\ Len(e) \in Nat
    BY Fields DEF Sound, Msgs
  <1>3. h \in Records
    BY <1>2 DEF Records
  <1> HIDE DEF h
  <1>4. Len(f.events) = k + 1 /\ f.events[k + 1] = h /\ \A i \in 1..k : f.events[i] = c.events[i]
    BY ONLY <1>1, <1>2, <1>3, RecordsKept
  <1>5. \A i \in 1..k + 1 : i \in 1..k \/ i = k + 1
    BY <1>2
  <1>6. Sound(f)
    <2>1. ASSUME NEW i \in 1..k
          PROVE  f.events[i].msg + f.events[i].len <= c.io_messages.count + Len(e)
      <3>1. /\ c.events[i].msg \in Nat /\ c.events[i].len \in Nat
            /\ c.events[i].msg + c.events[i].len <= c.io_messages.count
        BY EventText, Zenon
      <3>2. c.events[i].msg + c.events[i].len <= c.io_messages.count + Len(e)
        BY ONLY <1>2, <3>1, Beyond, Zenon
      <3> QED
        BY <1>4, <3>2, Zenon
    <2>2. f.events[k + 1].msg + f.events[k + 1].len <= c.io_messages.count + Len(e)
      BY <1>2, <1>4 DEF h
    <2>3. \A i \in 1..k + 1 : f.events[i].msg + f.events[i].len <= c.io_messages.count + Len(e)
      BY <1>5, <2>1, <2>2, Zenon
    <2>4. k + 1 <= Len(f.events) /\ k + 1 # 0
      BY <1>2, <1>4
    <2> QED
      BY <1>1, <2>3, <2>4, Zenon DEF Sound
  <1>7. /\ Pending(f) \in Seq(Msgs) /\ Len(Pending(f)) = k + 1
        /\ \A i \in 1..k + 1 : Pending(f)[i] = Text(f, f.events[i])
    BY <1>1, <1>6, PendingIs, Zenon
  <1>8. /\ Pending(c) \in Seq(Msgs) /\ Len(Pending(c)) = k
        /\ \A i \in 1..k : Pending(c)[i] = Text(c, c.events[i])
    BY PendingIs
  <1>9. \A i \in 1..k : Pending(f)[i] = Pending(c)[i]
    <2>1. ASSUME NEW i \in 1..k PROVE Text(f, f.events[i]) = Text(c, c.events[i])
      BY <1>1, <1>4, TextKept, Zenon
    <2>2. \A i \in 1..k : i \in 1..k + 1
      BY <1>2
    <2> QED
      BY <1>7, <1>8, <2>1, <2>2, Zenon
  <1>10. Pending(f)[k + 1] = e
    <2>1. Text(f, h) = e
      BY <1>1, TextAdded, Zenon DEF h
    <2>2. k + 1 \in 1..k + 1
      BY <1>2, SMTT(30)
    <2> QED
      BY <1>4, <1>7, <2>1, <2>2, Zenon
  <1> HIDE DEF k
  <1>11. Pending(f) = Append(Pending(c), e)
    BY <1>2, <1>7, <1>8, <1>9, <1>10
  <1> QED
    BY <1>6, <1>11

(* Of these fields, the ones the buffer does not touch. *)
LEMMA EventConsole ==
    ASSUME NEW c, Sound(c), NEW e \in Msgs, ~(MsgSize < c.io_messages.count + Len(e)),
           c.io_events.count # EventCount
    PROVE  /\ WithEvent(c, e) \in Consoles /\ WithEvent(c, e).backends = c.backends
           /\ WithEvent(c, e).enable_buffering = c.enable_buffering
  BY EventFields, Zenon

(* write_event: the message is behind those buffered, or an arena was full *)
(* and its ASSERT failed.                                                  *)
LEMMA WriteEvent ==
    ASSUME NEW s \in States, Sound(s.c), s.failed = <<>>, NEW e \in Msgs,
           NEW r, r = write_event(s, e)
    PROVE  /\ r \in States /\ Sound(r.c) /\ r.out = s.out /\ r.c.backends = s.c.backends
           /\ r.c.enable_buffering = s.c.enable_buffering
           /\ \/ /\ r.failed = <<>> /\ Pending(r.c) = Append(Pending(s.c), e)
              \/ /\ r.failed = <<e>> /\ r.c.io_events.count = s.c.io_events.count
                 /\ \/ MsgSize < s.c.io_messages.count + Len(e)
                    \/ s.c.io_events.count = EventCount
  <1> DEFINE full == MsgSize < s.c.io_messages.count + Len(e)
  <1>1. /\ full => r = [s EXCEPT !.failed = <<e>>]
        /\ ~full /\ s.c.io_events.count = EventCount =>
                r = [s EXCEPT !.c = WithMessage(s.c, e), !.failed = <<e>>]
        /\ ~full /\ s.c.io_events.count # EventCount => r = [s EXCEPT !.c = WithEvent(s.c, e)]
    BY WriteEventIs, Zenon
  <1>2. <<e>> \in Seq(Msgs)
    OBVIOUS
  <1>3. CASE full
    <2>1. r \in States /\ r.c = s.c /\ r.out = s.out /\ r.failed = <<e>>
      BY ONLY <1>1, <1>2, <1>3, s \in States, Zenon DEF States
    <2> QED
      BY <1>3, <2>1, Zenon
  <1>4. CASE ~full /\ s.c.io_events.count = EventCount
    <2> DEFINE d == WithMessage(s.c, e)
    <2>0. ~(MsgSize < s.c.io_messages.count + Len(e))
      BY <1>4, Zenon
    <2>a. d = WithMessage(s.c, e)
      OBVIOUS
    <2> HIDE DEF d
    <2>1. /\ d \in Consoles /\ d.io_messages.count = s.c.io_messages.count + Len(e)
          /\ d.io_events = s.c.io_events /\ d.events = s.c.events /\ d.backends = s.c.backends
          /\ d.enable_buffering = s.c.enable_buffering
      BY ONLY <2>0, <2>a, Sound(s.c), e \in Msgs, MessageFields
    <2>2. r \in States /\ r.c = d /\ r.out = s.out /\ r.failed = <<e>>
      BY ONLY <1>1, <1>2, <1>4, <2>1, s \in States, Zenon DEF States, d
    <2>3. Sound(d)
      <3>1. /\ EventCount \in Nat /\ EventCount > 0 /\ s.c.io_events.count <= Len(s.c.events)
            /\ s.c.io_messages.count \in Nat /\ Len(e) \in Nat
        BY Fields DEF Sound, Msgs
      <3>2. ASSUME NEW i \in 1..s.c.io_events.count
            PROVE  s.c.events[i].msg + s.c.events[i].len <= s.c.io_messages.count + Len(e)
        <4>1. /\ s.c.events[i].msg \in Nat /\ s.c.events[i].len \in Nat
              /\ s.c.events[i].msg + s.c.events[i].len <= s.c.io_messages.count
          BY EventText, Zenon
        <4> QED
          BY ONLY <3>1, <4>1, Beyond, Zenon
      <3>3. s.c.io_events.count # 0
        BY ONLY <1>4, <3>1
      <3> QED
        BY <2>1, <3>1, <3>2, <3>3, Zenon DEF Sound
    <2> QED
      BY <1>4, <2>1, <2>2, <2>3, Zenon
  <1>5. CASE ~full /\ s.c.io_events.count # EventCount
    <2> DEFINE d == WithEvent(s.c, e)
    <2>1. /\ d \in Consoles /\ d.backends = s.c.backends /\ d.enable_buffering = s.c.enable_buffering
      BY ONLY <1>5, Sound(s.c), e \in Msgs, EventConsole, Zenon
    <2>2. Sound(d) /\ Pending(d) = Append(Pending(s.c), e)
      BY <1>5, Added, Zenon
    <2> HIDE DEF d
    <2>3. r \in States /\ r.c = d /\ r.out = s.out /\ r.failed = s.failed
      BY ONLY <1>1, <1>5, <2>1, s \in States, Zenon DEF States, d
    <2> QED
      BY <2>1, <2>2, <2>3, Zenon
  <1> QED
    BY <1>3, <1>4, <1>5, Zenon

(* _console_flush hands what is buffered to the registered backends and    *)
(* leaves nothing buffered.                                                *)
LEMMA Flush ==
    ASSUME NEW s \in States, Sound(s.c), NEW r, r = _console_flush(s)
    PROVE  /\ r \in States /\ Sound(r.c) /\ r.failed = s.failed /\ r.c.backends = s.c.backends
           /\ r.c.enable_buffering = s.c.enable_buffering
           /\ r.c.io_events.count = 0 /\ r.c.io_messages.count = 0 /\ Pending(r.c) = <<>>
           /\ \A b \in Backends : b \in Registered(s.c) => r.out[b] = s.out[b] \o Pending(s.c)
  <1> DEFINE d == reset_buffers(s.c)
             o == [b \in Backends |->
                     IF b \in Registered(s.c) THEN s.out[b] \o Pending(s.c) ELSE s.out[b]]
  <1>1. Pending(s.c) \in Seq(Msgs)
    BY PendingIs, Zenon
  <1>2. s.c \in Consoles /\ s.out \in [Backends -> Seq(Msgs)] /\ s.failed \in Seq(Msgs)
    BY DEF States
  <1>3. o \in [Backends -> Seq(Msgs)]
    <2>1. ASSUME NEW b \in Backends
          PROVE  s.out[b] \in Seq(Msgs) /\ s.out[b] \o Pending(s.c) \in Seq(Msgs)
      <3>1. s.out[b] \in Seq(Msgs)
        BY <1>2, Zenon
      <3> HIDE DEF o
      <3> QED
        BY ONLY <1>1, <3>1
    <2> QED
      BY ONLY <2>1, Zenon
  <1>4. /\ d \in Consoles /\ d.io_events.count = 0 /\ d.io_messages.count = 0
        /\ d.backends = s.c.backends /\ d.enable_buffering = s.c.enable_buffering
        /\ d.events = s.c.events
    <2>1. /\ s.c.io_events \in Arenas(EventCount) /\ s.c.io_messages \in Arenas(MsgSize)
          /\ EventCount \in Nat /\ MsgSize \in Nat
      BY Fields, Zenon
    <2>2. /\ arena_reset(s.c.io_events) \in Arenas(EventCount)
          /\ arena_reset(s.c.io_messages) \in Arenas(MsgSize)
          /\ arena_reset(s.c.io_events).count = 0 /\ arena_reset(s.c.io_messages).count = 0
      BY ONLY <2>1 DEF arena_reset, Arenas
    <2> QED
      BY ONLY <1>2, <2>2, Zenon DEF Consoles, reset_buffers
  <1>5. r = [[s EXCEPT !.out = o] EXCEPT !.c = d]
    <2>1. finalize_write(s) = [s EXCEPT !.out = o]
      BY Zenon DEF finalize_write
    <2>2. [s EXCEPT !.out = o].c = s.c
      BY ONLY s \in States DEF States
    <2> HIDE DEF o
    <2>3. _console_flush(s) = [[s EXCEPT !.out = o] EXCEPT !.c = reset_buffers([s EXCEPT !.out = o].c)]
      BY ONLY <2>1, s \in States DEF _console_flush, States
    <2> QED
      BY ONLY <2>2, <2>3, r = _console_flush(s), Zenon DEF d
  <1> HIDE DEF d, o
  <1>6. r \in States /\ r.c = d /\ r.out = o /\ r.failed = s.failed
    BY ONLY <1>2, <1>3, <1>4, <1>5, s \in States, Zenon DEF States
  <1>7. Pending(d) = <<>>
    BY ONLY <1>4 DEF Pending
  <1>8. Sound(d)
    <2>1. Len(s.c.events) \in Nat
      BY ONLY <1>2 DEF Consoles
    <2> QED
      BY ONLY <1>4, <2>1 DEF Sound
  <1>9. \A b \in Backends : b \in Registered(s.c) => o[b] = s.out[b] \o Pending(s.c)
    BY Zenon DEF o
  <1> QED
    BY ONLY <1>4, <1>6, <1>7, <1>8, <1>9, Zenon

(* Ends of sequences. *)
LEMMA Ends ==
    ASSUME NEW w \in Seq(Msgs)
    PROVE  /\ EndOf(<<>>, w)
           /\ \A x \in Seq(Msgs), e \in Msgs : EndOf(x, w) => EndOf(Append(x, e), Append(w, e))
  <1>1. EndOf(<<>>, w)
    BY DEF EndOf
  <1>2. ASSUME NEW x \in Seq(Msgs), NEW e \in Msgs, EndOf(x, w)
        PROVE  EndOf(Append(x, e), Append(w, e))
    <2>0. Len(x) <= Len(w)
      BY ONLY <1>2, Zenon DEF EndOf
    <2>1. /\ Len(Append(x, e)) = Len(x) + 1 /\ Len(Append(w, e)) = Len(w) + 1
          /\ Len(x) \in Nat /\ Len(w) \in Nat
      OBVIOUS
    <2>2. ASSUME NEW i \in 1..Len(x) + 1
          PROVE  Append(x, e)[i] = Append(w, e)[(Len(w) + 1) - (Len(x) + 1) + i]
      <3>1. CASE i = Len(x) + 1
        BY ONLY <2>1, <3>1, x \in Seq(Msgs), w \in Seq(Msgs), e \in Msgs
      <3>2. CASE i \in 1..Len(x)
        <4>1. /\ Len(w) - Len(x) + i \in 1..Len(w)
              /\ (Len(w) + 1) - (Len(x) + 1) + i = Len(w) - Len(x) + i
          BY ONLY <2>0, <2>1, <3>2
        <4>2. x[i] = w[Len(w) - Len(x) + i]
          BY ONLY <1>2, <3>2, Zenon DEF EndOf
        <4>3. Append(x, e)[i] = x[i]
          BY ONLY <3>2, x \in Seq(Msgs), e \in Msgs
        <4>4. \A k \in 1..Len(w) : Append(w, e)[k] = w[k]
          BY ONLY w \in Seq(Msgs), e \in Msgs
        <4> QED
          BY ONLY <4>1, <4>2, <4>3, <4>4, Zenon
      <3> QED
        <4>1. i = Len(x) + 1 \/ i \in 1..Len(x)
          BY ONLY <2>1, i \in 1..Len(x) + 1
        <4> QED
          BY ONLY <3>1, <3>2, <4>1, Zenon
    <2>3. Len(x) + 1 <= Len(w) + 1
      BY ONLY <2>0, <2>1
    <2> QED
      BY ONLY <2>1, <2>2, <2>3, Zenon DEF EndOf
  <1> QED
    BY <1>1, <1>2, Zenon

(* A message behind two sequences. *)
LEMMA Joined ==
    \A x, p \in Seq(Msgs), e \in Msgs :
        x \o p \in Seq(Msgs) /\ x \o Append(p, e) = Append(x \o p, e)
  OBVIOUS

(* A state of the calls after w was written: nothing lost, or an ASSERT    *)
(* that failed for one of the two reasons.                                 *)
Kept(s, w) ==
    /\ EndOf(Pending(s.c), w)
    /\ \A b \in Registered(s.c) : EndOf(s.out[b] \o Pending(s.c), w)

Explained(s) ==
    s.failed # <<>> =>
        \/ Len(s.failed[1]) > MsgSize
        \/ ~s.c.enable_buffering /\ s.c.io_events.count > 0

Good(s, w) == s \in States /\ Sound(s.c) /\ (s.failed = <<>> => Kept(s, w)) /\ Explained(s)

(* The list holds devices, and a backend's messages are a sequence. *)
LEMMA Backed ==
    ASSUME NEW s \in States, NEW b \in Registered(s.c)
    PROVE  b \in Backends /\ s.out[b] \in Seq(Msgs)
  <1>1. s.c.backends \in Seq(Backends) /\ s.out \in [Backends -> Seq(Msgs)]
    BY DEF States, Consoles
  <1>2. \A i \in 1..Len(s.c.backends) : s.c.backends[i] \in Backends
    BY ONLY <1>1
  <1> QED
    BY <1>1, <1>2, Zenon DEF Registered

(* A flush loses nothing. *)
LEMMA FlushKeeps ==
    ASSUME NEW s, NEW w \in Seq(Msgs), Good(s, w), s.failed = <<>>,
           NEW r, r = _console_flush(s)
    PROVE  /\ Good(r, w) /\ r.failed = <<>> /\ r.c.enable_buffering = s.c.enable_buffering
           /\ r.c.io_events.count = 0 /\ r.c.io_messages.count = 0
  <1>1. s \in States /\ Sound(s.c) /\ Kept(s, w)
    BY Zenon DEF Good
  <1>2. /\ r \in States /\ Sound(r.c) /\ r.failed = s.failed /\ r.c.backends = s.c.backends
        /\ r.c.enable_buffering = s.c.enable_buffering
        /\ r.c.io_events.count = 0 /\ r.c.io_messages.count = 0 /\ Pending(r.c) = <<>>
        /\ \A b \in Backends : b \in Registered(s.c) => r.out[b] = s.out[b] \o Pending(s.c)
    BY <1>1, Flush, Zenon
  <1>3. Registered(r.c) = Registered(s.c)
    BY ONLY <1>2, Zenon DEF Registered
  <1>4. Pending(s.c) \in Seq(Msgs)
    BY <1>1, PendingIs, Zenon
  <1>5. ASSUME NEW b \in Registered(r.c)
        PROVE  EndOf(r.out[b] \o Pending(r.c), w)
    <2>1. b \in Registered(s.c) /\ b \in Backends /\ s.out[b] \in Seq(Msgs)
      BY <1>1, <1>3, Backed, Zenon
    <2>2. r.out[b] = s.out[b] \o Pending(s.c)
      BY ONLY <1>2, <2>1, Zenon
    <2>3. \A x \in Seq(Msgs) : x \o <<>> = x
      OBVIOUS
    <2>4. s.out[b] \o Pending(s.c) \in Seq(Msgs)
      BY ONLY <1>4, <2>1
    <2>5. EndOf(s.out[b] \o Pending(s.c), w)
      BY ONLY <1>1, <2>1, Zenon DEF Kept
    <2> QED
      BY ONLY <1>2, <2>2, <2>3, <2>4, <2>5, Zenon
  <1>6. EndOf(Pending(r.c), w)
    BY <1>2, Ends, Zenon
  <1> QED
    BY <1>2, <1>5, <1>6, Zenon DEF Good, Kept, Explained

(* A message copied is behind all the others; one that is not has a reason. *)
LEMMA EventKeeps ==
    ASSUME NEW s, NEW w \in Seq(Msgs), Good(s, w), s.failed = <<>>, NEW e \in Msgs,
           NEW r, r = write_event(s, e)
    PROVE  /\ r \in States /\ Sound(r.c) /\ r.c.enable_buffering = s.c.enable_buffering
           /\ \/ r.failed = <<>> /\ Kept(r, Append(w, e))
              \/ /\ r.failed = <<e>> /\ r.c.io_events.count = s.c.io_events.count
                 /\ \/ MsgSize < s.c.io_messages.count + Len(e)
                    \/ s.c.io_events.count = EventCount
  <1>1. s \in States /\ Sound(s.c) /\ Kept(s, w)
    BY Zenon DEF Good
  <1>2. /\ r \in States /\ Sound(r.c) /\ r.out = s.out /\ r.c.backends = s.c.backends
        /\ r.c.enable_buffering = s.c.enable_buffering
        /\ \/ /\ r.failed = <<>> /\ Pending(r.c) = Append(Pending(s.c), e)
           \/ /\ r.failed = <<e>> /\ r.c.io_events.count = s.c.io_events.count
              /\ \/ MsgSize < s.c.io_messages.count + Len(e)
                 \/ s.c.io_events.count = EventCount
    BY ONLY <1>1, s.failed = <<>>, e \in Msgs, r = write_event(s, e), WriteEvent, SMTT(30)
  <1>3. Registered(r.c) = Registered(s.c)
    BY ONLY <1>2, Zenon DEF Registered
  <1>4. Pending(s.c) \in Seq(Msgs)
    BY <1>1, PendingIs, Zenon
  <1>5. ASSUME Pending(r.c) = Append(Pending(s.c), e)
        PROVE  Kept(r, Append(w, e))
    <2>1. EndOf(Pending(r.c), Append(w, e))
      BY <1>1, <1>4, <1>5, Ends, Zenon DEF Kept
    <2>2. ASSUME NEW b \in Registered(r.c)
          PROVE  EndOf(r.out[b] \o Pending(r.c), Append(w, e))
      <3>1. b \in Registered(s.c) /\ s.out[b] \in Seq(Msgs)
        BY <1>1, <1>3, Backed, Zenon
      <3>2. EndOf(s.out[b] \o Pending(s.c), w)
        BY ONLY <1>1, <3>1, Zenon DEF Kept
      <3>3. /\ s.out[b] \o Pending(s.c) \in Seq(Msgs)
            /\ s.out[b] \o Append(Pending(s.c), e) = Append(s.out[b] \o Pending(s.c), e)
        BY ONLY <1>4, <3>1, e \in Msgs, Joined, Zenon
      <3>4. EndOf(Append(s.out[b] \o Pending(s.c), e), Append(w, e))
        BY ONLY <3>2, <3>3, w \in Seq(Msgs), e \in Msgs, Ends, Zenon
      <3> QED
        BY ONLY <1>2, <1>5, <3>3, <3>4, Zenon
    <2> QED
      BY <2>1, <2>2, Zenon DEF Kept
  <1> QED
    BY ONLY <1>2, <1>5, Zenon

(* With no event buffered only a message longer than the arena fails. *)
LEMMA TooLong ==
    ASSUME NEW c, Sound(c), NEW e \in Msgs, c.io_events.count = 0,
           MsgSize < c.io_messages.count + Len(e) \/ c.io_events.count = EventCount
    PROVE  Len(e) > MsgSize
  <1>1. c.io_messages.count = 0
    BY Zenon DEF Sound
  <1>2. Len(e) \in Nat /\ MsgSize \in Nat /\ EventCount \in Nat /\ EventCount > 0
    BY Fields DEF Msgs
  <1> QED
    BY ONLY <1>1, <1>2, c.io_events.count = 0,
            MsgSize < c.io_messages.count + Len(e) \/ c.io_events.count = EventCount

(* _console_write. *)
LEMMA ConsoleWrite ==
    ASSUME NEW s, NEW w \in Seq(Msgs), Good(s, w), s.failed = <<>>, NEW e \in Msgs,
           NEW r, r = _console_write(s, e)
    PROVE  Good(r, Append(w, e))
  <1>0. s \in States /\ Sound(s.c) /\ Append(w, e) \in Seq(Msgs) /\ <<e>> # <<>> /\ <<e>>[1] = e
    BY DEF Good
  <1>1. CASE ~s.c.enable_buffering
    <2> DEFINE d == write_event(s, e)
    <2>0. d = write_event(s, e)
      OBVIOUS
    <2>1. r = IF d.failed = <<>> THEN _console_flush(d) ELSE d
      BY <1>1, Zenon DEF _console_write
    <2> HIDE DEF d
    <2>2. /\ d \in States /\ Sound(d.c) /\ d.c.enable_buffering = s.c.enable_buffering
          /\ \/ d.failed = <<>> /\ Kept(d, Append(w, e))
             \/ /\ d.failed = <<e>> /\ d.c.io_events.count = s.c.io_events.count
                /\ \/ MsgSize < s.c.io_messages.count + Len(e)
                   \/ s.c.io_events.count = EventCount
      BY ONLY <2>0, Good(s, w), s.failed = <<>>, w \in Seq(Msgs), e \in Msgs, EventKeeps, SMTT(30)
    <2>3. CASE d.failed = <<>>
      <3>1. Good(d, Append(w, e))
        BY ONLY <1>0, <2>2, <2>3, Zenon DEF Good, Explained
      <3> QED
        BY ONLY <1>0, <2>1, <2>3, <3>1, FlushKeeps, Zenon
    <2>4. CASE d.failed # <<>>
      <3>1. s.c.io_events.count > 0 \/ s.c.io_events.count = 0
        BY Fields, <1>0
      <3>2. s.c.io_events.count = 0 => Len(e) > MsgSize
        BY ONLY <1>0, <2>2, <2>4, e \in Msgs, TooLong, Zenon
      <3>3. Explained(d)
        BY ONLY <1>0, <1>1, <2>2, <2>4, <3>1, <3>2, Zenon DEF Explained
      <3> QED
        BY ONLY <2>1, <2>2, <2>4, <3>3, ZenonT(30) DEF Good
    <2> QED
      BY <2>3, <2>4, Zenon
  <1>2. CASE s.c.enable_buffering /\ can_fit(s.c, Len(e))
    <2>1. r = write_event(s, e)
      BY <1>2, Zenon DEF _console_write
    <2>2. /\ r \in States /\ Sound(r.c)
          /\ \/ r.failed = <<>> /\ Kept(r, Append(w, e))
             \/ \/ MsgSize < s.c.io_messages.count + Len(e)
                \/ s.c.io_events.count = EventCount
      BY <2>1, EventKeeps, Zenon
    <2>3. ~(MsgSize < s.c.io_messages.count + Len(e)) /\ s.c.io_events.count # EventCount
      <3>1. /\ MsgSize \in Nat /\ EventCount \in Nat /\ Len(e) \in Nat
            /\ s.c.io_messages.count \in Nat /\ s.c.io_messages.capacity = MsgSize
            /\ s.c.io_events.count \in Nat /\ s.c.io_events.capacity = EventCount
        BY <1>0, Fields DEF Msgs
      <3>2. /\ s.c.io_messages.capacity - s.c.io_messages.count >= Len(e)
            /\ s.c.io_events.capacity - s.c.io_events.count >= 1
        BY ONLY <1>2, Zenon DEF can_fit, arena_can_fit
      <3> QED
        BY ONLY <3>1, <3>2, SMTT(30)
    <2> QED
      BY ONLY <2>2, <2>3, Zenon DEF Good, Explained
  <1>3. CASE s.c.enable_buffering /\ ~can_fit(s.c, Len(e))
    <2> DEFINE d == _console_flush(s)
    <2>0. d = _console_flush(s)
      OBVIOUS
    <2>1. r = write_event(d, e)
      BY <1>3, Zenon DEF _console_write
    <2> HIDE DEF d
    <2>2. /\ Good(d, w) /\ d.failed = <<>> /\ d.c.enable_buffering = s.c.enable_buffering
          /\ d.c.io_events.count = 0 /\ d.c.io_messages.count = 0
      BY <2>0, FlushKeeps, ZenonT(30)
    <2>3. /\ r \in States /\ Sound(r.c)
          /\ \/ r.failed = <<>> /\ Kept(r, Append(w, e))
             \/ /\ r.failed = <<e>>
                /\ \/ MsgSize < d.c.io_messages.count + Len(e)
                   \/ d.c.io_events.count = EventCount
      <3>1. /\ r \in States /\ Sound(r.c) /\ r.c.enable_buffering = d.c.enable_buffering
            /\ \/ r.failed = <<>> /\ Kept(r, Append(w, e))
               \/ /\ r.failed = <<e>> /\ r.c.io_events.count = d.c.io_events.count
                  /\ \/ MsgSize < d.c.io_messages.count + Len(e)
                     \/ d.c.io_events.count = EventCount
        <4>1. Good(d, w) /\ d.failed = <<>>
          BY ONLY <2>2, Zenon
        <4> QED
          BY ONLY <2>1, <4>1, w \in Seq(Msgs), e \in Msgs, EventKeeps, SMTT(30)
      <3> QED
        BY ONLY <3>1, Zenon
    <2>4. Sound(d.c)
      BY ONLY <2>2, Zenon DEF Good
    <2>5. CASE r.failed = <<>> /\ Kept(r, Append(w, e))
      BY ONLY <2>3, <2>5, Zenon DEF Good, Explained
    <2>6. CASE /\ r.failed = <<e>>
               /\ \/ MsgSize < d.c.io_messages.count + Len(e)
                  \/ d.c.io_events.count = EventCount
      <3>1. Len(e) > MsgSize
        BY ONLY <2>2, <2>4, <2>6, e \in Msgs, TooLong, Zenon
      <3> QED
        BY ONLY <1>0, <2>3, <2>6, <3>1, Zenon DEF Good, Explained
    <2> QED
      BY ONLY <2>3, <2>5, <2>6, Zenon
  <1> QED
    BY <1>1, <1>2, <1>3, Zenon


(* A call leaves a state of the calls. *)
LEMMA WriteStays ==
    ASSUME NEW s \in States, Sound(s.c), s.failed = <<>>, NEW e \in Msgs,
           NEW r, r = _console_write(s, e)
    PROVE  r \in States /\ Sound(r.c)
  <1>1. ASSUME NEW x \in States, Sound(x.c), x.failed = <<>>, NEW y, y = write_event(x, e)
        PROVE  y \in States /\ Sound(y.c)
    BY ONLY <1>1, e \in Msgs, WriteEvent
  <1>2. ASSUME NEW x \in States, Sound(x.c), NEW y, y = _console_flush(x)
        PROVE  y \in States /\ Sound(y.c) /\ y.failed = x.failed
    BY ONLY <1>2, Flush, Zenon
  <1>3. CASE ~s.c.enable_buffering
    BY <1>1, <1>2, <1>3, Zenon DEF _console_write
  <1>4. CASE s.c.enable_buffering /\ can_fit(s.c, Len(e))
    BY <1>1, <1>4, Zenon DEF _console_write
  <1>5. CASE s.c.enable_buffering /\ ~can_fit(s.c, Len(e))
    BY <1>1, <1>2, <1>5, Zenon DEF _console_write
  <1> QED
    BY <1>3, <1>4, <1>5, ZenonT(30)

(* The messages up to one more. *)
LEMMA OneMore ==
    ASSUME NEW w \in Seq(Msgs), NEW m \in Seq(Msgs), NEW k \in 0..Len(m) - 1
    PROVE  /\ k + 1 \in 1..Len(m) /\ m[k + 1] \in Msgs
           /\ w \o SubSeq(m, 1, k) \in Seq(Msgs)
           /\ w \o SubSeq(m, 1, k + 1) = Append(w \o SubSeq(m, 1, k), m[k + 1])
  <1>1. /\ k + 1 \in 1..Len(m) /\ m[k + 1] \in Msgs /\ SubSeq(m, 1, k) \in Seq(Msgs)
        /\ Len(SubSeq(m, 1, k)) = k /\ SubSeq(m, 1, k + 1) \in Seq(Msgs)
        /\ Len(SubSeq(m, 1, k + 1)) = k + 1 /\ k \in Nat
    OBVIOUS
  <1>2. SubSeq(m, 1, k + 1) = Append(SubSeq(m, 1, k), m[k + 1])
    <2> DEFINE a == SubSeq(m, 1, k + 1)
               b == Append(SubSeq(m, 1, k), m[k + 1])
    <2>1. b \in Seq(Msgs) /\ Len(b) = k + 1
      BY <1>1
    <2>2. ASSUME NEW i \in 1..k + 1 PROVE a[i] = b[i]
      <3>1. a[i] = m[i] /\ i \in Nat
        BY <1>1
      <3>2. CASE i = k + 1
        BY ONLY <1>1, <3>1, <3>2
      <3>3. CASE i \in 1..k
        <4>1. SubSeq(m, 1, k)[i] = m[i]
          BY <1>1, <3>3
        <4> QED
          BY ONLY <1>1, <3>1, <3>3, <4>1
      <3> QED
        BY ONLY <1>1, <3>2, <3>3, i \in 1..k + 1
    <2> HIDE DEF a, b
    <2>3. a \in Seq(Msgs) /\ Len(a) = k + 1
      BY <1>1, Zenon DEF a
    <2>4. a = b
      BY <2>1, <2>2, <2>3, SameSeq, Zenon
    <2> QED
      BY <2>4, Zenon DEF a, b
  <1> QED
    <2>1. k + 1 \in 1..Len(m) /\ m[k + 1] \in Msgs /\ SubSeq(m, 1, k) \in Seq(Msgs)
      BY ONLY <1>1, Zenon
    <2>2. /\ w \o SubSeq(m, 1, k) \in Seq(Msgs)
          /\ w \o Append(SubSeq(m, 1, k), m[k + 1]) = Append(w \o SubSeq(m, 1, k), m[k + 1])
      BY ONLY <2>1, w \in Seq(Msgs), Joined, Zenon
    <2> QED
      BY ONLY <1>2, <2>1, <2>2, Zenon

(* console_write_multiple keeps what a single write keeps. *)
LEMMA Batch ==
    ASSUME NEW s, NEW w \in Seq(Msgs), Good(s, w), NEW m \in Seq(Msgs)
    PROVE  Good(WriteAll(s, m), w \o m)
  <1> DEFINE n == Len(m)
             go(x, k) == IF x.failed # <<>> THEN x ELSE _console_write(x, m[k])
             Eq(f) == f = [i \in 0..n |-> IF i = 0 THEN s ELSE go(f[i - 1], i)]
             done == CHOOSE f : Eq(f)
             S == {x \in States : Sound(x.c)}
             step == [k \in 1..n |-> [x \in S |-> go(x, k)]]
  <1>0. n \in Nat /\ s \in S /\ \A k \in 1..n : m[k] \in Msgs
    BY DEF Good
  <1>1. step \in [1..n -> [S -> S]]
    <2>1. ASSUME NEW x \in S, NEW k \in 1..n PROVE go(x, k) \in S
      BY <1>0, WriteStays, Zenon
    <2> HIDE DEF go
    <2> QED
      BY <2>1, Zenon
  <1>2. \E f : Eq(f)
    <2> HIDE DEF step, go, S, n
    <2>0. PICK f : IsLoop(f, S, n, s, step)
      BY <1>0, <1>1, LoopExists, Zenon
    <2>1. /\ f \in [0..n -> S] /\ f[0] = s
          /\ \A k \in 1..n : f[k] = step[k][f[k - 1]]
      BY <2>0, Zenon DEF IsLoop
    <2> USE DEF step
    <2>2. ASSUME NEW k \in 1..n PROVE f[k] = go(f[k - 1], k)
      <3>1. k - 1 \in 0..n
        BY <1>0
      <3> QED
        BY <2>1, <3>1, Zenon
    <2>3. \A k \in 0..n : k = 0 \/ k \in 1..n
      BY <1>0
    <2> QED
      BY <2>1, <2>2, <2>3, Zenon
  <1>3. Eq(done)
    BY <1>2, Zenon
  <1>4. WriteAll(s, m) = done[n]
    BY Zenon DEF WriteAll
  <1> HIDE DEF done, go, n
  <1>5. done[0] = s /\ \A k \in 1..n : done[k] = go(done[k - 1], k)
    <2>1. 0 \in 0..n /\ \A k \in 1..n : k \in 0..n /\ k # 0
      BY <1>0
    <2> QED
      BY <1>3, <2>1, Zenon
  <1> DEFINE T == {k \in 0..n : Good(done[k], w \o SubSeq(m, 1, k))}
  <1>6. 0 \in T
    <2>1. w \o SubSeq(m, 1, 0) = w /\ 0 \in 0..n
      BY <1>0
    <2> QED
      BY <1>5, <2>1, Zenon
  <1>7. ASSUME NEW k \in 0..n - 1, k \in T PROVE k + 1 \in T
    <2>1. /\ k + 1 \in 0..n /\ (k + 1) - 1 = k
      BY <1>0
    <2>2. /\ k + 1 \in 1..n /\ m[k + 1] \in Msgs /\ w \o SubSeq(m, 1, k) \in Seq(Msgs)
          /\ w \o SubSeq(m, 1, k + 1) = Append(w \o SubSeq(m, 1, k), m[k + 1])
      BY OneMore, Zenon DEF n
    <2>3. done[k + 1] = go(done[k], k + 1)
      BY <1>5, <2>1, <2>2, Zenon
    <2>4. Good(done[k], w \o SubSeq(m, 1, k))
      BY <1>7, Zenon
    <2> DEFINE x == done[k]
               v == w \o SubSeq(m, 1, k)
    <2> HIDE DEF x, v
    <2>5. CASE x.failed # <<>>
      <3>1. done[k + 1] = x
        BY <2>3, <2>5, Zenon DEF go, x
      <3>2. Good(x, v)
        BY <2>4, Zenon DEF x, v
      <3>3. Good(x, w \o SubSeq(m, 1, k + 1))
        BY <2>5, <3>2, Zenon DEF Good
      <3> QED
        BY <2>1, <3>1, <3>3, Zenon
    <2>6. CASE x.failed = <<>>
      <3>1. done[k + 1] = _console_write(x, m[k + 1])
        BY <2>3, <2>6, Zenon DEF go, x
      <3>2. Good(x, v) /\ v \in Seq(Msgs)
        BY <2>2, <2>4, Zenon DEF x, v
      <3>3. Good(done[k + 1], Append(v, m[k + 1]))
        BY <2>2, <2>6, <3>1, <3>2, ConsoleWrite, Zenon
      <3> QED
        BY <2>1, <2>2, <3>3, Zenon DEF v
    <2> QED
      BY <2>5, <2>6, Zenon
  <1> HIDE DEF T
  <1>8. n \in T
    <2>1. \A k \in 0..n : k \in T
      BY <1>0, <1>6, <1>7, UpTo, Zenon
    <2> QED
      BY <1>0, <2>1
  <1>9. SubSeq(m, 1, n) = m
    BY DEF n
  <1> QED
    BY <1>4, <1>8, <1>9, Zenon DEF T

-----------------------------------------------------------------------------
(* The steps. *)

(* What is buffered depends on the arenas alone. *)
LEMMA PendingSame ==
    ASSUME NEW c, NEW d, c.io_events = d.io_events, c.events = d.events, c.pool = d.pool
    PROVE  Pending(c) = Pending(d)
  BY Zenon DEF Pending, Text

OutputInv == written \in Seq(Msgs) /\ Good(State, written)

(* The parts of the state. *)
LEMMA StateIs ==
    State.c = console /\ State.out = out /\ State.failed = failed
  BY DEF State

(* OutputInv in the words of the variables. *)
LEMMA InvIs ==
    /\ OutputInv => /\ written \in Seq(Msgs) /\ out \in [Backends -> Seq(Msgs)]
                    /\ failed \in Seq(Msgs) /\ Sound(console)
                    /\ (failed = <<>> => EndOf(Pending(console), written)
                          /\ \A b \in Registered(console) : EndOf(out[b] \o Pending(console), written))
                    /\ FailsOnlyIf
    /\ /\ written \in Seq(Msgs) /\ out \in [Backends -> Seq(Msgs)]
       /\ failed = <<>> /\ Sound(console) /\ EndOf(Pending(console), written)
       /\ \A b \in Registered(console) : EndOf(out[b] \o Pending(console), written)
       => OutputInv
  <1>1. State \in States <=> /\ console \in Consoles /\ out \in [Backends -> Seq(Msgs)]
                             /\ failed \in Seq(Msgs)
    BY DEF State, States
  <1>2. Sound(console) => console \in Consoles
    BY Zenon DEF Sound
  <1>3. <<>> \in Seq(Msgs)
    OBVIOUS
  <1> QED
    BY <1>1, <1>2, <1>3, StateIs, Zenon DEF OutputInv, Good, Kept, Explained, FailsOnlyIf

(* The console comes up with nothing buffered. *)
LEMMA OutputInitInv == OutputInit => OutputInv
  <1> SUFFICES ASSUME OutputInit PROVE OutputInv
    OBVIOUS
  <1>1. PICK buffering \in BOOLEAN : console = console_init(buffering)
    BY DEF OutputInit
  <1>2. /\ console \in Consoles /\ console.io_events.count = 0 /\ console.io_messages.count = 0
        /\ console.events = <<>> /\ console.backends = <<>>
    BY <1>1, OutputAssumption DEF console_init, arena_init, Consoles, Arenas, Records
  <1>3. Sound(console)
    BY <1>2 DEF Sound
  <1>4. Registered(console) = {}
    BY <1>2 DEF Registered
  <1>5. Pending(console) = <<>>
    BY <1>2 DEF Pending
  <1>6. /\ written = <<>> /\ written \in Seq(Msgs) /\ out \in [Backends -> Seq(Msgs)]
        /\ failed = <<>>
    BY DEF OutputInit
  <1>7. EndOf(Pending(console), written)
    BY <1>5, <1>6, Ends, Zenon
  <1> QED
    BY <1>3, <1>4, <1>6, <1>7, InvIs, Zenon

(* The step of a call that becomes the state s. *)
LEMMA Becomes ==
    ASSUME NEW s \in States, Become(s), Good(s, written'), written' \in Seq(Msgs)
    PROVE  OutputInv'
  <1>1. State' = s
    BY DEF State, Become, States
  <1> QED
    BY <1>1, Zenon DEF OutputInv

(* The list without one of its devices. *)
LEMMA Shorter ==
    ASSUME NEW s \in Seq(Backends), NEW i \in 1..Len(s)
    PROVE  /\ Without(s, i) \in Seq(Backends)
           /\ \A j \in 1..Len(Without(s, i)) : \E k \in 1..Len(s) : Without(s, i)[j] = s[k]
  <1> DEFINE t == Without(s, i)
             a == SubSeq(s, 1, i - 1)
             b == SubSeq(s, i + 1, Len(s))
             n == Len(s)
  <1>1. n \in Nat /\ i \in Nat /\ i >= 1 /\ i <= n
    OBVIOUS
  <1>2. a \in Seq(Backends) /\ Len(a) = i - 1 /\ \A j \in 1..i - 1 : a[j] = s[j]
    BY <1>1
  <1>3. b \in Seq(Backends) /\ Len(b) = n - i /\ \A j \in 1..n - i : b[j] = s[i + j]
    BY <1>1
  <1>4. t = a \o b
    BY Zenon DEF Without
  <1> HIDE DEF a, b, n, t
  <1>5. t \in Seq(Backends) /\ Len(t) = n - 1
    <2>1. t \in Seq(Backends) /\ Len(t) = Len(a) + Len(b)
      <3>1. a \in Seq(Backends) /\ b \in Seq(Backends)
        BY ONLY <1>2, <1>3, Zenon
      <3> QED
        BY ONLY <1>4, <3>1
    <2> QED
      BY ONLY <1>1, <1>2, <1>3, <2>1, SMTT(30)
  <1>6. ASSUME NEW j \in 1..n - 1
        PROVE  \E k \in 1..n : t[j] = s[k]
    <2>1. CASE j <= i - 1
      <3>1. t[j] = a[j] /\ j \in 1..i - 1 /\ j \in 1..n
        BY ONLY <1>1, <1>2, <1>3, <1>4, <2>1, j \in 1..n - 1, SMTT(30)
      <3> QED
        BY <1>2, <3>1, Zenon
    <2>2. CASE ~(j <= i - 1)
      <3>1. t[j] = b[j - (i - 1)] /\ j - (i - 1) \in 1..n - i /\ i + (j - (i - 1)) \in 1..n
        BY ONLY <1>1, <1>2, <1>3, <1>4, <2>2, j \in 1..n - 1, SMTT(30)
      <3> QED
        BY <1>3, <3>1, Zenon
    <2> QED
      BY <2>1, <2>2, Zenon
  <1> QED
    BY <1>5, <1>6, Zenon DEF n, t

(* Every step. *)
LEMMA OutputStep == OutputInv /\ [OutputNext]_outputVars => OutputInv'
  <1> SUFFICES ASSUME OutputInv, [OutputNext]_outputVars PROVE OutputInv'
    OBVIOUS
  <1>0. /\ written \in Seq(Msgs) /\ Good(State, written) /\ out \in [Backends -> Seq(Msgs)]
        /\ failed \in Seq(Msgs) /\ Sound(console) /\ console \in Consoles
    BY InvIs, Fields, Zenon DEF OutputInv
  <1>1. ASSUME NEW lens \in Batches, console_write_multiple(lens) PROVE OutputInv'
    <2> DEFINE msgs == [i \in 1..Len(lens) |-> Message(Len(written) + i, lens[i])]
    <2>1. PICK n \in 1..MaxBatch : lens \in [1..n -> Lengths]
      BY <1>1 DEF Batches
    <2>2. Len(lens) = n /\ n \in Nat /\ \A i \in 1..n : lens[i] \in Nat
      <3>1. n \in Nat
        BY OutputAssumption
      <3>2. Len(lens) = n
        BY ONLY <2>1, <3>1
      <3>3. \A i \in 1..n : lens[i] \in Nat
        BY <2>1, OutputAssumption, Zenon
      <3> QED
        BY <3>1, <3>2, <3>3, Zenon
    <2>3. ASSUME NEW i \in 1..n PROVE Message(Len(written) + i, lens[i]) \in Msgs
      <3>1. Len(written) + i \in Nat /\ lens[i] \in Nat
        BY <1>0, <2>2
      <3> QED
        BY <3>1 DEF Message, Msgs
    <2>4. msgs \in Seq(Msgs)
      BY <2>2, <2>3
    <2>5. Become(WriteAll(State, msgs)) /\ written' = written \o msgs
      BY <1>1, Zenon DEF console_write_multiple
    <2> HIDE DEF msgs
    <2>6. Good(WriteAll(State, msgs), written \o msgs)
      BY <1>0, <2>4, Batch, Zenon
    <2>7. written \o msgs \in Seq(Msgs)
      BY ONLY <1>0, <2>4
    <2>8. WriteAll(State, msgs) \in States
      BY <2>6, Zenon DEF Good
    <2> QED
      BY <2>5, <2>6, <2>7, <2>8, Becomes, Zenon
  <1>2. ASSUME console_flush PROVE OutputInv'
    <2>1. failed = <<>> /\ Become(_console_flush(State)) /\ written' = written
      BY <1>2, Zenon DEF console_flush, Running
    <2>2. Good(_console_flush(State), written)
      BY <1>0, <2>1, StateIs, FlushKeeps, Zenon
    <2>3. _console_flush(State) \in States
      BY <2>2, Zenon DEF Good
    <2> QED
      BY <1>0, <2>1, <2>2, <2>3, Becomes, Zenon
  <1> DEFINE Rest == /\ console' \in Consoles /\ console'.io_events = console.io_events
                     /\ console'.io_messages = console.io_messages
                     /\ console'.events = console.events /\ console'.pool = console.pool
  <1>3. ASSUME Rest, failed = <<>>, failed' = failed, written' = written,
               out' \in [Backends -> Seq(Msgs)],
               \A b \in Registered(console') :
                    \/ b \in Registered(console) /\ out'[b] = out[b]
                    \/ out'[b] = <<>>
        PROVE  OutputInv'
    <2>1. Pending(console') = Pending(console)
      BY <1>3, PendingSame, Zenon
    <2>2. Sound(console')
      BY <1>0, <1>3, Zenon DEF Sound
    <2>3. /\ EndOf(Pending(console), written)
          /\ \A b \in Registered(console) : EndOf(out[b] \o Pending(console), written)
      BY <1>3, InvIs, Zenon
    <2>4. <<>> \o Pending(console) = Pending(console)
      <3>1. Pending(console) \in Seq(Msgs)
        BY <1>0, PendingIs, Zenon
      <3> QED
        BY ONLY <3>1
    <2>5. \A b \in Registered(console') : EndOf(out'[b] \o Pending(console'), written')
      BY ONLY <1>3, <2>1, <2>3, <2>4, Zenon
    <2>6. EndOf(Pending(console'), written') /\ failed' = <<>> /\ written' \in Seq(Msgs)
      BY ONLY <1>0, <1>3, <2>1, <2>3, Zenon
    <2>7. (/\ written \in Seq(Msgs) /\ out \in [Backends -> Seq(Msgs)]
           /\ failed = <<>> /\ Sound(console) /\ EndOf(Pending(console), written)
           /\ \A b \in Registered(console) : EndOf(out[b] \o Pending(console), written)
           => OutputInv)'
      BY InvIs, PTL
    <2> QED
      BY <1>3, <2>2, <2>5, <2>6, <2>7, Zenon
  <1>4. ASSUME NEW buffering \in Modes, console_set_buffering(buffering) PROVE OutputInv'
    <2>1. Rest /\ console'.backends = console.backends
      BY <1>0, <1>4, OutputAssumption, Zenon DEF console_set_buffering, Consoles
    <2>2. Registered(console') = Registered(console)
      BY <2>1, Zenon DEF Registered
    <2>3. failed = <<>> /\ failed' = failed /\ written' = written /\ out' = out
      BY <1>4, Zenon DEF console_set_buffering, Running
    <2> HIDE DEF Rest
    <2> QED
      BY <1>0, <1>3, <2>1, <2>2, <2>3, Zenon
  <1>5. ASSUME NEW b \in Backends, console_register(b) PROVE OutputInv'
    <2>0. console.backends \in Seq(Backends)
      BY <1>0 DEF Consoles
    <2>1. Rest /\ console'.backends = <<b>> \o console.backends
      <3>1. <<b>> \o console.backends \in Seq(Backends)
        BY ONLY <2>0, b \in Backends
      <3> QED
        BY <1>0, <1>5, <3>1, Zenon DEF console_register, Consoles
    <2>2. failed = <<>> /\ failed' = failed /\ written' = written /\ out' = [out EXCEPT ![b] = <<>>]
      BY <1>5, Zenon DEF console_register, Running
    <2>3. out' \in [Backends -> Seq(Msgs)]
      BY ONLY <1>0, <2>2
    <2>4. ASSUME NEW x \in Registered(console')
          PROVE  x = b \/ x \in Registered(console)
      BY <2>0, <2>1 DEF Registered
    <2>5. ASSUME NEW x \in Registered(console')
          PROVE  (x \in Registered(console) /\ out'[x] = out[x]) \/ out'[x] = <<>>
      BY ONLY <1>0, <2>2, <2>4, b \in Backends, x \in Registered(console')
    <2> HIDE DEF Rest
    <2> QED
      BY <1>3, <2>1, <2>2, <2>3, <2>5, Zenon
  <1>6. ASSUME NEW b \in Backends, console_unregister(b) PROVE OutputInv'
    <2>0. console.backends \in Seq(Backends)
      BY <1>0 DEF Consoles
    <2>1. PICK i \in 1..Len(console.backends) :
             console' = [console EXCEPT !.backends = Without(@, i)]
      BY <1>6, Zenon DEF console_unregister
    <2> DEFINE s == console.backends
               t == Without(s, i)
    <2>2. t \in Seq(Backends) /\ \A j \in 1..Len(t) : \E k \in 1..Len(s) : t[j] = s[k]
      BY <2>0, Shorter, Zenon
    <2>3. Rest /\ console'.backends = t
      <3> HIDE DEF t
      <3>1. console' = [console EXCEPT !.backends = t]
        BY <1>0, <2>1 DEF t, Consoles
      <3> QED
        BY ONLY <1>0, <2>2, <3>1, Zenon DEF Consoles
    <2>4. failed = <<>> /\ failed' = failed /\ written' = written /\ out' = out
      BY <1>6, Zenon DEF console_unregister, Running
    <2> HIDE DEF Rest, t
    <2>5. ASSUME NEW x \in Registered(console') PROVE x \in Registered(console)
      BY <2>2, <2>3, ZenonT(30) DEF Registered
    <2> QED
      BY <1>0, <1>3, <2>3, <2>4, <2>5, Zenon
  <1>7. CASE UNCHANGED outputVars
    <2>1. State' = State /\ written' = written
      BY <1>7 DEF State, outputVars
    <2> QED
      BY <2>1, Zenon DEF OutputInv
  <1> QED
    BY <1>1, <1>2, <1>4, <1>5, <1>6, <1>7, Zenon DEF OutputNext

(* The arenas of console.c stay within their capacities.                   *)
THEOREM OutputTypeCorrect == OutputSpec => []OutputTypeOK
  <1>1. OutputInv => OutputTypeOK
    <2> SUFFICES ASSUME OutputInv PROVE OutputTypeOK
      OBVIOUS
    <2>1. Sound(console) /\ console \in Consoles
      BY InvIs, Fields, Zenon
    <2>2. /\ console.io_messages.count \in 0..MsgSize /\ console.io_events.count \in 0..EventCount
          /\ console.backends \in Seq(Backends)
      BY ONLY <2>1 DEF Consoles, Arenas
    <2> QED
      BY ONLY <2>1, <2>2, Zenon DEF OutputTypeOK, Sound
  <1> QED
    BY <1>1, OutputInitInv, OutputStep, PTL DEF OutputSpec

(* console_write, console_flush and the (un)registering of backends lose,  *)
(* repeat, reorder and overwrite nothing, whatever the arenas' sizes, the  *)
(* messages' lengths and the order of the calls.                           *)
THEOREM NothingLost == OutputSpec => []Delivered
  <1>1. OutputInv => Delivered
    BY InvIs, Zenon DEF Delivered
  <1> QED
    BY <1>1, OutputInitInv, OutputStep, PTL DEF OutputSpec

=============================================================================
