-------------------------- MODULE ExceptionsProofs --------------------------
(* Proofs about module Exceptions, for exceptions nested to any depth.     *)
EXTENDS Exceptions, SequenceTheorems, TLAPS

Levels == {"code", "entered"}
Handlers == {"exception_handler", "irq_dispatcher", "unhandled_exception_handler"}
Frames == [FrameSlots -> Int]
Entries == [regs : [Registers -> Int], pc : Int, masked : BOOLEAN, status : Levels,
            handler : Handlers, brk : BOOLEAN]

(* The frame f of what e interrupted.  Once the handler has been through   *)
(* it, the return address of a breakpoint is one further.                  *)
FrameOf(f, e, done) ==
    /\ \A r \in 0..30 \ {18} : f[Offset(r)] = e.regs[r]
    /\ f[Offset(ELR)] = e.pc + (IF e.brk /\ done THEN 1 ELSE 0)
    /\ f[Offset(SPSR)] = (IF e.masked THEN 1 ELSE 0)
    /\ (f[Offset(ESR)] = Brk) = e.brk

Types ==
    /\ regs \in [Registers -> Int]
    /\ pc \in Int
    /\ masked \in BOOLEAN
    /\ stack \in Seq(Frames)
    /\ entry \in Seq(Entries)
    /\ status \in Levels \cup {"wfi", "handled"}
    /\ Len(stack) = Len(entry)
    /\ (status = "code") = (Len(stack) = 0)

(* A handler is interrupted only before its frame was changed.             *)
Nesting ==
    \A i \in 1..Len(entry) :
        /\ (entry[i].status = "code") = (i = 1)
        /\ entry[i].handler = "irq_dispatcher" => ~entry[i].brk

Done == status \in {"wfi", "handled"}

Stacked == \A i \in 1..Len(stack) : FrameOf(stack[i], entry[i], i = Len(stack) /\ Done)

IInv == Types /\ Nesting /\ Stacked

-----------------------------------------------------------------------------
(* The words of a frame. *)

(* Every saved register has a word of its own in the frame. *)
LEMMA OffsetsDiffer ==
    /\ \A r \in Saved : Offset(r) \in FrameSlots
    /\ \A r, q \in Saved : Offset(r) = Offset(q) => r = q
  <1>1. \A r \in Saved : r \in 0..36 /\ r # 18
    BY DEF Saved, Registers, SP_EL0
  <1>2. ASSUME NEW r \in Saved PROVE Offset(r) \in FrameSlots
    <2>1. CASE r = 31
      <3>1. Offset(r) = 8 * 0
        BY <2>1 DEF Offset, SP
      <3> QED
        BY <3>1 DEF FrameSlots
    <2>2. CASE r # 31 /\ r < 18
      <3>1. Offset(r) = 8 * (r + 2) /\ r + 2 \in 0..37
        BY <1>1, <2>2 DEF Offset, SP
      <3> QED
        BY <3>1 DEF FrameSlots
    <2>3. CASE r # 31 /\ ~(r < 18)
      <3>1. Offset(r) = 8 * (r + 1) /\ r + 1 \in 0..37
        BY <1>1, <2>3 DEF Offset, SP
      <3> QED
        BY <3>1 DEF FrameSlots
    <2> QED
      BY <2>1, <2>2, <2>3
  <1>3. \A r, q \in Saved : Offset(r) = Offset(q) => r = q
    BY <1>1 DEF Offset, SP
  <1> QED
    BY <1>2, <1>3

(* save_registers puts each register where restore_registers looks for it. *)
LEMMA SaveKeeps ==
    ASSUME NEW rs \in [Registers -> Int]
    PROVE  /\ save_registers(rs) \in Frames
           /\ \A r \in Saved : save_registers(rs)[Offset(r)] = rs[r]
  <1>1. ASSUME NEW r \in Saved PROVE save_registers(rs)[Offset(r)] = rs[r]
    <2>1. Offset(r) \in FrameSlots /\ \E q \in Saved : Offset(q) = Offset(r)
      BY OffsetsDiffer
    <2>2. (CHOOSE q \in Saved : Offset(q) = Offset(r)) = r
      BY OffsetsDiffer
    <2> QED
      BY <2>1, <2>2 DEF save_registers
  <1>2. ASSUME NEW o \in FrameSlots PROVE save_registers(rs)[o] \in Int
    <2>1. CASE \E q \in Saved : Offset(q) = o
      <3>1. (CHOOSE q \in Saved : Offset(q) = o) \in Registers
        BY <2>1 DEF Saved
      <3> QED
        BY <1>2, <2>1, <3>1 DEF save_registers
    <2>2. CASE ~\E q \in Saved : Offset(q) = o
      BY <1>2, <2>2 DEF save_registers, Scratch
    <2> QED
      BY <2>1, <2>2
  <1>3. save_registers(rs) \in Frames
    BY <1>2 DEF save_registers, Frames
  <1> QED
    BY <1>1, <1>3

(* Handling a breakpoint moves its return address and nothing else. *)
LEMMA HandledFrame ==
    ASSUME NEW f \in Frames, NEW e \in Entries, FrameOf(f, e, FALSE)
    PROVE  /\ print_exception_class_info(f) \in Frames
           /\ FrameOf(print_exception_class_info(f), e, TRUE)
  <1> DEFINE g == print_exception_class_info(f)
  <1>1. /\ f[Offset(ELR)] = e.pc /\ e.pc \in Int /\ (f[Offset(ESR)] = Brk) = e.brk
        /\ e.brk \in BOOLEAN
    BY DEF FrameOf, Entries
  <1>2. g = IF e.brk THEN [f EXCEPT ![Offset(ELR)] = @ + 1] ELSE f
    BY <1>1 DEF print_exception_class_info, esr_ec_decode
  <1>3. /\ \A r \in 0..30 \ {18} : r \in Saved /\ r # ELR
        /\ ELR \in Saved /\ SPSR \in Saved /\ ESR \in Saved /\ ELR # SPSR /\ ELR # ESR
    BY DEF Saved, Registers, SP_EL0, ELR, SPSR, ESR
  <1>4. CASE e.brk
    <2>1. g = [f EXCEPT ![Offset(ELR)] = @ + 1]
      BY <1>2, <1>4
    <2>2. Offset(ELR) \in FrameSlots
      BY <1>3, OffsetsDiffer
    <2>3. g \in Frames /\ g[Offset(ELR)] = e.pc + 1
      BY <1>1, <2>1, <2>2 DEF Frames
    <2>4. \A r \in Saved : r # ELR => g[Offset(r)] = f[Offset(r)]
      BY <1>3, <2>1, OffsetsDiffer DEF Frames
    <2>5. /\ \A r \in 0..30 \ {18} : g[Offset(r)] = e.regs[r]
          /\ g[Offset(SPSR)] = f[Offset(SPSR)] /\ g[Offset(ESR)] = f[Offset(ESR)]
      BY <1>3, <2>4 DEF FrameOf
    <2> QED
      BY <1>4, <2>3, <2>5 DEF FrameOf
  <1>5. CASE ~e.brk
    BY <1>2, <1>5 DEF FrameOf
  <1> QED
    BY <1>1, <1>4, <1>5

-----------------------------------------------------------------------------
(* One lemma for entering and one for returning; the other steps leave the *)
(* stack alone or change its last frame only.                              *)

(* Entering pushes a frame that describes the code it interrupts. *)
LEMMA EnterStep ==
    ASSUME IInv, NEW kind \in Kinds, NEW why \in {Scratch, Brk}, status \in Levels,
           Enter("spx", kind, why), why = Brk => kind = "sync"
    PROVE  IInv'
  <1> DEFINE taken == [regs EXCEPT ![ELR] = pc, ![SPSR] = IF masked THEN 1 ELSE 0, ![ESR] = why]
             frame == save_registers(taken)
             e == [regs |-> regs, pc |-> pc, masked |-> masked, status |-> status,
                   handler |-> Handler("spx", kind), brk |-> why = Brk]
             n == Len(stack)
  <1>1. /\ regs \in [Registers -> Int] /\ pc \in Int /\ masked \in BOOLEAN
        /\ stack \in Seq(Frames) /\ entry \in Seq(Entries) /\ n = Len(entry) /\ n \in Nat
        /\ (status = "code") = (n = 0)
    BY DEF IInv, Types
  <1>2. /\ why \in Int /\ Scratch \in Int
        /\ {0, 1, 18, ELR, SPSR, ESR} \subseteq Registers /\ ELR # SPSR /\ ELR # ESR /\ SPSR # ESR
    BY DEF Scratch, Brk, Registers, SP_EL0, ELR, SPSR, ESR
  <1>3. /\ taken \in [Registers -> Int]
        /\ taken[ELR] = pc /\ taken[SPSR] = (IF masked THEN 1 ELSE 0) /\ taken[ESR] = why
        /\ \A r \in 0..30 : taken[r] = regs[r]
    <2>1. \A r \in 0..30 : r \in Registers /\ r \notin {ELR, SPSR, ESR}
      BY DEF Registers, SP_EL0, ELR, SPSR, ESR
    <2>2. (IF masked THEN 1 ELSE 0) \in Int
      OBVIOUS
    <2>3. taken \in [Registers -> Int]
      BY <1>1, <1>2, <2>2
    <2>4. taken[ELR] = pc /\ taken[SPSR] = (IF masked THEN 1 ELSE 0) /\ taken[ESR] = why
      BY <1>1, <1>2
    <2>5. \A r \in 0..30 : taken[r] = regs[r]
      BY <1>1, <2>1
    <2> QED
      BY <2>3, <2>4, <2>5
  <1> HIDE DEF taken
  <1>4. frame \in Frames /\ \A r \in Saved : frame[Offset(r)] = taken[r]
    BY <1>3, SaveKeeps
  <1>5. /\ \A r \in 0..30 \ {18} : r \in Saved
        /\ ELR \in Saved /\ SPSR \in Saved /\ ESR \in Saved
    BY DEF Saved, Registers, SP_EL0, ELR, SPSR, ESR
  <1>6. e \in Entries /\ (e.handler = "irq_dispatcher" => ~e.brk)
    <2>1. Handler("spx", kind) \in Handlers
      BY DEF Handler, Handlers
    <2>2. e \in Entries
      BY <1>1, <2>1 DEF Entries
    <2>3. Handler("spx", kind) = "irq_dispatcher" => kind # "sync"
      BY DEF Handler
    <2> QED
      BY <2>2, <2>3
  <1>7. FrameOf(frame, e, FALSE)
    <2>1. \A r \in 0..30 \ {18} : frame[Offset(r)] = e.regs[r]
      BY <1>3, <1>4, <1>5
    <2>2. frame[Offset(ELR)] = pc
      BY <1>3, <1>4, <1>5
    <2>3. frame[Offset(SPSR)] = (IF masked THEN 1 ELSE 0) /\ frame[Offset(ESR)] = why
      BY <1>3, <1>4, <1>5
    <2>4. e.pc = pc /\ e.masked = masked /\ e.brk = (why = Brk) /\ pc + 0 = pc
      BY <1>1
    <2> HIDE DEF frame, e
    <2> QED
      BY <2>1, <2>2, <2>3, <2>4 DEF FrameOf
  <1>8. /\ stack' = Append(stack, frame) /\ entry' = Append(entry, e)
        /\ regs' = [taken EXCEPT ![0] = Scratch, ![1] = Scratch, ![18] = Scratch]
        /\ masked' = TRUE /\ pc' = 0 /\ status' = "entered"
    BY DEF Enter, taken
  <1>9. e.status = status
    OBVIOUS
  <1> HIDE DEF frame, e
  <1>10. /\ stack' \in Seq(Frames) /\ entry' \in Seq(Entries)
         /\ Len(stack') = n + 1 /\ Len(entry') = n + 1
         /\ stack'[n + 1] = frame /\ entry'[n + 1] = e
         /\ \A i \in 1..n : stack'[i] = stack[i] /\ entry'[i] = entry[i]
    BY <1>1, <1>4, <1>6, <1>8
  <1>11. Types'
    <2>1. regs' \in [Registers -> Int]
      BY <1>2, <1>3, <1>8
    <2>2. status' # "code" /\ Len(stack') # 0 /\ status' \in Levels
      BY <1>1, <1>8, <1>10 DEF Levels
    <2>3. pc' \in Int /\ masked' \in BOOLEAN
      BY <1>8
    <2>4. (status' = "code") = (Len(stack') = 0)
      BY <2>2
    <2> QED
      BY <1>10, <2>1, <2>2, <2>3, <2>4 DEF Types
  <1>12. Nesting'
    <2>1. \A i \in 1..n : /\ (entry[i].status = "code") = (i = 1)
                          /\ entry[i].handler = "irq_dispatcher" => ~entry[i].brk
      BY <1>1 DEF IInv, Nesting
    <2>2. (e.status = "code") = (n + 1 = 1)
      BY <1>1, <1>9
    <2>3. \A i \in 1..n + 1 : i \in 1..n \/ i = n + 1
      BY <1>1
    <2> QED
      BY <1>6, <1>10, <2>1, <2>2, <2>3 DEF Nesting
  <1>13. Stacked'
    <2>1. ~Done /\ ~Done'
      BY <1>8 DEF Done, Levels
    <2>2. \A i \in 1..n : FrameOf(stack[i], entry[i], FALSE)
      BY <2>1 DEF IInv, Stacked, FrameOf
    <2>3. \A i \in 1..n + 1 : i \in 1..n \/ i = n + 1
      BY <1>1
    <2>4. \A i \in 1..n + 1 : FrameOf(stack'[i], entry'[i], FALSE)
      BY <1>7, <1>10, <2>2, <2>3
    <2> QED
      BY <1>10, <2>1, <2>4 DEF Stacked, FrameOf
  <1> QED
    BY <1>11, <1>12, <1>13 DEF IInv

(* What Front and Last give of a sequence that is not empty. *)
LEMMA FrontFacts ==
    ASSUME NEW S, NEW s \in Seq(S), Len(s) > 0
    PROVE  /\ Front(s) \in Seq(S) /\ Len(Front(s)) = Len(s) - 1
           /\ \A i \in 1..Len(s) - 1 : Front(s)[i] = s[i]
           /\ Last(s) = s[Len(s)] /\ Last(s) \in S
  <1> DEFINE m == Len(s) - 1
  <1>1. Len(s) \in Nat /\ m \in Nat /\ \A i \in 1..Len(s) : s[i] \in S
    OBVIOUS
  <1>2. 1 \in Int /\ m \in Int /\ \A i \in 1..m : s[i] \in S
    BY <1>1
  <1>3. /\ SubSeq(s, 1, m) \in Seq(S) /\ Len(SubSeq(s, 1, m)) = (IF 1 <= m THEN m - 1 + 1 ELSE 0)
        /\ \A i \in 1..m - 1 + 1 : SubSeq(s, 1, m)[i] = s[1 + i - 1]
    BY <1>2, SubSeqProperties
  <1>4. Front(s) = SubSeq(s, 1, m)
    BY DEF Front
  <1>5. Last(s) = s[Len(s)] /\ Last(s) \in S
    BY <1>1 DEF Last
  <1>6. Len(Front(s)) = m
    <2> HIDE DEF m
    <2>1. (IF 1 <= m THEN m - 1 + 1 ELSE 0) = m
      BY <1>1
    <2> QED
      BY <1>3, <1>4, <2>1
  <1>7. \A i \in 1..m : Front(s)[i] = s[i]
    <2>1. ASSUME NEW i \in 1..m PROVE i \in 1..m - 1 + 1 /\ 1 + i - 1 = i
      BY <1>1
    <2> QED
      BY <1>3, <1>4, <2>1
  <1> QED
    BY <1>3, <1>4, <1>5, <1>6, <1>7

(* Returning finds in the frame what the exception interrupted. *)
LEMMA ReturnStep ==
    ASSUME IInv, Return
    PROVE  /\ IInv'
           /\ pc' = Last(entry).pc + (IF Last(entry).brk THEN 1 ELSE 0)
           /\ masked' = Last(entry).masked
           /\ \A r \in 0..30 \ {18} : regs'[r] = Last(entry).regs[r]
  <1> DEFINE n == Len(stack)
             f == Last(stack)
             e == Last(entry)
             back == restore_registers(regs, f)
  <1>1. /\ regs \in [Registers -> Int] /\ stack \in Seq(Frames) /\ entry \in Seq(Entries)
        /\ n = Len(entry) /\ n \in Nat /\ (status = "code") = (n = 0)
    BY DEF IInv, Types
  <1>2. /\ status = "handled" /\ n > 0
        /\ regs' = back /\ pc' = back[ELR] /\ masked' = (back[SPSR] = 1)
        /\ stack' = Front(stack) /\ entry' = Front(entry) /\ status' = e.status
    BY <1>1 DEF Return
  <1>3. f = stack[n] /\ e = entry[n] /\ f \in Frames /\ e \in Entries
    BY <1>1, <1>2, FrontFacts
  <1>4. FrameOf(f, e, TRUE)
    BY <1>1, <1>2, <1>3 DEF IInv, Stacked, FrameOf, Done
  <1> HIDE DEF f, e
  <1>5. /\ \A r \in 0..30 \ {18} : r \in Registers /\ r \notin {18, ESR, FAR}
        /\ ELR \in Registers \ {18, ESR, FAR} /\ SPSR \in Registers \ {18, ESR, FAR}
        /\ \A r \in Registers \ {18, ESR, FAR} : r \in Saved
    BY DEF Registers, SP_EL0, Saved, ELR, SPSR, ESR, FAR
  <1>6. \A r \in Registers \ {18, ESR, FAR} : back[r] = f[Offset(r)] /\ back[r] \in Int
    BY <1>3, <1>5, OffsetsDiffer DEF restore_registers, Frames
  <1>7. back \in [Registers -> Int]
    BY <1>1, <1>6 DEF restore_registers
  <1> HIDE DEF back
  <1>8. pc' = e.pc + (IF e.brk THEN 1 ELSE 0)
    BY <1>2, <1>4, <1>5, <1>6 DEF FrameOf
  <1>9. masked' = e.masked
    <2>1. back[SPSR] = (IF e.masked THEN 1 ELSE 0) /\ e.masked \in BOOLEAN
      BY <1>3, <1>4, <1>5, <1>6 DEF FrameOf, Entries
    <2> QED
      BY <1>2, <2>1
  <1>10. \A r \in 0..30 \ {18} : regs'[r] = e.regs[r]
    BY <1>2, <1>4, <1>5, <1>6 DEF FrameOf
  <1>11. /\ stack' \in Seq(Frames) /\ entry' \in Seq(Entries)
         /\ Len(stack') = n - 1 /\ Len(entry') = n - 1
         /\ \A i \in 1..n - 1 : stack'[i] = stack[i] /\ entry'[i] = entry[i]
    BY <1>1, <1>2, FrontFacts
  <1>12. status' \in Levels /\ (status' = "code") = (n = 1)
    <2>1. e.status \in Levels
      BY <1>3 DEF Entries
    <2>2. n \in 1..Len(entry)
      BY <1>1, <1>2
    <2>3. (entry[n].status = "code") = (n = 1)
      BY <2>2 DEF IInv, Nesting
    <2> QED
      BY <1>2, <1>3, <2>1, <2>3
  <1>13. Types'
    <2>1. pc' \in Int /\ regs' \in [Registers -> Int]
      BY <1>2, <1>5, <1>6, <1>7
    <2>2. masked' \in BOOLEAN
      BY <1>3, <1>9 DEF Entries
    <2>3. (status' = "code") = (Len(stack') = 0)
      <3>1. Len(stack') = 0 <=> n = 1
        BY <1>1, <1>11
      <3> QED
        BY <1>12, <3>1
    <2> QED
      BY <1>11, <1>12, <2>1, <2>2, <2>3 DEF Types
  <1>14. Nesting'
    BY <1>1, <1>11 DEF IInv, Nesting
  <1>15. Stacked'
    <2>1. ~Done'
      BY <1>12 DEF Done, Levels
    <2>2. ASSUME NEW i \in 1..n - 1 PROVE FrameOf(stack[i], entry[i], FALSE)
      <3>1. i \in 1..n /\ i # n
        BY <1>1
      <3>2. FrameOf(stack[i], entry[i], i = n /\ Done)
        BY <3>1 DEF IInv, Stacked
      <3> QED
        BY <3>1, <3>2 DEF FrameOf
    <2>3. \A i \in 1..n - 1 : FrameOf(stack'[i], entry'[i], FALSE)
      BY <1>11, <2>2
    <2> QED
      BY <1>11, <2>1, <2>3 DEF Stacked, FrameOf
  <1> QED
    BY <1>8, <1>9, <1>10, <1>13, <1>14, <1>15 DEF IInv, e

-----------------------------------------------------------------------------
(* The steps of handlers and of interrupted code. *)

(* A step that changes only the registers, the place in the code or the    *)
(* mask keeps the invariant.                                               *)
LEMMA QuietStep ==
    ASSUME IInv, UNCHANGED <<stack, entry, status>>,
           regs' \in [Registers -> Int], pc' \in Int, masked' \in BOOLEAN
    PROVE  IInv'
  <1>1. Types'
    BY DEF IInv, Types
  <1>2. Nesting'
    BY DEF IInv, Nesting
  <1>3. Stacked'
    BY DEF IInv, Stacked, FrameOf, Done
  <1> QED
    BY <1>1, <1>2, <1>3 DEF IInv

(* Handle goes through the last frame once. *)
LEMMA HandleStep == ASSUME IInv, Handle PROVE IInv'
  <1> DEFINE n == Len(stack)
             f == stack[n]
             e == entry[n]
             g == print_exception_class_info(f)
  <1>1. /\ stack \in Seq(Frames) /\ entry \in Seq(Entries) /\ n = Len(entry) /\ n \in Nat
        /\ status = "entered" /\ (status = "code") = (n = 0)
    BY DEF IInv, Types, Handle
  <1>2. n \in 1..n /\ f \in Frames /\ e \in Entries
    BY <1>1
  <1>3. ~Done /\ Done' /\ status' \in {"wfi", "handled"}
    BY <1>1 DEF Handle, Done
  <1>4. \A i \in 1..n : FrameOf(stack[i], entry[i], FALSE)
    BY <1>3 DEF IInv, Stacked, FrameOf
  <1>5. g \in Frames /\ FrameOf(g, e, TRUE)
    BY <1>2, <1>4, HandledFrame
  <1> HIDE DEF g
  <1>6. /\ UNCHANGED <<regs, pc, masked, entry>>
        /\ \/ e.handler = "irq_dispatcher" /\ stack' = stack
           \/ stack' = [stack EXCEPT ![n] = g]
    BY DEF Handle, g
  <1>7. /\ stack' \in Seq(Frames) /\ Len(stack') = n
        /\ \A i \in 1..n - 1 : stack'[i] = stack[i]
        /\ FrameOf(stack'[n], e, TRUE)
    <2>1. CASE e.handler = "irq_dispatcher" /\ stack' = stack
      <3>1. ~e.brk
        BY <1>1, <1>2, <2>1 DEF IInv, Nesting
      <3>2. FrameOf(f, e, TRUE)
        BY <1>2, <1>4, <3>1 DEF FrameOf
      <3> QED
        BY <1>1, <2>1, <3>2
    <2>2. CASE stack' = [stack EXCEPT ![n] = g]
      <3>1. /\ stack' \in Seq(Frames) /\ Len(stack') = n /\ stack'[n] = g
            /\ \A i \in 1..n - 1 : stack'[i] = stack[i]
        BY <1>1, <1>2, <1>5, <2>2
      <3> QED
        BY <1>5, <3>1
    <2> QED
      BY <1>6, <2>1, <2>2
  <1>8. Types'
    <2>1. status' # "code" /\ n # 0 /\ status' \in Levels \cup {"wfi", "handled"}
      BY <1>1, <1>3
    <2> QED
      BY <1>1, <1>6, <1>7, <2>1 DEF IInv, Types
  <1>9. Nesting'
    BY <1>6 DEF IInv, Nesting
  <1>10. Stacked'
    <2>1. ASSUME NEW i \in 1..n PROVE FrameOf(stack'[i], entry'[i], i = n)
      <3>1. CASE i = n
        BY <1>6, <1>7, <3>1 DEF FrameOf
      <3>2. CASE i # n
        <4>1. i \in 1..n - 1
          BY <1>1, <3>2
        <4>2. FrameOf(stack'[i], entry'[i], FALSE)
          BY <1>4, <1>6, <1>7, <4>1
        <4> QED
          BY <3>2, <4>2 DEF FrameOf
      <3> QED
        BY <3>1, <3>2
    <2> QED
      BY <1>3, <1>7, <2>1 DEF Stacked, FrameOf
  <1> QED
    BY <1>8, <1>9, <1>10 DEF IInv

(* The frames describe what was interrupted, whatever the depth. *)
LEMMA StepKeepsIInv == ASSUME IInv, [Next]_vars PROVE IInv'
  <1>0. /\ regs \in [Registers -> Int] /\ pc \in Int /\ masked \in BOOLEAN /\ Len(stack) \in Nat
    BY DEF IInv, Types
  <1>1. CASE UNCHANGED vars
    BY <1>0, <1>1, QuietStep DEF vars
  <1>2. CASE Work
    <2>1. 100 * (Len(stack) + 1) + pc + 1 \in Int
      BY <1>0
    <2>2. regs' \in [Registers -> Int]
      BY <1>0, <1>2, <2>1 DEF Work
    <2>3. pc' \in Int /\ UNCHANGED <<masked, stack, status, entry>>
      BY <1>0, <1>2 DEF Work
    <2> QED
      BY <1>0, <2>2, <2>3, QuietStep
  <1>3. CASE Interrupt
    BY <1>3, EnterStep DEF Interrupt, Kinds, Levels, Scratch, Brk
  <1>4. CASE Fault
    BY <1>4, EnterStep DEF Fault, Kinds, Levels
  <1>5. CASE Breakpoint
    BY <1>5, EnterStep DEF Breakpoint, Kinds, Levels
  <1>6. CASE Unhandled
    <2>1. PICK kind \in {"fiq", "serror"} : Enter("spx", kind, Scratch)
      BY <1>6 DEF Unhandled
    <2> QED
      BY <1>6, <2>1, EnterStep DEF Unhandled, Kinds, Levels, Scratch, Brk
  <1>7. CASE Handle
    BY <1>7, HandleStep
  <1>8. CASE Woken
    <2>1. /\ UNCHANGED <<regs, pc, masked, stack, entry>>
          /\ status = "wfi" /\ status' = "handled"
      BY <1>8 DEF Woken
    <2>2. Types'
      BY <2>1 DEF IInv, Types
    <2>3. Nesting' /\ Done /\ Done'
      BY <2>1 DEF IInv, Nesting, Done
    <2>4. Stacked'
      BY <2>1, <2>3 DEF IInv, Stacked, FrameOf
    <2> QED
      BY <2>2, <2>3, <2>4 DEF IInv
  <1>9. CASE Return
    BY <1>9, ReturnStep
  <1>10. CASE panic
    <2>1. pc' \in Int /\ masked' \in BOOLEAN /\ UNCHANGED <<regs, stack, status, entry>>
      <3>1. UNCHANGED <<regs, stack, status, entry>> /\ (masked' = masked \/ masked' = TRUE)
        BY <1>10 DEF panic
      <3>2. pc' \in {Brk, Wfi, Unreachable}
        BY <1>10 DEF panic
      <3>3. pc' \in Int
        BY <3>2 DEF Brk, Wfi, Unreachable
      <3>4. masked' \in BOOLEAN
        BY <1>0, <3>1
      <3> QED
        BY <3>1, <3>3, <3>4
    <2> QED
      BY <1>0, <2>1, QuietStep
  <1> QED
    BY <1>1, <1>2, <1>3, <1>4, <1>5, <1>6, <1>7, <1>8, <1>9, <1>10 DEF Next

-----------------------------------------------------------------------------
(* The invariant holds in every reachable state. *)
THEOREM Invariance == Spec => []IInv
  <1>1. Init => IInv
    <2> SUFFICES ASSUME Init PROVE IInv
      OBVIOUS
    <2>1. Types
      <3>1. regs \in [Registers -> Int]
        BY DEF Init, Scratch
      <3>4. pc \in Int /\ masked \in BOOLEAN
        <4>1. pc = 0 /\ masked = FALSE
          BY DEF Init
        <4>2. pc \in Int
          BY <4>1
        <4>3. masked \in BOOLEAN
          BY <4>1
        <4> QED
          BY <4>2, <4>3
      <3>2. /\ stack \in Seq(Frames) /\ Len(stack) = 0
            /\ entry \in Seq(Entries) /\ Len(entry) = 0
        BY DEF Init
      <3>3. status = "code" /\ status \in Levels
        BY DEF Init, Levels
      <3> QED
        BY <3>1, <3>2, <3>3, <3>4 DEF Types
    <2>2. Nesting /\ Stacked
      BY DEF Init, Nesting, Stacked
    <2> QED
      BY <2>1, <2>2 DEF IInv
  <1>2. IInv /\ [Next]_vars => IInv'
    BY StepKeepsIInv
  <1> QED
    BY <1>1, <1>2, PTL DEF Spec

(* Every frame on the stack holds the registers of the code it belongs to, *)
(* however deep exceptions nest.                                           *)
THEOREM FramesHold == Spec => []TypeOK
  <1>1. IInv => TypeOK
    <2> SUFFICES ASSUME IInv PROVE TypeOK
      OBVIOUS
    <2>1. Len(stack) = Len(entry) /\ (status = "code") = (Len(stack) = 0) /\ stack \in Seq(Frames)
      BY DEF IInv, Types
    <2>2. Len(stack) = 0 <=> stack = <<>>
      BY <2>1
    <2>3. \A i \in 1..Len(stack) : \A r \in 0..30 \ {18} : stack[i][Offset(r)] = entry[i].regs[r]
      BY DEF IInv, Stacked, FrameOf
    <2> QED
      BY <2>1, <2>2, <2>3 DEF TypeOK
  <1> QED
    BY <1>1, Invariance, PTL

(* A step that makes the stack shorter is a return. *)
LEMMA OnlyReturnPops == ASSUME IInv, [Next]_vars, Returning PROVE Return
  <1>1. Len(stack) \in Nat /\ stack \in Seq(Frames) /\ Len(stack') < Len(stack) /\ status = "handled"
    BY DEF IInv, Types, Returning
  <1>2. stack' # stack
    BY <1>1
  <1>3. ~Work /\ ~Handle /\ ~Woken /\ ~panic /\ ~UNCHANGED vars
    BY <1>1, <1>2 DEF Work, Handle, Woken, panic, vars
  <1>4. ~Interrupt /\ ~Fault /\ ~Breakpoint /\ ~Unhandled
    BY <1>1 DEF Interrupt, Fault, Breakpoint, Unhandled
  <1> QED
    BY <1>3, <1>4 DEF Next

(* Each exception returns to the instruction it interrupted, or past its   *)
(* brk, with the mask that instruction had.                                *)
THEOREM Resumption == Spec => ResumesWhereInterrupted
  <1>1. IInv /\ [Next]_vars =>
            [Returning => /\ pc' = Last(entry).pc + (IF Last(entry).brk THEN 1 ELSE 0)
                          /\ masked' = Last(entry).masked]_vars
    BY OnlyReturnPops, ReturnStep
  <1> QED
    BY <1>1, Invariance, PTL DEF Spec, ResumesWhereInterrupted

(* Interrupted code finds its registers, x18 aside, as they were. *)
THEOREM Preservation == Spec => RegistersPreserved
  <1>1. IInv /\ [Next]_vars =>
            [Returning => \A r \in 0..30 \ {18} : regs'[r] = Last(entry).regs[r]]_vars
    BY OnlyReturnPops, ReturnStep
  <1> QED
    BY <1>1, Invariance, PTL DEF Spec, RegistersPreserved
=============================================================================
