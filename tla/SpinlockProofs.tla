--------------------------- MODULE SpinlockProofs ---------------------------
(* Proofs about module Spinlock, for any set of CPUs and locks.            *)
EXTENDS Spinlock, TLAPS

(* A context inside a call knows the lock the call is about. *)
SpIsLock ==
    \A c \in CPUs, x \in Levels :
        pc[c][x] \notin {"run", "pop", "panic"} => sp[c][x] \in Locks

(* The context a CPU does not execute is at rest: the handler is not       *)
(* there, or the thread was interrupted where interrupts are unmasked.     *)
OtherAtRest ==
    \A c \in CPUs :
        /\ level[c] = "thread" => pc[c]["irq"] = "run" /\ held[c]["irq"] = <<>>
        /\ level[c] = "irq" => /\ pc[c]["thread"] \in {"run", "push"}
                               /\ held[c]["thread"] = <<>>
                               /\ started[c]

(* What irq_push_intr saved is the mask the call must restore. *)
MaskSaved ==
    \A c \in CPUs :
        /\ pc[c]["thread"] = "push" =>
               (enabled_previously[c]["thread"] <=>
                    started[c] /\ held[c]["thread"] = <<>>)
        /\ pc[c]["irq"] = "push" => ~enabled_previously[c]["irq"]
        /\ irq_disable_depth[c] > 0 =>
               (irq_was_enabled[c] <=> started[c] /\ level[c] = "thread")

(* No element of s occurs twice. *)
Injective(s) == \A i, j \in 1..Len(s) : s[i] = s[j] => i = j

(* The sections of one context are about different locks. *)
NoRepeat ==
    \A c \in CPUs, x \in Levels : Injective(held[c][x])

(* locked says whether some context is in a section of the lock. *)
LockedExact ==
    \A l \in Locks :
        locked[l] <=> \E c \in CPUs, x \in Levels : l \in HeldBy(c, x)

(* cpu names a CPU only while that CPU is in a section of the lock, and    *)
(* does so throughout but for the two windows at the ends of the section.  *)
CpuExact ==
    \A l \in Locks, c \in CPUs :
        /\ cpu[l] = c => \E x \in Levels : l \in HeldBy(c, x)
        /\ \A x \in Levels :
               l \in HeldBy(c, x) =>
                   \/ cpu[l] = c
                   \/ pc[c][x] \in {"set_cpu", "unlock"} /\ sp[c][x] = l

(* A context in a call is about to take a lock it does not have, or gives  *)
(* back its newest one; before the store of release, cpu is already null.  *)
CallOnHeld ==
    \A c \in CPUs, x \in Levels :
        /\ pc[c][x] \in {"push", "acq_locked", "acq_cpu", "exchange"} =>
               sp[c][x] \notin HeldBy(c, x)
        /\ pc[c][x] \in {"set_cpu", "rel_locked", "rel_cpu", "clear_cpu", "unlock"} =>
               held[c][x] # <<>> /\ Head(held[c][x]) = sp[c][x]
        /\ pc[c][x] = "unlock" => cpu[sp[c][x]] = NULL

IInv ==
    /\ TypeOK
    /\ MutualExclusion
    /\ NoPanic
    /\ InterruptsExact
    /\ DepthBalanced
    /\ SpIsLock
    /\ OtherAtRest
    /\ MaskSaved
    /\ NoRepeat
    /\ LockedExact
    /\ CpuExact
    /\ CallOnHeld

-----------------------------------------------------------------------------
(* Exchange puts a lock on the stack of sections of a context. *)
LEMMA PushHeld ==
    ASSUME NEW S, NEW s \in Seq(S), NEW e \in S, e \notin Range(s), Injective(s)
    PROVE  LET t == <<e>> \o s
           IN  /\ t \in Seq(S) /\ t # <<>> /\ Head(t) = e
               /\ Len(t) = Len(s) + 1
               /\ Range(t) = Range(s) \cup {e}
               /\ Injective(t)
<1> DEFINE t == <<e>> \o s
<1>1. t \in Seq(S) /\ Len(t) = Len(s) + 1 /\ t # <<>> /\ Head(t) = e
  OBVIOUS
<1>2. /\ DOMAIN t = 1..(Len(s) + 1) /\ DOMAIN s = 1..Len(s)
      /\ t[1] = e
      /\ \A i \in 1..Len(s) : t[i + 1] = s[i]
  OBVIOUS
<1>3. \A i \in DOMAIN t : i # 1 => i - 1 \in DOMAIN s /\ t[i] = s[i - 1]
  BY <1>1, <1>2
<1>4. Range(t) = Range(s) \cup {e}
  <2> HIDE DEF t
  <2>1. ASSUME NEW y \in Range(t) PROVE y \in Range(s) \cup {e}
    BY <1>2, <1>3 DEF Range
  <2>2. ASSUME NEW y \in Range(s) PROVE y \in Range(t)
    <3>1. PICK i \in DOMAIN s : y = s[i]
      BY DEF Range
    <3>2. i + 1 \in DOMAIN t /\ t[i + 1] = y
      BY <3>1, <1>2
    <3> QED BY <3>2 DEF Range
  <2>3. e \in Range(t)
    BY <1>2 DEF Range
  <2> QED BY <2>1, <2>2, <2>3
<1>5. Injective(t)
  <2> HIDE DEF t
  <2> SUFFICES ASSUME NEW i \in DOMAIN t, NEW j \in DOMAIN t, t[i] = t[j]
               PROVE  i = j
    BY <1>1, <1>2 DEF Injective
  <2>1. \A k \in DOMAIN s : s[k] # e
    BY DEF Range
  <2>2. CASE i = 1 \/ j = 1
    BY <2>1, <2>2, <1>2, <1>3
  <2>3. CASE i # 1 /\ j # 1
    <3>1. i - 1 = j - 1
      BY <2>3, <1>2, <1>3 DEF Injective
    <3> QED BY <3>1, <1>2
  <2> QED BY <2>2, <2>3
<1> QED BY <1>1, <1>4, <1>5

(* The store of release takes the newest lock off the stack. *)
LEMMA PopHeld ==
    ASSUME NEW S, NEW s \in Seq(S), s # <<>>, Injective(s)
    PROVE  /\ Head(s) \in Range(s)
           /\ Tail(s) \in Seq(S)
           /\ Len(Tail(s)) = Len(s) - 1
           /\ Range(Tail(s)) = Range(s) \ {Head(s)}
           /\ Injective(Tail(s))
<1> DEFINE t == Tail(s)
<1>1. t \in Seq(S) /\ Len(t) = Len(s) - 1 /\ Len(s) \in Nat /\ Len(s) > 0
  OBVIOUS
<1>2. /\ DOMAIN s = 1..Len(s) /\ DOMAIN t = 1..(Len(s) - 1)
      /\ s[1] = Head(s)
      /\ \A i \in DOMAIN t : i + 1 \in DOMAIN s /\ t[i] = s[i + 1]
  BY <1>1
<1> HIDE DEF t
<1>3. Head(s) \in Range(s)
  BY <1>1, <1>2 DEF Range
<1>4. ASSUME NEW y \in Range(t) PROVE y \in Range(s) \ {Head(s)}
  <2>1. PICK i \in DOMAIN t : y = t[i]
    BY DEF Range
  <2>2. i + 1 \in DOMAIN s /\ y = s[i + 1] /\ i + 1 # 1 /\ 1 \in DOMAIN s
    BY <2>1, <1>1, <1>2
  <2>3. y # s[1]
    BY <2>2, <1>2 DEF Injective
  <2> QED BY <2>2, <2>3, <1>2 DEF Range
<1>5. ASSUME NEW y \in Range(s) \ {Head(s)} PROVE y \in Range(t)
  <2>1. PICK i \in DOMAIN s : y = s[i]
    BY DEF Range
  <2>2. i # 1 /\ i - 1 \in DOMAIN t /\ t[i - 1] = s[i]
    BY <2>1, <1>1, <1>2
  <2> QED BY <2>1, <2>2 DEF Range
<1>6. Injective(t)
  <2> SUFFICES ASSUME NEW i \in DOMAIN t, NEW j \in DOMAIN t, t[i] = t[j]
               PROVE  i = j
    BY <1>1, <1>2 DEF Injective
  <2>1. i + 1 = j + 1
    BY <1>2 DEF Injective
  <2> QED BY <2>1, <1>2
<1> QED BY <1>1, <1>3, <1>4, <1>5, <1>6 DEF t

(* The state in which the boot CPU enters the kernel: every lock is free   *)
(* and every masking stack empty.                                          *)
LEMMA InitInv == Init => IInv
<1> SUFFICES ASSUME Init PROVE IInv
  OBVIOUS
<1>1. \A c \in CPUs, x \in Levels : held[c][x] = <<>> /\ Range(held[c][x]) = {}
  BY DEF Init, Range
<1> QED
  BY <1>1, SpinlockAssumption
  DEF Init, IInv, TypeOK, MutualExclusion, NoPanic, InterruptsExact,
      DepthBalanced, Owes, SpIsLock, OtherAtRest, MaskSaved, NoRepeat,
      Injective, LockedExact, CpuExact, CallOnHeld, HeldBy, Levels, PCs


-----------------------------------------------------------------------------
(* irq_disable_depth is zero exactly when no context of the CPU is between *)
(* a push and the matching pop.                                            *)
LEMMA DepthMeaning ==
    ASSUME IInv, NEW c \in CPUs
    PROVE  /\ \A x \in Levels : Owes(c, x) \in Nat
           /\ irq_disable_depth[c] \in Nat
           /\ irq_disable_depth[c] = Owes(c, level[c])
           /\ \A x \in Levels : pc[c][x] = "pop" => level[c] = x /\ irq_disable_depth[c] > 0
           /\ irq_disable_depth[c] = 0 <=>
                  /\ held[c][level[c]] = <<>>
                  /\ pc[c][level[c]] \in {"run", "push"}
<1>1. \A x \in Levels :
          /\ Len(held[c][x]) \in Nat
          /\ Len(held[c][x]) = 0 <=> held[c][x] = <<>>
  BY DEF IInv, TypeOK
<1>2. \A x \in Levels : Owes(c, x) \in Nat
  <2> TAKE x \in Levels
  <2>1. CASE pc[c][x] \in {"acq_locked", "acq_cpu", "exchange", "pop"}
    BY <1>1, <2>1 DEF Owes
  <2>2. CASE pc[c][x] \notin {"acq_locked", "acq_cpu", "exchange", "pop"}
    BY <1>1, <2>2 DEF Owes
  <2> QED BY <2>1, <2>2
<1>3. ASSUME NEW x \in Levels
      PROVE  Owes(c, x) = 0 <=> held[c][x] = <<>> /\ pc[c][x] \in {"run", "push"}
  <2>1. CASE pc[c][x] \in {"acq_locked", "acq_cpu", "exchange", "pop"}
    BY <1>1, <2>1 DEF Owes
  <2>2. CASE pc[c][x] \in {"run", "push"}
    BY <1>1, <2>2 DEF Owes
  <2>3. CASE pc[c][x] \in {"set_cpu", "rel_locked", "rel_cpu", "clear_cpu", "unlock"}
    BY <1>1, <2>3 DEF Owes, IInv, CallOnHeld
  <2> QED BY <2>1, <2>2, <2>3 DEF IInv, TypeOK, PCs, NoPanic
<1>4. \A x \in Levels : level[c] # x => Owes(c, x) = 0
  BY <1>3 DEF IInv, TypeOK, OtherAtRest, Levels
<1>5. irq_disable_depth[c] = Owes(c, level[c])
  BY <1>2, <1>4 DEF IInv, DepthBalanced, TypeOK, Levels
<1>6. level[c] \in Levels
  BY DEF IInv, TypeOK
<1>7. \A x \in Levels : pc[c][x] = "pop" => level[c] = x /\ irq_disable_depth[c] > 0
  BY <1>2, <1>3, <1>4, <1>5
<1> QED BY <1>2, <1>3, <1>5, <1>6, <1>7

(* A step that changes what one context owes by k, and its CPU's depth     *)
(* likewise, keeps the balance.                                            *)
LEMMA DepthStep ==
    ASSUME IInv, NEW c \in CPUs, NEW x \in Levels, NEW k \in Int,
           irq_disable_depth' = [irq_disable_depth EXCEPT ![c] = @ + k],
           \A d \in CPUs, y \in Levels :
               Owes(d, y)' = IF d = c /\ y = x THEN Owes(d, y) + k ELSE Owes(d, y)
    PROVE  DepthBalanced'
<1>1. \A d \in CPUs, y \in Levels : Owes(d, y) \in Nat
  BY DepthMeaning
<1>2. ASSUME NEW d \in CPUs
      PROVE  irq_disable_depth'[d] = Owes(d, "thread")' + Owes(d, "irq")'
  <2>1. irq_disable_depth[d] = Owes(d, "thread") + Owes(d, "irq")
    BY DEF IInv, DepthBalanced
  <2>2. "thread" \in Levels /\ "irq" \in Levels
    BY DEF Levels
  <2>3. CASE d = c
    BY <1>1, <2>1, <2>2, <2>3 DEF IInv, TypeOK, Levels
  <2>4. CASE d # c
    BY <1>1, <2>1, <2>2, <2>4 DEF IInv, TypeOK
  <2> QED BY <2>3, <2>4
<1> QED BY <1>2 DEF DepthBalanced

(* A step that moves no lock, depth or program counter keeps the balance.  *)
LEMMA DepthFrame ==
    ASSUME IInv, UNCHANGED irq_disable_depth,
           \A d \in CPUs, y \in Levels : Owes(d, y)' = Owes(d, y)
    PROVE  DepthBalanced'
BY DEF IInv, DepthBalanced, Levels

(* The sections are as before. *)
LEMMA HeldFrame ==
    ASSUME IInv, UNCHANGED <<held, locked>>
    PROVE  (MutualExclusion /\ NoRepeat /\ LockedExact)'
<1>1. MutualExclusion'
  BY DEF IInv, MutualExclusion, HeldBy
<1>2. NoRepeat'
  BY DEF IInv, NoRepeat
<1>3. LockedExact'
  BY DEF IInv, LockedExact, HeldBy
<1> QED BY <1>1, <1>2, <1>3


(* During a release, and just after an exchange, the lock of the call is   *)
(* one the context is in a section of, and no other context is.            *)
LEMMA CallIsOwner ==
    ASSUME IInv, NEW c \in CPUs, NEW x \in Levels,
           pc[c][x] \in {"set_cpu", "rel_locked", "rel_cpu", "clear_cpu", "unlock"}
    PROVE  /\ sp[c][x] \in Locks /\ sp[c][x] \in HeldBy(c, x)
           /\ \A d \in CPUs, y \in Levels :
                  sp[c][x] \in HeldBy(d, y) => d = c /\ y = x
<1>1. sp[c][x] \in Locks
  BY DEF IInv, SpIsLock
<1>2. held[c][x] \in Seq(Locks) /\ held[c][x] # <<>>
      /\ Head(held[c][x]) = sp[c][x] /\ Injective(held[c][x])
  BY DEF IInv, CallOnHeld, TypeOK, NoRepeat
<1>3. sp[c][x] \in HeldBy(c, x)
  BY <1>2, PopHeld DEF HeldBy
<1>4. ASSUME NEW d \in CPUs, NEW y \in Levels, sp[c][x] \in HeldBy(d, y)
      PROVE  d = c /\ y = x
  BY <1>3, <1>4 DEF IInv, MutualExclusion
<1> QED BY <1>1, <1>3, <1>4

(* holding() is exact for the CPU that asks: the panic of spinlock_acquire *)
(* and those of spinlock_release are not reached.                          *)
LEMMA HoldingExact ==
    ASSUME IInv, NEW c \in CPUs, NEW x \in Levels, level[c] = x
    PROVE  /\ pc[c][x] = "acq_cpu" => cpu[sp[c][x]] # c
           /\ pc[c][x] = "rel_locked" => locked[sp[c][x]]
           /\ pc[c][x] = "rel_cpu" => cpu[sp[c][x]] = c
<1>1. ASSUME pc[c][x] = "acq_cpu", cpu[sp[c][x]] = c PROVE FALSE
  <2>1. sp[c][x] \in Locks /\ sp[c][x] \notin HeldBy(c, x)
    BY <1>1 DEF IInv, SpIsLock, CallOnHeld
  <2>2. PICK y \in Levels : sp[c][x] \in HeldBy(c, y)
    BY <1>1, <2>1 DEF IInv, CpuExact
  <2>3. y # x
    BY <2>1, <2>2
  <2>4. held[c][y] = <<>>
    BY <2>3, <1>1 DEF IInv, OtherAtRest, Levels
  <2> QED BY <2>2, <2>4 DEF HeldBy, Range
<1>2. pc[c][x] = "rel_locked" => locked[sp[c][x]]
  BY CallIsOwner DEF IInv, LockedExact
<1>3. pc[c][x] = "rel_cpu" => cpu[sp[c][x]] = c
  BY CallIsOwner DEF IInv, CpuExact
<1> QED BY <1>1, <1>2, <1>3

(* A load of holding() moves the program counter within the same call. *)
LEMMA LoadInv ==
    ASSUME IInv, NEW c \in CPUs, NEW x \in Levels, NEW from, NEW to,
           Step(c, x, from, to),
           \/ from \in {"acq_locked", "acq_cpu"} /\ to \in {"acq_cpu", "exchange"}
           \/ from \in {"rel_locked", "rel_cpu"} /\ to \in {"rel_cpu", "clear_cpu"},
           UNCHANGED <<locked, cpu, intr, irq_disable_depth, irq_was_enabled,
                       started, level, sp, enabled_previously, held>>
    PROVE  IInv'
<1> USE DEF Step, Levels, PCs
<1>1. TypeOK' /\ NoPanic'
  BY DEF IInv, TypeOK, NoPanic
<1>2. InterruptsExact'
  BY DEF IInv, InterruptsExact
<1>3. DepthBalanced'
  <2>1. \A d \in CPUs, y \in Levels : Owes(d, y)' = Owes(d, y)
    BY DEF IInv, TypeOK, Owes
  <2> QED BY <2>1, DepthFrame
<1>4. SpIsLock' /\ OtherAtRest'
  BY DEF IInv, TypeOK, SpIsLock, OtherAtRest
<1>5. MaskSaved'
  BY DEF IInv, TypeOK, MaskSaved
<1>6. CpuExact' /\ CallOnHeld'
  BY DEF IInv, TypeOK, CpuExact, CallOnHeld, HeldBy
<1>7. (MutualExclusion /\ NoRepeat /\ LockedExact)'
  BY HeldFrame
<1> QED BY <1>1, <1>2, <1>3, <1>4, <1>5, <1>6, <1>7 DEF IInv

-----------------------------------------------------------------------------
(* The call of spinlock_acquire and its reading of the mask. *)
LEMMA CallAcquireInv ==
    ASSUME IInv, NEW c \in CPUs, NEW x \in Levels, NEW l \in Locks,
           CallAcquire(c, x, l)
    PROVE  IInv'
<1> USE DEF CallAcquire, Step, Levels, PCs
<1>1. TypeOK' /\ NoPanic'
  BY DEF IInv, TypeOK, NoPanic
<1>2. InterruptsExact'
  BY DEF IInv, InterruptsExact
<1>3. DepthBalanced'
  <2>1. \A d \in CPUs, y \in Levels : Owes(d, y)' = Owes(d, y)
    BY DEF IInv, TypeOK, Owes
  <2> QED BY <2>1, DepthFrame
<1>4. SpIsLock' /\ OtherAtRest'
  BY DEF IInv, TypeOK, SpIsLock, OtherAtRest
<1>5. MaskSaved'
  BY DepthMeaning DEF IInv, TypeOK, MaskSaved, InterruptsExact
<1>6. CpuExact'
  BY DEF IInv, TypeOK, CpuExact, HeldBy
<1>7. CallOnHeld'
  <2>1. l \notin HeldBy(c, x)
    BY SpinlockAssumption
  <2> QED BY <2>1 DEF IInv, TypeOK, CallOnHeld, HeldBy
<1>8. (MutualExclusion /\ NoRepeat /\ LockedExact)'
  BY HeldFrame
<1> QED BY <1>1, <1>2, <1>3, <1>4, <1>5, <1>6, <1>7, <1>8 DEF IInv

(* irq_push_intr masks, so its CPU's other context stays at rest. *)
LEMMA PushInv ==
    ASSUME IInv, NEW c \in CPUs, NEW x \in Levels, irq_push_intr(c, x)
    PROVE  IInv'
<1> USE DEF irq_push_intr, Step, Levels, PCs
<1>0. irq_disable_depth[c] \in Nat
      /\ (irq_disable_depth[c] = 0 <=> held[c][x] = <<>>)
  BY DepthMeaning
<1>1. TypeOK' /\ NoPanic'
  BY DEF IInv, TypeOK, NoPanic
<1>2. InterruptsExact'
  BY <1>0 DEF IInv, TypeOK, InterruptsExact
<1>3. DepthBalanced'
  <2>1. \A d \in CPUs, y \in Levels :
            Owes(d, y)' = IF d = c /\ y = x THEN Owes(d, y) + 1 ELSE Owes(d, y)
    BY DEF IInv, TypeOK, Owes
  <2>2. irq_disable_depth' = [irq_disable_depth EXCEPT ![c] = @ + 1] /\ 1 \in Int
    OBVIOUS
  <2> HIDE DEF irq_push_intr
  <2> QED BY <2>1, <2>2, DepthStep
<1>4. SpIsLock' /\ OtherAtRest'
  BY DEF IInv, TypeOK, SpIsLock, OtherAtRest
<1>5. MaskSaved'
  BY <1>0 DEF IInv, TypeOK, MaskSaved, OtherAtRest, InterruptsExact
<1>6. CpuExact' /\ CallOnHeld'
  BY SMTT(30) DEF IInv, TypeOK, CpuExact, CallOnHeld, HeldBy
<1>7. (MutualExclusion /\ NoRepeat /\ LockedExact)'
  BY HeldFrame
<1> QED BY <1>1, <1>2, <1>3, <1>4, <1>5, <1>6, <1>7 DEF IInv

(* The exchange that finds the lock free opens the only section of it. *)
LEMMA ExchangeInv ==
    ASSUME IInv, NEW c \in CPUs, NEW x \in Levels, Exchange(c, x)
    PROVE  IInv'
<1> DEFINE l == sp[c][x]
<1> USE DEF Exchange, Step, Levels, PCs
<1>1. l \in Locks /\ ~locked[l]
  BY DEF IInv, SpIsLock
<1>2. \A d \in CPUs, y \in Levels : l \notin HeldBy(d, y)
  BY <1>1 DEF IInv, LockedExact
<1>3. held[c][x] \in Seq(Locks) /\ Injective(held[c][x]) /\ l \notin Range(held[c][x])
  BY <1>2 DEF IInv, TypeOK, NoRepeat, HeldBy
<1> DEFINE t == <<l>> \o held[c][x]
<1>4. /\ t \in Seq(Locks) /\ t # <<>> /\ Head(t) = l
      /\ Len(t) = Len(held[c][x]) + 1
      /\ Range(t) = Range(held[c][x]) \cup {l}
      /\ Injective(t)
  BY <1>1, <1>3, PushHeld
<1>5. \A d \in CPUs, y \in Levels :
          held'[d][y] = IF d = c /\ y = x THEN t ELSE held[d][y]
  BY DEF IInv, TypeOK
<1>7. TypeOK'
  BY <1>1, <1>4 DEF IInv, TypeOK
<1> HIDE DEF t
<1>6. \A d \in CPUs, y \in Levels :
          HeldBy(d, y)' = IF d = c /\ y = x THEN HeldBy(d, y) \cup {l} ELSE HeldBy(d, y)
  <2> HIDE DEF Exchange
  <2> TAKE d \in CPUs, y \in Levels
  <2>1. CASE d = c /\ y = x
    BY <2>1, <1>4, <1>5 DEF HeldBy
  <2>2. CASE ~(d = c /\ y = x)
    BY <2>2, <1>5 DEF HeldBy
  <2> QED BY <2>1, <2>2
<1>8. NoPanic' /\ SpIsLock'
  BY DEF IInv, TypeOK, NoPanic, SpIsLock
<1>9. InterruptsExact'
  BY DEF IInv, InterruptsExact
<1>10. DepthBalanced'
  <2>1. ASSUME NEW d \in CPUs, NEW y \in Levels PROVE Owes(d, y)' = Owes(d, y)
    <3>1. CASE d = c /\ y = x
      BY <3>1, <1>4, <1>5 DEF IInv, TypeOK, Owes
    <3>2. CASE ~(d = c /\ y = x)
      BY <3>2, <1>5 DEF IInv, TypeOK, Owes
    <3> QED BY <3>1, <3>2
  <2> QED BY <2>1, DepthFrame
<1>11. OtherAtRest'
  BY <1>5 DEF IInv, TypeOK, OtherAtRest
<1>12. MaskSaved'
  BY <1>5 DEF IInv, TypeOK, MaskSaved
<1>13. MutualExclusion'
  BY <1>2, <1>6 DEF IInv, MutualExclusion
<1>14. NoRepeat'
  BY <1>4, <1>5 DEF IInv, NoRepeat
<1>15. LockedExact'
  <2> SUFFICES ASSUME NEW m \in Locks PROVE LockedExact!(m)'
    BY DEF LockedExact
  <2>1. CASE m = l
    BY <2>1, <1>1, <1>6 DEF IInv, TypeOK
  <2>2. CASE m # l
    <3>1. locked'[m] = locked[m]
      BY <2>2 DEF IInv, TypeOK
    <3>2. \A d \in CPUs, y \in Levels : m \in HeldBy(d, y)' <=> m \in HeldBy(d, y)
      BY <2>2, <1>6
    <3>3. LockedExact!(m)
      BY DEF IInv, LockedExact
    <3> HIDE DEF Exchange, Levels
    <3> QED BY <3>1, <3>2, <3>3
  <2> QED BY <2>1, <2>2
<1>16. CpuExact'
  BY <1>6 DEF IInv, TypeOK, CpuExact
<1>17. CallOnHeld'
  <2> SUFFICES ASSUME NEW d \in CPUs, NEW y \in Levels
               PROVE  CallOnHeld!(d, y)'
    BY DEF CallOnHeld
  <2>1. CASE d = c /\ y = x
    BY <2>1, <1>4, <1>5 DEF IInv, TypeOK
  <2>2. CASE ~(d = c /\ y = x)
    BY <2>2, <1>5, <1>6, SMTT(30) DEF IInv, TypeOK, CallOnHeld
  <2> QED BY <2>1, <2>2
<1> QED BY <1>7, <1>8, <1>9, <1>10, <1>11, <1>12, <1>13, <1>14, <1>15, <1>16,
           <1>17 DEF IInv

(* Only the CPU in the section writes lock->cpu, here its own. *)
LEMMA SetCpuInv ==
    ASSUME IInv, NEW c \in CPUs, NEW x \in Levels, SetCpu(c, x)
    PROVE  IInv'
<1> USE DEF SetCpu, Step, Levels, PCs
<1>0. /\ sp[c][x] \in Locks /\ sp[c][x] \in HeldBy(c, x)
      /\ \A d \in CPUs, y \in Levels :
             sp[c][x] \in HeldBy(d, y) => d = c /\ y = x
  BY CallIsOwner
<1>1. TypeOK' /\ NoPanic'
  BY <1>0 DEF IInv, TypeOK, NoPanic
<1>2. InterruptsExact'
  BY DEF IInv, InterruptsExact
<1>3. DepthBalanced'
  <2>1. \A d \in CPUs, y \in Levels : Owes(d, y)' = Owes(d, y)
    BY DEF IInv, TypeOK, Owes
  <2> QED BY <2>1, DepthFrame
<1>4. SpIsLock' /\ OtherAtRest'
  BY DEF IInv, TypeOK, SpIsLock, OtherAtRest
<1>5. MaskSaved'
  BY DEF IInv, TypeOK, MaskSaved
<1>6. \A d \in CPUs, y \in Levels : HeldBy(d, y)' = HeldBy(d, y)
  BY DEF HeldBy
<1>7. CpuExact'
  <2> SUFFICES ASSUME NEW l \in Locks, NEW d \in CPUs
               PROVE  CpuExact!(l, d)'
    BY DEF CpuExact
  <2>1. CASE l = sp[c][x]
    BY <2>1, <1>0, <1>6 DEF IInv, TypeOK
  <2>2. CASE l # sp[c][x]
    BY <2>2, <1>6 DEF IInv, TypeOK, CpuExact
  <2> QED BY <2>1, <2>2
<1>8. CallOnHeld'
  <2>1. \A d \in CPUs, y \in Levels :
            pc[d][y] = "unlock" => sp[d][y] # sp[c][x] /\ sp[d][y] \in Locks
    BY <1>0, CallIsOwner
  <2> QED BY <1>6, <2>1, SMTT(30) DEF IInv, TypeOK, CallOnHeld
<1>9. (MutualExclusion /\ NoRepeat /\ LockedExact)'
  BY HeldFrame
<1> QED BY <1>1, <1>2, <1>3, <1>4, <1>5, <1>7, <1>8, <1>9 DEF IInv

(* spinlock_release is called on the newest section of the context. *)
LEMMA CallReleaseInv ==
    ASSUME IInv, NEW c \in CPUs, NEW x \in Levels, CallRelease(c, x)
    PROVE  IInv'
<1> USE DEF CallRelease, Step, Levels, PCs
<1>0. Head(held[c][x]) \in Locks
  BY DEF IInv, TypeOK
<1>1. TypeOK' /\ NoPanic'
  BY <1>0 DEF IInv, TypeOK, NoPanic
<1>2. InterruptsExact'
  BY DEF IInv, InterruptsExact
<1>3. DepthBalanced'
  <2>1. \A d \in CPUs, y \in Levels : Owes(d, y)' = Owes(d, y)
    BY DEF IInv, TypeOK, Owes
  <2> QED BY <2>1, DepthFrame
<1>4. SpIsLock' /\ OtherAtRest'
  BY <1>0 DEF IInv, TypeOK, SpIsLock, OtherAtRest
<1>5. MaskSaved'
  BY DEF IInv, TypeOK, MaskSaved
<1>6. CpuExact'
  BY DEF IInv, TypeOK, CpuExact, HeldBy
<1>8. CallOnHeld'
  BY SMTT(30) DEF IInv, TypeOK, CallOnHeld, HeldBy
<1>7. (MutualExclusion /\ NoRepeat /\ LockedExact)'
  BY HeldFrame
<1> QED BY <1>1, <1>2, <1>3, <1>4, <1>5, <1>6, <1>7, <1>8 DEF IInv

(* lock->cpu is cleared while the lock is still held. *)
LEMMA ClearCpuInv ==
    ASSUME IInv, NEW c \in CPUs, NEW x \in Levels, ClearCpu(c, x)
    PROVE  IInv'
<1> USE DEF ClearCpu, Step, Levels, PCs
<1>0. /\ sp[c][x] \in Locks /\ sp[c][x] \in HeldBy(c, x)
      /\ \A d \in CPUs, y \in Levels :
             sp[c][x] \in HeldBy(d, y) => d = c /\ y = x
  BY CallIsOwner
<1>1. TypeOK' /\ NoPanic'
  BY DEF IInv, TypeOK, NoPanic
<1>2. InterruptsExact'
  BY DEF IInv, InterruptsExact
<1>3. DepthBalanced'
  <2>1. \A d \in CPUs, y \in Levels : Owes(d, y)' = Owes(d, y)
    BY DEF IInv, TypeOK, Owes
  <2> QED BY <2>1, DepthFrame
<1>4. SpIsLock' /\ OtherAtRest'
  BY DEF IInv, TypeOK, SpIsLock, OtherAtRest
<1>5. MaskSaved'
  BY DEF IInv, TypeOK, MaskSaved
<1>6. \A d \in CPUs, y \in Levels : HeldBy(d, y)' = HeldBy(d, y)
  BY DEF HeldBy
<1>7. CpuExact'
  <2> SUFFICES ASSUME NEW l \in Locks, NEW d \in CPUs
               PROVE  CpuExact!(l, d)'
    BY DEF CpuExact
  <2>1. CASE l = sp[c][x]
    BY <2>1, <1>0, <1>6, SpinlockAssumption DEF IInv, TypeOK
  <2>2. CASE l # sp[c][x]
    BY <2>2, <1>6 DEF IInv, TypeOK, CpuExact
  <2> QED BY <2>1, <2>2
<1>8. CallOnHeld'
  BY <1>0, <1>6, SMTT(30) DEF IInv, TypeOK, CallOnHeld, SpIsLock
<1>9. (MutualExclusion /\ NoRepeat /\ LockedExact)'
  BY HeldFrame
<1> QED BY <1>1, <1>2, <1>3, <1>4, <1>5, <1>7, <1>8, <1>9 DEF IInv

(* The store of FALSE closes the section and still owes the pop. *)
LEMMA UnlockInv ==
    ASSUME IInv, NEW c \in CPUs, NEW x \in Levels, Unlock(c, x)
    PROVE  IInv'
<1> DEFINE l == sp[c][x]
           t == Tail(held[c][x])
<1> USE DEF Unlock, Step, Levels, PCs
<1>1. /\ l \in Locks /\ l \in HeldBy(c, x)
      /\ \A d \in CPUs, y \in Levels : l \in HeldBy(d, y) => d = c /\ y = x
  BY CallIsOwner
<1>2. /\ held[c][x] \in Seq(Locks) /\ held[c][x] # <<>>
      /\ Injective(held[c][x]) /\ Head(held[c][x]) = l
  BY DEF IInv, TypeOK, NoRepeat, CallOnHeld
<1>3. /\ t \in Seq(Locks)
      /\ Len(t) = Len(held[c][x]) - 1
      /\ Range(t) = Range(held[c][x]) \ {l}
      /\ Injective(t)
  BY <1>2, PopHeld
<1>4. \A d \in CPUs, y \in Levels :
          held'[d][y] = IF d = c /\ y = x THEN t ELSE held[d][y]
  BY DEF IInv, TypeOK
<1>5. TypeOK'
  BY <1>1, <1>3 DEF IInv, TypeOK
<1> HIDE DEF t
<1>6. \A d \in CPUs, y \in Levels : HeldBy(d, y)' = HeldBy(d, y) \ {l}
  <2> HIDE DEF Unlock
  <2> TAKE d \in CPUs, y \in Levels
  <2>1. CASE d = c /\ y = x
    BY <2>1, <1>3, <1>4 DEF HeldBy
  <2>2. CASE ~(d = c /\ y = x)
    BY <2>2, <1>1, <1>4 DEF HeldBy
  <2> QED BY <2>1, <2>2
<1>7. NoPanic' /\ SpIsLock'
  BY DEF IInv, TypeOK, NoPanic, SpIsLock
<1>8. InterruptsExact'
  BY DEF IInv, InterruptsExact
<1>9. DepthBalanced'
  <2>1. ASSUME NEW d \in CPUs, NEW y \in Levels PROVE Owes(d, y)' = Owes(d, y)
    <3>1. CASE d = c /\ y = x
      BY <3>1, <1>2, <1>3, <1>4 DEF IInv, TypeOK, Owes
    <3>2. CASE ~(d = c /\ y = x)
      BY <3>2, <1>4, SMTT(30) DEF IInv, TypeOK, Owes
    <3> QED BY <3>1, <3>2
  <2> QED BY <2>1, DepthFrame
<1>10. OtherAtRest'
  BY <1>4 DEF IInv, TypeOK, OtherAtRest
<1>11. MaskSaved'
  BY <1>4 DEF IInv, TypeOK, MaskSaved
<1>12. MutualExclusion'
  BY <1>6 DEF IInv, MutualExclusion
<1>13. NoRepeat'
  BY <1>3, <1>4 DEF IInv, NoRepeat
<1>14. LockedExact'
  <2> SUFFICES ASSUME NEW m \in Locks PROVE LockedExact!(m)'
    BY DEF LockedExact
  <2>1. CASE m = l
    BY <2>1, <1>1, <1>6 DEF IInv, TypeOK
  <2>2. CASE m # l
    <3>1. locked'[m] = locked[m]
      BY <2>2 DEF IInv, TypeOK
    <3>2. \A d \in CPUs, y \in Levels : m \in HeldBy(d, y)' <=> m \in HeldBy(d, y)
      BY <2>2, <1>6
    <3>3. LockedExact!(m)
      BY DEF IInv, LockedExact
    <3> HIDE DEF Unlock, Levels
    <3> QED BY <3>1, <3>2, <3>3
  <2> QED BY <2>1, <2>2
<1>15. CpuExact'
  <2>1. cpu[l] = NULL
    BY DEF IInv, CallOnHeld
  <2> SUFFICES ASSUME NEW m \in Locks, NEW d \in CPUs
               PROVE  CpuExact!(m, d)'
    BY DEF CpuExact
  <2>2. CASE m = l
    BY <2>1, <2>2, <1>6, SpinlockAssumption
  <2>3. CASE m # l
    BY <2>3, <1>6 DEF IInv, TypeOK, CpuExact
  <2> QED BY <2>2, <2>3
<1>16. CallOnHeld'
  <2> SUFFICES ASSUME NEW d \in CPUs, NEW y \in Levels
               PROVE  CallOnHeld!(d, y)'
    BY DEF CallOnHeld
  <2>1. CASE d = c /\ y = x
    BY <2>1 DEF IInv, TypeOK
  <2>2. CASE ~(d = c /\ y = x)
    BY <2>2, <1>4, <1>6, SMTT(30) DEF IInv, TypeOK, CallOnHeld
  <2> QED BY <2>1, <2>2
<1> QED BY <1>5, <1>7, <1>8, <1>9, <1>10, <1>11, <1>12, <1>13, <1>14, <1>15,
           <1>16 DEF IInv

(* irq_pop_intr finds interrupts masked and a positive depth, and unmasks  *)
(* only for the outermost section of a CPU that had them unmasked.         *)
LEMMA PopInv ==
    ASSUME IInv, NEW c \in CPUs, NEW x \in Levels, irq_pop_intr(c, x)
    PROVE  IInv'
<1>1. level[c] = x /\ pc[c][x] = "pop"
  BY DEF irq_pop_intr, Step
<1>2. irq_disable_depth[c] \in Nat /\ irq_disable_depth[c] > 0 /\ ~intr[c]
  BY <1>1, DepthMeaning DEF IInv, InterruptsExact
<1>3. /\ pc' = [pc EXCEPT ![c][x] = "run"]
      /\ irq_disable_depth' = [irq_disable_depth EXCEPT ![c] = @ - 1]
      /\ intr' = [intr EXCEPT ![c] = irq_disable_depth[c] = 1 /\ irq_was_enabled[c]]
      /\ UNCHANGED <<locked, cpu, irq_was_enabled, started, level, sp,
                     enabled_previously, held>>
  BY <1>2 DEF irq_pop_intr, Step
<1> USE <1>1, <1>3 DEF Levels, PCs
<1>4. TypeOK' /\ NoPanic'
  BY <1>2 DEF IInv, TypeOK, NoPanic
<1>5. InterruptsExact'
  <2>1. irq_was_enabled[c] <=> started[c] /\ level[c] = "thread"
    BY <1>2 DEF IInv, MaskSaved
  <2>2. irq_disable_depth'[c] = 0 <=> irq_disable_depth[c] = 1
    BY <1>2 DEF IInv, TypeOK
  <2> SUFFICES ASSUME NEW d \in CPUs PROVE InterruptsExact!(d)'
    BY DEF InterruptsExact
  <2>3. CASE d = c
    BY <2>1, <2>2, <2>3 DEF IInv, TypeOK
  <2>4. CASE d # c
    BY <2>4 DEF IInv, TypeOK, InterruptsExact
  <2> QED BY <2>3, <2>4
<1>6. DepthBalanced'
  <2>1. \A d \in CPUs, y \in Levels : Owes(d, y) \in Nat
    BY DepthMeaning
  <2>2. Owes(c, x)' = Owes(c, x) - 1
    BY DEF IInv, TypeOK, Owes
  <2>3. \A d \in CPUs, y \in Levels : ~(d = c /\ y = x) => Owes(d, y)' = Owes(d, y)
    BY DEF IInv, TypeOK, Owes
  <2> SUFFICES ASSUME NEW d \in CPUs
               PROVE  irq_disable_depth'[d] = Owes(d, "thread")' + Owes(d, "irq")'
    BY DEF DepthBalanced
  <2>4. irq_disable_depth[d] = Owes(d, "thread") + Owes(d, "irq")
    BY DEF IInv, DepthBalanced
  <2>5. CASE d = c
    BY <2>1, <2>2, <2>3, <2>4, <2>5, <1>2 DEF IInv, TypeOK
  <2>6. CASE d # c
    BY <2>1, <2>3, <2>4, <2>6 DEF IInv, TypeOK
  <2> QED BY <2>5, <2>6
<1>7. SpIsLock' /\ OtherAtRest'
  BY DEF IInv, TypeOK, SpIsLock, OtherAtRest
<1>8. MaskSaved'
  BY <1>2 DEF IInv, TypeOK, MaskSaved
<1>9. CpuExact' /\ CallOnHeld'
  BY SMTT(60) DEF IInv, TypeOK, CpuExact, CallOnHeld, HeldBy
<1>10. (MutualExclusion /\ NoRepeat /\ LockedExact)'
  BY HeldFrame
<1> QED BY <1>4, <1>5, <1>6, <1>7, <1>8, <1>9, <1>10 DEF IInv

(* Unmasking, taking an interrupt and returning from it happen with no     *)
(* section open on the CPU, so nothing but the mask and the level changes. *)
LEMMA IrqInv ==
    ASSUME IInv, NEW c \in CPUs, w_intrd_enable(c) \/ TakeIrq(c) \/ Eret(c)
    PROVE  IInv'
<1> USE DEF w_intrd_enable, TakeIrq, Eret, Levels
<1>0. irq_disable_depth[c] = 0 /\ held[c]["thread"] = <<>> /\ pc[c]["thread"] \in {"run", "push"}
  BY DepthMeaning, SMTT(60) DEF IInv, InterruptsExact, OtherAtRest, TypeOK
<1>1. TypeOK' /\ NoPanic' /\ SpIsLock'
  BY DEF IInv, TypeOK, NoPanic, SpIsLock
<1>2. InterruptsExact'
  <2>1. CASE TakeIrq(c)
    BY <2>1 DEF IInv, TypeOK, InterruptsExact
  <2>2. CASE w_intrd_enable(c) \/ Eret(c)
    <3>1. started'[c] /\ intr'[c] /\ level'[c] = "thread" /\ irq_disable_depth'[c] = 0
      BY <2>2, <1>0, SMTT(30) DEF IInv, TypeOK, OtherAtRest
    <3>2. \A d \in CPUs : d # c => /\ intr'[d] = intr[d] /\ level'[d] = level[d]
                                   /\ started'[d] = started[d]
                                   /\ UNCHANGED irq_disable_depth
      BY <2>2 DEF IInv, TypeOK
    <3> HIDE DEF w_intrd_enable, TakeIrq, Eret
    <3> QED BY <3>1, <3>2 DEF IInv, InterruptsExact
  <2> QED BY <2>1, <2>2
<1>3. DepthBalanced'
  <2>1. \A d \in CPUs, y \in Levels : Owes(d, y)' = Owes(d, y)
    BY DEF Owes
  <2> QED BY <2>1, DepthFrame
<1>4. OtherAtRest'
  <2>1. CASE w_intrd_enable(c)
    BY <2>1 DEF IInv, TypeOK, OtherAtRest
  <2>2. CASE TakeIrq(c)
    BY <2>2, <1>0 DEF IInv, TypeOK, OtherAtRest, InterruptsExact
  <2>3. CASE Eret(c)
    BY <2>3 DEF IInv, TypeOK, OtherAtRest
  <2> QED BY <2>1, <2>2, <2>3
<1>5. MaskSaved'
  BY <1>0, SMTT(60) DEF IInv, TypeOK, MaskSaved, OtherAtRest
<1>6. CpuExact' /\ CallOnHeld'
  BY SMTT(60) DEF IInv, CpuExact, CallOnHeld, HeldBy
<1>7. (MutualExclusion /\ NoRepeat /\ LockedExact)'
  BY HeldFrame
<1> QED BY <1>1, <1>2, <1>3, <1>4, <1>5, <1>6, <1>7 DEF IInv

(* Every step of every context preserves the inductive invariant. *)
LEMMA NextInv == IInv /\ [Next]_vars => IInv'
<1> SUFFICES ASSUME IInv, [Next]_vars PROVE IInv'
  OBVIOUS
<1>1. ASSUME NEW c \in CPUs, NEW x \in Levels,
             \/ AcquireLoadLocked(c, x) \/ AcquireLoadCpu(c, x)
             \/ ReleaseLoadLocked(c, x) \/ ReleaseLoadCpu(c, x)
      PROVE  IInv'
  <2>1. CASE AcquireLoadLocked(c, x)
    BY <2>1, LoadInv DEF AcquireLoadLocked, LoadLocked
  <2>2. CASE AcquireLoadCpu(c, x)
    BY <2>2, LoadInv, HoldingExact DEF AcquireLoadCpu, LoadCpu, Step
  <2>3. CASE ReleaseLoadLocked(c, x)
    BY <2>3, LoadInv, HoldingExact DEF ReleaseLoadLocked, LoadLocked, Step
  <2>4. CASE ReleaseLoadCpu(c, x)
    BY <2>4, LoadInv, HoldingExact DEF ReleaseLoadCpu, LoadCpu, Step
  <2> QED BY <1>1, <2>1, <2>2, <2>3, <2>4
<1>2. ASSUME NEW c \in CPUs, NEW x \in Levels, Finish(c, x)
      PROVE  IInv'
  BY <1>1, <1>2, PushInv, ExchangeInv, SetCpuInv, ClearCpuInv, UnlockInv, PopInv
  DEF Finish
<1>3. CASE Next
  BY <1>2, <1>3, CallAcquireInv, CallReleaseInv, IrqInv DEF Next
<1>4. CASE UNCHANGED vars
  <2> USE <1>4 DEF vars
  <2>1. (TypeOK /\ NoPanic /\ InterruptsExact /\ SpIsLock /\ OtherAtRest /\ MaskSaved)'
    BY SMTT(30) DEF IInv, TypeOK, NoPanic, InterruptsExact, SpIsLock, OtherAtRest, MaskSaved
  <2>2. DepthBalanced'
    BY DEF IInv, DepthBalanced, Owes
  <2>3. CpuExact' /\ CallOnHeld'
    BY SMTT(60) DEF IInv, CpuExact, CallOnHeld, HeldBy
  <2> QED BY <2>1, <2>2, <2>3, HeldFrame DEF IInv
<1> QED BY <1>3, <1>4

(* Every reachable state satisfies the inductive invariant. *)
THEOREM Invariance == Spec => []IInv
<1> QED BY InitInv, NextInv, PTL DEF Spec

(* For any CPUs and locks, every variable of the spinlocks and of the      *)
(* masking stack keeps its type.                                           *)
THEOREM TypeCorrect == Spec => []TypeOK
<1>1. IInv => TypeOK
  BY DEF IInv
<1> QED BY <1>1, Invariance, PTL

(* For any CPUs and locks, spinlock_acquire and spinlock_release exclude   *)
(* the contexts of one CPU and of several from each other's sections.      *)
THEOREM Exclusion == Spec => []MutualExclusion
<1>1. IInv => MutualExclusion
  BY DEF IInv
<1> QED BY <1>1, Invariance, PTL

(* No panic of spinlock_acquire, spinlock_release or irq_pop_intr is       *)
(* reachable from callers that nest locks without taking one twice.        *)
THEOREM PanicFree == Spec => []NoPanic
<1>1. IInv => NoPanic
  BY DEF IInv
<1> QED BY <1>1, Invariance, PTL

(* irq_push_intr and irq_pop_intr mask interrupts exactly from the first   *)
(* push to the last pop, and irq_disable_depth counts what is in between.  *)
THEOREM Masking == Spec => [](InterruptsExact /\ DepthBalanced)
<1>1. IInv => InterruptsExact /\ DepthBalanced
  BY DEF IInv
<1> QED BY <1>1, Invariance, PTL

-----------------------------------------------------------------------------
(* The context that is in a section of lock l when h is the stack of       *)
(* sections of every context.                                              *)
OwnerIn(h, l) ==
    IF \E p \in CPUs \X Levels : l \in Range(h[p[1]][p[2]])
    THEN CHOOSE p \in CPUs \X Levels : l \in Range(h[p[1]][p[2]])
    ELSE NULL

(* The context in a section of a lock is the owner the mutex sees. *)
LEMMA OwnerUnique ==
    ASSUME NEW h, NEW l, NEW c \in CPUs, NEW x \in Levels, l \in Range(h[c][x]),
           \A d \in CPUs, y \in Levels : l \in Range(h[d][y]) => d = c /\ y = x
    PROVE  OwnerIn(h, l) = <<c, x>>
<1>1. <<c, x>> \in CPUs \X Levels /\ l \in Range(h[<<c, x>>[1]][<<c, x>>[2]])
  OBVIOUS
<1>2. \A p \in CPUs \X Levels : l \in Range(h[p[1]][p[2]]) => p = <<c, x>>
  OBVIOUS
<1>3. (CHOOSE p \in CPUs \X Levels : l \in Range(h[p[1]][p[2]])) = <<c, x>>
  BY <1>1, <1>2
<1> QED BY <1>1, <1>3 DEF OwnerIn

(* A lock nobody is in a section of is free to the mutex. *)
LEMMA OwnerNone ==
    ASSUME NEW h, NEW l,
           \A c \in CPUs, x \in Levels : l \notin Range(h[c][x])
    PROVE  OwnerIn(h, l) = NULL
<1>1. ~ \E p \in CPUs \X Levels : l \in Range(h[p[1]][p[2]])
  OBVIOUS
<1> QED BY <1>1 DEF OwnerIn

(* A lock whose sections are the same keeps its owner. *)
LEMMA OwnerSame ==
    ASSUME NEW h, NEW k, NEW l,
           \A c, d \in CPUs, x, y \in Levels :
               l \in Range(h[c][x]) /\ l \in Range(h[d][y]) => d = c /\ y = x,
           \A c \in CPUs, x \in Levels : l \in Range(k[c][x]) <=> l \in Range(h[c][x])
    PROVE  OwnerIn(k, l) = OwnerIn(h, l)
<1>1. CASE \E c \in CPUs, x \in Levels : l \in Range(h[c][x])
  <2>1. PICK c \in CPUs, x \in Levels : l \in Range(h[c][x])
    BY <1>1
  <2>2. \A d \in CPUs, y \in Levels : l \in Range(h[d][y]) => d = c /\ y = x
    BY <2>1
  <2>3. OwnerIn(h, l) = <<c, x>>
    BY <2>1, <2>2, OwnerUnique
  <2>4. OwnerIn(k, l) = <<c, x>>
    <3>1. /\ l \in Range(k[c][x])
          /\ \A d \in CPUs, y \in Levels : l \in Range(k[d][y]) => d = c /\ y = x
      BY <2>1, <2>2
    <3> QED BY <3>1, OwnerUnique
  <2> QED BY <2>3, <2>4
<1>2. CASE \A c \in CPUs, x \in Levels : l \notin Range(h[c][x])
  BY <1>2, OwnerNone
<1> QED BY <1>1, <1>2

(* Every step of the spinlocks is an Acquire or a Release of the mutex, or *)
(* leaves the owners alone.                                                *)
LEMMA StepSimulation == IInv /\ [Next]_vars => [Abstract!Next]_Owner
<1> SUFFICES ASSUME IInv, [Next]_vars PROVE [Abstract!Next]_Owner
  OBVIOUS
<1>1. Owner = [l \in Locks |-> OwnerIn(held, l)]
  BY DEF Owner, OwnerIn, HeldBy
<1>2. Owner' = [l \in Locks |-> OwnerIn(held', l)]
  BY DEF Owner, OwnerIn, HeldBy
<1>3. \A l \in Locks, c, d \in CPUs, x, y \in Levels :
          l \in Range(held[c][x]) /\ l \in Range(held[d][y]) => d = c /\ y = x
  BY DEF IInv, MutualExclusion, HeldBy
<1>4. CASE UNCHANGED held
  BY <1>4, <1>1, <1>2
<1>5. ASSUME NEW c \in CPUs, NEW x \in Levels, Exchange(c, x)
      PROVE  Abstract!Next
  <2> DEFINE l == sp[c][x]
             t == <<l>> \o held[c][x]
  <2>1. l \in Locks /\ ~locked[l]
    BY <1>5 DEF IInv, SpIsLock, Exchange, Step
  <2>2. \A d \in CPUs, y \in Levels : l \notin Range(held[d][y])
    BY <2>1 DEF IInv, LockedExact, HeldBy
  <2>3. Range(t) = Range(held[c][x]) \cup {l}
    BY <2>1, <2>2, PushHeld DEF IInv, TypeOK, NoRepeat
  <2>4. \A d \in CPUs, y \in Levels :
            held'[d][y] = IF d = c /\ y = x THEN t ELSE held[d][y]
    BY <1>5 DEF IInv, TypeOK, Exchange
  <2> HIDE DEF t, l
  <2>5. OwnerIn(held, l) = NULL
    BY <2>2, OwnerNone
  <2>6. OwnerIn(held', l) = <<c, x>>
    <3>1. l \in Range(held'[c][x])
      BY <2>3, <2>4
    <3>2. \A d \in CPUs, y \in Levels : l \in Range(held'[d][y]) => d = c /\ y = x
      BY <2>2, <2>4
    <3> QED BY <3>1, <3>2, OwnerUnique
  <2>7. ASSUME NEW m \in Locks, m # l
        PROVE  OwnerIn(held', m) = OwnerIn(held, m)
    <3>1. \A d \in CPUs, y \in Levels :
              m \in Range(held'[d][y]) <=> m \in Range(held[d][y])
      BY <2>3, <2>4, <2>7
    <3> QED BY <3>1, <1>3, OwnerSame
  <2>8. Owner[l] = NULL /\ Owner' = [Owner EXCEPT ![l] = <<c, x>>]
    BY <2>1, <2>5, <2>6, <2>7, <1>1, <1>2
  <2>9. Abstract!Acquire(<<c, x>>, l)
    BY <2>8 DEF Abstract!Acquire
  <2> QED BY <2>1, <2>9 DEF Abstract!Next
<1>6. ASSUME NEW c \in CPUs, NEW x \in Levels, Unlock(c, x)
      PROVE  Abstract!Next
  <2> DEFINE l == sp[c][x]
             t == Tail(held[c][x])
  <2>1. /\ l \in Locks /\ l \in Range(held[c][x])
        /\ \A d \in CPUs, y \in Levels : l \in Range(held[d][y]) => d = c /\ y = x
    BY <1>6, CallIsOwner DEF Unlock, Step, HeldBy
  <2>2. Range(t) = Range(held[c][x]) \ {l}
    <3>1. /\ held[c][x] \in Seq(Locks) /\ held[c][x] # <<>>
          /\ Injective(held[c][x]) /\ Head(held[c][x]) = l
      BY <1>6, SMTT(30) DEF IInv, TypeOK, NoRepeat, CallOnHeld, Unlock, Step
    <3> QED BY <3>1, PopHeld
  <2>3. \A d \in CPUs, y \in Levels :
            held'[d][y] = IF d = c /\ y = x THEN t ELSE held[d][y]
    BY <1>6, SMTT(30) DEF IInv, TypeOK, Unlock
  <2> HIDE DEF t, l
  <2>4. OwnerIn(held, l) = <<c, x>>
    BY <2>1, OwnerUnique, SMTT(60)
  <2>5. OwnerIn(held', l) = NULL
    <3>1. \A d \in CPUs, y \in Levels : l \notin Range(held'[d][y])
      BY <2>1, <2>2, <2>3
    <3> QED BY <3>1, OwnerNone
  <2>6. ASSUME NEW m \in Locks, m # l
        PROVE  OwnerIn(held', m) = OwnerIn(held, m)
    <3>1. \A d \in CPUs, y \in Levels :
              m \in Range(held'[d][y]) <=> m \in Range(held[d][y])
      BY <2>2, <2>3, <2>6
    <3> QED BY <3>1, <1>3, OwnerSame
  <2>7. Owner[l] = <<c, x>> /\ Owner' = [Owner EXCEPT ![l] = NULL]
    BY <2>1, <2>4, <2>5, <2>6, <1>1, <1>2
  <2>8. Abstract!Release(<<c, x>>, l)
    BY <2>7, SMTT(30) DEF Abstract!Release
  <2> QED BY <2>1, <2>8 DEF Abstract!Next
<1>7. ASSUME NEW c \in CPUs, NEW x \in Levels, Finish(c, x)
      PROVE  UNCHANGED held \/ Exchange(c, x) \/ Unlock(c, x)
  BY <1>7 DEF Finish, irq_push_intr, AcquireLoadLocked, AcquireLoadCpu, SetCpu,
      ReleaseLoadLocked, ReleaseLoadCpu, LoadLocked, LoadCpu, ClearCpu, irq_pop_intr
<1> QED
  BY <1>4, <1>5, <1>6, <1>7
  DEF Next, vars, CallAcquire, CallRelease, w_intrd_enable, TakeIrq, Eret

(* The spinlocks implement the abstract mutex, for any CPUs and locks.     *)
THEOREM Refinement == Spec => ImplementsMutex
<1>1. Init => Abstract!Init
  <2> SUFFICES ASSUME Init PROVE Owner = [l \in Locks |-> NULL]
    BY DEF Abstract!Init
  <2>1. \A p \in CPUs \X Levels : HeldBy(p[1], p[2]) = {}
    BY DEF Init, HeldBy, Range
  <2> QED BY <2>1 DEF Owner
<1> QED BY <1>1, StepSimulation, Invariance, PTL
        DEF Spec, ImplementsMutex, Abstract!Spec
=============================================================================
