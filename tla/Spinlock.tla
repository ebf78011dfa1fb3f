------------------------------ MODULE Spinlock ------------------------------
(***************************************************************************)
(* The spinlock of kernel/sync/spinlock.c together with the interrupt      *)
(* masking stack it uses (irq_push_intr and irq_pop_intr of                *)
(* kernel/irq/irq_controller.c), one action per shared-memory access.      *)
(*                                                                         *)
(* Every CPU runs two contexts: the kernel thread and, on top of it while  *)
(* a device interrupt is taken, the interrupt handler.  Both take and      *)
(* release locks in the nested order that spinlock_acquire_scoped gives.   *)
(***************************************************************************)
EXTENDS Integers, Sequences, Functions

CONSTANTS CPUs,         \* the processors
          BootCpu,      \* the one that enters the kernel through start.S
          Locks,        \* the spinlocks of the kernel
          IrqLocks,     \* the ones an interrupt handler takes
          Nests,        \* <<h, l>>: some path acquires l while it holds h
          NULL,         \* the null pointer
          kheap, kmem   \* kheap.lock and kmem.spinlock

ASSUME SpinlockAssumption ==
    /\ BootCpu \in CPUs
    /\ IrqLocks \subseteq Locks
    /\ Nests \subseteq Locks \X Locks
    /\ \A l \in Locks : <<l, l>> \notin Nests
    /\ NULL \notin CPUs \cup Locks \cup (CPUs \X {"thread", "irq"})

(* The nesting of kernel/mm: kalloc holds kheap.lock while it maps pages,  *)
(* and those are taken under kmem.spinlock.                                *)
KernelNests == {<<kheap, kmem>>}

VARIABLES
    locked,             \* SpinLock.locked
    cpu,                \* SpinLock.cpu
    intr,               \* device interrupts unmasked in DAIF
    irq_disable_depth,  \* Cpu.irq_disable_depth
    irq_was_enabled,    \* Cpu.irq_was_enabled
    started,            \* the CPU has unmasked interrupts for the first time
    level,              \* the context the CPU executes
    pc,                 \* where each context is inside acquire or release
    sp,                 \* the argument of that call
    enabled_previously, \* the local of irq_push_intr
    held                \* locks between exchange and store, newest first

vars == <<locked, cpu, intr, irq_disable_depth, irq_was_enabled, started,
          level, pc, sp, enabled_previously, held>>

Levels == {"thread", "irq"}

PCs == {"run", "push", "acq_locked", "acq_cpu", "exchange", "set_cpu",
        "rel_locked", "rel_cpu", "clear_cpu", "unlock", "pop", "panic"}

HeldBy(c, x) == Range(held[c][x])

Init ==
    /\ locked = [l \in Locks |-> FALSE]
    /\ cpu = [l \in Locks |-> NULL]
    /\ intr = [c \in CPUs |-> c = BootCpu]
    /\ irq_disable_depth = [c \in CPUs |-> 0]
    /\ irq_was_enabled = [c \in CPUs |-> FALSE]
    /\ started = [c \in CPUs |-> c = BootCpu]
    /\ level = [c \in CPUs |-> "thread"]
    /\ pc = [c \in CPUs |-> [x \in Levels |-> "run"]]
    /\ sp = [c \in CPUs |-> [x \in Levels |-> NULL]]
    /\ enabled_previously = [c \in CPUs |-> [x \in Levels |-> FALSE]]
    /\ held = [c \in CPUs |-> [x \in Levels |-> <<>>]]

(* Context x of CPU c is executing, at label "from", and moves to "to". *)
Step(c, x, from, to) ==
    /\ level[c] = x
    /\ pc[c][x] = from
    /\ pc' = [pc EXCEPT ![c][x] = to]

-----------------------------------------------------------------------------
(* spinlock_acquire *)

(* A path calls spinlock_acquire(l); irq_push_intr first saves the mask.   *)
(* The callers never take a lock they hold and nest as Nests says.         *)
CallAcquire(c, x, l) ==
    /\ x = "irq" => l \in IrqLocks
    /\ \A h \in HeldBy(c, x) : <<h, l>> \in Nests
    /\ Step(c, x, "run", "push")
    /\ sp' = [sp EXCEPT ![c][x] = l]
    /\ enabled_previously' = [enabled_previously EXCEPT ![c][x] = intr[c]]
    /\ UNCHANGED <<locked, cpu, intr, irq_disable_depth, irq_was_enabled,
                   started, level, held>>

(* Variants of irq_push_intr: saves the mask again at every depth; counts  *)
(* only the outermost call; does not mask.                                 *)
PushSavesNested(c, x) ==
    /\ Step(c, x, "push", "acq_locked")
    /\ intr' = [intr EXCEPT ![c] = FALSE]
    /\ irq_was_enabled' = [irq_was_enabled EXCEPT ![c] = enabled_previously[c][x]]
    /\ irq_disable_depth' = [irq_disable_depth EXCEPT ![c] = @ + 1]
    /\ enabled_previously' = [enabled_previously EXCEPT ![c][x] = FALSE]
    /\ UNCHANGED <<locked, cpu, started, level, sp, held>>

(* Masks; only then, with no handler able to interfere, touches the Cpu.   *)
irq_push_intr(c, x) ==
    /\ Step(c, x, "push", "acq_locked")
    /\ intr' = [intr EXCEPT ![c] = FALSE]
    /\ irq_was_enabled' = [irq_was_enabled EXCEPT ![c] =
            IF irq_disable_depth[c] = 0 THEN enabled_previously[c][x] ELSE @]
    /\ irq_disable_depth' = [irq_disable_depth EXCEPT ![c] = @ + 1]
    /\ enabled_previously' = [enabled_previously EXCEPT ![c][x] = FALSE]
    /\ UNCHANGED <<locked, cpu, started, level, sp, held>>

(* holding(): two loads, of locked and, when it is set, of cpu. *)
LoadLocked(c, x, from, ifLocked, ifNot) ==
    /\ Step(c, x, from, IF locked[sp[c][x]] THEN ifLocked ELSE ifNot)
    /\ UNCHANGED <<locked, cpu, intr, irq_disable_depth, irq_was_enabled,
                   started, level, sp, enabled_previously, held>>

LoadCpu(c, x, from, ifMine, ifNot) ==
    /\ Step(c, x, from, IF cpu[sp[c][x]] = c THEN ifMine ELSE ifNot)
    /\ UNCHANGED <<locked, cpu, intr, irq_disable_depth, irq_was_enabled,
                   started, level, sp, enabled_previously, held>>

AcquireLoadLocked(c, x) == LoadLocked(c, x, "acq_locked", "acq_cpu", "exchange")

AcquireLoadCpu(c, x) == LoadCpu(c, x, "acq_cpu", "panic", "exchange")

(* Variant: a store where the code has an exchange. *)
ExchangeBlind(c, x) ==
    /\ Step(c, x, "exchange", "set_cpu")
    /\ locked' = [locked EXCEPT ![sp[c][x]] = TRUE]
    /\ held' = [held EXCEPT ![c][x] = <<sp[c][x]>> \o @]
    /\ UNCHANGED <<cpu, intr, irq_disable_depth, irq_was_enabled, started,
                   level, sp, enabled_previously>>

(* The exchange that finds the lock free; one that does not changes nothing. *)
Exchange(c, x) ==
    /\ Step(c, x, "exchange", "set_cpu")
    /\ ~locked[sp[c][x]]
    /\ locked' = [locked EXCEPT ![sp[c][x]] = TRUE]
    /\ held' = [held EXCEPT ![c][x] = <<sp[c][x]>> \o @]
    /\ UNCHANGED <<cpu, intr, irq_disable_depth, irq_was_enabled, started,
                   level, sp, enabled_previously>>

SetCpu(c, x) ==
    /\ Step(c, x, "set_cpu", "run")
    /\ cpu' = [cpu EXCEPT ![sp[c][x]] = c]
    /\ sp' = [sp EXCEPT ![c][x] = NULL]
    /\ UNCHANGED <<locked, intr, irq_disable_depth, irq_was_enabled, started,
                   level, enabled_previously, held>>

-----------------------------------------------------------------------------
(* spinlock_release *)

(* The innermost scope ends. *)
CallRelease(c, x) ==
    /\ held[c][x] # <<>>
    /\ Step(c, x, "run", "rel_locked")
    /\ sp' = [sp EXCEPT ![c][x] = Head(held[c][x])]
    /\ UNCHANGED <<locked, cpu, intr, irq_disable_depth, irq_was_enabled,
                   started, level, enabled_previously, held>>

ReleaseLoadLocked(c, x) == LoadLocked(c, x, "rel_locked", "rel_cpu", "panic")

ReleaseLoadCpu(c, x) == LoadCpu(c, x, "rel_cpu", "clear_cpu", "panic")

(* Variant: the owner is left behind for holding() to find. *)
ClearCpuForgotten(c, x) ==
    /\ Step(c, x, "clear_cpu", "unlock")
    /\ UNCHANGED <<locked, cpu, intr, irq_disable_depth, irq_was_enabled,
                   started, level, sp, enabled_previously, held>>

ClearCpu(c, x) ==
    /\ Step(c, x, "clear_cpu", "unlock")
    /\ cpu' = [cpu EXCEPT ![sp[c][x]] = NULL]
    /\ UNCHANGED <<locked, intr, irq_disable_depth, irq_was_enabled, started,
                   level, sp, enabled_previously, held>>

(* Variant: the store of FALSE is missing. *)
UnlockForgotten(c, x) ==
    /\ Step(c, x, "unlock", "pop")
    /\ held' = [held EXCEPT ![c][x] = Tail(@)]
    /\ sp' = [sp EXCEPT ![c][x] = NULL]
    /\ UNCHANGED <<locked, cpu, intr, irq_disable_depth, irq_was_enabled,
                   started, level, enabled_previously>>

Unlock(c, x) ==
    /\ Step(c, x, "unlock", "pop")
    /\ locked' = [locked EXCEPT ![sp[c][x]] = FALSE]
    /\ held' = [held EXCEPT ![c][x] = Tail(@)]
    /\ sp' = [sp EXCEPT ![c][x] = NULL]
    /\ UNCHANGED <<cpu, intr, irq_disable_depth, irq_was_enabled, started,
                   level, enabled_previously>>

(* Interrupts are masked, so the body is atomic on its CPU. *)
irq_pop_intr(c, x) ==
    /\ IF intr[c] \/ irq_disable_depth[c] < 1
       THEN /\ Step(c, x, "pop", "panic")
            /\ UNCHANGED <<irq_disable_depth, intr>>
       ELSE /\ Step(c, x, "pop", "run")
            /\ irq_disable_depth' = [irq_disable_depth EXCEPT ![c] = @ - 1]
            /\ intr' = [intr EXCEPT ![c] =
                    irq_disable_depth[c] = 1 /\ irq_was_enabled[c]]
    /\ UNCHANGED <<locked, cpu, irq_was_enabled, started, level, sp,
                   enabled_previously, held>>

-----------------------------------------------------------------------------
(* Interrupts *)

(* init_secondary_cpu unmasks for the first time, holding nothing. *)
w_intrd_enable(c) ==
    /\ ~started[c]
    /\ level[c] = "thread" /\ pc[c]["thread"] = "run"
    /\ held[c]["thread"] = <<>>
    /\ started' = [started EXCEPT ![c] = TRUE]
    /\ intr' = [intr EXCEPT ![c] = TRUE]
    /\ UNCHANGED <<locked, cpu, irq_disable_depth, irq_was_enabled, level, pc,
                   sp, enabled_previously, held>>

(* The CPU takes an interrupt: the vector runs irq_dispatcher, masked. *)
TakeIrq(c) ==
    /\ intr[c]
    /\ level[c] = "thread" /\ pc[c]["thread"] # "panic"
    /\ level' = [level EXCEPT ![c] = "irq"]
    /\ intr' = [intr EXCEPT ![c] = FALSE]
    /\ UNCHANGED <<locked, cpu, irq_disable_depth, irq_was_enabled, started,
                   pc, sp, enabled_previously, held>>

(* The handler is done; eret restores the mask of the interrupted thread. *)
Eret(c) ==
    /\ level[c] = "irq" /\ pc[c]["irq"] = "run"
    /\ held[c]["irq"] = <<>>
    /\ level' = [level EXCEPT ![c] = "thread"]
    /\ intr' = [intr EXCEPT ![c] = TRUE]
    /\ UNCHANGED <<locked, cpu, irq_disable_depth, irq_was_enabled, started,
                   pc, sp, enabled_previously, held>>

-----------------------------------------------------------------------------
(* The rest of a call that has begun. *)
Finish(c, x) ==
    \/ irq_push_intr(c, x)
    \/ AcquireLoadLocked(c, x)
    \/ AcquireLoadCpu(c, x)
    \/ Exchange(c, x)
    \/ SetCpu(c, x)
    \/ ReleaseLoadLocked(c, x)
    \/ ReleaseLoadCpu(c, x)
    \/ ClearCpu(c, x)
    \/ Unlock(c, x)
    \/ irq_pop_intr(c, x)

Next ==
    \E c \in CPUs :
        \/ \E x \in Levels : \/ \E l \in Locks : CallAcquire(c, x, l)
                             \/ CallRelease(c, x)
                             \/ Finish(c, x)
        \/ w_intrd_enable(c)
        \/ TakeIrq(c)
        \/ Eret(c)

Spec == Init /\ [][Next]_vars

(* Critical sections and handlers are finite: a CPU that is inside a call  *)
(* or a section keeps executing, and a handler returns.  Nothing makes a   *)
(* CPU call spinlock_acquire, and nothing favours one spinning CPU.        *)
Fairness ==
    \A c \in CPUs :
        /\ \A x \in Levels : WF_vars(CallRelease(c, x) \/ Finish(c, x))
        /\ WF_vars(Eret(c))

FairSpec == Spec /\ Fairness

-----------------------------------------------------------------------------
(* Properties *)

(* Every variable has its type. *)
TypeOK ==
    /\ locked \in [Locks -> BOOLEAN]
    /\ cpu \in [Locks -> CPUs \cup {NULL}]
    /\ intr \in [CPUs -> BOOLEAN]
    /\ irq_disable_depth \in [CPUs -> Int]
    /\ irq_was_enabled \in [CPUs -> BOOLEAN]
    /\ started \in [CPUs -> BOOLEAN]
    /\ level \in [CPUs -> Levels]
    /\ pc \in [CPUs -> [Levels -> PCs]]
    /\ sp \in [CPUs -> [Levels -> Locks \cup {NULL}]]
    /\ enabled_previously \in [CPUs -> [Levels -> BOOLEAN]]
    /\ held \in [CPUs -> [Levels -> Seq(Locks)]]

(* Between the successful exchange of spinlock_acquire and the store of    *)
(* spinlock_release no other context, be it on another CPU or the handler  *)
(* on the same one, is in a section of the same lock.                      *)
MutualExclusion ==
    \A c, d \in CPUs, x, y \in Levels :
        <<c, x>> # <<d, y>> => HeldBy(c, x) \cap HeldBy(d, y) = {}

(* None of the four panics of spinlock_acquire, spinlock_release and       *)
(* irq_pop_intr is reached: holding() is never wrong about its own CPU in  *)
(* spite of its two unprotected loads, an interrupt never makes a CPU wait *)
(* for a lock its own thread holds, and the masking stack never underflows.*)
NoPanic ==
    \A c \in CPUs, x \in Levels : pc[c][x] # "panic"

(* Device interrupts are unmasked exactly when the CPU has started, runs   *)
(* its thread and owes no irq_pop_intr: masking is never lost inside a     *)
(* section or a handler, and never outlives the outermost release.         *)
InterruptsExact ==
    \A c \in CPUs :
        intr[c] <=> started[c] /\ level[c] = "thread" /\ irq_disable_depth[c] = 0

(* irq_disable_depth counts the locks held by both contexts of the CPU and *)
(* the calls between a push and its exchange or a store and its pop.       *)
Owes(c, x) ==
    IF pc[c][x] \in {"acq_locked", "acq_cpu", "exchange", "pop"}
    THEN Len(held[c][x]) + 1
    ELSE Len(held[c][x])

DepthBalanced ==
    \A c \in CPUs :
        irq_disable_depth[c] = Owes(c, "thread") + Owes(c, "irq")

(* The spinlocks implement the abstract mutex: a lock belongs to the       *)
(* context whose exchange found it free until that context stores FALSE.   *)
Owner ==
    [l \in Locks |->
        IF \E p \in CPUs \X Levels : l \in HeldBy(p[1], p[2])
        THEN CHOOSE p \in CPUs \X Levels : l \in HeldBy(p[1], p[2])
        ELSE NULL]

Abstract == INSTANCE Mutex WITH Contexts <- CPUs \X Levels, Free <- NULL,
                                owner <- Owner

ImplementsMutex == Abstract!Spec

(* No deadlock and no lost release: while a CPU spins in spinlock_acquire, *)
(* some CPU keeps getting a lock.                                          *)
SpinningProgress ==
    (\E c \in CPUs, x \in Levels : pc[c][x] = "exchange")
        ~> (\E c \in CPUs, x \in Levels : pc[c][x] = "set_cpu")

=============================================================================
