----------------------------- MODULE Exceptions -----------------------------
(***************************************************************************)
(* Exception entry and return of one CPU (kernel/arch/aarch64/exception.S  *)
(* and exception.c) and the panic macro.  Code runs at levels: the kernel  *)
(* proper, the handler that interrupted it, a handler that interrupted     *)
(* that one.  Each entry stores the registers in a frame on the stack and  *)
(* each return loads them from it.                                         *)
(*                                                                         *)
(* Registers 0..30 are x0..x30.  Code of a level keeps its own values in   *)
(* them, recognisable by level and position; Scratch stands for whatever   *)
(* the entry code and the handlers leave behind.  pc counts instructions;  *)
(* the panic sequence has positions of its own.                            *)
(***************************************************************************)
EXTENDS Integers, Sequences, SequencesExt

CONSTANTS MaxDepth,     \* bound on nested exceptions
          UsesX18       \* whether compiled code may keep a value in x18

VARIABLES regs,     \* the registers
          pc,       \* where the code of this level is
          masked,   \* interrupts are masked at this level
          stack,    \* frames, the innermost last
          status,   \* of the innermost level: code, entered, wfi or handled
          entry     \* history: what each exception interrupted

vars == <<regs, pc, masked, stack, status, entry>>

SP == 31
ELR == 32
SPSR == 33
ESR == 34
FAR == 35
SP_EL0 == 36

Registers == 0..SP_EL0
Scratch == 0

(* Positions in panic: brk, w_intrall_disable, wfi, UNREACHABLE. *)
Brk == 10
MaskAll == 11
Wfi == 12
Unreachable == 13
Code == 0..1

-----------------------------------------------------------------------------
(* Which stub a vector branches to, and which C function the stub calls.   *)

Kinds == {"sync", "irq", "fiq", "serror"}

Handler(origin, kind) ==
    CASE kind = "sync" /\ origin \in {"spx", "aarch64"} -> "exception_handler"
      [] kind = "irq" /\ origin = "spx" -> "irq_dispatcher"
      [] OTHER -> "unhandled_exception_handler"

(* Where the frame keeps a register, in bytes. *)
Offset(r) == IF r = SP THEN 0 ELSE IF r < 18 THEN 16 + 8 * r ELSE 8 + 8 * r

(* Variant: the pair x29, x30 is stored where x27, x28 are. *)
OffsetRepeated(r) == IF r \in {29, 30} THEN 8 + 8 * (r - 2) ELSE Offset(r)

FrameSlots == {8 * k : k \in 0..37}

Saved == Registers \ {18}

(* Variant: the pair x29, x30 overwrites x27, x28. *)
SaveOverlapping(rs) ==
    [o \in FrameSlots |->
        IF \E r \in Saved : OffsetRepeated(r) = o
        THEN rs[CHOOSE r \in Saved : OffsetRepeated(r) = o] ELSE Scratch]

save_registers(rs) ==
    [o \in FrameSlots |->
        IF \E r \in Saved : Offset(r) = o THEN rs[CHOOSE r \in Saved : Offset(r) = o]
        ELSE Scratch]

(* Variant: the return address and state are left to the hardware. *)
RestoreGeneralOnly(rs, f) ==
    [r \in Registers |-> IF r \in {18, ELR, SPSR, ESR, FAR} THEN rs[r] ELSE f[Offset(r)]]

(* The syndrome and fault address are for reading only; x18 is not in the  *)
(* frame, and sp ends where the frame ends.                                *)
restore_registers(rs, f) ==
    [r \in Registers |-> IF r \in {18, ESR, FAR} THEN rs[r] ELSE f[Offset(r)]]

(* The description of the class is wording; every class halts, and only a  *)
(* breakpoint instruction is skipped.                                      *)
esr_ec_decode(ec) == [skip_instr |-> ec = "brk", halt |-> TRUE]

print_exception_class_info(f) ==
    LET ec == esr_ec_decode(IF f[Offset(ESR)] = Brk THEN "brk" ELSE "other")
    IN  IF ec.skip_instr THEN [f EXCEPT ![Offset(ELR)] = @ + 1] ELSE f

-----------------------------------------------------------------------------
Init ==
    /\ regs = [r \in Registers |-> Scratch]
    /\ pc = 0
    /\ masked = FALSE
    /\ stack = <<>>
    /\ status = "code"
    /\ entry = <<>>

(* An instruction of C code puts values of its level into registers. *)
Work ==
    /\ status \in {"code", "entered"}
    /\ pc \in Code
    /\ pc' = (pc + 1) % 2
    /\ regs' = [r \in Registers |->
                  IF r <= 30 /\ (r # 18 \/ UsesX18) THEN 100 * (Len(stack) + 1) + pc + 1
                  ELSE regs[r]]
    /\ UNCHANGED <<masked, stack, status, entry>>

(* The hardware records where it was and masks interrupts; the stub saves  *)
(* the registers, with x18, x0 and x1 to work with.                        *)
Enter(origin, kind, why) ==
    LET taken == [regs EXCEPT ![ELR] = pc, ![SPSR] = IF masked THEN 1 ELSE 0, ![ESR] = why]
    IN  /\ Len(stack) < MaxDepth
        /\ stack' = Append(stack, save_registers(taken))
        /\ regs' = [taken EXCEPT ![0] = Scratch, ![1] = Scratch, ![18] = Scratch]
        /\ entry' = Append(entry, [regs |-> regs, pc |-> pc, masked |-> masked, status |-> status,
                                   handler |-> Handler(origin, kind), brk |-> why = Brk])
        /\ masked' = TRUE
        /\ pc' = 0
        /\ status' = "entered"

(* Kernel code uses its own stack pointer, so it interrupts itself with    *)
(* the spx vectors; interrupts come only while unmasked.                   *)
Interrupt == status = "code" /\ ~masked /\ pc # Unreachable /\ Enter("spx", "irq", Scratch)

Fault == status \in {"code", "entered"} /\ pc \in Code /\ Enter("spx", "sync", Scratch)

Breakpoint == status \in {"code", "entered"} /\ pc = Brk /\ Enter("spx", "sync", Brk)

(* System errors and fast interrupts have no handler of their own. *)
Unhandled ==
    /\ status = "code"
    /\ ~masked
    /\ pc # Unreachable
    /\ \E kind \in {"fiq", "serror"} : Enter("spx", kind, Scratch)

(* exception_handler and unhandled_exception_handler print, then wait for  *)
(* an interrupt; irq_dispatcher returns.                                   *)
Handle ==
    LET i == Len(stack)
    IN  /\ status = "entered"
        /\ pc \in Code
        /\ IF entry[i].handler = "irq_dispatcher"
           THEN status' = "handled" /\ UNCHANGED stack
           ELSE /\ stack' = [stack EXCEPT ![i] = print_exception_class_info(@)]
                /\ status' = "wfi"
        /\ UNCHANGED <<regs, pc, masked, entry>>

(* wfi ends when an interrupt is pending, masked or not. *)
Woken ==
    /\ status = "wfi"
    /\ status' = "handled"
    /\ UNCHANGED <<regs, pc, masked, stack, entry>>

Return ==
    LET back == restore_registers(regs, Last(stack))
    IN  /\ status = "handled"
        /\ regs' = back
        /\ pc' = back[ELR]
        /\ masked' = (back[SPSR] = 1)
        /\ stack' = Front(stack)
        /\ entry' = Front(entry)
        /\ status' = Last(entry).status

(* panic: log, break, mask, wait, and no instruction after that. *)
panic ==
    /\ status \in {"code", "entered"}
    /\ \/ pc \in Code /\ pc' = Brk /\ UNCHANGED masked
       \/ pc = MaskAll /\ pc' = Wfi /\ masked' = TRUE
       \/ pc = Wfi /\ pc' = Unreachable /\ UNCHANGED masked
    /\ UNCHANGED <<regs, stack, status, entry>>

Next == Work \/ Interrupt \/ Fault \/ Breakpoint \/ Unhandled \/ Handle \/ Woken \/ Return \/ panic

Spec == Init /\ [][Next]_vars

-----------------------------------------------------------------------------
Returning == status = "handled" /\ Len(stack') < Len(stack)

(* Frames and interrupted levels correspond, and every frame of the stack  *)
(* holds the registers of the level it interrupted, no two in one word.    *)
TypeOK ==
    /\ Len(stack) = Len(entry)
    /\ (status = "code") = (stack = <<>>)
    /\ \A i \in 1..Len(stack) :
          \A r \in 0..30 \ {18} : stack[i][Offset(r)] = entry[i].regs[r]

(* However deep exceptions nest, each one returns to the instruction it    *)
(* interrupted, or past it if it was a breakpoint, and to its masking.     *)
ResumesWhereInterrupted ==
    [][ Returning => /\ pc' = Last(entry).pc + (IF Last(entry).brk THEN 1 ELSE 0)
                     /\ masked' = Last(entry).masked ]_vars

(* Interrupted code finds its general registers as they were, x18 aside.   *)
RegistersPreserved ==
    [][ Returning => \A r \in 0..30 \ {18} : regs'[r] = Last(entry).regs[r] ]_vars

=============================================================================
