----------------------------- MODULE Interrupts -----------------------------
(***************************************************************************)
(* Interrupts from their sources to their handlers: the GICv2 driver, the  *)
(* table of kernel/irq/irq_controller.c and its dispatcher, the PL011's    *)
(* receive interrupt (a shared interrupt, wired to every CPU) and the      *)
(* kernel timer (banked, one per CPU).  The boot CPU sets them up with     *)
(* interrupts unmasked, as start.S leaves them; the others start masked.   *)
(*                                                                         *)
(* Each CPU has a program, main, and a dispatcher on top of it, irq.  The  *)
(* dispatcher runs with interrupts masked and reads the table without the  *)
(* lock that the writers of the table hold.  The GIC is hardware: it picks *)
(* the pending interrupt of highest priority when GICC_IAR is read, keeps  *)
(* it active until GICC_EOIR is written, and answers Spurious when another *)
(* CPU was faster.                                                         *)
(***************************************************************************)
EXTENDS Integers, FiniteSets

CONSTANTS Cpus, BootCpu,
          Timer, Uart,      \* interrupt numbers
          SpiBase,          \* GIC_SPI_INT_BASE: numbers below it are banked
          Count,            \* interrupts_count of the distributor
          MAX_IRQ, Spurious,
          Removes,          \* whether the UART is removed again
          MaxArrivals       \* bound on the characters of a behaviour

None == "none"

(* The timer's interrupt is banked and the UART's is shared; both are      *)
(* numbers of the distributor and of the table.  The answer of a GIC with  *)
(* nothing to serve, 1023, is above the distributor's count: that excludes *)
(* the largest distributor, whose ITLinesNumber of 31 would count 1024.    *)
ASSUME NumbersAssumption ==
    /\ BootCpu \in Cpus
    /\ {Timer, Uart, SpiBase, Count, MAX_IRQ, Spurious} \subseteq Nat
    /\ Timer < SpiBase /\ SpiBase <= Uart
    /\ Uart < MAX_IRQ /\ Uart <= Count /\ Count < Spurious

VARIABLES main,     \* what each CPU's program does next
          irq,      \* the dispatcher of each CPU: pc, active, handler, data
          table,    \* irq_table
          gic,      \* distributor, enables, CPU interfaces, active interrupts
          timer,    \* the timer of each CPU: off, armed or fired
          uart,     \* the receive line: off, idle or ready
          arrivals  \* characters so far

vars == <<main, irq, table, gic, timer, uart, arrivals>>

Idle == [pc |-> "idle", active |-> Spurious, handler |-> None, data |-> None]

(* The firmware may have left shared interrupts enabled. *)
Init ==
    /\ main = [c \in Cpus |-> IF c = BootCpu THEN "gic" ELSE "parked"]
    /\ irq = [c \in Cpus |-> Idle]
    /\ table = [i \in 0..MAX_IRQ - 1 |-> [handler |-> None, data |-> None]]
    /\ \E on \in SUBSET {Uart} :
          gic = [forwarding |-> TRUE, spi |-> on, ppi |-> [c \in Cpus |-> {}],
                 interfaces |-> {}, taken |-> {}]
    /\ timer = [c \in Cpus |-> "off"]
    /\ uart = "off"
    /\ arrivals = 0

-----------------------------------------------------------------------------
(* The hardware.  A taken interrupt is a pair: the number, and for a       *)
(* banked one the CPU, for a shared one BootCpu in place of all.           *)

Instance(c, i) == <<i, IF i < SpiBase THEN c ELSE BootCpu>>

Asserted(c, i) ==
    \/ i = Timer /\ timer[c] = "fired" /\ Timer \in gic.ppi[c]
    \/ i = Uart /\ uart = "ready" /\ Uart \in gic.spi

Pending(c) ==
    {i \in {Timer, Uart} : Asserted(c, i) /\ Instance(c, i) \notin gic.taken}

Signalled(c) == gic.forwarding /\ c \in gic.interfaces /\ Pending(c) # {}

(* Shared interrupts have priority 0, the highest; banked ones 0xa0. *)
Highest(c) == IF Uart \in Pending(c) THEN Uart
              ELSE IF Pending(c) # {} THEN Timer ELSE Spurious

Expire(c) ==
    /\ timer[c] = "armed"
    /\ timer' = [timer EXCEPT ![c] = "fired"]
    /\ UNCHANGED <<main, irq, table, gic, uart, arrivals>>

Arrive ==
    /\ uart = "idle"
    /\ arrivals < MaxArrivals
    /\ uart' = "ready"
    /\ arrivals' = arrivals + 1
    /\ UNCHANGED <<main, irq, table, gic, timer>>

-----------------------------------------------------------------------------
(* The program of a CPU, which pauses while its dispatcher runs. *)

Step(c, from, to) ==
    /\ main[c] = from
    /\ irq[c].pc = "idle"
    /\ main' = [main EXCEPT ![c] = to]
    /\ UNCHANGED <<irq, arrivals>>

(* armgicv2_probe_dist: forwarding is off while every shared interrupt is  *)
(* routed to all CPUs, made level triggered, given priority and disabled.  *)
armgicv2_probe_dist ==
    /\ Step(BootCpu, "gic", "uart")
    /\ gic' = [gic EXCEPT !.forwarding = TRUE, !.spi = {}]
    /\ UNCHANGED <<table, timer, uart>>

pl011_probe ==
    /\ Step(BootCpu, "uart", "request")
    /\ uart' = "idle"
    /\ UNCHANGED <<table, gic, timer>>

SetHandler(i, h) == table' = [table EXCEPT ![i].handler = h]

SetData(i, d) == table' = [table EXCEPT ![i].data = d]

arm_gic_irq_enable(c, i) ==
    gic' = IF i < SpiBase THEN [gic EXCEPT !.ppi[c] = @ \cup {i}]
           ELSE [gic EXCEPT !.spi = @ \cup {i}]

(* request_irq: two words of the table, with the lock held, then the GIC. *)
request_irq ==
    \/ /\ Step(BootCpu, "request", "request data")
       /\ SetHandler(Uart, "recieve_irq_handler") /\ UNCHANGED <<gic, timer, uart>>
    \/ /\ Step(BootCpu, "request data", "request enable")
       /\ SetData(Uart, "device") /\ UNCHANGED <<gic, timer, uart>>
    \/ /\ Step(BootCpu, "request enable", "timer")
       /\ arm_gic_irq_enable(BootCpu, Uart) /\ UNCHANGED <<table, timer, uart>>

(* Variant: the handler is registered under the number without its base. *)
TimerWithoutBase ==
    /\ Step(BootCpu, "timer", "cpu init")
    /\ table' = [table EXCEPT ![Timer - 1] = [handler |-> "timer_tick", data |-> None]]
    /\ UNCHANGED <<gic, timer, uart>>

(* The timer's handler takes no data. *)
timer_global_init ==
    /\ Step(BootCpu, "timer", "cpu init")
    /\ table' = [table EXCEPT ![Timer] = [handler |-> "timer_tick", data |-> None]]
    /\ UNCHANGED <<gic, timer, uart>>

(* Banked interrupts off, except the ones software sends, which nobody     *)
(* does, and the interface of this CPU on.                                 *)
cpu_init(c) == gic' = [gic EXCEPT !.ppi[c] = {}, !.interfaces = @ \cup {c}]

timer_cpu_init(c) ==
    /\ Step(c, "cpu init", "cpu timer")
    /\ cpu_init(c)
    /\ UNCHANGED <<table, timer, uart>>

(* Enable the timer's interrupt, set the deadline, start it.  A secondary  *)
(* CPU unmasks interrupts after that.                                      *)
timer_cpu_enable(c) ==
    /\ Step(c, "cpu timer", IF c = BootCpu THEN "wake" ELSE "run")
    /\ arm_gic_irq_enable(c, Timer)
    /\ timer' = [timer EXCEPT ![c] = "armed"]
    /\ UNCHANGED <<table, uart>>

wake_secondary_cpus ==
    /\ main[BootCpu] = "wake"
    /\ irq[BootCpu].pc = "idle"
    /\ main' = [c \in Cpus |-> IF c = BootCpu THEN "run" ELSE "cpu init"]
    /\ UNCHANGED <<irq, table, gic, timer, uart, arrivals>>

(* pl011_remove: the handler is cleared, the interrupt stays enabled. *)
reject_irq ==
    /\ Removes
    /\ Step(BootCpu, "run", "removed")
    /\ SetHandler(Uart, None)
    /\ UNCHANGED <<gic, timer, uart>>

-----------------------------------------------------------------------------
(* The dispatcher.  request_irq masks interrupts while it holds the lock.  *)

Unmasked(c) ==
    IF c = BootCpu THEN main[c] # "request data" ELSE main[c] = "run"

Exception(c) ==
    /\ irq[c].pc = "idle"
    /\ Unmasked(c)
    /\ Signalled(c)
    /\ irq' = [irq EXCEPT ![c].pc = "ack"]
    /\ UNCHANGED <<main, table, gic, timer, uart, arrivals>>

(* get_active, then the bounds: a number out of range, the spurious one    *)
(* among them, is logged and nothing else.                                 *)
Acknowledge(c) ==
    LET active == Highest(c)
    IN  /\ irq[c].pc = "ack"
        /\ irq' = [irq EXCEPT ![c] = IF active > MAX_IRQ \/ active > Count THEN Idle
                                     ELSE [@ EXCEPT !.pc = "handler", !.active = active]]
        /\ gic' = [gic EXCEPT !.taken = @ \cup {Instance(c, i) : i \in {active} \ {Spurious}}]
        /\ UNCHANGED <<main, table, timer, uart, arrivals>>

ReadHandler(c) ==
    /\ irq[c].pc = "handler"
    /\ irq' = [irq EXCEPT ![c].pc = "data", ![c].handler = table[irq[c].active].handler]
    /\ UNCHANGED <<main, table, gic, timer, uart, arrivals>>

ReadData(c) ==
    /\ irq[c].pc = "data"
    /\ irq' = [irq EXCEPT ![c].pc = "call", ![c].data = table[irq[c].active].data]
    /\ UNCHANGED <<main, table, gic, timer, uart, arrivals>>

(* Variant: the tick does not set the next deadline. *)
TickOnce(c) == UNCHANGED timer

timer_tick(c) == timer' = [timer EXCEPT ![c] = "armed"]

CallHandler(c) ==
    /\ irq[c].pc = "call"
    /\ irq' = [irq EXCEPT ![c].pc = "eoi"]
    /\ IF irq[c].handler = "timer_tick" THEN timer_tick(c) ELSE UNCHANGED timer
    /\ uart' = IF irq[c].handler = "recieve_irq_handler" THEN "idle" ELSE uart
    /\ UNCHANGED <<main, table, gic, arrivals>>

(* Variant: an interrupt without a handler is not ended. *)
EoiOnlyHandled(c) ==
    /\ irq[c].pc = "eoi"
    /\ irq' = [irq EXCEPT ![c] = Idle]
    /\ gic' = IF irq[c].handler = None THEN gic
              ELSE [gic EXCEPT !.taken = @ \ {Instance(c, irq[c].active)}]
    /\ UNCHANGED <<main, table, timer, uart, arrivals>>

arm_gic_irq_eoi(c) ==
    /\ irq[c].pc = "eoi"
    /\ irq' = [irq EXCEPT ![c] = Idle]
    /\ gic' = [gic EXCEPT !.taken = @ \ {Instance(c, irq[c].active)}]
    /\ UNCHANGED <<main, table, timer, uart, arrivals>>

(* Variant: the interrupt is ended before its handler is called. *)
EoiFirst(c) ==
    \/ Exception(c)
    \/ Acknowledge(c)
    \/ ReadHandler(c)
    \/ /\ irq[c].pc = "data"
       /\ irq' = [irq EXCEPT ![c].pc = "call", ![c].data = table[irq[c].active].data]
       /\ gic' = [gic EXCEPT !.taken = @ \ {Instance(c, irq[c].active)}]
       /\ UNCHANGED <<main, table, timer, uart, arrivals>>
    \/ CallHandler(c)
    \/ arm_gic_irq_eoi(c)

irq_dispatcher(c) ==
    \/ Exception(c)
    \/ Acknowledge(c)
    \/ ReadHandler(c)
    \/ ReadData(c)
    \/ CallHandler(c)
    \/ arm_gic_irq_eoi(c)

Program(c) ==
    \/ c = BootCpu /\ (armgicv2_probe_dist \/ pl011_probe \/ request_irq
                        \/ timer_global_init \/ wake_secondary_cpus)
    \/ timer_cpu_init(c)
    \/ timer_cpu_enable(c)

Next ==
    \/ \E c \in Cpus : Program(c) \/ irq_dispatcher(c) \/ Expire(c)
    \/ Arrive
    \/ reject_irq

Spec == Init /\ [][Next]_vars

(* CPUs keep executing, and a timer that was armed expires.  Deadlines are *)
(* far apart: between ticks there is time for the program.                 *)
FairSpec ==
    /\ Spec
    /\ \A c \in Cpus : /\ SF_vars(Program(c))
                       /\ WF_vars(irq_dispatcher(c))
                       /\ WF_vars(Expire(c))

-----------------------------------------------------------------------------
Removed == main[BootCpu] = "removed"

Serving(c) == irq[c].pc \in {"handler", "data", "call", "eoi"}

TypeOK ==
    /\ \A c \in Cpus : Serving(c) => irq[c].active \in {Timer, Uart}
    /\ gic.spi \subseteq {Uart}
    /\ \A c \in Cpus : gic.ppi[c] \subseteq {Timer} /\ timer[c] \in {"off", "armed", "fired"}
    /\ gic.taken \subseteq {Instance(c, i) : c \in Cpus, i \in {Timer, Uart}}

(* What the GIC holds active is what some dispatcher is serving: nothing   *)
(* stays active, blocking all that follow, after its dispatcher returned.  *)
ActiveWhileServed ==
    gic.taken = {Instance(c, irq[c].active) : c \in {d \in Cpus : Serving(d)}}

(* An interrupt that every CPU was signalled is handled by one of them; so *)
(* the handler that reads the UART's data register finds a character.      *)
HandlerFindsCharacter ==
    \A c \in Cpus : irq[c].pc = "call" /\ irq[c].handler = "recieve_irq_handler"
        => uart = "ready" /\ \A d \in Cpus \ {c} : ~(Serving(d) /\ irq[d].active = Uart)

(* Before any removal, an interrupt that reaches the table finds its       *)
(* handler and the data it was registered with: the two words, read        *)
(* without the lock, are never seen half written.                          *)
HandlerWithItsData ==
    ~Removed =>
        \A c \in Cpus : irq[c].pc = "call" =>
            <<irq[c].handler, irq[c].data>> \in
                {<<"timer_tick", None>>, <<"recieve_irq_handler", "device">>}

(* The timer of every CPU ticks for ever, unless the UART is removed: its  *)
(* interrupt, still enabled and without a handler to quiet it, may then    *)
(* keep every CPU busy.                                                    *)
TicksForever ==
    \A c \in Cpus : []<>(timer[c] = "armed" \/ Removed) /\ []<>(timer[c] = "fired" \/ Removed)

(* A character that arrived is handled, by whichever CPU gets there, as    *)
(* long as the UART has its handler.                                       *)
CharacterHandled == uart = "ready" ~> uart = "idle" \/ Removed

(* Both interrupts are served for ever. *)
AllServed == TicksForever /\ CharacterHandled

=============================================================================
