-------------------------- MODULE InterruptsProofs --------------------------
(* Proofs about module Interrupts, for any CPUs and interrupt numbers.     *)
EXTENDS Interrupts, TLAPS

Early == {"gic", "uart", "request", "request data", "request enable", "timer", "cpu init"}
Late == {"cpu timer", "wake", "run", "removed"}
Secondary == {"parked", "cpu init", "cpu timer", "run"}
Names == {None, "timer_tick", "recieve_irq_handler"}
Words == {None, "device"}
Served == {"handler", "data", "call", "eoi"}

Programs == [Cpus -> Early \cup Late \cup Secondary]
Dispatchers == [pc : {"idle", "ack"} \cup Served, active : Nat, handler : Names, data : Words]
Tables == [0..MAX_IRQ - 1 -> [handler : Names, data : Words]]
Gics == [forwarding : BOOLEAN, spi : SUBSET {Uart}, ppi : [Cpus -> SUBSET {Timer}],
         interfaces : SUBSET Cpus, taken : SUBSET (Nat \X Cpus)]
Timers == [Cpus -> {"off", "armed", "fired"}]
Lines == {"off", "idle", "ready"}

Types ==
    /\ main \in Programs
    /\ irq \in [Cpus -> Dispatchers]
    /\ table \in Tables
    /\ gic \in Gics
    /\ timer \in Timers
    /\ uart \in Lines

(* Until the boot CPU has set up its interface nothing is dispatched, and  *)
(* until it wakes the others they are parked.                              *)
Phases ==
    /\ main[BootCpu] \in Early \cup Late
    /\ main[BootCpu] \in Early => /\ gic.interfaces = {}
                                 /\ \A c \in Cpus \ {BootCpu} : main[c] = "parked"
    /\ \A c \in Cpus : irq[c].pc # "idle" => c \in gic.interfaces

(* From the boot CPU's cpu_init on the table is complete. *)
Registered ==
    main[BootCpu] \in Late \cup {"cpu init"} =>
        /\ table[Timer] = [handler |-> "timer_tick", data |-> None]
        /\ table[Uart].data = "device"
        /\ table[Uart].handler = IF Removed THEN None ELSE "recieve_irq_handler"

(* The steps of request_irq leave the entry complete. *)
Requested ==
    /\ main[BootCpu] \in {"request data", "request enable", "timer"}
           => table[Uart].handler = "recieve_irq_handler"
    /\ main[BootCpu] \in {"request enable", "timer"} => table[Uart].data = "device"

(* No two dispatchers serve one instance. *)
OneServer ==
    \A c, d \in Cpus : Serving(c) /\ Serving(d) /\ irq[c].active = Uart /\ irq[d].active = Uart
                          => c = d

(* What a dispatcher that serves has read, and the line that made it so.   *)
HasRead(c) ==
    /\ irq[c].active \in {Timer, Uart}
    /\ irq[c].active = Uart /\ irq[c].pc # "eoi" => uart = "ready"
    /\ irq[c].pc # "handler" =>
          IF irq[c].active = Timer THEN irq[c].handler = "timer_tick"
          ELSE \/ irq[c].handler = "recieve_irq_handler"
               \/ irq[c].handler = None /\ Removed
    /\ irq[c].pc \in {"call", "eoi"} =>
          irq[c].data = IF irq[c].active = Timer THEN None ELSE "device"

Dispatching == \A c \in Cpus : Serving(c) => HasRead(c)

IInv == /\ Types /\ Phases /\ Requested /\ Registered
        /\ ActiveWhileServed /\ OneServer /\ Dispatching

-----------------------------------------------------------------------------
(* The parts of the invariant that a step leaves alone. *)

(* While the boot CPU sets things up no dispatcher runs. *)
LEMMA NoneEarly ==
    ASSUME IInv, main[BootCpu] \in Early
    PROVE  \A c \in Cpus : irq[c].pc = "idle" /\ ~Serving(c)
  <1>1. \A c \in Cpus : irq[c].pc = "idle"
    BY Zenon DEF IInv, Phases
  <1> QED
    BY <1>1 DEF Serving

(* A step that moves no dispatcher and takes or ends no interrupt. *)
LEMMA SameServers ==
    ASSUME IInv, irq' = irq, gic'.taken = gic.taken
    PROVE  ActiveWhileServed' /\ OneServer' /\ \A c \in Cpus : Serving(c)' = Serving(c)
  <1>1. \A c \in Cpus : Serving(c)' = Serving(c)
    BY Zenon DEF Serving
  <1>2. ActiveWhileServed'
    BY DEF IInv, ActiveWhileServed, Serving, Instance
  <1>3. OneServer'
    BY Zenon DEF IInv, OneServer, Serving
  <1> QED
    BY <1>1, <1>2, <1>3, Zenon

(* A step of the boot CPU's set-up keeps the invariant if it leaves the    *)
(* types alone, the interfaces off until the last step, and the table as   *)
(* the next step expects it.                                               *)
LEMMA SetUpFrame ==
    ASSUME IInv, main[BootCpu] \in Early, NEW to \in Early \cup {"cpu timer"},
           main' = [main EXCEPT ![BootCpu] = to], irq' = irq,
           table' \in Tables, gic' \in Gics, timer' \in Timers, uart' \in Lines,
           gic'.taken = gic.taken, to \in Early => gic'.interfaces = {},
           Requested', Registered'
    PROVE  IInv'
  <1>1. \A c \in Cpus : irq[c].pc = "idle" /\ ~Serving(c)
    BY NoneEarly, Zenon
  <1>2. /\ main \in Programs /\ irq \in [Cpus -> Dispatchers] /\ BootCpu \in Cpus
    BY NumbersAssumption, Zenon DEF IInv, Types
  <1>3. Types'
    <2>1. main' \in Programs
      BY <1>2 DEF Programs, Late
    <2> QED
      BY <1>2, <2>1, Zenon DEF Types
  <1>4. Phases'
    <2>1. main'[BootCpu] = to /\ \A c \in Cpus \ {BootCpu} : main'[c] = main[c]
      BY <1>2 DEF Programs
    <2>2. \A c \in Cpus \ {BootCpu} : main[c] = "parked"
      BY Zenon DEF IInv, Phases
    <2>3. to \in Early \cup Late
      BY DEF Late
    <2> QED
      BY <1>1, <2>1, <2>2, <2>3, Zenon DEF Phases
  <1>5. ActiveWhileServed' /\ OneServer' /\ \A c \in Cpus : Serving(c)' = Serving(c)
    BY SameServers, Zenon
  <1>6. Dispatching'
    BY <1>1, <1>5, Zenon DEF Dispatching
  <1> QED
    BY <1>3, <1>4, <1>5, <1>6, Zenon DEF IInv

(* A step of a program after that keeps it if the table stays complete.    *)
LEMMA LateFrame ==
    ASSUME IInv, main[BootCpu] \in Late, main' \in Programs, main'[BootCpu] \in Late,
           irq' = irq, table' \in Tables, gic' \in Gics, timer' \in Timers, uart' = uart,
           gic'.taken = gic.taken, gic.interfaces \subseteq gic'.interfaces,
           Removed => Removed', Registered'
    PROVE  IInv'
  <1>1. \A x \in Late : x \notin Early
    BY DEF Early, Late
  <1>2. Types'
    BY Zenon DEF IInv, Types
  <1>3. Phases'
    <2>1. \A c \in Cpus : irq'[c].pc # "idle" => c \in gic'.interfaces
      BY Zenon DEF IInv, Phases
    <2> QED
      BY <1>1, <2>1 DEF Phases
  <1>4. Requested'
    BY DEF Requested, Late
  <1>5. ActiveWhileServed' /\ OneServer' /\ \A c \in Cpus : Serving(c)' = Serving(c)
    BY SameServers, Zenon
  <1>6. Dispatching'
    BY <1>5 DEF IInv, Dispatching, HasRead
  <1> QED
    BY <1>2, <1>3, <1>4, <1>5, <1>6, Zenon DEF IInv

(* A step of the hardware keeps it if it takes no character away. *)
LEMMA DeviceFrame ==
    ASSUME IInv, UNCHANGED <<main, irq, table, gic>>, timer' \in Timers, uart' \in Lines,
           uart = "ready" => uart' = "ready"
    PROVE  IInv'
  <1>1. Types'
    BY Zenon DEF IInv, Types
  <1>2. Phases' /\ Requested' /\ Registered' /\ Removed' = Removed
    BY DEF IInv, Phases, Requested, Registered, Removed
  <1>3. ActiveWhileServed' /\ OneServer' /\ \A c \in Cpus : Serving(c)' = Serving(c)
    BY SameServers, Zenon
  <1>4. Dispatching'
    BY <1>2, <1>3 DEF IInv, Dispatching, HasRead
  <1> QED
    BY <1>1, <1>2, <1>3, <1>4, Zenon DEF IInv

-----------------------------------------------------------------------------
(* The programs. *)

(* armgicv2_probe_dist to the boot CPU's timer_cpu_init, one at a time. *)
LEMMA SetUpStep ==
    ASSUME IInv,
           \/ armgicv2_probe_dist \/ pl011_probe \/ request_irq \/ timer_global_init
           \/ timer_cpu_init(BootCpu)
    PROVE  IInv'
  <1>1. /\ main \in Programs /\ table \in Tables /\ gic \in Gics /\ timer \in Timers
        /\ uart \in Lines /\ BootCpu \in Cpus
    BY NumbersAssumption, Zenon DEF IInv, Types
  <1>2. /\ Timer \in 0..MAX_IRQ - 1 /\ Uart \in 0..MAX_IRQ - 1 /\ Timer # Uart
    BY NumbersAssumption
  <1>3. ASSUME NEW to, main' = [main EXCEPT ![BootCpu] = to] PROVE main'[BootCpu] = to
    BY <1>1, <1>3 DEF Programs
  <1>4. main[BootCpu] \in Early => gic.interfaces = {}
    BY Zenon DEF IInv, Phases
  <1>5. CASE armgicv2_probe_dist
    <2>1. /\ main[BootCpu] = "gic" /\ main' = [main EXCEPT ![BootCpu] = "uart"] /\ irq' = irq
          /\ gic' = [gic EXCEPT !.forwarding = TRUE, !.spi = {}]
          /\ table' = table /\ timer' = timer /\ uart' = uart
      BY <1>5, Zenon DEF armgicv2_probe_dist, Step
    <2>2. gic' \in Gics /\ gic'.taken = gic.taken /\ gic'.interfaces = gic.interfaces
      BY <1>1, <2>1 DEF Gics
    <2>3. main[BootCpu] \in Early /\ "uart" \in Early /\ main'[BootCpu] = "uart"
      BY <1>3, <2>1 DEF Early
    <2>4. Requested' /\ Registered'
      BY <2>3 DEF Requested, Registered, Late
    <2> QED
      BY <1>1, <1>4, <2>1, <2>2, <2>3, <2>4, SetUpFrame
  <1>6. CASE pl011_probe
    <2>1. /\ main[BootCpu] = "uart" /\ main' = [main EXCEPT ![BootCpu] = "request"] /\ irq' = irq
          /\ gic' = gic /\ table' = table /\ timer' = timer /\ uart' = "idle"
      BY <1>6, Zenon DEF pl011_probe, Step
    <2>2. main[BootCpu] \in Early /\ "request" \in Early /\ main'[BootCpu] = "request"
      BY <1>3, <2>1 DEF Early
    <2>3. Requested' /\ Registered' /\ uart' \in Lines
      BY <2>1, <2>2 DEF Requested, Registered, Late, Lines
    <2> QED
      BY <1>1, <1>4, <2>1, <2>2, <2>3, SetUpFrame
  <1>7. CASE request_irq
    <2>1. CASE /\ Step(BootCpu, "request", "request data")
               /\ SetHandler(Uart, "recieve_irq_handler") /\ UNCHANGED <<gic, timer, uart>>
      <3>1. /\ main[BootCpu] = "request" /\ main' = [main EXCEPT ![BootCpu] = "request data"]
            /\ irq' = irq /\ gic' = gic /\ timer' = timer /\ uart' = uart
            /\ table' = [table EXCEPT ![Uart].handler = "recieve_irq_handler"]
        BY <2>1 DEF Step, SetHandler
      <3>2. /\ main[BootCpu] \in Early /\ "request data" \in Early
            /\ main'[BootCpu] = "request data"
        BY <1>3, <3>1 DEF Early
      <3>3. table' \in Tables /\ table'[Uart].handler = "recieve_irq_handler"
        BY <1>1, <1>2, <3>1 DEF Tables, Names
      <3>4. Requested' /\ Registered'
        BY <3>2, <3>3 DEF Requested, Registered, Late
      <3> QED
        BY <1>1, <1>4, <3>1, <3>2, <3>3, <3>4, SetUpFrame
    <2>2. CASE /\ Step(BootCpu, "request data", "request enable")
               /\ SetData(Uart, "device") /\ UNCHANGED <<gic, timer, uart>>
      <3>1. /\ main[BootCpu] = "request data"
            /\ main' = [main EXCEPT ![BootCpu] = "request enable"]
            /\ irq' = irq /\ gic' = gic /\ timer' = timer /\ uart' = uart
            /\ table' = [table EXCEPT ![Uart].data = "device"]
        BY <2>2 DEF Step, SetData
      <3>2. /\ main[BootCpu] \in Early /\ "request enable" \in Early
            /\ main'[BootCpu] = "request enable"
        BY <1>3, <3>1 DEF Early
      <3>3. /\ table' \in Tables /\ table'[Uart].data = "device"
            /\ table'[Uart].handler = table[Uart].handler
        BY <1>1, <1>2, <3>1 DEF Tables, Words
      <3>4. table[Uart].handler = "recieve_irq_handler"
        BY <3>1 DEF IInv, Requested
      <3>5. Requested' /\ Registered'
        BY <3>2, <3>3, <3>4 DEF Requested, Registered, Late
      <3> QED
        BY <1>1, <1>4, <3>1, <3>2, <3>3, <3>5, SetUpFrame
    <2>3. CASE /\ Step(BootCpu, "request enable", "timer")
               /\ arm_gic_irq_enable(BootCpu, Uart) /\ UNCHANGED <<table, timer, uart>>
      <3>1. /\ main[BootCpu] = "request enable" /\ main' = [main EXCEPT ![BootCpu] = "timer"]
            /\ irq' = irq /\ table' = table /\ timer' = timer /\ uart' = uart
            /\ arm_gic_irq_enable(BootCpu, Uart)
        BY <2>3 DEF Step
      <3>2. /\ main[BootCpu] \in Early /\ "timer" \in Early /\ main'[BootCpu] = "timer"
        BY <1>3, <3>1 DEF Early
      <3>3. gic' = [gic EXCEPT !.spi = @ \cup {Uart}]
        <4>1. ~(Uart < SpiBase)
          BY NumbersAssumption
        <4> QED
          BY <3>1, <4>1, Zenon DEF arm_gic_irq_enable
      <3>4. gic' \in Gics /\ gic'.taken = gic.taken /\ gic'.interfaces = gic.interfaces
        BY <1>1, <3>3 DEF Gics
      <3>5. table[Uart].handler = "recieve_irq_handler" /\ table[Uart].data = "device"
        BY <3>1 DEF IInv, Requested
      <3>6. Requested' /\ Registered'
        BY <3>1, <3>2, <3>5 DEF Requested, Registered, Late
      <3> QED
        BY <1>1, <1>4, <3>1, <3>2, <3>4, <3>6, SetUpFrame
    <2> QED
      BY <1>7, <2>1, <2>2, <2>3, Zenon DEF request_irq
  <1>8. CASE timer_global_init
    <2>1. /\ main[BootCpu] = "timer" /\ main' = [main EXCEPT ![BootCpu] = "cpu init"]
          /\ irq' = irq /\ gic' = gic /\ timer' = timer /\ uart' = uart
          /\ table' = [table EXCEPT ![Timer] = [handler |-> "timer_tick", data |-> None]]
      BY <1>8, Zenon DEF timer_global_init, Step
    <2>2. /\ main[BootCpu] \in Early /\ "cpu init" \in Early /\ main'[BootCpu] = "cpu init"
      BY <1>3, <2>1 DEF Early
    <2>3. /\ table' \in Tables /\ table'[Uart] = table[Uart]
          /\ table'[Timer] = [handler |-> "timer_tick", data |-> None]
      BY <1>1, <1>2, <2>1 DEF Tables, Names, Words
    <2>4. table[Uart].handler = "recieve_irq_handler" /\ table[Uart].data = "device"
      BY <2>1 DEF IInv, Requested
    <2>5. Requested' /\ Registered'
      BY <2>2, <2>3, <2>4 DEF Requested, Registered, Removed
    <2> QED
      BY <1>1, <1>4, <2>1, <2>2, <2>3, <2>5, SetUpFrame
  <1>9. CASE timer_cpu_init(BootCpu)
    <2>1. /\ main[BootCpu] = "cpu init" /\ main' = [main EXCEPT ![BootCpu] = "cpu timer"]
          /\ irq' = irq /\ table' = table /\ timer' = timer /\ uart' = uart
          /\ gic' = [gic EXCEPT !.ppi[BootCpu] = {}, !.interfaces = @ \cup {BootCpu}]
      BY <1>9, Zenon DEF timer_cpu_init, cpu_init, Step
    <2>2. /\ main[BootCpu] \in Early /\ "cpu timer" \notin Early /\ main'[BootCpu] = "cpu timer"
      BY <1>3, <2>1 DEF Early
    <2>3. gic' \in Gics /\ gic'.taken = gic.taken
      BY <1>1, <2>1 DEF Gics
    <2>4. Requested' /\ Registered'
      BY <2>1, <2>2 DEF IInv, Requested, Registered, Removed
    <2> QED
      BY <1>1, <2>1, <2>2, <2>3, <2>4, SetUpFrame
  <1> QED
    BY <1>5, <1>6, <1>7, <1>8, <1>9, Zenon

(* The steps of programs after that: the timers of the CPUs, the other     *)
(* CPUs and the removal of the UART.                                       *)
LEMMA ProgramStep ==
    ASSUME IInv,
           \/ \E c \in Cpus : timer_cpu_init(c) /\ c # BootCpu
           \/ \E c \in Cpus : timer_cpu_enable(c)
           \/ wake_secondary_cpus
           \/ reject_irq
    PROVE  IInv'
  <1>1. /\ main \in Programs /\ table \in Tables /\ gic \in Gics /\ timer \in Timers
        /\ uart \in Lines /\ BootCpu \in Cpus
    BY NumbersAssumption, Zenon DEF IInv, Types
  <1>2. /\ Timer \in 0..MAX_IRQ - 1 /\ Uart \in 0..MAX_IRQ - 1 /\ Timer # Uart /\ Timer < SpiBase
    BY NumbersAssumption
  <1>3. \A c \in Cpus : main[c] \in {"cpu init", "cpu timer"} /\ c # BootCpu
                            => main[BootCpu] \in Late
    <2>1. /\ main[BootCpu] \in Early \cup Late
          /\ main[BootCpu] \in Early => \A c \in Cpus \ {BootCpu} : main[c] = "parked"
      BY Zenon DEF IInv, Phases
    <2>2. ASSUME NEW c \in Cpus, main[c] \in {"cpu init", "cpu timer"}, c # BootCpu
          PROVE  main[BootCpu] \notin Early
      <3>1. main[c] # "parked"
        BY <2>2
      <3> QED
        BY <2>1, <2>2, <3>1, Zenon
    <2> QED
      BY <2>1, <2>2, Zenon
  <1>4. ASSUME NEW c \in Cpus, timer_cpu_init(c), c # BootCpu PROVE IInv'
    <2>1. /\ main[c] = "cpu init" /\ main' = [main EXCEPT ![c] = "cpu timer"]
          /\ irq' = irq /\ table' = table /\ timer' = timer /\ uart' = uart
          /\ gic' = [gic EXCEPT !.ppi[c] = {}, !.interfaces = @ \cup {c}]
      BY <1>4, Zenon DEF timer_cpu_init, cpu_init, Step
    <2>2. main' \in Programs /\ main'[BootCpu] = main[BootCpu] /\ main[BootCpu] \in Late
      BY <1>1, <1>3, <1>4, <2>1 DEF Programs, Late
    <2>3. gic' \in Gics /\ gic'.taken = gic.taken /\ gic.interfaces \subseteq gic'.interfaces
      BY <1>1, <2>1 DEF Gics
    <2>4. Registered' /\ (Removed => Removed')
      BY <2>1, <2>2 DEF IInv, Registered, Removed
    <2> QED
      BY <1>1, <2>1, <2>2, <2>3, <2>4, LateFrame
  <1>5. ASSUME NEW c \in Cpus, timer_cpu_enable(c) PROVE IInv'
    <2>1. /\ main[c] = "cpu timer"
          /\ main' = [main EXCEPT ![c] = IF c = BootCpu THEN "wake" ELSE "run"]
          /\ irq' = irq /\ table' = table /\ uart' = uart
          /\ timer' = [timer EXCEPT ![c] = "armed"] /\ arm_gic_irq_enable(c, Timer)
      BY <1>5, Zenon DEF timer_cpu_enable, Step
    <2>2. main[BootCpu] \in Late
      <3>1. "cpu timer" \in Late
        BY DEF Late
      <3> QED
        BY <1>3, <2>1, <3>1
    <2>3. main' \in Programs
      <3>1. (IF c = BootCpu THEN "wake" ELSE "run") \in Late
        BY DEF Late
      <3> QED
        BY <1>1, <2>1, <3>1 DEF Programs
    <2>8. /\ main'[BootCpu] \in Late /\ (Removed => Removed')
          /\ (main'[BootCpu] = main[BootCpu] \/ (main'[BootCpu] = "wake" /\ ~Removed))
      <3>1. CASE c = BootCpu
        <4>1. main'[BootCpu] = "wake"
          BY <1>1, <2>1, <3>1 DEF Programs
        <4> QED
          BY <2>1, <3>1, <4>1 DEF Late, Removed
      <3>2. CASE c # BootCpu
        <4>1. main'[BootCpu] = main[BootCpu]
          BY <1>1, <2>1, <3>2 DEF Programs
        <4> QED
          BY <2>2, <4>1, Zenon DEF Removed
      <3> QED
        BY <3>1, <3>2
    <2>4. gic' = [gic EXCEPT !.ppi[c] = @ \cup {Timer}]
      BY <1>2, <2>1, Zenon DEF arm_gic_irq_enable
    <2>5. gic' \in Gics /\ gic'.taken = gic.taken /\ gic.interfaces \subseteq gic'.interfaces
      BY <1>1, <2>4 DEF Gics
    <2>6. timer' \in Timers
      BY <1>1, <2>1 DEF Timers
    <2>7. Registered'
      BY <2>1, <2>2, <2>8 DEF IInv, Registered, Removed
    <2> QED
      BY <1>1, <2>1, <2>2, <2>3, <2>5, <2>6, <2>7, <2>8, LateFrame
  <1>6. CASE wake_secondary_cpus
    <2>1. /\ main[BootCpu] = "wake"
          /\ main' = [c \in Cpus |-> IF c = BootCpu THEN "run" ELSE "cpu init"]
          /\ irq' = irq /\ table' = table /\ gic' = gic /\ timer' = timer /\ uart' = uart
      BY <1>6, Zenon DEF wake_secondary_cpus
    <2>2. /\ main' \in Programs /\ main'[BootCpu] = "run" /\ main[BootCpu] \in Late /\ "run" \in Late
      BY <1>1, <2>1 DEF Programs, Late, Early
    <2>3. Registered' /\ (Removed => Removed')
      BY <2>1, <2>2 DEF IInv, Registered, Removed
    <2> QED
      BY <1>1, <2>1, <2>2, <2>3, LateFrame
  <1>7. CASE reject_irq
    <2>1. /\ main[BootCpu] = "run" /\ main' = [main EXCEPT ![BootCpu] = "removed"]
          /\ irq' = irq /\ gic' = gic /\ timer' = timer /\ uart' = uart
          /\ table' = [table EXCEPT ![Uart].handler = None]
      BY <1>7, Zenon DEF reject_irq, Step, SetHandler
    <2>2. /\ main' \in Programs /\ main'[BootCpu] = "removed"
          /\ main[BootCpu] \in Late /\ "removed" \in Late
      BY <1>1, <2>1 DEF Programs, Late
    <2>3. /\ table' \in Tables /\ table'[Timer] = table[Timer]
          /\ table'[Uart].data = table[Uart].data /\ table'[Uart].handler = None
      BY <1>1, <1>2, <2>1 DEF Tables, Names
    <2>4. Registered' /\ (Removed => Removed')
      BY <2>2, <2>3 DEF IInv, Registered, Removed
    <2> QED
      BY <1>1, <2>1, <2>2, <2>3, <2>4, LateFrame
  <1> QED
    BY <1>4, <1>5, <1>6, <1>7, Zenon

-----------------------------------------------------------------------------
(* The dispatchers. *)

(* A step of one dispatcher: the rest of the system, and what stays of it. *)
LEMMA DispatcherFrame ==
    ASSUME IInv, NEW c \in Cpus, NEW r \in Dispatchers, c \in gic.interfaces,
           irq' = [irq EXCEPT ![c] = r], UNCHANGED <<main, table>>,
           gic' \in Gics, gic'.interfaces = gic.interfaces, timer' \in Timers, uart' \in Lines
    PROVE  /\ Types' /\ Phases' /\ Requested' /\ Registered' /\ Removed' = Removed
           /\ irq'[c] = r /\ Serving(c)' = (r.pc \in Served)
           /\ \A d \in Cpus \ {c} : irq'[d] = irq[d] /\ Serving(d)' = Serving(d)
  <1>1. irq \in [Cpus -> Dispatchers]
    BY Zenon DEF IInv, Types
  <1>2. /\ irq' \in [Cpus -> Dispatchers] /\ irq'[c] = r
        /\ \A d \in Cpus \ {c} : irq'[d] = irq[d]
    BY <1>1, Zenon
  <1>3. Types'
    BY <1>2, Zenon DEF IInv, Types
  <1>4. Phases'
    BY <1>2 DEF IInv, Phases
  <1>5. Requested' /\ Registered' /\ Removed' = Removed
    BY DEF IInv, Requested, Registered, Removed
  <1>6. Serving(c)' = (r.pc \in Served) /\ \A d \in Cpus \ {c} : Serving(d)' = Serving(d)
    BY <1>2, Zenon DEF Serving, Served
  <1> QED
    BY <1>2, <1>3, <1>4, <1>5, <1>6, Zenon

(* A dispatcher that goes on serving what it serves, or goes on not        *)
(* serving.                                                                *)
LEMMA SameServed ==
    ASSUME IInv, NEW c \in Cpus, gic'.taken = gic.taken, Serving(c)' <=> Serving(c),
           irq'[c].active = irq[c].active,
           \A d \in Cpus \ {c} : irq'[d] = irq[d] /\ Serving(d)' = Serving(d)
    PROVE  ActiveWhileServed' /\ OneServer'
  <1>1. \A d \in Cpus : irq'[d].active = irq[d].active /\ (Serving(d)' <=> Serving(d))
    BY Zenon
  <1>2. {d \in Cpus : Serving(d)'} = {d \in Cpus : Serving(d)}
    BY <1>1, Zenon
  <1>3. \A d \in Cpus : Instance(d, irq'[d].active) = Instance(d, irq[d].active)
    BY <1>1, Zenon
  <1>4. {Instance(d, irq'[d].active) : d \in {e \in Cpus : Serving(e)'}}
          = {Instance(d, irq[d].active) : d \in {e \in Cpus : Serving(e)}}
    BY <1>1, <1>3
  <1>5. ActiveWhileServed'
    BY <1>4 DEF IInv, ActiveWhileServed, Instance
  <1>6. OneServer'
    BY <1>1, Zenon DEF IInv, OneServer
  <1> QED
    BY <1>5, <1>6

(* What GICC_IAR answers: an interrupt that is asserted and that nobody    *)
(* serves, or the spurious number.                                         *)
LEMMA Answer ==
    ASSUME IInv, NEW c \in Cpus, Highest(c) # Spurious
    PROVE  /\ Highest(c) \in {Timer, Uart}
           /\ Instance(c, Highest(c)) \notin gic.taken
           /\ Highest(c) = Uart => uart = "ready"
  <1>1. Timer # Uart
    BY NumbersAssumption
  <1>2. Highest(c) \in Pending(c)
    <2>1. CASE Uart \in Pending(c)
      BY <2>1, Zenon DEF Highest
    <2>2. CASE Uart \notin Pending(c)
      <3>1. Pending(c) # {} /\ Highest(c) = Timer
        BY <2>2, Zenon DEF Highest
      <3>2. \A i \in Pending(c) : i = Timer \/ i = Uart
        BY Zenon DEF Pending
      <3>3. Timer \in Pending(c)
        BY <2>2, <3>1, <3>2
      <3> QED
        BY <3>1, <3>3
    <2> QED
      BY <2>1, <2>2
  <1>3. /\ Highest(c) \in {Timer, Uart} /\ Asserted(c, Highest(c))
        /\ Instance(c, Highest(c)) \notin gic.taken
    BY <1>2, Zenon DEF Pending
  <1> QED
    BY <1>1, <1>3, Zenon DEF Asserted

(* Acknowledge takes an interrupt that nobody serves, or returns. *)
LEMMA AcknowledgeStep ==
    ASSUME IInv, NEW c \in Cpus, Acknowledge(c)
    PROVE  IInv'
  <1> DEFINE active == Highest(c)
             r == IF active > MAX_IRQ \/ active > Count THEN Idle
                  ELSE [irq[c] EXCEPT !.pc = "handler", !.active = active]
  <1>1. /\ irq \in [Cpus -> Dispatchers] /\ gic \in Gics /\ timer \in Timers /\ uart \in Lines
        /\ irq[c] \in Dispatchers /\ BootCpu \in Cpus
    BY NumbersAssumption, Zenon DEF IInv, Types
  <1>2. /\ irq[c].pc = "ack" /\ irq' = [irq EXCEPT ![c] = r]
        /\ gic' = [gic EXCEPT !.taken = @ \cup {Instance(c, i) : i \in {active} \ {Spurious}}]
        /\ UNCHANGED <<main, table>> /\ timer' = timer /\ uart' = uart
    BY DEF Acknowledge
  <1>3. c \in gic.interfaces /\ ~Serving(c)
    <2>1. irq[c].pc # "idle"
      BY <1>2
    <2> QED
      BY <1>2, <2>1 DEF IInv, Phases, Serving
  <1>4. CASE active = Spurious
    <2>1. r = Idle
      BY <1>4, NumbersAssumption
    <2>2. Idle \in Dispatchers /\ Idle.pc = "idle"
      BY NumbersAssumption DEF Idle, Dispatchers, Names, Words
    <2>3. gic'.taken = gic.taken /\ gic'.interfaces = gic.interfaces /\ gic' \in Gics
      <3>1. {Instance(c, i) : i \in {active} \ {Spurious}} = {}
        BY <1>4
      <3>2. gic' = [gic EXCEPT !.taken = @ \cup {}]
        BY <1>2, <3>1
      <3> QED
        BY <1>1, <3>2 DEF Gics
    <2>4. /\ Types' /\ Phases' /\ Requested' /\ Registered' /\ Removed' = Removed
          /\ irq'[c] = Idle /\ Serving(c)' = (Idle.pc \in Served)
          /\ \A d \in Cpus \ {c} : irq'[d] = irq[d] /\ Serving(d)' = Serving(d)
      <3>1. irq' = [irq EXCEPT ![c] = Idle] /\ timer' \in Timers /\ uart' \in Lines
        BY <1>1, <1>2, <2>1, Zenon
      <3> QED
        BY <1>2, <1>3, <2>2, <2>3, <3>1, DispatcherFrame, Zenon
    <2>5. ~Serving(c)'
      BY <2>2, <2>4 DEF Served
    <2>6. ActiveWhileServed'
      <3>1. gic.taken = {Instance(d, irq[d].active) : d \in {e \in Cpus : Serving(e)}}
        BY Zenon DEF IInv, ActiveWhileServed
      <3>2. {Instance(d, irq'[d].active) : d \in {e \in Cpus : Serving(e)'}}
              = {Instance(d, irq[d].active) : d \in {e \in Cpus : Serving(e)}}
        BY <1>3, <2>4, <2>5
      <3> QED
        BY <2>3, <3>1, <3>2 DEF ActiveWhileServed, Instance
    <2>7. OneServer'
      BY <2>4, <2>5, Zenon DEF IInv, OneServer
    <2>8. Dispatching'
      BY <1>2, <2>4, <2>5 DEF IInv, Dispatching, HasRead
    <2> QED
      BY <2>4, <2>6, <2>7, <2>8, Zenon DEF IInv
  <1>5. CASE active # Spurious
    <2>1. /\ active \in {Timer, Uart} /\ Instance(c, active) \notin gic.taken
          /\ active = Uart => uart = "ready"
      BY <1>5, Answer, Zenon
    <2> HIDE DEF active
    <2> DEFINE q == [irq[c] EXCEPT !.pc = "handler", !.active = active]
    <2>2. r = q
      BY <2>1, NumbersAssumption
    <2>3. q \in Dispatchers /\ q.pc = "handler" /\ q.active = active
      <3>1. active \in Nat
        BY <2>1, NumbersAssumption
      <3> QED
        BY <1>1, <3>1 DEF Dispatchers, Served
    <2>4. gic'.taken = gic.taken \cup {Instance(c, active)}
      <3>1. {Instance(c, i) : i \in {active} \ {Spurious}} = {Instance(c, active)}
        BY <1>5
      <3> QED
        BY <1>1, <1>2, <3>1 DEF Gics
    <2>5. gic'.interfaces = gic.interfaces /\ gic' \in Gics
      <3>1. Instance(c, active) \in Nat \X Cpus
        BY <1>1, <2>1, NumbersAssumption DEF Instance
      <3>2. gic'.taken \in SUBSET (Nat \X Cpus)
        BY <1>1, <2>4, <3>1 DEF Gics
      <3> QED
        BY <1>1, <1>2, <3>2 DEF Gics
    <2> HIDE DEF q
    <2>6. /\ Types' /\ Phases' /\ Requested' /\ Registered' /\ Removed' = Removed
          /\ irq'[c] = q /\ Serving(c)' = (q.pc \in Served)
          /\ \A d \in Cpus \ {c} : irq'[d] = irq[d] /\ Serving(d)' = Serving(d)
      <3>1. irq' = [irq EXCEPT ![c] = q] /\ timer' \in Timers /\ uart' \in Lines
        BY <1>1, <1>2, <2>2, Zenon
      <3> QED
        BY <1>2, <1>3, <2>3, <2>5, <3>1, DispatcherFrame, Zenon
    <2>7. Serving(c)'
      BY <2>3, <2>6 DEF Served
    <2>8. gic.taken = {Instance(d, irq[d].active) : d \in {e \in Cpus : Serving(e)}}
      BY Zenon DEF IInv, ActiveWhileServed
    <2>9. ActiveWhileServed'
      <3>1. {Instance(d, irq'[d].active) : d \in {e \in Cpus : Serving(e)'}}
              = {Instance(d, irq[d].active) : d \in {e \in Cpus : Serving(e)}}
                  \cup {Instance(c, active)}
        BY <1>3, <2>3, <2>6, <2>7
      <3> QED
        BY <2>4, <2>8, <3>1 DEF ActiveWhileServed, Instance
    <2>10. OneServer'
      <3>1. \A d \in Cpus \ {c} : Serving(d) /\ irq[d].active = Uart => active # Uart
        <4>1. \A d \in Cpus : Serving(d) => Instance(d, irq[d].active) # Instance(c, active)
          BY <2>1, <2>8
        <4>2. \A d \in Cpus : Instance(d, Uart) = <<Uart, BootCpu>>
          BY NumbersAssumption DEF Instance
        <4> QED
          BY <4>1, <4>2
      <3> QED
        BY <2>3, <2>6, <3>1, Zenon DEF IInv, OneServer
    <2>11. Dispatching'
      <3>1. ASSUME NEW d \in Cpus \ {c}, Serving(d)'
            PROVE  HasRead(d)'
        BY <1>2, <2>6, <3>1 DEF IInv, Dispatching, HasRead
      <3>2. /\ irq'[c].active \in {Timer, Uart} /\ irq'[c].pc = "handler"
            /\ irq'[c].active = Uart => uart' = "ready"
        BY <1>2, <2>1, <2>3, <2>6
      <3> QED
        BY <3>1, <3>2 DEF Dispatching, HasRead
    <2> QED
      BY <2>6, <2>9, <2>10, <2>11, Zenon DEF IInv
  <1> QED
    BY <1>4, <1>5

(* The other steps that go on with the interrupt or start with none. *)
LEMMA GoOnStep ==
    ASSUME IInv, NEW c \in Cpus,
           Exception(c) \/ ReadHandler(c) \/ ReadData(c) \/ CallHandler(c)
    PROVE  IInv'
  <1>1. /\ irq \in [Cpus -> Dispatchers] /\ gic \in Gics /\ timer \in Timers /\ uart \in Lines
        /\ irq[c] \in Dispatchers /\ table \in Tables
    BY Zenon DEF IInv, Types
  <1>2. /\ Timer \in 0..MAX_IRQ - 1 /\ Uart \in 0..MAX_IRQ - 1 /\ Timer # Uart
    BY NumbersAssumption
  <1>3. ASSUME irq[c].pc # "idle"
        PROVE  /\ c \in gic.interfaces
               /\ table[Timer] = [handler |-> "timer_tick", data |-> None]
               /\ table[Uart].data = "device"
               /\ table[Uart].handler = IF Removed THEN None ELSE "recieve_irq_handler"
    <2>1. c \in gic.interfaces
      BY <1>3, Zenon DEF IInv, Phases
    <2>2. main[BootCpu] \in Late
      BY <2>1, Zenon DEF IInv, Phases
    <2> QED
      BY <2>1, <2>2, Zenon DEF IInv, Registered
  <1>4. CASE Exception(c)
    <2> DEFINE r == [irq[c] EXCEPT !.pc = "ack"]
    <2>1. /\ irq[c].pc = "idle" /\ irq' = [irq EXCEPT ![c] = r] /\ c \in gic.interfaces
          /\ UNCHANGED <<main, table>> /\ gic' = gic /\ timer' = timer /\ uart' = uart
      BY <1>1, <1>4 DEF Exception, Signalled
    <2>2. r \in Dispatchers /\ r.pc = "ack" /\ r.active = irq[c].active
      BY <1>1 DEF Dispatchers
    <2> HIDE DEF r
    <2>3. /\ Types' /\ Phases' /\ Requested' /\ Registered' /\ Removed' = Removed
          /\ irq'[c] = r /\ Serving(c)' = (r.pc \in Served)
          /\ \A d \in Cpus \ {c} : irq'[d] = irq[d] /\ Serving(d)' = Serving(d)
      <3>1. timer' \in Timers /\ uart' \in Lines /\ gic' \in Gics /\ gic'.interfaces = gic.interfaces
        BY <1>1, <2>1, Zenon
      <3> QED
        BY <2>1, <2>2, <3>1, DispatcherFrame, Zenon
    <2>4. ~Serving(c) /\ ~Serving(c)'
      BY <2>1, <2>2, <2>3 DEF Serving, Served
    <2>5. ActiveWhileServed' /\ OneServer'
      <3>1. Serving(c)' <=> Serving(c)
        BY <2>4, Zenon
      <3>2. gic'.taken = gic.taken /\ irq'[c].active = irq[c].active
        BY <2>1, <2>2, <2>3, Zenon
      <3> QED
        BY <2>3, <3>1, <3>2, SameServed, Zenon
    <2>6. Dispatching'
      BY <2>1, <2>3, <2>4 DEF IInv, Dispatching, HasRead
    <2> QED
      BY <2>3, <2>5, <2>6, Zenon DEF IInv
  <1>5. CASE ReadHandler(c)
    <2> DEFINE h == table[irq[c].active].handler
               r == [irq[c] EXCEPT !.pc = "data", !.handler = h]
    <2>1. /\ irq[c].pc = "handler" /\ irq' = [irq EXCEPT ![c] = r]
          /\ UNCHANGED <<main, table>> /\ gic' = gic /\ timer' = timer /\ uart' = uart
      BY <1>1, <1>5 DEF ReadHandler
    <2>2. Serving(c) /\ HasRead(c) /\ irq[c].pc # "idle"
      BY <2>1 DEF IInv, Dispatching, Serving
    <2>3. irq[c].active \in {Timer, Uart} /\ (irq[c].active = Uart => uart = "ready")
      BY <2>1, <2>2 DEF HasRead
    <2>4. /\ h \in Names
          /\ IF irq[c].active = Timer THEN h = "timer_tick"
             ELSE (h = "recieve_irq_handler" \/ (h = None /\ Removed))
      BY <1>1, <1>2, <1>3, <2>2, <2>3 DEF Tables
    <2>5. /\ r \in Dispatchers /\ r.pc = "data" /\ r.active = irq[c].active /\ r.handler = h
      <3> HIDE DEF h
      <3> QED
        BY <1>1, <2>4 DEF Dispatchers, Served
    <2> HIDE DEF r, h
    <2>6. /\ Types' /\ Phases' /\ Requested' /\ Registered' /\ Removed' = Removed
          /\ irq'[c] = r /\ Serving(c)' = (r.pc \in Served)
          /\ \A d \in Cpus \ {c} : irq'[d] = irq[d] /\ Serving(d)' = Serving(d)
      <3>1. timer' \in Timers /\ uart' \in Lines /\ gic' \in Gics /\ gic'.interfaces = gic.interfaces
        BY <1>1, <2>1, Zenon
      <3> QED
        BY <1>3, <2>1, <2>2, <2>5, <3>1, DispatcherFrame, Zenon
    <2>7. Serving(c)'
      BY <2>5, <2>6 DEF Served
    <2>8. ActiveWhileServed' /\ OneServer'
      BY <2>1, <2>2, <2>5, <2>6, <2>7, SameServed
    <2>9. Dispatching'
      <3>1. HasRead(c)'
        BY <2>1, <2>3, <2>4, <2>5, <2>6 DEF HasRead
      <3>2. ASSUME NEW d \in Cpus \ {c}, Serving(d)' PROVE HasRead(d)'
        BY <2>1, <2>6, <3>2 DEF IInv, Dispatching, HasRead
      <3> QED
        BY <3>1, <3>2, Zenon DEF Dispatching
    <2> QED
      BY <2>6, <2>8, <2>9, Zenon DEF IInv
  <1>6. CASE ReadData(c)
    <2> DEFINE w == table[irq[c].active].data
               r == [irq[c] EXCEPT !.pc = "call", !.data = w]
    <2>1. /\ irq[c].pc = "data" /\ irq' = [irq EXCEPT ![c] = r]
          /\ UNCHANGED <<main, table>> /\ gic' = gic /\ timer' = timer /\ uart' = uart
      BY <1>1, <1>6 DEF ReadData
    <2>2. Serving(c) /\ HasRead(c) /\ irq[c].pc # "idle"
      BY <2>1 DEF IInv, Dispatching, Serving
    <2>3. /\ irq[c].active \in {Timer, Uart} /\ (irq[c].active = Uart => uart = "ready")
          /\ IF irq[c].active = Timer THEN irq[c].handler = "timer_tick"
             ELSE (irq[c].handler = "recieve_irq_handler" \/ (irq[c].handler = None /\ Removed))
      BY <2>1, <2>2 DEF HasRead
    <2>4. w \in Words /\ w = IF irq[c].active = Timer THEN None ELSE "device"
      BY <1>1, <1>2, <1>3, <2>2, <2>3 DEF Tables
    <2>5. /\ r \in Dispatchers /\ r.pc = "call" /\ r.active = irq[c].active
          /\ r.handler = irq[c].handler /\ r.data = w
      <3> HIDE DEF w
      <3> QED
        BY <1>1, <2>4 DEF Dispatchers, Served
    <2> HIDE DEF r, w
    <2>6. /\ Types' /\ Phases' /\ Requested' /\ Registered' /\ Removed' = Removed
          /\ irq'[c] = r /\ Serving(c)' = (r.pc \in Served)
          /\ \A d \in Cpus \ {c} : irq'[d] = irq[d] /\ Serving(d)' = Serving(d)
      <3>1. timer' \in Timers /\ uart' \in Lines /\ gic' \in Gics /\ gic'.interfaces = gic.interfaces
        BY <1>1, <2>1, Zenon
      <3> QED
        BY <1>3, <2>1, <2>2, <2>5, <3>1, DispatcherFrame, Zenon
    <2>7. Serving(c)'
      BY <2>5, <2>6 DEF Served
    <2>8. ActiveWhileServed' /\ OneServer'
      BY <2>1, <2>2, <2>5, <2>6, <2>7, SameServed
    <2>9. Dispatching'
      <3>1. HasRead(c)'
        BY <2>1, <2>3, <2>4, <2>5, <2>6 DEF HasRead
      <3>2. ASSUME NEW d \in Cpus \ {c}, Serving(d)' PROVE HasRead(d)'
        BY <2>1, <2>6, <3>2 DEF IInv, Dispatching, HasRead
      <3> QED
        BY <3>1, <3>2, Zenon DEF Dispatching
    <2> QED
      BY <2>6, <2>8, <2>9, Zenon DEF IInv
  <1>7. CASE CallHandler(c)
    <2> DEFINE r == [irq[c] EXCEPT !.pc = "eoi"]
    <2>1. /\ irq[c].pc = "call" /\ irq' = [irq EXCEPT ![c] = r]
          /\ UNCHANGED <<main, table>> /\ gic' = gic
          /\ uart' = IF irq[c].handler = "recieve_irq_handler" THEN "idle" ELSE uart
          /\ timer' = timer \/ timer' = [timer EXCEPT ![c] = "armed"]
      <3>1. /\ irq[c].pc = "call" /\ irq' = [irq EXCEPT ![c].pc = "eoi"]
            /\ UNCHANGED <<main, table>> /\ gic' = gic
            /\ uart' = IF irq[c].handler = "recieve_irq_handler" THEN "idle" ELSE uart
        BY <1>7, Zenon DEF CallHandler
      <3>2. timer' = timer \/ timer' = [timer EXCEPT ![c] = "armed"]
        BY <1>7, Zenon DEF CallHandler, timer_tick
      <3> QED
        BY <1>1, <3>1, <3>2
    <2>2. Serving(c) /\ HasRead(c) /\ irq[c].pc # "idle"
      BY <2>1 DEF IInv, Dispatching, Serving
    <2>3. /\ r \in Dispatchers /\ r.pc = "eoi" /\ r.active = irq[c].active
          /\ r.handler = irq[c].handler /\ r.data = irq[c].data
      BY <1>1 DEF Dispatchers, Served
    <2> HIDE DEF r
    <2>4. /\ Types' /\ Phases' /\ Requested' /\ Registered' /\ Removed' = Removed
          /\ irq'[c] = r /\ Serving(c)' = (r.pc \in Served)
          /\ \A d \in Cpus \ {c} : irq'[d] = irq[d] /\ Serving(d)' = Serving(d)
      <3>1. timer' \in Timers
        BY <1>1, <2>1 DEF Timers
      <3>2. uart' \in Lines /\ gic' \in Gics /\ gic'.interfaces = gic.interfaces
        BY <1>1, <2>1 DEF Lines
      <3> QED
        BY <1>3, <2>1, <2>2, <2>3, <3>1, <3>2, DispatcherFrame, Zenon
    <2>5. Serving(c)'
      BY <2>3, <2>4 DEF Served
    <2>6. ActiveWhileServed' /\ OneServer'
      BY <2>1, <2>2, <2>3, <2>4, <2>5, SameServed
    <2>7. Dispatching'
      <3>1. HasRead(c)'
        BY <2>1, <2>2, <2>3, <2>4 DEF HasRead
      <3>2. ASSUME NEW d \in Cpus \ {c}, Serving(d)' PROVE HasRead(d)'
        <4>1. HasRead(d) /\ irq'[d] = irq[d] /\ Serving(d)
          BY <2>4, <3>2, Zenon DEF IInv, Dispatching
        <4>2. irq[d].active = Uart => uart' = uart
          <5>1. irq[c].handler = "recieve_irq_handler" => irq[c].active = Uart
            BY <2>1, <2>2 DEF HasRead
          <5>2. irq[c].active = Uart => irq[d].active # Uart
            BY <2>2, <4>1, Zenon DEF IInv, OneServer
          <5> QED
            BY <2>1, <5>1, <5>2
        <4> QED
          BY <2>4, <4>1, <4>2 DEF HasRead
      <3> QED
        BY <3>1, <3>2, Zenon DEF Dispatching
    <2> QED
      BY <2>4, <2>6, <2>7, Zenon DEF IInv
  <1> QED
    BY <1>4, <1>5, <1>6, <1>7, Zenon

(* arm_gic_irq_eoi ends what this dispatcher serves, and nobody else does. *)
LEMMA EndStep ==
    ASSUME IInv, NEW c \in Cpus, arm_gic_irq_eoi(c)
    PROVE  IInv'
  <1>1. /\ irq \in [Cpus -> Dispatchers] /\ gic \in Gics /\ timer \in Timers /\ uart \in Lines
        /\ irq[c] \in Dispatchers /\ BootCpu \in Cpus
    BY NumbersAssumption, Zenon DEF IInv, Types
  <1>2. /\ irq[c].pc = "eoi" /\ irq' = [irq EXCEPT ![c] = Idle]
        /\ gic' = [gic EXCEPT !.taken = @ \ {Instance(c, irq[c].active)}]
        /\ UNCHANGED <<main, table>> /\ timer' = timer /\ uart' = uart
    BY Zenon DEF arm_gic_irq_eoi
  <1>3. c \in gic.interfaces /\ Serving(c) /\ irq[c].active \in {Timer, Uart}
    <2>1. irq[c].pc # "idle" /\ Serving(c)
      BY <1>2 DEF Serving
    <2> QED
      BY <2>1, Zenon DEF IInv, Phases, Dispatching, HasRead
  <1>4. Idle \in Dispatchers /\ Idle.pc = "idle"
    BY NumbersAssumption DEF Idle, Dispatchers, Names, Words
  <1>5. /\ gic'.taken = gic.taken \ {Instance(c, irq[c].active)}
        /\ gic'.interfaces = gic.interfaces /\ gic' \in Gics
    BY <1>1, <1>2 DEF Gics
  <1>6. /\ Types' /\ Phases' /\ Requested' /\ Registered' /\ Removed' = Removed
        /\ irq'[c] = Idle /\ Serving(c)' = (Idle.pc \in Served)
        /\ \A d \in Cpus \ {c} : irq'[d] = irq[d] /\ Serving(d)' = Serving(d)
    <2>1. timer' \in Timers /\ uart' \in Lines
      BY <1>1, <1>2, Zenon
    <2> QED
      BY <1>2, <1>3, <1>4, <1>5, <2>1, DispatcherFrame, Zenon
  <1>7. ~Serving(c)'
    BY <1>4, <1>6 DEF Served
  <1>8. \A d \in Cpus \ {c} : Serving(d) => Instance(d, irq[d].active) # Instance(c, irq[c].active)
    <2>1. ASSUME NEW d \in Cpus \ {c}, Serving(d)
          PROVE  /\ irq[d].active \in {Timer, Uart}
                 /\ ~(irq[c].active = Uart /\ irq[d].active = Uart)
      BY <1>3, <2>1, Zenon DEF IInv, OneServer, Dispatching, HasRead
    <2>2. \A d \in Cpus : Instance(d, Timer) = <<Timer, d>> /\ Instance(d, Uart) = <<Uart, BootCpu>>
      BY NumbersAssumption DEF Instance
    <2>3. Timer # Uart
      BY NumbersAssumption
    <2> QED
      BY <1>3, <2>1, <2>2, <2>3
  <1>9. ActiveWhileServed'
    <2>1. gic.taken = {Instance(d, irq[d].active) : d \in {e \in Cpus : Serving(e)}}
      BY Zenon DEF IInv, ActiveWhileServed
    <2>2. {Instance(d, irq'[d].active) : d \in {e \in Cpus : Serving(e)'}}
            = {Instance(d, irq[d].active) : d \in {e \in Cpus : Serving(e)}}
                \ {Instance(c, irq[c].active)}
      BY <1>3, <1>6, <1>7, <1>8
    <2> QED
      BY <1>5, <2>1, <2>2 DEF ActiveWhileServed, Instance
  <1>10. OneServer'
    BY <1>6, <1>7, Zenon DEF IInv, OneServer
  <1>11. Dispatching'
    <2>1. ASSUME NEW d \in Cpus \ {c}, Serving(d)' PROVE HasRead(d)'
      BY <1>2, <1>6, <2>1 DEF IInv, Dispatching, HasRead
    <2> QED
      BY <1>7, <2>1, Zenon DEF Dispatching
  <1> QED
    BY <1>6, <1>9, <1>10, <1>11, Zenon DEF IInv

-----------------------------------------------------------------------------
(* The invariant holds in every reachable state. *)
THEOREM Invariance == Spec => []IInv
  <1>1. Init => IInv
    <2> SUFFICES ASSUME Init PROVE IInv
      OBVIOUS
    <2>0. BootCpu \in Cpus /\ Spurious \in Nat
      BY NumbersAssumption
    <2>1. /\ \A c \in Cpus : irq[c] = Idle
          /\ Idle.pc = "idle" /\ Idle \in Dispatchers
      BY <2>0 DEF Init, Idle, Dispatchers, Names, Words
    <2>2. /\ gic \in Gics /\ gic.interfaces = {} /\ gic.taken = {}
      BY DEF Init, Gics
    <2>3. /\ main \in Programs /\ main[BootCpu] = "gic"
          /\ \A c \in Cpus \ {BootCpu} : main[c] = "parked"
      BY <2>0 DEF Init, Programs, Early, Secondary
    <2>4. Types
      <3>1. table \in Tables
        BY DEF Init, Tables, Names, Words
      <3>2. timer \in Timers /\ uart \in Lines
        BY DEF Init, Timers, Lines
      <3>3. irq \in [Cpus -> Dispatchers]
        BY <2>1, Zenon DEF Init
      <3> QED
        BY <2>2, <2>3, <3>1, <3>2, <3>3, Zenon DEF Types
    <2>5. Phases
      BY <2>1, <2>2, <2>3 DEF Phases, Early
    <2>6. Requested /\ Registered
      BY <2>3 DEF Requested, Registered, Late
    <2>7. \A c \in Cpus : ~Serving(c)
      BY <2>1 DEF Serving
    <2>8. ActiveWhileServed
      BY <2>2, <2>7 DEF ActiveWhileServed
    <2>9. OneServer /\ Dispatching
      BY <2>7, Zenon DEF OneServer, Dispatching
    <2> QED
      BY <2>4, <2>5, <2>6, <2>8, <2>9, Zenon DEF IInv
  <1>2. ASSUME IInv, [Next]_vars PROVE IInv'
    <2>1. timer \in Timers /\ uart \in Lines
      BY <1>2, Zenon DEF IInv, Types
    <2>2. CASE UNCHANGED vars
      BY <1>2, <2>1, <2>2, DeviceFrame DEF vars
    <2>3. ASSUME NEW c \in Cpus, Program(c) PROVE IInv'
      <3>1. CASE armgicv2_probe_dist \/ pl011_probe \/ request_irq \/ timer_global_init
        BY <1>2, <3>1, SetUpStep, Zenon
      <3>2. CASE wake_secondary_cpus
        BY <1>2, <3>2, ProgramStep, Zenon
      <3>3. CASE timer_cpu_init(c)
        BY <1>2, <3>3, SetUpStep, ProgramStep, Zenon
      <3>4. CASE timer_cpu_enable(c)
        BY <1>2, <3>4, ProgramStep, Zenon
      <3> QED
        BY <2>3, <3>1, <3>2, <3>3, <3>4, Zenon DEF Program
    <2>4. ASSUME NEW c \in Cpus, irq_dispatcher(c) PROVE IInv'
      BY <1>2, <2>4, AcknowledgeStep, GoOnStep, EndStep, Zenon DEF irq_dispatcher
    <2>5. ASSUME NEW c \in Cpus, Expire(c) PROVE IInv'
      <3>1. timer' \in Timers /\ uart' = uart /\ UNCHANGED <<main, irq, table, gic>>
        BY <2>1, <2>5 DEF Expire, Timers
      <3> QED
        BY <1>2, <2>1, <3>1, DeviceFrame
    <2>6. CASE Arrive
      <3>1. uart' = "ready" /\ timer' = timer /\ UNCHANGED <<main, irq, table, gic>>
        BY <2>6, Zenon DEF Arrive
      <3>2. uart' \in Lines
        BY <3>1 DEF Lines
      <3> QED
        BY <1>2, <2>1, <3>1, <3>2, DeviceFrame
    <2>7. CASE reject_irq
      BY <1>2, <2>7, ProgramStep, Zenon
    <2> QED
      BY <1>2, <2>2, <2>3, <2>4, <2>5, <2>6, <2>7, Zenon DEF Next
  <1> QED
    BY <1>1, <1>2, PTL DEF Spec

(* Only the timer's and the UART's interrupt are ever served, enabled or   *)
(* active.                                                                 *)
THEOREM TypeCorrect == Spec => []TypeOK
  <1>1. IInv => TypeOK
    <2> SUFFICES ASSUME IInv PROVE TypeOK
      OBVIOUS
    <2>1. gic \in Gics /\ timer \in Timers
      BY Zenon DEF IInv, Types
    <2>2. \A c \in Cpus : Serving(c) => irq[c].active \in {Timer, Uart}
      BY Zenon DEF IInv, Dispatching, HasRead
    <2>3. /\ gic.spi \subseteq {Uart}
          /\ \A c \in Cpus : gic.ppi[c] \subseteq {Timer} /\ timer[c] \in {"off", "armed", "fired"}
      BY <2>1 DEF Gics, Timers
    <2>4. gic.taken \subseteq {Instance(c, i) : c \in Cpus, i \in {Timer, Uart}}
      <3>1. gic.taken = {Instance(c, irq[c].active) : c \in {d \in Cpus : Serving(d)}}
        BY Zenon DEF IInv, ActiveWhileServed
      <3>2. ASSUME NEW c \in Cpus, Serving(c)
            PROVE  Instance(c, irq[c].active) \in {Instance(d, i) : d \in Cpus, i \in {Timer, Uart}}
        BY <2>2, <3>2
      <3> QED
        BY <3>1, <3>2
    <2> QED
      BY <2>2, <2>3, <2>4 DEF TypeOK
  <1> QED
    BY <1>1, Invariance, PTL

(* The GIC holds active exactly what the dispatchers serve. *)
THEOREM NothingStaysActive == Spec => []ActiveWhileServed
  <1>1. IInv => ActiveWhileServed
    BY Zenon DEF IInv
  <1> QED
    BY <1>1, Invariance, PTL

(* recieve_irq_handler runs on one CPU at a time and finds a character. *)
THEOREM OneReceiver == Spec => []HandlerFindsCharacter
  <1>1. IInv => HandlerFindsCharacter
    <2> SUFFICES ASSUME IInv, NEW c \in Cpus, irq[c].pc = "call",
                        irq[c].handler = "recieve_irq_handler"
                 PROVE  uart = "ready" /\ \A d \in Cpus \ {c} : ~(Serving(d) /\ irq[d].active = Uart)
      BY Zenon DEF HandlerFindsCharacter
    <2>1. Serving(c) /\ HasRead(c)
      BY DEF IInv, Dispatching, Serving
    <2>2. irq[c].active = Uart /\ uart = "ready"
      BY <2>1 DEF HasRead
    <2> QED
      BY <2>1, <2>2, Zenon DEF IInv, OneServer
  <1> QED
    BY <1>1, Invariance, PTL

(* A handler is called with the data it was registered with. *)
THEOREM DataOfHandler == Spec => []HandlerWithItsData
  <1>1. IInv => HandlerWithItsData
    <2> SUFFICES ASSUME IInv, ~Removed, NEW c \in Cpus, irq[c].pc = "call"
                 PROVE  <<irq[c].handler, irq[c].data>> \in
                            {<<"timer_tick", None>>, <<"recieve_irq_handler", "device">>}
      BY Zenon DEF HandlerWithItsData
    <2>1. Serving(c) /\ HasRead(c)
      BY DEF IInv, Dispatching, Serving
    <2> QED
      BY <2>1 DEF HasRead
  <1> QED
    BY <1>1, Invariance, PTL
=============================================================================
