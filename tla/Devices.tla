------------------------------- MODULE Devices -------------------------------
(***************************************************************************)
(* Devices: drivers/common/manager.c, the probes of the PL011, the GICv2   *)
(* and the timer, and the part of kernel_main that brings devices up.      *)
(* The manager discovers a device for each node of the tree that a driver  *)
(* is compatible with, and readies a device by its driver's probe.  A      *)
(* probe allocates its data, maps the device's registers and may fail at   *)
(* each step.                                                              *)
(*                                                                         *)
(* A node is what probing sees of it: the first string of its compatible   *)
(* property and the number of its register ranges.  The heap is the set of *)
(* blocks in use and mmio the set of mappings, each named by its owner.    *)
(***************************************************************************)
EXTENDS Integers, Sequences

CONSTANTS Trees,        \* device trees: sequences of [compat, regs]
          HeapFaults,   \* allocations that may find no memory: those of the
                        \* probes by class, "device" and "backend"
          MmioFaults,   \* may a mapping fail?
          Garbage,      \* what driver_data of a new Device may hold
          MaxCalls      \* bound on the calls after boot

Nodes == [compat : STRING, regs : Nat]

ASSUME TreesAssumption == Trees \subseteq Seq(Nodes)

VARIABLES pc,       \* next step of kernel_main, "run" after it, or "panic"
          tree,     \* the boot loader's device tree
          devices,  \* device_list, its head first
          heap,     \* blocks allocated: <<kind, node>>
          mmio,     \* register ranges mapped: <<node, range>>
          irqs,     \* nodes whose interrupt has a handler
          backends, \* nodes registered as console backends
          wild,     \* a store went through an error pointer
          calls

devicesVars == <<pc, tree, devices, heap, mmio, irqs, backends, wild, calls>>

-----------------------------------------------------------------------------
(* The drivers of the section .driver, with their compatible strings. *)
Drivers == << [name |-> "pl011", compatible |-> {"arm,pl011"}, class |-> "UART"],
              [name |-> "arm-gicv2", compatible |-> {"arm,gic-200", "arm,cortex-a15-gic"},
               class |-> "IRQCHIP"],
              [name |-> "armv8-timer", compatible |-> {"arm,armv8-timer", "arm,armv7-timer"},
               class |-> "TIMER"] >>

(* The first driver with that string, as a set, empty when there is none. *)
find_compat_driver(compat) ==
    {i \in 1..Len(Drivers) : /\ compat \in Drivers[i].compatible
                             /\ \A j \in 1..i - 1 : compat \notin Drivers[j].compatible}

Device(node, data) ==
    [node |-> node, driver |-> CHOOSE i \in find_compat_driver(tree[node].compat) : TRUE,
     state |-> "DISCOVERED", data |-> data, ops |-> FALSE]

Class(d) == Drivers[d.driver].class

Compatible == {n \in 1..Len(tree) : find_compat_driver(tree[n].compat) # {}}

DeviceSet == {devices[k] : k \in 1..Len(devices)}

DevicesInit ==
    /\ pc = "dmanager_init"
    /\ tree \in Trees
    /\ devices = <<>>
    /\ heap = {} /\ mmio = {} /\ irqs = {} /\ backends = {}
    /\ wild = FALSE
    /\ calls = 0

(* The nodes whose Device is allocated before kalloc fails, if it does. *)
Discovered ==
    {Compatible} \cup {{n \in Compatible : n < m} :
                           m \in {c \in Compatible : "device" \in HeapFaults}}

(* insert_device links each new device before the others: the last of the  *)
(* nodes comes first.  The result of kalloc is not tested: the store       *)
(* through the error pointer is a data abort.                              *)
dmanager_init ==
    /\ pc = "dmanager_init"
    /\ \E found \in Discovered :
       /\ \E garbage \in [found -> Garbage], count \in 0..Len(tree) :
          \E order \in [1..count -> found] :
             /\ {order[k] : k \in 1..count} = found
             /\ \A i, j \in 1..count : i < j => order[i] > order[j]
             /\ devices' = [k \in 1..count |-> Device(order[k], garbage[order[k]])]
       /\ heap' = {<<"device", n>> : n \in found}
       /\ wild' = (found # Compatible)
       /\ pc' = IF found = Compatible THEN "irq_controller_init" ELSE "panic"
    /\ UNCHANGED <<tree, mmio, irqs, backends, calls>>

(* The place of the list's first device of the class, as a set, empty when *)
(* there is none.                                                          *)
dmanager_get_by_class(class) ==
    {k \in 1..Len(devices) : /\ Class(devices[k]) = class
                             /\ \A j \in 1..k - 1 : Class(devices[j]) # class}

-----------------------------------------------------------------------------
(* Probes.  Each yields the result, the heap, the mappings, the interrupt   *)
(* handlers, and whether a store was wild.                                 *)
(* f: faults, the steps of the probe that fail.                            *)

Faults(class) ==
    SUBSET ((IF class \in HeapFaults THEN {"kalloc"} ELSE {})
            \cup (IF MmioFaults THEN {"map 1", "map 2"} ELSE {}))

Result(ok, h, m, i, w) ==
    [ok |-> ok, heap |-> h, mmio |-> m, irqs |-> i, wild |-> w]

Fail(h, m) == Result(FALSE, h, m, irqs, wild)

(* Variant: the data is not freed when the mapping fails. *)
ProbeLeakingData(d, f) ==
    LET data == heap \cup {<<"data", d.node>>}
    IN  IF tree[d.node].regs # 1 THEN Fail(heap, mmio)
        ELSE IF "kalloc" \in f THEN Fail(heap, mmio)
        ELSE IF "map 1" \in f THEN Fail(data, mmio)
        ELSE Result(TRUE, data, mmio \cup {<<d.node, 1>>},
                             irqs \cup {d.node}, wild)

pl011_probe(d, f) ==
    LET data == heap \cup {<<"data", d.node>>}
    IN  IF tree[d.node].regs # 1 THEN Fail(heap, mmio)
        ELSE IF "kalloc" \in f THEN Fail(heap, mmio)
        ELSE IF "map 1" \in f THEN Fail(data \ {<<"data", d.node>>}, mmio)
        ELSE Result(TRUE, data, mmio \cup {<<d.node, 1>>},
                             irqs \cup {d.node}, wild)

(* The check after kalloc looks at the device's data, which nothing has    *)
(* stored yet, not at the block.                                           *)
armgicv2_probe(d, f) ==
    LET block == <<"data", d.node>>
        data == IF "kalloc" \in f THEN heap ELSE heap \cup {block}
        dist == mmio \cup {<<d.node, 1>>}
    IN  IF d.data = "error" THEN Fail(data, mmio)
        ELSE IF tree[d.node].regs # 2 THEN Fail(data \ {block}, mmio)
        ELSE IF "kalloc" \in f THEN Result(FALSE, heap, mmio, irqs, TRUE)
        ELSE IF "map 1" \in f THEN Fail(data \ {block}, mmio)
        ELSE IF "map 2" \in f THEN Fail(data \ {block}, dist \ {<<d.node, 1>>})
        ELSE Result(TRUE, data, dist \cup {<<d.node, 2>>}, irqs, wild)

armv8_timer_probe(d, f) == Result(TRUE, heap, mmio, irqs, wild)

probe(d, f) ==
    CASE Class(d) = "UART" -> pl011_probe(d, f)
      [] Class(d) = "IRQCHIP" -> armgicv2_probe(d, f)
      [] Class(d) = "TIMER" -> armv8_timer_probe(d, f)

(* kernel_main goes to ok when the k-th device is ready, to bad otherwise. *)
dmanager_ready_device(k, f, ok, bad) ==
    IF devices[k].state = "READY"
    THEN pc' = ok /\ UNCHANGED <<devices, heap, mmio, irqs, wild>>
    ELSE LET r == probe(devices[k], f)
         IN  /\ devices' = IF r.ok THEN [devices EXCEPT ![k].state = "READY", ![k].ops = TRUE,
                                                       ![k].data = "live"]
                           ELSE devices
             /\ heap' = r.heap /\ mmio' = r.mmio /\ irqs' = r.irqs /\ wild' = r.wild
             /\ pc' = IF r.ok THEN ok ELSE bad

dmanager_get_by_class_and_ready(class, ok, bad) ==
    IF dmanager_get_by_class(class) = {}
    THEN pc' = bad /\ UNCHANGED <<devices, heap, mmio, irqs, wild>>
    ELSE \E k \in dmanager_get_by_class(class), f \in Faults(class) :
             dmanager_ready_device(k, f, ok, bad)

-----------------------------------------------------------------------------
irq_controller_init ==
    /\ pc = "irq_controller_init"
    /\ dmanager_get_by_class_and_ready("IRQCHIP", "uart", "panic")
    /\ UNCHANGED <<tree, backends, calls>>

(* The UART may be missing.  If it is ready it becomes a console. *)
kernel_main_uart ==
    /\ pc = "uart"
    /\ dmanager_get_by_class_and_ready("UART", "console_register", "timer_init")
    /\ UNCHANGED <<tree, backends, calls>>

(* The result of kalloc is not tested here either. *)
kernel_main_console ==
    /\ pc = "console_register"
    /\ \/ /\ pc' = "timer_init"
          /\ backends' = {devices[k].node : k \in dmanager_get_by_class("UART")}
          /\ heap' = heap \cup {<<"backend", n>> : n \in backends'}
          /\ UNCHANGED wild
       \/ /\ "backend" \in HeapFaults
          /\ pc' = "panic"
          /\ wild' = TRUE
          /\ UNCHANGED <<backends, heap>>
    /\ UNCHANGED <<tree, devices, mmio, irqs, calls>>

timer_init ==
    /\ pc = "timer_init"
    /\ dmanager_get_by_class_and_ready("TIMER", "run", "panic")
    /\ UNCHANGED <<tree, backends, calls>>

(* Any later call readies what is not ready yet. *)
Later ==
    /\ pc = "run"
    /\ calls < MaxCalls
    /\ calls' = calls + 1
    /\ \E class \in {"UART", "IRQCHIP", "TIMER", "FRAMEBUFFER"} :
          dmanager_get_by_class_and_ready(class, "run", "run")
    /\ UNCHANGED <<tree, backends>>

DevicesNext == dmanager_init \/ irq_controller_init \/ kernel_main_uart \/ kernel_main_console
        \/ timer_init \/ Later

DevicesSpec == DevicesInit /\ [][DevicesNext]_devicesVars

-----------------------------------------------------------------------------
(* What a device holds: its own block, and once ready its data and maps. *)
HeldBy(d) ==
    LET n == IF Class(d) = "UART" THEN 1 ELSE IF Class(d) = "IRQCHIP" THEN 2 ELSE 0
        ready == d.state = "READY" /\ n > 0
    IN  [heap |-> {<<"device", d.node>>} \cup (IF ready THEN {<<"data", d.node>>} ELSE {}),
         mmio |-> IF ready THEN {<<d.node, i>> : i \in 1..n} ELSE {}]

DevicesTypeOK ==
    /\ pc \in {"dmanager_init", "irq_controller_init", "uart", "console_register",
               "timer_init", "run", "panic"}
    /\ \A d \in DeviceSet : d.node \in 1..Len(tree) /\ d.driver \in 1..Len(Drivers)
    /\ irqs \subseteq 1..Len(tree) /\ backends \subseteq 1..Len(tree)

(* A probe that fails, at whichever step and however often, gives back     *)
(* what it took: the blocks and mappings in use are exactly those of the   *)
(* devices that are ready.                                                 *)
NothingLeaked ==
    /\ heap = (UNION {HeldBy(d).heap : d \in DeviceSet})
              \cup {<<"backend", n>> : n \in backends}
    /\ mmio = UNION {HeldBy(d).mmio : d \in DeviceSet}

(* A device's operations, its interrupt handler and its use as a console   *)
(* all imply that it is ready and that its data is in place.               *)
UsedOnlyReady ==
    \A d \in DeviceSet :
        d.ops \/ d.node \in irqs \/ d.node \in backends =>
            d.state = "READY" /\ d.data = "live" /\ HeldBy(d).heap \subseteq heap

(* A probe that fails gives back what it took, whichever of its steps and  *)
(* however often; only a device whose probe succeeded is ever used.        *)
AllOrNothing == NothingLeaked /\ UsedOnlyReady

=============================================================================
