----------------------------- MODULE MCConsole ------------------------------
(***************************************************************************)
(* The console and the devices behind it: input through the UART's FIFO    *)
(* and the ring buffer, output through the arenas to the backends, and the *)
(* probing of the drivers that provide both.  Input and output share only  *)
(* the UART, and probing ends before either begins, so a behaviour         *)
(* exercises one of them: part says which.                                 *)
(***************************************************************************)
EXTENDS ConsoleInput, ConsoleOutput, Devices

CONSTANT MaxArrivals

VARIABLE part

allVars == <<part, vars, outputVars, devicesVars>>

(* Seven characters through a FIFO of four and a ring of three slots: the  *)
(* indices wrap, both queues fill and both overflow.                       *)
MCChar == 1..MaxArrivals

(* Trees with none, one or two of each device, in several orders, with the *)
(* right and the wrong number of register ranges.                          *)
Node(c, r) == [compat |-> c, regs |-> r]
TreeNodes == {Node("arm,pl011", 1), Node("arm,pl011", 2), Node("arm,cortex-a15-gic", 2),
              Node("arm,gic-200", 1), Node("arm,armv7-timer", 0), Node("pci", 1)}
AllTrees == {<<a, b, c>> : a, b, c \in TreeNodes}
    \cup {<<Node("arm,pl011", 1), Node("arm,gic-200", 2), n, Node("arm,armv8-timer", 0)>> :
              n \in TreeNodes}

AllInit ==
    /\ part \in {"input", "output", "devices"}
    /\ Init
    /\ OutputInit /\ (part # "output" => console.enable_buffering)
    /\ DevicesInit
    /\ part # "devices" => tree = <<Node("pci", 1), Node("pci", 1), Node("pci", 1)>>

AllNext ==
    \/ part = "input" /\ Next /\ UNCHANGED <<part, outputVars, devicesVars>>
    \/ part = "output" /\ OutputNext /\ UNCHANGED <<part, vars, devicesVars>>
    \/ part = "devices" /\ DevicesNext /\ UNCHANGED <<part, vars, outputVars>>

(* Neither of the fair steps can be taken before a character arrives.      *)
AllSpec ==
    /\ AllInit /\ [][AllNext]_allVars
    /\ WF_vars(recieve_irq_handler) /\ WF_vars(console_read)

=============================================================================
