----------------------------- MODULE DeviceTree ------------------------------
(***************************************************************************)
(* The kernel's reader of the device tree (kernel/boot/fdt.c): fdt_init    *)
(* checks and copies the blob of the boot loader and counts the cpus; then *)
(* the drivers ask for the registers and interrupts of their nodes.        *)
(* Sizes count cells.                                                      *)
(***************************************************************************)
EXTENDS FdtEdit

CONSTANTS Blobs,        \* what the boot loader may hand over, NoBlob among them
          Counts,       \* numbers of registers or interrupts a driver asks for
          Strings       \* compatible strings a driver knows

VARIABLES dtb, fdt, cpu_count, panicked, last
vars == <<dtb, fdt, cpu_count, panicked, last>>

None == [call |-> "none"]

Init ==
    /\ dtb \in Blobs
    /\ fdt = NoBlob /\ cpu_count = 0 /\ panicked = FALSE /\ last = None

panic == panicked' = TRUE /\ UNCHANGED <<dtb, fdt, cpu_count, last>>

-----------------------------------------------------------------------------

IsCpu(b, node) == fdt_get_name(b, node) \div 10 = CPU /\ fdt_get_name(b, node) % 10 # 0

CountCpus(cpus) ==
    IF cpus < 0 THEN panic
    ELSE /\ fdt' = dtb
         /\ cpu_count' = Len(SelectSeq(Subnodes(dtb, cpus), LAMBDA n : IsCpu(dtb, n)))
         /\ UNCHANGED <<dtb, panicked, last>>

fdt_init ==
    /\ fdt = NoBlob
    /\ IF dtb = NoBlob \/ fdt_check_header(dtb) # 0 \/ fdt_check_full(dtb) # 0
       THEN panic
       ELSE \/ panic                                    \* kalloc found no memory
            \/ CountCpus(fdt_path_offset(dtb, [alias |-> 0, names |-> <<CPUS>>]))

(* The cell of the property at offset p, wherever that lies. *)
Cell(b, p, i) == IF p + 3 + i < Len(b.words) THEN Word(b, p + 3 + i) ELSE 0

FirstCell(b, node, name, default) ==
    LET At(p) == IF p < 0 THEN default ELSE Cell(b, p, 0) IN At(fdt_get_property(b, node, name))

Answer(call, node, n, ok, cells) ==
    [call |-> call, node |-> node, n |-> n, ok |-> ok, cells |-> cells]

(* A register's address and size as the sequences of cells that are        *)
(* shifted together.  Dividing by no cells at all gives 0 on AArch64.      *)
fdt_get_reg(b, node, n) ==
    LET Take(p, from, k) == [j \in 1..k |-> Cell(b, p, from + j - 1)]
        Regs(p, len, ac, sc) ==
            IF len <= 0 \/ n # (IF ac + sc = 0 THEN 0 ELSE len \div (ac + sc))
            THEN Answer("reg", node, n, FALSE, <<>>)
            ELSE Answer("reg", node, n, TRUE,
                        [i \in 1..n |-> [address |-> Take(p, (i - 1) * (ac + sc), ac),
                                         size |-> Take(p, (i - 1) * (ac + sc) + ac, sc)]])
        Of(p, parent) ==
            Regs(p, IF p < 0 THEN p ELSE Len(fdt_getprop_by_offset(b, p)),
                 FirstCell(b, parent, ADDRESS_CELLS, 2), FirstCell(b, parent, SIZE_CELLS, 2))
    IN  Of(fdt_get_property(b, node, REG), fdt_parent_offset(b, node))

(* Variant: the search goes up to the root although it found one. *)
TopmostInterruptParent(b, node) ==
    LET up[o \in -20..Len(b.words), found \in Int] ==
            LET On(p) == up[fdt_parent_offset(b, o),
                            IF p < 0 THEN found ELSE fdt_node_offset_by_phandle(b, Cell(b, p, 0))]
            IN  IF o < 0 THEN found ELSE On(fdt_get_property(b, o, INTERRUPT_PARENT))
    IN  up[node, NOTFOUND]

(* The controller's node: the phandle of the first interrupt-parent on the *)
(* way up from the node.                                                   *)
interrupt_controller(b, node) ==
    LET up[o \in -20..Len(b.words)] ==
            LET On(p) == IF p >= 0 THEN fdt_node_offset_by_phandle(b, Cell(b, p, 0))
                         ELSE up[fdt_parent_offset(b, o)]
            IN  IF o < 0 THEN NOTFOUND ELSE On(fdt_get_property(b, o, INTERRUPT_PARENT))
    IN  up[node]

(* The assertions on the way; a failing one panics. *)
Asserted(b, node) ==
    LET Up[o \in -20..Len(b.words)] ==
            LET On(v) == IF v = <<NOTFOUND>> THEN Up[fdt_parent_offset(b, o)] ELSE Len(v) = 1
            IN  o >= 0 => On(fdt_getprop(b, o, INTERRUPT_PARENT))
        Controls(c) ==
            c >= 0 => \A name \in {INTERRUPT_CONTROLLER, INTERRUPT_CELLS} : fdt_get_property(b, c, name) >= 0
    IN  /\ fdt_get_property(b, node, INTERRUPTS) >= 0
        /\ Up[node]
        /\ Controls(interrupt_controller(b, node))

fdt_get_interrupt_cells_count(b, node) ==
    LET Of(c) == IF c < 0 THEN NOTFOUND ELSE FirstCell(b, c, INTERRUPT_CELLS, 0)
    IN  Of(interrupt_controller(b, node))

fdt_get_interrupt_cells(b, node, n) ==
    LET Of(p, count) ==
            IF count < 0 THEN Answer("interrupts", node, n, FALSE, <<>>)
            ELSE Answer("interrupts", node, n, TRUE,
                        [i \in 1..n |-> [irq |-> [j \in 1..count |-> Cell(b, p, (i - 1) * count + j - 1)]]])
    IN  Of(fdt_get_property(b, node, INTERRUPTS), fdt_get_interrupt_cells_count(b, node))

fdt_query_compat(b, compat) ==
    LET from[o \in -20..Len(b.words)] ==
            IF o < 0 THEN -22
            ELSE IF fdt_node_check_compatible(b, o, compat) = 0 THEN o
            ELSE from[NextNode(b, o)]
    IN  from[NextNode(b, -22)]

-----------------------------------------------------------------------------
Ask(r) == last' = r /\ UNCHANGED <<dtb, fdt, cpu_count, panicked>>

GetReg == \E node \in ToSet(Nodes(fdt)), n \in Counts : Ask(fdt_get_reg(fdt, node, n))

GetInterrupts == \E node \in ToSet(Nodes(fdt)), n \in Counts :
    IF Asserted(fdt, node) THEN Ask(fdt_get_interrupt_cells(fdt, node, n)) ELSE panic

GetRegForCompat == \E compat \in Strings, n \in Counts :
    LET Of(node) == IF node < 0 THEN Answer("compat", compat, n, FALSE, <<>>)
                    ELSE [fdt_get_reg(fdt, node, n) EXCEPT !.call = "compat", !.node = compat]
    IN  Ask(Of(fdt_query_compat(fdt, compat)))

(* One question is asked of each tree: no answer changes anything. *)
Next ==
    /\ ~panicked
    /\ \/ fdt_init
       \/ fdt # NoBlob /\ last = None /\ (GetReg \/ GetInterrupts \/ GetRegForCompat)

Spec == Init /\ [][Next]_vars

-----------------------------------------------------------------------------
(* The cpus counted are the children of /cpus that are named cpu@ and a    *)
(* unit, wherever /cpus stands among the root's children.                  *)
CpusCounted ==
    LET Cpu(out, n) == /\ Word(fdt, n + 1) \in CPU * 10 + 1..CPU * 10 + 9
                       /\ Word(fdt, Parent(out, n) + 1) = CPUS
                       /\ Cardinality(out[n]) = 2
        Counted(out) == cpu_count = Cardinality({n \in Starts(fdt, out) : Cpu(out, n)})
    IN  fdt # NoBlob /\ last = None => Counted(Outline(fdt))

(***************************************************************************)
(* The references, from the nesting of the nodes: the value of a property, *)
(* a parent's widths (2 where it names none), and the n registers that a   *)
(* node's reg is cut into, or none if it does not hold n of that width.    *)
(***************************************************************************)
Has(props, name) == \E i \in 1..Len(props) : props[i][1] = name

Value(props, name) == props[SelectInSeq(props, LAMBDA p : p[1] = name)][2]

Width(out, o, name) ==
    IF o >= 0 /\ Has(Props(fdt, out, o), name) THEN Value(Props(fdt, out, o), name)[1] ELSE 2

Registers(out, node, n) ==
    LET Cut(v, ac, sc) ==
            [i \in 1..n |-> LET at == (i - 1) * (ac + sc)
                            IN  [address |-> SubSeq(v, at + 1, at + ac),
                                 size |-> SubSeq(v, at + ac + 1, at + ac + sc)]]
        Holds(v, w) == n * w <= Len(v) /\ Len(v) < (n + 1) * w
        Of(v, ac, sc) == IF Holds(v, ac + sc) THEN Cut(v, ac, sc) ELSE <<>>
    IN  IF ~Has(Props(fdt, out, node), REG) THEN <<>>
        ELSE Of(Value(Props(fdt, out, node), REG),
                Width(out, Parent(out, node), ADDRESS_CELLS), Width(out, Parent(out, node), SIZE_CELLS))

(* A driver gets the registers it asks for exactly if the node's reg holds *)
(* that many in the widths its parent gives, and they are its cells.       *)
RegsInside ==
    LET Got(regs) == last.cells = regs /\ (last.ok <=> regs # <<>>)
    IN  last # None /\ last.call = "reg" => Got(Registers(Outline(fdt), last.node, last.n))

(* The interrupts of a node are the cells of its interrupts, cut in the    *)
(* width of the controller that the nearest interrupt-parent names, at the *)
(* node or at an ancestor.  More than the property holds may be asked for: *)
(* the code does not compare.                                              *)
NearestController ==
    LET With(props, name) == {o \in DOMAIN props : Has(props[o], name)}
        Named(props, up) == {o \in With(props, PHANDLE) :
            Value(props[o], PHANDLE) = Value(props[Max(up)], INTERRUPT_PARENT)}
        Cut(v, w) == \A i \in 1..last.n :
            /\ Len(last.cells[i].irq) = w
            /\ \A j \in 1..w : (i - 1) * w + j <= Len(v) => last.cells[i].irq[j] = v[(i - 1) * w + j]
        Widths(props, named) ==
            /\ named # {}
            /\ Cut(Value(props[last.node], INTERRUPTS), Value(props[Min(named)], INTERRUPT_CELLS)[1])
        Nearest(props, up) == up # {} /\ Widths(props, Named(props, up))
        Above(out, props) ==
            Nearest(props, (out[last.node] \cup {last.node}) \cap With(props, INTERRUPT_PARENT))
        Of(out) == Above(out, [o \in Starts(fdt, out) |-> Props(fdt, out, o)])
    IN  last # None /\ last.call = "interrupts" /\ last.ok => Of(Outline(fdt))

(* A driver that asks by compatible string gets the registers of the       *)
(* first node that has the string, in the order of the blob.               *)
CompatFirst ==
    LET Compatible(props) == Has(props, COMPATIBLE) /\ last.node \in ToSet(Value(props, COMPATIBLE))
        With(out) == {o \in Starts(fdt, out) : Compatible(Props(fdt, out, o))}
        Got(regs) == last.cells = regs /\ (last.ok <=> regs # <<>>)
        First(out, with) == Got(IF with = {} THEN <<>> ELSE Registers(out, Min(with), last.n))
        Of(out) == First(out, With(out))
    IN  last # None /\ last.call = "compat" => Of(Outline(fdt))

=============================================================================
