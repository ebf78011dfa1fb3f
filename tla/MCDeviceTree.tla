----------------------------- MODULE MCDeviceTree ---------------------------
(***************************************************************************)
(* Flattened device trees: blobs with damaged headers, a blob written and  *)
(* one edited through libfdt, and the kernel's questions to the tree of a  *)
(* board.  A behaviour is about one blob: part says for which purpose.     *)
(***************************************************************************)
EXTENDS Integers, Sequences, SequencesExt

INSTANCE FdtEdit WITH WordSpace <- 512

VARIABLES part,
          hdrBlob, hdrAt,
          blob, blobErr, blobEdits, blobTree,
          bootDtb, bootFdt, bootCpus, bootPanicked, bootLast

hdrVars == <<hdrBlob, hdrAt>>
blobVars == <<blob, blobErr, blobEdits, blobTree>>
bootVars == <<bootDtb, bootFdt, bootCpus, bootPanicked, bootLast>>
allVars == <<part, hdrVars, blobVars, bootVars>>

(* Fields on both sides of every limit, the wrap at 16 included, the three *)
(* kinds of versions, and eight words of which the first, the second and   *)
(* the fourth vary.                                                        *)
DamagedHeaders ==
    [magic : {FDT_MAGIC}, version : {15, 16, 17}, last_comp_version : {15}, totalsize : {2, 6, 7, 8},
     off_mem_rsvmap : {2}, off_dt_struct : {1, 2, 3, 7, 14}, size_dt_struct : {0, 3, 4, 13, 15},
     off_dt_strings : {2, 6, 14}, size_dt_strings : {0, 1, 10, 15}, rsv : {<<>>}, words : {<<>>},
     names : {<<>>}]

DamagedContents ==
    {<<t, n, 0, u, FDT_NOP, FDT_NOP, FDT_NOP, FDT_NOP>> :
        t \in {FDT_BEGIN_NODE, FDT_PROP, FDT_NOP}, n \in {0, 1, 4, 6, 12, 13, 15},
        u \in {FDT_END, FDT_NOP, FDT_PROP}}

Damaged == INSTANCE FdtHeader WITH
    WordSpace <- 16, Headers <- DamagedHeaders, Contents <- DamagedContents,
    b <- hdrBlob, at <- hdrAt

(* Nodes a and a@1, values of one and two cells: written word by word and  *)
(* then edited once, or edited from the empty tree on.                     *)
Written == INSTANCE Fdt WITH
    WordSpace <- 64, BufSize <- 17, NodeNames <- {70, 71},
    PropNames <- {PHANDLE, COMPATIBLE}, Values <- {<<1>>, <<2, 1>>},
    MaxWritten <- 8, MaxEdits <- 1,
    b <- blob, err <- blobErr, edits <- blobEdits, tree <- blobTree

Edited == INSTANCE Fdt WITH
    WordSpace <- 64, BufSize <- 20, NodeNames <- {70, 71},
    PropNames <- {PHANDLE, COMPATIBLE}, Values <- {<<1>>, <<2, 1>>},
    MaxWritten <- 0, MaxEdits <- 4,
    b <- blob, err <- blobErr, edits <- blobEdits, tree <- blobTree

-----------------------------------------------------------------------------
(* Boards with /cpus, a bus and on it a device, and two interrupt          *)
(* controllers; the widths of the device's parent, the length of its reg   *)
(* and the places of interrupt-parent vary.  The bus has other widths.     *)
(* Some have a second compatible device at the root, before or after the   *)
(* bus.                                                                    *)
BlobNames == <<PHANDLE, COMPATIBLE, ADDRESS_CELLS, SIZE_CELLS, REG, INTERRUPTS,
               INTERRUPT_PARENT, INTERRUPT_CONTROLLER, INTERRUPT_CELLS>>

Prop(name, v) == <<FDT_PROP, Len(v), SelectInSeq(BlobNames, LAMBDA n : n = name) - 1>> \o v
When(c, words) == IF c THEN words ELSE <<>>
Node(name, content) == <<FDT_BEGIN_NODE, name>> \o content \o <<FDT_END_NODE>>

Blob(content) ==
    LET w == Append(Node(EMPTY, content), FDT_END)
    IN  [NoBlob EXCEPT !.magic = FDT_MAGIC, !.version = 17, !.last_comp_version = 16,
            !.off_mem_rsvmap = 2, !.rsv = <<0>>, !.off_dt_struct = 3, !.words = w,
            !.size_dt_struct = Len(w), !.off_dt_strings = 3 + Len(w), !.names = BlobNames,
            !.size_dt_strings = Len(BlobNames), !.totalsize = 3 + Len(w) + Len(BlobNames)]

Cpus(n) == Node(CPUS, When(n > 0, Node(121, <<>>)) \o Node(120, <<>>)
                        \o When(n > 1, Node(122, <<>>)))

Intc(h, cells) == Node(180, Prop(PHANDLE, <<h>>) \o Prop(INTERRUPT_CONTROLLER, <<>>)
                            \o Prop(INTERRUPT_CELLS, <<cells>>))

Device(reg, irq, own) ==
    Node(190, Prop(COMPATIBLE, <<1, 2>>) \o Prop(REG, [i \in 1..reg |-> 20 + i])
              \o Prop(INTERRUPTS, [i \in 1..irq |-> 30 + i])
              \o When(own, Prop(INTERRUPT_PARENT, <<2>>)))

Cells(ac, sc) == When(ac # 2, Prop(ADDRESS_CELLS, <<ac>>)) \o When(sc # 2, Prop(SIZE_CELLS, <<sc>>))

Bus(ac, sc, dev) ==
    Node(200, Cells(1, 0) \o Prop(INTERRUPT_PARENT, <<1>>) \o Node(210, Cells(ac, sc) \o dev))

Board(top, n, ac, sc, reg, own) ==
    Blob(When(top, Prop(INTERRUPT_PARENT, <<2>>)) \o Cpus(n)
           \o Bus(ac, sc, Device(reg, 2, own)) \o Intc(1, 1) \o Intc(2, 2))

Second == Node(220, Prop(COMPATIBLE, <<3, 2>>) \o Prop(REG, <<41, 42, 43, 44>>))

BothOn(before, after) ==
    Blob(Cpus(1) \o When(before, Second) \o Bus(1, 1, Device(2, 1, FALSE)) \o When(after, Second)
           \o Intc(1, 1))

Boards ==
    {NoBlob, Blob(<<>>), Blob(Node(200, Cpus(1)))}
    \cup {Board(FALSE, n, 1, 1, n, FALSE) : n \in 0..2}
    \cup {Board(TRUE, 1, ac, sc, reg, TRUE) : ac, sc \in 0..2, reg \in {3, 4}}
    \cup {Board(top, 1, 1, 1, 4, own) : top, own \in BOOLEAN}
    \cup {BothOn(before, ~before) : before \in BOOLEAN}

Kernel == INSTANCE DeviceTree WITH
    WordSpace <- 512, Blobs <- Boards, Counts <- {1, 2}, Strings <- {2, 3},
    dtb <- bootDtb, fdt <- bootFdt, cpu_count <- bootCpus, panicked <- bootPanicked,
    last <- bootLast

-----------------------------------------------------------------------------
AllInit ==
    /\ part \in {"damaged", "written", "edited", "kernel"}
    /\ IF part = "damaged" THEN Damaged!Init ELSE hdrBlob = NoBlob /\ hdrAt = 0
    /\ Written!Init
    /\ Kernel!Init /\ (part # "kernel" => bootDtb = NoBlob)

AllNext ==
    \/ part = "damaged" /\ Damaged!Step /\ UNCHANGED <<part, blobVars, bootVars>>
    \/ part = "written" /\ Written!Next /\ UNCHANGED <<part, hdrVars, bootVars>>
    \/ part = "edited" /\ Edited!Next /\ UNCHANGED <<part, hdrVars, bootVars>>
    \/ part = "kernel" /\ Kernel!Next /\ UNCHANGED <<part, hdrVars, blobVars>>

AllSpec == AllInit /\ [][AllNext]_allVars /\ WF_hdrVars(part = "damaged" /\ Damaged!Step)

-----------------------------------------------------------------------------
(* If fdt_check_header accepts a blob, no block of it and no step of a     *)
(* walk with fdt_next_tag leaves it, whatever the fields and words say,    *)
(* and the walk ends.                                                      *)
WalkInside ==
    /\ [](part = "damaged" => Damaged!BlocksInside /\ Damaged!WalkInside)
    /\ Damaged!WalkEnds

(* fdt_check_full and the lookups of fdt_ro.c, which only scan, agree with *)
(* the nesting of the nodes: parents, depths, children, properties, paths, *)
(* and searches repeated from where they last succeeded.                   *)
ReadsAgree ==
    /\ part = "written" => Written!CheckedIfBalanced /\ Written!LookupsAgree
    /\ part = "edited" => Edited!LookupsAgree /\ Edited!PathsAgree /\ Edited!SearchesFind

(* A call that writes or edits changes the one node or property it names,  *)
(* wherever the words move; one that fails changes nothing.                *)
ImplementsTree == Edited!ImplementsTree /\ Written!FailureChangesNothing

(* The kernel's questions: the cpus counted, the registers and interrupts  *)
(* handed to drivers, in the widths their parents and the nearest          *)
(* controller give them, and the first node with a compatible string.      *)
KernelReads ==
    part = "kernel" => /\ Kernel!CpusCounted /\ Kernel!RegsInside
                       /\ Kernel!NearestController /\ Kernel!CompatFirst
=============================================================================
