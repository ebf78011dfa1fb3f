---------------------------- MODULE ConsoleInput ----------------------------
(***************************************************************************)
(* Input from the serial line to readers of the console: the receive FIFO  *)
(* of the PL011, its interrupt handler (drivers/uart/pl011.c) and the      *)
(* console's ring buffer (kernel/io/console.c).  Both ends of the ring     *)
(* hold read_lock with interrupts masked, so a push or a pop is one step.  *)
(*                                                                         *)
(* The line and the FIFO are hardware: the interrupt is raised while the   *)
(* FIFO holds at least Trigger characters.  The driver unmasks that        *)
(* interrupt only, not the receive timeout, and leaves the trigger level   *)
(* at its reset value, half of the FIFO: fewer characters raise nothing    *)
(* and wait for more to arrive.  The handler takes one character each      *)
(* time, and its write of 0 to UARTICR clears nothing.  Characters are     *)
(* numbered in the order they arrive.                                      *)
(***************************************************************************)
EXTENDS Integers, Sequences

-----------------------------------------------------------------------------
(***************************************************************************)
(* The circular queue of lib/ds/ringbuffer.c: a buffer of Capacity slots,  *)
(* the slot head that the next push fills and the slot tail that the next  *)
(* pop empties.  One slot stays free, so that head = tail means empty.     *)
(* element_size only scales indices and is left out.  A call returns the   *)
(* buffer it leaves behind and whether it succeeded.                       *)
(***************************************************************************)

CONSTANTS Capacity, Element

ASSUME CapacityAssumption == Capacity \in Nat \ {0}

ringbuffer_init == [buffer |-> [i \in 0..Capacity - 1 |-> Element], head |-> 0, tail |-> 0]

Advance(i) == (i + 1) % Capacity

ringbuffer_empty(rb) == rb.head = rb.tail

(* Variant: no slot is kept free. *)
PushUntilLast(rb, c) ==
    [rb |-> [rb EXCEPT !.buffer[rb.head] = c, !.head = Advance(rb.head)], ok |-> TRUE]

ringbuffer_push(rb, c) ==
    IF Advance(rb.head) = rb.tail
    THEN [rb |-> rb, ok |-> FALSE]
    ELSE [rb |-> [rb EXCEPT !.buffer[rb.head] = c, !.head = Advance(rb.head)], ok |-> TRUE]

ringbuffer_pop(rb) ==
    IF rb.head = rb.tail
    THEN [rb |-> rb, ok |-> FALSE, data |-> Element]
    ELSE [rb |-> [rb EXCEPT !.tail = Advance(rb.tail)], ok |-> TRUE,
          data |-> rb.buffer[rb.tail]]

-----------------------------------------------------------------------------
CONSTANTS FifoDepth, Trigger,
          Char          \* the numbers of the characters that may arrive

ASSUME HardwareAssumption == FifoDepth \in Nat /\ Trigger \in 1..FifoDepth

ASSUME CharAssumption == Char \subseteq Nat /\ Element \in Nat

VARIABLES line,     \* the last character the line delivered
          rx,       \* the receive FIFO
          recv_rb,  \* console.recv_rb
          dropped,  \* characters the handler took while the ring was full
          read      \* characters console_read returned, in order

vars == <<line, rx, recv_rb, dropped, read>>

Init ==
    /\ line = 0
    /\ rx = <<>>
    /\ recv_rb = ringbuffer_init
    /\ dropped = {}
    /\ read = <<>>

(* A character arrives; a full FIFO loses it. *)
Arrive ==
    /\ line + 1 \in Char
    /\ line' = line + 1
    /\ rx' = IF Len(rx) < FifoDepth THEN Append(rx, line + 1) ELSE rx
    /\ UNCHANGED <<recv_rb, dropped, read>>

(* The result of the push is ignored. *)
console_receive_char(c) ==
    LET p == ringbuffer_push(recv_rb, c)
    IN  /\ recv_rb' = p.rb
        /\ dropped' = IF p.ok THEN dropped ELSE dropped \cup {c}

(* Variant: the handler empties the FIFO after taking one character. *)
HandlerClears ==
    /\ Len(rx) >= Trigger
    /\ console_receive_char(Head(rx))
    /\ rx' = <<>>
    /\ UNCHANGED <<line, read>>

recieve_irq_handler ==
    /\ Len(rx) >= Trigger
    /\ console_receive_char(Head(rx))
    /\ rx' = Tail(rx)
    /\ UNCHANGED <<line, read>>

(* A read of an empty ring returns false and changes nothing. *)
console_read ==
    LET p == ringbuffer_pop(recv_rb)
    IN  /\ ~ringbuffer_empty(recv_rb)
        /\ recv_rb' = p.rb
        /\ read' = Append(read, p.data)
        /\ UNCHANGED <<line, rx, dropped>>

Next == Arrive \/ recieve_irq_handler \/ console_read

Spec == Init /\ [][Next]_vars

(* The interrupt stays raised until it is served, and a reader polls.      *)
FairSpec == Spec /\ WF_vars(recieve_irq_handler) /\ WF_vars(console_read)

-----------------------------------------------------------------------------
Count == IF recv_rb.head >= recv_rb.tail THEN recv_rb.head - recv_rb.tail
         ELSE recv_rb.head - recv_rb.tail + Capacity

Slot(k) == IF recv_rb.tail + k < Capacity THEN recv_rb.tail + k
           ELSE recv_rb.tail + k - Capacity

(* The characters in the ring buffer, oldest first. *)
Held == [k \in 1..Count |-> recv_rb.buffer[Slot(k - 1)]]

(* Indices stay inside the buffer and every slot holds a character. *)
TypeOK ==
    /\ line \in Nat
    /\ rx \in Seq(Char)
    /\ recv_rb \in [buffer : [0..Capacity - 1 -> Char \cup {Element}],
                    head : 0..Capacity - 1, tail : 0..Capacity - 1]
    /\ dropped \subseteq Char
    /\ read \in Seq(Char \cup {Element})

(* Characters reach readers in the order they arrived, none of them twice: *)
(* what was read, then what the ring holds, then what the FIFO holds, is   *)
(* increasing.                                                             *)
InOrder ==
    LET all == read \o Held \o rx
    IN  \A i \in 1..Len(all) - 1 : all[i] < all[i + 1]

(* A dropped character was dropped because the ring was full; it turns up  *)
(* nowhere else, and the ring keeps Capacity - 1 characters, not fewer.    *)
LostOnlyWhenFull ==
    [][ \A c \in dropped' \ dropped : Count = Capacity - 1 /\ c \notin {Held[k] : k \in 1..Count} ]_vars

(* The ring buffer with its two indices is a first-in, first-out queue.    *)
Queue == INSTANCE InputSpec WITH Room <- Capacity - 1, queue <- Held
ImplementsQueue == Queue!Spec

(* A character with enough others behind it in the FIFO to reach the       *)
(* trigger level is read or dropped in the end: the handler takes one      *)
(* character per interrupt, and those left at the level raise it again.    *)
(* The last Trigger - 1 characters of an input are not among them: they    *)
(* stay in the FIFO.                                                       *)
EventuallyHandled ==
    \A c \in Char : (\E i \in 1..Len(rx) - Trigger + 1 : rx[i] = c)
                        ~> (c \in dropped \/ \E i \in 1..Len(read) : read[i] = c)

=============================================================================
