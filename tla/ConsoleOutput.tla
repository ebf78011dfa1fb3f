--------------------------- MODULE ConsoleOutput ----------------------------
(***************************************************************************)
(* Output through kernel/io/console.c.  Events are buffered in an arena of *)
(* event records that point into an arena of message bytes, and a flush    *)
(* hands them to every registered backend.  Each call holds write_lock     *)
(* from beginning to end, so it is one step.                               *)
(*                                                                         *)
(* Events are numbered in the order they are written; a message is its     *)
(* number repeated over its length, so that bytes overwritten by another   *)
(* message can be told.  A failed ASSERT panics while write_lock is held,  *)
(* and the panic's own log message finds the lock held by its CPU: the     *)
(* kernel stops, remembered in failed.                                     *)
(***************************************************************************)
EXTENDS Integers, Sequences

-----------------------------------------------------------------------------
(***************************************************************************)
(* The bump allocator of lib/allocator/arena.c: an arena is the number of  *)
(* bytes handed out and its capacity.  An allocation is an offset into the *)
(* pool, or ERR when it does not fit.                                      *)
(***************************************************************************)

ERR == -1

arena_init(capacity) == [count |-> 0, capacity |-> capacity]

arena_left(a) == a.capacity - a.count

arena_can_fit(a, size) == a.capacity - a.count >= size

arena_alloc(a, size) ==
    IF arena_left(a) < size
    THEN [a |-> a, at |-> ERR]
    ELSE [a |-> [a EXCEPT !.count = @ + size], at |-> a.count]

arena_reset(a) == [a EXCEPT !.count = 0]

-----------------------------------------------------------------------------
CONSTANTS Backends,     \* devices that may register
          Lengths,      \* message lengths that are written
          Modes,        \* arguments of console_set_buffering
          EventCount,   \* _IO_EVENT_BUFFER_COUNT
          MsgSize,      \* IO_EVENT_MSG_BUFFER_SIZE
          MaxBatch,     \* events in one console_write_multiple
          MaxEvents     \* bound on the events of a behaviour

ASSUME OutputAssumption ==
    /\ EventCount \in Nat \ {0} /\ MsgSize \in Nat
    /\ Lengths \subseteq Nat /\ Modes \subseteq BOOLEAN /\ MaxBatch \in Nat

VARIABLES console,  \* arenas, their contents, backends, enable_buffering
          failed,   \* the event whose ASSERT failed, or an empty sequence
          written,  \* history: messages accepted so far
          out       \* history: messages each backend got since it registered

outputVars == <<console, failed, written, out>>

Message(n, len) == [i \in 1..len |-> n]

console_init(buffering) ==
    [backends |-> <<>>, enable_buffering |-> buffering,
     io_events |-> arena_init(EventCount), events |-> <<>>,
     io_messages |-> arena_init(MsgSize), pool |-> [i \in 1..MsgSize |-> 0]]

OutputInit ==
    /\ \E buffering \in BOOLEAN : console = console_init(buffering)
    /\ failed = <<>>
    /\ written = <<>>
    /\ out = [b \in Backends |-> <<>>]

-----------------------------------------------------------------------------
(* Calls work on s: the console, what the backends got, a failed ASSERT.   *)

can_fit(c, len) ==
    /\ arena_can_fit(c.io_messages, len)
    /\ arena_can_fit(c.io_events, 1)

reset_buffers(c) ==
    [c EXCEPT !.io_messages = arena_reset(@), !.io_events = arena_reset(@)]

(* The bytes an event of the arena points at. *)
Text(c, e) == SubSeq(c.pool, e.msg + 1, e.msg + e.len)

Pending(c) == [i \in 1..c.io_events.count |-> Text(c, c.events[i])]

(* The backends in the list. *)
Registered(c) == {c.backends[i] : i \in 1..Len(c.backends)}

(* Every buffered event, in order, to every backend of the list. *)
finalize_write(s) ==
    [s EXCEPT !.out = [b \in Backends |->
        IF b \in Registered(s.c) THEN @[b] \o Pending(s.c) ELSE @[b]]]

(* The flush of a backend waits for its hardware and returns. *)
_console_flush(s) == LET d == finalize_write(s) IN [d EXCEPT !.c = reset_buffers(@)]

(* Each ASSERT stops the kernel; what was allocated before it stays. *)
write_event(s, e) ==
    LET m == arena_alloc(s.c.io_messages, Len(e))
        copied == [s.c EXCEPT !.io_messages = m.a,
                     !.pool = [i \in 1..MsgSize |->
                                 IF i \in m.at + 1 .. m.at + Len(e) THEN e[i - m.at] ELSE @[i]]]
        a == arena_alloc(copied.io_events, 1)
    IN  IF m.at = ERR THEN [s EXCEPT !.failed = <<e>>]
        ELSE IF a.at = ERR THEN [s EXCEPT !.c = copied, !.failed = <<e>>]
        ELSE [s EXCEPT !.c = [copied EXCEPT !.io_events = a.a,
                !.events = Append(SubSeq(@, 1, a.at), [msg |-> m.at, len |-> Len(e)])]]

(* Variant: a full buffer is reset, not flushed. *)
WriteDropsOld(s, e) ==
    IF ~s.c.enable_buffering THEN _console_flush(write_event(s, e))
    ELSE IF can_fit(s.c, Len(e)) THEN write_event(s, e)
    ELSE write_event([s EXCEPT !.c = reset_buffers(@)], e)

_console_write(s, e) ==
    IF ~s.c.enable_buffering
    THEN LET w == write_event(s, e)
         IN  IF w.failed = <<>> THEN _console_flush(w) ELSE w
    ELSE write_event(IF can_fit(s.c, Len(e)) THEN s ELSE _console_flush(s), e)

State == [c |-> console, out |-> out, failed |-> failed]

Become(s) == console' = s.c /\ out' = s.out /\ failed' = s.failed

Running == failed = <<>>

(* The messages one after the other; behind a failed ASSERT nothing runs. *)
WriteAll(s, msgs) ==
    LET done[i \in 0..Len(msgs)] ==
            IF i = 0 THEN s
            ELSE IF done[i - 1].failed # <<>> THEN done[i - 1]
            ELSE _console_write(done[i - 1], msgs[i])
    IN  done[Len(msgs)]

(* A batch of events under one acquisition of the lock; console_write and  *)
(* console_write_char are batches of one.                                  *)
console_write_multiple(lens) ==
    LET first == Len(written)
        msgs == [i \in 1..Len(lens) |-> Message(first + i, lens[i])]
    IN  /\ Running
        /\ first + Len(lens) <= MaxEvents
        /\ Become(WriteAll(State, msgs))
        /\ written' = written \o msgs

console_flush ==
    /\ Running
    /\ Become(_console_flush(State))
    /\ UNCHANGED written

console_set_buffering(buffering) ==
    /\ Running
    /\ console' = [console EXCEPT !.enable_buffering = buffering]
    /\ UNCHANGED <<failed, written, out>>

(* Each driver registers its device once.  Events buffered by then will    *)
(* reach the new backend as well.                                          *)
console_register(b) ==
    /\ Running
    /\ b \notin Registered(console)
    /\ console' = [console EXCEPT !.backends = <<b>> \o @]
    /\ out' = [out EXCEPT ![b] = <<>>]
    /\ UNCHANGED <<failed, written>>

Without(s, i) == SubSeq(s, 1, i - 1) \o SubSeq(s, i + 1, Len(s))

(* The list is walked to the device; an absent one changes nothing. *)
console_unregister(b) ==
    /\ Running
    /\ \E i \in 1..Len(console.backends) :
          /\ console.backends[i] = b /\ \A j \in 1..i - 1 : console.backends[j] # b
          /\ console' = [console EXCEPT !.backends = Without(@, i)]
    /\ UNCHANGED <<failed, written, out>>

Batches == UNION {[1..n -> Lengths] : n \in 1..MaxBatch}

OutputNext ==
    \/ \E lens \in Batches : console_write_multiple(lens)
    \/ console_flush
    \/ \E buffering \in Modes : console_set_buffering(buffering)
    \/ \E b \in Backends : console_register(b) \/ console_unregister(b)

OutputSpec == OutputInit /\ [][OutputNext]_outputVars

-----------------------------------------------------------------------------
(* The arenas never hand out more than they have, and the event arena's    *)
(* records are the events it counts.                                       *)
OutputTypeOK ==
    /\ console.io_messages.count \in 0..MsgSize
    /\ console.io_events.count \in 0..EventCount
    /\ console.io_events.count <= Len(console.events)
    /\ \A i \in 1..console.io_events.count :
          console.events[i].msg + console.events[i].len <= console.io_messages.count
    /\ console.backends \in Seq(Backends)

(* s is the end of t. *)
EndOf(s, t) == Len(s) <= Len(t) /\ \A i \in 1..Len(s) : s[i] = t[Len(t) - Len(s) + i]

(* What the two ASSERTs of write_event demand can fail in two ways only: a *)
(* message longer than the whole arena, or an unbuffered write that finds  *)
(* events left from before buffering was switched off.                     *)
FailsOnlyIf ==
    failed # <<>> =>
        \/ Len(failed[1]) > MsgSize
        \/ ~console.enable_buffering /\ console.io_events.count > 0

(* console_write and console_flush lose, repeat, reorder and overwrite     *)
(* nothing: what a backend got since it registered, followed by what is    *)
(* still buffered, is the end of what was written.  The ASSERTs of         *)
(* write_event fail in two ways only.                                      *)
Delivered ==
    /\ failed = <<>> =>
         \A b \in Registered(console) : EndOf(out[b] \o Pending(console), written)
    /\ FailsOnlyIf

=============================================================================
