------------------------------ MODULE Framebuffer ------------------------------
(***************************************************************************)
(* The framebuffer console (drivers/framebuffer/framebuffer.c) over        *)
(* Flanterm.  The console calls write and flush with its lock held, so     *)
(* each call is one step.  An event's message is a word: a sequence of     *)
(* bytes.  A word need not end where an escape sequence or a character     *)
(* does, so the parser's state lives across calls.                         *)
(***************************************************************************)
EXTENDS Flanterm

CONSTANT
    Screens     \* what limine answers: "none", "unusable" or "usable"

VARIABLES
    screen,        \* the framebuffer there is
    driver_data,   \* framebuffer_device.driver_data: "null", "error" or "context"
    registered,    \* framebuffer_backend is one of the console's
    ctx,           \* the Flanterm context, or None
    calls          \* events so far

vars == <<screen, driver_data, registered, ctx, calls>>

None == [none |-> TRUE]

Init ==
    /\ screen \in Screens
    /\ driver_data = "null" /\ registered = FALSE /\ ctx = None /\ calls = 0

\* flanterm_init: the context with its defaults, not flushed by itself.
flanterm_init ==
    flanterm_set_autoflush(flanterm_reset_text_fg(flanterm_reset_text_bg(flanterm_fb_init)), FALSE)

\* kernel_main calls it once.
framebuffer_init ==
    /\ driver_data = "null"
    /\ driver_data' = IF screen = "usable" THEN "context" ELSE "error"
    /\ registered' = (screen = "usable")
    /\ ctx' = IF screen = "usable" THEN flanterm_init ELSE None
    /\ UNCHANGED <<screen, calls>>

WriteEvent(t, ev, msg) ==
    flanterm_reset_text_fg(flanterm_reset_text_bg(
        flanterm_write(flanterm_set_text_fg(flanterm_set_text_bg(t, ev.bg, ev.bg_bright),
                                            ev.fg, ev.fg_bright), msg)))

framebuffer_write_event(ev, msg) ==
    /\ registered
    /\ ctx' = WriteEvent(ctx, ev, msg)
    /\ calls' = calls + 1
    /\ UNCHANGED <<screen, driver_data, registered>>

framebuffer_flush ==
    /\ registered
    /\ ctx' = flanterm_flush(ctx)
    /\ UNCHANGED <<screen, driver_data, registered, calls>>

\* Messages are of Words, with the colours [fg, fg_bright, bg, bg_bright] of Colours;
\* MaxEvents bounds them.
Next(Words, Colours, MaxEvents) ==
    \/ framebuffer_init
    \/ calls < MaxEvents /\ \E ev \in Colours, msg \in Words : framebuffer_write_event(ev, msg)
    \/ framebuffer_flush

-------------------------------------------------------------------------------
On == driver_data = "context"

\* Nothing of a sequence or of a character is pending.
Idle(t) == ~t.escape /\ ~t.discard_next /\ t.unicode_remaining = 0 /\ t.g_select = 0

\* A flush makes the screen show the text, whatever was drawn, queued, moved over
\* or skipped before it: every cell as it was last written, the cursor's inverted,
\* and no other inverted cell left from an earlier cursor.
FlushShowsText ==
    LET under(i) == /\ ctx.cursor_enabled /\ ctx.cursor_x < Cols
                    /\ i = ctx.cursor_y * Cols + ctx.cursor_x
        Shows(f) == \A i \in Cells :
            f.shown[i] = IF under(i) THEN Inverted(Pending(ctx, i)) ELSE Pending(ctx, i)
    IN  On => Shows(flanterm_flush(ctx))

\* The colours of an event end with it: afterwards the colours depend on the
\* attributes the text has set (bold, blink and reverse) and on nothing else.
ColoursEnd ==
    On => LET fg == IF ctx.bold THEN DEFAULT_FG_BRIGHT ELSE DEFAULT_FG
              bg == IF ctx.bg_bold THEN DEFAULT_BG_BRIGHT ELSE CANVAS
          IN  <<ctx.text_fg, ctx.text_bg>> = IF ctx.reverse_video THEN <<bg, fg>> ELSE <<fg, bg>>

\* Text written within the scrolling region stays in it: lines, wrapping and
\* scrolling change no row above or below it.  In insert mode a letter moves the
\* rest of its line right, and only that.
WritesInPlace ==
    LET region == ctx.scroll_top_margin .. ctx.scroll_bottom_margin - 1
        at == ctx.cursor_y * Cols + ctx.cursor_x
        Inside(t) == /\ t.cursor_y \in region
                     /\ \A i \in Cells : i \div Cols \notin region => Pending(t, i) = Pending(ctx, i)
        Shifted(t) ==
            Text(t) = [i \in Cells |-> IF i = at THEN Char(ctx, Key.X)
                                       ELSE IF i > at /\ i < (ctx.cursor_y + 1) * Cols
                                       THEN Pending(ctx, i - 1) ELSE Pending(ctx, i)]
        Written(c, t) == /\ ctx.cursor_y \in region => Inside(t)
                         /\ c = Key.X /\ ctx.insert_mode /\ ctx.cursor_x < Cols => Shifted(t)
    IN  On /\ Idle(ctx) => \A c \in {Key.X, 10} : Written(c, flanterm_putchar(ctx, c))

\* Rows a to b - 1 of the text, n lines up or down, blank lines coming in.
LinesUp(t, a, b, n) ==
    [i \in Cells |-> IF i \div Cols \notin a .. b - 1 THEN Pending(t, i)
                     ELSE IF i \div Cols + n < b THEN Pending(t, i + n * Cols) ELSE Char(t, SPACE)]
LinesDown(t, a, b, n) ==
    [i \in Cells |-> IF i \div Cols \notin a .. b - 1 THEN Pending(t, i)
                     ELSE IF i \div Cols - n >= a THEN Pending(t, i - n * Cols) ELSE Char(t, SPACE)]
Erased(t, S) == [i \in Cells |-> IF i \in S THEN Char(t, SPACE) ELSE Pending(t, i)]

\* Whatever state the parser was left in, CAN ends it: the next letter is shown and
\* the next sequence obeyed.  A private sequence (CSI ?) is the exception: the cancel
\* leaves dec_private set, so that one sequence is lost before the next is obeyed.
CancelRecovers ==
    LET Clear(t) == FoldLeft(flanterm_putchar, t, <<ESC, Key.open, Key.n0 + 2, Key.J>>)
        Shown(t, u) == /\ u.cursor_x > 0
                       /\ Pending(u, u.cursor_y * Cols + u.cursor_x - 1) = Char(t, Key.X)
        Obeyed(t, u) == Text(u) = Erased(t, Cells)
    IN  On => \A t \in {flanterm_putchar(ctx, CAN)} :
                  /\ Idle(t) /\ Text(t) = Text(ctx)
                  /\ Shown(t, flanterm_putchar(t, Key.X))
                  /\ \A u \in {Clear(t)} :
                         IF ctx.dec_private THEN Text(u) = Text(t) /\ Obeyed(u, Clear(u))
                         ELSE Obeyed(t, u)

\* What console_codes(4) says of each sequence CSI n c that changes the text.
Edited(t, c, n) ==
    LET x == CursorX(t)
        y == CursorY(t)
        a == y * Cols                 \* the first cell of the cursor's line,
        p == a + x                    \* the cursor's cell
        z == a + Cols - 1             \* and the last one of the line
        inside == y >= t.scroll_top_margin /\ y < t.scroll_bottom_margin
    IN  CASE c = Key.P -> [i \in Cells |-> IF i \notin p .. z THEN Pending(t, i)
                              ELSE IF i + n <= z THEN Pending(t, i + n) ELSE Char(t, SPACE)]
          [] c = Key.at -> [i \in Cells |-> IF i \notin p .. z THEN Pending(t, i)
                              ELSE IF i - n >= p THEN Pending(t, i - n) ELSE Char(t, SPACE)]
          [] c = Key.X -> Erased(t, p .. Least(p + n - 1, z))
          [] c = Key.K -> Erased(t, IF n = 0 THEN p .. z ELSE IF n = 1 THEN a .. p ELSE a .. z)
          [] c = Key.J -> Erased(t, {i \in Cells : CASE n = 0 -> i >= p [] n = 1 -> i <= p [] OTHER -> TRUE})
          [] c = Key.M -> IF inside THEN LinesUp(t, y, t.scroll_bottom_margin, n) ELSE Text(t)
          [] c = Key.L -> IF inside THEN LinesDown(t, y, t.scroll_bottom_margin, n) ELSE Text(t)
          [] c = Key.S -> LinesUp(t, t.scroll_top_margin, t.scroll_bottom_margin, n)
          [] c = Key.T -> LinesDown(t, t.scroll_top_margin, t.scroll_bottom_margin, n)

\* Each sequence that inserts, deletes or erases changes the text as defined, in
\* every state of the margins, of the pending wrap, of the modes and of the
\* queue, and leaves the cursor where it is.  Without a parameter J and K erase
\* from the cursor on.  A dec_private left by a cancelled sequence is excluded:
\* CancelRecovers says what it does.
SequencesEdit ==
    LET Leaves(t, c, n) == /\ Text(t) = Edited(ctx, c, n)
                           /\ CursorX(t) = CursorX(ctx) /\ CursorY(t) = CursorY(ctx)
        Counted == {Key.P, Key.at, Key.X, Key.K, Key.J, Key.M, Key.L, Key.S, Key.T} \X {1, 2}
        Digits(n) == IF n = 0 THEN <<>> ELSE <<Key.n0 + n>>
    IN  On /\ Idle(ctx) /\ ~ctx.dec_private =>
            \A k \in Counted \cup ({Key.J, Key.K} \X {0}) :
                Leaves(FoldLeft(flanterm_putchar, ctx, <<ESC, Key.open>> \o Digits(k[2]) \o <<k[1]>>),
                       k[1], k[2])

===============================================================================
