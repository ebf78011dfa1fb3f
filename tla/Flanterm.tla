------------------------------ MODULE Flanterm ------------------------------
(***************************************************************************)
(* Flanterm's parser and API (flanterm.c) over the framebuffer backend: an *)
(* operator per function, from the context t to the one it leaves.  Bytes  *)
(* are their codes.  No callback is ever installed by the kernel, so what  *)
(* only feeds it is left out.  The tables of unicode_to_cp437 and          *)
(* mk_wcwidth are the constants Cp437Of and WidthOf.                       *)
(***************************************************************************)
EXTENDS Integers, Sequences, SequencesExt, TLC

-----------------------------------------------------------------------------
(***************************************************************************)
(* Flanterm's framebuffer backend (flanterm_backends/fb.c).  A context is  *)
(* one record t; each operation of the backend is an operator from t to    *)
(* the context it leaves.                                                  *)
(*                                                                         *)
(* A character cell is a record [c, fg, bg].  A colour whose _default flag *)
(* is set is neither drawn nor compared, so colour and flag are one value: *)
(* CANVAS stands for the flag.  `shown' is what plot_char last drew in a   *)
(* cell; where its pixels are is in FlantermInit.                          *)
(***************************************************************************)

CONSTANTS
    Rows,   \* ctx->rows
    Cols    \* ctx->cols

ScreenAssumption == Rows \in Nat \ {0} /\ Cols \in Nat \ {0}

NULL == 0
SPACE == 32

\* Colours: the eight of ansi_colours, the eight of ansi_bright_colours, the
\* three defaults, and rgb values after them.
CANVAS == -1
Ansi(k) == k
Bright(k) == 8 + k
DEFAULT_FG == 16
DEFAULT_FG_BRIGHT == 17
DEFAULT_BG_BRIGHT == 18
Rgb(v) == 32 + v

Cells == 0 .. Rows * Cols - 1
Inverted(ch) == [ch EXCEPT !.fg = ch.bg, !.bg = ch.fg]

\* What a cell holds once all that is queued is drawn.
Pending(t, i) == IF t.map[i] # NULL THEN t.queue[t.map[i]].c ELSE t.grid[i]
Text(t) == [i \in Cells |-> Pending(t, i)]

\* The character c in the colours of the moment.
Char(t, c) == [c |-> c, fg |-> t.text_fg, bg |-> t.text_bg]

plot_char(t, ch, i) == [t EXCEPT !.shown[i] = ch]

push_to_queue(t, ch, x, y) ==
    LET At(i) == IF t.map[i] # NULL THEN [t EXCEPT !.queue[t.map[i]].c = ch]
                 ELSE IF t.grid[i] = ch \/ Len(t.queue) = Rows * Cols THEN t
                 ELSE [t EXCEPT !.queue = Append(@, [at |-> i, c |-> ch]),
                                !.map[i] = Len(t.queue) + 1]
    IN  IF x >= Cols \/ y >= Rows THEN t ELSE At(y * Cols + x)

\* The pushes of ch to n cells of row y from column x on.
Fill(t, ch, x, y, n) ==
    LET f[k \in 0 .. n] == IF k = 0 THEN t ELSE push_to_queue(f[k - 1], ch, x + k - 1, y)
    IN  f[n]

\* Cell i pushed to where it is `by' cells further on.
CopyCell(t, i, by) == push_to_queue(t, Pending(t, i), (i + by) % Cols, (i + by) \div Cols)

\* A variant: the copy runs upwards and reads what it has just written.
RevscrollUpwards(t) ==
    LET start == t.scroll_top_margin * Cols
        end == (t.scroll_bottom_margin - 1) * Cols
        f[i \in start .. end] == IF i = start THEN t ELSE CopyCell(f[i - 1], i - 1, Cols)
    IN  Fill(f[end], Char(t, SPACE), 0, t.scroll_top_margin, Cols)

flanterm_fb_revscroll(t) ==
    LET start == t.scroll_top_margin * Cols
        end == (t.scroll_bottom_margin - 1) * Cols
        f[i \in start .. end] == IF i = end THEN t ELSE CopyCell(f[i + 1], i, Cols)
    IN  Fill(f[start], Char(t, SPACE), 0, t.scroll_top_margin, Cols)

flanterm_fb_scroll(t) ==
    LET start == (t.scroll_top_margin + 1) * Cols
        end == t.scroll_bottom_margin * Cols
        f[i \in start .. end] == IF i = start THEN t ELSE CopyCell(f[i - 1], i - 1, -Cols)
    IN  Fill(f[end], Char(t, SPACE), 0, t.scroll_bottom_margin - 1, Cols)

flanterm_fb_clear(t, move) ==
    LET f[y \in 0 .. Rows] ==
            IF y = 0 THEN t ELSE Fill(f[y - 1], Char(t, SPACE), 0, y - 1, Cols)
    IN  [f[Rows] EXCEPT !.cursor_x = IF move THEN 0 ELSE @, !.cursor_y = IF move THEN 0 ELSE @]

\* A size_t above SIZE_MAX / 2 is a difference that went below zero.
Clamped(v, n) == IF v < 0 THEN 0 ELSE IF v >= n THEN n - 1 ELSE v
flanterm_fb_set_cursor_pos(t, x, y) ==
    [t EXCEPT !.cursor_x = Clamped(x, Cols), !.cursor_y = Clamped(y, Rows)]

\* flanterm_fb_get_cursor_pos: a cursor that is about to wrap is in the last column.
CursorX(t) == IF t.cursor_x >= Cols THEN Cols - 1 ELSE t.cursor_x
CursorY(t) == IF t.cursor_y >= Rows THEN Rows - 1 ELSE t.cursor_y

flanterm_fb_move_character(t, new_x, new_y, old_x, old_y) ==
    IF old_x >= Cols \/ old_y >= Rows \/ new_x >= Cols \/ new_y >= Rows THEN t
    ELSE push_to_queue(t, Pending(t, old_x + old_y * Cols), new_x, new_y)

\* set_text_fg, _bright, _rgb, _default and _default_bright, by the colour set.
SetFg(t, colour) == [t EXCEPT !.text_fg = colour]
SetBg(t, colour) == [t EXCEPT !.text_bg = colour]
flanterm_fb_swap_palette(t) == [t EXCEPT !.text_fg = t.text_bg, !.text_bg = t.text_fg]

flanterm_fb_save_state(t) ==
    [t EXCEPT !.saved_fb = [fg |-> t.text_fg, bg |-> t.text_bg, x |-> t.cursor_x, y |-> t.cursor_y]]
flanterm_fb_restore_state(t) ==
    [t EXCEPT !.text_fg = t.saved_fb.fg, !.text_bg = t.saved_fb.bg,
              !.cursor_x = t.saved_fb.x, !.cursor_y = t.saved_fb.y]

draw_cursor(t) ==
    LET At(i) == [plot_char(t, Inverted(Pending(t, i)), i) EXCEPT !.grid[i] = Pending(t, i),
                                                                  !.map[i] = NULL]
    IN  IF t.cursor_x >= Cols \/ t.cursor_y >= Rows THEN t ELSE At(t.cursor_x + t.cursor_y * Cols)

\* One item of the queue; an item that was drawn with the cursor has no entry in the map.
DrawItem(t, q) ==
    IF t.map[q.at] = NULL THEN t
    ELSE [plot_char(t, q.c, q.at) EXCEPT !.grid[q.at] = q.c, !.map[q.at] = NULL]

\* A variant: only the cursor's moving uncovers the cell it was on.
EraseCursorIfMoved(t) ==
    IF /\ t.old_cursor_x # t.cursor_x \/ t.old_cursor_y # t.cursor_y
       /\ t.old_cursor_x < Cols /\ t.old_cursor_y < Rows
    THEN LET i == t.old_cursor_x + t.old_cursor_y * Cols IN plot_char(t, t.grid[i], i)
    ELSE t

EraseCursor(t) ==
    IF /\ t.old_cursor_x # t.cursor_x \/ t.old_cursor_y # t.cursor_y \/ ~t.cursor_enabled
       /\ t.old_cursor_x < Cols /\ t.old_cursor_y < Rows
    THEN LET i == t.old_cursor_x + t.old_cursor_y * Cols IN plot_char(t, t.grid[i], i)
    ELSE t

flanterm_fb_double_buffer_flush(t) ==
    LET d == EraseCursor(FoldLeft(DrawItem, IF t.cursor_enabled THEN draw_cursor(t) ELSE t, t.queue))
    IN  [d EXCEPT !.old_cursor_x = t.cursor_x, !.old_cursor_y = t.cursor_y, !.queue = <<>>]

flanterm_fb_raw_putchar(t, c) ==
    LET wraps == t.cursor_x >= Cols /\ t.wrap_enabled
                 /\ (t.cursor_y < t.scroll_bottom_margin - 1 \/ t.scroll_enabled)
        Put(w) == [push_to_queue(w, Char(t, c), w.cursor_x, w.cursor_y) EXCEPT !.cursor_x = @ + 1]
    IN  Put(IF ~wraps THEN [t EXCEPT !.cursor_x = IF @ >= Cols THEN Cols - 1 ELSE @]
            ELSE IF t.cursor_y + 1 = t.scroll_bottom_margin
                 THEN flanterm_fb_scroll([t EXCEPT !.cursor_x = 0])
            ELSE [t EXCEPT !.cursor_x = 0, !.cursor_y = IF @ + 1 >= Rows THEN Rows - 1 ELSE @ + 1])

\* raw_putchar n times.
Putchars(t, c, n) ==
    LET f[k \in 0 .. n] == IF k = 0 THEN t ELSE flanterm_fb_raw_putchar(f[k - 1], c)
    IN  f[n]

\* Every cell from the grid, then the cursor.
flanterm_fb_full_refresh(t) ==
    LET Cursor(d) == IF t.cursor_enabled THEN draw_cursor(d) ELSE d
    IN  Cursor([t EXCEPT !.shown = t.grid])

-----------------------------------------------------------------------------
CONSTANTS
    MaxEsc,      \* FLANTERM_MAX_ESC_VALUES
    UINT32,      \* UINT32_MAX
    OscSize,     \* sizeof(osc_buf)
    TabSize,     \* tab_size
    Cp437Of(_),  \* unicode_to_cp437: a glyph, or -1
    WidthOf(_)   \* mk_wcwidth

\* The codes of the printable bytes the parser tells apart.
Key == [A |-> 65, B |-> 66, C |-> 67, D |-> 68, E |-> 69, F |-> 70, G |-> 71, H |-> 72, J |-> 74,
        K |-> 75, L |-> 76, M |-> 77, P |-> 80, S |-> 83, T |-> 84, X |-> 88,
        a |-> 97, b |-> 98, c |-> 99, d |-> 100, e |-> 101, f |-> 102, h |-> 104, l |-> 108,
        m |-> 109, q |-> 113, r |-> 114, s |-> 115, u |-> 117,
        at |-> 64, tick |-> 96, open |-> 91, close |-> 93, slash |-> 92, ask |-> 63, semi |-> 59,
        lpar |-> 40, rpar |-> 41, n0 |-> 48, n7 |-> 55, n8 |-> 56, n9 |-> 57]
ESC == 27
BEL == 7
CAN == 24
SUB == 26
DEL == 127
BLOCK == 254                 \* the replacement glyph, 0xfe
MAX_CP == 1114111            \* 0x10ffff
BAD_CP == MAX_CP + 1         \* any value above it: UINT64_MAX in the code
NONE == -1                   \* (size_t)-1
RGB == -2                    \* (size_t)-2
CHARSET_DEFAULT == 0
CHARSET_DEC_SPECIAL == 1

Least(a, b) == IF a < b THEN a ELSE b

\* Op n times.
Times(Op(_), t, n) ==
    LET f[k \in 0 .. n] == IF k = 0 THEN t ELSE Op(f[k - 1]) IN f[n]

\* The fields that save_state and restore_state copy.
Saved(t) ==
    [bold |-> t.bold, bg_bold |-> t.bg_bold, reverse_video |-> t.reverse_video,
     origin_mode |-> t.origin_mode, current_charset |-> t.current_charset, charsets |-> t.charsets,
     current_primary |-> t.current_primary, current_bg |-> t.current_bg]
DefaultState ==
    [bold |-> FALSE, bg_bold |-> FALSE, reverse_video |-> FALSE, origin_mode |-> FALSE,
     current_charset |-> 0, charsets |-> <<CHARSET_DEFAULT, CHARSET_DEC_SPECIAL>>,
     current_primary |-> NONE, current_bg |-> NONE]
Restored(t, s) ==
    [t EXCEPT !.bold = s.bold, !.bg_bold = s.bg_bold, !.reverse_video = s.reverse_video,
              !.origin_mode = s.origin_mode, !.current_charset = s.current_charset,
              !.charsets = s.charsets, !.current_primary = s.current_primary,
              !.current_bg = s.current_bg]

flanterm_context_reinit(t) ==
    [Restored(t, DefaultState) EXCEPT
       !.autoflush = TRUE, !.cursor_enabled = TRUE, !.scroll_enabled = TRUE, !.wrap_enabled = TRUE,
       !.control_sequence = FALSE, !.escape = FALSE, !.osc = FALSE, !.osc_escape = FALSE,
       !.rrr = FALSE, !.discard_next = FALSE, !.dec_private = FALSE, !.insert_mode = FALSE,
       !.csi_unhandled = FALSE, !.unicode_remaining = 0, !.g_select = 0, !.escape_offset = 0,
       !.esc_values_i = 0, !.saved_cursor = <<0, 0>>, !.saved = DefaultState,
       !.last_printed_char = SPACE, !.last_was_graphic = FALSE,
       !.scroll_top_margin = 0, !.scroll_bottom_margin = Rows]

save_state(t) == [flanterm_fb_save_state(t) EXCEPT !.saved = Saved(t)]
restore_state(t) == flanterm_fb_restore_state(Restored(t, t.saved))

-------------------------------------------------------------------------------
(* Colours.  Under reverse video the primary colour is the backend's       *)
(* background and the other way round.                                     *)

PaintPrimary(t, colour) == IF t.reverse_video THEN SetBg(t, colour) ELSE SetFg(t, colour)
PaintBackground(t, colour) == IF t.reverse_video THEN SetFg(t, colour) ELSE SetBg(t, colour)
Unreversed(t) == IF t.reverse_video THEN flanterm_fb_swap_palette(t) ELSE t

ResetFg(t) ==
    Unreversed(SetFg(Unreversed([t EXCEPT !.current_primary = NONE]),
                     IF t.bold THEN DEFAULT_FG_BRIGHT ELSE DEFAULT_FG))
ResetBg(t) ==
    Unreversed(SetBg(Unreversed([t EXCEPT !.current_bg = NONE]),
                     IF t.bg_bold THEN DEFAULT_BG_BRIGHT ELSE CANVAS))

SgrReset(t) ==
    SetFg(SetBg([Unreversed(t) EXCEPT !.reverse_video = FALSE, !.bold = FALSE, !.bg_bold = FALSE,
                                      !.current_primary = NONE, !.current_bg = NONE],
                CANVAS), DEFAULT_FG)

\* Codes 1 and 22: the primary colour, if it is one of the eight, changes its brightness.
SgrBold(t, on) ==
    LET u == [t EXCEPT !.bold = on] IN
    IF t.current_primary = RGB THEN u
    ELSE IF t.current_primary # NONE
         THEN PaintPrimary(u, IF on THEN Bright(t.current_primary) ELSE Ansi(t.current_primary))
    ELSE IF t.reverse_video THEN SetBg(u, IF on THEN DEFAULT_BG_BRIGHT ELSE CANVAS)
    ELSE SetFg(u, IF on THEN DEFAULT_FG_BRIGHT ELSE DEFAULT_FG)
\* Codes 5 and 25.
SgrBgBold(t, on) ==
    LET u == [t EXCEPT !.bg_bold = on] IN
    IF t.current_bg = RGB THEN u
    ELSE IF t.current_bg # NONE
         THEN PaintBackground(u, IF on THEN Bright(t.current_bg) ELSE Ansi(t.current_bg))
    ELSE IF t.reverse_video THEN SetFg(u, IF on THEN DEFAULT_FG_BRIGHT ELSE DEFAULT_FG)
    ELSE SetBg(u, IF on THEN DEFAULT_BG_BRIGHT ELSE CANVAS)

SgrReverse(t, on) ==
    IF t.reverse_video = on THEN t
    ELSE flanterm_fb_swap_palette([t EXCEPT !.reverse_video = on])

\* Code v with nothing after it.
SgrCode(t, v) ==
    IF v = 0 THEN SgrReset(t)
    ELSE IF v \in {1, 22} THEN SgrBold(t, v = 1)
    ELSE IF v \in {5, 25} THEN SgrBgBold(t, v = 5)
    ELSE IF v \in 30 .. 37
         THEN PaintPrimary([t EXCEPT !.current_primary = v - 30],
                           IF t.bold THEN Bright(v - 30) ELSE Ansi(v - 30))
    ELSE IF v \in 40 .. 47
         THEN PaintBackground([t EXCEPT !.current_bg = v - 40],
                              IF t.bg_bold THEN Bright(v - 40) ELSE Ansi(v - 40))
    ELSE IF v \in 90 .. 97 THEN PaintPrimary([t EXCEPT !.current_primary = v - 90], Bright(v - 90))
    ELSE IF v \in 100 .. 107 THEN PaintBackground([t EXCEPT !.current_bg = v - 100], Bright(v - 100))
    ELSE IF v = 39 THEN ResetFg(t)
    ELSE IF v = 49 THEN ResetBg(t)
    ELSE IF v \in {7, 27} THEN SgrReverse(t, v = 7)
    ELSE t

\* 38 and 48: the colour itself, whatever the brightness.
SgrExact(t, fg, colour) ==
    IF fg THEN PaintPrimary([t EXCEPT !.current_primary = RGB], colour)
    ELSE PaintBackground([t EXCEPT !.current_bg = RGB], colour)
\* col256 beyond the sixteen: values of its own, one for each index.
Indexed(k) == IF k < 8 THEN Ansi(k) ELSE IF k < 16 THEN Bright(k - 8) ELSE Rgb(2^24 + k)

\* One turn of the loop of sgr at index r.i.
SgrStep(r) ==
    LET t == r.t
        i == r.i
        v == t.esc_values
        n == t.esc_values_i
        out == [r EXCEPT !.i = n]
    IN  IF v[i] \notin {38, 48} THEN [t |-> SgrCode(t, v[i]), i |-> i + 1]
        ELSE IF i + 1 >= n THEN out
        ELSE IF v[i + 1] = 2
             THEN IF i + 4 >= n THEN out
                  ELSE [t |-> SgrExact(t, v[i] = 38, Rgb((v[i + 2] % 256) * 65536
                                             + (v[i + 3] % 256) * 256 + (v[i + 4] % 256))),
                        i |-> i + 5]
        ELSE IF v[i + 1] = 5
             THEN IF i + 2 >= n THEN out
                  ELSE [t |-> IF v[i + 2] < 256 THEN SgrExact(t, v[i] = 38, Indexed(v[i + 2])) ELSE t,
                        i |-> i + 3]
        ELSE [r EXCEPT !.i = i + 2]

sgr(t) ==
    LET n == t.esc_values_i
        f[k \in 0 .. n] == IF k = 0 THEN [t |-> t, i |-> 0]
                           ELSE IF f[k - 1].i >= n THEN f[k - 1] ELSE SgrStep(f[k - 1])
    IN  IF n = 0 THEN SgrReset(t) ELSE f[n].t
-------------------------------------------------------------------------------
(* Moving about.                                                           *)

MoveTo(t, x, y) == flanterm_fb_set_cursor_pos(t, x, y)

\* Down one row: at the bottom of the region the region scrolls instead.
LineFeed(t, x) ==
    LET y == CursorY(t) IN
    IF y = t.scroll_bottom_margin - 1 THEN MoveTo(flanterm_fb_scroll(t), x, y)
    ELSE MoveTo(t, x, IF y < Rows - 1 THEN y + 1 ELSE y)

\* execute_c0; a byte it does not know changes nothing.
execute_c0(t, c) ==
    LET x == CursorX(t)
        y == CursorY(t)
    IN  IF c = 8 THEN IF x > 0 THEN MoveTo(t, x - 1, y) ELSE t
        ELSE IF c = 9 THEN MoveTo(t, Least((x \div TabSize + 1) * TabSize, Cols - 1), y)
        ELSE IF c \in {10, 11, 12}
             THEN IF y = t.scroll_bottom_margin - 1 \/ y < Rows - 1 THEN LineFeed(t, x) ELSE t
        ELSE IF c = 13 THEN MoveTo(t, 0, y)
        ELSE IF c \in {14, 15} THEN [t EXCEPT !.current_charset = IF c = 14 THEN 1 ELSE 0]
        ELSE t

\* n cells of row y, from column x on, moved right or left with those after them.
ShiftRight(t, x, y, n) ==
    LET f[i \in x + n .. Cols] ==
            IF i = Cols THEN t ELSE flanterm_fb_move_character(f[i + 1], i, y, i - n, y)
    IN  f[x + n]
ShiftLeft(t, x, y, n) ==
    LET f[i \in x + n .. Cols] ==
            IF i = x + n THEN t ELSE flanterm_fb_move_character(f[i - 1], i - 1 - n, y, i - 1, y)
    IN  f[Cols]

insert_shift(t, count) ==
    LET x == CursorX(t) IN
    IF t.insert_mode /\ count > 0 THEN ShiftRight(t, x, CursorY(t), Least(count, Cols - x)) ELSE t

\* n blanks from (x, y) on, in the colours of the moment.
Blank(t, x, y, n) == Putchars(MoveTo(t, x, y), SPACE, n)
\* Rows a to b - 1.
BlankRows(t, a, b) ==
    LET f[y \in a .. b] == IF y = a THEN t ELSE Blank(f[y - 1], 0, y - 1, Cols)
    IN  IF a < b THEN f[b] ELSE t

\* From the cursor on, or up to it with the cursor's cell, or all of it.
EraseInDisplay(t, x, y, how) ==
    IF how > 3 THEN t
    ELSE IF how \in {2, 3} THEN flanterm_fb_clear(t, FALSE)
    ELSE MoveTo(IF how = 0 THEN BlankRows(Blank(t, x, y, Cols - x), y + 1, Rows)
                ELSE Blank(BlankRows(t, 0, y), 0, y, x + 1), x, y)
EraseInLine(t, x, y, how) ==
    IF how > 2 THEN t
    ELSE MoveTo(Blank(t, IF how = 0 THEN x ELSE 0, y,
                      IF how = 0 THEN Cols - x ELSE IF how = 1 THEN x + 1 ELSE Cols), x, y)

\* M and L: the lines from the cursor's to the bottom margin.
LinesBelow(t, Op(_), y, n) ==
    IF y < t.scroll_top_margin \/ y >= t.scroll_bottom_margin THEN t
    ELSE [Times(Op, [t EXCEPT !.scroll_top_margin = y], Least(n, t.scroll_bottom_margin - y))
            EXCEPT !.scroll_top_margin = t.scroll_top_margin]

SetMargins(t) ==
    LET v == t.esc_values
        n == t.esc_values_i
        top == IF n > 0 THEN v[0] - 1 ELSE 0
        bottom == IF n > 1 THEN v[1] ELSE Rows
        bad == top >= Rows \/ bottom > Rows \/ top >= bottom - 1
        u == [t EXCEPT !.scroll_top_margin = IF bad THEN 0 ELSE top,
                       !.scroll_bottom_margin = IF bad THEN Rows ELSE bottom]
    IN  MoveTo(u, 0, IF t.origin_mode THEN u.scroll_top_margin ELSE 0)

\* REP: the last graphic character again.
Repeat(t) ==
    LET one(u) == flanterm_fb_raw_putchar(
                      IF u.insert_mode THEN ShiftRight(u, CursorX(u), CursorY(u), 1) ELSE u,
                      t.last_printed_char)
    IN  IF t.last_was_graphic THEN Times(one, t, Least(t.esc_values[0], Cols)) ELSE t

\* The finals of control_sequence_parse that move the cursor.
CsiMove(t, c) ==
    LET x == CursorX(t)
        y == CursorY(t)
        v0 == t.esc_values[0]
        height == t.scroll_bottom_margin - t.scroll_top_margin
        row(v) == IF t.origin_mode
                  THEN t.scroll_top_margin + Least(IF v = 0 THEN 0 ELSE v - 1, height - 1)
                  ELSE Least(IF v = 0 THEN 0 ELSE v - 1, Rows - 1)
        col(v) == Least(IF v = 0 THEN 0 ELSE v - 1, Cols - 1)
        up == IF t.origin_mode /\ y - Least(v0, y) < t.scroll_top_margin THEN t.scroll_top_margin
              ELSE y - Least(v0, y)
        down == Least(y + v0, IF t.origin_mode THEN t.scroll_bottom_margin - 1 ELSE Rows - 1)
    IN  CASE c \in {Key.A, Key.F} -> MoveTo(t, IF c = Key.F THEN 0 ELSE x, up)
          [] c \in {Key.B, Key.e, Key.E} -> MoveTo(t, IF c = Key.E THEN 0 ELSE x, down)
          [] c \in {Key.C, Key.a} -> MoveTo(t, Least(x + v0, Cols - 1), y)
          [] c = Key.D -> MoveTo(t, x - Least(v0, x), y)
          [] c = Key.d -> MoveTo(t, x, row(v0))
          [] c \in {Key.G, Key.tick} -> MoveTo(t, col(v0), y)
          [] c \in {Key.H, Key.f} -> MoveTo(t, col(t.esc_values[1]), row(v0))
          [] OTHER -> t

\* Those that change the text, the modes or the margins, and, through CsiMove,
\* the others; scrolling is off and wrapping on (REP has back what they were: r and w).
Csi(t, c, r, w) ==
    LET x == CursorX(t)
        y == CursorY(t)
        v0 == t.esc_values[0]
        n == Least(v0, Cols - x)
        height == t.scroll_bottom_margin - t.scroll_top_margin
    IN  CASE c = Key.M -> LinesBelow(t, flanterm_fb_scroll, y, v0)
          [] c = Key.L -> LinesBelow(t, flanterm_fb_revscroll, y, v0)
          [] c = Key.J -> EraseInDisplay(t, x, y, v0)
          [] c = Key.K -> EraseInLine(t, x, y, v0)
          [] c = Key.at -> MoveTo(Blank(ShiftRight(t, x, y, n), x, y, n), x, y)
          [] c = Key.P -> MoveTo(Blank(ShiftLeft(t, x, y, n), Cols - n, y, n), x, y)
          [] c = Key.X -> MoveTo(Blank(t, x, y, n), x, y)
          [] c = Key.m -> sgr(t)
          [] c = Key.s -> [t EXCEPT !.saved_cursor = <<x, y>>]
          [] c = Key.u -> MoveTo(t, t.saved_cursor[1], t.saved_cursor[2])
          [] c = Key.r -> SetMargins(t)
          [] c \in {Key.h, Key.l} -> IF t.esc_values_i # 0 /\ v0 = 4
                                     THEN [t EXCEPT !.insert_mode = (c = Key.h)] ELSE t
          [] c = Key.S -> Times(flanterm_fb_scroll, t, Least(v0, height))
          [] c = Key.T -> Times(flanterm_fb_revscroll, t, Least(v0, height))
          [] c = Key.b -> Repeat([t EXCEPT !.scroll_enabled = r, !.wrap_enabled = w])
          [] OTHER -> CsiMove(t, c)

DecMode(t, v, set) ==
    IF v = 6 THEN MoveTo([t EXCEPT !.origin_mode = set], 0, IF set THEN t.scroll_top_margin ELSE 0)
    ELSE IF v = 7 THEN [t EXCEPT !.wrap_enabled = set]
    ELSE IF v = 25 THEN [t EXCEPT !.cursor_enabled = set]
    ELSE IF v = 1049 THEN IF set THEN flanterm_fb_clear(save_state(t), TRUE)
                          ELSE restore_state(flanterm_fb_clear(t, TRUE))
    ELSE t
dec_private_parse(t, c) ==
    LET f[i \in 0 .. t.esc_values_i] ==
            IF i = 0 THEN [t EXCEPT !.dec_private = FALSE]
            ELSE DecMode(f[i - 1], t.esc_values[i - 1], c = Key.h)
    IN  f[IF c \in {Key.h, Key.l} THEN t.esc_values_i ELSE 0]
-------------------------------------------------------------------------------
(* Escape sequences.                                                       *)

\* cleanup: the sequence is over.
Ended(t) == [t EXCEPT !.control_sequence = FALSE, !.escape = FALSE]
\* ESC in a sequence: a new one starts.
Restarted(t) == [t EXCEPT !.csi_unhandled = FALSE, !.control_sequence = FALSE, !.escape_offset = 0]

Digit(t, digit) ==
    LET i == t.esc_values_i
        v == t.esc_values[i]
    IN  IF i = MaxEsc THEN t
        ELSE IF v > UINT32 \div 10 THEN [t EXCEPT !.rrr = TRUE]
        ELSE [t EXCEPT !.rrr = TRUE, !.esc_values[i] = Least(v * 10 + digit, UINT32)]

Separator(t) ==
    IF t.rrr THEN [t EXCEPT !.rrr = FALSE, !.esc_values_i = @ + 1]
    ELSE IF t.esc_values_i = MaxEsc THEN t
    ELSE [t EXCEPT !.esc_values[t.esc_values_i] = 0, !.esc_values_i = @ + 1]

\* The parameters before a byte that is neither a digit nor a separator: those
\* not given, and where the default is not 0 also those given as 0, have the default.
Parameters(t, c) ==
    LET n == IF t.rrr THEN t.esc_values_i + 1 ELSE t.esc_values_i
        default == IF c \in {Key.J, Key.K, Key.q, Key.m, Key.c, Key.close} THEN 0 ELSE 1
    IN  [t EXCEPT !.rrr = FALSE, !.esc_values_i = n,
                  !.esc_values = [i \in 0 .. MaxEsc - 1 |->
                      IF i >= n \/ (default # 0 /\ @[i] = 0) THEN default ELSE @[i]]]

\* The switch on the final byte; the flags it works under are put back.
Finish(t, c) ==
    LET u == [t EXCEPT !.scroll_enabled = FALSE, !.wrap_enabled = TRUE]
        back(b) == [b EXCEPT !.scroll_enabled = t.scroll_enabled, !.wrap_enabled = t.wrap_enabled]
    IN  IF c = ESC THEN Restarted(t)
        ELSE IF c \notin 64 .. 126 THEN [t EXCEPT !.csi_unhandled = TRUE]
        ELSE Ended(back(Csi(u, c, t.scroll_enabled, t.wrap_enabled)))

control_sequence_parse(t, c) ==
    LET Given(p) ==
          IF t.dec_private
          THEN IF c \in 32 .. 47 THEN [p EXCEPT !.dec_private = FALSE, !.csi_unhandled = TRUE]
               ELSE Ended(dec_private_parse(p, c))
          ELSE IF t.csi_unhandled
          THEN IF c = ESC THEN Restarted(p)
               ELSE IF c \in 64 .. 126 THEN Ended([p EXCEPT !.csi_unhandled = FALSE])
               ELSE p
          ELSE Finish(p, c)
    IN
    IF t.escape_offset = 2 /\ c = Key.open THEN Ended([t EXCEPT !.discard_next = TRUE])
    ELSE IF t.escape_offset = 2 /\ c = Key.ask THEN [t EXCEPT !.dec_private = TRUE]
    ELSE IF c < 32 /\ c # ESC THEN execute_c0(t, c)
    ELSE IF c \in Key.n0 .. Key.n9 THEN Digit(t, c - Key.n0)
    ELSE IF c = Key.semi THEN Separator(t)
    ELSE Given(Parameters(t, c))

\* osc_parse within a sequence that ESC has not interrupted.
Osc(t, c) ==
    IF c = ESC THEN [t EXCEPT !.osc_escape = TRUE]
    ELSE IF c = BEL THEN [t EXCEPT !.osc_escape = FALSE, !.osc = FALSE, !.escape = FALSE]
    ELSE [t EXCEPT !.osc_buf_i = Least(@ + 1, OscSize)]

\* ESC c: everything back to its default, the text included.
Reset(t) ==
    save_state(flanterm_fb_clear(SetFg(SetBg(flanterm_context_reinit(Unreversed(t)), CANVAS),
                                       DEFAULT_FG), TRUE))

\* The switch of escape_parse on the byte after ESC.
Escape(t, c) ==
    LET x == CursorX(t)
        y == CursorY(t)
        u == CASE c = Key.n7 -> save_state(t)
               [] c = Key.n8 -> restore_state(t)
               [] c = Key.c -> Reset(t)
               [] c = Key.D -> IF y = t.scroll_bottom_margin - 1 \/ y < Rows - 1
                               THEN LineFeed(t, x) ELSE t
               [] c = Key.E -> LineFeed(t, 0)
               [] c = Key.M -> IF y = t.scroll_top_margin THEN MoveTo(flanterm_fb_revscroll(t), x, y)
                               ELSE IF y > 0 THEN MoveTo(t, x, y - 1) ELSE t
               [] c \in {Key.lpar, Key.rpar} -> [t EXCEPT !.g_select = c - 39]
               [] OTHER -> t
    IN  IF c = ESC THEN [t EXCEPT !.escape_offset = 0]
        ELSE IF c = Key.close THEN [t EXCEPT !.osc_escape = FALSE, !.osc = TRUE, !.osc_buf_i = 0]
        ELSE IF c = Key.open
             THEN [t EXCEPT !.esc_values = [i \in 0 .. MaxEsc - 1 |-> 0], !.esc_values_i = 0,
                            !.rrr = FALSE, !.csi_unhandled = FALSE, !.control_sequence = TRUE]
        ELSE [u EXCEPT !.escape = FALSE]

\* escape_offset is only compared with 2, so it is counted up to 3.
escape_parse(t, c) ==
    LET u == [t EXCEPT !.escape_offset = Least(@ + 1, 3)]
        Parse(v) == IF t.control_sequence THEN control_sequence_parse(v, c) ELSE Escape(v, c)
    IN
    IF t.osc /\ ~t.osc_escape THEN Osc(u, c)
    ELSE IF t.osc /\ c = Key.slash
         THEN [u EXCEPT !.osc = FALSE, !.osc_escape = FALSE, !.escape = FALSE]
    ELSE Parse(IF t.osc THEN [u EXCEPT !.osc = FALSE, !.osc_escape = FALSE, !.escape_offset = 1] ELSE u)

-------------------------------------------------------------------------------
(* Text.                                                                   *)

\* Glyph g at the cursor, `wide' columns of the line making room for it.
Emit(t, g, wide) ==
    flanterm_fb_raw_putchar([insert_shift(t, wide) EXCEPT !.last_printed_char = g,
                                                          !.last_was_graphic = TRUE], g)

\* dec_special_print: the line drawing characters.
DecSpecial ==
    96 :> 4 @@ 48 :> 219 @@ 45 :> 24 @@ 44 :> 27 @@ 46 :> 25 @@ 97 :> 177 @@ 102 :> 248 @@
    103 :> 241 @@ 104 :> 176 @@ 106 :> 217 @@ 107 :> 191 @@ 108 :> 218 @@ 109 :> 192 @@
    110 :> 197 @@ 113 :> 196 @@ 115 :> 95 @@ 116 :> 195 @@ 117 :> 180 @@ 118 :> 193 @@
    119 :> 194 @@ 120 :> 179 @@ 121 :> 243 @@ 122 :> 242 @@ 126 :> 250 @@ 95 :> 255 @@
    43 :> 26 @@ 123 :> 227 @@ 125 :> 156

\* The glyph of a byte that is not part of a longer character.
GlyphOf(t, c) ==
    IF t.charsets[t.current_charset + 1] = CHARSET_DEC_SPECIAL /\ c \in DOMAIN DecSpecial
    THEN DecSpecial[c] ELSE IF c >= 128 THEN BLOCK ELSE c

\* A byte outside every sequence.
Ground(t, c) ==
    LET u == [t EXCEPT !.last_was_graphic = @ /\ (c >= 32 \/ c = ESC) /\ c # DEL]
    IN  IF c \in {0, DEL} THEN u
        ELSE IF c = ESC THEN [u EXCEPT !.escape_offset = 0, !.escape = TRUE]
        ELSE IF c < 32 THEN execute_c0(u, c)
        ELSE Emit(u, GlyphOf(u, c), 1)

\* The byte that names the character set for G0 or G1.
SelectCharset(t, c) ==
    [t EXCEPT !.g_select = 0,
              !.charsets[t.g_select] = IF c = Key.B THEN CHARSET_DEFAULT
                                       ELSE IF c = Key.n0 THEN CHARSET_DEC_SPECIAL ELSE @]

\* The first byte of a longer character: how many follow, and the bits it has.
Lead(t, c) ==
    LET n == IF c <= 223 THEN 1 ELSE IF c <= 239 THEN 2 ELSE 3
    IN  [t EXCEPT !.g_select = 0, !.unicode_remaining = n,
                  !.code_point = (c % (IF n = 1 THEN 32 ELSE IF n = 2 THEN 16 ELSE 8)) * 64^n]

\* flanterm_putchar from the label unicode_error on.
Byte(t, c) ==
    IF ~t.escape /\ c \in 194 .. 244 THEN Lead(t, c)
    ELSE IF t.escape THEN escape_parse(t, c)
    ELSE IF t.g_select # 0 /\ c > 31 /\ c # DEL THEN SelectCharset(t, c)
    ELSE Ground([t EXCEPT !.g_select = 0], c)

\* A whole code point.
Show(t, cp) ==
    LET g == Cp437Of(cp)
        width == WidthOf(cp)
    IN  IF g # -1 THEN Emit(t, g, 1)
        ELSE IF width > 0 THEN Putchars(Emit(t, BLOCK, width), SPACE, width - 1)
        ELSE t

\* A byte is used up, or it is parsed again from the label unicode_error on.
Used(t) == [t |-> t, again |-> FALSE]
Again(t) == [t |-> t, again |-> TRUE]

\* A variant: overlong forms are decoded.
ContinueOverlong(t, c) ==
    LET left == t.unicode_remaining - 1
        u == [t EXCEPT !.unicode_remaining = left, !.code_point = @ + (c % 64) * 64^left]
    IN  IF c \div 64 # 2 THEN Again(flanterm_fb_raw_putchar([t EXCEPT !.unicode_remaining = 0,
                                                                       !.code_point = 0], BLOCK))
        ELSE Used(IF left # 0 THEN u ELSE Show(u, u.code_point))

\* A byte while unicode_remaining bytes of a character are missing.
Continue(t, c) ==
    LET bad == t.code_point > MAX_CP
        cut == [t EXCEPT !.unicode_remaining = 0, !.code_point = 0]
        With(u, left, cp) ==
            IF cp > MAX_CP THEN Used(u)
            ELSE IF (left = 1 /\ cp < 2048) \/ (left = 2 /\ cp < 65536) \/ (left = 2 /\ cp > MAX_CP)
                 THEN Used([Emit(u, BLOCK, 1) EXCEPT !.code_point = BAD_CP])
            ELSE IF left # 0 THEN Used(u)
            ELSE IF cp \in 55296 .. 57343 THEN Again(u)
            ELSE Used(Show(u, cp))
        Added(left, cp) == With([t EXCEPT !.unicode_remaining = left, !.code_point = cp], left, cp)
    IN  IF c \div 64 # 2
        THEN Again(IF bad THEN cut ELSE flanterm_fb_raw_putchar(insert_shift(cut, 1), BLOCK))
        ELSE Added(t.unicode_remaining - 1,
                   IF bad THEN t.code_point
                   ELSE t.code_point + (c % 64) * 64^(t.unicode_remaining - 1))

\* A variant: a cancelled sequence is left only if it was an escape sequence.
CancelEscape(t) == [t EXCEPT !.discard_next = FALSE, !.escape = FALSE, !.control_sequence = FALSE]

Cancel(t) ==
    [t EXCEPT !.discard_next = FALSE, !.escape = FALSE, !.control_sequence = FALSE,
              !.unicode_remaining = 0, !.osc = FALSE, !.osc_escape = FALSE, !.g_select = 0,
              !.last_was_graphic = FALSE]

flanterm_putchar(t, c) ==
    LET Parse(r) == IF r.again THEN Byte(r.t, c) ELSE r.t
    IN  IF t.discard_next \/ c \in {CAN, SUB} THEN Cancel(t)
        ELSE Parse(IF ~t.escape /\ t.unicode_remaining # 0 THEN Continue(t, c) ELSE Again(t))

-------------------------------------------------------------------------------
(* The API.                                                                *)

flanterm_flush(t) == flanterm_fb_double_buffer_flush(t)
Autoflushed(t) == IF t.autoflush THEN flanterm_fb_double_buffer_flush(t) ELSE t

flanterm_write(t, buf) == Autoflushed(FoldLeft(flanterm_putchar, t, buf))
flanterm_set_text_fg(t, colour, bright) ==
    IF colour >= 8 THEN t
    ELSE Autoflushed(PaintPrimary([t EXCEPT !.current_primary = colour],
                                  IF bright THEN Bright(colour) ELSE Ansi(colour)))
flanterm_set_text_bg(t, colour, bright) ==
    IF colour >= 8 THEN t
    ELSE Autoflushed(PaintBackground([t EXCEPT !.current_bg = colour],
                                     IF bright THEN Bright(colour) ELSE Ansi(colour)))
flanterm_reset_text_fg(t) == Autoflushed(ResetFg(t))
flanterm_reset_text_bg(t) == Autoflushed(ResetBg(t))
flanterm_set_autoflush(t, state) == [t EXCEPT !.autoflush = state]

\* The context flanterm_fb_init returns: a zeroed context, its blank grid, a
\* reinit and a refresh.
flanterm_fb_init ==
    LET blank == [i \in Cells |-> [c |-> SPACE, fg |-> DEFAULT_FG, bg |-> CANVAS]] IN
    flanterm_fb_full_refresh(
        [autoflush |-> TRUE, cursor_enabled |-> TRUE, scroll_enabled |-> TRUE, wrap_enabled |-> TRUE,
         control_sequence |-> FALSE, escape |-> FALSE, osc |-> FALSE, osc_escape |-> FALSE,
         osc_buf_i |-> 0, rrr |-> FALSE, discard_next |-> FALSE, dec_private |-> FALSE,
         insert_mode |-> FALSE, csi_unhandled |-> FALSE, code_point |-> 0, unicode_remaining |-> 0,
         g_select |-> 0, escape_offset |-> 0, esc_values_i |-> 0,
         esc_values |-> [i \in 0 .. MaxEsc - 1 |-> 0], saved_cursor |-> <<0, 0>>,
         saved |-> DefaultState, last_printed_char |-> SPACE, last_was_graphic |-> FALSE,
         scroll_top_margin |-> 0, scroll_bottom_margin |-> Rows,
         cursor_x |-> 0, cursor_y |-> 0, old_cursor_x |-> 0, old_cursor_y |-> 0,
         text_fg |-> DEFAULT_FG, text_bg |-> CANVAS,
         saved_fb |-> [fg |-> DEFAULT_FG, bg |-> CANVAS, x |-> 0, y |-> 0],
         grid |-> blank, shown |-> blank, queue |-> <<>>, map |-> [i \in Cells |-> NULL]]
        @@ DefaultState)

=============================================================================
