----------------------------- MODULE MCTerminal ------------------------------
(***************************************************************************)
(* The terminal on the framebuffer: the console's backend with text, with  *)
(* colours and with single bytes, Flanterm's decoding of UTF-8, and the    *)
(* set-up of its memory.  A behaviour exercises one of them: part says     *)
(* which.                                                                  *)
(***************************************************************************)
EXTENDS Integers, Sequences, SequencesExt

\* Of the tables: e acute has a glyph, the ideographic space is wide, U+0301
\* (a combining accent) has no width.
Glyph(cp) == IF cp = 233 THEN 130 ELSE IF cp = 169 THEN 67 ELSE -1
Width(cp) == IF cp \in 768 .. 879 THEN 0 ELSE IF cp \in 12288 .. 40959 THEN 2 ELSE 1

INSTANCE Flanterm WITH
    Rows <- 1, Cols <- 6, MaxEsc <- 2, UINT32 <- 4095, OscSize <- 2, TabSize <- 8,
    Cp437Of <- Glyph, WidthOf <- Width

VARIABLES part,
          fbScreen, fbData, fbRegistered, fbCtx, fbCalls,
          utfCtx, utfFed,
          memBase, memPool, memLive, memContexts, memStarved

fbVars == <<fbScreen, fbData, fbRegistered, fbCtx, fbCalls>>
utfVars == <<utfCtx, utfFed>>
memVars == <<memBase, memPool, memLive, memContexts, memStarved>>
allVars == <<part, fbVars, utfVars, memVars>>

\* CSI with the bytes given.
CSI(s) == <<ESC, Key.open>> \o s
\* Two letters, one of them in the set of line drawing characters.
X == <<88>>
a == <<97>>

\* Text, lines and the sequences that move, scroll and edit it.
ScreenWords ==
    {a, X \o a \o X, <<10>>, <<13>>, <<8>>, <<9>>, <<ESC, Key.M>>, <<ESC, Key.D>>, <<ESC, Key.E>>,
     CSI(<<Key.H>>), CSI(<<51, Key.semi, 50, Key.H>>), CSI(<<50, Key.semi, 51, Key.r>>),
     CSI(<<49, Key.semi, 50, Key.r>>), CSI(<<51, Key.semi, 50, Key.r>>), CSI(<<52, Key.h>>),
     CSI(<<Key.ask, 55, Key.l>>),
     CSI(<<Key.ask, 54, Key.h>>), CSI(<<Key.ask, 50, 53, Key.l>>), CSI(<<57, Key.b>>),
     CSI(<<Key.A>>), CSI(<<Key.L>>), CSI(<<50, Key.J>>)}

ModeWords ==
    {a, X, CSI(<<55, Key.m>>), CSI(<<50, 55, Key.m>>), CSI(<<Key.m>>), CSI(<<49, Key.m>>),
     CSI(<<53, Key.m>>), CSI(<<51, 49, Key.semi, 52, 50, Key.m>>),
     CSI(<<51, 56, Key.semi, 53, Key.semi, 57, Key.m>>),
     CSI(<<52, 56, Key.semi, 50, Key.semi, 49, Key.semi, 50, Key.semi, 51, Key.m>>),
     CSI(<<51, 57, Key.semi, 52, 57, Key.m>>), CSI(<<57, 49, Key.semi, 49, 48, 49, Key.m>>),
     CSI(<<50, 50, Key.m>>), CSI(<<50, 53, Key.m>>), <<ESC, Key.n7>>, <<ESC, Key.n8>>,
     <<ESC, Key.c>>, CSI(<<Key.ask, 49, 48, 52, 57, Key.h>>),
     CSI(<<Key.ask, 49, 48, 52, 57, Key.l>>),
     CSI(<<Key.s>>), CSI(<<Key.u>>), <<10>>}

\* Single bytes: every boundary between two of them is one between two events; and
\* the start of a control sequence that soon runs out of parameters.
ByteWords ==
    {CSI(<<Key.semi, Key.semi, Key.semi>>)}
    \cup {<<b>> : b \in {ESC, Key.open, Key.close, Key.ask, Key.semi, Key.n9, Key.slash, Key.a,
                          Key.h, Key.lpar, SPACE, BEL, 10, CAN, 226, 130}}

Plain == {[fg |-> 7, fg_bright |-> FALSE, bg |-> 0, bg_bright |-> FALSE]}
Two == Plain \cup {[fg |-> 1, fg_bright |-> TRUE, bg |-> 4, bg_bright |-> TRUE]}

Screen == INSTANCE Framebuffer WITH
    Rows <- 3, Cols <- 2, MaxEsc <- 5, UINT32 <- 4095, OscSize <- 2, TabSize <- 1,
    Cp437Of <- Glyph, WidthOf <- Width, Screens <- {"usable"},
    screen <- fbScreen, driver_data <- fbData, registered <- fbRegistered,
    ctx <- fbCtx, calls <- fbCalls

\* The messages of a part, their colours, and how many there are.
PartWords == [text |-> ScreenWords, colours |-> ModeWords, bytes |-> ByteWords]
PartColours == [text |-> Plain, colours |-> Two, bytes |-> Plain]
PartEvents == [text |-> 3, colours |-> 3, bytes |-> 4]

-----------------------------------------------------------------------------
\* Letters, a control, and the bytes at the borders of every class of RFC 3629; with
\* 130 and 169 a character that has a glyph has overlong forms too.
BorderBytes == {0, 65, 127, 128, 130, 143, 144, 159, 160, 169, 191, 193, 194, 195, 223, 224,
                226, 237, 239, 240, 243, 244, 245}

Decoder == INSTANCE FlantermUtf8 WITH
    Rows <- 1, Cols <- 6, MaxEsc <- 2, UINT32 <- 4095, OscSize <- 2, TabSize <- 8,
    Cp437Of <- Glyph, WidthOf <- Width, Bytes <- BorderBytes, t <- utfCtx, fed <- utfFed

\* Sizes around those at which something changes: no cell fits, the limits of the
\* pool, the scales of the font; lines as long as they are wide, and longer.
Xrgb == [size |-> <<8, 8, 8>>, shift |-> <<16, 8, 0>>]
Mode(w, h, pitch, k) == [width |-> w, height |-> h, pitch |-> pitch, masks |-> k]
Drawable ==
    {Mode(w, h, w * 4, Xrgb) : w \in {10, 11, 1920, 1921, 2560, 5120},
                               h \in {17, 18, 1200, 1201, 1440, 2880}}
    \cup {Mode(w, h, w * 4 + 64, Xrgb) : w \in {11, 1921, 5120}, h \in {18, 1201, 2880}}
\* A line too short, one that is not a whole number of pixels, and formats that
\* have too few bits, channels of two sizes, or a channel beyond the word.
Undrawable ==
    {Mode(640, 480, 2556, Xrgb), Mode(640, 480, 2562, Xrgb)}
    \cup {Mode(640, 480, 2560, k) : k \in
        {[size |-> <<5, 5, 5>>, shift |-> <<10, 5, 0>>],
         [size |-> <<8, 9, 8>>, shift |-> <<17, 8, 0>>],
         [size |-> <<8, 8, 8>>, shift |-> <<25, 8, 0>>]}}
AllModes == Drawable \cup Undrawable

Memory == INSTANCE FlantermInit WITH
    POOL_SIZE <- 873000, ASPECT_WIDTH <- 16, ASPECT_HEIGHT <- 10,
    CTX <- 1112, CHAR <- 12, ITEM <- 32, PTR <- 8,
    Bases <- {0, 1, 8, 15}, Modes <- AllModes, Margins <- {0, 1, 5},
    Rotations <- {0, 90, 180, 270}, MaxCells <- 300,
    base <- memBase, pool <- memPool, live <- memLive, contexts <- memContexts,
    starved <- memStarved

ASSUME ScreenAssumption /\ Screen!ScreenAssumption

-----------------------------------------------------------------------------
AllInit ==
    /\ part \in {"text", "colours", "bytes", "utf8", "memory"}
    /\ Screen!Init /\ Decoder!Init
    /\ Memory!Init /\ (part # "memory" => memBase = 0)

AllNext ==
    \/ /\ part \in DOMAIN PartWords
       /\ Screen!Next(PartWords[part], PartColours[part], PartEvents[part])
       /\ UNCHANGED <<part, utfVars, memVars>>
    \/ part = "utf8" /\ Decoder!Next /\ UNCHANGED <<part, fbVars, memVars>>
    \/ part = "memory" /\ Memory!Next /\ UNCHANGED <<part, fbVars, utfVars>>

AllSpec == AllInit /\ [][AllNext]_allVars

-----------------------------------------------------------------------------
(* framebuffer_flush shows what was written, in its colours, and the       *)
(* colours of an event end with it.                                        *)
FlushShowsText ==
    /\ part \in {"text", "colours"} => Screen!FlushShowsText
    /\ part = "colours" => Screen!ColoursEnd

(* The sequences that edit, insert mode and scrolling change the cells     *)
(* they name and leave those outside the line or the region alone.         *)
SequencesEdit == part = "text" => Screen!SequencesEdit /\ Screen!WritesInPlace

(* A cancel brings the parser back to text from anywhere, and the next     *)
(* sequence is obeyed; after a cancelled private one, the next but one.    *)
CancelRecovers == part = "bytes" => Screen!CancelRecovers

(* flanterm_putchar decodes UTF-8 as RFC 3629 defines it, but for the      *)
(* sequences from F4 90 on.                                                *)
DecodesUtf8 == part = "utf8" => Decoder!DecodesUtf8

(* fb.c:116, "so that the default quick-start path always fits": a context *)
(* never fails for want of room in the pool, and none of its pixels is     *)
(* outside the framebuffer, however the screen is turned and scaled.       *)
ScreenFits == part = "memory" => Memory!PixelsInside /\ Memory!PoolSuffices
==============================================================================
