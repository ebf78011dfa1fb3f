----------------------------- MODULE FlantermInit -----------------------------
(***************************************************************************)
(* How a Flanterm context comes to be and where it draws                   *)
(* (flanterm_backends/fb.c): flanterm_fb_init with its built-in pool,      *)
(* flanterm_deinit, and the address of a glyph's pixel.  The kernel passes *)
(* no allocator, canvas, palette or font; any rotation is allowed here.    *)
(* A mode is the framebuffer the firmware has set up.                      *)
(***************************************************************************)
EXTENDS Integers, Sequences, FiniteSetsExt

CONSTANTS
    POOL_SIZE,       \* FLANTERM_FB_BUMP_ALLOC_POOL_SIZE
    ASPECT_WIDTH, ASPECT_HEIGHT,
    CTX, CHAR, ITEM, \* the sizes of the context, of a cell and of a queue item
    PTR,             \* and of a pointer
    Bases,           \* bump_alloc_pool & 0xf
    Modes,           \* [width, height, pitch, masks]: masks has a size and a shift per channel
    Margins,
    Rotations,       \* 0, 90, 180, 270
    MaxCells         \* bound on k of bump_pool_limits

VARIABLES
    base,      \* the pool's alignment
    pool,      \* [ptr, added]: bump_alloc_ptr, bump_alloc_base_offset_added
    live,      \* bump_allocated_instance
    contexts,  \* the contexts returned and not deinitialised, in order
    starved    \* the last call failed because bump_alloc returned NULL

vars == <<base, pool, live, contexts, starved>>

GLYPHS == 256
FONT_WIDTH == 9     \* 8 and a spacing of 1
FONT_HEIGHT == 16
Lower(a, b) == IF a < b THEN a ELSE b

Empty == [ptr |-> 0, added |-> FALSE]

bump_alloc(p, s) ==
    LET at == IF ~p.added /\ base # 0 THEN p.ptr + 16 - base ELSE p.ptr
        next == at + ((s + 15) \div 16) * 16
    IN  [p |-> [ptr |-> IF next > POOL_SIZE THEN at ELSE next, added |-> TRUE],
         ok |-> next <= POOL_SIZE]

\* The allocations of sizes s in turn, until one fails.
Allocate(p, s) ==
    LET f[k \in 0 .. Len(s)] == IF k = 0 THEN [p |-> p, ok |-> TRUE]
                                ELSE IF ~f[k - 1].ok THEN f[k - 1] ELSE bump_alloc(f[k - 1].p, s[k])
    IN  f[Len(s)]

Gcd(a, b) == Max({d \in 1 .. Lower(a, b) : a % d = 0 /\ b % d = 0})

\* A variant: the map's pointer is left out of what a cell costs.
LimitsWithoutMap ==
    LET fixed == CTX + GLYPHS * 16 + GLYPHS * 16 * 9 + 7 * 16
        cap == IF POOL_SIZE > fixed THEN (POOL_SIZE - fixed) \div (CHAR + ITEM) ELSE 0
        aw == ASPECT_WIDTH \div Gcd(ASPECT_WIDTH, ASPECT_HEIGHT)
        ah == ASPECT_HEIGHT \div Gcd(ASPECT_WIDTH, ASPECT_HEIGHT)
        over(k) == ((aw * k) \div 9) * ((ah * k) \div 16) > cap
        k == IF cap = 0 THEN 0 ELSE Min({j \in 0 .. MaxCells : over(j + 1)})
    IN  <<aw * k, ah * k>>

\* The largest size, in the aspect ratio, whose cells the pool can hold.
bump_pool_limits ==
    LET fixed == CTX + GLYPHS * 16 + GLYPHS * 16 * 9 + 7 * 16
        cap == IF POOL_SIZE > fixed THEN (POOL_SIZE - fixed) \div (CHAR + ITEM + PTR) ELSE 0
        aw == ASPECT_WIDTH \div Gcd(ASPECT_WIDTH, ASPECT_HEIGHT)
        ah == ASPECT_HEIGHT \div Gcd(ASPECT_WIDTH, ASPECT_HEIGHT)
        over(k) == ((aw * k) \div 9) * ((ah * k) \div 16) > cap
        k == IF cap = 0 THEN 0 ELSE Min({j \in 0 .. MaxCells : over(j + 1)})
    IN  <<aw * k, ah * k>>

Sideways(rot) == rot \in {90, 270}

\* The scale chosen for a screen of w by h.
AutoScale(w, h) ==
    IF w >= 3840 + 1280 /\ h >= 2160 + 720 THEN 4
    ELSE IF w >= 1920 + 640 /\ h >= 1080 + 360 THEN 2 ELSE 1

\* The offset in bytes that centres an area of wl by hl in one of w by h.
Centred(w, h, wl, hl, pitch, rot) ==
    IF Sideways(rot) THEN (((h \div 2) - (hl \div 2)) * 4) + (((w \div 2) - (wl \div 2)) * pitch)
    ELSE (((h \div 2) - (hl \div 2)) * pitch) + (((w \div 2) - (wl \div 2)) * 4)

\* The dimensions of the context for mode m: cells, their size, and where they are.
Geometry(m, margin, rot) ==
    LET w == IF Sideways(rot) THEN m.height ELSE m.width
        h == IF Sideways(rot) THEN m.width ELSE m.height
        s == AutoScale(w, h)
        wl == Lower(w, bump_pool_limits[1])
        hl == Lower(h, bump_pool_limits[2])
    IN  [mode |-> m, width |-> wl, height |-> hl, pitch |-> m.pitch, rotation |-> rot, scale |-> s,
         start |-> Centred(w, h, wl, hl, m.pitch, rot), glyph_width |-> FONT_WIDTH * s,
         glyph_height |-> FONT_HEIGHT * s, fits |-> margin * 2 < wl /\ margin * 2 < hl,
         cols |-> (wl - margin * 2) \div (FONT_WIDTH * s),
         rows |-> (hl - margin * 2) \div (FONT_HEIGHT * s),
         offset_x |-> margin + ((wl - margin * 2) % (FONT_WIDTH * s)) \div 2,
         offset_y |-> margin + ((hl - margin * 2) % (FONT_HEIGHT * s)) \div 2]

\* The pixel format can be drawn in: k has a size and a shift per channel.
MasksUsable(k) ==
    /\ k.size[1] >= 8
    /\ \A c \in 1 .. 3 : k.size[c] = k.size[1] /\ k.shift[c] + k.size[c] <= 32

\* What is turned away before anything is allocated.
Refused(m) ==
    m.pitch % 4 # 0 \/ m.pitch < m.width * 4 \/ ~MasksUsable(m.masks) \/ live

Init ==
    /\ base \in Bases /\ pool = Empty /\ live = FALSE
    /\ contexts = <<>> /\ starved = FALSE

\* The state after a call: a failure gives the pool back, unless it is that of the
\* context itself.
After(p, l, c, s) == [pool |-> p, live |-> l, contexts |-> c, starved |-> s]

Opened(m, margin, rot) ==
    LET Fails(starves) == After(Empty, live, contexts, starves)
        Grids(g, all) == IF all.ok THEN After(all.p, TRUE, Append(contexts, g), FALSE)
                         ELSE Fails(TRUE)
        Shape(g, head) ==
            IF ~head.ok THEN Fails(TRUE)
            ELSE IF ~g.fits \/ g.cols <= 0 \/ g.rows <= 0 THEN Fails(FALSE)
            ELSE Grids(g, Allocate(head.p, <<g.rows * g.cols * CHAR, g.rows * g.cols * ITEM,
                                             g.rows * g.cols * PTR>>))
        Font(own) ==
            IF ~own.ok THEN After(own.p, live, contexts, TRUE)
            ELSE Shape(Geometry(m, margin, rot),
                       Allocate(own.p, <<FONT_HEIGHT * GLYPHS, GLYPHS * FONT_HEIGHT * FONT_WIDTH>>))
    IN  IF Refused(m) THEN After(pool, live, contexts, FALSE) ELSE Font(bump_alloc(pool, CTX))

flanterm_fb_init(m, margin, rot) ==
    \E r \in {Opened(m, margin, rot)} :
        /\ pool' = r.pool /\ live' = r.live /\ contexts' = r.contexts /\ starved' = r.starved
        /\ UNCHANGED base

\* Without a _free: the pool is given back as a whole.
flanterm_fb_deinit ==
    /\ contexts # <<>>
    /\ pool' = IF live THEN Empty ELSE pool
    /\ live' = FALSE /\ contexts' = Tail(contexts) /\ starved' = FALSE
    /\ UNCHANGED base

Next ==
    \/ \E m \in Modes, d \in Margins, rot \in Rotations : flanterm_fb_init(m, d, rot)
    \/ flanterm_fb_deinit
Spec == Init /\ [][Next]_vars

-------------------------------------------------------------------------------
\* The word of the framebuffer in which pixel (gx, gy) of the glyph of cell (x, y) is.
plot_char_unscaled_uncanvas(g, x, y, gx, gy) ==
    LET X == g.offset_x + x * g.glyph_width
        Y == g.offset_y + y * g.glyph_height
        line == g.pitch \div 4
    IN  (g.start \div 4)
        + (IF g.rotation = 0 THEN X + Y * line + gy * line + gx
           ELSE IF g.rotation = 90 THEN (g.height - 1 - Y) + X * line - gy + gx * line
           ELSE IF g.rotation = 180
                THEN (g.width - 1 - X) + (g.height - 1 - Y) * line - gy * line - gx
           ELSE Y + (g.width - 1 - X) * line + gy - gx * line)

\* Pixel i of column fx of the font is drawn font_scale_x times.
plot_char_scaled_uncanvas(g, x, y, fx, i, gy) ==
    plot_char_unscaled_uncanvas(g, x, y, g.scale * fx + i, gy)

\* The word that full_refresh clears for pixel (x, y) of the area.
flanterm_fb_full_refresh(g, x, y) ==
    LET px == IF g.rotation = 0 THEN x ELSE IF g.rotation = 90 THEN g.height - 1 - y
              ELSE IF g.rotation = 180 THEN g.width - 1 - x ELSE y
        py == IF g.rotation = 0 THEN y ELSE IF g.rotation = 90 THEN x
              ELSE IF g.rotation = 180 THEN g.height - 1 - y ELSE g.width - 1 - x
    IN  g.start \div 4 + py * (g.pitch \div 4) + px

\* Every pixel of every cell, and of the area around them, is in the framebuffer
\* the firmware gave, and in its visible part, not in the bytes beyond the width
\* of a line: for every size, scale, margin and rotation, limited by the pool or
\* not.  The address is linear in each coordinate, so the corners are enough.
PixelsInside ==
    \A n \in 1 .. Len(contexts) :
        LET g == contexts[n]
            line == g.mode.pitch \div 4
            visible(at) == at >= 0 /\ at \div line < g.mode.height /\ at % line < g.mode.width
        IN  /\ \A x \in {0, g.width - 1}, y \in {0, g.height - 1} :
                   visible(flanterm_fb_full_refresh(g, x, y))
            /\ \A x \in {0, g.cols - 1}, y \in {0, g.rows - 1}, fx \in {0, FONT_WIDTH - 1},
                  i \in {0, g.scale - 1}, gy \in {0, g.glyph_height - 1} :
                   visible(plot_char_scaled_uncanvas(g, x, y, fx, i, gy))

\* "so that the default quick-start path always fits" (fb.c:116): with the limits
\* on its size a context never fails for want of room in the pool.
PoolSuffices == ~starved

===============================================================================
