------------------------------ MODULE Graphics ------------------------------
(* The drawing of graphics/graphics.c: a back buffer everything is drawn in, *)
(* the front buffer the screen shows, the clip rectangle, and the loops that *)
(* draw lines, outlines, circles, discs and text one set_pixel at a time.    *)
(* The buffers and the font are small; int has the range -IntMax-1..IntMax   *)
(* and wraps, as the kernel is built (-O0).  Nothing interleaves with a      *)
(* drawing: a loop in progress is `loop`, and the next call waits for it.    *)
EXTENDS Integers, Sequences, FiniteSets

CONSTANTS Width, Height,          \* of both buffers
          IntMax,                 \* the largest int
          FontWidth, FontHeight,  \* of a character
          Font,                   \* the lit pixels of each character
          Calls                   \* bound: a sequence of sets, the calls made first, second, ...

ASSUME GraphicsConstants ==
    /\ {Width, Height, FontWidth, FontHeight} \subseteq Nat \ {0}
    /\ IntMax \in Nat /\ Width < IntMax /\ Height < IntMax
    /\ \A char \in DOMAIN Font :
          /\ char \notin {"\n", "\t"}  \* the text's loop looks at those first
          /\ Font[char] \subseteq (0 .. FontWidth - 1) \X (0 .. FontHeight - 1)

VARIABLES pixels,  \* of the front and the back buffer
          clip,    \* the clip rectangle of the back buffer
          loop,    \* the drawing loop in progress, or Idle
          call,    \* the call in progress or the last one
          made,    \* how many calls were made
          drawn,   \* the pixels this call has tried to set
          asked    \* the rectangle the caller last asked to clip to

vars == <<pixels, clip, loop, call, made, drawn, asked>>

Int32 == -IntMax - 1 .. IntMax
Wrap(n) == ((n + IntMax + 1) % (2 * IntMax + 2)) - IntMax - 1
Abs(n) == IF n < 0 THEN -n ELSE n
Least(a, b) == IF a < b THEN a ELSE b
Greatest(a, b) == IF a > b THEN a ELSE b

Area == (0 .. Width - 1) \X (0 .. Height - 1)
Rect(x, y, w, h) == [x |-> x, y |-> y, width |-> w, height |-> h]
WholeSurface == Rect(0, 0, Width, Height)
NoRect == [none |-> TRUE]
Idle == [kind |-> "idle"]

----------------------------------------------------------------------------
(* Colors: packed 8:8:8 in the interface, <<red, green, blue>> of 5:6:5 bits *)
(* in a buffer.                                                              *)
Colors == (0 .. 31) \X (0 .. 63) \X (0 .. 31)
Byte(n) == n % 256
Upper(n) == n \div 256
graphics_rgb_to_color(r, g, b) == <<r \div 8, g \div 4, b \div 8>>
ColorOf(rgb) == graphics_rgb_to_color(Byte(Upper(Upper(rgb))), Byte(Upper(rgb)), Byte(rgb))
graphics_color_to_rgb(c) ==
    <<8 * c[1] + c[1] \div 4, 4 * c[2] + c[2] \div 16, 8 * c[3] + c[3] \div 4>>
graphics_blend_colors(src, dst, alpha) ==
    LET s == graphics_color_to_rgb(src)
        d == graphics_color_to_rgb(dst)
        mix(i) == (s[i] * alpha + d[i] * (255 - alpha)) \div 256
    IN  CASE alpha = 255 -> src
          [] alpha = 0   -> dst
          [] OTHER       -> graphics_rgb_to_color(mix(1), mix(2), mix(3))
Black == <<0, 0, 0>>

----------------------------------------------------------------------------
(* Where a pixel may be set.                                                 *)
InBounds(p) == p[1] >= 0 /\ p[2] >= 0 /\ p[1] < Width /\ p[2] < Height
\* Seeded fault: the column behind the rectangle is visible.
VisibleOneMore(p) == /\ p[1] >= clip.x /\ p[2] >= clip.y
                     /\ p[1] <= Wrap(clip.x + clip.width) /\ p[2] < Wrap(clip.y + clip.height)
Visible(p) == /\ p[1] >= clip.x /\ p[2] >= clip.y
              /\ p[1] < Wrap(clip.x + clip.width) /\ p[2] < Wrap(clip.y + clip.height)

\* A store outside the buffer would add to what the buffer holds.
Stored(buffer, points, color) ==
    [p \in DOMAIN buffer \cup points |-> IF p \in points THEN color ELSE buffer[p]]

\* Seeded fault: only the clip rectangle is looked at.
SetPixelUnbounded(p) == {q \in {p} : Visible(q)}
graphics_set_pixel(p) == {q \in {p} : InBounds(q) /\ Visible(q)}
SetPixels(points, color) ==
    pixels' = [pixels EXCEPT !.back = Stored(@, UNION {graphics_set_pixel(p) : p \in points}, color)]

\* The rows and columns a rectangle has on the surface.
Columns(r) == Greatest(0, r.x) .. Least(Width, Wrap(r.x + r.width)) - 1
Rows(r) == Greatest(0, r.y) .. Least(Height, Wrap(r.y + r.height)) - 1

ClipOf(r) ==
    LET x == Greatest(0, r.x)
        y == Greatest(0, r.y)
    IN  Rect(x, y, IF Wrap(r.x + r.width) > Width THEN Wrap(Width - x) ELSE r.width,
                   IF Wrap(r.y + r.height) > Height THEN Wrap(Height - y) ELSE r.height)

----------------------------------------------------------------------------
Init ==
    /\ pixels = [front |-> [p \in Area |-> Black], back |-> [p \in Area |-> Black]]
    /\ clip = WholeSurface
    /\ loop = Idle
    /\ call = [op |-> "none"]
    /\ made = 0
    /\ drawn = {}
    /\ asked = NoRect

\* A call c of the caller begins.
Enter(c) ==
    /\ loop = Idle
    /\ made < Len(Calls)
    /\ call' = c
    /\ made' = made + 1

graphics_set_clip_rect(c) ==
    /\ Enter(c)
    /\ clip' = IF c.rect = NoRect THEN WholeSurface ELSE ClipOf(c.rect)
    /\ asked' = c.rect
    /\ drawn' = {}
    /\ UNCHANGED <<pixels, loop>>

DrawPixel(c, p, color) ==
    /\ Enter(c)
    /\ SetPixels({p}, color)
    /\ drawn' = {p}
    /\ UNCHANGED <<clip, loop, asked>>

graphics_fill_rect(c, r, color) ==
    LET points == Columns(r) \X Rows(r)
    IN  /\ Enter(c)
        /\ pixels' = [pixels EXCEPT !.back = Stored(@, points, color)]
        /\ drawn' = points
        /\ UNCHANGED <<clip, loop, asked>>

graphics_clear_surface(c, color) ==
    /\ Enter(c)
    /\ pixels' = [pixels EXCEPT !.back = Stored(@, Area, color)]
    /\ drawn' = Area
    /\ UNCHANGED <<clip, loop, asked>>

graphics_present(c) ==
    /\ Enter(c)
    /\ pixels' = [pixels EXCEPT !.front = pixels.back]
    /\ drawn' = {}
    /\ UNCHANGED <<clip, loop, asked>>

\* A call that draws nothing: refused, or one that only measures.
Nothing(c) ==
    /\ Enter(c)
    /\ drawn' = {}
    /\ UNCHANGED <<pixels, clip, loop, asked>>

\* A call whose loop begins with the state l.
Loop(c, l) ==
    /\ Enter(c)
    /\ loop' = l
    /\ drawn' = {}
    /\ UNCHANGED <<pixels, clip, asked>>

----------------------------------------------------------------------------
(* Lines, and outlines as four of them.                                      *)
LineFrom(a, b, color, rest) ==
    LET dx == Wrap(Abs(Wrap(b[1] - a[1])))
        dy == Wrap(Abs(Wrap(b[2] - a[2])))
    IN  [kind |-> "line", x |-> a[1], y |-> a[2], err |-> Wrap(dx - dy), dx |-> dx, dy |-> dy,
         to |-> b, sx |-> IF a[1] < b[1] THEN 1 ELSE -1, sy |-> IF a[2] < b[2] THEN 1 ELSE -1,
         color |-> color, rest |-> rest]

\* One pixel across, down or both, and the error that goes with it.
Move(l, across, down) ==
    [l EXCEPT !.x = IF across THEN Wrap(@ + l.sx) ELSE @,
              !.y = IF down THEN Wrap(@ + l.sy) ELSE @,
              !.err = Wrap(@ - (IF across THEN l.dy ELSE 0) + (IF down THEN l.dx ELSE 0))]

\* Seeded fault: no step goes across and down.
LineStepOneWay(l) ==
    LET e2 == Wrap(2 * l.err) IN Move(l, e2 > Wrap(-l.dy), e2 <= Wrap(-l.dy))
\* Seeded fault: the error is compared with dy instead of -dy.
LineStepSignLost(l) ==
    LET e2 == Wrap(2 * l.err) IN Move(l, e2 > l.dy, e2 < l.dx)
LineStep(l) ==
    LET e2 == Wrap(2 * l.err) IN Move(l, e2 > Wrap(-l.dy), e2 < l.dx)

graphics_draw_line(c, from, to, color) == Loop(c, LineFrom(from, to, color, <<>>))

Corners(r) ==
    LET right == Wrap(r.x + r.width - 1)
        bottom == Wrap(r.y + r.height - 1)
    IN  <<<<r.x, r.y>>, <<right, r.y>>, <<right, bottom>>, <<r.x, bottom>>, <<r.x, r.y>>>>

graphics_draw_rect(c, r, color) ==
    LET at == Corners(r)
    IN  Loop(c, LineFrom(at[1], at[2], color, SubSeq(at, 2, 5)))

\* The line that follows l, of the lines along the points l.rest.
NextLine(l) ==
    IF Len(l.rest) < 2 THEN Idle ELSE LineFrom(l.rest[1], l.rest[2], l.color, Tail(l.rest))

LineIteration ==
    /\ loop.kind = "line"
    /\ SetPixels({<<loop.x, loop.y>>}, loop.color)
    /\ drawn' = drawn \cup {<<loop.x, loop.y>>}
    /\ loop' = IF <<loop.x, loop.y>> = loop.to THEN NextLine(loop) ELSE LineStep(loop)
    /\ UNCHANGED <<clip, call, made, asked>>

----------------------------------------------------------------------------
(* Circles and discs.                                                        *)
graphics_draw_circle(c, center, radius, color) ==
    Loop(c, [kind |-> "circle", x |-> 0, y |-> radius, d |-> Wrap(3 - 2 * radius),
             center |-> center, color |-> color])

Octants(l) ==
    {<<Wrap(l.center[1] + v[1]), Wrap(l.center[2] + v[2])>> :
        v \in UNION {{<<i * l.x, j * l.y>>, <<i * l.y, j * l.x>>} : i, j \in {-1, 1}}}

CircleStep(l) ==
    LET x == Wrap(l.x + 1)
        y == IF l.d > 0 THEN l.y - 1 ELSE l.y
    IN  [l EXCEPT !.x = x, !.y = y,
                  !.d = Wrap(@ + (IF @ > 0 THEN 4 * (x - y) + 10 ELSE 4 * x + 6))]

CircleIteration ==
    /\ loop.kind = "circle"
    /\ IF loop.y >= loop.x
       THEN /\ SetPixels(Octants(loop), loop.color)
            /\ drawn' = drawn \cup Octants(loop)
            /\ loop' = CircleStep(loop)
       ELSE loop' = Idle /\ UNCHANGED <<pixels, drawn>>
    /\ UNCHANGED <<clip, call, made, asked>>

graphics_fill_circle(c, center, radius, color) ==
    Loop(c, [kind |-> "disc", y |-> Wrap(-radius), radius |-> radius, center |-> center, color |-> color])

\* The integer part of a square root, as fpu_sqrt is truncated to int: of a number below
\* zero, which overflow can make, the processor's "integer indefinite".
Sqrt(n) ==
    IF n < 0 THEN -IntMax - 1 ELSE CHOOSE k \in 0 .. n : k * k <= n /\ n < (k + 1) * (k + 1)

Scanline(l) ==
    LET extent == Sqrt(Wrap(l.radius * l.radius - l.y * l.y))
    IN  {<<Wrap(l.center[1] + x), Wrap(l.center[2] + l.y)>> : x \in Wrap(-extent) .. extent}

DiscIteration ==
    /\ loop.kind = "disc"
    /\ IF loop.y <= loop.radius
       THEN /\ SetPixels(Scanline(loop), loop.color)
            /\ drawn' = drawn \cup Scanline(loop)
            /\ loop' = [loop EXCEPT !.y = Wrap(@ + 1)]
       ELSE loop' = Idle /\ UNCHANGED <<pixels, drawn>>
    /\ UNCHANGED <<clip, call, made, asked>>

----------------------------------------------------------------------------
(* Text: characters of the font, "\n" and "\t".                              *)
Advance(char, scale) == FontWidth * scale * (IF char = "\t" THEN 4 ELSE 1)

graphics_draw_text_scaled(c, text, at, color, scale) ==
    IF scale < 1 THEN Nothing(c)
    ELSE Loop(c, [kind |-> "text", text |-> text, x |-> at[1], y |-> at[2], left |-> at[1],
                  scale |-> scale, color |-> color])

Block(l, lit) ==
    {<<Wrap(l.x + lit[1] * l.scale + sx), Wrap(l.y + lit[2] * l.scale + sy)>> :
        sx, sy \in 0 .. l.scale - 1}
CharPixels(l, char) ==
    IF char \in {"\n", "\t"} THEN {} ELSE UNION {Block(l, lit) : lit \in Font[char]}

CharIteration ==
    /\ loop.kind = "text"
    /\ IF loop.text # <<>>
       THEN LET char == Head(loop.text)
            IN  /\ SetPixels(CharPixels(loop, char), loop.color)
                /\ drawn' = drawn \cup CharPixels(loop, char)
                /\ loop' = [loop EXCEPT
                       !.text = Tail(@),
                       !.x = IF char = "\n" THEN loop.left ELSE Wrap(@ + Advance(char, loop.scale)),
                       !.y = IF char = "\n" THEN Wrap(@ + FontHeight * loop.scale) ELSE @]
       ELSE loop' = Idle /\ UNCHANGED <<pixels, drawn>>
    /\ UNCHANGED <<clip, call, made, asked>>

\* The width of each line of text so far, and the widest.
WidthAfter(w, char, scale) ==
    IF char = "\n" THEN [widest |-> Greatest(w.widest, w.current), current |-> 0]
                   ELSE [w EXCEPT !.current = Wrap(@ + Advance(char, scale))]
Widths(text, scale) ==
    LET after[n \in 0 .. Len(text)] ==
            IF n = 0 THEN [widest |-> 0, current |-> 0] ELSE WidthAfter(after[n - 1], text[n], scale)
    IN  after
graphics_text_width(text, scale) ==
    LET w == Widths(text, scale)[Len(text)]
    IN  IF scale < 1 THEN 0 ELSE Greatest(w.widest, w.current)
graphics_text_height(scale) == Wrap(FontHeight * scale)

----------------------------------------------------------------------------
(* Blits: a rectangle of a buffer copied, or blended, onto the back buffer,  *)
(* row by row and pixel by pixel; the source may be the back buffer itself.  *)
Source(c) == IF c.rect = NoRect THEN WholeSurface ELSE c.rect

\* The pixels in columns x1..x2 and rows y1..y2, in the order of the copy.
RasterOrder(x1, x2, y1, y2) ==
    LET n == Greatest(0, x2 - x1 + 1)
    IN  [i \in 1 .. n * Greatest(0, y2 - y1 + 1) |-> <<x1 + ((i - 1) % n), y1 + ((i - 1) \div n)>>]

\* The blit compares with the rectangle's ends as they wrap, the blend pixel by pixel.
BlitOrder(r) ==
    RasterOrder(Greatest(0, r.x), Least(Width, Wrap(r.x + r.width)) - 1,
                Greatest(0, r.y), Least(Height, Wrap(r.y + r.height)) - 1)
BlendOrder(r) ==
    RasterOrder(Greatest(0, r.x), Least(Width, r.x + r.width) - 1,
                Greatest(0, r.y), Least(Height, r.y + r.height) - 1)

\* Seeded fault: the clamped source is put where the rectangle's corner belongs.
TargetOfClamped(p, r, to) ==
    <<Wrap(to[1] + p[1] - Greatest(0, r.x)), Wrap(to[2] + p[2] - Greatest(0, r.y))>>
Target(p, r, to) == <<Wrap(to[1] + Wrap(p[1] - r.x)), Wrap(to[2] + Wrap(p[2] - r.y))>>

\* The buffers b once their pixel p is copied,
CopiedPixel(b, p, r, to, src, alpha) ==
    LET q == Target(p, r, to)
        color == graphics_blend_colors(b[src][p], b.back[q], alpha)
    IN  IF InBounds(q) THEN [b EXCEPT !.back = Stored(@, {q}, color)] ELSE b

\* and after each pixel of the order.
Copies(order, r, to, src, alpha) ==
    LET after[n \in 0 .. Len(order)] ==
            IF n = 0 THEN pixels ELSE CopiedPixel(after[n - 1], order[n], r, to, src, alpha)
    IN  after
Copied(order, r, to, src, alpha) == Copies(order, r, to, src, alpha)[Len(order)]

\* A plain copy is the blend with nothing of what was there.
graphics_blit_surface(c) ==
    /\ Enter(c)
    /\ pixels' = Copied(BlitOrder(Source(c)), Source(c), c.to, c.src, 255)
    /\ drawn' = {}
    /\ UNCHANGED <<clip, loop, asked>>

graphics_blit_alpha(c) ==
    /\ Enter(c)
    /\ pixels' = Copied(BlendOrder(Source(c)), Source(c), c.to, c.src, c.alpha)
    /\ drawn' = {}
    /\ UNCHANGED <<clip, loop, asked>>

Iteration == LineIteration \/ CircleIteration \/ DiscIteration \/ CharIteration
=============================================================================
