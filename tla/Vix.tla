-------------------------------- MODULE Vix --------------------------------
(* The drawing system calls: a program calls a function of its library, the  *)
(* library puts the arguments in registers or on the stack, the kernel's     *)
(* command takes them from there and draws.  `call` is what the program      *)
(* asked for, so the properties compare what is on the screen with that.     *)
(* Whose memory a text pointer leads to is not this module's subject: Texts  *)
(* is what the program has at its addresses.                                 *)
EXTENDS Graphics

CONSTANTS Texts,      \* the strings of the program, by address
          LowMemory,  \* the string found at any other address
          Stale       \* what the stack may hold above the arguments of a call

Points == Int32 \X Int32
Rects == [x : Int32, y : Int32, width : Int32, height : Int32]
Chars == DOMAIN Font \cup {"\n", "\t"}

\* What a program or, of the last three, the kernel may ask for.
Asking ==
    [op : {"pixel"}, at : Points, color : Nat]
    \cup [op : {"line"}, from : Points, to : Points, color : Nat]
    \cup [op : {"rect", "fill"}, rect : Rects, color : Nat]
    \cup [op : {"clear"}, color : Nat]
    \cup [op : {"present", "putchar"}]
    \cup [op : {"circle", "disc"}, at : Points, radius : Int32, color : Nat]
    \cup [op : {"text"}, text : Nat, at : Points, color : Nat]
    \cup [op : {"scaled", "print"}, text : Nat, at : Points, color : Nat, scale : Int32]
    \cup [op : {"width"}, text : Nat, scale : Int32]
    \cup [op : {"height"}, scale : Int32]
    \cup [op : {"clip"}, rect : Rects \cup {NoRect}]
    \cup [op : {"blit"}, src : {"front", "back"}, rect : Rects \cup {NoRect}, to : Points]
    \cup [op : {"alpha"}, src : {"front", "back"}, rect : Rects \cup {NoRect}, to : Points, alpha : 0 .. 255]

ASSUME VixConstants ==
    /\ Calls \in Seq(SUBSET Asking)
    /\ \A address \in DOMAIN Texts : Texts[address] \in Seq(Chars)
    /\ LowMemory \in Seq(Chars) /\ Stale \subseteq Int32

VARIABLE result       \* eax as the last command left it

vixVars == <<vars, result>>

VixInit == Init /\ result = 0

\* The registers as int 0x80 finds them; those a stub does not set are 0.
Frame(eax, ebx, ecx, edx, esi, edi) ==
    [eax |-> eax, ebx |-> ebx, ecx |-> ecx, edx |-> edx, esi |-> esi, edi |-> edi]

vix_draw_pixel(c) == Frame(11, c.at[1], c.at[2], c.color, 0, 0)
vix_draw_rect(c) == Frame(12, c.rect.x, c.rect.y, c.rect.width, c.rect.height, c.color)
vix_fill_rect(c) == Frame(13, c.rect.x, c.rect.y, c.rect.width, c.rect.height, c.color)
vix_clear_screen(c) == Frame(14, c.color, 0, 0, 0, 0)
vix_present_frame(c) == Frame(15, 0, 0, 0, 0, 0)
vix_draw_line(c) == Frame(17, c.from[1], c.from[2], c.to[1], c.to[2], c.color)
vix_draw_circle(c) == Frame(18, c.at[1], c.at[2], c.radius, c.color, 0)
vix_fill_circle(c) == Frame(19, c.at[1], c.at[2], c.radius, c.color, 0)
vix_draw_text(c) == Frame(20, c.text, c.at[1], c.at[2], c.color, 0)
vix_draw_text_scaled(c) == Frame(21, c.text, c.at[1], c.at[2], c.color, c.scale)
vix_text_width(c) == Frame(22, c.text, c.scale, 0, 0, 0)
vix_text_height(c) == Frame(23, c.scale, 0, 0, 0, 0)

----------------------------------------------------------------------------
(* The commands; each takes the program's call c to hand it on as `call`.    *)
TextAt(pointer) == IF pointer \in DOMAIN Texts THEN Texts[pointer] ELSE LowMemory
RectIn(f) == Rect(f.ebx, f.ecx, f.edx, f.esi)

command11_draw_pixel(c) ==
    LET f == vix_draw_pixel(c)
    IN  c.op = "pixel" /\ DrawPixel(c, <<f.ebx, f.ecx>>, ColorOf(f.edx)) /\ result' = 0

command12_draw_rect(c) ==
    LET f == vix_draw_rect(c)
    IN  c.op = "rect" /\ graphics_draw_rect(c, RectIn(f), ColorOf(f.edi)) /\ result' = 0

command13_fill_rect(c) ==
    LET f == vix_fill_rect(c)
    IN  c.op = "fill" /\ graphics_fill_rect(c, RectIn(f), ColorOf(f.edi)) /\ result' = 0

command14_clear_screen(c) ==
    LET f == vix_clear_screen(c)
    IN  c.op = "clear" /\ graphics_clear_surface(c, ColorOf(f.ebx)) /\ result' = 0

command15_present_frame(c) ==
    c.op = "present" /\ graphics_present(c) /\ result' = 0

command17_draw_line(c) ==
    LET f == vix_draw_line(c)
    IN  /\ c.op = "line" /\ result' = 0
        /\ graphics_draw_line(c, <<f.ebx, f.ecx>>, <<f.edx, f.esi>>, ColorOf(f.edi))

command18_draw_circle(c) ==
    LET f == vix_draw_circle(c)
    IN  /\ c.op = "circle" /\ result' = 0
        /\ graphics_draw_circle(c, <<f.ebx, f.ecx>>, f.edx, ColorOf(f.esi))

command19_fill_circle(c) ==
    LET f == vix_fill_circle(c)
    IN  /\ c.op = "disc" /\ result' = 0
        /\ graphics_fill_circle(c, <<f.ebx, f.ecx>>, f.edx, ColorOf(f.esi))

command20_draw_text(c) ==
    LET f == vix_draw_text(c)
    IN  /\ c.op = "text"
        /\ IF f.ebx = 0 THEN Nothing(c) /\ result' = -1
           ELSE /\ graphics_draw_text_scaled(c, TextAt(f.ebx), <<f.ecx, f.edx>>, ColorOf(f.esi), 1)
                /\ result' = 0

command21_draw_text_scaled(c) ==
    LET f == vix_draw_text_scaled(c)
    IN  /\ c.op = "scaled"
        /\ IF f.ebx = 0 \/ f.edi <= 0 THEN Nothing(c) /\ result' = -1
           ELSE /\ graphics_draw_text_scaled(c, TextAt(f.ebx), <<f.ecx, f.edx>>, ColorOf(f.esi), f.edi)
                /\ result' = 0

command22_text_width(c) ==
    LET f == vix_text_width(c)
    IN  /\ c.op = "width" /\ Nothing(c)
        /\ result' = IF f.ebx = 0 \/ f.ecx <= 0 THEN -1 ELSE graphics_text_width(TextAt(f.ebx), f.ecx)

command23_text_height(c) ==
    LET f == vix_text_height(c)
    IN  /\ c.op = "height" /\ Nothing(c)
        /\ result' = IF f.ebx <= 0 THEN -1 ELSE graphics_text_height(f.ebx)

\* vios_print pushes [ebp+36] down to [ebp+12] of its frame; its caller's arguments
\* are at [ebp+8] and up, after the saved ebp and the return address.
vios_print(c, above) ==
    LET frame == <<0, 0, c.text, c.at[1], c.at[2], Byte(Upper(Upper(c.color))), Byte(Upper(c.color)),
                   Byte(c.color), c.scale, above>>
    IN  [i \in 0 .. 6 |-> frame[i + 4]]

command1_print(c) ==
    \E above \in Stale :
        LET item == vios_print(c, above)
        IN  /\ c.op = "print" /\ result' = 0
            /\ graphics_draw_text_scaled(c, TextAt(item[0]), <<item[1], item[2]>>,
                   graphics_rgb_to_color(item[3] % 256, item[4] % 256, item[5] % 256), item[6])

\* The stub has no frame of its own, so the character is any; the command's comma operators
\* discard what is on the stack for the numbers of the arguments.
command3_putchar(c) ==
    \E text \in {<<>>} \cup {<<char>> : char \in DOMAIN Font} :
        /\ c.op = "putchar" /\ result' = 0
        /\ graphics_draw_text_scaled(c, text, <<1, 2>>, graphics_rgb_to_color(3, 4, 5), 6)

\* What only the kernel can call.
KernelCall(c) ==
    /\ \/ c.op = "clip" /\ graphics_set_clip_rect(c)
       \/ c.op = "blit" /\ graphics_blit_surface(c)
       \/ c.op = "alpha" /\ graphics_blit_alpha(c)
    /\ UNCHANGED result

Call(c) ==
    \/ command1_print(c)       \/ command3_putchar(c)   \/ command11_draw_pixel(c) \/ command12_draw_rect(c)
    \/ command13_fill_rect(c)  \/ command14_clear_screen(c) \/ command15_present_frame(c)
    \/ command17_draw_line(c)  \/ command18_draw_circle(c) \/ command19_fill_circle(c)
    \/ command20_draw_text(c)  \/ command21_draw_text_scaled(c)
    \/ command22_text_width(c) \/ command23_text_height(c)
    \/ KernelCall(c)

Draw == Iteration /\ UNCHANGED result

VixNext == Draw \/ (made < Len(Calls) /\ \E c \in Calls[made + 1] : Call(c))

\* The kernel runs a command to its end before anything else.
VixSpec == VixInit /\ [][VixNext]_vixVars /\ WF_vixVars(Draw)
----------------------------------------------------------------------------
(* What a finished call must have drawn.                                     *)
Finished == loop = Idle /\ made > 0
SquareOf(n) == n * n
Apart(p, q) == SquareOf(p[1] - q[1]) + SquareOf(p[2] - q[2])
Span(a, b, i) == Least(a[i], b[i]) .. Greatest(a[i], b[i])
Within(p, r) == /\ p[1] >= r.x /\ p[1] < r.x + r.width
                /\ p[2] >= r.y /\ p[2] < r.y + r.height
Fits(r) == {r.x + r.width, r.y + r.height} \subseteq Int32

\* One pixel for each step along the longer side, each within half a pixel of the line.
IsLine(S, a, b) ==
    LET dx == b[1] - a[1]
        dy == b[2] - a[2]
        long == IF Abs(dx) >= Abs(dy) THEN 1 ELSE 2
        off(p) == Abs((p[1] - a[1]) * dy - (p[2] - a[2]) * dx)
    IN  /\ S \subseteq Span(a, b, 1) \X Span(a, b, 2)
        /\ {a, b} \subseteq S
        /\ Cardinality(S) = Greatest(Abs(dx), Abs(dy)) + 1
        /\ {p[long] : p \in S} = Span(a, b, long)
        /\ \A p \in S : 2 * off(p) <= Greatest(Abs(dx), Abs(dy))

IsOutline(S, r) ==
    S = {p \in (r.x .. r.x + r.width - 1) \X (r.y .. r.y + r.height - 1) :
            \/ p[1] \in {r.x, r.x + r.width - 1}
            \/ p[2] \in {r.y, r.y + r.height - 1}}

\* A ring without gaps, at most a pixel and a half inside the circle and half a pixel outside.
IsCircle(S, center, radius) ==
    /\ <<center[1], center[2] + radius>> \in S
    /\ \A p \in S :
          /\ 4 * Apart(p, center) < SquareOf(2 * radius + 1)
          /\ radius > 1 => 4 * Apart(p, center) > SquareOf(2 * radius - 3)
          /\ radius > 0 => Cardinality({q \in S : Apart(p, q) \in {1, 2}}) >= 2
          /\ {<<2 * center[1] - p[1], p[2]>>, <<p[1], 2 * center[2] - p[2]>>} \subseteq S

IsDisc(S, center, radius) ==
    S = {p \in (center[1] - radius .. center[1] + radius) \X (center[2] - radius .. center[2] + radius) :
            Apart(p, center) <= SquareOf(radius)}

\* The row and the column of a text's n-th character, and its dot of the font under p.
Newlines(text, n) == {i \in 1 .. n - 1 : text[i] = "\n"}
SameLine(text, n) == {i \in 1 .. n - 1 : text[i] # "\n" /\ Newlines(text, i) = Newlines(text, n)}
Row(text, n) == Cardinality(Newlines(text, n))
Column(text, n) ==
    Cardinality(SameLine(text, n)) + 3 * Cardinality({i \in SameLine(text, n) : text[i] = "\t"})
Dot(text, at, scale, n, p) ==
    <<((p[1] - at[1]) \div scale) - Column(text, n) * FontWidth,
      ((p[2] - at[2]) \div scale) - Row(text, n) * FontHeight>>
Lit(text, at, scale, n, p) == text[n] \in DOMAIN Font /\ Dot(text, at, scale, n, p) \in Font[text[n]]

\* Each character's glyph, enlarged, in its row and column; and nothing beyond the width the
\* program can ask for.
TextBox(text, at, scale) ==
    Rect(at[1], at[2], 4 * FontWidth * scale * Len(text), FontHeight * scale * Len(text))
IsText(S, text, at, scale) ==
    LET box == TextBox(text, at, scale)
    IN  /\ S = {p \in (box.x .. box.x + box.width - 1) \X (box.y .. box.y + box.height - 1) :
                   \E n \in DOMAIN text : Lit(text, at, scale, n, p)}
        /\ \A p \in S : p[1] < at[1] + graphics_text_width(text, scale)

\* The loops reckon in ints: where the numbers below are not, something else is drawn.
Longer(a, b) == Greatest(Abs(b[1] - a[1]), Abs(b[2] - a[2]))
Around(center, radius) == Fits(Rect(center[1] - radius, center[2] - radius, 0, 0))
                          /\ Fits(Rect(center[1], center[2], radius, radius))
TextFits(text, at, scale) == Fits(TextBox(text, at, scale)) /\ Fits(TextBox(text, <<0, 0>>, scale))

ShapeOfCall ==
    CASE call.op = "pixel" -> drawn = {call.at}
      [] call.op = "line" /\ 3 * Longer(call.from, call.to) <= IntMax ->
            IsLine(drawn, call.from, call.to)
      [] call.op = "rect" /\ call.rect.width > 0 /\ call.rect.height > 0 /\ Fits(call.rect)
            /\ 3 * Greatest(call.rect.width, call.rect.height) <= IntMax -> IsOutline(drawn, call.rect)
      [] call.op = "fill" /\ Fits(call.rect) -> drawn = {p \in Area : Within(p, call.rect)}
      [] call.op = "circle" /\ call.radius >= 0 /\ 4 * call.radius + 64 <= IntMax
            /\ Around(call.at, call.radius) -> IsCircle(drawn, call.at, call.radius)
      [] call.op = "disc" /\ SquareOf(call.radius) <= IntMax /\ Around(call.at, call.radius) ->
            IsDisc(drawn, call.at, call.radius)
      [] call.op = "text" /\ call.text # 0 /\ TextFits(TextAt(call.text), call.at, 1) ->
            IsText(drawn, TextAt(call.text), call.at, 1)
      [] call.op = "scaled" /\ result = 0 /\ TextFits(TextAt(call.text), call.at, call.scale) ->
            IsText(drawn, TextAt(call.text), call.at, call.scale)
      [] OTHER -> TRUE

\* Clipping loses nothing: a pixel the caller's rectangle has is set.
ShownInsideClip ==
    (call.op \notin {"print", "putchar"} /\ drawn # {} /\ (asked = NoRect \/ Fits(asked))) =>
        \A p \in drawn \cap Area :
            (asked = NoRect \/ Within(p, asked)) => pixels.back[p] = ColorOf(call.color)

(* The pixels a program's call sets are those of the shape it asked for: a   *)
(* line is a path within half a pixel, a rectangle its border or its inside, *)
(* a circle a closed ring, a disc and a text exactly themselves, whatever    *)
(* lies off the screen or outside the clip rectangle (graphics.c:385-535,    *)
(* 722-769, through vios.c); and of them the caller sees what its clip       *)
(* rectangle has.  A present shows what was drawn.                           *)
DrawsTheShape ==
    Finished => ShapeOfCall /\ ShownInsideClip /\ (call.op = "present" => pixels.front = pixels.back)

(* The buffers keep exactly the pixels of the screen: no drawing stores      *)
(* outside them, whatever its arguments and the clip rectangle are, which    *)
(* may be wider than the screen or have no width (graphics.c:385-397, 634).  *)
VixTypeOK ==
    /\ pixels \in [{"front", "back"} -> [Area -> (0 .. 31) \X (0 .. 63) \X (0 .. 31)]]
    /\ {clip.x, clip.y} \subseteq 0 .. IntMax
    /\ {clip.width, clip.height} \subseteq Int32
    /\ result \in Int32

(* No pixel outside the rectangle the caller last clipped to changes by a    *)
(* drawing made of set_pixel, until the next one is set (fill_rect, clear    *)
(* and blits do not look at it; one that starts left of or above the surface *)
(* keeps its size and reaches further right and down than was asked)         *)
(* (graphics.c:45-53, 385-397, 634-655).                                     *)
ClipHonoured ==
    [][(call'.op \notin {"fill", "clear", "blit", "alpha", "clip"}
          /\ asked # NoRect /\ asked.x >= 0 /\ asked.y >= 0) =>
        \A p \in Area : pixels'.back[p] # pixels.back[p] => Within(p, asked)]_vixVars

\* The pixel of the source that comes to q, and whether there is one.
From(c, q) == <<q[1] - c.to[1] + Source(c).x, q[2] - c.to[2] + Source(c).y>>
Placed(c, q) == From(c, q) \in Area /\ Within(From(c, q), Source(c))
ReadsBeforeWriting(c) ==
    \/ c.src = "front" \/ c.to[2] < Source(c).y
    \/ c.to[2] = Source(c).y /\ c.to[1] <= Source(c).x

CopiedByBlit(c) ==
    pixels'.back = [q \in Area |-> IF Placed(c, q) THEN pixels[c.src][From(c, q)] ELSE pixels.back[q]]

\* Each channel lies between the two it mixes, or below them by the rounding of one level.
MixedByBlend(c) ==
    \A q \in Area :
        IF Placed(c, q)
        THEN \A i \in 1 .. 3 :
                LET from == pixels[c.src][From(c, q)][i]
                    to == pixels.back[q][i]
                    mixed == pixels'.back[q][i]
                IN  /\ mixed <= Greatest(from, to) /\ mixed >= Least(from, to) - 1
                    /\ c.alpha = 0 => mixed = to
                    /\ c.alpha = 255 => mixed = from
        ELSE pixels'.back[q] = pixels.back[q]

(* A blit is the copy of the source as it was, pixel by pixel, for any       *)
(* rectangle on or off the source and the surface, and a blend brightens     *)
(* nothing and darkens by one level at most (graphics.c:537-566, 603-630):   *)
(* within one buffer only if they do not go down or right, where the loop    *)
(* would read what it has already written.                                   *)
BlitsAsAsked ==
    [][(made' # made /\ call'.op \in {"blit", "alpha"} /\ Fits(Source(call'))
          /\ ReadsBeforeWriting(call')) =>
        IF call'.op = "blit" THEN CopiedByBlit(call') ELSE MixedByBlend(call')]_vixVars

\* The sums of a loop that ends by meeting a number or a point exactly fit an int.
EndFits ==
    CASE call.op = "line" -> 3 * Longer(call.from, call.to) <= IntMax
      [] call.op = "rect" ->
            LET at == Corners(call.rect)
            IN  \A i \in 1 .. 4 : 3 * Longer(at[i], at[i + 1]) <= IntMax
      [] call.op = "disc" -> call.radius < IntMax
      [] OTHER -> TRUE

(* A drawing ends, if no side of a line or an outline is longer than a third *)
(* of the largest int: the line's loop has no other way out than meeting the *)
(* end point exactly, and beside it when its error wraps it goes on forever  *)
(* (graphics.c:424-429), as does a disc whose radius is the largest int      *)
(* (graphics.c:525).  Circles and texts end whatever their arguments are.    *)
DrawingEnds == (loop # Idle /\ EndFits) ~> (loop = Idle)
=============================================================================
