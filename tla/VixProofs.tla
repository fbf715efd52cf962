----------------------------- MODULE VixProofs -----------------------------
(* What the drawing calls keep and what they draw, for every screen, font,   *)
(* width of int and sequence of calls: the buffers and the clip rectangle    *)
(* first (CoreInv), then what set_pixel lets through, then the blits and     *)
(* the shapes.                                                               *)
EXTENDS Vix, FiniteSetTheorems, SequenceTheorems, WellFoundedInduction, TLAPS

\* Induction over the naturals for a set.
LEMMA SetInduction ==
    ASSUME NEW S, 0 \in S, \A n \in Nat : n \in S => n + 1 \in S
    PROVE  \A n \in Nat : n \in S
<1> DEFINE Less == OpToRel(<, Nat)
           Out == {n \in Nat : n \notin S}
<1>1. IsWellFoundedOn(Less, Nat)  BY NatLessThanWellFounded, Zenon
<1>2. \A x, y \in Nat : <<y, x>> \in Less <=> y < x  BY DEF OpToRel
<1>3. SUFFICES ASSUME Out # {} PROVE FALSE  OBVIOUS
<1> HIDE DEF Less
<1>4. PICK x \in Out : \A y \in Out : ~(<<y, x>> \in Less)  BY <1>1, <1>3, WFMin
<1>5. x \in Nat /\ x # 0 /\ x - 1 \in Nat  OBVIOUS
<1>6. x - 1 \in S
    <2>1. SUFFICES ASSUME x - 1 \notin S PROVE FALSE  OBVIOUS
    <2>2. x - 1 \in Out  BY <1>5, <2>1
    <2>3. PICK y \in Nat : y = x - 1 /\ y < x  BY <1>5
    <2>4. <<y, x>> \in Less  BY <1>2, <1>5, <2>3, Zenon
    <2>5. QED  BY <1>4, <2>2, <2>3, <2>4, Zenon
<1>7. (x - 1) + 1 \in S  BY <1>5, <1>6
<1>8. QED  BY <1>5, <1>7

\* The arithmetic of int.
LEMMA IntMaxIs ==
    /\ IntMax \in Nat /\ Width \in Nat /\ Height \in Nat /\ Width >= 1 /\ Height >= 1
    /\ Width < IntMax /\ Height < IntMax
    /\ FontWidth \in Nat /\ FontHeight \in Nat /\ FontWidth >= 1 /\ FontHeight >= 1
BY GraphicsConstants

LEMMA WrapIn == ASSUME NEW n \in Int PROVE Wrap(n) \in Int32
<1>1. PICK c \in Nat \ {0} : c = 2 * IntMax + 2  BY IntMaxIs
<1>2. PICK k \in Int : k = n + IntMax + 1  BY IntMaxIs
<1>3. k % c \in 0 .. c - 1  BY <1>1
<1>4. PICK m \in 0 .. c - 1 : m = k % c  BY <1>3
<1>5. Wrap(n) = m - IntMax - 1  BY <1>1, <1>2, <1>4 DEF Wrap
<1>6. QED  BY <1>1, <1>5, IntMaxIs DEF Int32

LEMMA WrapInt == \A n \in Int : Wrap(n) \in Int /\ Wrap(n) \in Int32
BY WrapIn, IntMaxIs DEF Int32

LEMMA SmallRemainder == ASSUME NEW c \in Nat, NEW k \in 0 .. c - 1 PROVE k % c = k
OBVIOUS

LEMMA WrapSame == ASSUME NEW n \in Int32 PROVE n \in Int /\ Wrap(n) = n
<1>1. PICK c \in Nat \ {0} : c = 2 * IntMax + 2  BY IntMaxIs
<1>2. PICK k \in 0 .. c - 1 : k = n + IntMax + 1  BY <1>1, IntMaxIs DEF Int32
<1>3. k % c = k  BY <1>1, SmallRemainder
<1>4. Wrap(n) = k - IntMax - 1  BY <1>1, <1>2, <1>3 DEF Wrap
<1>5. n \in Int  BY IntMaxIs DEF Int32
<1>6. QED  BY <1>2, <1>4, <1>5, IntMaxIs

\* A number too large by less than the range comes out below zero.
LEMMA WrapOver ==
    ASSUME NEW n \in Int, n > IntMax, n <= 2 * IntMax + 1
    PROVE  Wrap(n) = n - 2 * IntMax - 2
<1>1. PICK c \in Nat \ {0} : c = 2 * IntMax + 2  BY IntMaxIs
<1>2. PICK r \in 0 .. c - 1 : r = n - IntMax - 1  BY <1>1, IntMaxIs
<1>3. n + IntMax + 1 = r + c  BY <1>1, <1>2, IntMaxIs
<1>4. (r + c) % c = r  BY <1>1
<1>5. Wrap(n) = r - IntMax - 1  BY <1>1, <1>3, <1>4 DEF Wrap
<1>6. QED  BY <1>2, <1>5, IntMaxIs

LEMMA SmallInts == /\ Int32 \subseteq Int /\ 0 \in Int32 /\ -1 \in Int32 /\ Width \in Int32 /\ Height \in Int32
                   /\ \A n \in Int : n \in Int32 <=> -IntMax - 1 <= n /\ n <= IntMax
BY IntMaxIs DEF Int32

LEMMA Ints == \A n \in Int32 : n \in Int /\ -IntMax - 1 <= n /\ n <= IntMax
BY IntMaxIs DEF Int32

\* Colors.
LEMMA ByteIn ==
    ASSUME NEW n \in Nat
    PROVE  Byte(n) \in 0 .. 255 /\ Byte(Upper(n)) \in 0 .. 255 /\ Byte(Upper(Upper(n))) \in 0 .. 255
<1>1. \A k \in Nat : Upper(k) \in Nat /\ Byte(k) \in 0 .. 255  BY DEF Upper, Byte
<1>2. QED  BY <1>1

LEMMA ColorIn ==
    ASSUME NEW r \in 0 .. 255, NEW g \in 0 .. 255, NEW b \in 0 .. 255
    PROVE  graphics_rgb_to_color(r, g, b) \in Colors
<1>1. r \div 8 \in 0 .. 31 /\ g \div 4 \in 0 .. 63 /\ b \div 8 \in 0 .. 31  OBVIOUS
<1>2. QED  BY <1>1 DEF graphics_rgb_to_color, Colors

LEMMA ColorOfIn == ASSUME NEW n \in Nat PROVE ColorOf(n) \in Colors
BY ByteIn, ColorIn, Zenon DEF ColorOf

\* A mix of two bytes lies between them, or one below.
Mix(a, b, alpha) == (a * alpha + b * (255 - alpha)) \div 256

LEMMA MixBetween ==
    ASSUME NEW a \in 0 .. 255, NEW b \in 0 .. 255, NEW alpha \in 0 .. 255
    PROVE  /\ Mix(a, b, alpha) \in 0 .. 255
           /\ Mix(a, b, alpha) <= Greatest(a, b) /\ Mix(a, b, alpha) >= Least(a, b) - 1
<1>1. PICK beta \in 0 .. 255 : beta = 255 - alpha  OBVIOUS
<1>2. PICK low \in 0 .. 255 : low = Least(a, b) /\ low <= a /\ low <= b  BY DEF Least
<1>3. PICK high \in 0 .. 255 : high = Greatest(a, b) /\ high >= a /\ high >= b  BY DEF Greatest
<1>4. \A x, y \in 0 .. 255, z \in 0 .. 255 : x <= y => x * z <= y * z
    <2>1. TAKE x, y \in 0 .. 255, z \in 0 .. 255
    <2>2. HAVE x <= y
    <2>3. PICK d \in Nat : d = y - x /\ y = x + d  BY <2>2
    <2>4. y * z = x * z + d * z  BY <2>3
    <2>5. d * z \in Nat /\ x * z \in Nat  OBVIOUS
    <2>6. QED  BY <2>4, <2>5
<1>5. low * alpha + low * beta = low * 255 /\ high * alpha + high * beta = high * 255
    <2>1. \A x \in 0 .. 255 : x * alpha + x * beta = x * (alpha + beta)  OBVIOUS
    <2>2. alpha + beta = 255  BY <1>1
    <2>3. QED  BY <2>1, <2>2
<1>6. PICK n \in Nat : n = a * alpha + b * beta  OBVIOUS
<1>7. n >= low * 255 /\ n <= high * 255
    <2>1. low * alpha <= a * alpha /\ low * beta <= b * beta  BY <1>2, <1>4, Zenon
    <2>2. a * alpha <= high * alpha /\ b * beta <= high * beta  BY <1>3, <1>4, Zenon
    <2>3. PICK u1, u2, u3, u4, u5, u6 \in Nat :
              /\ u1 = low * alpha /\ u2 = low * beta /\ u3 = a * alpha /\ u4 = b * beta
              /\ u5 = high * alpha /\ u6 = high * beta
        OBVIOUS
    <2>4. n = u3 + u4 /\ u1 + u2 = low * 255 /\ u5 + u6 = high * 255  BY <1>5, <1>6, <2>3
    <2>5. u1 <= u3 /\ u2 <= u4 /\ u3 <= u5 /\ u4 <= u6  BY <2>1, <2>2, <2>3
    <2>6. QED  BY <2>4, <2>5
<1>8. n \div 256 \in 0 .. 255 /\ n \div 256 <= high /\ n \div 256 >= low - 1  BY <1>7
<1>9. Mix(a, b, alpha) = n \div 256  BY <1>1, <1>6 DEF Mix
<1>10. QED  BY <1>2, <1>3, <1>8, <1>9

\* So do the levels they stand for.
Wide(n, levels) == IF levels = 32 THEN 8 * n + n \div 4 ELSE 4 * n + n \div 16
Narrow(n, levels) == IF levels = 32 THEN n \div 8 ELSE n \div 4

MixWide(a, b, alpha, levels) == Mix(Wide(a, levels), Wide(b, levels), alpha)
LevelKept(a, b, alpha, levels) ==
    LET m == MixWide(a, b, alpha, levels)
    IN  /\ m \in 0 .. 255 /\ Narrow(m, levels) \in 0 .. levels - 1
        /\ Narrow(m, levels) <= Greatest(a, b) /\ Narrow(m, levels) >= Least(a, b) - 1

LEMMA LevelBetween ==
    ASSUME NEW levels \in {32, 64}, NEW a \in 0 .. levels - 1, NEW b \in 0 .. levels - 1, NEW alpha \in 0 .. 255
    PROVE  LevelKept(a, b, alpha, levels)
<1>1. PICK x, y \in 0 .. 255 : x = Wide(a, levels) /\ y = Wide(b, levels)
    <2>1. Wide(a, levels) \in 0 .. 255 /\ Wide(b, levels) \in 0 .. 255  BY DEF Wide
    <2>2. QED  BY <2>1, Zenon
<1>2. PICK m \in 0 .. 255 : /\ m = MixWide(a, b, alpha, levels)
                            /\ m <= Greatest(x, y) /\ m >= Least(x, y) - 1
    BY <1>1, MixBetween, Zenon DEF MixWide
<1>3. CASE levels = 32
    <2>1. x = 8 * a + a \div 4 /\ y = 8 * b + b \div 4  BY <1>1, <1>3 DEF Wide
    <2>2. m \div 8 \in 0 .. 31  OBVIOUS
    <2>3. m \div 8 <= a \/ m \div 8 <= b
        <3>1. m <= x \/ m <= y  BY <1>2 DEF Greatest
        <3>2. x < 8 * a + 8 /\ y < 8 * b + 8  BY <1>3, <2>1
        <3>3. QED  BY <3>1, <3>2
    <2>4. m \div 8 >= a - 1 \/ m \div 8 >= b - 1
        <3>1. m >= x - 1 \/ m >= y - 1  BY <1>2 DEF Least
        <3>2. x >= 8 * a /\ y >= 8 * b  BY <1>3, <2>1
        <3>3. QED  BY <3>1, <3>2
    <2>5. m \div 8 <= Greatest(a, b) /\ m \div 8 >= Least(a, b) - 1
        <3>1. Greatest(a, b) >= a /\ Greatest(a, b) >= b /\ Least(a, b) <= a /\ Least(a, b) <= b
              /\ Greatest(a, b) \in Int /\ Least(a, b) \in Int
            BY <1>3 DEF Greatest, Least
        <3>2. QED  BY <1>3, <2>2, <2>3, <2>4, <3>1
    <2>6. QED  BY <1>2, <1>3, <2>2, <2>5 DEF Narrow, LevelKept
<1>4. CASE levels = 64
    <2>1. x = 4 * a + a \div 16 /\ y = 4 * b + b \div 16  BY <1>1, <1>4 DEF Wide
    <2>2. m \div 4 \in 0 .. 63  OBVIOUS
    <2>3. m \div 4 <= a \/ m \div 4 <= b
        <3>1. m <= x \/ m <= y  BY <1>2 DEF Greatest
        <3>2. x < 4 * a + 4 /\ y < 4 * b + 4  BY <1>4, <2>1
        <3>3. QED  BY <3>1, <3>2
    <2>4. m \div 4 >= a - 1 \/ m \div 4 >= b - 1
        <3>1. m >= x - 1 \/ m >= y - 1  BY <1>2 DEF Least
        <3>2. x >= 4 * a /\ y >= 4 * b  BY <1>4, <2>1
        <3>3. QED  BY <3>1, <3>2
    <2>5. m \div 4 <= Greatest(a, b) /\ m \div 4 >= Least(a, b) - 1
        <3>1. Greatest(a, b) >= a /\ Greatest(a, b) >= b /\ Least(a, b) <= a /\ Least(a, b) <= b
              /\ Greatest(a, b) \in Int /\ Least(a, b) \in Int
            BY <1>4 DEF Greatest, Least
        <3>2. QED  BY <1>4, <2>2, <2>3, <2>4, <3>1
    <2>6. QED  BY <1>2, <1>4, <2>2, <2>5 DEF Narrow, LevelKept
<1>5. QED  BY <1>3, <1>4

LEMMA LevelsBetween ==
    ASSUME NEW alpha \in 0 .. 255
    PROVE  /\ \A a, b \in 0 .. 31 : LevelKept(a, b, alpha, 32)
           /\ \A a, b \in 0 .. 63 : LevelKept(a, b, alpha, 64)
<1>1. 32 - 1 = 31 /\ 64 - 1 = 63 /\ 32 \in {32, 64} /\ 64 \in {32, 64}  OBVIOUS
<1>2. \A a, b \in 0 .. 32 - 1 : LevelKept(a, b, alpha, 32)  BY <1>1, LevelBetween, Zenon
<1>3. \A a, b \in 0 .. 64 - 1 : LevelKept(a, b, alpha, 64)  BY <1>1, LevelBetween, Zenon
<1>4. QED  BY <1>1, <1>2, <1>3, Zenon

\* What a blend of two colors is, channel by channel.
Blended(mixed, src, dst, alpha) ==
    /\ mixed \in Colors
    /\ \A i \in 1 .. 3 : mixed[i] <= Greatest(src[i], dst[i]) /\ mixed[i] >= Least(src[i], dst[i]) - 1
    /\ alpha = 0 => mixed = dst
    /\ alpha = 255 => mixed = src

LEMMA BlendBetween ==
    ASSUME NEW src \in Colors, NEW dst \in Colors, NEW alpha \in 0 .. 255
    PROVE  Blended(graphics_blend_colors(src, dst, alpha), src, dst, alpha)
<1>1. /\ src[1] \in 0 .. 31 /\ src[2] \in 0 .. 63 /\ src[3] \in 0 .. 31
      /\ dst[1] \in 0 .. 31 /\ dst[2] \in 0 .. 63 /\ dst[3] \in 0 .. 31
    BY DEF Colors
<1>2. \A i \in 1 .. 3 : /\ src[i] \in Int /\ dst[i] \in Int
                        /\ src[i] <= Greatest(src[i], dst[i]) /\ src[i] >= Least(src[i], dst[i]) - 1
                        /\ dst[i] <= Greatest(src[i], dst[i]) /\ dst[i] >= Least(src[i], dst[i]) - 1
    <2>1. TAKE i \in 1 .. 3
    <2>2. src[i] \in Int /\ dst[i] \in Int  BY <1>1
    <2>3. PICK a, b \in Int : a = src[i] /\ b = dst[i]  BY <2>2
    <2>4. a <= Greatest(a, b) /\ a >= Least(a, b) - 1 /\ b <= Greatest(a, b) /\ b >= Least(a, b) - 1
        BY DEF Greatest, Least
    <2>5. QED  BY <2>2, <2>3, <2>4
<1>3. CASE alpha = 255
    <2>1. graphics_blend_colors(src, dst, alpha) = src  BY <1>3 DEF graphics_blend_colors
    <2>2. QED  BY <1>2, <1>3, <2>1 DEF Blended
<1>4. CASE alpha = 0
    <2>1. graphics_blend_colors(src, dst, alpha) = dst  BY <1>4 DEF graphics_blend_colors
    <2>2. QED  BY <1>2, <1>4, <2>1 DEF Blended
<1>5. CASE alpha # 255 /\ alpha # 0
    <2> DEFINE m(i, levels) == MixWide(src[i], dst[i], alpha, levels)
    <2>1. \A c \in Colors : graphics_color_to_rgb(c) = <<Wide(c[1], 32), Wide(c[2], 64), Wide(c[3], 32)>>
        BY DEF graphics_color_to_rgb, Wide
    <2>2. graphics_blend_colors(src, dst, alpha) = graphics_rgb_to_color(m(1, 32), m(2, 64), m(3, 32))
        <3>1. /\ graphics_color_to_rgb(src)[1] = Wide(src[1], 32)
              /\ graphics_color_to_rgb(src)[2] = Wide(src[2], 64)
              /\ graphics_color_to_rgb(src)[3] = Wide(src[3], 32)
              /\ graphics_color_to_rgb(dst)[1] = Wide(dst[1], 32)
              /\ graphics_color_to_rgb(dst)[2] = Wide(dst[2], 64)
              /\ graphics_color_to_rgb(dst)[3] = Wide(dst[3], 32)
            BY <2>1
        <3>2. QED  BY <1>5, <3>1, Zenon DEF graphics_blend_colors, Mix, MixWide
    <2>3. /\ m(1, 32) \in 0 .. 255 /\ Narrow(m(1, 32), 32) \in 0 .. 31
          /\ Narrow(m(1, 32), 32) <= Greatest(src[1], dst[1])
          /\ Narrow(m(1, 32), 32) >= Least(src[1], dst[1]) - 1
        <3>1. LevelKept(src[1], dst[1], alpha, 32)  BY <1>1, LevelsBetween, Zenon
        <3>2. QED  BY <3>1 DEF LevelKept
    <2>4. /\ m(2, 64) \in 0 .. 255 /\ Narrow(m(2, 64), 64) \in 0 .. 63
          /\ Narrow(m(2, 64), 64) <= Greatest(src[2], dst[2])
          /\ Narrow(m(2, 64), 64) >= Least(src[2], dst[2]) - 1
        <3>1. LevelKept(src[2], dst[2], alpha, 64)  BY <1>1, LevelsBetween, Zenon
        <3>2. QED  BY <3>1 DEF LevelKept
    <2>5. /\ m(3, 32) \in 0 .. 255 /\ Narrow(m(3, 32), 32) \in 0 .. 31
          /\ Narrow(m(3, 32), 32) <= Greatest(src[3], dst[3])
          /\ Narrow(m(3, 32), 32) >= Least(src[3], dst[3]) - 1
        <3>1. LevelKept(src[3], dst[3], alpha, 32)  BY <1>1, LevelsBetween, Zenon
        <3>2. QED  BY <3>1 DEF LevelKept
    <2> HIDE DEF m
    <2>6. graphics_rgb_to_color(m(1, 32), m(2, 64), m(3, 32))
          = <<Narrow(m(1, 32), 32), Narrow(m(2, 64), 64), Narrow(m(3, 32), 32)>>
        BY DEF graphics_rgb_to_color, Narrow
    <2>7. QED  BY <1>5, <2>2, <2>3, <2>4, <2>5, <2>6 DEF Colors, Blended
<1>6. QED  BY <1>3, <1>4, <1>5

----------------------------------------------------------------------------
(* Types.                                                                    *)
Pictures == [{"front", "back"} -> [Area -> Colors]]
LineLoops == [kind : {"line"}, x : Int32, y : Int32, err : Int32, dx : Int32, dy : Int32, to : Points,
              sx : {-1, 1}, sy : {-1, 1}, color : Colors, rest : Seq(Points)]
CircleLoops == [kind : {"circle"}, x : Int32, y : Int, d : Int32, center : Points, color : Colors]
DiscLoops == [kind : {"disc"}, y : Int32, radius : Int32, center : Points, color : Colors]
TextLoops == [kind : {"text"}, text : Seq(Chars), x : Int, y : Int, left : Int, scale : Int,
              color : Colors]
Loops == {Idle} \cup LineLoops \cup CircleLoops \cup DiscLoops \cup TextLoops

VixTypes ==
    /\ pixels \in Pictures
    /\ clip \in Rects /\ clip.x >= 0 /\ clip.y >= 0
    /\ loop \in Loops
    /\ call \in Asking \cup {[op |-> "none"]}
    /\ made \in Nat
    /\ drawn \in SUBSET (Int \X Int)
    /\ asked \in Rects \cup {NoRect}
    /\ result \in Int32

LEMMA AreaIs ==
    /\ Area \subseteq Int \X Int
    /\ \A p \in Int \X Int : p \in Area <=> InBounds(p)
<1>1. \A n \in Int : (n \in 0 .. Width - 1 <=> n >= 0 /\ n < Width) /\ (n \in 0 .. Height - 1 <=> n >= 0 /\ n < Height)
    BY IntMaxIs
<1>2. Area \subseteq Int \X Int  BY DEF Area
<1>3. ASSUME NEW p \in Int \X Int PROVE p \in Area <=> InBounds(p)
    <2>1. p = <<p[1], p[2]>> /\ p[1] \in Int /\ p[2] \in Int  OBVIOUS
    <2>2. p \in Area <=> p[1] \in 0 .. Width - 1 /\ p[2] \in 0 .. Height - 1  BY <2>1 DEF Area
    <2>3. QED  BY <1>1, <2>1, <2>2 DEF InBounds
<1>4. QED  BY <1>2, <1>3

LEMMA StoredIs ==
    ASSUME NEW buffer \in [Area -> Colors], NEW points \in SUBSET Area, NEW color \in Colors
    PROVE  /\ Stored(buffer, points, color) \in [Area -> Colors]
           /\ \A p \in Area : Stored(buffer, points, color)[p] = IF p \in points THEN color ELSE buffer[p]
<1>1. DOMAIN buffer \cup points = Area  OBVIOUS
<1>2. QED  BY <1>1 DEF Stored

\* Buffers with the points set in the back one.
Painted(b, points, color) == [b EXCEPT !.back = Stored(@, points, color)]

LEMMA PaintedIs ==
    ASSUME NEW b \in Pictures, NEW points \in SUBSET Area, NEW color \in Colors
    PROVE  /\ Painted(b, points, color) \in Pictures /\ Painted(b, points, color).front = b.front
           /\ \A p \in Area : Painted(b, points, color).back[p] = IF p \in points THEN color ELSE b.back[p]
<1>1. b.back \in [Area -> Colors]  BY DEF Pictures
<1>2. PICK stored \in [Area -> Colors] : stored = Stored(b.back, points, color)  BY <1>1, StoredIs
<1>3. Painted(b, points, color) = [b EXCEPT !.back = stored]  BY <1>2 DEF Painted
<1>4. PICK after : after = [b EXCEPT !.back = stored]  OBVIOUS
<1>5. after \in Pictures /\ after.front = b.front /\ after.back = stored  BY <1>4 DEF Pictures
<1>6. QED  BY <1>1, <1>2, <1>3, <1>4, <1>5, StoredIs

LEMMA SetPixelsDo ==
    ASSUME pixels \in Pictures, NEW points \in SUBSET (Int \X Int), NEW color \in Colors,
           SetPixels(points, color)
    PROVE  /\ pixels' \in Pictures /\ pixels'.front = pixels.front
           /\ \A p \in Area : pixels'.back[p] = IF p \in points /\ Visible(p) THEN color ELSE pixels.back[p]
<1>1. PICK set : set = UNION {graphics_set_pixel(p) : p \in points}  OBVIOUS
<1>2. \A q : q \in set <=> q \in points /\ InBounds(q) /\ Visible(q)  BY <1>1 DEF graphics_set_pixel
<1>3. set \in SUBSET Area /\ \A p \in Area : p \in set <=> p \in points /\ Visible(p)
    <2>1. \A q \in points : q \in Area <=> InBounds(q)  BY AreaIs
    <2>2. QED  BY <1>2, <2>1
<1>4. pixels' = Painted(pixels, set, color)  BY <1>1 DEF SetPixels, Painted
<1>5. /\ pixels' \in Pictures /\ pixels'.front = pixels.front
      /\ \A p \in Area : pixels'.back[p] = IF p \in set THEN color ELSE pixels.back[p]
    BY <1>3, <1>4, PaintedIs
<1>6. QED  BY <1>3, <1>5

\* The fields of a call.
LEMMA Fields ==
    ASSUME NEW c \in Asking
    PROVE  /\ c.op \in {"pixel", "line", "rect", "fill", "clear", "present", "putchar", "circle", "disc", "text",
                        "scaled", "print", "width", "height", "clip", "blit", "alpha"}
           /\ c.op = "pixel" => c.at \in Points /\ c.color \in Nat
           /\ c.op = "line" => c.from \in Points /\ c.to \in Points /\ c.color \in Nat
           /\ c.op \in {"rect", "fill"} => c.rect \in Rects /\ c.color \in Nat
           /\ c.op = "clear" => c.color \in Nat
           /\ c.op \in {"circle", "disc"} => c.at \in Points /\ c.radius \in Int32 /\ c.color \in Nat
           /\ c.op = "text" => c.text \in Nat /\ c.at \in Points /\ c.color \in Nat
           /\ c.op \in {"scaled", "print"} =>
                 c.text \in Nat /\ c.at \in Points /\ c.color \in Nat /\ c.scale \in Int32
           /\ c.op = "width" => c.text \in Nat /\ c.scale \in Int32
           /\ c.op = "height" => c.scale \in Int32
           /\ c.op = "clip" => c.rect \in Rects \cup {NoRect}
           /\ c.op \in {"blit", "alpha"} =>
                 c.src \in {"front", "back"} /\ c.rect \in Rects \cup {NoRect} /\ c.to \in Points
           /\ c.op = "alpha" => c.alpha \in 0 .. 255
<1>1. CASE c \in [op : {"pixel"}, at : Points, color : Nat]  BY <1>1
<1>2. CASE c \in [op : {"line"}, from : Points, to : Points, color : Nat]  BY <1>2
<1>3. CASE c \in [op : {"rect", "fill"}, rect : Rects, color : Nat]  BY <1>3
<1>4. CASE c \in [op : {"clear"}, color : Nat]  BY <1>4
<1>5. CASE c \in [op : {"present", "putchar"}]  BY <1>5
<1>6. CASE c \in [op : {"circle", "disc"}, at : Points, radius : Int32, color : Nat]  BY <1>6
<1>7. CASE c \in [op : {"text"}, text : Nat, at : Points, color : Nat]  BY <1>7
<1>8. CASE c \in [op : {"scaled", "print"}, text : Nat, at : Points, color : Nat, scale : Int32]  BY <1>8
<1>9. CASE c \in [op : {"width"}, text : Nat, scale : Int32]  BY <1>9
<1>10. CASE c \in [op : {"height"}, scale : Int32]  BY <1>10
<1>11. CASE c \in [op : {"clip"}, rect : Rects \cup {NoRect}]  BY <1>11
<1>12. CASE c \in [op : {"blit"}, src : {"front", "back"}, rect : Rects \cup {NoRect}, to : Points]  BY <1>12
<1>13. CASE c \in [op : {"alpha"}, src : {"front", "back"}, rect : Rects \cup {NoRect}, to : Points,
                   alpha : 0 .. 255]
    BY <1>13
<1>14. QED
    BY <1>1, <1>2, <1>3, <1>4, <1>5, <1>6, <1>7, <1>8, <1>9, <1>10, <1>11, <1>12, <1>13 DEF Asking

\* The loop in progress is known by its kind.
LEMMA Kinds ==
    ASSUME loop \in Loops
    PROVE  /\ loop.kind = "line" => loop \in LineLoops
           /\ loop.kind = "circle" => loop \in CircleLoops
           /\ loop.kind = "disc" => loop \in DiscLoops
           /\ loop.kind = "text" => loop \in TextLoops
           /\ loop # Idle => loop.kind \in {"line", "circle", "disc", "text"}
<1>1. Idle.kind = "idle"  BY DEF Idle
<1>2. loop \in LineLoops => loop.kind = "line"  BY DEF LineLoops
<1>3. loop \in CircleLoops => loop.kind = "circle"  BY DEF CircleLoops
<1>4. loop \in DiscLoops => loop.kind = "disc"  BY DEF DiscLoops
<1>5. loop \in TextLoops => loop.kind = "text"  BY DEF TextLoops
<1>6. loop = Idle \/ loop \in LineLoops \/ loop \in CircleLoops \/ loop \in DiscLoops \/ loop \in TextLoops
    BY DEF Loops
<1>7. QED  BY <1>1, <1>2, <1>3, <1>4, <1>5, <1>6

LEMMA CallsAre == ASSUME made \in Nat, made < Len(Calls), NEW c \in Calls[made + 1] PROVE c \in Asking
<1>1. Calls \in Seq(SUBSET Asking)  BY VixConstants
<1>2. made + 1 \in 1 .. Len(Calls)  BY <1>1
<1>3. Calls[made + 1] \in SUBSET Asking  BY <1>1, <1>2
<1>4. QED  BY <1>3

----------------------------------------------------------------------------
(* The order of a copy.                                                      *)
LEMMA Division ==
    ASSUME NEW n \in Nat, n > 0, NEW j \in Int, NEW q \in Int, NEW r \in Int, q = j \div n, r = j % n
    PROVE  j = n * q + r
OBVIOUS

LEMMA DivisionIs ==
    ASSUME NEW n \in Nat \ {0}, NEW j \in Nat
    PROVE  \E q \in Nat, r \in 0 .. n - 1 : q = j \div n /\ r = j % n /\ j = n * q + r
<1>1. j % n \in 0 .. n - 1 /\ j \div n \in Int  OBVIOUS
<1>2. PICK q \in Int, r \in 0 .. n - 1 : q = j \div n /\ r = j % n  BY <1>1
<1>3. j = n * q + r  BY <1>2, Division
<1>4. q \in Nat
    <2>1. SUFFICES ASSUME q < 0 PROVE FALSE  OBVIOUS
    <2>2. PICK d \in Nat : q = -1 - d
        <3>1. -1 - q \in Nat /\ q = -1 - (-1 - q)  BY <2>1
        <3>2. QED  BY <3>1
    <2>3. n * q = -n - n * d  BY <2>2
    <2>4. \A x, y \in Nat : x * y \in Nat  OBVIOUS
    <2>5. PICK w \in Nat : w = n * d  BY <2>4
    <2>6. PICK v \in Int : v = n * q /\ v = -n - w  BY <2>3, <2>5
    <2>7. QED  BY <1>3, <2>6
<1>5. QED  BY <1>2, <1>3, <1>4

\* A larger quotient outweighs any remainder.
LEMMA QuotientRules ==
    ASSUME NEW n \in Nat \ {0}, NEW a \in Nat, NEW b \in Nat, NEW r \in 0 .. n - 1, NEW s \in 0 .. n - 1, a < b
    PROVE  n * a \in Nat /\ n * b \in Nat /\ n * a + r < n * b + s
<1>1. PICK d \in Nat : b = a + 1 + d
    <2>1. b - a - 1 \in Nat  OBVIOUS
    <2>2. QED  BY <2>1
<1>2. n * b = n * a + n + n * d  BY <1>1
<1>3. \A x, y \in Nat : x * y \in Nat  OBVIOUS
<1>4. PICK u, v, w \in Nat : u = n * a /\ v = n * b /\ w = n * d  BY <1>3
<1>5. v = u + n + w  BY <1>2, <1>4
<1>6. u + r < v + s  BY <1>5
<1>7. QED  BY <1>4, <1>6

LEMMA InRows ==
    ASSUME NEW n \in Nat \ {0}, NEW h \in Nat, NEW j \in Nat
    PROVE  n * h \in Nat /\ (j < n * h <=> j \div n < h)
<1>1. PICK q \in Nat, r \in 0 .. n - 1 : q = j \div n /\ r = j % n /\ j = n * q + r  BY DivisionIs
<1>2. \A x, y \in Nat : x * y \in Nat  OBVIOUS
<1>3. PICK u, v \in Nat : u = n * q /\ v = n * h  BY <1>2
<1>4. CASE q < h
    <2>1. n * q + r < n * h + 0  BY <1>4, QuotientRules
    <2>2. QED  BY <1>1, <1>3, <1>4, <2>1
<1>5. CASE q = h
    <2>1. u = v  BY <1>3, <1>5
    <2>2. QED  BY <1>1, <1>3, <1>5, <2>1
<1>6. CASE h < q
    <2>1. n * h + 0 < n * q + r  BY <1>6, QuotientRules
    <2>2. QED  BY <1>1, <1>3, <1>6, <2>1
<1>7. QED  BY <1>4, <1>5, <1>6

LEMMA DivisionOf ==
    ASSUME NEW n \in Nat \ {0}, NEW q \in Nat, NEW r \in 0 .. n - 1
    PROVE  n * q + r \in Nat /\ (n * q + r) \div n = q /\ (n * q + r) % n = r
<1>1. n * q \in Nat
    <2>1. \A x, y \in Nat : x * y \in Nat  OBVIOUS
    <2>2. QED  BY <2>1
<1>2. PICK j \in Nat : j = n * q + r  BY <1>1
<1>3. PICK a \in Nat, b \in 0 .. n - 1 : a = j \div n /\ b = j % n /\ j = n * a + b  BY DivisionIs
<1>4. a = q
    <2>1. CASE a < q
        <3>1. n * a + b < n * q + r  BY <2>1, QuotientRules
        <3>2. QED  BY <1>2, <1>3, <3>1
    <2>2. CASE q < a
        <3>1. n * q + r < n * a + b  BY <2>2, QuotientRules
        <3>2. QED  BY <1>2, <1>3, <3>1
    <2>3. QED  BY <2>1, <2>2
<1>5. b = r  BY <1>1, <1>2, <1>3, <1>4
<1>6. QED  BY <1>2, <1>3, <1>4, <1>5

\* Later, row by row.
Before(p, q) == p[2] < q[2] \/ (p[2] = q[2] /\ p[1] < q[1])

Raster(order, x1, x2, y1, y2) ==
    /\ order \in Seq((x1 .. x2) \X (y1 .. y2))
    /\ \A p \in (x1 .. x2) \X (y1 .. y2) : \E i \in 1 .. Len(order) : order[i] = p
    /\ \A i, j \in 1 .. Len(order) : i < j => Before(order[i], order[j])

LEMMA RasterIs ==
    ASSUME NEW x1 \in Int, NEW x2 \in Int, NEW y1 \in Int, NEW y2 \in Int
    PROVE  Raster(RasterOrder(x1, x2, y1, y2), x1, x2, y1, y2)
<1>1. PICK n \in Nat : n = Greatest(0, x2 - x1 + 1) /\ (n = 0 <=> x2 < x1) /\ (n # 0 => x2 = x1 + n - 1)
    <2>1. PICK m \in Int : m = x2 - x1 + 1  OBVIOUS
    <2>2. PICK g \in Nat : g = Greatest(0, x2 - x1 + 1) /\ g = IF m < 0 THEN 0 ELSE m
        <3>1. Greatest(0, x2 - x1 + 1) = IF m < 0 THEN 0 ELSE m  BY <2>1 DEF Greatest
        <3>2. QED  BY <3>1
    <2>3. (g = 0 <=> x2 < x1) /\ (g # 0 => x2 = x1 + g - 1)  BY <2>1, <2>2
    <2>4. QED  BY <2>2, <2>3
<1>2. PICK h \in Nat : h = Greatest(0, y2 - y1 + 1) /\ (h = 0 <=> y2 < y1) /\ (h # 0 => y2 = y1 + h - 1)
    <2>1. PICK m \in Int : m = y2 - y1 + 1  OBVIOUS
    <2>2. PICK g \in Nat : g = Greatest(0, y2 - y1 + 1) /\ g = IF m < 0 THEN 0 ELSE m
        <3>1. Greatest(0, y2 - y1 + 1) = IF m < 0 THEN 0 ELSE m  BY <2>1 DEF Greatest
        <3>2. QED  BY <3>1
    <2>3. (g = 0 <=> y2 < y1) /\ (g # 0 => y2 = y1 + g - 1)  BY <2>1, <2>2
    <2>4. QED  BY <2>2, <2>3
<1>3. PICK N \in Nat : N = n * h
    <2>1. \A x, y \in Nat : x * y \in Nat  OBVIOUS
    <2>2. QED  BY <2>1
<1>4. PICK order : order = [i \in 1 .. N |-> <<x1 + ((i - 1) % n), y1 + ((i - 1) \div n)>>]  OBVIOUS
<1>5. RasterOrder(x1, x2, y1, y2) = order  BY <1>1, <1>2, <1>3, <1>4 DEF RasterOrder
<1>6. CASE n = 0
    <2>1. N = 0
        <3>1. 0 * h = 0  OBVIOUS
        <3>2. QED  BY <1>3, <1>6, <3>1
    <2>2. order = <<>>  BY <1>4, <2>1
    <2>3. Len(order) = 0 /\ order \in Seq((x1 .. x2) \X (y1 .. y2))  BY <2>2
    <2>4. (x1 .. x2) \X (y1 .. y2) = {}
        <3>1. x1 .. x2 = {}  BY <1>1, <1>6
        <3>2. QED  BY <3>1
    <2>5. QED  BY <1>5, <2>3, <2>4 DEF Raster
<1>7. CASE n # 0
    <2>1. \A i \in 1 .. N : /\ i - 1 \in Nat /\ (i - 1) % n \in 0 .. n - 1 /\ (i - 1) \div n \in 0 .. h - 1
        <3>1. TAKE i \in 1 .. N
        <3>2. PICK j \in Nat : j = i - 1 /\ j < N  OBVIOUS
        <3>3. j \div n < h  BY <1>3, <1>7, <3>2, InRows
        <3>4. PICK q \in Nat, r \in 0 .. n - 1 : q = j \div n /\ r = j % n  BY <1>7, DivisionIs
        <3>5. QED  BY <3>2, <3>3, <3>4
    <2>2. \A i \in 1 .. N : order[i] = <<x1 + ((i - 1) % n), y1 + ((i - 1) \div n)>>  BY <1>4
    <2>3. \A i \in 1 .. N : order[i] \in (x1 .. x2) \X (y1 .. y2)
        <3>1. TAKE i \in 1 .. N
        <3>2. PICK a \in 0 .. n - 1, b \in 0 .. h - 1 : a = (i - 1) % n /\ b = (i - 1) \div n  BY <2>1
        <3>3. order[i] = <<x1 + a, y1 + b>>  BY <2>2, <3>2
        <3>4. x1 + a \in x1 .. x2 /\ y1 + b \in y1 .. y2  BY <1>1, <1>2, <1>7, <3>2
        <3>5. QED  BY <3>3, <3>4
    <2>4. Len(order) = N /\ order \in Seq((x1 .. x2) \X (y1 .. y2))  BY <1>4, <2>3
    <2>5. ASSUME NEW p \in (x1 .. x2) \X (y1 .. y2) PROVE \E i \in 1 .. N : order[i] = p
        <3>1. PICK a \in 0 .. n - 1, b \in 0 .. h - 1 : p = <<x1 + a, y1 + b>>
            <4>1. p = <<p[1], p[2]>> /\ p[1] \in x1 .. x2 /\ p[2] \in y1 .. y2  OBVIOUS
            <4>2. PICK a \in 0 .. n - 1 : p[1] = x1 + a
                <5>1. p[1] - x1 \in 0 .. n - 1  BY <1>1, <1>7, <4>1
                <5>2. p[1] = x1 + (p[1] - x1)  BY <4>1
                <5>3. QED  BY <5>1, <5>2
            <4>3. PICK b \in 0 .. h - 1 : p[2] = y1 + b
                <5>1. p[2] - y1 \in 0 .. h - 1  BY <1>2, <4>1
                <5>2. p[2] = y1 + (p[2] - y1)  BY <4>1
                <5>3. QED  BY <5>1, <5>2
            <4>4. p = <<x1 + a, y1 + b>>  BY <4>1, <4>2, <4>3
            <4>5. QED  BY <4>4
        <3>2. PICK j \in Nat : j = n * b + a /\ j \div n = b /\ j % n = a  BY <1>7, DivisionOf
        <3>3. j < N  BY <1>3, <1>7, <3>1, <3>2, InRows
        <3>4. j + 1 \in 1 .. N /\ (j + 1) - 1 = j  BY <3>3
        <3>5. order[j + 1] = p  BY <2>2, <3>1, <3>2, <3>4
        <3>6. QED  BY <3>4, <3>5
    <2>6. ASSUME NEW i \in 1 .. N, NEW j \in 1 .. N, i < j PROVE Before(order[i], order[j])
        <3>1. PICK k, m \in Nat : k = i - 1 /\ m = j - 1 /\ k < m  BY <2>6
        <3>2. PICK a \in Nat, r \in 0 .. n - 1 : a = k \div n /\ r = k % n /\ k = n * a + r  BY <1>7, DivisionIs
        <3>3. PICK b \in Nat, t \in 0 .. n - 1 : b = m \div n /\ t = m % n /\ m = n * b + t  BY <1>7, DivisionIs
        <3>4. a <= b
            <4>1. SUFFICES ASSUME b < a PROVE FALSE  OBVIOUS
            <4>2. n * b + t < n * a + r  BY <1>7, <4>1, QuotientRules
            <4>3. QED  BY <3>1, <3>2, <3>3, <4>2
        <3>5. a = b => r < t
            <4>1. HAVE a = b
            <4>2. PICK u \in Int : u = n * a /\ u = n * b  BY <4>1
            <4>3. QED  BY <3>1, <3>2, <3>3, <4>2
        <3>6. order[i] = <<x1 + r, y1 + a>> /\ order[j] = <<x1 + t, y1 + b>>  BY <2>2, <3>1, <3>2, <3>3
        <3>7. PICK p, q : p = order[i] /\ q = order[j]  OBVIOUS
        <3>8. p[1] = x1 + r /\ p[2] = y1 + a /\ q[1] = x1 + t /\ q[2] = y1 + b  BY <3>6, <3>7
        <3>9. p[2] < q[2] \/ (p[2] = q[2] /\ p[1] < q[1])  BY <3>4, <3>5, <3>8
        <3>10. QED  BY <3>7, <3>9 DEF Before
    <2>7. QED  BY <1>5, <2>4, <2>5, <2>6 DEF Raster
<1>8. QED  BY <1>6, <1>7

----------------------------------------------------------------------------
(* Blits.                                                                    *)

\* The first k pixels of the order copied one after the other.
Copying(b, order, r, to, src, alpha, k, g) ==
    g = [n \in 0 .. k |-> IF n = 0 THEN b ELSE CopiedPixel(g[n - 1], order[n], r, to, src, alpha)]

LEMMA CopyingExists ==
    ASSUME NEW b, NEW order, NEW r, NEW to, NEW src, NEW alpha
    PROVE  \A k \in Nat : \E g : Copying(b, order, r, to, src, alpha, k, g)
<1> DEFINE S == {k \in Nat : \E g : Copying(b, order, r, to, src, alpha, k, g)}
           Do(a, n) == CopiedPixel(a, order[n], r, to, src, alpha)
<1>1. 0 \in S
    <2>1. Copying(b, order, r, to, src, alpha, 0, [n \in 0 .. 0 |-> b])
        <3>1. \A n \in 0 .. 0 : n = 0  OBVIOUS
        <3>2. QED  BY <3>1 DEF Copying
    <2>2. QED  BY <2>1
<1>2. ASSUME NEW k \in Nat, k \in S PROVE k + 1 \in S
    <2>1. PICK g : Copying(b, order, r, to, src, alpha, k, g)  BY <1>2
    <2>2. g = [n \in 0 .. k |-> IF n = 0 THEN b ELSE Do(g[n - 1], n)]  BY <2>1 DEF Copying
    <2> HIDE DEF Do
    <2>3. DEFINE h == [n \in 0 .. k + 1 |-> IF n = k + 1 THEN Do(g[k], k + 1) ELSE g[n]]
    <2>4. ASSUME NEW n \in 0 .. k + 1
          PROVE  h[n] = IF n = 0 THEN b ELSE Do(h[n - 1], n)
        <3>1. CASE n = k + 1
            <4>1. n # 0 /\ n - 1 = k /\ k \in 0 .. k + 1 /\ k # k + 1  BY <3>1
            <4>2. h[n - 1] = g[k]  BY <4>1
            <4>3. h[n] = Do(g[k], k + 1)  BY <3>1
            <4>4. QED  BY <3>1, <4>1, <4>2, <4>3
        <3>2. CASE n # k + 1
            <4>1. n \in 0 .. k  BY <3>2
            <4>2. h[n] = g[n]  BY <3>2
            <4>3. g[n] = IF n = 0 THEN b ELSE Do(g[n - 1], n)  BY <2>2, <4>1
            <4>4. n # 0 => n - 1 \in 0 .. k /\ n - 1 # k + 1 /\ n - 1 \in 0 .. k + 1  BY <4>1
            <4>5. n # 0 => h[n - 1] = g[n - 1]  BY <4>4
            <4>6. QED  BY <4>2, <4>3, <4>5
        <3>3. QED  BY <3>1, <3>2
    <2>5. h = [n \in 0 .. k + 1 |-> IF n = 0 THEN b ELSE Do(h[n - 1], n)]  BY <2>4
    <2> HIDE DEF h
    <2>6. Copying(b, order, r, to, src, alpha, k + 1, h)  BY <2>5 DEF Copying, Do
    <2>7. QED  BY <2>6
<1>3. \A k \in Nat : k \in S
    <2> HIDE DEF S
    <2>1. QED  BY <1>1, <1>2, SetInduction
<1>4. QED  BY <1>3

LEMMA CopiesUnfold ==
    ASSUME NEW C, NEW order \in Seq(C), NEW r, NEW to, NEW src, NEW alpha
    PROVE  \E g : /\ g = Copies(order, r, to, src, alpha)
                  /\ g[0] = pixels
                  /\ \A n \in 1 .. Len(order) : g[n] = CopiedPixel(g[n - 1], order[n], r, to, src, alpha)
<1>1. Len(order) \in Nat  OBVIOUS
<1>2. \E g : Copying(pixels, order, r, to, src, alpha, Len(order), g)  BY <1>1, CopyingExists
<1>3. Copying(pixels, order, r, to, src, alpha, Len(order),
              CHOOSE g : Copying(pixels, order, r, to, src, alpha, Len(order), g))
    BY <1>2
<1>4. Copies(order, r, to, src, alpha) = CHOOSE g : Copying(pixels, order, r, to, src, alpha, Len(order), g)
    BY DEF Copies, Copying
<1>5. PICK g : g = Copies(order, r, to, src, alpha)  OBVIOUS
<1>6. g = [n \in 0 .. Len(order) |->
              IF n = 0 THEN pixels ELSE CopiedPixel(g[n - 1], order[n], r, to, src, alpha)]
    BY <1>3, <1>4, <1>5 DEF Copying
<1>7. g[0] = pixels  BY <1>1, <1>6
<1>8. \A n \in 1 .. Len(order) : g[n] = CopiedPixel(g[n - 1], order[n], r, to, src, alpha)
    <2>1. \A n \in 1 .. Len(order) : n \in 0 .. Len(order) /\ n # 0  BY <1>1
    <2>2. QED  BY <1>6, <2>1
<1>9. QED  BY <1>5, <1>7, <1>8

PixelCopied(after, b, p, r, to, src, alpha) ==
    /\ after \in Pictures /\ after.front = b.front
    /\ \A z \in Area : after.back[z] =
          IF z = Target(p, r, to) THEN graphics_blend_colors(b[src][p], b.back[z], alpha) ELSE b.back[z]

LEMMA CopiedPixelIs ==
    ASSUME NEW b \in Pictures, NEW p \in Area, NEW r \in Rects, NEW to \in Points, NEW src \in {"front", "back"},
           NEW alpha \in 0 .. 255
    PROVE  PixelCopied(CopiedPixel(b, p, r, to, src, alpha), b, p, r, to, src, alpha)
<1>1. PICK q : q = Target(p, r, to)  OBVIOUS
<1>2. q \in Int \X Int
    <2>1. /\ p[1] \in Int /\ p[2] \in Int /\ r.x \in Int /\ r.y \in Int /\ to[1] \in Int /\ to[2] \in Int
        BY AreaIs, SmallInts DEF Rects, Points
    <2>2. PICK dx, dy \in Int : dx = Wrap(p[1] - r.x) /\ dy = Wrap(p[2] - r.y)
        <3>1. p[1] - r.x \in Int /\ p[2] - r.y \in Int  BY <2>1
        <3>2. QED  BY <3>1, WrapInt
    <2>3. Wrap(to[1] + dx) \in Int /\ Wrap(to[2] + dy) \in Int
        <3>1. to[1] + dx \in Int /\ to[2] + dy \in Int  BY <2>1
        <3>2. QED  BY <3>1, WrapInt
    <2>4. QED  BY <1>1, <2>2, <2>3 DEF Target
<1>3. PICK color : color = graphics_blend_colors(b[src][p], b.back[q], alpha)  OBVIOUS
<1>4. CopiedPixel(b, p, r, to, src, alpha) = IF InBounds(q) THEN Painted(b, {q}, color) ELSE b
    BY <1>1, <1>3 DEF CopiedPixel, Painted
<1>5. InBounds(q) <=> q \in Area  BY <1>2, AreaIs
<1>6. CASE q \in Area
    <2>1. b[src] \in [Area -> Colors] /\ b.back \in [Area -> Colors]  BY DEF Pictures
    <2>2. b[src][p] \in Colors /\ b.back[q] \in Colors  BY <1>6, <2>1
    <2>3. color \in Colors  BY <1>3, <2>2, BlendBetween DEF Blended
    <2>4. PICK at \in SUBSET Area : at = {q}  BY <1>6
    <2>5. /\ Painted(b, at, color) \in Pictures /\ Painted(b, at, color).front = b.front
          /\ \A z \in Area : Painted(b, at, color).back[z] = IF z \in at THEN color ELSE b.back[z]
        BY <2>3, PaintedIs
    <2>6. CopiedPixel(b, p, r, to, src, alpha) = Painted(b, at, color)  BY <1>4, <1>5, <1>6, <2>4
    <2>7. PICK after : after = Painted(b, at, color)  OBVIOUS
    <2>8. \A z \in Area : after.back[z] = IF z = q THEN graphics_blend_colors(b[src][p], b.back[z], alpha) ELSE b.back[z]
        BY <1>3, <2>4, <2>5, <2>7
    <2>9. QED  BY <1>1, <2>5, <2>6, <2>7, <2>8 DEF PixelCopied
<1>7. CASE q \notin Area
    <2>1. CopiedPixel(b, p, r, to, src, alpha) = b  BY <1>4, <1>5, <1>7
    <2>2. \A z \in Area : z # q  BY <1>7
    <2>3. QED  BY <1>1, <2>1, <2>2 DEF PixelCopied
<1>8. QED  BY <1>6, <1>7

\* What a copy reads and writes are pixels, and nothing but the back buffer changes.
LEMMA CopiesKeepTypes ==
    ASSUME pixels \in Pictures, NEW order \in Seq(Area), NEW r \in Rects, NEW to \in Points,
           NEW src \in {"front", "back"}, NEW alpha \in 0 .. 255
    PROVE  \A n \in 0 .. Len(order) :
              /\ Copies(order, r, to, src, alpha)[n] \in Pictures
              /\ Copies(order, r, to, src, alpha)[n].front = pixels.front
<1>1. PICK g : /\ g = Copies(order, r, to, src, alpha) /\ g[0] = pixels
               /\ \A n \in 1 .. Len(order) : g[n] = CopiedPixel(g[n - 1], order[n], r, to, src, alpha)
    BY CopiesUnfold
<1>2. PICK S : S = {n \in Nat : n <= Len(order) => g[n] \in Pictures /\ g[n].front = pixels.front}  OBVIOUS
<1>3. 0 \in S  BY <1>1, <1>2
<1>4. ASSUME NEW n \in Nat, n \in S PROVE n + 1 \in S
    <2>1. SUFFICES ASSUME n + 1 <= Len(order) PROVE g[n + 1] \in Pictures /\ g[n + 1].front = pixels.front
        BY <1>2
    <2>2. n + 1 \in 1 .. Len(order) /\ (n + 1) - 1 = n /\ n <= Len(order)  BY <2>1
    <2>3. g[n] \in Pictures /\ g[n].front = pixels.front  BY <1>2, <1>4, <2>2
    <2>4. g[n + 1] = CopiedPixel(g[n], order[n + 1], r, to, src, alpha)  BY <1>1, <2>2
    <2>5. order[n + 1] \in Area  BY <2>2
    <2>6. PICK b \in Pictures, p \in Area : b = g[n] /\ p = order[n + 1]  BY <2>3, <2>5
    <2>7. PixelCopied(CopiedPixel(b, p, r, to, src, alpha), b, p, r, to, src, alpha)  BY CopiedPixelIs, Zenon
    <2>8. QED  BY <2>3, <2>4, <2>6, <2>7 DEF PixelCopied
<1>5. \A n \in Nat : n \in S  BY <1>3, <1>4, SetInduction
<1>6. \A n \in 0 .. Len(order) : n \in S /\ n \in Nat /\ n <= Len(order)  BY <1>5
<1>7. QED  BY <1>1, <1>2, <1>6

LEMMA SourceIn == ASSUME NEW c \in Asking, c.op \in {"blit", "alpha"} PROVE Source(c) \in Rects
<1>1. c.rect \in Rects \cup {NoRect}  BY Fields
<1>2. WholeSurface \in Rects  BY SmallInts DEF WholeSurface, Rect, Rects
<1>3. QED  BY <1>1, <1>2 DEF Source

LEMMA OrdersIn ==
    ASSUME NEW r \in Rects
    PROVE  BlitOrder(r) \in Seq(Area) /\ BlendOrder(r) \in Seq(Area)
<1>1. \A x1, x2, y1, y2 \in Int :
         x1 >= 0 /\ x2 <= Width - 1 /\ y1 >= 0 /\ y2 <= Height - 1 => RasterOrder(x1, x2, y1, y2) \in Seq(Area)
    <2>1. TAKE x1, x2, y1, y2 \in Int
    <2>2. HAVE x1 >= 0 /\ x2 <= Width - 1 /\ y1 >= 0 /\ y2 <= Height - 1
    <2>3. (x1 .. x2) \subseteq 0 .. Width - 1 /\ (y1 .. y2) \subseteq 0 .. Height - 1  BY <2>2, IntMaxIs
    <2>4. (x1 .. x2) \X (y1 .. y2) \subseteq Area  BY <2>3 DEF Area
    <2>5. PICK order : order = RasterOrder(x1, x2, y1, y2)  OBVIOUS
    <2>6. order \in Seq((x1 .. x2) \X (y1 .. y2))  BY <2>5, RasterIs DEF Raster
    <2>7. \A i \in 1 .. Len(order) : order[i] \in Area  BY <2>4, <2>6
    <2>8. order \in Seq(Area)
        <3>1. Len(order) \in Nat /\ order = [i \in 1 .. Len(order) |-> order[i]]  BY <2>6
        <3>2. QED  BY <2>7, <3>1
    <2>9. QED  BY <2>5, <2>8
<1>2. r.x \in Int /\ r.y \in Int /\ r.width \in Int /\ r.height \in Int  BY SmallInts DEF Rects
<1>3. /\ r.x + r.width \in Int /\ r.y + r.height \in Int
      /\ Wrap(r.x + r.width) \in Int /\ Wrap(r.y + r.height) \in Int
    <2>1. r.x + r.width \in Int /\ r.y + r.height \in Int  BY <1>2
    <2>2. QED  BY <2>1, WrapInt
<1>4. \A n \in Int : /\ Greatest(0, n) \in Int /\ Greatest(0, n) >= 0
                     /\ Least(Width, n) - 1 \in Int /\ Least(Width, n) - 1 <= Width - 1
                     /\ Least(Height, n) - 1 \in Int /\ Least(Height, n) - 1 <= Height - 1
    BY IntMaxIs DEF Greatest, Least
<1>5. BlitOrder(r) \in Seq(Area)
    <2>1. PICK x1, x2, y1, y2 \in Int :
              /\ x1 = Greatest(0, r.x) /\ x2 = Least(Width, Wrap(r.x + r.width)) - 1
              /\ y1 = Greatest(0, r.y) /\ y2 = Least(Height, Wrap(r.y + r.height)) - 1
              /\ x1 >= 0 /\ x2 <= Width - 1 /\ y1 >= 0 /\ y2 <= Height - 1
        BY <1>2, <1>3, <1>4, Zenon
    <2>2. QED  BY <1>1, <2>1 DEF BlitOrder
<1>6. BlendOrder(r) \in Seq(Area)
    <2>1. PICK x1, x2, y1, y2 \in Int :
              /\ x1 = Greatest(0, r.x) /\ x2 = Least(Width, r.x + r.width) - 1
              /\ y1 = Greatest(0, r.y) /\ y2 = Least(Height, r.y + r.height) - 1
              /\ x1 >= 0 /\ x2 <= Width - 1 /\ y1 >= 0 /\ y2 <= Height - 1
        BY <1>2, <1>3, <1>4, Zenon
    <2>2. QED  BY <1>1, <2>1 DEF BlendOrder
<1>7. QED  BY <1>5, <1>6

\* Along one axis: a pixel before the surface's end is the target of p if it is as far from t as p from o.
LEMMA OffsetIs ==
    ASSUME NEW p \in Nat, p <= IntMax, NEW o \in Int32, NEW w \in Int32, o <= p, p < o + w,
           NEW t \in Int32, NEW z \in Nat, z <= IntMax
    PROVE  z = Wrap(t + Wrap(p - o)) <=> p = z - t + o
<1>1. o \in Int /\ w \in Int /\ t \in Int /\ w <= IntMax /\ t <= IntMax /\ t >= -IntMax - 1  BY SmallInts, IntMaxIs
<1>2. PICK d \in Nat : d = p - o /\ d < w  BY <1>1
<1>3. d \in Int32 /\ Wrap(d) = d
    <2>1. d \in Int32  BY <1>1, <1>2, SmallInts, IntMaxIs
    <2>2. QED  BY <2>1, WrapSame
<1>4. PICK n \in Int : n = t + d  BY <1>1
<1>5. Wrap(t + Wrap(p - o)) = Wrap(n)  BY <1>2, <1>3, <1>4
<1>6. CASE n <= IntMax
    <2>1. n \in Int32  BY <1>1, <1>4, <1>6, SmallInts, IntMaxIs
    <2>2. Wrap(n) = n  BY <2>1, WrapSame
    <2>3. QED  BY <1>1, <1>2, <1>4, <1>5, <2>2
<1>7. CASE n > IntMax
    <2>1. n <= 2 * IntMax + 1  BY <1>1, <1>2, <1>4, IntMaxIs
    <2>2. Wrap(n) = n - 2 * IntMax - 2  BY <1>7, <2>1, WrapOver
    <2>3. Wrap(n) < 0 /\ Wrap(n) \in Int  BY <2>1, <2>2, IntMaxIs
    <2>4. z # n  BY <1>7, IntMaxIs
    <2>5. QED  BY <1>1, <1>2, <1>4, <1>5, <2>3, <2>4
<1>8. QED  BY <1>4, <1>6, <1>7, IntMaxIs

LEMMA InArea == ASSUME NEW p \in Area
                PROVE  /\ p = <<p[1], p[2]>> /\ p[1] \in Nat /\ p[2] \in Nat
                       /\ p[1] < Width /\ p[2] < Height /\ p[1] <= IntMax /\ p[2] <= IntMax
<1>1. p = <<p[1], p[2]>> /\ p[1] \in 0 .. Width - 1 /\ p[2] \in 0 .. Height - 1  BY DEF Area
<1>2. QED  BY <1>1, IntMaxIs

LEMMA TargetIs ==
    ASSUME NEW c \in Asking, c.op \in {"blit", "alpha"}, NEW p \in Area, Within(p, Source(c)), NEW z \in Area
    PROVE  z = Target(p, Source(c), c.to) <=> p = From(c, z)
<1>1. PICK r \in Rects : r = Source(c)  BY SourceIn
<1>2. PICK t \in Points : t = c.to  BY Fields
<1>3. r.x \in Int32 /\ r.y \in Int32 /\ r.width \in Int32 /\ r.height \in Int32 /\ t[1] \in Int32 /\ t[2] \in Int32
    BY DEF Rects, Points
<1>4. r.x <= p[1] /\ p[1] < r.x + r.width /\ r.y <= p[2] /\ p[2] < r.y + r.height
    <2>1. p[1] \in Int /\ p[2] \in Int /\ r.x \in Int /\ r.y \in Int  BY <1>3, InArea, SmallInts
    <2>2. QED  BY <1>1, <2>1 DEF Within
<1>5. z[1] = Wrap(t[1] + Wrap(p[1] - r.x)) <=> p[1] = z[1] - t[1] + r.x
    BY <1>3, <1>4, InArea, OffsetIs
<1>6. z[2] = Wrap(t[2] + Wrap(p[2] - r.y)) <=> p[2] = z[2] - t[2] + r.y
    BY <1>3, <1>4, InArea, OffsetIs
<1>7. z = <<z[1], z[2]>> /\ p = <<p[1], p[2]>>  BY InArea
<1>8. z = Target(p, r, t) <=> z[1] = Wrap(t[1] + Wrap(p[1] - r.x)) /\ z[2] = Wrap(t[2] + Wrap(p[2] - r.y))
    <2>1. PICK u, v : u = Wrap(t[1] + Wrap(p[1] - r.x)) /\ v = Wrap(t[2] + Wrap(p[2] - r.y))  OBVIOUS
    <2>2. Target(p, r, t) = <<u, v>>  BY <2>1 DEF Target
    <2>3. QED  BY <1>7, <2>1, <2>2
<1>9. p = From(c, z) <=> p[1] = z[1] - t[1] + r.x /\ p[2] = z[2] - t[2] + r.y
    <2>1. PICK u, v : u = z[1] - t[1] + r.x /\ v = z[2] - t[2] + r.y  OBVIOUS
    <2>2. From(c, z) = <<u, v>>  BY <1>1, <1>2, <2>1 DEF From
    <2>3. QED  BY <1>7, <2>1, <2>2
<1>10. QED  BY <1>1, <1>2, <1>5, <1>6, <1>8, <1>9

\* What a blit and a blend have to go through is what the rectangle has of the surface.
Covers(order, r) ==
    /\ order \in Seq(Area)
    /\ \A p \in Area : Within(p, r) <=> \E i \in 1 .. Len(order) : order[i] = p
    /\ \A i, j \in 1 .. Len(order) : i < j => Before(order[i], order[j])

LEMMA OrdersAre ==
    ASSUME NEW r \in Rects, Fits(r)
    PROVE  Covers(BlitOrder(r), r) /\ Covers(BlendOrder(r), r)
<1>1. r.x \in Int /\ r.y \in Int /\ r.width \in Int /\ r.height \in Int  BY SmallInts DEF Rects
<1>2. Wrap(r.x + r.width) = r.x + r.width /\ Wrap(r.y + r.height) = r.y + r.height
    <2>1. r.x + r.width \in Int32 /\ r.y + r.height \in Int32  BY DEF Fits
    <2>2. QED  BY <2>1, WrapSame
<1>3. BlitOrder(r) = BlendOrder(r)  BY <1>2 DEF BlitOrder, BlendOrder
<1>4. PICK x1, x2, y1, y2 \in Int :
          /\ x1 = Greatest(0, r.x) /\ x2 = Least(Width, r.x + r.width) - 1
          /\ y1 = Greatest(0, r.y) /\ y2 = Least(Height, r.y + r.height) - 1
    <2>1. \A n \in Int : Greatest(0, n) \in Int /\ Least(Width, n) - 1 \in Int /\ Least(Height, n) - 1 \in Int
        BY IntMaxIs DEF Greatest, Least
    <2>2. r.x + r.width \in Int /\ r.y + r.height \in Int  BY <1>1
    <2>3. QED  BY <1>1, <2>1, <2>2
<1>5. BlendOrder(r) = RasterOrder(x1, x2, y1, y2)  BY <1>4 DEF BlendOrder
<1>6. \A p \in Area : Within(p, r) <=> p \in (x1 .. x2) \X (y1 .. y2)
    <2>1. TAKE p \in Area
    <2>2. p = <<p[1], p[2]>> /\ p[1] \in Nat /\ p[2] \in Nat /\ p[1] < Width /\ p[2] < Height  BY InArea
    <2>3. p[1] \in x1 .. x2 <=> p[1] >= r.x /\ p[1] < r.x + r.width
        BY <1>1, <1>4, <2>2, IntMaxIs DEF Greatest, Least
    <2>4. p[2] \in y1 .. y2 <=> p[2] >= r.y /\ p[2] < r.y + r.height
        BY <1>1, <1>4, <2>2, IntMaxIs DEF Greatest, Least
    <2>5. QED  BY <2>2, <2>3, <2>4 DEF Within
<1>7. PICK order : order = BlendOrder(r)  OBVIOUS
<1>8. order \in Seq(Area)  BY <1>7, OrdersIn
<1>14. Raster(order, x1, x2, y1, y2)  BY <1>5, <1>7, RasterIs
<1>9. /\ order \in Seq((x1 .. x2) \X (y1 .. y2))
      /\ \A p \in (x1 .. x2) \X (y1 .. y2) : \E i \in 1 .. Len(order) : order[i] = p
      /\ \A i, j \in 1 .. Len(order) : i < j => Before(order[i], order[j])
    BY <1>14 DEF Raster
<1>10. \A i \in 1 .. Len(order) : order[i] \in (x1 .. x2) \X (y1 .. y2)  BY <1>9
<1>11. \A p \in Area : Within(p, r) <=> \E i \in 1 .. Len(order) : order[i] = p  BY <1>6, <1>9, <1>10
<1>12. Covers(order, r)  BY <1>8, <1>9, <1>11 DEF Covers
<1>13. QED  BY <1>3, <1>7, <1>12

\* The copy so far: the first n pixels of the order are where they belong, mixed with what was there.
CopiedUpTo(b, order, n, c, alpha) ==
    /\ b \in Pictures /\ b.front = pixels.front
    /\ \A z \in Area :
          b.back[z] = IF Placed(c, z) /\ \E i \in 1 .. n : order[i] = From(c, z)
                      THEN graphics_blend_colors(pixels[c.src][From(c, z)], pixels.back[z], alpha)
                      ELSE pixels.back[z]

LEMMA CopyGoesOn ==
    ASSUME pixels \in Pictures, NEW c \in Asking, c.op \in {"blit", "alpha"}, ReadsBeforeWriting(c),
           NEW order, Covers(order, Source(c)), NEW alpha \in 0 .. 255,
           NEW n \in Nat, n < Len(order), NEW b, CopiedUpTo(b, order, n, c, alpha)
    PROVE  CopiedUpTo(CopiedPixel(b, order[n + 1], Source(c), c.to, c.src, alpha), order, n + 1, c, alpha)
<1>1. PICK r \in Rects : r = Source(c)  BY SourceIn
<1>2. c.to \in Points /\ c.src \in {"front", "back"}  BY Fields
<1>3. /\ order \in Seq(Area) /\ n + 1 \in 1 .. Len(order) /\ Len(order) \in Nat
      /\ \A i, j \in 1 .. Len(order) : i < j => Before(order[i], order[j])
    BY DEF Covers
<1>4. PICK p \in Area : p = order[n + 1]  BY <1>3
<1>5. Within(p, r)  BY <1>1, <1>3, <1>4 DEF Covers
<1>6. PICK after : after = CopiedPixel(b, order[n + 1], Source(c), c.to, c.src, alpha)  OBVIOUS
<1>7. b \in Pictures /\ b.front = pixels.front  BY DEF CopiedUpTo
<1>8. PixelCopied(after, b, p, r, c.to, c.src, alpha)
    <2>1. PICK to \in Points, src \in {"front", "back"} : to = c.to /\ src = c.src  BY <1>2
    <2>2. PixelCopied(CopiedPixel(b, p, r, to, src, alpha), b, p, r, to, src, alpha)  BY <1>7, CopiedPixelIs, Zenon
    <2>3. QED  BY <1>1, <1>4, <1>6, <2>1, <2>2
<1>9. \A z \in Area : z = Target(p, r, c.to) <=> p = From(c, z)  BY <1>1, <1>5, TargetIs
<1>10. \A i \in 1 .. n : order[i] # p
    <2>1. TAKE i \in 1 .. n
    <2>2. i \in 1 .. Len(order) /\ i < n + 1  BY <1>3
    <2>3. Before(order[i], p) /\ order[i] \in Area  BY <1>3, <1>4, <2>2
    <2>4. p[1] \in Int /\ p[2] \in Int  BY InArea
    <2>5. QED  BY <2>3, <2>4 DEF Before
<1>11. b[c.src][p] = pixels[c.src][p]
    <2>1. CASE c.src = "front"
        <3>1. b[c.src] = b.front /\ pixels[c.src] = pixels.front  BY <2>1
        <3>2. QED  BY <1>7, <3>1
    <2>2. CASE c.src = "back"
        <3>1. c.to[2] < r.y \/ (c.to[2] = r.y /\ c.to[1] <= r.x)  BY <1>1, <2>2 DEF ReadsBeforeWriting
        <3>2. \A i \in 1 .. n : order[i] # From(c, p)
            <4>1. TAKE i \in 1 .. n
            <4>2. i \in 1 .. Len(order) /\ i < n + 1  BY <1>3
            <4>3. Before(order[i], p)  BY <1>3, <1>4, <4>2
            <4>4. PICK t \in Points : t = c.to  BY <1>2
            <4>5. /\ p[1] \in Int /\ p[2] \in Int /\ t[1] \in Int /\ t[2] \in Int /\ r.x \in Int /\ r.y \in Int
                BY InArea, SmallInts DEF Points, Rects
            <4>6. From(c, p)[1] = p[1] - t[1] + r.x /\ From(c, p)[2] = p[2] - t[2] + r.y
                BY <1>1, <4>4 DEF From
            <4>7. PICK u, v \in Int : /\ u = From(c, p)[1] /\ v = From(c, p)[2]
                                      /\ u = p[1] - t[1] + r.x /\ v = p[2] - t[2] + r.y
                BY <4>5, <4>6
            <4>8. PICK p1, p2, t1, t2, rx, ry \in Int :
                      p1 = p[1] /\ p2 = p[2] /\ t1 = t[1] /\ t2 = t[2] /\ rx = r.x /\ ry = r.y
                BY <4>5
            <4>9. t2 < ry \/ (t2 = ry /\ t1 <= rx)  BY <3>1, <4>4, <4>8
            <4>13. u = p1 - t1 + rx /\ v = p2 - t2 + ry  BY <4>7, <4>8
            <4>10. ~(v < p2 \/ (v = p2 /\ u < p1))  BY <4>9, <4>13
            <4>11. ~Before(From(c, p), p)  BY <4>7, <4>8, <4>10 DEF Before
            <4>12. QED  BY <4>3, <4>11
        <3>3. b.back[p] = pixels.back[p]  BY <3>2 DEF CopiedUpTo
        <3>4. b[c.src] = b.back /\ pixels[c.src] = pixels.back  BY <2>2
        <3>5. QED  BY <3>3, <3>4
    <2>3. QED  BY <1>2, <2>1, <2>2
<1>12. ASSUME NEW z \in Area
       PROVE  after.back[z] =
                 IF Placed(c, z) /\ \E i \in 1 .. n + 1 : order[i] = From(c, z)
                 THEN graphics_blend_colors(pixels[c.src][From(c, z)], pixels.back[z], alpha)
                 ELSE pixels.back[z]
    <2>1. (\E i \in 1 .. n + 1 : order[i] = From(c, z)) <=> (\E i \in 1 .. n : order[i] = From(c, z)) \/ p = From(c, z)
        <3>1. \A i \in 1 .. n + 1 : i \in 1 .. n \/ i = n + 1  OBVIOUS
        <3>2. 1 .. n \subseteq 1 .. n + 1 /\ n + 1 \in 1 .. n + 1  OBVIOUS
        <3>3. QED  BY <1>4, <3>1, <3>2
    <2>2. CASE p = From(c, z)
        <3>1. Placed(c, z)  BY <1>1, <1>5, <2>2 DEF Placed
        <3>2. b.back[z] = pixels.back[z]  BY <1>10, <2>2 DEF CopiedUpTo
        <3>3. after.back[z] = graphics_blend_colors(b[c.src][p], b.back[z], alpha)
            BY <1>8, <1>9, <2>2 DEF PixelCopied
        <3>4. QED  BY <1>11, <2>1, <2>2, <3>1, <3>2, <3>3
    <2>3. CASE p # From(c, z)
        <3>1. after.back[z] = b.back[z]  BY <1>8, <1>9, <2>3 DEF PixelCopied
        <3>2. QED  BY <2>1, <2>3, <3>1 DEF CopiedUpTo
    <2>4. QED  BY <2>2, <2>3
<1>13. after \in Pictures /\ after.front = pixels.front  BY <1>7, <1>8 DEF PixelCopied
<1>14. CopiedUpTo(after, order, n + 1, c, alpha)  BY <1>12, <1>13 DEF CopiedUpTo
<1>15. QED  BY <1>6, <1>14

LEMMA CopiesAre ==
    ASSUME pixels \in Pictures, NEW c \in Asking, c.op \in {"blit", "alpha"}, ReadsBeforeWriting(c),
           NEW order, Covers(order, Source(c)), NEW alpha \in 0 .. 255
    PROVE  CopiedUpTo(Copied(order, Source(c), c.to, c.src, alpha), order, Len(order), c, alpha)
<1>1. order \in Seq(Area) /\ Len(order) \in Nat  BY DEF Covers
<1>2. PICK g : /\ g = Copies(order, Source(c), c.to, c.src, alpha) /\ g[0] = pixels
               /\ \A n \in 1 .. Len(order) : g[n] = CopiedPixel(g[n - 1], order[n], Source(c), c.to, c.src, alpha)
    BY <1>1, CopiesUnfold
<1>3. PICK S : S = {n \in Nat : n <= Len(order) => CopiedUpTo(g[n], order, n, c, alpha)}  OBVIOUS
<1>4. 0 \in S
    <2>1. 1 .. 0 = {}  OBVIOUS
    <2>2. CopiedUpTo(pixels, order, 0, c, alpha)  BY <2>1 DEF CopiedUpTo
    <2>3. QED  BY <1>2, <1>3, <2>2
<1>5. ASSUME NEW n \in Nat, n \in S PROVE n + 1 \in S
    <2>1. SUFFICES ASSUME n + 1 <= Len(order) PROVE CopiedUpTo(g[n + 1], order, n + 1, c, alpha)  BY <1>3
    <2>2. n < Len(order) /\ n + 1 \in 1 .. Len(order) /\ (n + 1) - 1 = n  BY <1>1, <2>1
    <2>3. CopiedUpTo(g[n], order, n, c, alpha)  BY <1>3, <1>5, <1>1, <2>2
    <2>4. g[n + 1] = CopiedPixel(g[n], order[n + 1], Source(c), c.to, c.src, alpha)  BY <1>2, <2>2
    <2>5. PICK b : b = g[n]  OBVIOUS
    <2>6. CopiedUpTo(CopiedPixel(b, order[n + 1], Source(c), c.to, c.src, alpha), order, n + 1, c, alpha)
        BY <2>2, <2>3, <2>5, CopyGoesOn
    <2>7. QED  BY <2>4, <2>5, <2>6
<1>6. \A n \in Nat : n \in S  BY <1>4, <1>5, SetInduction
<1>7. CopiedUpTo(g[Len(order)], order, Len(order), c, alpha)  BY <1>1, <1>3, <1>6
<1>8. QED  BY <1>2, <1>7 DEF Copied

\* The copies of a finished blit and of a finished blend.
LEMMA BlitIs ==
    ASSUME pixels \in Pictures, NEW c \in Asking, c.op \in {"blit", "alpha"}, Fits(Source(c)), ReadsBeforeWriting(c),
           (c.op = "blit" /\ graphics_blit_surface(c)) \/ (c.op = "alpha" /\ graphics_blit_alpha(c))
    PROVE  IF c.op = "blit" THEN CopiedByBlit(c) ELSE MixedByBlend(c)
<1>1. PICK r \in Rects : r = Source(c)  BY SourceIn
<1>2. c.src \in {"front", "back"} /\ c.to \in Points  BY Fields
<1>3. PICK alpha \in 0 .. 255 : alpha = IF c.op = "blit" THEN 255 ELSE c.alpha  BY Fields
<1>4. PICK order : /\ Covers(order, r)
                   /\ pixels' = Copied(order, r, c.to, c.src, alpha)
    <2>1. Covers(BlitOrder(r), r) /\ Covers(BlendOrder(r), r)  BY <1>1, OrdersAre
    <2>2. CASE c.op = "blit" /\ graphics_blit_surface(c)
        <3>1. pixels' = Copied(BlitOrder(r), r, c.to, c.src, 255)  BY <1>1, <2>2 DEF graphics_blit_surface
        <3>2. alpha = 255  BY <1>3, <2>2
        <3>3. QED  BY <2>1, <3>1, <3>2
    <2>3. CASE c.op = "alpha" /\ graphics_blit_alpha(c)
        <3>1. pixels' = Copied(BlendOrder(r), r, c.to, c.src, c.alpha)  BY <1>1, <2>3 DEF graphics_blit_alpha
        <3>2. alpha = c.alpha  BY <1>3, <2>3
        <3>3. QED  BY <2>1, <3>1, <3>2
    <2>4. QED  BY <2>2, <2>3
<1>5. CopiedUpTo(pixels', order, Len(order), c, alpha)  BY <1>1, <1>4, CopiesAre
<1>6. \A z \in Area : Placed(c, z) => \E i \in 1 .. Len(order) : order[i] = From(c, z)
    BY <1>1, <1>4 DEF Placed, Covers
<1>7. PICK next : next = pixels'  OBVIOUS
<1>8. next \in Pictures /\ \A z \in Area :
         next.back[z] = IF Placed(c, z)
                        THEN graphics_blend_colors(pixels[c.src][From(c, z)], pixels.back[z], alpha)
                        ELSE pixels.back[z]
    BY <1>5, <1>6, <1>7 DEF CopiedUpTo
<1>9. /\ pixels.back \in [Area -> Colors] /\ pixels[c.src] \in [Area -> Colors] /\ next.back \in [Area -> Colors]
    BY <1>2, <1>8 DEF Pictures
<1>10. CASE c.op = "blit"
    <2>1. alpha = 255  BY <1>3, <1>10
    <2>2. \A z \in Area : next.back[z] = IF Placed(c, z) THEN pixels[c.src][From(c, z)] ELSE pixels.back[z]
        BY <1>8, <2>1 DEF graphics_blend_colors
    <2>3. next.back = [z \in Area |-> IF Placed(c, z) THEN pixels[c.src][From(c, z)] ELSE pixels.back[z]]
        BY <1>9, <2>2
    <2>4. QED  BY <1>7, <1>10, <2>3 DEF CopiedByBlit
<1>11. CASE c.op # "blit"
    <2>1. alpha = c.alpha  BY <1>3, <1>11
    <2>2. ASSUME NEW q \in Area, Placed(c, q), NEW i \in 1 .. 3
          PROVE  /\ next.back[q][i] <= Greatest(pixels[c.src][From(c, q)][i], pixels.back[q][i])
                 /\ next.back[q][i] >= Least(pixels[c.src][From(c, q)][i], pixels.back[q][i]) - 1
                 /\ c.alpha = 0 => next.back[q][i] = pixels.back[q][i]
                 /\ c.alpha = 255 => next.back[q][i] = pixels[c.src][From(c, q)][i]
        <3>1. From(c, q) \in Area  BY <2>2 DEF Placed
        <3>2. PICK from, to \in Colors : from = pixels[c.src][From(c, q)] /\ to = pixels.back[q]  BY <1>9, <3>1
        <3>3. PICK mixed : mixed = graphics_blend_colors(from, to, alpha) /\ mixed = next.back[q]
            BY <1>8, <2>2, <3>2
        <3>5. Blended(mixed, from, to, alpha)  BY <3>3, BlendBetween
        <3>4. /\ mixed[i] <= Greatest(from[i], to[i]) /\ mixed[i] >= Least(from[i], to[i]) - 1
              /\ alpha = 0 => mixed = to
              /\ alpha = 255 => mixed = from
            BY <3>5 DEF Blended
        <3>6. QED  BY <2>1, <3>2, <3>3, <3>4
    <2>3. \A q \in Area : ~Placed(c, q) => next.back[q] = pixels.back[q]  BY <1>8
    <2>4. MixedByBlend(c)  BY <1>7, <2>2, <2>3 DEF MixedByBlend
    <2>5. QED  BY <1>11, <2>4
<1>12. QED  BY <1>10, <1>11

----------------------------------------------------------------------------
(* What the commands hand on, the registers left out.                        *)
Hands(c) ==
    \/ c.op = "pixel" /\ DrawPixel(c, c.at, ColorOf(c.color)) /\ result' = 0
    \/ c.op = "rect" /\ graphics_draw_rect(c, c.rect, ColorOf(c.color)) /\ result' = 0
    \/ c.op = "fill" /\ graphics_fill_rect(c, c.rect, ColorOf(c.color)) /\ result' = 0
    \/ c.op = "clear" /\ graphics_clear_surface(c, ColorOf(c.color)) /\ result' = 0
    \/ c.op = "present" /\ graphics_present(c) /\ result' = 0
    \/ c.op = "line" /\ graphics_draw_line(c, c.from, c.to, ColorOf(c.color)) /\ result' = 0
    \/ c.op = "circle" /\ graphics_draw_circle(c, c.at, c.radius, ColorOf(c.color)) /\ result' = 0
    \/ c.op = "disc" /\ graphics_fill_circle(c, c.at, c.radius, ColorOf(c.color)) /\ result' = 0
    \/ c.op = "text" /\ c.text # 0 /\ result' = 0
       /\ graphics_draw_text_scaled(c, TextAt(c.text), c.at, ColorOf(c.color), 1)
    \/ c.op = "scaled" /\ c.text # 0 /\ c.scale > 0 /\ result' = 0
       /\ graphics_draw_text_scaled(c, TextAt(c.text), c.at, ColorOf(c.color), c.scale)
    \/ c.op \in {"print", "putchar"} /\ result' = 0
       /\ \E text \in Seq(Chars), at \in Int \X Int, color \in Colors, scale \in Int :
             graphics_draw_text_scaled(c, text, at, color, scale)
    \/ c.op \in {"text", "scaled"} /\ Nothing(c) /\ result' = -1 /\ (c.op = "text" => c.text = 0)
    \/ c.op \in {"width", "height"} /\ Nothing(c) /\ result' \in Int32
    \/ c.op = "clip" /\ graphics_set_clip_rect(c) /\ result' = result
    \/ c.op = "blit" /\ graphics_blit_surface(c) /\ result' = result
    \/ c.op = "alpha" /\ graphics_blit_alpha(c) /\ result' = result

LEMMA TextsAre == \A pointer : TextAt(pointer) \in Seq(Chars)
BY VixConstants DEF TextAt

LEMMA PointIs == \A p \in Points : p = <<p[1], p[2]>> /\ p[1] \in Int32 /\ p[2] \in Int32
BY DEF Points

\* The width of each line of the first k characters, and the widest.
Measuring(text, scale, k, g) ==
    g = [n \in 0 .. k |-> IF n = 0 THEN [widest |-> 0, current |-> 0] ELSE WidthAfter(g[n - 1], text[n], scale)]

LEMMA MeasuringExists ==
    ASSUME NEW text, NEW scale
    PROVE  \A k \in Nat : \E g : Measuring(text, scale, k, g)
<1> DEFINE S == {k \in Nat : \E g : Measuring(text, scale, k, g)}
           Do(a, n) == WidthAfter(a, text[n], scale)
           b == [widest |-> 0, current |-> 0]
<1>1. 0 \in S
    <2>1. Measuring(text, scale, 0, [n \in 0 .. 0 |-> b])
        <3>1. \A n \in 0 .. 0 : n = 0  OBVIOUS
        <3>2. QED  BY <3>1 DEF Measuring
    <2>2. QED  BY <2>1
<1> HIDE DEF b
<1>2. ASSUME NEW k \in Nat, k \in S PROVE k + 1 \in S
    <2>1. PICK g : Measuring(text, scale, k, g)  BY <1>2
    <2>2. g = [n \in 0 .. k |-> IF n = 0 THEN b ELSE Do(g[n - 1], n)]  BY <2>1 DEF Measuring, b
    <2> HIDE DEF Do
    <2>3. DEFINE h == [n \in 0 .. k + 1 |-> IF n = k + 1 THEN Do(g[k], k + 1) ELSE g[n]]
    <2>4. ASSUME NEW n \in 0 .. k + 1
          PROVE  h[n] = IF n = 0 THEN b ELSE Do(h[n - 1], n)
        <3>1. CASE n = k + 1
            <4>1. n # 0 /\ n - 1 = k /\ k \in 0 .. k + 1 /\ k # k + 1  BY <3>1
            <4>2. h[n - 1] = g[k]  BY <4>1
            <4>3. h[n] = Do(g[k], k + 1)  BY <3>1
            <4>4. QED  BY <3>1, <4>1, <4>2, <4>3
        <3>2. CASE n # k + 1
            <4>1. n \in 0 .. k  BY <3>2
            <4>2. h[n] = g[n]  BY <3>2
            <4>3. g[n] = IF n = 0 THEN b ELSE Do(g[n - 1], n)  BY <2>2, <4>1
            <4>4. n # 0 => n - 1 \in 0 .. k /\ n - 1 # k + 1 /\ n - 1 \in 0 .. k + 1  BY <4>1
            <4>5. n # 0 => h[n - 1] = g[n - 1]  BY <4>4
            <4>6. QED  BY <4>2, <4>3, <4>5
        <3>3. QED  BY <3>1, <3>2
    <2>5. h = [n \in 0 .. k + 1 |-> IF n = 0 THEN b ELSE Do(h[n - 1], n)]  BY <2>4
    <2> HIDE DEF h
    <2>6. Measuring(text, scale, k + 1, h)  BY <2>5 DEF Measuring, Do, b
    <2>7. QED  BY <2>6
<1>3. \A k \in Nat : k \in S
    <2> HIDE DEF S
    <2>1. QED  BY <1>1, <1>2, SetInduction
<1>4. QED  BY <1>3

LEMMA WidthsUnfold ==
    ASSUME NEW C, NEW text \in Seq(C), NEW scale
    PROVE  \E g : /\ g = Widths(text, scale)
                  /\ g[0] = [widest |-> 0, current |-> 0]
                  /\ \A n \in 1 .. Len(text) : g[n] = WidthAfter(g[n - 1], text[n], scale)
<1>1. Len(text) \in Nat  OBVIOUS
<1>2. \E g : Measuring(text, scale, Len(text), g)  BY <1>1, MeasuringExists
<1>3. Measuring(text, scale, Len(text), CHOOSE g : Measuring(text, scale, Len(text), g))  BY <1>2
<1>4. Widths(text, scale) = CHOOSE g : Measuring(text, scale, Len(text), g)  BY DEF Widths, Measuring
<1>5. PICK g : g = Widths(text, scale)  OBVIOUS
<1>6. g = [n \in 0 .. Len(text) |->
              IF n = 0 THEN [widest |-> 0, current |-> 0] ELSE WidthAfter(g[n - 1], text[n], scale)]
    BY <1>3, <1>4, <1>5 DEF Measuring
<1>7. g[0] = [widest |-> 0, current |-> 0]  BY <1>1, <1>6
<1>8. \A n \in 1 .. Len(text) : g[n] = WidthAfter(g[n - 1], text[n], scale)
    <2>1. \A n \in 1 .. Len(text) : n \in 0 .. Len(text) /\ n # 0  BY <1>1
    <2>2. QED  BY <1>6, <2>1
<1>9. QED  BY <1>5, <1>7, <1>8

LEMMA WidthIn ==
    ASSUME NEW text \in Seq(Chars), NEW scale \in Int
    PROVE  graphics_text_width(text, scale) \in Int32
<1>1. PICK g : /\ g = Widths(text, scale) /\ g[0] = [widest |-> 0, current |-> 0]
               /\ \A n \in 1 .. Len(text) : g[n] = WidthAfter(g[n - 1], text[n], scale)
    BY WidthsUnfold
<1>2. PICK W : W = [widest : Int32, current : Int32]  OBVIOUS
<1>3. PICK S : S = {n \in Nat : n <= Len(text) => g[n] \in W}  OBVIOUS
<1>4. 0 \in S  BY <1>1, <1>2, <1>3, SmallInts
<1>5. ASSUME NEW n \in Nat, n \in S PROVE n + 1 \in S
    <2>1. SUFFICES ASSUME n + 1 <= Len(text) PROVE g[n + 1] \in W  BY <1>3
    <2>2. n + 1 \in 1 .. Len(text) /\ (n + 1) - 1 = n /\ n <= Len(text)  BY <2>1
    <2>3. PICK w \in W : w = g[n]  BY <1>3, <1>5, <2>2
    <2>4. PICK char \in Chars : char = text[n + 1]  BY <2>2
    <2>5. g[n + 1] = WidthAfter(w, char, scale)  BY <1>1, <2>2, <2>3, <2>4
    <2>6. w.widest \in Int32 /\ w.current \in Int32  BY <1>2
    <2>7. Greatest(w.widest, w.current) \in Int32  BY <2>6 DEF Greatest
    <2>8. PICK more \in Int : more = Advance(char, scale)
        <3>1. \A a, b \in Int : a * b \in Int  OBVIOUS
        <3>2. FontWidth * scale \in Int  BY <3>1, IntMaxIs
        <3>3. QED  BY <3>1, <3>2 DEF Advance
    <2>9. Wrap(w.current + more) \in Int32
        <3>1. PICK k \in Int : k = w.current  BY <2>6, Ints
        <3>3. k + more \in Int  OBVIOUS
        <3>2. QED  BY <3>1, <3>3, WrapInt
    <2>10. CASE char = "\n"
        <3>1. WidthAfter(w, char, scale) = [widest |-> Greatest(w.widest, w.current), current |-> 0]
            BY <2>10 DEF WidthAfter
        <3>2. QED  BY <1>2, <2>5, <2>7, <3>1, SmallInts
    <2>11. CASE char # "\n"
        <3>1. WidthAfter(w, char, scale) = [w EXCEPT !.current = Wrap(w.current + more)]
            BY <2>8, <2>11 DEF WidthAfter
        <3>2. QED  BY <1>2, <2>5, <2>9, <3>1
    <2>12. QED  BY <2>10, <2>11
<1>6. \A n \in Nat : n \in S  BY <1>4, <1>5, SetInduction
<1>7. g[Len(text)] \in W  BY <1>3, <1>6
<1>8. PICK w \in W : w = Widths(text, scale)[Len(text)]  BY <1>1, <1>7
<1>9. w.widest \in Int32 /\ w.current \in Int32  BY <1>2
<1>10. Greatest(w.widest, w.current) \in Int32  BY <1>9 DEF Greatest
<1>11. QED  BY <1>8, <1>10, SmallInts DEF graphics_text_width

LEMMA CommandsHand == ASSUME NEW c \in Asking, Call(c) PROVE Hands(c)
<1>1. CASE command11_draw_pixel(c)
    <2>1. c.op = "pixel" /\ c.at \in Points  BY <1>1, Fields DEF command11_draw_pixel
    <2>2. <<c.at[1], c.at[2]>> = c.at  BY <2>1, PointIs
    <2>3. QED  BY <1>1, <2>1, <2>2 DEF command11_draw_pixel, vix_draw_pixel, Frame, Hands
<1>0. ASSUME c.op \in {"rect", "fill"} PROVE Rect(c.rect.x, c.rect.y, c.rect.width, c.rect.height) = c.rect
    <2>1. c.rect \in Rects  BY <1>0, Fields
    <2>2. QED  BY <2>1 DEF Rects, Rect
<1>2. CASE command12_draw_rect(c)
    <2>1. c.op = "rect"  BY <1>2 DEF command12_draw_rect
    <2>2. RectIn(vix_draw_rect(c)) = c.rect  BY <1>0, <2>1 DEF RectIn, vix_draw_rect, Frame
    <2>3. vix_draw_rect(c).edi = c.color  BY DEF vix_draw_rect, Frame
    <2>4. QED  BY <1>2, <2>1, <2>2, <2>3 DEF command12_draw_rect, Hands
<1>3. CASE command13_fill_rect(c)
    <2>1. c.op = "fill"  BY <1>3 DEF command13_fill_rect
    <2>2. RectIn(vix_fill_rect(c)) = c.rect  BY <1>0, <2>1 DEF RectIn, vix_fill_rect, Frame
    <2>3. vix_fill_rect(c).edi = c.color  BY DEF vix_fill_rect, Frame
    <2>4. QED  BY <1>3, <2>1, <2>2, <2>3 DEF command13_fill_rect, Hands
<1>4. CASE command14_clear_screen(c)
    BY <1>4 DEF command14_clear_screen, vix_clear_screen, Frame, Hands
<1>5. CASE command15_present_frame(c)
    BY <1>5 DEF command15_present_frame, Hands
<1>6. CASE command17_draw_line(c)
    <2>1. c.op = "line" /\ c.from \in Points /\ c.to \in Points  BY <1>6, Fields DEF command17_draw_line
    <2>2. <<c.from[1], c.from[2]>> = c.from /\ <<c.to[1], c.to[2]>> = c.to  BY <2>1, PointIs
    <2>3. QED  BY <1>6, <2>1, <2>2 DEF command17_draw_line, vix_draw_line, Frame, Hands
<1>7. CASE command18_draw_circle(c)
    <2>1. c.op = "circle" /\ c.at \in Points  BY <1>7, Fields DEF command18_draw_circle
    <2>2. <<c.at[1], c.at[2]>> = c.at  BY <2>1, PointIs
    <2>3. QED  BY <1>7, <2>1, <2>2 DEF command18_draw_circle, vix_draw_circle, Frame, Hands
<1>8. CASE command19_fill_circle(c)
    <2>1. c.op = "disc" /\ c.at \in Points  BY <1>8, Fields DEF command19_fill_circle
    <2>2. <<c.at[1], c.at[2]>> = c.at  BY <2>1, PointIs
    <2>3. QED  BY <1>8, <2>1, <2>2 DEF command19_fill_circle, vix_fill_circle, Frame, Hands
<1>9. CASE command20_draw_text(c)
    <2>1. c.op = "text" /\ c.at \in Points  BY <1>9, Fields DEF command20_draw_text
    <2>2. <<c.at[1], c.at[2]>> = c.at  BY <2>1, PointIs
    <2>3. CASE c.text = 0
        <3>1. Nothing(c) /\ result' = -1  BY <1>9, <2>3 DEF command20_draw_text, vix_draw_text, Frame
        <3>2. QED  BY <2>1, <2>3, <3>1 DEF Hands
    <2>4. CASE c.text # 0
        <3>1. result' = 0 /\ graphics_draw_text_scaled(c, TextAt(c.text), c.at, ColorOf(c.color), 1)
            BY <1>9, <2>2, <2>4 DEF command20_draw_text, vix_draw_text, Frame
        <3>2. QED  BY <2>1, <2>4, <3>1 DEF Hands
    <2>5. QED  BY <2>3, <2>4
<1>10. CASE command21_draw_text_scaled(c)
    <2>1. c.op = "scaled" /\ c.at \in Points /\ c.scale \in Int
        BY <1>10, Fields, SmallInts DEF command21_draw_text_scaled
    <2>2. <<c.at[1], c.at[2]>> = c.at  BY <2>1, PointIs
    <2>3. CASE c.text = 0 \/ c.scale <= 0
        <3>1. Nothing(c) /\ result' = -1  BY <1>10, <2>3 DEF command21_draw_text_scaled, vix_draw_text_scaled, Frame
        <3>2. QED  BY <2>1, <3>1 DEF Hands
    <2>4. CASE ~(c.text = 0 \/ c.scale <= 0)
        <3>1. result' = 0 /\ graphics_draw_text_scaled(c, TextAt(c.text), c.at, ColorOf(c.color), c.scale)
            BY <1>10, <2>2, <2>4 DEF command21_draw_text_scaled, vix_draw_text_scaled, Frame
        <3>2. c.text # 0 /\ c.scale > 0  BY <2>1, <2>4
        <3>3. QED  BY <2>1, <3>1, <3>2 DEF Hands
    <2>5. QED  BY <2>3, <2>4
<1>11. CASE command22_text_width(c)
    <2>1. c.op = "width" /\ Nothing(c) /\ c.scale \in Int
        BY <1>11, Fields, SmallInts DEF command22_text_width
    <2>2. result' = IF c.text = 0 \/ c.scale <= 0 THEN -1 ELSE graphics_text_width(TextAt(c.text), c.scale)
        BY <1>11 DEF command22_text_width, vix_text_width, Frame
    <2>3. graphics_text_width(TextAt(c.text), c.scale) \in Int32  BY <2>1, TextsAre, WidthIn
    <2>4. QED  BY <2>1, <2>2, <2>3, SmallInts DEF Hands
<1>12. CASE command23_text_height(c)
    <2>1. c.op = "height" /\ Nothing(c) /\ c.scale \in Int
        BY <1>12, Fields, SmallInts DEF command23_text_height
    <2>2. result' = IF c.scale <= 0 THEN -1 ELSE graphics_text_height(c.scale)
        BY <1>12 DEF command23_text_height, vix_text_height, Frame
    <2>3. graphics_text_height(c.scale) \in Int32
        <3>1. FontHeight * c.scale \in Int
            <4>1. \A a, b \in Int : a * b \in Int  OBVIOUS
            <4>2. QED  BY <2>1, <4>1, IntMaxIs
        <3>2. QED  BY <3>1, WrapInt DEF graphics_text_height
    <2>4. QED  BY <2>1, <2>2, <2>3, SmallInts DEF Hands
<1>13. CASE command1_print(c)
    <2>1. PICK above \in Stale :
              /\ c.op = "print" /\ result' = 0
              /\ graphics_draw_text_scaled(c, TextAt(vios_print(c, above)[0]),
                     <<vios_print(c, above)[1], vios_print(c, above)[2]>>,
                     graphics_rgb_to_color(vios_print(c, above)[3] % 256, vios_print(c, above)[4] % 256,
                                           vios_print(c, above)[5] % 256),
                     vios_print(c, above)[6])
        BY <1>13 DEF command1_print
    <2>2. c.at \in Points /\ c.color \in Nat /\ c.scale \in Int32  BY <2>1, Fields
    <2>3. PICK r, g, b \in 0 .. 255 : r = Byte(Upper(Upper(c.color))) /\ g = Byte(Upper(c.color)) /\ b = Byte(c.color)
        BY <2>2, ByteIn, Zenon
    <2>4. PICK frame : frame = <<0, 0, c.text, c.at[1], c.at[2], r, g, b, c.scale, above>>  OBVIOUS
    <2>5. vios_print(c, above) = [i \in 0 .. 6 |-> frame[i + 4]]  BY <2>3, <2>4 DEF vios_print
    <2>6. PICK item : item = vios_print(c, above)  OBVIOUS
    <2>7. /\ item[1] = c.at[2] /\ item[2] = r /\ item[3] = g /\ item[4] = b /\ item[5] = c.scale /\ item[6] = above
        <3>1. \A i \in 0 .. 6 : item[i] = frame[i + 4]  BY <2>5, <2>6
        <3>2. /\ item[1] = frame[5] /\ item[2] = frame[6] /\ item[3] = frame[7] /\ item[4] = frame[8]
              /\ item[5] = frame[9] /\ item[6] = frame[10]
            BY <3>1
        <3>3. QED  BY <2>4, <3>2
    <2>8. \A n \in Int : n % 256 \in 0 .. 255  OBVIOUS
    <2>9. item[3] % 256 \in 0 .. 255 /\ item[4] % 256 \in 0 .. 255 /\ item[5] % 256 \in 0 .. 255
        <3>1. g \in Int /\ b \in Int /\ c.scale \in Int  BY <2>2, Ints
        <3>2. QED  BY <2>7, <2>8, <3>1
    <2>10. PICK color \in Colors : color = graphics_rgb_to_color(item[3] % 256, item[4] % 256, item[5] % 256)
        BY <2>9, ColorIn, Zenon
    <2>11. PICK at \in Int \X Int : at = <<item[1], item[2]>>
        <3>1. c.at[2] \in Int /\ r \in Int  BY <2>2, PointIs, SmallInts
        <3>2. <<item[1], item[2]>> \in Int \X Int  BY <2>7, <3>1
        <3>3. QED  BY <3>2
    <2>12. PICK scale \in Int : scale = item[6]  BY <2>7, VixConstants, SmallInts
    <2>13. PICK text \in Seq(Chars) : text = TextAt(item[0])  BY TextsAre
    <2>14. graphics_draw_text_scaled(c, text, at, color, scale)  BY <2>1, <2>6, <2>10, <2>11, <2>12, <2>13
    <2>15. QED  BY <2>1, <2>14 DEF Hands
<1>14. CASE command3_putchar(c)
    <2>1. PICK text : /\ text \in {<<>>} \cup {<<char>> : char \in DOMAIN Font}
                      /\ c.op = "putchar" /\ result' = 0
                      /\ graphics_draw_text_scaled(c, text, <<1, 2>>, graphics_rgb_to_color(3, 4, 5), 6)
        BY <1>14 DEF command3_putchar
    <2>2. text \in Seq(Chars)
        <3>1. CASE text = <<>>  BY <3>1
        <3>2. CASE text # <<>>
            <4>1. PICK char \in DOMAIN Font : text = <<char>>  BY <2>1, <3>2
            <4>2. char \in Chars  BY DEF Chars
            <4>3. QED  BY <4>1, <4>2
        <3>3. QED  BY <3>1, <3>2
    <2>3. PICK color \in Colors : color = graphics_rgb_to_color(3, 4, 5)
        <3>1. 3 \in 0 .. 255 /\ 4 \in 0 .. 255 /\ 5 \in 0 .. 255  OBVIOUS
        <3>2. graphics_rgb_to_color(3, 4, 5) \in Colors  BY <3>1, ColorIn, Zenon
        <3>3. QED  BY <3>2
    <2>4. PICK at \in Int \X Int : at = <<1, 2>>
        <3>1. <<1, 2>> \in Int \X Int  OBVIOUS
        <3>2. QED  BY <3>1
    <2>5. PICK scale \in Int : scale = 6  OBVIOUS
    <2>6. graphics_draw_text_scaled(c, text, at, color, scale)  BY <2>1, <2>3, <2>4, <2>5
    <2>7. QED  BY <2>1, <2>2, <2>6 DEF Hands
<1>15. CASE KernelCall(c)
    BY <1>15 DEF KernelCall, Hands
<1>16. QED
    BY <1>1, <1>2, <1>3, <1>4, <1>5, <1>6, <1>7, <1>8, <1>9, <1>10, <1>11, <1>12, <1>13, <1>14, <1>15 DEF Call

LEMMA CallEnters == ASSUME NEW c \in Asking, Call(c) PROVE call' = c /\ loop = Idle /\ made' = made + 1
<1>1. Hands(c)  BY CommandsHand
<1>2. QED
    BY <1>1 DEF Hands, DrawPixel, graphics_draw_rect, graphics_fill_rect, graphics_clear_surface, graphics_present,
                graphics_draw_line, graphics_draw_circle, graphics_fill_circle, graphics_draw_text_scaled, Nothing,
                graphics_set_clip_rect, graphics_blit_surface, graphics_blit_alpha, Loop, Enter

----------------------------------------------------------------------------
(* Every command and every iteration keeps the types.                        *)
LEMMA AxisIn ==
    ASSUME NEW a \in Int32, NEW b \in Int32
    PROVE  Wrap(Abs(Wrap(b - a))) \in Int32
<1>1. b - a \in Int  BY Ints
<1>2. Wrap(b - a) \in Int  BY <1>1, WrapInt
<1>3. Abs(Wrap(b - a)) \in Int  BY <1>2 DEF Abs
<1>4. QED  BY <1>3, WrapInt

LEMMA LineFromIn ==
    ASSUME NEW a \in Points, NEW b \in Points, NEW color \in Colors, NEW rest \in Seq(Points)
    PROVE  LineFrom(a, b, color, rest) \in LineLoops
<1>1. PICK dx, dy \in Int32 : dx = Wrap(Abs(Wrap(b[1] - a[1]))) /\ dy = Wrap(Abs(Wrap(b[2] - a[2])))
    BY AxisIn, PointIs
<1>2. Wrap(dx - dy) \in Int32
    <2>1. dx - dy \in Int  BY Ints
    <2>2. QED  BY <2>1, WrapInt
<1>3. PICK err \in Int32 : err = Wrap(dx - dy)  BY <1>2
<1>4. PICK sx, sy \in {-1, 1} : sx = (IF a[1] < b[1] THEN 1 ELSE -1) /\ sy = (IF a[2] < b[2] THEN 1 ELSE -1)
    OBVIOUS
<1>5. LineFrom(a, b, color, rest) =
          [kind |-> "line", x |-> a[1], y |-> a[2], err |-> err, dx |-> dx, dy |-> dy,
           to |-> b, sx |-> sx, sy |-> sy, color |-> color, rest |-> rest]
    BY <1>1, <1>3, <1>4 DEF LineFrom
<1>6. QED  BY <1>5, PointIs DEF LineLoops

LEMMA CornersIn == ASSUME NEW r \in Rects PROVE Corners(r) \in [1 .. 5 -> Points] /\ SubSeq(Corners(r), 2, 5) \in Seq(Points)
<1>1. r.x \in Int32 /\ r.y \in Int32 /\ r.width \in Int32 /\ r.height \in Int32  BY DEF Rects
<1>2. r.x + r.width - 1 \in Int /\ r.y + r.height - 1 \in Int  BY <1>1, Ints
<1>3. PICK right, bottom \in Int32 : right = Wrap(r.x + r.width - 1) /\ bottom = Wrap(r.y + r.height - 1)
    BY <1>2, WrapInt
<1>4. PICK p1, p2, p3, p4 \in Points :
          p1 = <<r.x, r.y>> /\ p2 = <<right, r.y>> /\ p3 = <<right, bottom>> /\ p4 = <<r.x, bottom>>
    <2>1. /\ <<r.x, r.y>> \in Points /\ <<right, r.y>> \in Points
          /\ <<right, bottom>> \in Points /\ <<r.x, bottom>> \in Points
        BY <1>1 DEF Points
    <2>2. QED  BY <2>1
<1>5. Corners(r) = <<p1, p2, p3, p4, p1>>  BY <1>3, <1>4 DEF Corners
<1>6. SubSeq(<<p1, p2, p3, p4, p1>>, 2, 5) \in Seq(Points)
    <2>1. PICK at : at = <<p1, p2, p3, p4, p1>>  OBVIOUS
    <2>3. \A i \in 2 .. 5 : at[i] \in Points
        <3>1. at[2] = p2 /\ at[3] = p3 /\ at[4] = p4 /\ at[5] = p1  BY <2>1
        <3>2. \A i \in 2 .. 5 : i = 2 \/ i = 3 \/ i = 4 \/ i = 5  OBVIOUS
        <3>3. QED  BY <3>1, <3>2, Zenon
    <2>4. SubSeq(at, 2, 5) \in Seq(Points)
        <3>1. 2 \in Int /\ 5 \in Int  OBVIOUS
        <3>2. QED  BY <2>3, <3>1, SubSeqProperties, Zenon
    <2>5. QED  BY <2>1, <2>4
<1>7. <<p1, p2, p3, p4, p1>> \in [1 .. 5 -> Points]  OBVIOUS
<1>8. QED  BY <1>5, <1>6, <1>7

LEMMA NextLineIn == ASSUME NEW l \in LineLoops PROVE NextLine(l) \in Loops
<1>1. l.rest \in Seq(Points) /\ l.color \in Colors  BY DEF LineLoops
<1>2. CASE Len(l.rest) < 2  BY <1>2 DEF NextLine, Loops
<1>3. CASE ~(Len(l.rest) < 2)
    <2>1. 1 \in 1 .. Len(l.rest) /\ 2 \in 1 .. Len(l.rest) /\ l.rest # <<>>  BY <1>1, <1>3
    <2>2. l.rest[1] \in Points /\ l.rest[2] \in Points /\ Tail(l.rest) \in Seq(Points)  BY <1>1, <2>1
    <2>3. LineFrom(l.rest[1], l.rest[2], l.color, Tail(l.rest)) \in LineLoops  BY <1>1, <2>2, LineFromIn
    <2>4. QED  BY <1>3, <2>3 DEF NextLine, Loops
<1>4. QED  BY <1>2, <1>3

LEMMA MoveIn == ASSUME NEW l \in LineLoops, NEW across \in BOOLEAN, NEW down \in BOOLEAN
                PROVE  Move(l, across, down) \in LineLoops
<1>1. /\ l.x \in Int32 /\ l.y \in Int32 /\ l.err \in Int32 /\ l.dx \in Int32 /\ l.dy \in Int32
      /\ l.sx \in {-1, 1} /\ l.sy \in {-1, 1}
    BY DEF LineLoops
<1>2. PICK x, y, err, dx, dy, sx, sy \in Int :
          x = l.x /\ y = l.y /\ err = l.err /\ dx = l.dx /\ dy = l.dy /\ sx = l.sx /\ sy = l.sy
    <2>1. /\ l.x \in Int /\ l.y \in Int /\ l.err \in Int /\ l.dx \in Int /\ l.dy \in Int
          /\ l.sx \in Int /\ l.sy \in Int
        BY <1>1, Ints
    <2>2. QED  BY <2>1
<1>3. PICK e \in Int : e = err - (IF across THEN dy ELSE 0) + (IF down THEN dx ELSE 0)
    <2>1. err - (IF across THEN dy ELSE 0) + (IF down THEN dx ELSE 0) \in Int  OBVIOUS
    <2>2. QED  BY <2>1
<1>4. Wrap(x + sx) \in Int32 /\ Wrap(y + sy) \in Int32 /\ Wrap(e) \in Int32
    <2>1. x + sx \in Int /\ y + sy \in Int  OBVIOUS
    <2>2. QED  BY <2>1, WrapInt
<1>5. PICK x2, y2, e2 \in Int32 :
          x2 = (IF across THEN Wrap(x + sx) ELSE x) /\ y2 = (IF down THEN Wrap(y + sy) ELSE y) /\ e2 = Wrap(e)
    BY <1>1, <1>2, <1>4
<1>6. Move(l, across, down) = [l EXCEPT !.x = x2, !.y = y2, !.err = e2]  BY <1>2, <1>3, <1>5 DEF Move
<1>7. QED  BY <1>6 DEF LineLoops

LEMMA LineStepIn == ASSUME NEW l \in LineLoops PROVE LineStep(l) \in LineLoops
<1>1. PICK a, b : a = (Wrap(2 * l.err) > Wrap(-l.dy)) /\ b = (Wrap(2 * l.err) < l.dx)  OBVIOUS
<1>2. LineStep(l) = Move(l, a, b)  BY <1>1, Zenon DEF LineStep
<1>3. a \in BOOLEAN /\ b \in BOOLEAN  BY <1>1
<1>4. QED  BY <1>2, <1>3, MoveIn

LEMMA CircleStepIn == ASSUME NEW l \in CircleLoops PROVE CircleStep(l) \in CircleLoops
<1>1. l.x \in Int /\ l.y \in Int /\ l.d \in Int  BY Ints DEF CircleLoops
<1>2. PICK x, y, d \in Int : x = l.x /\ y = l.y /\ d = l.d  BY <1>1
<1>3. PICK x2 \in Int32 : x2 = Wrap(x + 1)
    <2>1. x + 1 \in Int  OBVIOUS
    <2>2. QED  BY <2>1, WrapInt
<1>4. PICK y2 \in Int : y2 = IF d > 0 THEN y - 1 ELSE y
    <2>1. y - 1 \in Int  OBVIOUS
    <2>2. QED  BY <2>1
<1>5. PICK more \in Int : more = IF d > 0 THEN 4 * (x2 - y2) + 10 ELSE 4 * x2 + 6
    <2>1. x2 \in Int  BY Ints
    <2>2. 4 * (x2 - y2) + 10 \in Int /\ 4 * x2 + 6 \in Int  BY <2>1
    <2>3. QED  BY <2>2
<1>6. PICK d2 \in Int32 : d2 = Wrap(d + more)
    <2>1. d + more \in Int  OBVIOUS
    <2>2. QED  BY <2>1, WrapInt
<1>7. CircleStep(l) = [l EXCEPT !.x = x2, !.y = y2, !.d = d2]
    BY <1>2, <1>3, <1>4, <1>5, <1>6 DEF CircleStep
<1>8. QED  BY <1>7 DEF CircleLoops

LEMMA OctantsIn == ASSUME NEW l \in CircleLoops PROVE Octants(l) \in SUBSET (Int \X Int)
<1>1. l.x \in Int /\ l.y \in Int /\ l.center \in Points  BY Ints DEF CircleLoops
<1>2. PICK x, y, a, b \in Int : x = l.x /\ y = l.y /\ a = l.center[1] /\ b = l.center[2]  BY <1>1, PointIs, Ints
<1>3. \A i, j \in {-1, 1} : i * x \in Int /\ j * y \in Int /\ i * y \in Int /\ j * x \in Int  OBVIOUS
<1>4. \A v \in UNION {{<<i * x, j * y>>, <<i * y, j * x>>} : i, j \in {-1, 1}} : v[1] \in Int /\ v[2] \in Int
    BY <1>3
<1>5. \A v \in UNION {{<<i * x, j * y>>, <<i * y, j * x>>} : i, j \in {-1, 1}} :
         <<Wrap(a + v[1]), Wrap(b + v[2])>> \in Int \X Int
    <2>1. TAKE v \in UNION {{<<i * x, j * y>>, <<i * y, j * x>>} : i, j \in {-1, 1}}
    <2>2. PICK m, n \in Int : m = v[1] /\ n = v[2]  BY <1>4
    <2>3. a + m \in Int /\ b + n \in Int  OBVIOUS
    <2>4. Wrap(a + m) \in Int /\ Wrap(b + n) \in Int  BY <2>3, WrapInt
    <2>5. QED  BY <2>2, <2>4
<1>6. QED  BY <1>2, <1>5 DEF Octants

LEMMA ScanlineIn == ASSUME NEW l \in DiscLoops PROVE Scanline(l) \in SUBSET (Int \X Int)
<1>1. PICK y, a, b \in Int : y = l.y /\ a = l.center[1] /\ b = l.center[2]  BY PointIs, Ints DEF DiscLoops
<1>2. PICK from, to : Scanline(l) = {<<Wrap(a + x), Wrap(b + y)>> : x \in from .. to}  BY <1>1 DEF Scanline
<1>3. \A x \in from .. to : <<Wrap(a + x), Wrap(b + y)>> \in Int \X Int
    <2>1. TAKE x \in from .. to
    <2>2. x \in Int  OBVIOUS
    <2>3. a + x \in Int /\ b + y \in Int  BY <2>2
    <2>4. Wrap(a + x) \in Int /\ Wrap(b + y) \in Int  BY <2>3, WrapInt
    <2>5. QED  BY <2>4
<1>4. QED  BY <1>2, <1>3

LEMMA CharPixelsIn ==
    ASSUME NEW l \in TextLoops, NEW char \in Chars
    PROVE  CharPixels(l, char) \in SUBSET (Int \X Int)
<1>1. CASE char \in {"\n", "\t"}  BY <1>1 DEF CharPixels
<1>2. CASE char \notin {"\n", "\t"}
    <2>1. char \in DOMAIN Font  BY <1>2 DEF Chars
    <2>2. \A lit \in Font[char] : lit[1] \in Int /\ lit[2] \in Int
        <3>1. TAKE lit \in Font[char]
        <3>2. lit \in (0 .. FontWidth - 1) \X (0 .. FontHeight - 1)  BY <2>1, GraphicsConstants
        <3>3. lit[1] \in 0 .. FontWidth - 1 /\ lit[2] \in 0 .. FontHeight - 1  BY <3>2
        <3>4. QED  BY <3>3
    <2>3. PICK x, y, s \in Int : x = l.x /\ y = l.y /\ s = l.scale  BY DEF TextLoops
    <2>4. \A lit \in Font[char] : \A sx, sy \in 0 .. s - 1 :
             <<Wrap(x + lit[1] * s + sx), Wrap(y + lit[2] * s + sy)>> \in Int \X Int
        <3>1. TAKE lit \in Font[char]
        <3>2. TAKE sx, sy \in 0 .. s - 1
        <3>3. PICK a, b \in Int : a = lit[1] /\ b = lit[2]  BY <2>2
        <3>4. \A m, n \in Int : m * n \in Int  OBVIOUS
        <3>5. PICK m, n \in Int : m = a * s /\ n = b * s  BY <3>4
        <3>6. x + m + sx \in Int /\ y + n + sy \in Int  OBVIOUS
        <3>7. Wrap(x + m + sx) \in Int /\ Wrap(y + n + sy) \in Int  BY <3>6, WrapInt
        <3>8. QED  BY <3>3, <3>5, <3>7
    <2>5. \A lit \in Font[char] : Block(l, lit) \in SUBSET (Int \X Int)  BY <2>3, <2>4 DEF Block
    <2>6. QED  BY <1>2, <2>5 DEF CharPixels
<1>3. QED  BY <1>1, <1>2

LEMMA CharStepIn ==
    ASSUME NEW l \in TextLoops, l.text # <<>>
    PROVE  /\ Head(l.text) \in Chars
           /\ [l EXCEPT !.text = Tail(@),
                        !.x = IF Head(l.text) = "\n" THEN l.left ELSE Wrap(@ + Advance(Head(l.text), l.scale)),
                        !.y = IF Head(l.text) = "\n" THEN Wrap(@ + FontHeight * l.scale) ELSE @] \in TextLoops
<1>1. PICK char \in Chars, tail \in Seq(Chars) : char = Head(l.text) /\ tail = Tail(l.text)
    <2>1. PICK text \in Seq(Chars) : text = l.text /\ text # <<>>  BY DEF TextLoops
    <2>2. Head(text) \in Chars /\ Tail(text) \in Seq(Chars)  BY <2>1
    <2>3. QED  BY <2>1, <2>2
<1>2. PICK x, y, left, s \in Int : x = l.x /\ y = l.y /\ left = l.left /\ s = l.scale  BY DEF TextLoops
<1>3. \A m, n \in Int : m * n \in Int  OBVIOUS
<1>4. PICK more, down \in Int : more = Advance(char, s) /\ down = FontHeight * s
    <2>1. FontHeight * s \in Int /\ FontWidth * s \in Int  BY <1>3, IntMaxIs
    <2>2. Advance(char, s) \in Int  BY <1>3, <2>1 DEF Advance
    <2>3. QED  BY <2>1, <2>2
<1>5. Wrap(x + more) \in Int /\ Wrap(y + down) \in Int
    <2>1. x + more \in Int /\ y + down \in Int  OBVIOUS
    <2>2. QED  BY <2>1, WrapInt
<1>6. PICK x2, y2 \in Int : x2 = (IF char = "\n" THEN left ELSE Wrap(x + more))
                            /\ y2 = (IF char = "\n" THEN Wrap(y + down) ELSE y)
    BY <1>5
<1>7. [l EXCEPT !.text = tail, !.x = x2, !.y = y2] \in TextLoops  BY DEF TextLoops
<1>8. QED  BY <1>1, <1>2, <1>4, <1>6, <1>7

LEMMA ClipOfIn ==
    ASSUME NEW r \in Rects
    PROVE  ClipOf(r) \in Rects /\ ClipOf(r).x = Greatest(0, r.x) /\ ClipOf(r).y = Greatest(0, r.y)
<1>1. r.x \in Int32 /\ r.y \in Int32 /\ r.width \in Int32 /\ r.height \in Int32  BY DEF Rects
<1>2. PICK x, y \in Int32 : x = Greatest(0, r.x) /\ y = Greatest(0, r.y)  BY <1>1, SmallInts DEF Greatest
<1>3. Wrap(Width - x) \in Int32 /\ Wrap(Height - y) \in Int32
    <2>1. Width - x \in Int /\ Height - y \in Int  BY Ints, IntMaxIs
    <2>2. QED  BY <2>1, WrapInt
<1>4. PICK w, h \in Int32 : w = (IF Wrap(r.x + r.width) > Width THEN Wrap(Width - x) ELSE r.width)
                            /\ h = (IF Wrap(r.y + r.height) > Height THEN Wrap(Height - y) ELSE r.height)
    BY <1>1, <1>3
<1>5. ClipOf(r) = [x |-> x, y |-> y, width |-> w, height |-> h]  BY <1>2, <1>4 DEF ClipOf, Rect
<1>6. QED  BY <1>2, <1>5 DEF Rects

\* The beginnings of the loops.
LEMMA BeginningsIn ==
    ASSUME NEW at \in Points, NEW radius \in Int32, NEW color \in Colors
    PROVE  /\ [kind |-> "circle", x |-> 0, y |-> radius, d |-> Wrap(3 - 2 * radius),
               center |-> at, color |-> color] \in CircleLoops
           /\ [kind |-> "disc", y |-> Wrap(-radius), radius |-> radius, center |-> at, color |-> color] \in DiscLoops
<1>1. radius \in Int  BY Ints
<1>2. 3 - 2 * radius \in Int /\ -radius \in Int  BY <1>1
<1>3. PICK d, y \in Int32 : d = Wrap(3 - 2 * radius) /\ y = Wrap(-radius)  BY <1>2, WrapInt
<1>4. QED  BY <1>1, <1>3, SmallInts DEF CircleLoops, DiscLoops

----------------------------------------------------------------------------
(* The invariant every drawing shares: the clip rectangle is the one asked   *)
(* for, the loop is the call's, with its color, and what was drawn where it  *)
(* may be seen has that color.                                               *)
KindOf(op) ==
    CASE op \in {"line", "rect"} -> "line"
      [] op = "circle" -> "circle"
      [] op = "disc" -> "disc"
      [] op \in {"text", "scaled", "print", "putchar"} -> "text"
      [] OTHER -> "none"

ClipKept == clip = IF asked = NoRect THEN WholeSurface ELSE ClipOf(asked)

Colored == call.op \notin {"print", "putchar"}
LoopFits == loop # Idle => loop.kind = KindOf(call.op) /\ (Colored => loop.color = ColorOf(call.color))

Shown ==
    Colored => \A p \in drawn \cap Area :
                  call.op \in {"fill", "clear"} \/ Visible(p) => pixels.back[p] = ColorOf(call.color)

CoreInv == VixTypes /\ ClipKept /\ LoopFits /\ Shown

LEMMA NoneOf == [op |-> "none"].op = "none"
OBVIOUS

LEMMA CoreStarts == ASSUME VixInit PROVE CoreInv
<1> USE DEF VixInit, Init
<1>1. Black \in Colors  BY DEF Black, Colors
<1>2. pixels \in Pictures  BY <1>1 DEF Pictures
<1>3. WholeSurface \in Rects /\ WholeSurface.x >= 0 /\ WholeSurface.y >= 0
    BY SmallInts, IntMaxIs DEF WholeSurface, Rect, Rects
<1>4. VixTypes  BY <1>2, <1>3, SmallInts DEF VixTypes, Loops
<1>5. ClipKept  BY DEF ClipKept
<1>6. LoopFits  BY DEF LoopFits
<1>7. Shown  BY DEF Shown
<1>8. QED  BY <1>4, <1>5, <1>6, <1>7 DEF CoreInv

LEMMA LoopBegins ==
    ASSUME CoreInv, NEW c \in Asking, NEW l \in LineLoops \cup CircleLoops \cup DiscLoops \cup TextLoops, Loop(c, l),
           l.kind = KindOf(c.op), c.op \notin {"print", "putchar"} => l.color = ColorOf(c.color), result' \in Int32
    PROVE  CoreInv'
<1>1. /\ call' = c /\ made' = made + 1 /\ loop' = l /\ drawn' = {}
      /\ pixels' = pixels /\ clip' = clip /\ asked' = asked
    BY DEF Loop, Enter
<1>2. VixTypes'  BY <1>1 DEF CoreInv, VixTypes, Loops
<1>3. ClipKept'  BY <1>1 DEF CoreInv, ClipKept
<1>4. LoopFits'  BY <1>1 DEF LoopFits, Colored
<1>5. Shown'  BY <1>1 DEF Shown
<1>6. QED  BY <1>2, <1>3, <1>4, <1>5 DEF CoreInv

LEMMA TextBegins ==
    ASSUME CoreInv, NEW c \in Asking, c.op \in {"text", "scaled", "print", "putchar"}, result' \in Int32,
           NEW text \in Seq(Chars), NEW at \in Int \X Int, NEW color \in Colors, NEW scale \in Int,
           c.op \notin {"print", "putchar"} => color = ColorOf(c.color),
           graphics_draw_text_scaled(c, text, at, color, scale)
    PROVE  CoreInv'
<1>1. CASE scale < 1
    <2>1. Nothing(c)  BY <1>1 DEF graphics_draw_text_scaled
    <2>2. /\ call' = c /\ made' = made + 1 /\ loop' = loop /\ drawn' = {} /\ loop = Idle
          /\ pixels' = pixels /\ clip' = clip /\ asked' = asked
        BY <2>1 DEF Nothing, Enter
    <2>3. VixTypes'  BY <2>2 DEF CoreInv, VixTypes
    <2>4. ClipKept'  BY <2>2 DEF CoreInv, ClipKept
    <2>5. LoopFits'  BY <2>2 DEF LoopFits
    <2>6. Shown'  BY <2>2 DEF Shown
    <2>7. QED  BY <2>3, <2>4, <2>5, <2>6 DEF CoreInv
<1>2. CASE ~(scale < 1)
    <2>1. PICK l : l = [kind |-> "text", text |-> text, x |-> at[1], y |-> at[2], left |-> at[1],
                        scale |-> scale, color |-> color]
        OBVIOUS
    <2>2. l \in TextLoops  BY <2>1 DEF TextLoops
    <2>3. Loop(c, l)  BY <1>2, <2>1 DEF graphics_draw_text_scaled
    <2>4. l.kind = KindOf(c.op) /\ l.color = color  BY <2>1 DEF KindOf
    <2>5. QED  BY <2>2, <2>3, <2>4, LoopBegins
<1>3. QED  BY <1>1, <1>2

LEMMA NothingKeeps ==
    ASSUME CoreInv, NEW c \in Asking, Nothing(c), result' \in Int32
    PROVE  CoreInv'
<1>1. /\ call' = c /\ made' = made + 1 /\ loop' = loop /\ drawn' = {} /\ loop = Idle
      /\ pixels' = pixels /\ clip' = clip /\ asked' = asked
    BY DEF Nothing, Enter
<1>2. VixTypes'  BY <1>1 DEF CoreInv, VixTypes
<1>3. ClipKept'  BY <1>1 DEF CoreInv, ClipKept
<1>4. LoopFits'  BY <1>1 DEF LoopFits
<1>5. Shown'  BY <1>1 DEF Shown
<1>6. QED  BY <1>2, <1>3, <1>4, <1>5 DEF CoreInv

\* A call that is over at once and sets nothing by set_pixel.
LEMMA AtOnceKeeps ==
    ASSUME CoreInv, NEW c \in Asking, Enter(c), loop' = loop, clip' = clip, asked' = asked, result' \in Int32,
           pixels' \in Pictures, drawn' \in SUBSET (Int \X Int), Shown'
    PROVE  CoreInv'
<1>1. call' = c /\ made' = made + 1 /\ loop = Idle  BY DEF Enter
<1>2. VixTypes'  BY <1>1 DEF CoreInv, VixTypes
<1>3. ClipKept'  BY DEF CoreInv, ClipKept
<1>4. LoopFits'  BY <1>1 DEF LoopFits
<1>5. QED  BY <1>2, <1>3, <1>4 DEF CoreInv

LEMMA PixelKeeps ==
    ASSUME CoreInv, NEW c \in Asking, c.op = "pixel", DrawPixel(c, c.at, ColorOf(c.color)), result' = 0
    PROVE  CoreInv'
<1>1. c.at \in Points /\ c.color \in Nat  BY Fields
<1>2. PICK at \in Int \X Int : at = c.at  BY <1>1, PointIs, Ints
<1>3. PICK color \in Colors : color = ColorOf(c.color)  BY <1>1, ColorOfIn
<1>4. Enter(c) /\ SetPixels({at}, color) /\ drawn' = {at} /\ clip' = clip /\ loop' = loop /\ asked' = asked
    BY <1>2, <1>3 DEF DrawPixel
<1>5. pixels \in Pictures  BY DEF CoreInv, VixTypes
<1>6. PICK points \in SUBSET (Int \X Int) : points = {at}  OBVIOUS
<1>7. /\ pixels' \in Pictures /\ pixels'.front = pixels.front
      /\ \A p \in Area : pixels'.back[p] = IF p \in points /\ Visible(p) THEN color ELSE pixels.back[p]
    BY <1>4, <1>5, <1>6, SetPixelsDo
<1>8. call' = c  BY <1>4 DEF Enter
<1>9. Shown'
    <2>1. \A p \in Area : p \in points /\ Visible(p) => pixels'.back[p] = color  BY <1>7
    <2>2. \A p : Visible(p)' <=> Visible(p)  BY <1>4 DEF Visible
    <2>3. QED  BY <1>3, <1>4, <1>6, <1>8, <2>1, <2>2 DEF Shown
<1>10. QED  BY <1>4, <1>6, <1>7, <1>9, AtOnceKeeps, SmallInts

\* Rectangles filled without set_pixel.
LEMMA PaintKeeps ==
    ASSUME CoreInv, NEW c \in Asking, c.op \in {"fill", "clear"}, Enter(c), NEW points \in SUBSET Area, result' = 0,
           pixels' = [pixels EXCEPT !.back = Stored(@, points, ColorOf(c.color))],
           drawn' = points, clip' = clip, loop' = loop, asked' = asked
    PROVE  CoreInv'
<1>1. PICK color \in Colors : color = ColorOf(c.color)
    <2>1. c.color \in Nat  BY Fields
    <2>2. QED  BY <2>1, ColorOfIn
<1>2. pixels' = Painted(pixels, points, color)  BY <1>1 DEF Painted
<1>3. pixels \in Pictures  BY DEF CoreInv, VixTypes
<1>4. /\ pixels' \in Pictures
      /\ \A p \in Area : pixels'.back[p] = IF p \in points THEN color ELSE pixels.back[p]
    <2>1. PICK b \in Pictures : b = pixels  BY <1>3
    <2>2. /\ Painted(b, points, color) \in Pictures
          /\ \A p \in Area : Painted(b, points, color).back[p] = IF p \in points THEN color ELSE b.back[p]
        BY PaintedIs
    <2>3. QED  BY <1>2, <2>1, <2>2
<1>5. call' = c  BY DEF Enter
<1>6. Shown'  BY <1>1, <1>4, <1>5 DEF Shown
<1>7. drawn' \in SUBSET (Int \X Int)  BY AreaIs
<1>8. QED  BY <1>4, <1>6, <1>7, AtOnceKeeps, SmallInts

LEMMA ColumnsAre ==
    ASSUME NEW r \in Rects
    PROVE  Columns(r) \X Rows(r) \in SUBSET Area
<1>1. r.x \in Int /\ r.y \in Int /\ Wrap(r.x + r.width) \in Int /\ Wrap(r.y + r.height) \in Int
    <2>1. r.x \in Int /\ r.y \in Int /\ r.width \in Int /\ r.height \in Int  BY Ints DEF Rects
    <2>2. r.x + r.width \in Int /\ r.y + r.height \in Int  BY <2>1
    <2>3. QED  BY <2>1, <2>2, WrapInt
<1>2. PICK x, y, right, bottom \in Int :
          x = r.x /\ y = r.y /\ right = Wrap(r.x + r.width) /\ bottom = Wrap(r.y + r.height)
    BY <1>1
<1>3. Columns(r) \subseteq 0 .. Width - 1
    <2>1. Columns(r) = Greatest(0, x) .. Least(Width, right) - 1  BY <1>2 DEF Columns
    <2>2. QED  BY <2>1, IntMaxIs DEF Greatest, Least
<1>4. Rows(r) \subseteq 0 .. Height - 1
    <2>1. Rows(r) = Greatest(0, y) .. Least(Height, bottom) - 1  BY <1>2 DEF Rows
    <2>2. QED  BY <2>1, IntMaxIs DEF Greatest, Least
<1>5. QED  BY <1>3, <1>4 DEF Area

LEMMA BlitKeeps ==
    ASSUME CoreInv, NEW c \in Asking, c.op \in {"blit", "alpha"}, result' = result,
           graphics_blit_surface(c) \/ (c.op = "alpha" /\ graphics_blit_alpha(c))
    PROVE  CoreInv' /\ pixels'.front = pixels.front
<1>1. PICK r \in Rects : r = Source(c)  BY SourceIn
<1>2. PICK to \in Points, src \in {"front", "back"} : to = c.to /\ src = c.src  BY Fields
<1>3. Enter(c) /\ drawn' = {} /\ clip' = clip /\ loop' = loop /\ asked' = asked
    BY DEF graphics_blit_surface, graphics_blit_alpha
<1>4. PICK order \in Seq(Area), alpha \in 0 .. 255 : pixels' = Copied(order, r, to, src, alpha)
    <2>1. BlitOrder(r) \in Seq(Area) /\ BlendOrder(r) \in Seq(Area)  BY OrdersIn
    <2>2. CASE graphics_blit_surface(c)
        <3>1. pixels' = Copied(BlitOrder(r), r, to, src, 255)  BY <1>1, <1>2, <2>2 DEF graphics_blit_surface
        <3>2. 255 \in 0 .. 255  OBVIOUS
        <3>3. QED  BY <2>1, <3>1, <3>2
    <2>3. CASE c.op = "alpha" /\ graphics_blit_alpha(c)
        <3>1. pixels' = Copied(BlendOrder(r), r, to, src, c.alpha)  BY <1>1, <1>2, <2>3 DEF graphics_blit_alpha
        <3>2. c.alpha \in 0 .. 255  BY <2>3, Fields
        <3>3. QED  BY <2>1, <3>1, <3>2
    <2>4. QED  BY <2>2, <2>3
<1>5. pixels \in Pictures  BY DEF CoreInv, VixTypes
<1>6. pixels' \in Pictures /\ pixels'.front = pixels.front
    <2>1. Len(order) \in 0 .. Len(order)  OBVIOUS
    <2>2. QED  BY <1>4, <1>5, <2>1, CopiesKeepTypes, Zenon DEF Copied
<1>7. Shown'  BY <1>3 DEF Shown
<1>8. drawn' \in SUBSET (Int \X Int) /\ result' \in Int32  BY <1>3 DEF CoreInv, VixTypes
<1>9. QED  BY <1>3, <1>6, <1>7, <1>8, AtOnceKeeps

LEMMA ClipKeeps ==
    ASSUME CoreInv, NEW c \in Asking, c.op = "clip", graphics_set_clip_rect(c), result' = result
    PROVE  CoreInv'
<1>1. c.rect \in Rects \cup {NoRect}  BY Fields
<1>2. /\ call' = c /\ made' = made + 1 /\ loop = Idle /\ loop' = loop /\ pixels' = pixels /\ drawn' = {}
      /\ asked' = c.rect /\ clip' = IF c.rect = NoRect THEN WholeSurface ELSE ClipOf(c.rect)
    BY DEF graphics_set_clip_rect, Enter
<1>3. clip' \in Rects /\ clip'.x >= 0 /\ clip'.y >= 0
    <2>1. WholeSurface \in Rects /\ WholeSurface.x >= 0 /\ WholeSurface.y >= 0
        BY SmallInts, IntMaxIs DEF WholeSurface, Rect, Rects
    <2>2. CASE c.rect = NoRect  BY <1>2, <2>1, <2>2
    <2>3. CASE c.rect # NoRect
        <3>1. PICK r \in Rects : r = c.rect  BY <1>1, <2>3
        <3>2. r.x \in Int /\ r.y \in Int  BY Ints DEF Rects
        <3>3. Greatest(0, r.x) >= 0 /\ Greatest(0, r.y) >= 0  BY <3>2 DEF Greatest
        <3>4. QED  BY <1>2, <2>3, <3>1, <3>3, ClipOfIn
    <2>4. QED  BY <2>2, <2>3
<1>4. VixTypes'  BY <1>1, <1>2, <1>3 DEF CoreInv, VixTypes
<1>5. ClipKept'  BY <1>2 DEF ClipKept
<1>6. LoopFits'  BY <1>2 DEF LoopFits
<1>7. Shown'  BY <1>2 DEF Shown
<1>8. QED  BY <1>4, <1>5, <1>6, <1>7 DEF CoreInv

LEMMA PresentKeeps ==
    ASSUME CoreInv, NEW c \in Asking, c.op = "present", graphics_present(c), result' = 0
    PROVE  CoreInv' /\ pixels'.front = pixels'.back
<1>1. Enter(c) /\ pixels' = [pixels EXCEPT !.front = pixels.back] /\ drawn' = {}
      /\ clip' = clip /\ loop' = loop /\ asked' = asked
    BY DEF graphics_present
<1>2. pixels \in Pictures  BY DEF CoreInv, VixTypes
<1>3. pixels' \in Pictures /\ pixels'.front = pixels'.back  BY <1>1, <1>2 DEF Pictures
<1>4. Shown'  BY <1>1 DEF Shown
<1>5. drawn' \in SUBSET (Int \X Int) /\ result' \in Int32  BY <1>1, SmallInts
<1>6. QED  BY <1>1, <1>3, <1>4, <1>5, AtOnceKeeps

LEMMA CallKeepsCore == ASSUME CoreInv, NEW c \in Asking, Call(c) PROVE CoreInv'
<1>1. Hands(c)  BY CommandsHand
<1>2. 0 \in Int32 /\ -1 \in Int32 /\ result \in Int32  BY SmallInts DEF CoreInv, VixTypes
<1>3. CASE c.op = "pixel"
    <2>1. DrawPixel(c, c.at, ColorOf(c.color)) /\ result' = 0  BY <1>1, <1>3 DEF Hands
    <2>2. QED  BY <1>3, <2>1, PixelKeeps
<1>4. CASE c.op = "rect"
    <2>1. graphics_draw_rect(c, c.rect, ColorOf(c.color)) /\ result' = 0  BY <1>1, <1>4 DEF Hands
    <2>2. PICK r \in Rects, color \in Colors : r = c.rect /\ color = ColorOf(c.color)  BY <1>4, Fields, ColorOfIn
    <2>3. PICK l : l = LineFrom(Corners(r)[1], Corners(r)[2], color, SubSeq(Corners(r), 2, 5))  OBVIOUS
    <2>4. l \in LineLoops
        <3>1. Corners(r)[1] \in Points /\ Corners(r)[2] \in Points /\ SubSeq(Corners(r), 2, 5) \in Seq(Points)
            BY CornersIn
        <3>2. QED  BY <2>3, <3>1, LineFromIn
    <2>5. Loop(c, l)  BY <2>1, <2>2, <2>3 DEF graphics_draw_rect
    <2>6. l.kind = KindOf(c.op) /\ l.color = color  BY <1>4, <2>3 DEF KindOf, LineFrom
    <2>7. QED  BY <1>2, <2>1, <2>2, <2>4, <2>5, <2>6, LoopBegins
<1>5. CASE c.op = "fill"
    <2>1. graphics_fill_rect(c, c.rect, ColorOf(c.color)) /\ result' = 0  BY <1>1, <1>5 DEF Hands
    <2>2. c.rect \in Rects  BY <1>5, Fields
    <2>3. PICK points \in SUBSET Area : points = Columns(c.rect) \X Rows(c.rect)  BY <2>2, ColumnsAre
    <2>4. /\ Enter(c) /\ drawn' = points /\ clip' = clip /\ loop' = loop /\ asked' = asked
          /\ pixels' = [pixels EXCEPT !.back = Stored(@, points, ColorOf(c.color))]
        BY <2>1, <2>3 DEF graphics_fill_rect
    <2>5. QED  BY <1>5, <2>1, <2>4, PaintKeeps
<1>6. CASE c.op = "clear"
    <2>1. graphics_clear_surface(c, ColorOf(c.color)) /\ result' = 0  BY <1>1, <1>6 DEF Hands
    <2>2. PICK points \in SUBSET Area : points = Area  OBVIOUS
    <2>3. /\ Enter(c) /\ drawn' = points /\ clip' = clip /\ loop' = loop /\ asked' = asked
          /\ pixels' = [pixels EXCEPT !.back = Stored(@, points, ColorOf(c.color))]
        BY <2>1, <2>2 DEF graphics_clear_surface
    <2>4. QED  BY <1>6, <2>1, <2>3, PaintKeeps
<1>7. CASE c.op = "present"
    <2>1. graphics_present(c) /\ result' = 0  BY <1>1, <1>7 DEF Hands
    <2>2. QED  BY <1>7, <2>1, PresentKeeps
<1>8. CASE c.op = "line"
    <2>1. graphics_draw_line(c, c.from, c.to, ColorOf(c.color)) /\ result' = 0  BY <1>1, <1>8 DEF Hands
    <2>2. PICK a, b \in Points, color \in Colors : a = c.from /\ b = c.to /\ color = ColorOf(c.color)
        BY <1>8, Fields, ColorOfIn
    <2>3. PICK l : l = LineFrom(a, b, color, <<>>)  OBVIOUS
    <2>4. l \in LineLoops
        <3>1. <<>> \in Seq(Points)  OBVIOUS
        <3>2. QED  BY <2>3, <3>1, LineFromIn
    <2>5. Loop(c, l)  BY <2>1, <2>2, <2>3 DEF graphics_draw_line
    <2>6. l.kind = KindOf(c.op) /\ l.color = color  BY <1>8, <2>3 DEF KindOf, LineFrom
    <2>7. QED  BY <1>2, <2>1, <2>2, <2>4, <2>5, <2>6, LoopBegins
<1>9. CASE c.op = "circle"
    <2>1. graphics_draw_circle(c, c.at, c.radius, ColorOf(c.color)) /\ result' = 0  BY <1>1, <1>9 DEF Hands
    <2>2. PICK at \in Points, radius \in Int32, color \in Colors :
              at = c.at /\ radius = c.radius /\ color = ColorOf(c.color)
        BY <1>9, Fields, ColorOfIn
    <2>3. PICK l : l = [kind |-> "circle", x |-> 0, y |-> radius, d |-> Wrap(3 - 2 * radius),
                        center |-> at, color |-> color]
        OBVIOUS
    <2>4. l \in CircleLoops  BY <2>3, BeginningsIn
    <2>5. Loop(c, l)  BY <2>1, <2>2, <2>3 DEF graphics_draw_circle
    <2>6. l.kind = KindOf(c.op) /\ l.color = color  BY <1>9, <2>3 DEF KindOf
    <2>7. QED  BY <1>2, <2>1, <2>2, <2>4, <2>5, <2>6, LoopBegins
<1>10. CASE c.op = "disc"
    <2>1. graphics_fill_circle(c, c.at, c.radius, ColorOf(c.color)) /\ result' = 0  BY <1>1, <1>10 DEF Hands
    <2>2. PICK at \in Points, radius \in Int32, color \in Colors :
              at = c.at /\ radius = c.radius /\ color = ColorOf(c.color)
        BY <1>10, Fields, ColorOfIn
    <2>3. PICK l : l = [kind |-> "disc", y |-> Wrap(-radius), radius |-> radius, center |-> at, color |-> color]
        OBVIOUS
    <2>4. l \in DiscLoops  BY <2>3, BeginningsIn
    <2>5. Loop(c, l)  BY <2>1, <2>2, <2>3 DEF graphics_fill_circle
    <2>6. l.kind = KindOf(c.op) /\ l.color = color  BY <1>10, <2>3 DEF KindOf
    <2>7. QED  BY <1>2, <2>1, <2>2, <2>4, <2>5, <2>6, LoopBegins
<1>11. CASE c.op \in {"text", "scaled"}
    <2>1. \/ Nothing(c) /\ result' = -1
          \/ /\ result' = 0
             /\ \E scale \in Int : graphics_draw_text_scaled(c, TextAt(c.text), c.at, ColorOf(c.color), scale)
        <3>1. c.op = "scaled" => c.scale \in Int  BY Fields, Ints
        <3>2. QED  BY <1>1, <1>11, <3>1 DEF Hands
    <2>2. CASE Nothing(c) /\ result' = -1  BY <1>2, <2>2, NothingKeeps
    <2>3. CASE result' = 0 /\ \E scale \in Int : graphics_draw_text_scaled(c, TextAt(c.text), c.at, ColorOf(c.color), scale)
        <3>1. PICK scale \in Int : graphics_draw_text_scaled(c, TextAt(c.text), c.at, ColorOf(c.color), scale)
            BY <2>3
        <3>2. PICK at \in Int \X Int, color \in Colors : at = c.at /\ color = ColorOf(c.color)
            <4>1. c.at \in Points /\ c.color \in Nat  BY <1>11, Fields
            <4>2. c.at \in Int \X Int  BY <4>1, PointIs, Ints
            <4>3. QED  BY <4>1, <4>2, ColorOfIn
        <3>3. PICK text \in Seq(Chars) : text = TextAt(c.text)  BY TextsAre
        <3>4. graphics_draw_text_scaled(c, text, at, color, scale)  BY <3>1, <3>2, <3>3
        <3>5. QED  BY <1>2, <1>11, <2>3, <3>2, <3>4, TextBegins
    <2>4. QED  BY <2>1, <2>2, <2>3
<1>12. CASE c.op \in {"print", "putchar"}
    <2>1. /\ result' = 0
          /\ \E text \in Seq(Chars), at \in Int \X Int, color \in Colors, scale \in Int :
                graphics_draw_text_scaled(c, text, at, color, scale)
        BY <1>1, <1>12 DEF Hands
    <2>2. PICK text \in Seq(Chars), at \in Int \X Int, color \in Colors, scale \in Int :
              graphics_draw_text_scaled(c, text, at, color, scale)
        BY <2>1
    <2>3. QED  BY <1>2, <1>12, <2>1, <2>2, TextBegins
<1>13. CASE c.op \in {"width", "height"}
    <2>1. Nothing(c) /\ result' \in Int32  BY <1>1, <1>13 DEF Hands
    <2>2. QED  BY <2>1, NothingKeeps
<1>14. CASE c.op = "clip"
    <2>1. graphics_set_clip_rect(c) /\ result' = result  BY <1>1, <1>14 DEF Hands
    <2>2. QED  BY <1>14, <2>1, ClipKeeps
<1>15. CASE c.op \in {"blit", "alpha"}
    <2>1. /\ graphics_blit_surface(c) \/ (c.op = "alpha" /\ graphics_blit_alpha(c))
          /\ result' = result
        BY <1>1, <1>15 DEF Hands
    <2>2. QED  BY <1>15, <2>1, BlitKeeps
<1>16. c.op \in {"pixel", "line", "rect", "fill", "clear", "present", "putchar", "circle", "disc", "text",
                 "scaled", "print", "width", "height", "clip", "blit", "alpha"}
    BY Fields
<1>17. QED
    BY <1>3, <1>4, <1>5, <1>6, <1>7, <1>8, <1>9, <1>10, <1>11, <1>12, <1>13, <1>14, <1>15, <1>16

\* An iteration that sets points with the loop's color and goes on, or is the last.
Paints(points) ==
    /\ SetPixels(points, loop.color)
    /\ drawn' = drawn \cup points
    /\ UNCHANGED <<clip, call, made, asked, result>>

LEMMA PaintsKeeps ==
    ASSUME CoreInv, NEW points \in SUBSET (Int \X Int), Paints(points), loop # Idle,
           loop' \in Loops, loop' # Idle => loop'.kind = loop.kind /\ loop'.color = loop.color
    PROVE  CoreInv'
<1>1. PICK color \in Colors : color = loop.color
    <2>1. loop.color \in Colors
        BY Kinds DEF CoreInv, VixTypes, LineLoops, CircleLoops, DiscLoops, TextLoops
    <2>2. QED  BY <2>1
<1>2. pixels \in Pictures /\ drawn \in SUBSET (Int \X Int)  BY DEF CoreInv, VixTypes
<1>3. /\ pixels' \in Pictures
      /\ \A p \in Area : pixels'.back[p] = IF p \in points /\ Visible(p) THEN color ELSE pixels.back[p]
    BY <1>1, <1>2, SetPixelsDo DEF Paints
<1>4. drawn' = drawn \cup points /\ clip' = clip /\ call' = call /\ made' = made /\ asked' = asked /\ result' = result
    BY DEF Paints
<1>5. VixTypes'  BY <1>2, <1>3, <1>4 DEF CoreInv, VixTypes
<1>6. ClipKept'  BY <1>4 DEF CoreInv, ClipKept
<1>7. LoopFits'  BY <1>4 DEF CoreInv, LoopFits, Colored
<1>8. Shown'
    <2>1. loop.kind = KindOf(call.op) /\ (Colored => color = ColorOf(call.color))
        BY <1>1 DEF CoreInv, LoopFits
    <2>2. call.op \notin {"fill", "clear"}
        <3>1. loop.kind \in {"line", "circle", "disc", "text"}  BY Kinds DEF CoreInv, VixTypes
        <3>2. QED  BY <2>1, <3>1 DEF KindOf
    <2>3. ASSUME Colored, NEW p \in (drawn \cup points) \cap Area, Visible(p)
          PROVE  pixels'.back[p] = ColorOf(call.color)
        <3>1. CASE p \in points  BY <1>3, <2>1, <2>3, <3>1
        <3>2. CASE p \notin points
            <4>1. pixels.back[p] = ColorOf(call.color)  BY <2>3, <3>2 DEF CoreInv, Shown
            <4>2. QED  BY <1>3, <3>2, <4>1
        <3>3. QED  BY <3>1, <3>2
    <2>4. \A p : Visible(p)' <=> Visible(p)  BY <1>4 DEF Visible
    <2>5. QED  BY <1>4, <2>2, <2>3, <2>4 DEF Shown, Colored
<1>9. QED  BY <1>5, <1>6, <1>7, <1>8 DEF CoreInv

\* The last look at a loop's condition.
LEMMA LastKeeps ==
    ASSUME CoreInv, loop' = Idle, UNCHANGED <<pixels, clip, call, made, drawn, asked, result>>
    PROVE  CoreInv'
<1>1. VixTypes'  BY DEF CoreInv, VixTypes, Loops
<1>2. ClipKept'  BY DEF CoreInv, ClipKept
<1>3. LoopFits'  BY DEF LoopFits
<1>4. Shown'  BY DEF CoreInv, Shown, Colored, Visible
<1>5. QED  BY <1>1, <1>2, <1>3, <1>4 DEF CoreInv

LEMMA LineIs ==
    ASSUME CoreInv, LineIteration, UNCHANGED result
    PROVE  /\ loop \in LineLoops /\ {<<loop.x, loop.y>>} \in SUBSET (Int \X Int) /\ Paints({<<loop.x, loop.y>>})
           /\ loop' = IF <<loop.x, loop.y>> = loop.to THEN NextLine(loop) ELSE LineStep(loop)
<1>1. loop \in LineLoops  BY Kinds DEF LineIteration, CoreInv, VixTypes
<1>2. loop.x \in Int /\ loop.y \in Int  BY <1>1, Ints DEF LineLoops
<1>3. QED  BY <1>1, <1>2 DEF LineIteration, Paints

LEMMA LineKeeps == ASSUME CoreInv, LineIteration, UNCHANGED result PROVE CoreInv'
<1>1. PICK points \in SUBSET (Int \X Int) : points = {<<loop.x, loop.y>>} /\ Paints(points)  BY LineIs
<1>2. loop \in LineLoops /\ loop # Idle
    <2>1. Idle.kind = "idle" /\ loop.kind = "line"  BY LineIs DEF Idle, LineLoops
    <2>2. QED  BY <2>1, LineIs
<1>3. CASE <<loop.x, loop.y>> = loop.to
    <2>1. loop' = NextLine(loop)  BY <1>3, LineIs
    <2>2. loop' # Idle => loop'.kind = loop.kind /\ loop'.color = loop.color
        BY <1>2, <2>1 DEF NextLine, LineFrom, LineLoops
    <2>3. loop' \in Loops  BY <1>2, <2>1, NextLineIn
    <2>4. QED  BY <1>1, <1>2, <2>2, <2>3, PaintsKeeps
<1>4. CASE <<loop.x, loop.y>> # loop.to
    <2>1. loop' = LineStep(loop)  BY <1>4, LineIs
    <2>2. loop' \in LineLoops  BY <1>2, <2>1, LineStepIn
    <2>3. loop'.kind = "line" /\ loop.kind = "line"  BY <1>2, <2>2 DEF LineLoops
    <2>4. loop'.color = loop.color
        <3>1. PICK l \in LineLoops : l = loop  BY <1>2
        <3>2. \A across, down : Move(l, across, down).color = l.color  BY DEF Move, LineLoops
        <3>3. QED  BY <2>1, <3>1, <3>2 DEF LineStep
    <2>5. QED  BY <1>1, <1>2, <2>2, <2>3, <2>4, PaintsKeeps DEF Loops
<1>5. QED  BY <1>3, <1>4

LEMMA CircleIs ==
    ASSUME CoreInv, CircleIteration, UNCHANGED result
    PROVE  /\ loop \in CircleLoops /\ loop # Idle
           /\ \/ /\ loop.y >= loop.x /\ Paints(Octants(loop)) /\ Octants(loop) \in SUBSET (Int \X Int)
                 /\ loop' = CircleStep(loop)
              \/ /\ ~(loop.y >= loop.x) /\ loop' = Idle
                 /\ UNCHANGED <<pixels, clip, call, made, drawn, asked, result>>
<1>1. loop \in CircleLoops  BY Kinds DEF CircleIteration, CoreInv, VixTypes
<1>2. loop # Idle
    <2>1. Idle.kind = "idle" /\ loop.kind = "circle"  BY DEF Idle, CircleIteration
    <2>2. QED  BY <2>1
<1>3. Octants(loop) \in SUBSET (Int \X Int)  BY <1>1, OctantsIn
<1>4. QED  BY <1>1, <1>2, <1>3 DEF CircleIteration, Paints

LEMMA CircleKeeps == ASSUME CoreInv, CircleIteration, UNCHANGED result PROVE CoreInv'
<1>1. CASE ~(loop.y >= loop.x)
    <2>1. loop' = Idle /\ UNCHANGED <<pixels, clip, call, made, drawn, asked, result>>  BY <1>1, CircleIs
    <2>2. QED  BY <2>1, LastKeeps
<1>2. CASE loop.y >= loop.x
    <2>1. PICK points \in SUBSET (Int \X Int) : points = Octants(loop) /\ Paints(points)  BY <1>2, CircleIs
    <2>2. PICK l \in CircleLoops : l = loop /\ loop' = CircleStep(l)  BY <1>2, CircleIs
    <2>3. loop' \in CircleLoops  BY <2>2, CircleStepIn
    <2>4. loop'.kind = loop.kind /\ loop'.color = loop.color
        BY <2>2 DEF CircleStep, CircleLoops
    <2>5. QED  BY <2>1, <2>3, <2>4, CircleIs, PaintsKeeps DEF Loops
<1>3. QED  BY <1>1, <1>2

LEMMA DiscIs ==
    ASSUME CoreInv, DiscIteration, UNCHANGED result
    PROVE  /\ loop \in DiscLoops /\ loop # Idle
           /\ \/ /\ loop.y <= loop.radius /\ Paints(Scanline(loop)) /\ Scanline(loop) \in SUBSET (Int \X Int)
                 /\ loop' = [loop EXCEPT !.y = Wrap(@ + 1)]
              \/ /\ ~(loop.y <= loop.radius) /\ loop' = Idle
                 /\ UNCHANGED <<pixels, clip, call, made, drawn, asked, result>>
<1>1. loop \in DiscLoops  BY Kinds DEF DiscIteration, CoreInv, VixTypes
<1>2. loop # Idle
    <2>1. Idle.kind = "idle" /\ loop.kind = "disc"  BY DEF Idle, DiscIteration
    <2>2. QED  BY <2>1
<1>3. Scanline(loop) \in SUBSET (Int \X Int)  BY <1>1, ScanlineIn
<1>4. QED  BY <1>1, <1>2, <1>3 DEF DiscIteration, Paints

LEMMA DiscKeeps == ASSUME CoreInv, DiscIteration, UNCHANGED result PROVE CoreInv'
<1>1. CASE ~(loop.y <= loop.radius)
    <2>1. loop' = Idle /\ UNCHANGED <<pixels, clip, call, made, drawn, asked, result>>  BY <1>1, DiscIs
    <2>2. QED  BY <2>1, LastKeeps
<1>2. CASE loop.y <= loop.radius
    <2>1. PICK points \in SUBSET (Int \X Int) : points = Scanline(loop) /\ Paints(points)  BY <1>2, DiscIs
    <2>2. PICK y \in Int32 : y = Wrap(loop.y + 1)
        <3>1. loop.y + 1 \in Int  BY DiscIs, Ints DEF DiscLoops
        <3>2. QED  BY <3>1, WrapInt
    <2>3. loop' = [loop EXCEPT !.y = y]  BY <1>2, <2>2, DiscIs
    <2>4. loop' \in DiscLoops /\ loop'.kind = loop.kind /\ loop'.color = loop.color
        BY <2>3, DiscIs DEF DiscLoops
    <2>5. QED  BY <2>1, <2>4, DiscIs, PaintsKeeps DEF Loops
<1>3. QED  BY <1>1, <1>2

CharStep(l, char) ==
    [l EXCEPT !.text = Tail(@),
              !.x = IF char = "\n" THEN l.left ELSE Wrap(@ + Advance(char, l.scale)),
              !.y = IF char = "\n" THEN Wrap(@ + FontHeight * l.scale) ELSE @]

LEMMA CharIs ==
    ASSUME CoreInv, CharIteration, UNCHANGED result
    PROVE  /\ loop \in TextLoops /\ loop # Idle
           /\ \/ /\ loop.text # <<>> /\ Head(loop.text) \in Chars
                 /\ Paints(CharPixels(loop, Head(loop.text)))
                 /\ CharPixels(loop, Head(loop.text)) \in SUBSET (Int \X Int)
                 /\ loop' = CharStep(loop, Head(loop.text)) /\ loop' \in TextLoops
              \/ /\ loop.text = <<>> /\ loop' = Idle
                 /\ UNCHANGED <<pixels, clip, call, made, drawn, asked, result>>
<1>1. loop \in TextLoops  BY Kinds DEF CharIteration, CoreInv, VixTypes
<1>2. loop # Idle
    <2>1. Idle.kind = "idle" /\ loop.kind = "text"  BY DEF Idle, CharIteration
    <2>2. QED  BY <2>1
<1>3. CASE loop.text = <<>>  BY <1>1, <1>2, <1>3 DEF CharIteration
<1>4. CASE loop.text # <<>>
    <2>1. PICK char : char = Head(loop.text)  OBVIOUS
    <2>2. /\ Paints(CharPixels(loop, char)) /\ loop' = CharStep(loop, char)
        BY <1>4, <2>1 DEF CharIteration, Paints, CharStep
    <2>3. char \in Chars /\ CharStep(loop, char) \in TextLoops  BY <1>1, <1>4, <2>1, CharStepIn, Zenon DEF CharStep
    <2>4. CharPixels(loop, char) \in SUBSET (Int \X Int)  BY <1>1, <2>3, CharPixelsIn
    <2>5. QED  BY <1>1, <1>2, <1>4, <2>1, <2>2, <2>3, <2>4
<1>5. QED  BY <1>3, <1>4

LEMMA CharKeeps == ASSUME CoreInv, CharIteration, UNCHANGED result PROVE CoreInv'
<1>1. CASE loop.text = <<>>
    <2>1. loop' = Idle /\ UNCHANGED <<pixels, clip, call, made, drawn, asked, result>>  BY <1>1, CharIs
    <2>2. QED  BY <2>1, LastKeeps
<1>2. CASE loop.text # <<>>
    <2>1. PICK char, points : char = Head(loop.text) /\ points = CharPixels(loop, char)  OBVIOUS
    <2>2. points \in SUBSET (Int \X Int) /\ Paints(points) /\ loop' \in TextLoops /\ loop' = CharStep(loop, char)
        BY <1>2, <2>1, CharIs
    <2>3. loop'.kind = loop.kind /\ loop'.color = loop.color
        <3>1. PICK l \in TextLoops : l = loop  BY CharIs
        <3>2. CharStep(l, char).kind = l.kind /\ CharStep(l, char).color = l.color  BY DEF CharStep, TextLoops
        <3>3. QED  BY <2>2, <3>1, <3>2
    <2>4. QED  BY <2>2, <2>3, CharIs, PaintsKeeps DEF Loops
<1>3. QED  BY <1>1, <1>2

LEMMA CoreKept == ASSUME CoreInv, [VixNext]_vixVars PROVE CoreInv'
<1>1. CASE LineIteration /\ UNCHANGED result  BY <1>1, LineKeeps
<1>2. CASE CircleIteration /\ UNCHANGED result  BY <1>2, CircleKeeps
<1>3. CASE DiscIteration /\ UNCHANGED result  BY <1>3, DiscKeeps
<1>4. CASE CharIteration /\ UNCHANGED result  BY <1>4, CharKeeps
<1>5. CASE made < Len(Calls) /\ \E c \in Calls[made + 1] : Call(c)
    <2>1. PICK c \in Calls[made + 1] : Call(c)  BY <1>5
    <2>2. made \in Nat  BY DEF CoreInv, VixTypes
    <2>3. c \in Asking  BY <1>5, <2>2, CallsAre
    <2>4. QED  BY <2>1, <2>3, CallKeepsCore
<1>6. CASE UNCHANGED vixVars
    <2>1. UNCHANGED <<pixels, clip, loop, call, made, drawn, asked, result>>  BY <1>6 DEF vixVars, vars
    <2>2. QED  BY <2>1 DEF CoreInv, VixTypes, ClipKept, LoopFits, Shown, Colored, Visible
<1>7. QED  BY <1>1, <1>2, <1>3, <1>4, <1>5, <1>6 DEF VixNext, Draw, Iteration

(* Every loop in progress has variables that fit an int and is the loop of   *)
(* the call in progress, the clip rectangle is what ClipOf made of the last  *)
(* one asked for, and what a call has set and the clip rectangle shows is in *)
(* its color (graphics.c:385-397, 634-655).                                  *)
THEOREM CoreHolds == VixSpec => []CoreInv
<1>1. VixInit => CoreInv  BY CoreStarts
<1>2. CoreInv /\ [VixNext]_vixVars => CoreInv'  BY CoreKept
<1>3. QED  BY <1>1, <1>2, PTL DEF VixSpec

(* No drawing stores outside the buffers, whatever its arguments and the     *)
(* clip rectangle are, and the clip rectangle begins on or right and below   *)
(* the screen's corner (graphics.c:385-397, 634-655).                        *)
THEOREM BuffersKeepTheirPixels == VixSpec => []VixTypeOK
<1>1. CoreInv => VixTypeOK
    <2>1. SUFFICES ASSUME CoreInv PROVE VixTypeOK  OBVIOUS
    <2>2. VixTypes  BY <2>1 DEF CoreInv
    <2>3. pixels \in [{"front", "back"} -> [Area -> (0 .. 31) \X (0 .. 63) \X (0 .. 31)]]
        BY <2>2 DEF VixTypes, Pictures, Colors
    <2>4. clip.x \in Int32 /\ clip.y \in Int32 /\ clip.width \in Int32 /\ clip.height \in Int32
          /\ clip.x >= 0 /\ clip.y >= 0
        BY <2>2 DEF VixTypes, Rects
    <2>5. clip.x \in 0 .. IntMax /\ clip.y \in 0 .. IntMax  BY <2>4, Ints, IntMaxIs
    <2>6. QED  BY <2>2, <2>3, <2>4, <2>5 DEF VixTypeOK, VixTypes
<1>2. QED  BY <1>1, CoreHolds, PTL

----------------------------------------------------------------------------
(* The clip rectangle: what is seen inside it is inside the one asked for,   *)
(* and the other way round if that one does not reach past the ints.         *)
ClippedEnd(o, w, size) == Wrap(o + (IF Wrap(o + w) > size THEN Wrap(size - o) ELSE w))

LEMMA SeenIsAsked ==
    ASSUME NEW o \in Int32, o >= 0, NEW w \in Int32, NEW size \in Nat, size < IntMax,
           NEW p \in Nat, p < size, p < ClippedEnd(o, w, size)
    PROVE  p < o + w
<1>1. PICK a, b, m \in Int : a = o /\ b = w /\ m = IntMax /\ a >= 0 /\ a <= m /\ b <= m /\ b >= -m - 1
    BY Ints, IntMaxIs
<1>2. CASE a + b <= m
    <2>1. Wrap(a + b) = a + b
        <3>1. a + b \in Int32  BY <1>1, <1>2, SmallInts
        <3>2. QED  BY <3>1, WrapSame
    <2>2. CASE a + b > size  BY <1>1, <2>2
    <2>3. CASE ~(a + b > size)
        <3>1. ClippedEnd(o, w, size) = a + b  BY <1>1, <2>1, <2>3 DEF ClippedEnd
        <3>2. QED  BY <1>1, <3>1
    <2>4. QED  BY <2>2, <2>3
<1>3. CASE a + b > m  BY <1>1, <1>3
<1>4. QED  BY <1>1, <1>2, <1>3

LEMMA AskedIsSeen ==
    ASSUME NEW o \in Int32, NEW w \in Int32, o + w \in Int32, NEW size \in Nat, size < IntMax,
           NEW p \in Nat, p < size, p >= o, p < o + w
    PROVE  LET from == Greatest(0, o)
           IN  p >= from /\ p < Wrap(from + (IF Wrap(o + w) > size THEN Wrap(size - from) ELSE w))
<1>1. PICK a, b, m \in Int : a = o /\ b = w /\ m = IntMax /\ a <= m /\ b <= m /\ a + b <= m
    BY Ints, IntMaxIs
<1>2. PICK from \in Nat : from = Greatest(0, o) /\ from = (IF a < 0 THEN 0 ELSE a) /\ from <= m
    <2>1. Greatest(0, o) = IF a < 0 THEN 0 ELSE a  BY <1>1 DEF Greatest
    <2>2. QED  BY <1>1, <2>1, IntMaxIs
<1>3. Wrap(o + w) = a + b  BY <1>1, WrapSame
<1>4. CASE a + b > size
    <2>1. Wrap(size - from) = size - from
        <3>1. size - from \in Int32  BY <1>1, <1>2, SmallInts
        <3>2. QED  BY <3>1, WrapSame
    <2>2. Wrap(from + (size - from)) = size
        <3>1. size \in Int32 /\ from + (size - from) = size  BY <1>1, SmallInts
        <3>2. QED  BY <3>1, WrapSame
    <2>3. QED  BY <1>1, <1>2, <1>3, <1>4, <2>1, <2>2
<1>5. CASE ~(a + b > size)
    <2>1. Wrap(from + b) = from + b
        <3>1. from + b \in Int32
            <4>1. a + b <= m /\ b <= m /\ b > 0 - m
                BY <1>1
            <4>2. QED  BY <1>1, <1>2, <4>1, SmallInts
        <3>2. QED  BY <3>1, WrapSame
    <2>2. QED  BY <1>1, <1>2, <1>3, <1>5, <2>1
<1>6. QED  BY <1>4, <1>5

LEMMA VisibleWithin ==
    ASSUME CoreInv, asked # NoRect, asked.x >= 0, asked.y >= 0, NEW p \in Area, Visible(p)
    PROVE  Within(p, asked)
<1>1. PICK r \in Rects : r = asked  BY DEF CoreInv, VixTypes
<1>2. r.x \in Int32 /\ r.y \in Int32 /\ r.width \in Int32 /\ r.height \in Int32  BY DEF Rects
<1>3. Greatest(0, r.x) = r.x /\ Greatest(0, r.y) = r.y  BY <1>1, <1>2, Ints DEF Greatest
<1>4. clip = ClipOf(r)  BY <1>1 DEF CoreInv, ClipKept
<1>5. /\ clip.x = r.x /\ clip.y = r.y
      /\ Wrap(clip.x + clip.width) = ClippedEnd(r.x, r.width, Width)
      /\ Wrap(clip.y + clip.height) = ClippedEnd(r.y, r.height, Height)
    BY <1>3, <1>4 DEF ClipOf, Rect, ClippedEnd
<1>6. p[1] < r.x + r.width /\ p[2] < r.y + r.height
    <2>1. p[1] < ClippedEnd(r.x, r.width, Width) /\ p[2] < ClippedEnd(r.y, r.height, Height)  BY <1>5 DEF Visible
    <2>2. QED  BY <1>1, <1>2, <2>1, InArea, SeenIsAsked, IntMaxIs
<1>7. QED  BY <1>1, <1>5, <1>6 DEF Within, Visible

LEMMA WithinVisible ==
    ASSUME CoreInv, NEW p \in Area, asked = NoRect \/ (Fits(asked) /\ Within(p, asked))
    PROVE  Visible(p)
<1>0. p[1] \in Nat /\ p[2] \in Nat /\ p[1] < Width /\ p[2] < Height  BY InArea
<1>1. CASE asked = NoRect
    <2>1. clip = WholeSurface  BY <1>1 DEF CoreInv, ClipKept
    <2>2. Wrap(0 + Width) = Width /\ Wrap(0 + Height) = Height
        <3>1. 0 + Width = Width /\ 0 + Height = Height  BY IntMaxIs
        <3>2. QED  BY <3>1, WrapSame, SmallInts
    <2>3. QED  BY <1>0, <2>1, <2>2 DEF Visible, WholeSurface, Rect
<1>2. CASE asked # NoRect
    <2>1. PICK r \in Rects : r = asked  BY <1>2 DEF CoreInv, VixTypes
    <2>2. r.x \in Int32 /\ r.y \in Int32 /\ r.width \in Int32 /\ r.height \in Int32  BY DEF Rects
    <2>3. clip = ClipOf(r)  BY <1>2, <2>1 DEF CoreInv, ClipKept
    <2>4. r.x + r.width \in Int32 /\ r.y + r.height \in Int32  BY <1>2, <2>1 DEF Fits
    <2>5. p[1] >= r.x /\ p[1] < r.x + r.width /\ p[2] >= r.y /\ p[2] < r.y + r.height
        BY <1>2, <2>1 DEF Within
    <2>6. /\ clip.x = Greatest(0, r.x) /\ clip.y = Greatest(0, r.y)
          /\ clip.width = (IF Wrap(r.x + r.width) > Width THEN Wrap(Width - Greatest(0, r.x)) ELSE r.width)
          /\ clip.height = (IF Wrap(r.y + r.height) > Height THEN Wrap(Height - Greatest(0, r.y)) ELSE r.height)
        BY <2>3 DEF ClipOf, Rect
    <2>7. p[1] >= clip.x /\ p[1] < Wrap(clip.x + clip.width)
        <3>1. Width \in Nat /\ Width < IntMax  BY IntMaxIs
        <3>2. QED  BY <1>0, <2>2, <2>4, <2>5, <2>6, <3>1, AskedIsSeen
    <2>8. p[2] >= clip.y /\ p[2] < Wrap(clip.y + clip.height)
        <3>1. Height \in Nat /\ Height < IntMax  BY IntMaxIs
        <3>2. QED  BY <1>0, <2>2, <2>4, <2>5, <2>6, <3>1, AskedIsSeen
    <2>9. QED  BY <2>7, <2>8 DEF Visible
<1>3. QED  BY <1>1, <1>2

\* A drawing made of set_pixel changes what is visible and nothing else.
ChangesVisible == \A p \in Area : pixels'.back[p] # pixels.back[p] => Visible(p)

LEMMA PaintsVisible ==
    ASSUME CoreInv, NEW points \in SUBSET (Int \X Int), Paints(points), loop # Idle
    PROVE  ChangesVisible
<1>1. PICK color \in Colors : color = loop.color
    <2>1. loop.color \in Colors
        BY Kinds DEF CoreInv, VixTypes, LineLoops, CircleLoops, DiscLoops, TextLoops
    <2>2. QED  BY <2>1
<1>2. pixels \in Pictures  BY DEF CoreInv, VixTypes
<1>3. \A p \in Area : pixels'.back[p] = IF p \in points /\ Visible(p) THEN color ELSE pixels.back[p]
    BY <1>1, <1>2, SetPixelsDo DEF Paints
<1>4. QED  BY <1>3 DEF ChangesVisible

LEMMA CallChangesVisible ==
    ASSUME CoreInv, NEW c \in Asking, Call(c), c.op \notin {"fill", "clear", "blit", "alpha", "clip"}
    PROVE  ChangesVisible
<1>1. Hands(c)  BY CommandsHand
<1>2. CASE c.op = "pixel"
    <2>1. DrawPixel(c, c.at, ColorOf(c.color))  BY <1>1, <1>2 DEF Hands
    <2>2. c.at \in Points /\ c.color \in Nat  BY <1>2, Fields
    <2>3. PICK points \in SUBSET (Int \X Int) : points = {c.at}
        <3>1. PICK at \in Int \X Int : at = c.at  BY <2>2, PointIs, Ints
        <3>2. {at} \in SUBSET (Int \X Int)  OBVIOUS
        <3>3. QED  BY <3>1, <3>2
    <2>4. PICK color \in Colors : color = ColorOf(c.color)  BY <2>2, ColorOfIn
    <2>5. SetPixels(points, color)  BY <2>1, <2>3, <2>4 DEF DrawPixel
    <2>6. pixels \in Pictures  BY DEF CoreInv, VixTypes
    <2>7. \A p \in Area : pixels'.back[p] = IF p \in points /\ Visible(p) THEN color ELSE pixels.back[p]
        BY <2>5, <2>6, SetPixelsDo
    <2>8. QED  BY <2>7 DEF ChangesVisible
<1>3. CASE c.op = "present"
    <2>1. pixels' = [pixels EXCEPT !.front = pixels.back]  BY <1>1, <1>3 DEF Hands, graphics_present
    <2>2. pixels \in Pictures  BY DEF CoreInv, VixTypes
    <2>3. pixels'.back = pixels.back  BY <2>1, <2>2 DEF Pictures
    <2>4. QED  BY <2>3 DEF ChangesVisible
<1>4. CASE c.op \notin {"pixel", "present"}
    <2>1. pixels' = pixels
        BY <1>1, <1>4 DEF Hands, graphics_draw_rect, graphics_draw_line, graphics_draw_circle, graphics_fill_circle,
                          graphics_draw_text_scaled, Loop, Nothing
    <2>2. QED  BY <2>1 DEF ChangesVisible
<1>5. QED  BY <1>2, <1>3, <1>4

LEMMA StepChangesVisible ==
    ASSUME CoreInv, VixNext, call'.op \notin {"fill", "clear", "blit", "alpha", "clip"}
    PROVE  ChangesVisible
<1>1. CASE LineIteration /\ UNCHANGED result
    <2>1. PICK points \in SUBSET (Int \X Int) : Paints(points)  BY <1>1, LineIs
    <2>2. loop # Idle
        <3>1. Idle.kind = "idle" /\ loop.kind = "line"  BY <1>1, LineIs DEF Idle, LineLoops
        <3>2. QED  BY <3>1
    <2>3. QED  BY <2>1, <2>2, PaintsVisible
<1>2. CASE CircleIteration /\ UNCHANGED result
    <2>1. CASE UNCHANGED pixels  BY <2>1 DEF ChangesVisible
    <2>2. CASE ~UNCHANGED pixels
        <3>1. PICK points \in SUBSET (Int \X Int) : Paints(points)  BY <1>2, <2>2, CircleIs
        <3>2. QED  BY <1>2, <3>1, CircleIs, PaintsVisible
    <2>3. QED  BY <2>1, <2>2
<1>3. CASE DiscIteration /\ UNCHANGED result
    <2>1. CASE UNCHANGED pixels  BY <2>1 DEF ChangesVisible
    <2>2. CASE ~UNCHANGED pixels
        <3>1. PICK points \in SUBSET (Int \X Int) : Paints(points)  BY <1>3, <2>2, DiscIs
        <3>2. QED  BY <1>3, <3>1, DiscIs, PaintsVisible
    <2>3. QED  BY <2>1, <2>2
<1>4. CASE CharIteration /\ UNCHANGED result
    <2>1. CASE UNCHANGED pixels  BY <2>1 DEF ChangesVisible
    <2>2. CASE ~UNCHANGED pixels
        <3>1. PICK points \in SUBSET (Int \X Int) : Paints(points)  BY <1>4, <2>2, CharIs
        <3>2. QED  BY <1>4, <3>1, CharIs, PaintsVisible
    <2>3. QED  BY <2>1, <2>2
<1>5. CASE made < Len(Calls) /\ \E c \in Calls[made + 1] : Call(c)
    <2>1. PICK c \in Calls[made + 1] : Call(c)  BY <1>5
    <2>2. c \in Asking  BY <1>5, <2>1, CallsAre DEF CoreInv, VixTypes
    <2>3. call' = c  BY <2>1, <2>2, CallEnters
    <2>4. QED  BY <2>1, <2>2, <2>3, CallChangesVisible
<1>6. QED  BY <1>1, <1>2, <1>3, <1>4, <1>5 DEF VixNext, Draw, Iteration

(* No pixel outside the rectangle the caller last clipped to changes by a    *)
(* drawing made of set_pixel (graphics.c:45-53, 385-397, 634-655).           *)
THEOREM DrawingsStayInTheClip == VixSpec => ClipHonoured
<1>1. ASSUME CoreInv, [VixNext]_vixVars
      PROVE  [(call'.op \notin {"fill", "clear", "blit", "alpha", "clip"}
                 /\ asked # NoRect /\ asked.x >= 0 /\ asked.y >= 0) =>
               \A p \in Area : pixels'.back[p] # pixels.back[p] => Within(p, asked)]_vixVars
    <2>1. CASE UNCHANGED vixVars  BY <2>1
    <2>2. CASE VixNext
        <3>1. SUFFICES ASSUME call'.op \notin {"fill", "clear", "blit", "alpha", "clip"},
                              asked # NoRect, asked.x >= 0, asked.y >= 0,
                              NEW p \in Area, pixels'.back[p] # pixels.back[p]
                       PROVE  Within(p, asked)
            OBVIOUS
        <3>2. Visible(p)  BY <1>1, <2>2, <3>1, StepChangesVisible DEF ChangesVisible
        <3>3. QED  BY <1>1, <3>1, <3>2, VisibleWithin
    <2>3. QED  BY <1>1, <2>1, <2>2
<1>2. QED  BY <1>1, CoreHolds, PTL DEF VixSpec, ClipHonoured

(* A blit is the copy of the source as it was, and a blend brightens nothing *)
(* and darkens by one level at most, for every rectangle and every place     *)
(* (graphics.c:537-566, 603-630).                                            *)
THEOREM BlitsCopyTheSource == VixSpec => BlitsAsAsked
<1>1. ASSUME CoreInv, [VixNext]_vixVars
      PROVE  [(made' # made /\ call'.op \in {"blit", "alpha"} /\ Fits(Source(call')) /\ ReadsBeforeWriting(call')) =>
               IF call'.op = "blit" THEN CopiedByBlit(call') ELSE MixedByBlend(call')]_vixVars
    <2>1. CASE UNCHANGED vixVars  BY <2>1
    <2>2. CASE Draw
        <3>1. made' = made
            BY <2>2 DEF Draw, Iteration, LineIteration, CircleIteration, DiscIteration, CharIteration
        <3>2. QED  BY <3>1
    <2>3. CASE made < Len(Calls) /\ \E c \in Calls[made + 1] : Call(c)
        <3>1. PICK c \in Calls[made + 1] : Call(c)  BY <2>3
        <3>2. c \in Asking  BY <1>1, <2>3, <3>1, CallsAre DEF CoreInv, VixTypes
        <3>3. call' = c  BY <3>1, <3>2, CallEnters
        <3>4. SUFFICES ASSUME c.op \in {"blit", "alpha"}, Fits(Source(c)), ReadsBeforeWriting(c)
                       PROVE  IF c.op = "blit" THEN CopiedByBlit(c) ELSE MixedByBlend(c)
            BY <3>3
        <3>5. /\ (c.op = "blit" /\ graphics_blit_surface(c)) \/ (c.op = "alpha" /\ graphics_blit_alpha(c))
            BY <3>1, <3>2, <3>4, CommandsHand DEF Hands
        <3>6. pixels \in Pictures  BY <1>1 DEF CoreInv, VixTypes
        <3>7. QED  BY <3>2, <3>4, <3>5, <3>6, BlitIs
    <2>4. QED  BY <1>1, <2>1, <2>2, <2>3 DEF VixNext
<1>2. QED  BY <1>1, CoreHolds, PTL DEF VixSpec, BlitsAsAsked

----------------------------------------------------------------------------
(* Squares and their roots.                                                  *)
LEMMA ProductNat == \A a, b \in Nat : a * b \in Nat
OBVIOUS

LEMMA SquareIs ==
    ASSUME NEW a \in Int
    PROVE  /\ SquareOf(a) \in Nat /\ SquareOf(-a) = SquareOf(a) /\ SquareOf(a) >= a /\ SquareOf(a) >= -a
           /\ SquareOf(a) = a * a
<1>1. PICK m \in Nat : (m = a \/ m = -a)
    <2>1. a \in Nat \/ -a \in Nat  OBVIOUS
    <2>2. QED  BY <2>1
<1>2. m * m \in Nat  BY ProductNat
<1>3. a * a = m * m /\ (-a) * (-a) = m * m  BY <1>1
<1>4. m * m >= m
    <2>1. CASE m = 0  BY <2>1
    <2>2. CASE m # 0
        <3>1. PICK d \in Nat : m = d + 1
            <4>1. m - 1 \in Nat /\ m = (m - 1) + 1  BY <2>2
            <4>2. QED  BY <4>1
        <3>2. m * m = d * m + m  BY <3>1
        <3>3. d * m \in Nat  BY ProductNat
        <3>4. PICK w \in Nat : w = d * m  BY <3>3
        <3>5. QED  BY <3>2, <3>4
    <2>3. QED  BY <2>1, <2>2
<1>5. PICK s \in Nat : s = m * m  BY <1>2
<1>6. SquareOf(a) = s /\ SquareOf(-a) = s /\ s >= m  BY <1>3, <1>4, <1>5 DEF SquareOf
<1>7. s >= a /\ s >= -a  BY <1>1, <1>6
<1>8. QED  BY <1>3, <1>5, <1>6, <1>7

LEMMA SquareGrows ==
    ASSUME NEW a \in Nat, NEW b \in Nat
    PROVE  (a <= b <=> SquareOf(a) <= SquareOf(b)) /\ (a < b <=> SquareOf(a) < SquareOf(b))
<1>1. \A x, d \in Nat : SquareOf(x + d) = SquareOf(x) + 2 * x * d + SquareOf(d)
    <2>1. TAKE x, d \in Nat
    <2>2. (x + d) * (x + d) = x * x + 2 * x * d + d * d  OBVIOUS
    <2>3. QED  BY <2>2 DEF SquareOf
<1>2. ASSUME NEW x \in Nat, NEW y \in Nat, x <= y
      PROVE  SquareOf(x) \in Nat /\ SquareOf(y) \in Nat /\ SquareOf(x) <= SquareOf(y) /\ (x < y => SquareOf(x) < SquareOf(y))
    <2>1. PICK d \in Nat : y = x + d
        <3>1. y - x \in Nat /\ y = x + (y - x)  BY <1>2
        <3>2. QED  BY <3>1
    <2>2. 2 * x * d \in Nat /\ SquareOf(x) \in Nat /\ SquareOf(d) \in Nat /\ SquareOf(d) >= d
        <3>1. x * d \in Nat  BY ProductNat
        <3>2. PICK w \in Nat : w = x * d  BY <3>1
        <3>3. 2 * x * d = 2 * w  BY <3>2
        <3>4. QED  BY <3>3, SquareIs
    <2>3. PICK u, v, w \in Nat : u = SquareOf(x) /\ v = 2 * x * d /\ w = SquareOf(d) /\ w >= d  BY <2>2
    <2>4. SquareOf(y) = u + v + w  BY <1>1, <2>1, <2>3
    <2>5. QED  BY <2>1, <2>3, <2>4
<1>3. CASE a < b  BY <1>2, <1>3
<1>4. CASE a = b  BY <1>2, <1>4
<1>5. CASE b < a  BY <1>2, <1>5
<1>6. QED  BY <1>3, <1>4, <1>5

LEMMA RootExists == \A n \in Nat : \E k \in 0 .. n : k * k <= n /\ n < (k + 1) * (k + 1)
<1> DEFINE S == {n \in Nat : \E k \in 0 .. n : k * k <= n /\ n < (k + 1) * (k + 1)}
<1>1. 0 \in S
    <2>1. 0 \in 0 .. 0 /\ 0 * 0 <= 0 /\ 0 < (0 + 1) * (0 + 1)  OBVIOUS
    <2>2. QED  BY <2>1
<1>2. ASSUME NEW n \in Nat, n \in S PROVE n + 1 \in S
    <2>1. PICK k \in 0 .. n : k * k <= n /\ n < (k + 1) * (k + 1)  BY <1>2
    <2>2. CASE n + 1 < (k + 1) * (k + 1)
        <3>1. k \in 0 .. n + 1  OBVIOUS
        <3>2. k * k <= n + 1
            <4>1. k * k \in Nat  BY ProductNat
            <4>2. PICK s \in Nat : s = k * k  BY <4>1
            <4>3. QED  BY <2>1, <4>2
        <3>3. QED  BY <2>2, <3>1, <3>2
    <2>3. CASE ~(n + 1 < (k + 1) * (k + 1))
        <3>1. PICK j \in Nat : j = k + 1  OBVIOUS
        <3>2. PICK s \in Nat : s = j * j  BY ProductNat
        <3>3. s = n + 1  BY <2>1, <2>3, <3>1, <3>2
        <3>4. (j + 1) * (j + 1) = s + 2 * j + 1  BY <3>2
        <3>5. j \in 0 .. n + 1 /\ j * j <= n + 1 /\ n + 1 < (j + 1) * (j + 1)  BY <3>1, <3>2, <3>3, <3>4
        <3>6. QED  BY <3>5
    <2>4. QED  BY <2>2, <2>3
<1>3. \A n \in Nat : n \in S
    <2> HIDE DEF S
    <2>1. QED  BY <1>1, <1>2, SetInduction
<1>4. QED  BY <1>3

\* The numbers whose squares are at most n are those up to the root.
LEMMA SqrtIs ==
    ASSUME NEW n \in Nat
    PROVE  /\ Sqrt(n) \in Nat
           /\ \A x \in Int : SquareOf(x) <= n <=> -Sqrt(n) <= x /\ x <= Sqrt(n)
<1>1. PICK k \in Nat : k = Sqrt(n) /\ k * k <= n /\ n < (k + 1) * (k + 1)
    <2>1. ~(n < 0)  OBVIOUS
    <2>2. \E k \in 0 .. n : k * k <= n /\ n < (k + 1) * (k + 1)  BY RootExists
    <2>3. Sqrt(n) = CHOOSE k \in 0 .. n : k * k <= n /\ n < (k + 1) * (k + 1)  BY <2>1 DEF Sqrt
    <2>4. PICK k : k = Sqrt(n)  OBVIOUS
    <2>5. k \in 0 .. n /\ k * k <= n /\ n < (k + 1) * (k + 1)  BY <2>2, <2>3, <2>4
    <2>6. QED  BY <2>4, <2>5
<1>2. SquareOf(k) <= n /\ n < SquareOf(k + 1) /\ SquareOf(k) \in Nat /\ SquareOf(k + 1) \in Nat
    BY <1>1, SquareIs DEF SquareOf
<1>3. ASSUME NEW m \in Nat PROVE SquareOf(m) <= n <=> m <= k
    <2>1. SquareOf(m) \in Nat  BY SquareIs
    <2>2. m <= k => SquareOf(m) <= SquareOf(k)  BY SquareGrows
    <2>3. k + 1 <= m => SquareOf(k + 1) <= SquareOf(m)  BY SquareGrows
    <2>4. QED  BY <1>2, <2>1, <2>2, <2>3
<1>4. ASSUME NEW x \in Int PROVE SquareOf(x) <= n <=> -k <= x /\ x <= k
    <2>1. CASE x >= 0  BY <1>3, <2>1
    <2>2. CASE x < 0
        <3>1. PICK m \in Nat : m = -x  BY <2>2
        <3>2. SquareOf(m) = SquareOf(x)  BY <3>1, SquareIs
        <3>3. SquareOf(m) <= n <=> m <= k  BY <1>3
        <3>4. QED  BY <2>2, <3>1, <3>2, <3>3
    <2>3. QED  BY <2>1, <2>2
<1>5. QED  BY <1>1, <1>4
----------------------------------------------------------------------------
(* The shapes.  Each is an invariant that speaks of one kind of call: what   *)
(* its loop has drawn so far, where it stands, and, once it has ended, the   *)
(* shape.                                                                    *)
DuringLoop == call' = call /\ made' = made /\ asked' = asked /\ result' = result /\ loop # Idle

LEMMA StepIs ==
    ASSUME CoreInv, VixNext
    PROVE  \/ \E c \in Asking : Hands(c) /\ call' = c /\ loop = Idle
           \/ DuringLoop /\ LineIteration /\ call.op \in {"line", "rect"}
           \/ DuringLoop /\ CircleIteration /\ call.op = "circle"
           \/ DuringLoop /\ DiscIteration /\ call.op = "disc"
           \/ DuringLoop /\ CharIteration /\ call.op \in {"text", "scaled", "print", "putchar"}
<1>1. ASSUME loop # Idle PROVE loop.kind = KindOf(call.op)  BY <1>1 DEF CoreInv, LoopFits
<1>2. Idle.kind = "idle"  BY DEF Idle
<1>3. CASE LineIteration /\ UNCHANGED result
    <2>1. loop.kind = "line" /\ call' = call /\ made' = made /\ asked' = asked  BY <1>3 DEF LineIteration
    <2>2. loop # Idle  BY <1>2, <2>1
    <2>3. call.op \in {"line", "rect"}  BY <1>1, <2>1, <2>2 DEF KindOf
    <2>4. QED  BY <1>3, <2>1, <2>2, <2>3 DEF DuringLoop
<1>4. CASE CircleIteration /\ UNCHANGED result
    <2>1. loop.kind = "circle" /\ call' = call /\ made' = made /\ asked' = asked  BY <1>4 DEF CircleIteration
    <2>2. loop # Idle  BY <1>2, <2>1
    <2>3. call.op = "circle"  BY <1>1, <2>1, <2>2 DEF KindOf
    <2>4. QED  BY <1>4, <2>1, <2>2, <2>3 DEF DuringLoop
<1>5. CASE DiscIteration /\ UNCHANGED result
    <2>1. loop.kind = "disc" /\ call' = call /\ made' = made /\ asked' = asked  BY <1>5 DEF DiscIteration
    <2>2. loop # Idle  BY <1>2, <2>1
    <2>3. call.op = "disc"  BY <1>1, <2>1, <2>2 DEF KindOf
    <2>4. QED  BY <1>5, <2>1, <2>2, <2>3 DEF DuringLoop
<1>6. CASE CharIteration /\ UNCHANGED result
    <2>1. loop.kind = "text" /\ call' = call /\ made' = made /\ asked' = asked  BY <1>6 DEF CharIteration
    <2>2. loop # Idle  BY <1>2, <2>1
    <2>3. call.op \in {"text", "scaled", "print", "putchar"}  BY <1>1, <2>1, <2>2 DEF KindOf
    <2>4. QED  BY <1>6, <2>1, <2>2, <2>3 DEF DuringLoop
<1>7. CASE made < Len(Calls) /\ \E c \in Calls[made + 1] : Call(c)
    <2>1. PICK c \in Calls[made + 1] : Call(c)  BY <1>7
    <2>2. c \in Asking  BY <1>7, <2>1, CallsAre DEF CoreInv, VixTypes
    <2>3. Hands(c) /\ call' = c /\ loop = Idle  BY <2>1, <2>2, CallEnters, CommandsHand
    <2>4. QED  BY <2>2, <2>3
<1>8. QED  BY <1>3, <1>4, <1>5, <1>6, <1>7 DEF VixNext, Draw, Iteration

LEMMA ShownHolds == ASSUME CoreInv PROVE ShownInsideClip
<1>1. SUFFICES ASSUME call.op \notin {"print", "putchar"}, asked = NoRect \/ Fits(asked),
                      NEW p \in drawn \cap Area, asked = NoRect \/ Within(p, asked)
               PROVE  pixels.back[p] = ColorOf(call.color)
    BY DEF ShownInsideClip
<1>2. Visible(p)  BY <1>1, WithinVisible
<1>3. QED  BY <1>1, <1>2 DEF CoreInv, Shown, Colored

\* Pixels, filled rectangles and presentations are made in one step.
InOneStep ==
    /\ call.op = "pixel" => drawn = {call.at}
    /\ call.op = "fill" /\ Fits(call.rect) => drawn = {p \in Area : Within(p, call.rect)}
    /\ call.op = "present" => pixels.front = pixels.back

LEMMA FillIs ==
    ASSUME NEW r \in Rects, Fits(r)
    PROVE  Columns(r) \X Rows(r) = {p \in Area : Within(p, r)}
<1>1. r.x \in Int /\ r.y \in Int /\ r.width \in Int /\ r.height \in Int  BY SmallInts DEF Rects
<1>2. PICK right, bottom \in Int :
          /\ right = r.x + r.width /\ bottom = r.y + r.height
          /\ right = Wrap(r.x + r.width) /\ bottom = Wrap(r.y + r.height)
    <2>1. r.x + r.width \in Int32 /\ r.y + r.height \in Int32  BY DEF Fits
    <2>2. QED  BY <2>1, WrapSame
<1>3. PICK x, y \in Int : x = r.x /\ y = r.y  BY <1>1
<1>4. \A p \in Area : p \in Columns(r) \X Rows(r) <=> Within(p, r)
    <2>1. TAKE p \in Area
    <2>2. p = <<p[1], p[2]>> /\ p[1] \in Nat /\ p[2] \in Nat /\ p[1] < Width /\ p[2] < Height  BY InArea
    <2>3. Columns(r) = Greatest(0, x) .. Least(Width, right) - 1  BY <1>2, <1>3 DEF Columns
    <2>4. Rows(r) = Greatest(0, y) .. Least(Height, bottom) - 1  BY <1>2, <1>3 DEF Rows
    <2>5. p[1] \in Columns(r) <=> p[1] >= x /\ p[1] < right  BY <2>2, <2>3, IntMaxIs DEF Greatest, Least
    <2>6. p[2] \in Rows(r) <=> p[2] >= y /\ p[2] < bottom  BY <2>2, <2>4, IntMaxIs DEF Greatest, Least
    <2>7. Within(p, r) <=> (p[1] >= x /\ p[1] < right /\ p[2] >= y /\ p[2] < bottom)
        BY <1>2, <1>3 DEF Within
    <2>8. p \in Columns(r) \X Rows(r) <=> p[1] \in Columns(r) /\ p[2] \in Rows(r)  BY <2>2
    <2>9. QED  BY <2>5, <2>6, <2>7, <2>8
<1>5. Columns(r) \X Rows(r) \subseteq Area  BY ColumnsAre
<1>6. QED  BY <1>4, <1>5

LEMMA InOneStepKept == ASSUME CoreInv, InOneStep, [VixNext]_vixVars PROVE InOneStep'
<1>1. CASE UNCHANGED vixVars
    BY <1>1 DEF vixVars, vars, InOneStep
<1>2. CASE VixNext /\ \E c \in Asking : Hands(c) /\ call' = c /\ loop = Idle
    <2>1. PICK c \in Asking : Hands(c) /\ call' = c /\ loop = Idle  BY <1>2
    <2>2. c.op = "pixel" => drawn' = {c.at}  BY <2>1 DEF Hands, DrawPixel
    <2>3. ASSUME c.op = "fill", Fits(c.rect) PROVE drawn' = {p \in Area : Within(p, c.rect)}
        <3>1. drawn' = Columns(c.rect) \X Rows(c.rect)  BY <2>1, <2>3 DEF Hands, graphics_fill_rect
        <3>2. c.rect \in Rects  BY <2>3, Fields
        <3>3. QED  BY <2>3, <3>1, <3>2, FillIs
    <2>4. ASSUME c.op = "present" PROVE pixels'.front = pixels'.back
        <3>1. graphics_present(c) /\ result' = 0  BY <2>1, <2>4 DEF Hands
        <3>2. QED  BY <2>4, <3>1, PresentKeeps
    <2>5. QED  BY <2>1, <2>2, <2>3, <2>4 DEF InOneStep
<1>3. CASE DuringLoop
    <2>1. loop.kind = KindOf(call.op) /\ loop.kind \in {"line", "circle", "disc", "text"}
        BY <1>3, Kinds DEF CoreInv, LoopFits, DuringLoop, VixTypes
    <2>2. call.op \notin {"pixel", "fill", "present"}  BY <2>1 DEF KindOf
    <2>3. QED  BY <1>3, <2>2 DEF DuringLoop, InOneStep
<1>4. QED  BY <1>1, <1>2, <1>3, StepIs

----------------------------------------------------------------------------
(* A disc: the rows above the loop's are those of the disc.                  *)
LEMMA AroundIs ==
    ASSUME NEW center \in Points, NEW radius \in Int32, Around(center, radius)
    PROVE  /\ center[1] - radius \in Int32 /\ center[2] - radius \in Int32
           /\ center[1] + radius \in Int32 /\ center[2] + radius \in Int32
<1>1. PICK a, b, r \in Int : a = center[1] /\ b = center[2] /\ r = radius  BY PointIs, Ints
<1>2. (a - r) + 0 \in Int32 /\ (b - r) + 0 \in Int32 /\ a + r \in Int32 /\ b + r \in Int32
    BY <1>1 DEF Around, Fits, Rect
<1>3. QED  BY <1>1, <1>2

InDisc(p, a, b, r) == SquareOf(p[1] - a) + SquareOf(p[2] - b) <= SquareOf(r)
DiscAbove(a, b, r, y) ==
    {p \in (a - r .. a + r) \X (b - r .. b + r) : InDisc(p, a, b, r) /\ p[2] < b + y}
DiscRow(a, b, r, y) ==
    {p \in (a - r .. a + r) \X (b - r .. b + r) : InDisc(p, a, b, r) /\ p[2] = b + y}

DiscShape ==
    (call.op = "disc" /\ SquareOf(call.radius) <= IntMax /\ Around(call.at, call.radius)) =>
        IF loop = Idle THEN IsDisc(drawn, call.at, call.radius)
        ELSE /\ loop.center = call.at /\ loop.radius = call.radius
             /\ -call.radius <= loop.y /\ loop.y <= Greatest(-call.radius, call.radius + 1)
             /\ drawn = DiscAbove(call.at[1], call.at[2], call.radius, loop.y)

\* A radius whose square is an int leaves room for one more row.
LEMMA RadiusIs ==
    ASSUME NEW r \in Int32, SquareOf(r) <= IntMax
    PROVE  r \in Int /\ -r \in Int32 /\ r + 1 \in Int32
<1>1. r \in Int  BY Ints
<1>2. SquareOf(r) \in Nat /\ SquareOf(r) >= r /\ SquareOf(r) >= -r /\ SquareOf(r) = r * r  BY <1>1, SquareIs
<1>3. IntMax \in Nat /\ IntMax >= 2  BY IntMaxIs
<1>4. r # IntMax
    <2>1. SUFFICES ASSUME r = IntMax PROVE FALSE  OBVIOUS
    <2>2. PICK m \in Nat : m = r - 2  BY <1>3, <2>1
    <2>3. PICK q \in Nat : q = m * m  BY ProductNat
    <2>4. r * r = q + 4 * m + 4
        <3>1. (m + 2) * (m + 2) = m * m + 4 * m + 4  OBVIOUS
        <3>2. r = m + 2  BY <1>1, <2>2
        <3>3. QED  BY <2>3, <3>1, <3>2
    <2>5. PICK s \in Nat : s = q + 4 * m + 4 /\ s <= IntMax  BY <1>2, <2>4
    <2>6. QED  BY <1>1, <2>1, <2>2, <2>5
<1>5. PICK s \in Nat : s = SquareOf(r) /\ s >= r /\ s >= -r /\ s <= IntMax  BY <1>2
<1>6. QED  BY <1>1, <1>3, <1>4, <1>5, SmallInts

\* A row of the disc is what the loop sets on it.
LEMMA ScanlineIs ==
    ASSUME NEW l \in DiscLoops, NEW a \in Int, NEW b \in Int, NEW r \in Nat, NEW y \in Int,
           a = l.center[1], b = l.center[2], r = l.radius, y = l.y, -r <= y, y <= r,
           SquareOf(r) <= IntMax, a - r \in Int32, a + r \in Int32, b - r \in Int32, b + r \in Int32
    PROVE  Scanline(l) = DiscRow(a, b, r, y)
<1>1. PICK R, Y \in Nat : R = SquareOf(r) /\ Y = SquareOf(y) /\ R = r * r /\ Y = y * y
    <2>1. SquareOf(r) \in Nat /\ SquareOf(r) = r * r  BY SquareIs
    <2>2. SquareOf(y) \in Nat /\ SquareOf(y) = y * y  BY SquareIs
    <2>3. QED  BY <2>1, <2>2
<1>2. Y <= R
    <2>1. PICK m \in Nat : m = Abs(y) /\ m <= r /\ m \in {y, -y}  BY DEF Abs
    <2>2. SquareOf(m) = Y  BY <1>1, <2>1, SquareIs
    <2>3. QED  BY <1>1, <2>1, <2>2, SquareGrows
<1>3. PICK n \in Nat : n = R - Y /\ n <= R  BY <1>1, <1>2
<1>4. Wrap(l.radius * l.radius - l.y * l.y) = n
    <2>1. n \in Int32  BY <1>1, <1>3, SmallInts, IntMaxIs
    <2>2. Wrap(n) = n  BY <2>1, WrapSame
    <2>3. r * r - y * y = n  BY <1>1, <1>3
    <2>4. QED  BY <2>2, <2>3
<1>5. PICK e \in Nat : e = Sqrt(n) /\ \A x \in Int : SquareOf(x) <= n <=> -e <= x /\ x <= e  BY SqrtIs
<1>6. e <= r
    <2>1. SquareOf(e) <= n  BY <1>5
    <2>2. SquareOf(e) \in Nat  BY SquareIs
    <2>3. SquareOf(e) <= SquareOf(r)  BY <1>1, <1>3, <2>1, <2>2
    <2>4. QED  BY <2>3, SquareGrows
<1>7. r <= IntMax  BY <1>1, SquareIs, IntMaxIs
<1>8. Wrap(-e) = -e
    <2>1. -e \in Int32  BY <1>6, <1>7, SmallInts, IntMaxIs
    <2>2. QED  BY <2>1, WrapSame
<1>9. \A x \in -e .. e : Wrap(a + x) = a + x
    <2>1. TAKE x \in -e .. e
    <2>2. a + x \in Int /\ a - r <= a + x /\ a + x <= a + r  BY <1>6
    <2>3. a + x \in Int32  BY <2>2, SmallInts, IntMaxIs
    <2>4. QED  BY <2>3, WrapSame
<1>10. Wrap(b + y) = b + y
    <2>1. b + y \in Int /\ b - r <= b + y /\ b + y <= b + r  OBVIOUS
    <2>2. b + y \in Int32  BY <2>1, SmallInts, IntMaxIs
    <2>3. QED  BY <2>2, WrapSame
<1>11. Scanline(l) = {<<a + x, b + y>> : x \in -e .. e}
    <2>1. Scanline(l) = {<<Wrap(a + x), Wrap(b + y)>> : x \in Wrap(-e) .. e}  BY <1>4, <1>5 DEF Scanline
    <2>2. QED  BY <1>8, <1>9, <1>10, <2>1
<1>12. ASSUME NEW x \in -e .. e PROVE LET p == <<a + x, b + y>>
                                      IN  p \in (a - r .. a + r) \X (b - r .. b + r) /\ InDisc(p, a, b, r)
    <2>1. a + x \in a - r .. a + r /\ b + y \in b - r .. b + r  BY <1>6
    <2>2. (a + x) - a = x /\ (b + y) - b = y  OBVIOUS
    <2>3. SquareOf(x) <= n  BY <1>5
    <2>4. SquareOf(x) \in Nat  BY SquareIs
    <2>5. SquareOf(x) + Y <= R  BY <1>1, <1>3, <2>3, <2>4
    <2>6. QED  BY <1>1, <2>1, <2>2, <2>5 DEF InDisc
<1>13. ASSUME NEW p \in (a - r .. a + r) \X (b - r .. b + r), InDisc(p, a, b, r), p[2] = b + y
       PROVE  \E x \in -e .. e : p = <<a + x, b + y>>
    <2>1. PICK u \in a - r .. a + r : u = p[1] /\ p = <<u, b + y>>  BY <1>13
    <2>2. PICK x \in Int : x = u - a /\ u = a + x  OBVIOUS
    <2>3. (b + y) - b = y  OBVIOUS
    <2>4. SquareOf(x) + Y <= R  BY <1>1, <1>13, <2>1, <2>2, <2>3 DEF InDisc
    <2>5. SquareOf(x) \in Nat  BY SquareIs
    <2>6. SquareOf(x) <= n  BY <1>1, <1>3, <2>4, <2>5
    <2>7. x \in -e .. e  BY <1>5, <2>6
    <2>8. QED  BY <2>1, <2>2, <2>7
<1>14. QED  BY <1>11, <1>12, <1>13 DEF DiscRow

LEMMA DiscBegins ==
    ASSUME CoreInv, NEW c \in Asking, Hands(c), call' = c, loop = Idle
    PROVE  DiscShape'
<1>1. SUFFICES ASSUME c.op = "disc", SquareOf(c.radius) <= IntMax, Around(c.at, c.radius)
               PROVE  /\ loop' # Idle
                      /\ loop'.center = c.at /\ loop'.radius = c.radius
                      /\ -c.radius <= loop'.y /\ loop'.y <= Greatest(-c.radius, c.radius + 1)
                      /\ drawn' = DiscAbove(c.at[1], c.at[2], c.radius, loop'.y)
    BY DEF DiscShape
<1>2. c.at \in Points /\ c.radius \in Int32  BY <1>1, Fields
<1>3. PICK r \in Int : r = c.radius /\ -r \in Int32 /\ r + 1 \in Int32  BY <1>1, <1>2, RadiusIs
<1>4. PICK l : l = [kind |-> "disc", y |-> Wrap(-c.radius), radius |-> c.radius, center |-> c.at,
                    color |-> ColorOf(c.color)]
    OBVIOUS
<1>5. loop' = l /\ drawn' = {}  BY <1>1, <1>4 DEF Hands, graphics_fill_circle, Loop
<1>6. l.y = -r /\ l.radius = r /\ l.center = c.at /\ l.kind = "disc"  BY <1>3, <1>4, WrapSame
<1>7. l # Idle
    <2>1. Idle.kind = "idle"  BY DEF Idle
    <2>2. QED  BY <1>6, <2>1
<1>8. -r <= -r /\ -r <= Greatest(-r, r + 1)  BY DEF Greatest
<1>9. PICK a, b \in Int : a = c.at[1] /\ b = c.at[2]  BY <1>2, PointIs, Ints
<1>10. DiscAbove(a, b, r, -r) = {}
    <2>1. SUFFICES ASSUME NEW p \in (a - r .. a + r) \X (b - r .. b + r), p[2] < b + (-r) PROVE FALSE
        BY DEF DiscAbove
    <2>2. p[2] \in b - r .. b + r  OBVIOUS
    <2>3. QED  BY <2>1, <2>2
<1>11. QED  BY <1>3, <1>5, <1>6, <1>7, <1>8, <1>9, <1>10

LEMMA DiscGoesOn ==
    ASSUME CoreInv, DiscShape, DuringLoop, DiscIteration, call.op = "disc"
    PROVE  DiscShape'
<1>1. SUFFICES ASSUME SquareOf(call.radius) <= IntMax, Around(call.at, call.radius)
               PROVE  IF loop' = Idle THEN IsDisc(drawn', call.at, call.radius)
                      ELSE /\ loop'.center = call.at /\ loop'.radius = call.radius
                           /\ -call.radius <= loop'.y /\ loop'.y <= Greatest(-call.radius, call.radius + 1)
                           /\ drawn' = DiscAbove(call.at[1], call.at[2], call.radius, loop'.y)
    BY DEF DiscShape, DuringLoop
<1>2. call \in Asking
    <2>1. call \in Asking \cup {[op |-> "none"]} /\ [op |-> "none"].op = "none"  BY DEF CoreInv, VixTypes
    <2>2. QED  BY <2>1
<1>3. call.at \in Points /\ call.radius \in Int32  BY <1>2, Fields
<1>4. PICK r \in Int : r = call.radius /\ -r \in Int32 /\ r + 1 \in Int32  BY <1>1, <1>3, RadiusIs
<1>5. PICK a, b \in Int : a = call.at[1] /\ b = call.at[2]  BY <1>3, PointIs, Ints
<1>6. a - r \in Int32 /\ b - r \in Int32 /\ a + r \in Int32 /\ b + r \in Int32  BY <1>1, <1>3, <1>4, <1>5, AroundIs
<1>7. loop # Idle /\ result' = result  BY DEF DuringLoop
<1>8. /\ loop.center = call.at /\ loop.radius = r /\ -r <= loop.y /\ loop.y <= Greatest(-r, r + 1)
      /\ drawn = DiscAbove(a, b, r, loop.y)
    BY <1>1, <1>4, <1>5, <1>7 DEF DiscShape
<1>9. PICK l \in DiscLoops : l = loop  BY <1>7, DiscIs
<1>10. PICK y \in Int : y = l.y /\ -r <= y /\ y <= Greatest(-r, r + 1)  BY <1>8, <1>9, Ints DEF DiscLoops
<1>11. CASE y <= r
    <2>1. r \in Nat /\ y + 1 \in Int32 /\ y + 1 <= r + 1 /\ y + 1 <= Greatest(-r, r + 1)
        <3>1. r \in Nat  BY <1>10, <1>11
        <3>2. r + 1 <= IntMax  BY <1>4, Ints
        <3>3. y + 1 \in Int32  BY <1>10, <1>11, <3>1, <3>2, SmallInts, IntMaxIs
        <3>4. Greatest(-r, r + 1) = r + 1  BY <3>1 DEF Greatest
        <3>5. QED  BY <1>11, <3>1, <3>3, <3>4
    <2>2. /\ drawn' = drawn \cup Scanline(l) /\ loop' = [l EXCEPT !.y = Wrap(y + 1)]
        BY <1>7, <1>8, <1>9, <1>10, <1>11, DiscIs DEF Paints
    <2>3. loop' = [l EXCEPT !.y = y + 1]  BY <2>1, <2>2, WrapSame
    <2>4. loop'.center = l.center /\ loop'.radius = l.radius /\ loop'.y = y + 1 /\ loop'.kind = "disc"
        BY <1>9, <2>3 DEF DiscLoops
    <2>5. loop' # Idle
        <3>1. Idle.kind = "idle"  BY DEF Idle
        <3>2. QED  BY <2>4, <3>1
    <2>6. Scanline(l) = DiscRow(a, b, r, y)
        <3>1. a = l.center[1] /\ b = l.center[2] /\ r = l.radius  BY <1>4, <1>5, <1>8, <1>9
        <3>2. SquareOf(r) <= IntMax /\ r \in Nat  BY <1>1, <1>4, <2>1
        <3>3. QED  BY <1>6, <1>9, <1>10, <1>11, <3>1, <3>2, ScanlineIs
    <2>7. DiscAbove(a, b, r, y + 1) = DiscAbove(a, b, r, y) \cup Scanline(l)
        <3>1. \A p \in (a - r .. a + r) \X (b - r .. b + r) :
                 p[2] < b + (y + 1) <=> p[2] < b + y \/ p[2] = b + y
            OBVIOUS
        <3>2. QED  BY <2>6, <3>1 DEF DiscAbove, DiscRow
    <2>8. -r <= y + 1  BY <1>10
    <2>9. QED  BY <1>4, <1>5, <1>8, <1>9, <1>10, <2>1, <2>2, <2>4, <2>5, <2>7, <2>8
<1>12. CASE ~(y <= r)
    <2>1. loop' = Idle /\ drawn' = drawn  BY <1>7, <1>8, <1>9, <1>10, <1>12, DiscIs
    <2>2. drawn = {p \in (a - r .. a + r) \X (b - r .. b + r) : InDisc(p, a, b, r)}
        <3>1. \A p \in (a - r .. a + r) \X (b - r .. b + r) : p[2] < b + y
            <4>1. TAKE p \in (a - r .. a + r) \X (b - r .. b + r)
            <4>2. p[2] \in b - r .. b + r  OBVIOUS
            <4>3. QED  BY <1>10, <1>12, <4>2
        <3>2. QED  BY <1>8, <1>9, <1>10, <3>1 DEF DiscAbove
    <2>3. IsDisc(drawn, call.at, call.radius)  BY <1>4, <1>5, <2>2 DEF IsDisc, Apart, InDisc
    <2>4. QED  BY <2>1, <2>3
<1>13. QED  BY <1>11, <1>12

LEMMA DiscKept == ASSUME CoreInv, DiscShape, [VixNext]_vixVars PROVE DiscShape'
<1>1. CASE UNCHANGED vixVars  BY <1>1 DEF vixVars, vars, DiscShape
<1>2. CASE VixNext /\ \E c \in Asking : Hands(c) /\ call' = c /\ loop = Idle  BY <1>2, DiscBegins
<1>3. CASE DuringLoop /\ call.op # "disc"  BY <1>3 DEF DuringLoop, DiscShape
<1>4. CASE DuringLoop /\ DiscIteration /\ call.op = "disc"  BY <1>4, DiscGoesOn
<1>5. QED  BY <1>1, <1>2, <1>3, <1>4, StepIs

----------------------------------------------------------------------------
(* A text: each character is where its row and its column are.               *)
LEMMA Products ==
    /\ \A a, b \in Int : a * b \in Int /\ a * b = b * a
    /\ \A a, b, c \in Int : a * (b + c) = a * b + a * c /\ a * (b * c) = (a * b) * c
    /\ \A a, b \in Nat : a * b \in Nat
    /\ \A a, b, c \in Nat : b <= c => a * b <= a * c
<1>1. /\ \A a, b \in Int : a * b \in Int /\ a * b = b * a
      /\ \A a, b, c \in Int : a * (b + c) = a * b + a * c /\ a * (b * c) = (a * b) * c
      /\ \A a, b \in Nat : a * b \in Nat
    OBVIOUS
<1>2. ASSUME NEW a \in Nat, NEW b \in Nat, NEW c \in Nat, b <= c PROVE a * b <= a * c
    <2>1. PICK d \in Nat : d = c - b /\ c = b + d  BY <1>2
    <2>2. a * (b + d) = a * b + a * d  BY <1>1
    <2>3. PICK m, n, k \in Nat : m = a * b /\ n = a * d /\ k = a * c  BY <1>1
    <2>4. k = m + n  BY <2>1, <2>2, <2>3
    <2>5. QED  BY <2>3, <2>4
<1>3. QED  BY <1>1, <1>2

LEMMA RowsAre ==
    ASSUME NEW text
    PROVE  /\ Row(text, 1) = 0
           /\ \A n \in Nat \ {0} :
                 /\ Row(text, n) \in Nat
                 /\ Row(text, n + 1) = Row(text, n) + (IF text[n] = "\n" THEN 1 ELSE 0)
                 /\ Newlines(text, n + 1) = Newlines(text, n) \cup (IF text[n] = "\n" THEN {n} ELSE {})
                 /\ n \notin Newlines(text, n)
<1>1. ASSUME NEW n \in Nat \ {0} PROVE IsFiniteSet(Newlines(text, n)) /\ Row(text, n) \in Nat
    <2>1. IsFiniteSet(1 .. n - 1)
        <3>1. 1 \in Int /\ n - 1 \in Int  OBVIOUS
        <3>2. QED  BY <3>1, FS_Interval
    <2>2. Newlines(text, n) \subseteq 1 .. n - 1  BY DEF Newlines
    <2>3. IsFiniteSet(Newlines(text, n))  BY <2>1, <2>2, FS_Subset
    <2>4. QED  BY <2>3, FS_CardinalityType DEF Row
<1>2. Row(text, 1) = 0
    <2>1. Newlines(text, 1) = {}
        <3>1. 1 .. 1 - 1 = {}  OBVIOUS
        <3>2. QED  BY <3>1 DEF Newlines
    <2>2. QED  BY <2>1, FS_EmptySet DEF Row
<1>3. ASSUME NEW n \in Nat \ {0}
      PROVE  /\ Newlines(text, n + 1) = Newlines(text, n) \cup (IF text[n] = "\n" THEN {n} ELSE {})
             /\ n \notin Newlines(text, n)
             /\ Row(text, n + 1) = Row(text, n) + (IF text[n] = "\n" THEN 1 ELSE 0)
    <2>1. 1 .. (n + 1) - 1 = (1 .. n - 1) \cup {n} /\ n \notin 1 .. n - 1  OBVIOUS
    <2>2. Newlines(text, n + 1) = Newlines(text, n) \cup (IF text[n] = "\n" THEN {n} ELSE {})
        BY <2>1 DEF Newlines
    <2>3. n \notin Newlines(text, n)  BY <2>1 DEF Newlines
    <2>4. CASE text[n] = "\n"
        <3>1. Cardinality(Newlines(text, n) \cup {n}) = Cardinality(Newlines(text, n)) + 1
            BY <1>1, <2>3, FS_AddElement
        <3>2. QED  BY <2>2, <2>3, <2>4, <3>1 DEF Row
    <2>5. CASE text[n] # "\n"
        <3>1. Newlines(text, n + 1) = Newlines(text, n)  BY <2>2, <2>5
        <3>2. QED  BY <1>1, <2>2, <2>3, <2>5, <3>1 DEF Row
    <2>6. QED  BY <2>4, <2>5
<1>4. QED  BY <1>1, <1>2, <1>3

LEMMA ColumnsStep ==
    ASSUME NEW text
    PROVE  /\ Column(text, 1) = 0
           /\ \A n \in Nat \ {0} :
                 /\ Column(text, n) \in Nat
                 /\ Column(text, n + 1) = IF text[n] = "\n" THEN 0
                                          ELSE Column(text, n) + (IF text[n] = "\t" THEN 4 ELSE 1)
<1> DEFINE Tabs(n) == {i \in SameLine(text, n) : text[i] = "\t"}
<1>1. ASSUME NEW n \in Nat \ {0}
      PROVE  /\ IsFiniteSet(SameLine(text, n)) /\ Cardinality(SameLine(text, n)) \in Nat
             /\ IsFiniteSet(Tabs(n)) /\ Cardinality(Tabs(n)) \in Nat
    <2>1. IsFiniteSet(1 .. n - 1)
        <3>1. 1 \in Int /\ n - 1 \in Int  OBVIOUS
        <3>2. QED  BY <3>1, FS_Interval
    <2>2. SameLine(text, n) \subseteq 1 .. n - 1 /\ Tabs(n) \subseteq 1 .. n - 1  BY DEF SameLine
    <2>3. IsFiniteSet(SameLine(text, n)) /\ IsFiniteSet(Tabs(n))  BY <2>1, <2>2, FS_Subset
    <2>4. QED  BY <2>3, FS_CardinalityType
<1>2. \A n \in Nat \ {0} : Column(text, n) = Cardinality(SameLine(text, n)) + 3 * Cardinality(Tabs(n))
    BY DEF Column
<1>3. ASSUME NEW n, SameLine(text, n) = {} PROVE Column(text, n) = 0
    <2>1. {i \in SameLine(text, n) : text[i] = "\t"} = {}  BY <1>3
    <2>2. Cardinality({}) = 0  BY FS_EmptySet
    <2>3. QED  BY <1>3, <2>1, <2>2 DEF Column
<1>4. Column(text, 1) = 0
    <2>1. 1 .. 1 - 1 = {}  OBVIOUS
    <2>2. QED  BY <1>3, <2>1 DEF SameLine
<1>5. ASSUME NEW n \in Nat \ {0}, text[n] = "\n" PROVE Column(text, n + 1) = 0
    <2>1. n \in Newlines(text, n + 1)  BY <1>5, RowsAre
    <2>2. \A i \in 1 .. n : n \notin Newlines(text, i)
        <3>1. \A i \in 1 .. n : n \notin 1 .. i - 1  OBVIOUS
        <3>2. QED  BY <3>1 DEF Newlines
    <2>3. 1 .. (n + 1) - 1 = 1 .. n  OBVIOUS
    <2>4. SameLine(text, n + 1) = {}  BY <2>1, <2>2, <2>3 DEF SameLine
    <2>5. QED  BY <1>3, <2>4
<1>6. ASSUME NEW n \in Nat \ {0}, text[n] # "\n"
      PROVE  Column(text, n + 1) = Column(text, n) + (IF text[n] = "\t" THEN 4 ELSE 1)
    <2>1. Newlines(text, n + 1) = Newlines(text, n)
        <3>1. Newlines(text, n + 1) = Newlines(text, n) \cup (IF text[n] = "\n" THEN {n} ELSE {})  BY RowsAre
        <3>2. (IF text[n] = "\n" THEN {n} ELSE {}) = {}  BY <1>6
        <3>3. QED  BY <3>1, <3>2
    <2>2. 1 .. (n + 1) - 1 = (1 .. n - 1) \cup {n} /\ n \notin 1 .. n - 1  OBVIOUS
    <2>3. SameLine(text, n + 1) = SameLine(text, n) \cup {n} /\ n \notin SameLine(text, n)
        BY <1>6, <2>1, <2>2 DEF SameLine
    <2>4. Cardinality(SameLine(text, n + 1)) = Cardinality(SameLine(text, n)) + 1  BY <1>1, <2>3, FS_AddElement
    <2>5. CASE text[n] = "\t"
        <3>1. Tabs(n + 1) = Tabs(n) \cup {n} /\ n \notin Tabs(n)  BY <2>3, <2>5
        <3>2. Cardinality(Tabs(n + 1)) = Cardinality(Tabs(n)) + 1  BY <1>1, <3>1, FS_AddElement
        <3>3. n + 1 \in Nat \ {0}  OBVIOUS
        <3> HIDE DEF Tabs
        <3>4. QED  BY <1>1, <1>2, <2>4, <2>5, <3>2, <3>3
    <2>6. CASE text[n] # "\t"
        <3>1. Tabs(n + 1) = Tabs(n)  BY <2>3, <2>6
        <3>3. n + 1 \in Nat \ {0}  OBVIOUS
        <3> HIDE DEF Tabs
        <3>4. QED  BY <1>1, <1>2, <2>4, <2>6, <3>1, <3>3
    <2>7. QED  BY <2>5, <2>6
<1>7. \A n \in Nat \ {0} : Column(text, n) \in Nat
    <2> HIDE DEF Tabs
    <2>1. QED  BY <1>1, <1>2
<1>8. QED  BY <1>4, <1>5, <1>6, <1>7

LEMMA PlacesBounded ==
    ASSUME NEW text
    PROVE  \A n \in Nat : Column(text, n + 1) <= 4 * n /\ Row(text, n + 1) <= n
<1> DEFINE S == {n \in Nat : Column(text, n + 1) <= 4 * n /\ Row(text, n + 1) <= n}
<1>1. 0 \in S
    <2>1. 0 + 1 = 1  OBVIOUS
    <2>2. QED  BY <2>1, RowsAre, ColumnsStep
<1>2. ASSUME NEW n \in Nat, n \in S PROVE n + 1 \in S
    <2>1. PICK m \in Nat \ {0} : m = n + 1  OBVIOUS
    <2>2. PICK col, row \in Nat : col = Column(text, m) /\ row = Row(text, m)  BY RowsAre, ColumnsStep
    <2>3. Column(text, m + 1) \in Nat /\ Column(text, m + 1) <= col + 4
        <3>1. Column(text, m + 1) = IF text[m] = "\n" THEN 0
                                    ELSE Column(text, m) + (IF text[m] = "\t" THEN 4 ELSE 1)
            BY ColumnsStep
        <3>2. Column(text, m + 1) \in {0, col + 4, col + 1}  BY <2>2, <3>1
        <3>3. QED  BY <3>2
    <2>4. Row(text, m + 1) \in Nat /\ Row(text, m + 1) <= row + 1
        <3>1. Row(text, m + 1) = Row(text, m) + (IF text[m] = "\n" THEN 1 ELSE 0)  BY RowsAre
        <3>2. Row(text, m + 1) \in {row, row + 1}  BY <2>2, <3>1
        <3>3. QED  BY <3>2
    <2>5. col <= 4 * n /\ row <= n  BY <1>2, <2>1, <2>2
    <2>6. QED  BY <2>1, <2>3, <2>4, <2>5
<1>3. \A n \in Nat : n \in S
    <2> HIDE DEF S
    <2>1. QED  BY <1>1, <1>2, SetInduction
<1>4. QED  BY <1>3

\* On one axis: the pixels of a dot are scale wide, from the dot's own place on.
DotAt(c, m, s, d) == c + m * s + d
IsDotAt(p, c, m, s, d) == p = DotAt(c, m, s, d)
IsDotOf(m, p, a, s, x) == m = ((p - a) \div s) - x
IsBase(c, a, s, x) == c = a + s * x
RoomFor(c, s, size) == c >= -IntMax - 1 /\ c + s * size <= IntMax + 1

LEMMA DotSums ==
    ASSUME NEW a \in Int, NEW s \in Nat \ {0}, NEW x \in Nat, NEW c \in Int, IsBase(c, a, s, x), NEW m \in Int
    PROVE  \E sx \in Nat, sm \in Int, sq \in Int, q \in Int :
                c = a + sx /\ sm = m * s /\ q = x + m /\ sq = s * q /\ sq = sx + sm
<1>1. PICK sx \in Nat : sx = s * x  BY Products
<1>2. c = a + sx  BY <1>1 DEF IsBase
<1>3. s * (x + m) = s * x + s * m /\ s * m = m * s /\ s * m \in Int /\ s * x \in Int  BY Products
<1>4. PICK sm \in Int, q \in Int : sm = m * s /\ q = x + m  BY <1>3
<1>5. PICK sq \in Int : sq = s * q  OBVIOUS
<1>6. sq = sx + sm  BY <1>1, <1>3, <1>4, <1>5
<1>7. QED  BY <1>2, <1>4, <1>5, <1>6

LEMMA DotUnder ==
    ASSUME NEW a \in Int, NEW s \in Nat \ {0}, NEW x \in Nat, NEW c \in Int, IsBase(c, a, s, x), NEW p \in Int,
           NEW m \in Int, IsDotOf(m, p, a, s, x)
    PROVE  \E d \in 0 .. s - 1 : IsDotAt(p, c, m, s, d)
<1>1. PICK j \in Int : j = p - a  OBVIOUS
<1>2. j \div s \in Int /\ j % s \in 0 .. s - 1  OBVIOUS
<1>3. PICK k \in Int, r \in 0 .. s - 1 : k = j \div s /\ r = j % s  BY <1>2
<1>4. j = s * k + r  BY <1>3, Division
<1>5. m = k - x  BY <1>1, <1>3 DEF IsDotOf
<1>6. PICK sx \in Nat, sm \in Int, sq \in Int, q \in Int :
         c = a + sx /\ sm = m * s /\ q = x + m /\ sq = s * q /\ sq = sx + sm
    BY DotSums
<1>7. k = q  BY <1>5, <1>6
<1>8. p = c + sm + r  BY <1>1, <1>4, <1>6, <1>7
<1>9. IsDotAt(p, c, m, s, r)  BY <1>6, <1>8 DEF IsDotAt, DotAt
<1>10. QED  BY <1>9

LEMMA DotAround ==
    ASSUME NEW a \in Int, NEW s \in Nat \ {0}, NEW x \in Nat, NEW c \in Int, IsBase(c, a, s, x), NEW m \in Nat,
           NEW d \in 0 .. s - 1, NEW p \in Int, IsDotAt(p, c, m, s, d)
    PROVE  IsDotOf(m, p, a, s, x)
<1>1. PICK sx \in Nat, sm \in Int, sq \in Int, q \in Int :
         c = a + sx /\ sm = m * s /\ q = x + m /\ sq = s * q /\ sq = sx + sm
    BY DotSums
<1>2. p = c + sm + d  BY <1>1 DEF IsDotAt, DotAt
<1>3. PICK j \in Int : j = p - a  OBVIOUS
<1>4. j = sq + d  BY <1>1, <1>2, <1>3
<1>5. (s * q + d) \div s = q
    <2>1. q \in Nat  BY <1>1
    <2>2. QED  BY <2>1, DivisionOf
<1>6. j \div s = q  BY <1>1, <1>4, <1>5
<1>7. QED  BY <1>1, <1>3, <1>6 DEF IsDotOf

\* What is set for a character, and what is lit of it.
LitBy(text, at, s, n) == {p \in Int \X Int : Lit(text, at, s, n, p)}

\* Where a character stands that fits an int with its right and lower end.
Standing(l, text, at, s, n) ==
    /\ l \in TextLoops /\ l.scale = s
    /\ l.x = at[1] + s * (Column(text, n) * FontWidth) /\ l.y = at[2] + s * (Row(text, n) * FontHeight)
    /\ l.x + s * FontWidth <= IntMax + 1 /\ l.y + s * FontHeight <= IntMax + 1

LEMMA DotIn ==
    ASSUME NEW c \in Int, NEW s \in Nat \ {0}, NEW size \in Nat, NEW m \in 0 .. size - 1,
           NEW d \in 0 .. s - 1, RoomFor(c, s, size)
    PROVE  DotAt(c, m, s, d) \in Int /\ Wrap(DotAt(c, m, s, d)) = DotAt(c, m, s, d)
<1>2. PICK ms, ss \in Nat : ms = m * s /\ ss = s * size
    <2>1. m * s \in Nat /\ s * size \in Nat  BY Products
    <2>2. QED  BY <2>1
<1>3. ms + s <= ss
    <2>1. s * (m + 1) <= s * size
        <3>1. m + 1 \in Nat /\ m + 1 <= size  OBVIOUS
        <3>2. QED  BY <3>1, Products
    <2>2. s * (m + 1) = s * m + s * 1 /\ s * m = m * s /\ s * 1 = s  BY Products
    <2>3. QED  BY <1>2, <2>1, <2>2
<1>4. PICK z \in Int : z = c + ms + d  OBVIOUS
<1>5. z <= IntMax /\ z >= -IntMax - 1
    BY <1>2, <1>3, <1>4, IntMaxIs DEF RoomFor
<1>6. z \in Int32  BY <1>4, <1>5, SmallInts
<1>7. Wrap(z) = z  BY <1>6, WrapSame
<1>8. QED  BY <1>2, <1>4, <1>6, <1>7 DEF DotAt

LEMMA CharPixelsAre ==
    ASSUME NEW text \in Seq(Chars), NEW at \in Points, NEW s \in Nat \ {0}, NEW n \in 1 .. Len(text),
           NEW l, Standing(l, text, at, s, n)
    PROVE  CharPixels(l, text[n]) = LitBy(text, at, s, n)
<1>1. PICK char \in Chars : char = text[n]  OBVIOUS
<1>2. CASE char \in {"\n", "\t"}
    <2>1. char \notin DOMAIN Font  BY <1>2, GraphicsConstants
    <2>2. QED  BY <1>1, <1>2, <2>1 DEF CharPixels, LitBy, Lit
<1>3. CASE char \notin {"\n", "\t"}
    <2>1. char \in DOMAIN Font  BY <1>3 DEF Chars
    <2>2. Font[char] \subseteq (0 .. FontWidth - 1) \X (0 .. FontHeight - 1)  BY <2>1, GraphicsConstants
    <2>3. PICK x, y \in Nat : x = Column(text, n) * FontWidth /\ y = Row(text, n) * FontHeight
        <3>0. n \in Nat \ {0}  OBVIOUS
        <3>1. Column(text, n) \in Nat /\ Row(text, n) \in Nat  BY <3>0, RowsAre, ColumnsStep
        <3>2. Column(text, n) * FontWidth \in Nat /\ Row(text, n) * FontHeight \in Nat  BY <3>1, Products, IntMaxIs
        <3>3. QED  BY <3>2
    <2>4. PICK a, b \in Int32 : a = at[1] /\ b = at[2]  BY PointIs
    <2>5. a \in Int /\ b \in Int  BY Ints
    <2>6. PICK sx, sy \in Nat : sx = s * x /\ sy = s * y
        <3>1. s * x \in Nat /\ s * y \in Nat  BY Products
        <3>2. QED  BY <3>1
    <2>17. PICK cx, cy \in Int : IsBase(cx, a, s, x) /\ IsBase(cy, b, s, y) /\ cx = a + sx /\ cy = b + sy
        BY <2>5, <2>6 DEF IsBase
    <2>7. /\ l.scale = s /\ l.x = cx /\ l.y = cy
          /\ cx + s * FontWidth <= IntMax + 1 /\ cy + s * FontHeight <= IntMax + 1
        BY <2>3, <2>4, <2>17 DEF Standing, IsBase
    <2>20. s \in Nat \ {0} /\ x \in Nat /\ y \in Nat  OBVIOUS
    <2>18. RoomFor(cx, s, FontWidth) /\ RoomFor(cy, s, FontHeight)
        <3>1. cx >= -IntMax - 1 /\ cy >= -IntMax - 1
            <4>1. a >= -IntMax - 1 /\ b >= -IntMax - 1  BY <2>4, Ints
            <4>2. QED  BY <2>5, <2>17, <4>1, IntMaxIs
        <3>2. QED  BY <2>7, <3>1 DEF RoomFor
    <2>8. ASSUME NEW m \in 0 .. FontWidth - 1, NEW d \in 0 .. s - 1
          PROVE  Wrap(DotAt(cx, m, s, d)) = DotAt(cx, m, s, d) /\ DotAt(cx, m, s, d) \in Int
        BY <2>18, DotIn, IntMaxIs
    <2>9. ASSUME NEW m \in 0 .. FontHeight - 1, NEW d \in 0 .. s - 1
          PROVE  Wrap(DotAt(cy, m, s, d)) = DotAt(cy, m, s, d) /\ DotAt(cy, m, s, d) \in Int
        BY <2>18, DotIn, IntMaxIs
    <2>10. CharPixels(l, char) =
             UNION {{<<Wrap(DotAt(cx, lit[1], s, d)), Wrap(DotAt(cy, lit[2], s, e))>> : d, e \in 0 .. s - 1} :
                       lit \in Font[char]}
        BY <1>3, <2>7 DEF CharPixels, Block, DotAt
    <2>11. \A p \in Int \X Int : Lit(text, at, s, n, p) <=>
              \E u, v : IsDotOf(u, p[1], a, s, x) /\ IsDotOf(v, p[2], b, s, y) /\ <<u, v>> \in Font[char]
        BY <1>1, <2>1, <2>3, <2>4 DEF Lit, Dot, IsDotOf
    <2>12. ASSUME NEW lit \in Font[char], NEW d \in 0 .. s - 1, NEW e \in 0 .. s - 1
           PROVE  <<Wrap(DotAt(cx, lit[1], s, d)), Wrap(DotAt(cy, lit[2], s, e))>> \in LitBy(text, at, s, n)
        <3>1. PICK u \in 0 .. FontWidth - 1, v \in 0 .. FontHeight - 1 : lit = <<u, v>>  BY <2>2
        <3>2. PICK i, j \in Int : i = DotAt(cx, u, s, d) /\ j = DotAt(cy, v, s, e)  BY <2>8, <2>9
        <3>3. Wrap(i) = i /\ Wrap(j) = j  BY <2>8, <2>9, <3>2
        <3>4. u \in Nat /\ v \in Nat  OBVIOUS
        <3>10. IsDotAt(i, cx, u, s, d) /\ IsDotAt(j, cy, v, s, e)  BY <3>2 DEF IsDotAt
        <3>5. IsDotOf(u, i, a, s, x)  BY <2>5, <2>17, <2>20, <3>4, <3>10, DotAround
        <3>6. IsDotOf(v, j, b, s, y)  BY <2>5, <2>17, <2>20, <3>4, <3>10, DotAround
        <3>7. PICK p \in Int \X Int : p = <<i, j>>  OBVIOUS
        <3>8. Lit(text, at, s, n, p)  BY <2>11, <3>1, <3>5, <3>6, <3>7
        <3>9. QED  BY <3>1, <3>2, <3>3, <3>7, <3>8 DEF LitBy
    <2>13. ASSUME NEW p \in Int \X Int, Lit(text, at, s, n, p)
           PROVE  \E lit \in Font[char] : \E d, e \in 0 .. s - 1 :
                     p = <<Wrap(DotAt(cx, lit[1], s, d)), Wrap(DotAt(cy, lit[2], s, e))>>
        <3>1. PICK i, j \in Int : p = <<i, j>>  OBVIOUS
        <3>2. PICK u, v : IsDotOf(u, i, a, s, x) /\ IsDotOf(v, j, b, s, y) /\ <<u, v>> \in Font[char]
            BY <2>11, <2>13, <3>1
        <3>4. u \in 0 .. FontWidth - 1 /\ v \in 0 .. FontHeight - 1  BY <2>2, <3>2
        <3>5. u \in Int /\ v \in Int  BY <3>4, IntMaxIs
        <3>6. PICK d \in 0 .. s - 1 : i = DotAt(cx, u, s, d)
            <4>1. \E d \in 0 .. s - 1 : IsDotAt(i, cx, u, s, d)  BY <2>5, <2>17, <2>20, <3>2, <3>5, DotUnder
            <4>2. QED  BY <4>1 DEF IsDotAt
        <3>7. PICK e \in 0 .. s - 1 : j = DotAt(cy, v, s, e)
            <4>1. \E f \in 0 .. s - 1 : IsDotAt(j, cy, v, s, f)  BY <2>5, <2>17, <2>20, <3>2, <3>5, DotUnder
            <4>2. QED  BY <4>1 DEF IsDotAt
        <3>8. p = <<Wrap(DotAt(cx, u, s, d)), Wrap(DotAt(cy, v, s, e))>>
            BY <2>8, <2>9, <3>1, <3>4, <3>6, <3>7
        <3>9. PICK lit \in Font[char] : lit = <<u, v>>  BY <3>2
        <3>10. lit[1] = u /\ lit[2] = v  BY <3>9
        <3>11. QED  BY <3>8, <3>9, <3>10
    <2>14. LitBy(text, at, s, n) \subseteq CharPixels(l, char)
        <3>1. SUFFICES ASSUME NEW p \in Int \X Int, Lit(text, at, s, n, p) PROVE p \in CharPixels(l, char)
            BY DEF LitBy
        <3>2. PICK lit \in Font[char] : \E d, e \in 0 .. s - 1 :
                 p = <<Wrap(DotAt(cx, lit[1], s, d)), Wrap(DotAt(cy, lit[2], s, e))>>
            BY <2>13, <3>1
        <3>3. QED  BY <2>10, <3>2
    <2>15. CharPixels(l, char) \subseteq LitBy(text, at, s, n)  BY <2>10, <2>12
    <2>16. QED  BY <1>1, <2>14, <2>15
<1>4. QED  BY <1>2, <1>3

\* Where a character stands.
XOf(text, at, s, n) == at[1] + s * (Column(text, n) * FontWidth)
YOf(text, at, s, n) == at[2] + s * (Row(text, n) * FontHeight)

\* What a text's length bounds.
Roomy(text, at, s, w, h, wide, high) ==
    /\ w = FontWidth * s /\ h = FontHeight * s
    /\ wide = w * (4 * Len(text)) /\ high = h * Len(text)
    /\ TextBox(text, at, s) = Rect(at[1], at[2], wide, high)
    /\ at[1] + wide <= IntMax /\ at[2] + high <= IntMax /\ wide <= IntMax

LEMMA RoomIs ==
    ASSUME NEW text \in Seq(Chars), NEW at \in Points, NEW s \in Nat \ {0}, TextFits(text, at, s)
    PROVE  \E w, h, wide, high \in Nat : Roomy(text, at, s, w, h, wide, high)
<1>1. PICK n \in Nat : n = Len(text)  OBVIOUS
<1>2. PICK w, h \in Nat : w = FontWidth * s /\ h = FontHeight * s  BY Products, IntMaxIs
<1>3. PICK wide, high \in Nat : wide = w * (4 * n) /\ high = h * n
    <2>1. 4 * n \in Nat  OBVIOUS
    <2>2. w * (4 * n) \in Nat /\ h * n \in Nat  BY <2>1, Products
    <2>3. QED  BY <2>2
<1>4. 4 * FontWidth * s * n = wide
    <2>1. PICK f \in Int : f = FontWidth  BY IntMaxIs
    <2>2. (4 * f) * s = 4 * w  BY <1>2, <2>1
    <2>3. (4 * w) * n = w * (4 * n)  OBVIOUS
    <2>4. QED  BY <1>3, <2>1, <2>2, <2>3
<1>5. PICK a, b \in Int : a = at[1] /\ b = at[2]  BY PointIs, Ints
<1>6. TextBox(text, at, s) = Rect(a, b, wide, high)  BY <1>1, <1>2, <1>3, <1>4, <1>5 DEF TextBox
<1>7. TextBox(text, <<0, 0>>, s) = Rect(0, 0, wide, high)  BY <1>1, <1>2, <1>3, <1>4 DEF TextBox
<1>8. a + wide \in Int32 /\ b + high \in Int32 /\ 0 + wide \in Int32
    BY <1>6, <1>7 DEF TextFits, Fits, Rect
<1>9. a + wide <= IntMax /\ b + high <= IntMax /\ wide <= IntMax  BY <1>8, Ints
<1>10. Roomy(text, at, s, w, h, wide, high)  BY <1>1, <1>2, <1>3, <1>5, <1>6, <1>9 DEF Roomy
<1>11. QED  BY <1>10

\* A place is a whole number of characters from the text's own.
Counted(text, n, w, h, c, r, across, down) ==
    /\ c = Column(text, n) /\ r = Row(text, n) /\ across = w * c /\ down = h * r
Placing(text, at, s, n, across, down) ==
    /\ XOf(text, at, s, n) = at[1] + across /\ YOf(text, at, s, n) = at[2] + down

LEMMA PlaceIs ==
    ASSUME NEW text, NEW at \in Points, NEW s \in Nat \ {0}, NEW n \in Nat \ {0},
           NEW w \in Nat, NEW h \in Nat, w = FontWidth * s, h = FontHeight * s
    PROVE  \E c, r, across, down \in Nat :
              Counted(text, n, w, h, c, r, across, down) /\ Placing(text, at, s, n, across, down)
<1>1. PICK c, r \in Nat : c = Column(text, n) /\ r = Row(text, n)  BY RowsAre, ColumnsStep
<1>2. PICK across, down \in Nat : across = w * c /\ down = h * r  BY Products
<1>3. PICK a, b \in Int : a = at[1] /\ b = at[2]  BY PointIs, Ints
<1>4. PICK f, g \in Nat : f = FontWidth /\ g = FontHeight  BY IntMaxIs
<1>5. s * (c * f) = across
    <2>1. c * f = f * c /\ s * (f * c) = (s * f) * c /\ s * f = f * s  BY Products
    <2>2. QED  BY <1>2, <1>4, <2>1
<1>6. s * (r * g) = down
    <2>1. r * g = g * r /\ s * (g * r) = (s * g) * r /\ s * g = g * s  BY Products
    <2>2. QED  BY <1>2, <1>4, <2>1
<1>7. XOf(text, at, s, n) = a + across  BY <1>1, <1>3, <1>4, <1>5 DEF XOf
<1>8. YOf(text, at, s, n) = b + down  BY <1>1, <1>3, <1>4, <1>6 DEF YOf
<1>9. Counted(text, n, w, h, c, r, across, down) /\ Placing(text, at, s, n, across, down)
    BY <1>1, <1>2, <1>3, <1>7, <1>8 DEF Counted, Placing
<1>10. QED  BY <1>9

\* Places are ints up to the one behind the text, and characters lie in its box.
LEMMA PlacesIn ==
    ASSUME NEW text \in Seq(Chars), NEW at \in Points, NEW s \in Nat \ {0},
           NEW w \in Nat, NEW h \in Nat, NEW wide \in Nat, NEW high \in Nat, Roomy(text, at, s, w, h, wide, high),
           NEW n \in 1 .. Len(text) + 1
    PROVE  /\ XOf(text, at, s, n) \in Int32 /\ YOf(text, at, s, n) \in Int32
           /\ XOf(text, at, s, n) >= at[1] /\ YOf(text, at, s, n) >= at[2]
           /\ n <= Len(text) => /\ XOf(text, at, s, n) + w <= at[1] + wide
                                /\ YOf(text, at, s, n) + h <= at[2] + high
<1>0. PICK N \in Nat : N = Len(text)  OBVIOUS
<1>1. w = FontWidth * s /\ h = FontHeight * s  BY DEF Roomy
<1>11. wide = w * (4 * N) /\ high = h * N  BY <1>0 DEF Roomy
<1>2. n \in Nat \ {0}  OBVIOUS
<1>3. PICK c, r, across, down \in Nat :
          Counted(text, n, w, h, c, r, across, down) /\ Placing(text, at, s, n, across, down)
    BY <1>1, <1>2, PlaceIs
<1>30. PICK a, b \in Int : a = at[1] /\ b = at[2] /\ a >= -IntMax - 1 /\ b >= -IntMax - 1  BY PointIs, Ints
<1>31. c = Column(text, n) /\ r = Row(text, n)  BY <1>3 DEF Counted
<1>32. across = w * c /\ down = h * r  BY <1>3 DEF Counted
<1>33. XOf(text, at, s, n) = a + across /\ YOf(text, at, s, n) = b + down  BY <1>3, <1>30 DEF Placing
<1>34. a + wide <= IntMax /\ b + high <= IntMax  BY <1>30 DEF Roomy
<1>4. PICK k \in Nat : n = k + 1 /\ k <= N
    <2>1. n - 1 \in Nat /\ n = (n - 1) + 1 /\ n - 1 <= N  BY <1>0
    <2>2. QED  BY <2>1
<1>5. c <= 4 * k /\ r <= k  BY <1>31, <1>4, PlacesBounded
<1>6. across <= wide /\ down <= high
    <2>1. 4 * N \in Nat /\ c <= 4 * N /\ r <= N  BY <1>4, <1>5
    <2>2. w * c <= w * (4 * N) /\ h * r <= h * N  BY <1>0, <2>1, Products
    <2>3. QED  BY <1>11, <1>32, <2>2
<1>35. PICK x, y \in Int : x = XOf(text, at, s, n) /\ y = YOf(text, at, s, n) /\ x = a + across /\ y = b + down
    BY <1>33
<1>7. x \in Int32 /\ y \in Int32
    <2>1. x <= IntMax /\ y <= IntMax  BY <1>34, <1>35, <1>6, IntMaxIs
    <2>2. x >= -IntMax - 1 /\ y >= -IntMax - 1
        <3>1. PICK low \in Int : low = -IntMax - 1  BY IntMaxIs
        <3>2. a >= low /\ b >= low  BY <1>30, <3>1
        <3>3. across >= 0 /\ down >= 0 /\ x = a + across /\ y = b + down  BY <1>3, <1>35
        <3>4. x >= low /\ y >= low  BY <3>2, <3>3
        <3>5. QED  BY <3>1, <3>4
    <2>3. QED  BY <2>1, <2>2, SmallInts
<1>8. ASSUME n <= N PROVE across + w <= wide /\ down + h <= high
    <2>1. PICK c1, r1 \in Nat : c1 = c + 1 /\ r1 = r + 1 /\ c1 <= 4 * N /\ r1 <= N  BY <1>4, <1>5, <1>8
    <2>2. w * c1 = across + w /\ h * r1 = down + h
        <3>1. w * (c + 1) = w * c + w * 1 /\ w * 1 = w /\ h * (r + 1) = h * r + h * 1 /\ h * 1 = h  BY Products
        <3>2. QED  BY <1>32, <2>1, <3>1
    <2>3. 4 * N \in Nat  OBVIOUS
    <2>4. w * c1 <= w * (4 * N) /\ h * r1 <= h * N  BY <2>1, <2>3, Products
    <2>5. QED  BY <1>11, <2>2, <2>4
<1>9. ASSUME n <= N PROVE x + w <= a + wide /\ y + h <= b + high  BY <1>8, <1>9, <1>35
<1>10. x >= a /\ y >= b  BY <1>35
<1>12. QED  BY <1>0, <1>30, <1>35, <1>7, <1>9, <1>10

\* The next character's place, as the loop computes it.
GoesOn(text, at, s, n) ==
    /\ text[n] = "\n" => /\ XOf(text, at, s, n + 1) = at[1]
                         /\ YOf(text, at, s, n + 1) = Wrap(YOf(text, at, s, n) + FontHeight * s)
    /\ text[n] # "\n" => /\ XOf(text, at, s, n + 1) = Wrap(XOf(text, at, s, n) + Advance(text[n], s))
                         /\ YOf(text, at, s, n + 1) = YOf(text, at, s, n)

LEMMA PlaceGoesOn ==
    ASSUME NEW text \in Seq(Chars), NEW at \in Points, NEW s \in Nat \ {0},
           NEW w \in Nat, NEW h \in Nat, NEW wide \in Nat, NEW high \in Nat, Roomy(text, at, s, w, h, wide, high),
           NEW n \in 1 .. Len(text)
    PROVE  GoesOn(text, at, s, n)
<1>1. w = FontWidth * s /\ h = FontHeight * s  BY DEF Roomy
<1>2. PICK m \in Nat \ {0} : m = n + 1 /\ m \in 1 .. Len(text) + 1 /\ n \in Nat \ {0} /\ n \in 1 .. Len(text) + 1
    <2>1. n + 1 \in Nat \ {0} /\ n + 1 \in 1 .. Len(text) + 1 /\ n \in Nat \ {0} /\ n \in 1 .. Len(text) + 1  OBVIOUS
    <2>2. QED  BY <2>1
<1>3. PICK c, r, across, down \in Nat :
          Counted(text, n, w, h, c, r, across, down) /\ Placing(text, at, s, n, across, down)
    BY <1>1, <1>2, PlaceIs
<1>30. PICK a, b \in Int : a = at[1] /\ b = at[2] /\ a >= -IntMax - 1 /\ b >= -IntMax - 1  BY PointIs, Ints
<1>31. c = Column(text, n) /\ r = Row(text, n)  BY <1>3 DEF Counted
<1>32. across = w * c /\ down = h * r  BY <1>3 DEF Counted
<1>33. XOf(text, at, s, n) = a + across /\ YOf(text, at, s, n) = b + down  BY <1>3, <1>30 DEF Placing
<1>4. PICK c2, r2, across2, down2 \in Nat :
          Counted(text, m, w, h, c2, r2, across2, down2) /\ Placing(text, at, s, m, across2, down2)
    BY <1>1, <1>2, PlaceIs
<1>41. c2 = Column(text, m) /\ r2 = Row(text, m)  BY <1>4 DEF Counted
<1>42. across2 = w * c2 /\ down2 = h * r2  BY <1>4 DEF Counted
<1>43. XOf(text, at, s, m) = a + across2 /\ YOf(text, at, s, m) = b + down2  BY <1>4, <1>30 DEF Placing
<1>5. /\ Wrap(XOf(text, at, s, m)) = XOf(text, at, s, m) /\ Wrap(YOf(text, at, s, m)) = YOf(text, at, s, m)
    <2>1. XOf(text, at, s, m) \in Int32 /\ YOf(text, at, s, m) \in Int32  BY <1>2, PlacesIn
    <2>2. QED  BY <2>1, WrapSame
<1>6. w * 0 = 0 /\ w * 1 = w /\ h * 1 = h  OBVIOUS
<1>7. CASE text[n] = "\n"
    <2>1. c2 = 0  BY <1>2, <1>41, <1>7, ColumnsStep
    <2>2. r2 = r + 1
        <3>1. Row(text, n + 1) = Row(text, n) + (IF text[n] = "\n" THEN 1 ELSE 0)  BY <1>2, RowsAre
        <3>2. QED  BY <1>2, <1>31, <1>41, <1>7, <3>1
    <2>3. across2 = 0  BY <1>42, <1>6, <2>1
    <2>4. down2 = down + h
        <3>1. h * (r + 1) = h * r + h * 1  BY Products
        <3>2. QED  BY <1>32, <1>42, <1>6, <2>2, <3>1
    <2>5. XOf(text, at, s, m) = at[1]  BY <1>30, <1>43, <2>3
    <2>6. YOf(text, at, s, m) = YOf(text, at, s, n) + h  BY <1>33, <1>43, <2>4
    <2>7. QED  BY <1>1, <1>2, <1>5, <1>7, <2>5, <2>6 DEF GoesOn
<1>8. CASE text[n] # "\n"
    <2>1. PICK more \in {1, 4} : more = (IF text[n] = "\t" THEN 4 ELSE 1)  OBVIOUS
    <2>2. c2 = c + more
        <3>1. Column(text, n + 1) = IF text[n] = "\n" THEN 0
                                    ELSE Column(text, n) + (IF text[n] = "\t" THEN 4 ELSE 1)
            BY <1>2, ColumnsStep
        <3>2. QED  BY <1>2, <1>31, <1>41, <1>8, <2>1, <3>1
    <2>3. r2 = r
        <3>1. Row(text, n + 1) = Row(text, n) + (IF text[n] = "\n" THEN 1 ELSE 0)  BY <1>2, RowsAre
        <3>2. QED  BY <1>2, <1>31, <1>41, <1>8, <3>1
    <2>4. PICK step \in Int : step = w * more /\ step = Advance(text[n], s)
        <3>1. w * more \in Int  BY Products
        <3>2. Advance(text[n], s) = w * more  BY <1>1, <2>1 DEF Advance
        <3>3. QED  BY <3>1, <3>2
    <2>5. across2 = across + step
        <3>1. w * (c + more) = w * c + w * more  BY Products
        <3>2. QED  BY <1>32, <1>42, <2>2, <2>4, <3>1
    <2>6. XOf(text, at, s, m) = XOf(text, at, s, n) + step  BY <1>33, <1>43, <2>5
    <2>7. YOf(text, at, s, m) = YOf(text, at, s, n)
        <3>1. down2 = down  BY <1>32, <1>42, <2>3
        <3>2. QED  BY <1>33, <1>43, <3>1
    <2>8. QED  BY <1>2, <1>5, <1>8, <2>4, <2>6, <2>7 DEF GoesOn
<1>9. QED  BY <1>7, <1>8

\* A lit pixel lies in its character's place.
LEMMA LitIn ==
    ASSUME NEW text \in Seq(Chars), NEW at \in Points, NEW s \in Nat \ {0}, NEW n \in 1 .. Len(text),
           NEW w \in Nat, NEW h \in Nat, w = FontWidth * s, h = FontHeight * s,
           NEW p \in Int \X Int, Lit(text, at, s, n, p)
    PROVE  /\ XOf(text, at, s, n) <= p[1] /\ p[1] < XOf(text, at, s, n) + w
           /\ YOf(text, at, s, n) <= p[2] /\ p[2] < YOf(text, at, s, n) + h
<1>1. PICK char \in DOMAIN Font : char = text[n] /\ Dot(text, at, s, n, p) \in Font[char]  BY DEF Lit
<1>2. Font[char] \subseteq (0 .. FontWidth - 1) \X (0 .. FontHeight - 1)  BY GraphicsConstants
<1>3. PICK x, y \in Nat : x = Column(text, n) * FontWidth /\ y = Row(text, n) * FontHeight
    <2>0. n \in Nat \ {0}  OBVIOUS
    <2>1. Column(text, n) \in Nat /\ Row(text, n) \in Nat  BY <2>0, RowsAre, ColumnsStep
    <2>2. Column(text, n) * FontWidth \in Nat /\ Row(text, n) * FontHeight \in Nat  BY <2>1, Products, IntMaxIs
    <2>3. QED  BY <2>2
<1>4. PICK a, b \in Int : a = at[1] /\ b = at[2]  BY PointIs, Ints
<1>5. PICK i, j \in Int : p = <<i, j>>  OBVIOUS
<1>6. PICK cx, cy \in Int : cx = XOf(text, at, s, n) /\ cy = YOf(text, at, s, n)
                            /\ IsBase(cx, a, s, x) /\ IsBase(cy, b, s, y)
    <2>1. s * x \in Nat /\ s * y \in Nat  BY Products
    <2>2. a + s * x \in Int /\ b + s * y \in Int  BY <2>1
    <2>3. QED  BY <1>3, <1>4, <2>2 DEF XOf, YOf, IsBase
<1>7. PICK u \in 0 .. FontWidth - 1, v \in 0 .. FontHeight - 1 :
         IsDotOf(u, i, a, s, x) /\ IsDotOf(v, j, b, s, y)
    <2>1. PICK u, v : u = ((i - a) \div s) - x /\ v = ((j - b) \div s) - y  OBVIOUS
    <2>2. Dot(text, at, s, n, p) = <<u, v>>  BY <1>3, <1>4, <1>5, <2>1 DEF Dot
    <2>3. u \in 0 .. FontWidth - 1 /\ v \in 0 .. FontHeight - 1  BY <1>1, <1>2, <2>2
    <2>4. QED  BY <2>1, <2>3 DEF IsDotOf
<1>8. u \in Int /\ v \in Int /\ s \in Nat \ {0} /\ x \in Nat /\ y \in Nat  BY IntMaxIs
<1>9. PICK d \in 0 .. s - 1 : IsDotAt(i, cx, u, s, d)  BY <1>4, <1>5, <1>6, <1>7, <1>8, DotUnder
<1>10. PICK e \in 0 .. s - 1 : IsDotAt(j, cy, v, s, e)  BY <1>4, <1>5, <1>6, <1>7, <1>8, DotUnder
<1>11. ASSUME NEW size \in Nat, NEW m \in 0 .. size - 1, NEW f \in 0 .. s - 1, NEW z \in Nat, z = size * s
       PROVE  \E k \in Nat : k = m * s /\ k + f < z
    <2>1. PICK k \in Nat : k = m * s  BY Products
    <2>2. PICK more \in Nat : more = m + 1 /\ more <= size  OBVIOUS
    <2>3. s * more <= s * size /\ s * size = size * s /\ s * (m + 1) = s * m + s * 1 /\ s * 1 = s /\ s * m = m * s
        BY <2>2, Products
    <2>4. k + s <= z  BY <1>11, <2>1, <2>2, <2>3
    <2>5. QED  BY <2>1, <2>4
<1>12. PICK k \in Nat : k = u * s /\ k + d < w  BY <1>11, IntMaxIs
<1>13. PICK l \in Nat : l = v * s /\ l + e < h  BY <1>11, IntMaxIs
<1>14. i = cx + k + d /\ j = cy + l + e  BY <1>9, <1>10, <1>12, <1>13 DEF IsDotAt, DotAt
<1>17. d \in Nat /\ e \in Nat  BY <1>8
<1>18. cx \in Int /\ cy \in Int /\ i \in Int /\ j \in Int  BY <1>5, <1>6
<1>19. k \in Nat /\ l \in Nat /\ k + d < w /\ l + e < h  BY <1>12, <1>13
<1>15. cx <= i /\ i < cx + w /\ cy <= j /\ j < cy + h  BY <1>14, <1>17, <1>18, <1>19
<1>16. QED  BY <1>5, <1>6, <1>15

\* The width the program can ask for covers each character's place.
LEMMA WidthCovers ==
    ASSUME NEW text \in Seq(Chars), NEW at \in Points, NEW s \in Nat \ {0},
           NEW w \in Nat, NEW h \in Nat, NEW wide \in Nat, NEW high \in Nat, Roomy(text, at, s, w, h, wide, high),
           NEW n \in 1 .. Len(text), text[n] \in DOMAIN Font
    PROVE  XOf(text, at, s, n) + w <= at[1] + graphics_text_width(text, s)
<1>0. PICK N \in Nat : N = Len(text)  OBVIOUS
<1>1. w = FontWidth * s /\ wide = w * (4 * N) /\ wide <= IntMax  BY <1>0 DEF Roomy
<1>2. PICK g : /\ g = Widths(text, s) /\ g[0] = [widest |-> 0, current |-> 0]
               /\ \A k \in 1 .. Len(text) : g[k] = WidthAfter(g[k - 1], text[k], s)
    BY WidthsUnfold
<1> DEFINE End(k) == w * Column(text, k + 1)
           WideTo(k) == \E widest, current \in Int :
                           /\ g[k] = [widest |-> widest, current |-> current]
                           /\ current = End(k)
                           /\ \A m \in 0 .. k : End(m) <= widest \/ End(m) <= current
           S == {k \in Nat : k <= N => WideTo(k)}
<1>3. \A k \in Nat : /\ End(k) \in Nat /\ (k <= N => End(k) <= wide)
    <2>1. TAKE k \in Nat
    <2>2. k + 1 \in Nat \ {0}  OBVIOUS
    <2>3. PICK c \in Nat : c = Column(text, k + 1) /\ c <= 4 * k  BY <2>2, ColumnsStep, PlacesBounded
    <2>4. ASSUME k <= N PROVE w * c <= w * (4 * N)
        <3>1. c <= 4 * N /\ 4 * N \in Nat  BY <2>3, <2>4
        <3>2. QED  BY <3>1, Products
    <2>5. w * c \in Nat  BY Products
    <2>6. QED  BY <1>1, <2>3, <2>4, <2>5
<1>4. 0 \in S
    <2>1. End(0) = 0
        <3>1. 0 + 1 = 1 /\ Column(text, 1) = 0 /\ w * 0 = 0  BY ColumnsStep
        <3>2. QED  BY <3>1
    <2>2. \A m \in 0 .. 0 : m = 0  OBVIOUS
    <2> HIDE DEF End
    <2>3. WideTo(0)  BY <1>2, <2>1, <2>2
    <2>4. QED  BY <2>3
<1>5. ASSUME NEW k \in Nat, k \in S PROVE k + 1 \in S
    <2> HIDE DEF WideTo
    <2>1. SUFFICES ASSUME k + 1 <= N PROVE WideTo(k + 1)  OBVIOUS
    <2>2. PICK m \in Nat \ {0} : m = k + 1 /\ m \in 1 .. Len(text) /\ m - 1 = k /\ k <= N /\ m <= N
        <3>1. k + 1 \in Nat \ {0} /\ k + 1 \in 1 .. Len(text) /\ (k + 1) - 1 = k /\ k <= N  BY <1>0, <2>1
        <3>2. QED  BY <2>1, <3>1
    <2>3. PICK widest, current \in Int :
             /\ g[k] = [widest |-> widest, current |-> current]
             /\ current = End(k)
             /\ \A i \in 0 .. k : End(i) <= widest \/ End(i) <= current
        BY <1>5, <2>2 DEF WideTo
    <2>4. g[m] = WidthAfter(g[k], text[m], s)  BY <1>2, <2>2
    <2>5. \A i \in 0 .. m : i \in 0 .. k \/ i = m  BY <2>2
    <2>6. End(k) \in Nat /\ End(m) \in Nat /\ End(m) <= wide /\ \A i \in 0 .. k : End(i) \in Nat
        <3>1. \A i \in 0 .. k : i \in Nat  OBVIOUS
        <3> HIDE DEF End
        <3>2. QED  BY <1>3, <2>2, <3>1
    <2>7. CASE text[m] = "\n"
        <3>1. End(m) = 0
            <4>1. Column(text, m + 1) = IF text[m] = "\n" THEN 0
                                        ELSE Column(text, m) + (IF text[m] = "\t" THEN 4 ELSE 1)
                BY <2>2, ColumnsStep
            <4>2. w * 0 = 0  OBVIOUS
            <4>3. QED  BY <2>7, <4>1, <4>2
        <3> HIDE DEF End
        <3>2. PICK most \in Int : most = Greatest(widest, current) /\ most >= widest /\ most >= current
            BY <2>3 DEF Greatest
        <3>3. g[m] = [widest |-> most, current |-> 0]  BY <2>3, <2>4, <2>7, <3>2 DEF WidthAfter
        <3>4. \A i \in 0 .. m : End(i) <= most \/ End(i) <= 0
            <4>1. TAKE i \in 0 .. m
            <4>2. CASE i = m  BY <3>1, <4>2
            <4>3. CASE i \in 0 .. k
                <5>1. PICK e \in Nat : e = End(i)  BY <2>6, <4>3
                <5>2. e <= widest \/ e <= current  BY <2>3, <4>3, <5>1
                <5>3. QED  BY <2>3, <3>2, <5>1, <5>2
            <4>4. QED  BY <2>5, <4>2, <4>3
        <3>5. WideTo(m)  BY <2>3, <3>1, <3>2, <3>3, <3>4 DEF WideTo
        <3>6. QED  BY <2>2, <3>5
    <2>8. CASE text[m] # "\n"
        <3>1. PICK more \in {1, 4} : more = (IF text[m] = "\t" THEN 4 ELSE 1)  OBVIOUS
        <3>2. PICK c \in Nat : c = Column(text, m)  BY <2>2, ColumnsStep
        <3>3. Column(text, m + 1) = c + more
            <4>1. Column(text, m + 1) = IF text[m] = "\n" THEN 0
                                        ELSE Column(text, m) + (IF text[m] = "\t" THEN 4 ELSE 1)
                BY <2>2, ColumnsStep
            <4>2. QED  BY <2>8, <3>1, <3>2, <4>1
        <3>4. PICK step \in Int : step = w * more /\ step = Advance(text[m], s)
            <4>1. w * more \in Int  BY Products
            <4>2. Advance(text[m], s) = w * more  BY <1>1, <3>1 DEF Advance
            <4>3. QED  BY <4>1, <4>2
        <3>5. End(m) = End(k) + step
            <4>1. w * (c + more) = w * c + w * more  BY Products
            <4>2. End(k) = w * c  BY <2>2, <3>2
            <4>3. End(m) = w * (c + more)  BY <3>3
            <4>4. QED  BY <3>4, <4>1, <4>2, <4>3
        <3> HIDE DEF End
        <3>6. PICK e \in Nat : e = End(m) /\ e = current + step /\ e <= wide  BY <2>3, <2>6, <3>5
        <3>7. Wrap(current + step) = e
            <4>1. e \in Int32  BY <1>1, <3>6, SmallInts, IntMaxIs
            <4>2. QED  BY <3>6, <4>1, WrapSame
        <3>8. g[m] = [widest |-> widest, current |-> e]  BY <2>3, <2>4, <2>8, <3>4, <3>7 DEF WidthAfter
        <3>9. step >= 0
            <4>1. more \in Nat  BY <3>1
            <4>2. w * more \in Nat  BY <4>1, Products
            <4>3. QED  BY <3>4, <4>2
        <3>10. \A i \in 0 .. m : End(i) <= widest \/ End(i) <= e
            <4>1. TAKE i \in 0 .. m
            <4>2. CASE i = m
                <5>1. End(i) = e  BY <3>6, <4>2
                <5>2. e <= e  BY <3>6
                <5>3. QED  BY <5>1, <5>2
            <4>3. CASE i \in 0 .. k
                <5>1. PICK j \in Nat : j = End(i)  BY <2>6, <4>3
                <5>2. j <= widest \/ j <= current  BY <2>3, <4>3, <5>1
                <5>3. current <= e /\ current \in Int /\ widest \in Int  BY <2>3, <3>4, <3>6, <3>9
                <5>4. j <= widest \/ j <= e  BY <3>6, <5>1, <5>2, <5>3
                <5>5. QED  BY <5>1, <5>4
            <4>4. QED  BY <2>5, <4>2, <4>3
        <3>11. WideTo(m)
            <4>1. e \in Int /\ widest \in Int /\ e = End(m)  BY <2>3, <3>6
            <4>2. QED  BY <3>8, <3>10, <4>1 DEF WideTo
        <3>12. QED  BY <2>2, <3>11
    <2>9. QED  BY <2>7, <2>8
<1>6. WideTo(N)
    <2> HIDE DEF WideTo
    <2>1. \A k \in Nat : k \in S
        <3> HIDE DEF S
        <3>1. QED  BY <1>4, <1>5, SetInduction
    <2>2. QED  BY <2>1
<1>7. End(n) = w * Column(text, n) + w
    <2>1. n \in Nat \ {0} /\ text[n] \notin {"\n", "\t"}  BY GraphicsConstants
    <2>2. PICK c \in Nat : c = Column(text, n)  BY <2>1, ColumnsStep
    <2>3. Column(text, n + 1) = c + 1
        <3>1. Column(text, n + 1) = IF text[n] = "\n" THEN 0
                                    ELSE Column(text, n) + (IF text[n] = "\t" THEN 4 ELSE 1)
            BY <2>1, ColumnsStep
        <3>2. QED  BY <2>1, <2>2, <3>1
    <2>4. w * (c + 1) = w * c + w * 1 /\ w * 1 = w  BY Products
    <2>5. QED  BY <2>2, <2>3, <2>4
<1>8. PICK across \in Int : across = w * Column(text, n) /\ XOf(text, at, s, n) = at[1] + across
    <2>1. n \in Nat \ {0}  OBVIOUS
    <2>2. h = FontHeight * s  BY DEF Roomy
    <2>3. PICK c, r, x, y \in Nat : Counted(text, n, w, h, c, r, x, y) /\ Placing(text, at, s, n, x, y)
        BY <1>1, <2>1, <2>2, PlaceIs
    <2>4. x = w * Column(text, n)  BY <2>3 DEF Counted
    <2>5. XOf(text, at, s, n) = at[1] + x  BY <2>3 DEF Placing
    <2>6. x \in Int  BY <2>3
    <2>7. QED  BY <2>4, <2>5, <2>6
<1>9. n \in 0 .. N /\ n \in Nat  BY <1>0
<1> HIDE DEF End
<1>10. PICK widest, current \in Int :
          /\ g[N] = [widest |-> widest, current |-> current]
          /\ \A m \in 0 .. N : End(m) <= widest \/ End(m) <= current
    BY <1>6
<1>11. PICK most \in Int : most = Greatest(widest, current) /\ most >= widest /\ most >= current
    BY <1>10 DEF Greatest
<1>12. graphics_text_width(text, s) = most
    <2>1. ~(s < 1)  OBVIOUS
    <2>2. Widths(text, s)[Len(text)] = [widest |-> widest, current |-> current]  BY <1>0, <1>2, <1>10
    <2>3. QED  BY <1>11, <2>1, <2>2 DEF graphics_text_width
<1>13. PICK e \in Nat : e = End(n) /\ e = across + w  BY <1>3, <1>7, <1>8, <1>9
<1>14. e <= most
    <2>1. End(n) <= widest \/ End(n) <= current  BY <1>9, <1>10
    <2>2. e <= widest \/ e <= current  BY <1>13, <2>1
    <2>3. QED  BY <1>10, <1>11, <1>13, <2>2
<1>15. PICK a \in Int : a = at[1]  BY PointIs, Ints
<1>16. QED  BY <1>8, <1>12, <1>13, <1>14, <1>15

\* The pixels of the first k characters, and the loop before the next.
TextUpTo(text, at, s, k) == {p \in Int \X Int : \E n \in 1 .. k : Lit(text, at, s, n, p)}
TextAhead(l, text, at, s, k) ==
    /\ l.left = at[1] /\ l.scale = s /\ l.x = XOf(text, at, s, k + 1) /\ l.y = YOf(text, at, s, k + 1)
    /\ Len(l.text) = Len(text) - k /\ \A i \in 1 .. Len(l.text) : l.text[i] = text[k + i]

ScaleOf(c) == IF c.op = "text" THEN 1 ELSE c.scale
TextAsked == /\ \/ call.op = "text" /\ call.text # 0
                \/ call.op = "scaled" /\ result = 0
             /\ TextFits(TextAt(call.text), call.at, ScaleOf(call))
TextDrawn(S, l, text, at, s) ==
    /\ s \in Nat \ {0}
    /\ IF l = Idle THEN IsText(S, text, at, s)
       ELSE \E k \in 0 .. Len(text) : TextAhead(l, text, at, s, k) /\ S = TextUpTo(text, at, s, k)
TextShape == TextAsked => TextDrawn(drawn, loop, TextAt(call.text), call.at, ScaleOf(call))

LEMMA TextIs ==
    ASSUME NEW text \in Seq(Chars), NEW at \in Points, NEW s \in Nat \ {0}, TextFits(text, at, s)
    PROVE  IsText(TextUpTo(text, at, s, Len(text)), text, at, s)
<1>1. PICK w, h, wide, high \in Nat : Roomy(text, at, s, w, h, wide, high)  BY RoomIs
<1>2. w = FontWidth * s /\ h = FontHeight * s /\ TextBox(text, at, s) = Rect(at[1], at[2], wide, high)
    BY <1>1 DEF Roomy
<1>3. PICK a, b \in Int : a = at[1] /\ b = at[2]  BY PointIs, Ints
<1>4. DOMAIN text = 1 .. Len(text)  OBVIOUS
<1>5. ASSUME NEW p \in Int \X Int, NEW n \in 1 .. Len(text), Lit(text, at, s, n, p)
      PROVE  /\ p \in (a .. a + wide - 1) \X (b .. b + high - 1)
             /\ p[1] < a + graphics_text_width(text, s)
    <2>1. PICK i, j \in Int : p = <<i, j>>  OBVIOUS
    <2>2. n \in 1 .. Len(text) + 1 /\ n <= Len(text)  OBVIOUS
    <2>3. PICK x, y \in Int32 : x = XOf(text, at, s, n) /\ y = YOf(text, at, s, n)
                                /\ x >= a /\ y >= b /\ x + w <= a + wide /\ y + h <= b + high
        BY <1>1, <1>3, <2>2, PlacesIn
    <2>4. x \in Int /\ y \in Int  BY <2>3, Ints
    <2>5. x <= i /\ i < x + w /\ y <= j /\ j < y + h  BY <1>2, <1>5, <2>1, <2>3, LitIn
    <2>12. i \in Int /\ j \in Int /\ a \in Int /\ b \in Int /\ wide \in Nat /\ high \in Nat /\ w \in Nat /\ h \in Nat
        BY <1>1, <1>3, <2>1
    <2>13. x >= a /\ y >= b /\ x + w <= a + wide /\ y + h <= b + high  BY <2>3
    <2>6. i \in a .. a + wide - 1 /\ j \in b .. b + high - 1  BY <2>4, <2>5, <2>12, <2>13
    <2>7. text[n] \in DOMAIN Font  BY <1>5 DEF Lit
    <2>8. PICK z \in Int : z = graphics_text_width(text, s)
        <3>1. s \in Int  OBVIOUS
        <3>2. graphics_text_width(text, s) \in Int32  BY <3>1, WidthIn
        <3>3. QED  BY <3>2, Ints
    <2>9. x + w <= a + z  BY <1>1, <1>3, <2>3, <2>7, <2>8, WidthCovers
    <2>10. i < a + z  BY <2>1, <2>4, <2>5, <2>8, <2>9
    <2>11. QED  BY <2>1, <2>6, <2>8, <2>10
<1>6. (a .. a + wide - 1) \X (b .. b + high - 1) \subseteq Int \X Int  BY <1>3
<1>7. PICK B : B = (a .. a + wide - 1) \X (b .. b + high - 1)  OBVIOUS
<1>8. TextUpTo(text, at, s, Len(text)) = {p \in B : \E n \in DOMAIN text : Lit(text, at, s, n, p)}
    BY <1>4, <1>5, <1>6, <1>7 DEF TextUpTo
<1>9. \A p \in TextUpTo(text, at, s, Len(text)) : p[1] < at[1] + graphics_text_width(text, s)
    BY <1>3, <1>5 DEF TextUpTo
<1>10. PICK box : box = TextBox(text, at, s)  OBVIOUS
<1>11. box.x = a /\ box.y = b /\ box.width = wide /\ box.height = high  BY <1>2, <1>3, <1>10 DEF Rect
<1>12. QED  BY <1>7, <1>8, <1>9, <1>10, <1>11 DEF IsText

LEMMA TextStarts ==
    ASSUME NEW text \in Seq(Chars), NEW at \in Points, NEW s \in Nat \ {0}, NEW l \in TextLoops,
           l.text = text, l.x = at[1], l.y = at[2], l.left = at[1], l.scale = s
    PROVE  TextAhead(l, text, at, s, 0) /\ TextUpTo(text, at, s, 0) = {}
<1>1. PICK a, b \in Int : a = at[1] /\ b = at[2]  BY PointIs, Ints
<1>2. XOf(text, at, s, 1) = a /\ YOf(text, at, s, 1) = b
    <2>1. Column(text, 1) = 0 /\ Row(text, 1) = 0  BY ColumnsStep, RowsAre
    <2>2. \A f \in Nat : 0 * f = 0 /\ s * 0 = 0  OBVIOUS
    <2>3. s * (0 * FontWidth) = 0 /\ s * (0 * FontHeight) = 0  BY <2>2, IntMaxIs
    <2>4. QED  BY <1>1, <2>1, <2>3 DEF XOf, YOf
<1>3. 0 + 1 = 1 /\ 1 .. 0 = {}  OBVIOUS
<1>4. TextUpTo(text, at, s, 0) = {}  BY <1>3 DEF TextUpTo
<1>5. Len(l.text) = Len(text) - 0 /\ \A i \in 1 .. Len(l.text) : l.text[i] = text[0 + i]  OBVIOUS
<1>6. QED  BY <1>1, <1>2, <1>3, <1>4, <1>5 DEF TextAhead

\* A character drawn.
LEMMA TextStepIs ==
    ASSUME NEW text \in Seq(Chars), NEW at \in Points, NEW s \in Nat \ {0}, TextFits(text, at, s),
           NEW l \in TextLoops, NEW k \in 0 .. Len(text), TextAhead(l, text, at, s, k), l.text # <<>>
    PROVE  /\ k + 1 \in 0 .. Len(text)
           /\ TextAhead(CharStep(l, Head(l.text)), text, at, s, k + 1)
           /\ TextUpTo(text, at, s, k) \cup CharPixels(l, Head(l.text)) = TextUpTo(text, at, s, k + 1)
<1>1. PICK w, h, wide, high \in Nat : Roomy(text, at, s, w, h, wide, high)  BY RoomIs
<1>2. PICK rest \in Seq(Chars) : rest = l.text /\ rest # <<>> /\ Len(rest) = Len(text) - k
                                 /\ \A i \in 1 .. Len(rest) : rest[i] = text[k + i]
    BY DEF TextLoops, TextAhead
<1>3. PICK n \in 1 .. Len(text) : n = k + 1 /\ Head(rest) = text[n]
    <2>1. Len(rest) \in Nat /\ Len(rest) # 0 /\ Head(rest) = rest[1] /\ Len(text) \in Nat  BY <1>2
    <2>2. k + 1 \in 1 .. Len(text) /\ 1 \in 1 .. Len(rest)  BY <1>2, <2>1
    <2>3. QED  BY <1>2, <2>1, <2>2
<1>4. /\ l.left = at[1] /\ l.scale = s /\ l.x = XOf(text, at, s, n) /\ l.y = YOf(text, at, s, n)
    BY <1>3 DEF TextAhead
<1>5. PICK m : m = CharStep(l, text[n])  OBVIOUS
<1>6. /\ m.left = at[1] /\ m.scale = s /\ m.text = Tail(rest)
      /\ m.x = (IF text[n] = "\n" THEN l.left ELSE Wrap(l.x + Advance(text[n], s)))
      /\ m.y = (IF text[n] = "\n" THEN Wrap(l.y + FontHeight * s) ELSE l.y)
    BY <1>2, <1>4, <1>5 DEF CharStep, TextLoops
<1>7. m.x = XOf(text, at, s, n + 1) /\ m.y = YOf(text, at, s, n + 1)
    <2>1. /\ text[n] = "\n" => /\ XOf(text, at, s, n + 1) = at[1]
                               /\ YOf(text, at, s, n + 1) = Wrap(YOf(text, at, s, n) + FontHeight * s)
          /\ text[n] # "\n" => /\ XOf(text, at, s, n + 1) = Wrap(XOf(text, at, s, n) + Advance(text[n], s))
                               /\ YOf(text, at, s, n + 1) = YOf(text, at, s, n)
        <3>1. GoesOn(text, at, s, n)  BY <1>1, <1>3, PlaceGoesOn
        <3>2. QED  BY <3>1 DEF GoesOn
    <2>2. QED  BY <1>4, <1>6, <2>1
<1>8. Len(m.text) = Len(text) - n /\ \A i \in 1 .. Len(m.text) : m.text[i] = text[n + i]
    <2>1. Len(Tail(rest)) = Len(rest) - 1 /\ \A i \in 1 .. Len(Tail(rest)) : Tail(rest)[i] = rest[i + 1]
        BY <1>2
    <2>2. Len(rest) \in Nat /\ Len(rest) # 0 /\ k \in Nat /\ Len(text) \in Nat  BY <1>2
    <2>3. Len(Tail(rest)) = Len(text) - n  BY <1>2, <1>3, <2>1, <2>2
    <2>4. ASSUME NEW i \in 1 .. Len(Tail(rest)) PROVE Tail(rest)[i] = text[n + i]
        <3>1. i + 1 \in 1 .. Len(rest) /\ k + (i + 1) = n + i  BY <1>3, <2>1, <2>2
        <3>2. rest[i + 1] = text[k + (i + 1)]  BY <1>2, <3>1
        <3>3. QED  BY <2>1, <3>1, <3>2
    <2>5. QED  BY <1>6, <2>3, <2>4
<1>9. TextAhead(m, text, at, s, n)  BY <1>6, <1>7, <1>8 DEF TextAhead
<1>10. CharPixels(l, text[n]) = LitBy(text, at, s, n)
    <2>1. n \in 1 .. Len(text) + 1 /\ n <= Len(text)  OBVIOUS
    <2>2. w = FontWidth * s /\ h = FontHeight * s /\ at[1] + wide <= IntMax /\ at[2] + high <= IntMax
        BY <1>1 DEF Roomy
    <2>3. PICK a, b \in Int : a = at[1] /\ b = at[2]  BY PointIs, Ints
    <2>4. PICK x, y \in Int32 : x = XOf(text, at, s, n) /\ y = YOf(text, at, s, n)
                                /\ x + w <= a + wide /\ y + h <= b + high
        BY <1>1, <2>1, <2>3, PlacesIn
    <2>5. x \in Int /\ y \in Int  BY <2>4, Ints
    <2>6. a + wide <= IntMax /\ b + high <= IntMax  BY <2>2, <2>3
    <2>7. x + w <= IntMax + 1 /\ y + h <= IntMax + 1  BY <2>4, <2>5, <2>6, IntMaxIs
    <2>8. w = s * FontWidth /\ h = s * FontHeight
        <3>1. FontWidth * s = s * FontWidth /\ FontHeight * s = s * FontHeight  BY Products, IntMaxIs
        <3>2. QED  BY <2>2, <3>1
    <2>9. Standing(l, text, at, s, n)  BY <1>4, <2>4, <2>7, <2>8 DEF Standing, XOf, YOf
    <2>10. QED  BY <2>9, CharPixelsAre
<1>11. TextUpTo(text, at, s, n) = TextUpTo(text, at, s, k) \cup LitBy(text, at, s, n)
    <2>1. 1 .. n = (1 .. k) \cup {n}  BY <1>3
    <2>2. QED  BY <2>1 DEF TextUpTo, LitBy
<1>12. QED  BY <1>2, <1>3, <1>5, <1>9, <1>10, <1>11

LEMMA TextBeginsShape ==
    ASSUME CoreInv, NEW c \in Asking, Hands(c), call' = c, loop = Idle
    PROVE  TextShape'
<1>1. SUFFICES ASSUME \/ c.op = "text" /\ c.text # 0
                      \/ c.op = "scaled" /\ result' = 0,
                      TextFits(TextAt(c.text), c.at, ScaleOf(c))
               PROVE  TextDrawn(drawn', loop', TextAt(c.text), c.at, ScaleOf(c))
    BY DEF TextShape, TextAsked
<1>2. c.at \in Points  BY <1>1, Fields
<1>3. PICK s \in Nat \ {0} : s = ScaleOf(c)
          /\ graphics_draw_text_scaled(c, TextAt(c.text), c.at, ColorOf(c.color), s)
    <2>1. CASE c.op = "text" /\ c.text # 0
        <3>1. graphics_draw_text_scaled(c, TextAt(c.text), c.at, ColorOf(c.color), 1)  BY <2>1 DEF Hands
        <3>2. ScaleOf(c) = 1 /\ 1 \in Nat \ {0}  BY <2>1 DEF ScaleOf
        <3>3. QED  BY <3>1, <3>2
    <2>2. CASE c.op = "scaled" /\ result' = 0
        <3>1. c.scale > 0 /\ graphics_draw_text_scaled(c, TextAt(c.text), c.at, ColorOf(c.color), c.scale)
            BY <2>2 DEF Hands
        <3>2. c.scale \in Int  BY <2>2, Fields, Ints
        <3>3. ScaleOf(c) = c.scale /\ c.scale \in Nat \ {0}  BY <2>2, <3>1, <3>2 DEF ScaleOf
        <3>4. QED  BY <3>1, <3>3
    <2>3. QED  BY <1>1, <2>1, <2>2
<1>4. PICK text \in Seq(Chars) : text = TextAt(c.text)  BY TextsAre
<1>5. PICK l : l = [kind |-> "text", text |-> text, x |-> c.at[1], y |-> c.at[2], left |-> c.at[1],
                    scale |-> s, color |-> ColorOf(c.color)]
    OBVIOUS
<1>6. loop' = l /\ drawn' = {}
    <2>1. ~(s < 1)  OBVIOUS
    <2>2. QED  BY <1>3, <1>4, <1>5, <2>1 DEF graphics_draw_text_scaled, Loop
<1>7. l \in TextLoops
    <2>1. c.at[1] \in Int /\ c.at[2] \in Int /\ s \in Int  BY <1>2, PointIs, Ints
    <2>2. ColorOf(c.color) \in Colors  BY <1>1, Fields, ColorOfIn
    <2>3. QED  BY <1>5, <2>1, <2>2 DEF TextLoops
<1>8. TextAhead(l, text, c.at, s, 0) /\ TextUpTo(text, c.at, s, 0) = {}
    BY <1>2, <1>5, <1>7, TextStarts
<1>9. l # Idle
    <2>1. Idle.kind = "idle" /\ l.kind = "text"  BY <1>5 DEF Idle
    <2>2. QED  BY <2>1
<1>10. 0 \in 0 .. Len(text)  OBVIOUS
<1>11. QED  BY <1>3, <1>4, <1>6, <1>8, <1>9, <1>10 DEF TextDrawn

LEMMA TextGoesOn ==
    ASSUME CoreInv, TextShape, DuringLoop, CharIteration, call.op \in {"text", "scaled"}
    PROVE  TextShape'
<1>1. call' = call /\ result' = result /\ loop # Idle  BY DEF DuringLoop
<1>2. SUFFICES ASSUME TextAsked PROVE TextDrawn(drawn', loop', TextAt(call.text), call.at, ScaleOf(call))
    BY <1>1 DEF TextShape, TextAsked
<1>3. call \in Asking
    <2>1. call \in Asking \cup {[op |-> "none"]} /\ [op |-> "none"].op = "none"  BY DEF CoreInv, VixTypes
    <2>2. QED  BY <2>1
<1>4. PICK text \in Seq(Chars), at \in Points : text = TextAt(call.text) /\ at = call.at
    BY <1>3, Fields, TextsAre
<1>5. PICK s \in Nat \ {0}, k \in 0 .. Len(text) :
         s = ScaleOf(call) /\ TextAhead(loop, text, at, s, k) /\ drawn = TextUpTo(text, at, s, k)
    BY <1>1, <1>2, <1>4 DEF TextShape, TextDrawn
<1>6. TextFits(text, at, s)  BY <1>2, <1>4, <1>5 DEF TextAsked
<1>7. PICK l \in TextLoops : l = loop  BY <1>1, CharIs
<1>8. CASE l.text # <<>>
    <2>1. PICK char : char = Head(l.text)  OBVIOUS
    <2>2. drawn' = drawn \cup CharPixels(l, char) /\ loop' = CharStep(l, char) /\ loop' \in TextLoops
        BY <1>1, <1>7, <1>8, <2>1, CharIs DEF Paints
    <2>3. /\ k + 1 \in 0 .. Len(text)
          /\ TextAhead(CharStep(l, char), text, at, s, k + 1)
          /\ TextUpTo(text, at, s, k) \cup CharPixels(l, char) = TextUpTo(text, at, s, k + 1)
        BY <1>5, <1>6, <1>7, <1>8, <2>1, TextStepIs
    <2>4. loop' # Idle
        <3>1. Idle.kind = "idle" /\ loop'.kind = "text"  BY <2>2 DEF Idle, TextLoops
        <3>2. QED  BY <3>1
    <2>5. QED  BY <1>4, <1>5, <2>2, <2>3, <2>4 DEF TextDrawn
<1>9. CASE l.text = <<>>
    <2>1. loop' = Idle /\ drawn' = drawn  BY <1>1, <1>7, <1>9, CharIs
    <2>2. k = Len(text)
        <3>1. Len(<<>>) = Len(text) - k  BY <1>5, <1>7, <1>9 DEF TextAhead
        <3>2. Len(<<>>) = 0 /\ Len(text) \in Nat  OBVIOUS
        <3>3. QED  BY <3>1, <3>2
    <2>3. IsText(drawn', text, at, s)  BY <1>5, <1>6, <2>1, <2>2, TextIs
    <2>4. QED  BY <1>4, <1>5, <2>1, <2>3 DEF TextDrawn
<1>10. QED  BY <1>8, <1>9

LEMMA TextKept == ASSUME CoreInv, TextShape, [VixNext]_vixVars PROVE TextShape'
<1>1. CASE UNCHANGED vixVars  BY <1>1 DEF vixVars, vars, TextShape, TextAsked
<1>2. CASE VixNext /\ \E c \in Asking : Hands(c) /\ call' = c /\ loop = Idle  BY <1>2, TextBeginsShape
<1>3. CASE DuringLoop /\ call.op \notin {"text", "scaled"}  BY <1>3 DEF DuringLoop, TextShape, TextAsked
<1>4. CASE DuringLoop /\ CharIteration /\ call.op \in {"text", "scaled"}  BY <1>4, TextGoesOn
<1>5. QED  BY <1>1, <1>2, <1>3, <1>4, StepIs

----------------------------------------------------------------------------
(* A line: after i steps across and j down the error tells how far the line  *)
(* is, and it is never more than half a pixel away along its longer side.    *)
OffOf(dx, dy, i, j) == i * dy - j * dx
Balanced(dx, dy, i, j) ==
    /\ i \in 0 .. dx /\ j \in 0 .. dy
    /\ \E off \in Int : /\ off = OffOf(dx, dy, i, j) /\ (dx = dy => off = 0)
                        /\ 2 * off <= Greatest(dx, dy) /\ -(2 * off) <= Greatest(dx, dy)

Growing(dx, dy, i, j, off) ==
    /\ off = OffOf(dx, dy, i, j)
    /\ OffOf(dx, dy, i + 1, j) = off + dy
    /\ OffOf(dx, dy, i, j + 1) = off - dx
    /\ OffOf(dx, dy, i + 1, j + 1) = off + dy - dx
    /\ OffOf(dy, dx, j, i) = -off

LEMMA OffGrows ==
    ASSUME NEW dx \in Nat, NEW dy \in Nat, NEW i \in Nat, NEW j \in Nat
    PROVE  \E off \in Int : Growing(dx, dy, i, j, off)
<1>1. PICK u, v \in Nat : u = i * dy /\ v = j * dx  BY Products
<1>2. PICK u1, v1 \in Nat : u1 = (i + 1) * dy /\ v1 = (j + 1) * dx /\ u1 = u + dy /\ v1 = v + dx
    <2>1. (i + 1) * dy = i * dy + dy /\ (j + 1) * dx = j * dx + dx  OBVIOUS
    <2>2. QED  BY <1>1, <2>1
<1>3. PICK off \in Int : off = u - v  OBVIOUS
<1>4. OffOf(dx, dy, i, j) = u - v  BY <1>1 DEF OffOf
<1>5. OffOf(dx, dy, i + 1, j) = u1 - v  BY <1>1, <1>2 DEF OffOf
<1>6. OffOf(dx, dy, i, j + 1) = u - v1  BY <1>1, <1>2 DEF OffOf
<1>7. OffOf(dx, dy, i + 1, j + 1) = u1 - v1  BY <1>1, <1>2 DEF OffOf
<1>8. OffOf(dy, dx, j, i) = v - u  BY <1>1 DEF OffOf
<1>9. u1 = u + dy /\ v1 = v + dx /\ u \in Nat /\ v \in Nat  BY <1>1, <1>2
<1>10. u1 - v = off + dy /\ u - v1 = off - dx /\ u1 - v1 = off + dy - dx /\ v - u = -off  BY <1>3, <1>9
<1>11. Growing(dx, dy, i, j, off)  BY <1>3, <1>4, <1>5, <1>6, <1>7, <1>8, <1>10 DEF Growing
<1>12. QED  BY <1>11

\* The shorter side does not overrun, and ends with the longer.
LEMMA LongEnds ==
    ASSUME NEW d \in Nat, d > 0, NEW e \in Nat, NEW i \in 0 .. d, NEW j \in Nat,
           NEW off \in Int, off = OffOf(d, e, i, j), -(2 * off) <= d, 2 * off <= d
    PROVE  j <= e /\ (i = d => j = e)
<1>1. PICK u, v \in Nat : u = i * e /\ v = j * d  BY Products
<1>2. off = u - v  BY <1>1 DEF OffOf
<1>3. PICK w \in Nat : w = d * e /\ u <= w
    <2>1. d * e \in Nat /\ e * i <= e * d /\ e * i = i * e /\ e * d = d * e  BY Products
    <2>2. QED  BY <1>1, <2>1
<1>4. j <= e
    <2>1. SUFFICES ASSUME e + 1 <= j PROVE FALSE  OBVIOUS
    <2>2. d * (e + 1) <= d * j /\ d * (e + 1) = d * e + d * 1 /\ d * 1 = d /\ d * j = j * d
        BY <2>1, Products
    <2>3. w + d <= v  BY <1>1, <1>3, <2>2
    <2>4. QED  BY <1>1, <1>2, <1>3, <2>3
<1>5. ASSUME i = d PROVE j = e
    <2>1. u = w  BY <1>1, <1>3, <1>5
    <2>2. SUFFICES ASSUME j + 1 <= e PROVE FALSE  BY <1>4
    <2>3. d * (j + 1) <= d * e /\ d * (j + 1) = d * j + d * 1 /\ d * 1 = d /\ d * j = j * d
        BY <2>2, Products
    <2>4. v + d <= w  BY <1>1, <1>3, <2>3
    <2>5. QED  BY <1>1, <1>2, <1>3, <2>1, <2>4
<1>6. QED  BY <1>4, <1>5

LEMMA BothEnd ==
    ASSUME NEW dx \in Nat, NEW dy \in Nat, NEW i \in Nat, NEW j \in Nat,
           NEW off \in Int, off = OffOf(dx, dy, i, j), -(2 * off) <= Greatest(dx, dy), 2 * off <= Greatest(dx, dy)
    PROVE  /\ dx >= dy /\ i <= dx /\ dx > 0 => j <= dy /\ (i = dx => j = dy)
           /\ dx < dy /\ j <= dy => i <= dx /\ (j = dy => i = dx)
<1>1. ASSUME dx >= dy, i <= dx, dx > 0 PROVE j <= dy /\ (i = dx => j = dy)
    <2>1. Greatest(dx, dy) = dx  BY <1>1 DEF Greatest
    <2>2. -(2 * off) <= dx /\ 2 * off <= dx  BY <2>1
    <2>3. i \in 0 .. dx  BY <1>1
    <2>4. QED  BY <1>1, <2>2, <2>3, LongEnds
<1>2. ASSUME dx < dy, j <= dy PROVE i <= dx /\ (j = dy => i = dx)
    <2>1. Greatest(dx, dy) = dy  BY <1>2 DEF Greatest
    <2>2. PICK rev \in Int : rev = OffOf(dy, dx, j, i) /\ rev = -off
        <3>1. PICK o \in Int : Growing(dx, dy, i, j, o)  BY OffGrows
        <3>2. OffOf(dy, dx, j, i) = -off  BY <3>1 DEF Growing
        <3>3. QED  BY <3>2
    <2>3. -(2 * rev) <= dy /\ 2 * rev <= dy  BY <2>1, <2>2
    <2>4. j \in 0 .. dy /\ dy > 0  BY <1>2
    <2>5. QED  BY <2>2, <2>3, <2>4, LongEnds
<1>3. QED  BY <1>1, <1>2

\* A step goes along the longer side, and along the other as the error says: the error
\* stays within half of the longer side.
Across(dx, dy, off) == 2 * (dx - dy - off) > -dy
Down(dx, dy, off) == 2 * (dx - dy - off) < dx
OffNext(dx, dy, off) ==
    off + (IF Across(dx, dy, off) THEN dy ELSE 0) - (IF Down(dx, dy, off) THEN dx ELSE 0)
Near(dx, dy, off) == /\ dx = dy => off = 0
                     /\ 2 * off <= Greatest(dx, dy) /\ -(2 * off) <= Greatest(dx, dy)

LEMMA StaysNear ==
    ASSUME NEW dx \in Nat, NEW dy \in Nat, dx > 0 \/ dy > 0, NEW off \in Int, Near(dx, dy, off)
    PROVE  /\ OffNext(dx, dy, off) \in Int /\ Near(dx, dy, OffNext(dx, dy, off))
           /\ dx >= dy => Across(dx, dy, off)
           /\ dx < dy => Down(dx, dy, off)
<1>1. CASE dx >= dy
    <2>1. Greatest(dx, dy) = dx  BY <1>1 DEF Greatest
    <2>2. dx > 0 /\ 2 * off <= dx /\ -(2 * off) <= dx /\ (dx = dy => off = 0)  BY <1>1, <2>1 DEF Near
    <2>3. Across(dx, dy, off)  BY <1>1, <2>2 DEF Across
    <2>4. CASE Down(dx, dy, off)
        <3>1. OffNext(dx, dy, off) = off + dy - dx  BY <2>3, <2>4 DEF OffNext
        <3>2. /\ 2 * (off + dy - dx) <= dx /\ -(2 * (off + dy - dx)) <= dx
              /\ (dx = dy => off + dy - dx = 0)
            BY <1>1, <2>2, <2>4 DEF Down
        <3>3. PICK o \in Int : o = off + dy - dx  OBVIOUS
        <3>4. QED  BY <1>1, <2>1, <2>3, <3>1, <3>2, <3>3 DEF Near
    <2>5. CASE ~Down(dx, dy, off)
        <3>1. OffNext(dx, dy, off) = off + dy  BY <2>3, <2>5 DEF OffNext
        <3>2. 2 * (off + dy) <= dx /\ -(2 * (off + dy)) <= dx /\ dx # dy  BY <1>1, <2>2, <2>5 DEF Down
        <3>3. PICK o \in Int : o = off + dy  OBVIOUS
        <3>4. QED  BY <1>1, <2>1, <2>3, <3>1, <3>2, <3>3 DEF Near
    <2>6. QED  BY <2>4, <2>5
<1>2. CASE dx < dy
    <2>1. Greatest(dx, dy) = dy  BY <1>2 DEF Greatest
    <2>2. 2 * off <= dy /\ -(2 * off) <= dy  BY <2>1 DEF Near
    <2>3. Down(dx, dy, off)  BY <1>2, <2>2 DEF Down
    <2>4. CASE Across(dx, dy, off)
        <3>1. OffNext(dx, dy, off) = off + dy - dx  BY <2>3, <2>4 DEF OffNext
        <3>2. 2 * (off + dy - dx) <= dy /\ -(2 * (off + dy - dx)) <= dy
            BY <1>2, <2>2, <2>4 DEF Across
        <3>3. PICK o \in Int : o = off + dy - dx  OBVIOUS
        <3>4. QED  BY <1>2, <2>1, <2>3, <3>1, <3>2, <3>3 DEF Near
    <2>5. CASE ~Across(dx, dy, off)
        <3>1. OffNext(dx, dy, off) = off - dx  BY <2>3, <2>5 DEF OffNext
        <3>2. 2 * (off - dx) <= dy /\ -(2 * (off - dx)) <= dy  BY <1>2, <2>2, <2>5 DEF Across
        <3>3. PICK o \in Int : o = off - dx  OBVIOUS
        <3>4. QED  BY <1>2, <2>1, <2>3, <3>1, <3>2, <3>3 DEF Near
    <2>6. QED  BY <2>4, <2>5
<1>3. QED  BY <1>1, <1>2

Turns(dx, dy, i, j, off, i2, j2) ==
    /\ Balanced(dx, dy, i, j) /\ ~(i = dx /\ j = dy) /\ off = OffOf(dx, dy, i, j)
    /\ i2 = (IF Across(dx, dy, off) THEN i + 1 ELSE i)
    /\ j2 = (IF Down(dx, dy, off) THEN j + 1 ELSE j)
Steps(dx, dy, i, j, i2, j2) ==
    /\ Balanced(dx, dy, i2, j2)
    /\ dx >= dy => i2 = i + 1
    /\ dx < dy => j2 = j + 1

LEMMA LineMoves ==
    ASSUME NEW dx \in Nat, NEW dy \in Nat, NEW i \in Nat, NEW j \in Nat, NEW off \in Int,
           NEW i2 \in Nat, NEW j2 \in Nat, Turns(dx, dy, i, j, off, i2, j2)
    PROVE  Steps(dx, dy, i, j, i2, j2)
<1>0. /\ Balanced(dx, dy, i, j) /\ ~(i = dx /\ j = dy) /\ off = OffOf(dx, dy, i, j)
      /\ i2 = (IF Across(dx, dy, off) THEN i + 1 ELSE i)
      /\ j2 = (IF Down(dx, dy, off) THEN j + 1 ELSE j)
    BY DEF Turns
<1>1. i \in 0 .. dx /\ j \in 0 .. dy /\ Near(dx, dy, off)  BY <1>0 DEF Balanced, Near
<1>2. dx > 0 \/ dy > 0  BY <1>0, <1>1
<1>3. PICK off2 \in Int : off2 = OffNext(dx, dy, off) /\ Near(dx, dy, off2) /\ off2 = OffOf(dx, dy, i2, j2)
    <2>1. OffNext(dx, dy, off) \in Int /\ Near(dx, dy, OffNext(dx, dy, off))  BY <1>1, <1>2, StaysNear
    <2>2. PICK o \in Int : Growing(dx, dy, i, j, o)  BY OffGrows
    <2>3. /\ OffOf(dx, dy, i + 1, j) = off + dy /\ OffOf(dx, dy, i, j + 1) = off - dx
          /\ OffOf(dx, dy, i + 1, j + 1) = off + dy - dx
        BY <1>0, <2>2 DEF Growing
    <2>4. OffOf(dx, dy, i2, j2) = OffNext(dx, dy, off)  BY <1>0, <2>3 DEF OffNext
    <2>5. QED  BY <2>1, <2>4
<1>4. (dx >= dy => Across(dx, dy, off)) /\ (dx < dy => Down(dx, dy, off))  BY <1>1, <1>2, StaysNear
<1>5. ASSUME i2 \in 0 .. dx, j2 \in 0 .. dy PROVE Balanced(dx, dy, i2, j2)
    BY <1>3, <1>5 DEF Balanced, Near
<1>6. 2 * off <= Greatest(dx, dy) /\ -(2 * off) <= Greatest(dx, dy)  BY <1>1 DEF Near
<1>7. 2 * off2 <= Greatest(dx, dy) /\ -(2 * off2) <= Greatest(dx, dy)  BY <1>3 DEF Near
<1>8. CASE dx >= dy
    <2>1. dx > 0 /\ i < dx
        <3>1. dx > 0 /\ i <= dx  BY <1>1, <1>2, <1>8
        <3>2. i = dx => j = dy  BY <1>0, <1>6, <1>8, <3>1, BothEnd
        <3>3. QED  BY <1>0, <3>1, <3>2
    <2>2. i2 = i + 1 /\ i2 <= dx  BY <1>0, <1>4, <1>8, <2>1
    <2>3. j2 <= dy  BY <1>3, <1>7, <1>8, <2>1, <2>2, BothEnd
    <2>4. QED  BY <1>5, <1>8, <2>2, <2>3 DEF Steps
<1>9. CASE dx < dy
    <2>1. j < dy
        <3>1. j <= dy  BY <1>1
        <3>2. j = dy => i = dx  BY <1>0, <1>6, <1>9, <3>1, BothEnd
        <3>3. QED  BY <1>0, <3>1, <3>2
    <2>2. j2 = j + 1 /\ j2 <= dy  BY <1>0, <1>4, <1>9, <2>1
    <2>3. i2 <= dx  BY <1>3, <1>7, <1>9, <2>2, BothEnd
    <2>4. QED  BY <1>5, <1>9, <2>2, <2>3 DEF Steps
<1>10. QED  BY <1>8, <1>9

\* Where n steps from a towards b lead.
Along(a, b, n) == IF a < b THEN a + n ELSE a - n
Far(a, b) == Abs(b - a)
Way(a, b) == IF a < b THEN 1 ELSE -1

LEMMA AlongIs ==
    ASSUME NEW a \in Int, NEW b \in Int, NEW n \in Nat
    PROVE  /\ Far(a, b) \in Nat /\ Along(a, b, n) \in Int /\ Way(a, b) \in {1, -1}
           /\ Along(a, b, 0) = a /\ Along(a, b, Far(a, b)) = b
           /\ Along(a, b, n + 1) = Along(a, b, n) + Way(a, b)
           /\ Along(a, b, n) = b <=> n = Far(a, b)
BY DEF Far, Along, Way, Abs

LEMMA AlongIn ==
    ASSUME NEW a \in Int, NEW b \in Int, NEW n \in Nat, n <= Far(a, b)
    PROVE  Along(a, b, n) \in Least(a, b) .. Greatest(a, b)
BY DEF Far, Along, Abs, Least, Greatest

LEMMA AlongAll ==
    ASSUME NEW a \in Int, NEW b \in Int
    PROVE  /\ \A m, n \in Nat : Along(a, b, m) = Along(a, b, n) => m = n
           /\ \A p \in Least(a, b) .. Greatest(a, b) : \E n \in 0 .. Far(a, b) : p = Along(a, b, n)
<1>1. \A m, n \in Nat : Along(a, b, m) = Along(a, b, n) => m = n  BY DEF Along
<1>2. ASSUME NEW p \in Least(a, b) .. Greatest(a, b) PROVE \E n \in 0 .. Far(a, b) : p = Along(a, b, n)
    <2>1. CASE a < b
        <3>1. p - a \in 0 .. Far(a, b) /\ p = a + (p - a)  BY <2>1 DEF Far, Abs, Least, Greatest
        <3>2. QED  BY <2>1, <3>1 DEF Along
    <2>2. CASE ~(a < b)
        <3>1. a - p \in 0 .. Far(a, b) /\ p = a - (a - p)  BY <2>2 DEF Far, Abs, Least, Greatest
        <3>2. QED  BY <2>2, <3>1 DEF Along
    <2>3. QED  BY <2>1, <2>2
<1>3. QED  BY <1>1, <1>2

\* What the first m steps draw of the line from a to b: one pixel for each step along the
\* longer side, each within half a pixel of the line.
DX(a, b) == Far(a[1], b[1])
DY(a, b) == Far(a[2], b[2])
StepsOf(a, b, i, j) == IF DX(a, b) >= DY(a, b) THEN i ELSE j
Long(a, b) == IF DX(a, b) >= DY(a, b) THEN 1 ELSE 2
LinePoint(a, b, i, j) == <<Along(a[1], b[1], i), Along(a[2], b[2], j)>>
OnPath(p, a, b, m) ==
    \E i, j \in Nat : /\ p = LinePoint(a, b, i, j) /\ Balanced(DX(a, b), DY(a, b), i, j)
                      /\ StepsOf(a, b, i, j) < m
PathTo(S, a, b, m) ==
    /\ IsFiniteSet(S) /\ Cardinality(S) = m
    /\ \A p \in S : OnPath(p, a, b, m)
    /\ \A t \in 0 .. m - 1 : \E p \in S : p[Long(a, b)] = Along(a[Long(a, b)], b[Long(a, b)], t)
    /\ m > 0 => a \in S

\* The coordinate along the longer side tells how many steps were made.
AtStep(p, a, b, m) == p[Long(a, b)] = Along(a[Long(a, b)], b[Long(a, b)], m)

LEMMA LongIs ==
    ASSUME NEW a, NEW b, NEW i, NEW j
    PROVE  AtStep(LinePoint(a, b, i, j), a, b, StepsOf(a, b, i, j))
<1>1. CASE DX(a, b) >= DY(a, b)  BY <1>1 DEF Long, StepsOf, LinePoint, AtStep
<1>2. CASE ~(DX(a, b) >= DY(a, b))  BY <1>2 DEF Long, StepsOf, LinePoint, AtStep
<1>3. QED  BY <1>1, <1>2

LEMMA LongIn ==
    ASSUME NEW a \in Points, NEW b \in Points
    PROVE  /\ a[Long(a, b)] \in Int /\ b[Long(a, b)] \in Int
           /\ Far(a[Long(a, b)], b[Long(a, b)]) = Greatest(DX(a, b), DY(a, b))
           /\ DX(a, b) \in Nat /\ DY(a, b) \in Nat
<1>1. /\ a[1] \in Int /\ a[2] \in Int /\ b[1] \in Int /\ b[2] \in Int  BY PointIs, Ints
<1>2. DX(a, b) \in Nat /\ DY(a, b) \in Nat  BY <1>1, AlongIs DEF DX, DY
<1>3. CASE DX(a, b) >= DY(a, b)
    <2>1. Long(a, b) = 1  BY <1>3 DEF Long
    <2>2. Greatest(DX(a, b), DY(a, b)) = DX(a, b)  BY <1>2, <1>3 DEF Greatest
    <2>3. QED  BY <1>1, <1>2, <2>1, <2>2 DEF DX
<1>4. CASE ~(DX(a, b) >= DY(a, b))
    <2>1. Long(a, b) = 2  BY <1>4 DEF Long
    <2>2. Greatest(DX(a, b), DY(a, b)) = DY(a, b)  BY <1>2, <1>4 DEF Greatest
    <2>3. QED  BY <1>1, <1>2, <2>1, <2>2 DEF DY
<1>5. QED  BY <1>3, <1>4

LEMMA PathStarts ==
    ASSUME NEW a, NEW b
    PROVE  PathTo({}, a, b, 0)
<1>1. 0 .. 0 - 1 = {}  OBVIOUS
<1>2. QED  BY <1>1, FS_EmptySet DEF PathTo

LEMMA PathGoesOn ==
    ASSUME NEW a \in Points, NEW b \in Points, NEW i \in Nat, NEW j \in Nat, NEW S, NEW m \in Nat,
           m = StepsOf(a, b, i, j), PathTo(S, a, b, m), Balanced(DX(a, b), DY(a, b), i, j),
           m = 0 => i = 0 /\ j = 0, NEW p, p = LinePoint(a, b, i, j)
    PROVE  PathTo(S \cup {p}, a, b, m + 1)
<1>1. PICK la, lb \in Int : la = a[Long(a, b)] /\ lb = b[Long(a, b)]  BY LongIn
<1>2. p[Long(a, b)] = Along(la, lb, m)  BY <1>1, LongIs DEF AtStep
<1>3. p \notin S
    <2>1. SUFFICES ASSUME p \in S PROVE FALSE  OBVIOUS
    <2>2. OnPath(p, a, b, m)  BY <2>1 DEF PathTo
    <2>3. PICK u, v \in Nat : p = LinePoint(a, b, u, v) /\ StepsOf(a, b, u, v) < m  BY <2>2 DEF OnPath
    <2>4. PICK t \in Nat : t = StepsOf(a, b, u, v) /\ t < m  BY <2>3 DEF StepsOf
    <2>5. Along(la, lb, t) = Along(la, lb, m)  BY <1>1, <1>2, <2>3, <2>4, LongIs DEF AtStep
    <2>6. t = m  BY <2>5, AlongAll
    <2>7. QED  BY <2>4, <2>6
<1>4. IsFiniteSet(S \cup {p}) /\ Cardinality(S \cup {p}) = m + 1
    <2>1. IsFiniteSet(S) /\ Cardinality(S) = m  BY DEF PathTo
    <2>2. QED  BY <1>3, <2>1, FS_AddElement
<1>5. ASSUME NEW q \in S \cup {p} PROVE OnPath(q, a, b, m + 1)
    <2>1. CASE q \in S
        <3>1. PICK u, v \in Nat : /\ q = LinePoint(a, b, u, v) /\ Balanced(DX(a, b), DY(a, b), u, v)
                                  /\ StepsOf(a, b, u, v) < m
            BY <2>1 DEF PathTo, OnPath
        <3>2. StepsOf(a, b, u, v) \in Nat  BY <3>1 DEF StepsOf
        <3>3. StepsOf(a, b, u, v) < m + 1  BY <3>1, <3>2
        <3>4. QED  BY <3>1, <3>3 DEF OnPath
    <2>2. CASE q = p
        <3>1. m < m + 1  OBVIOUS
        <3>2. QED  BY <2>2, <3>1 DEF OnPath
    <2>3. QED  BY <1>5, <2>1, <2>2
<1>6. ASSUME NEW t \in 0 .. (m + 1) - 1
      PROVE  \E q \in S \cup {p} : q[Long(a, b)] = Along(a[Long(a, b)], b[Long(a, b)], t)
    <2>1. CASE t = m  BY <1>1, <1>2, <2>1
    <2>2. CASE t # m
        <3>1. t \in 0 .. m - 1  BY <2>2
        <3>2. QED  BY <3>1 DEF PathTo
    <2>3. QED  BY <2>1, <2>2
<1>7. a \in S \cup {p}
    <2>1. CASE m = 0
        <3>1. i = 0 /\ j = 0  BY <2>1
        <3>2. a = <<a[1], a[2]>> /\ a[1] \in Int /\ a[2] \in Int /\ b[1] \in Int /\ b[2] \in Int  BY PointIs, Ints
        <3>3. Along(a[1], b[1], 0) = a[1] /\ Along(a[2], b[2], 0) = a[2]  BY <3>2, AlongIs
        <3>4. QED  BY <3>1, <3>2, <3>3 DEF LinePoint
    <2>2. CASE m > 0  BY <2>2 DEF PathTo
    <2>3. QED  BY <2>1, <2>2
<1>8. QED  BY <1>4, <1>5, <1>6, <1>7 DEF PathTo

\* How far a pixel is from the line: the error, whatever the directions.
LEMMA Signs ==
    ASSUME NEW x \in Int, NEW y \in Int
    PROVE  /\ x * y \in Int /\ (-x) * y = -(x * y) /\ x * (-y) = -(x * y) /\ (-x) * (-y) = x * y
OBVIOUS

LEMMA OffIs ==
    ASSUME NEW a1 \in Int, NEW a2 \in Int, NEW b1 \in Int, NEW b2 \in Int, NEW i \in Nat, NEW j \in Nat,
           NEW off \in Int, off = OffOf(Far(a1, b1), Far(a2, b2), i, j)
    PROVE  (Along(a1, b1, i) - a1) * (b2 - a2) - (Along(a2, b2, j) - a2) * (b1 - a1) \in {off, -off}
<1>1. PICK dx, dy \in Nat : dx = Far(a1, b1) /\ dy = Far(a2, b2)  BY AlongIs
<1>2. PICK u, v \in Nat : u = i * dy /\ v = j * dx  BY Products
<1>3. off = u - v  BY <1>1, <1>2 DEF OffOf
<1>4. /\ i * dy = u /\ (-i) * dy = -u /\ i * (-dy) = -u /\ (-i) * (-dy) = u
      /\ j * dx = v /\ (-j) * dx = -v /\ j * (-dx) = -v /\ (-j) * (-dx) = v
    BY <1>2, Signs
<1>5. CASE a1 < b1
    <2>1. Along(a1, b1, i) - a1 = i /\ b1 - a1 = dx  BY <1>1, <1>5 DEF Along, Far, Abs
    <2>2. CASE a2 < b2
        <3>1. Along(a2, b2, j) - a2 = j /\ b2 - a2 = dy  BY <1>1, <2>2 DEF Along, Far, Abs
        <3>2. i * dy - j * dx = u - v  BY <1>4
        <3>3. QED  BY <1>3, <2>1, <3>1, <3>2
    <2>3. CASE ~(a2 < b2)
        <3>1. Along(a2, b2, j) - a2 = -j /\ b2 - a2 = -dy  BY <1>1, <2>3 DEF Along, Far, Abs
        <3>2. i * (-dy) - (-j) * dx = -u - (-v)  BY <1>4
        <3>3. -u - (-v) = -off  BY <1>3
        <3>4. QED  BY <2>1, <3>1, <3>2, <3>3
    <2>4. QED  BY <2>2, <2>3
<1>6. CASE ~(a1 < b1)
    <2>1. Along(a1, b1, i) - a1 = -i /\ b1 - a1 = -dx  BY <1>1, <1>6 DEF Along, Far, Abs
    <2>2. CASE a2 < b2
        <3>1. Along(a2, b2, j) - a2 = j /\ b2 - a2 = dy  BY <1>1, <2>2 DEF Along, Far, Abs
        <3>2. (-i) * dy - j * (-dx) = -u - (-v)  BY <1>4
        <3>3. -u - (-v) = -off  BY <1>3
        <3>4. QED  BY <2>1, <3>1, <3>2, <3>3
    <2>3. CASE ~(a2 < b2)
        <3>1. Along(a2, b2, j) - a2 = -j /\ b2 - a2 = -dy  BY <1>1, <2>3 DEF Along, Far, Abs
        <3>2. (-i) * (-dy) - (-j) * (-dx) = u - v  BY <1>4
        <3>3. QED  BY <1>3, <2>1, <3>1, <3>2
    <2>4. QED  BY <2>2, <2>3
<1>7. QED  BY <1>5, <1>6

\* A path as long as the longer side that meets the end point is the line.
LEMMA PathIsLine ==
    ASSUME NEW a \in Points, NEW b \in Points, NEW S, NEW m \in Nat, m = Greatest(DX(a, b), DY(a, b)),
           PathTo(S, a, b, m + 1), b \in S
    PROVE  IsLine(S, a, b)
<1>1. PICK a1, a2, b1, b2 \in Int : a1 = a[1] /\ a2 = a[2] /\ b1 = b[1] /\ b2 = b[2]  BY PointIs, Ints
<1>2. PICK dx, dy \in Nat : dx = DX(a, b) /\ dy = DY(a, b)  BY LongIn
<1>3. dx = Far(a1, b1) /\ dy = Far(a2, b2) /\ dx = Abs(b1 - a1) /\ dy = Abs(b2 - a2)
    BY <1>1, <1>2 DEF DX, DY, Far
<1>4. PICK long \in {1, 2} : long = Long(a, b) /\ long = (IF dx >= dy THEN 1 ELSE 2)
    BY <1>2 DEF Long
<1>5. PICK la, lb \in Int : la = a[long] /\ lb = b[long] /\ Far(la, lb) = m  BY <1>4, LongIn
<1>6. ASSUME NEW p \in S
      PROVE  /\ p \in Span(a, b, 1) \X Span(a, b, 2)
             /\ p[long] \in Span(a, b, long)
             /\ 2 * Abs((p[1] - a1) * (b2 - a2) - (p[2] - a2) * (b1 - a1)) <= m
    <2>1. OnPath(p, a, b, m + 1)  BY DEF PathTo
    <2>2. PICK i, j \in Nat : p = LinePoint(a, b, i, j) /\ Balanced(dx, dy, i, j)  BY <1>2, <2>1 DEF OnPath
    <2>3. i <= dx /\ j <= dy  BY <2>2 DEF Balanced
    <2>4. p = <<Along(a1, b1, i), Along(a2, b2, j)>>  BY <1>1, <2>2 DEF LinePoint
    <2>5. Along(a1, b1, i) \in Least(a1, b1) .. Greatest(a1, b1)  BY <1>3, <2>3, AlongIn
    <2>6. Along(a2, b2, j) \in Least(a2, b2) .. Greatest(a2, b2)  BY <1>3, <2>3, AlongIn
    <2>7. p[1] \in Span(a, b, 1) /\ p[2] \in Span(a, b, 2)  BY <1>1, <2>4, <2>5, <2>6 DEF Span
    <2>8. p \in Span(a, b, 1) \X Span(a, b, 2)  BY <2>4, <2>7
    <2>9. PICK off \in Int : /\ off = OffOf(dx, dy, i, j)
                             /\ 2 * off <= Greatest(dx, dy) /\ -(2 * off) <= Greatest(dx, dy)
        BY <2>2 DEF Balanced
    <2>10. 2 * off <= m /\ -(2 * off) <= m  BY <1>2, <2>9
    <2>11. (Along(a1, b1, i) - a1) * (b2 - a2) - (Along(a2, b2, j) - a2) * (b1 - a1) \in {off, -off}
        BY <1>3, <2>9, OffIs
    <2>12. PICK o \in {off, -off} : o = (p[1] - a1) * (b2 - a2) - (p[2] - a2) * (b1 - a1)  BY <2>4, <2>11
    <2>13. 2 * Abs(o) <= m  BY <2>10 DEF Abs
    <2>14. QED  BY <2>7, <2>8, <2>12, <2>13
<1>7. {p[long] : p \in S} = Span(a, b, long)
    <2>1. ASSUME NEW x \in Span(a, b, long) PROVE \E p \in S : x = p[long]
        <3>1. x \in Least(la, lb) .. Greatest(la, lb)  BY <1>5 DEF Span
        <3>2. PICK t \in 0 .. m : x = Along(la, lb, t)  BY <1>5, <3>1, AlongAll
        <3>3. t \in 0 .. (m + 1) - 1  OBVIOUS
        <3>4. \E p \in S : p[long] = Along(la, lb, t)  BY <1>4, <1>5, <3>3 DEF PathTo
        <3>5. QED  BY <3>2, <3>4
    <2>2. QED  BY <1>6, <2>1
<1>8. a \in S /\ Cardinality(S) = m + 1  BY DEF PathTo
<1>9. m = Greatest(dx, dy)  BY <1>2
<1>10. \A p \in S : 2 * Abs((p[1] - a[1]) * (b[2] - a[2]) - (p[2] - a[2]) * (b[1] - a[1])) <= m
    BY <1>1, <1>6
<1>11. S \subseteq Span(a, b, 1) \X Span(a, b, 2)  BY <1>6
<1>12. /\ Abs(b[1] - a[1]) = dx /\ Abs(b[2] - a[2]) = dy  BY <1>1, <1>3
<1>13. QED  BY <1>4, <1>7, <1>8, <1>9, <1>10, <1>11, <1>12 DEF IsLine

\* Where the loop stands after i steps across and j down.
LineStands(l, a, b, i, j) ==
    /\ Balanced(DX(a, b), DY(a, b), i, j)
    /\ StepsOf(a, b, i, j) = 0 => i = 0 /\ j = 0
    /\ <<l.x, l.y>> = LinePoint(a, b, i, j)
    /\ l.dx = DX(a, b) /\ l.dy = DY(a, b)
    /\ l.err = DX(a, b) - DY(a, b) - OffOf(DX(a, b), DY(a, b), i, j)
    /\ l.sx = Way(a[1], b[1]) /\ l.sy = Way(a[2], b[2])
    /\ l.to = b
LineDrawing(S, l, a, b) ==
    \E i, j \in Nat : LineStands(l, a, b, i, j) /\ PathTo(S, a, b, StepsOf(a, b, i, j))

\* A line short enough for the loop's ints.
Short(a, b) == a \in Points /\ b \in Points /\ 3 * Longer(a, b) <= IntMax

LEMMA ShortIs ==
    ASSUME NEW a, NEW b, Short(a, b)
    PROVE  /\ a \in Points /\ b \in Points /\ DX(a, b) \in Nat /\ DY(a, b) \in Nat
           /\ 3 * DX(a, b) <= IntMax /\ 3 * DY(a, b) <= IntMax
<1>1. a \in Points /\ b \in Points  BY DEF Short
<1>2. PICK dx, dy \in Nat : dx = DX(a, b) /\ dy = DY(a, b)  BY <1>1, LongIn
<1>3. Longer(a, b) = Greatest(dx, dy)  BY <1>2 DEF Longer, DX, DY, Far
<1>4. 3 * Greatest(dx, dy) <= IntMax  BY <1>3 DEF Short
<1>5. 3 * dx <= IntMax /\ 3 * dy <= IntMax  BY <1>4, IntMaxIs DEF Greatest
<1>6. QED  BY <1>1, <1>2, <1>5

Started(l, a, b, rest) == LineDrawing({}, l, a, b) /\ l.rest = rest /\ l.kind = "line"

LEMMA LineStarts ==
    ASSUME NEW a, NEW b, Short(a, b), NEW color, NEW rest, NEW l, l = LineFrom(a, b, color, rest)
    PROVE  Started(l, a, b, rest)
<1>1. PICK dx, dy \in Nat : dx = DX(a, b) /\ dy = DY(a, b) /\ 3 * dx <= IntMax /\ 3 * dy <= IntMax  BY ShortIs
<1>2. PICK a1, a2, b1, b2 \in Int : a1 = a[1] /\ a2 = a[2] /\ b1 = b[1] /\ b2 = b[2]  BY ShortIs, PointIs, Ints
<1>3. dx = Abs(b1 - a1) /\ dy = Abs(b2 - a2)  BY <1>1, <1>2 DEF DX, DY, Far
<1>4. b1 - a1 \in Int32 /\ b2 - a2 \in Int32 /\ dx \in Int32 /\ dy \in Int32 /\ dx - dy \in Int32
    BY <1>1, <1>3, SmallInts, IntMaxIs DEF Abs
<1>5. /\ Wrap(b1 - a1) = b1 - a1 /\ Wrap(b2 - a2) = b2 - a2 /\ Wrap(dx) = dx /\ Wrap(dy) = dy
      /\ Wrap(dx - dy) = dx - dy
    BY <1>4, WrapSame
<1>7. /\ l.kind = "line" /\ l.x = a1 /\ l.y = a2 /\ l.err = dx - dy /\ l.dx = dx /\ l.dy = dy
      /\ l.to = b /\ l.sx = Way(a1, b1) /\ l.sy = Way(a2, b2) /\ l.rest = rest
    BY <1>2, <1>3, <1>5 DEF LineFrom, Way
<1>8. OffOf(dx, dy, 0, 0) = 0
    <2>1. 0 * dy = 0 /\ 0 * dx = 0  OBVIOUS
    <2>2. QED  BY <2>1 DEF OffOf
<1>9. Balanced(dx, dy, 0, 0)
    <2>1. Greatest(dx, dy) \in Nat  BY DEF Greatest
    <2>2. 2 * 0 <= Greatest(dx, dy) /\ -(2 * 0) <= Greatest(dx, dy)  BY <2>1
    <2>3. 0 \in 0 .. dx /\ 0 \in 0 .. dy /\ 0 \in Int  OBVIOUS
    <2>4. QED  BY <1>8, <2>2, <2>3 DEF Balanced
<1>10. LinePoint(a, b, 0, 0) = <<a1, a2>>
    <2>1. Along(a1, b1, 0) = a1 /\ Along(a2, b2, 0) = a2  BY AlongIs
    <2>2. QED  BY <1>2, <2>1 DEF LinePoint
<1>11. l.err = dx - dy - OffOf(dx, dy, 0, 0)  BY <1>7, <1>8
<1>12. LineStands(l, a, b, 0, 0)  BY <1>1, <1>2, <1>7, <1>9, <1>10, <1>11 DEF LineStands
<1>13. StepsOf(a, b, 0, 0) = 0  BY DEF StepsOf
<1>14. PathTo({}, a, b, 0)  BY PathStarts
<1>15. LineDrawing({}, l, a, b)
    <2>1. 0 \in Nat  OBVIOUS
    <2>2. QED  BY <1>12, <1>13, <1>14, <2>1 DEF LineDrawing
<1>16. QED  BY <1>7, <1>15 DEF Started

LEMMA PathMeets ==
    ASSUME NEW a, NEW b, Short(a, b), NEW S, NEW l, LineDrawing(S, l, a, b), <<l.x, l.y>> = l.to
    PROVE  IsLine(S \cup {<<l.x, l.y>>}, a, b)
<1>1. PICK i, j \in Nat : LineStands(l, a, b, i, j) /\ PathTo(S, a, b, StepsOf(a, b, i, j))  BY DEF LineDrawing
<1>2. PICK m \in Nat : m = StepsOf(a, b, i, j)  BY <1>1 DEF StepsOf
<1>3. a \in Points /\ b \in Points  BY ShortIs
<1>4. PICK p : p = LinePoint(a, b, i, j) /\ p = <<l.x, l.y>> /\ p = b  BY <1>1 DEF LineStands
<1>5. PathTo(S \cup {p}, a, b, m + 1)
    <2>1. Balanced(DX(a, b), DY(a, b), i, j) /\ (m = 0 => i = 0 /\ j = 0)  BY <1>1, <1>2 DEF LineStands
    <2>2. PathTo(S, a, b, m)  BY <1>1, <1>2
    <2>3. QED  BY <1>1, <1>2, <1>3, <1>4, <2>1, <2>2, PathGoesOn
<1>6. m = Greatest(DX(a, b), DY(a, b))
    <2>1. PICK la, lb \in Int : la = a[Long(a, b)] /\ lb = b[Long(a, b)]
                                /\ Far(la, lb) = Greatest(DX(a, b), DY(a, b))
        BY <1>3, LongIn
    <2>2. p[Long(a, b)] = Along(la, lb, m)
        <3>1. AtStep(p, a, b, m)  BY <1>2, <1>4, LongIs
        <3>2. QED  BY <2>1, <3>1 DEF AtStep
    <2>3. Along(la, lb, m) = lb  BY <1>4, <2>1, <2>2
    <2>4. m = Far(la, lb)  BY <2>3, AlongIs
    <2>5. QED  BY <2>1, <2>4
<1>7. b \in S \cup {p}  BY <1>4
<1>8. IsLine(S \cup {p}, a, b)  BY <1>2, <1>3, <1>5, <1>6, <1>7, PathIsLine
<1>9. QED  BY <1>4, <1>8

\* The loop's step, in numbers.
LEMMA MoveIs ==
    ASSUME NEW l \in LineLoops, NEW across \in BOOLEAN, NEW down \in BOOLEAN,
           NEW x2 \in Int32, x2 = (IF across THEN l.x + l.sx ELSE l.x),
           NEW y2 \in Int32, y2 = (IF down THEN l.y + l.sy ELSE l.y),
           NEW err2 \in Int32, err2 = l.err - (IF across THEN l.dy ELSE 0) + (IF down THEN l.dx ELSE 0)
    PROVE  /\ Move(l, across, down).x = x2 /\ Move(l, across, down).y = y2 /\ Move(l, across, down).err = err2
           /\ Move(l, across, down).dx = l.dx /\ Move(l, across, down).dy = l.dy
           /\ Move(l, across, down).sx = l.sx /\ Move(l, across, down).sy = l.sy
           /\ Move(l, across, down).to = l.to /\ Move(l, across, down).rest = l.rest
           /\ Move(l, across, down).kind = "line"
<1>1. Wrap(x2) = x2 /\ Wrap(y2) = y2 /\ Wrap(err2) = err2  BY WrapSame
<1>2. (IF across THEN Wrap(l.x + l.sx) ELSE l.x) = x2 /\ (IF down THEN Wrap(l.y + l.sy) ELSE l.y) = y2
    BY <1>1
<1>3. Wrap(l.err - (IF across THEN l.dy ELSE 0) + (IF down THEN l.dx ELSE 0)) = err2  BY <1>1
<1>4. Move(l, across, down) = [l EXCEPT !.x = x2, !.y = y2, !.err = err2]  BY <1>2, <1>3 DEF Move
<1>5. QED  BY <1>4 DEF LineLoops

LEMMA ErrorIs ==
    ASSUME NEW dx \in Nat, NEW dy \in Nat, 3 * dx <= IntMax, 3 * dy <= IntMax, NEW off \in Int, Near(dx, dy, off)
    PROVE  dx - dy - off \in Int32 /\ 2 * (dx - dy - off) \in Int32 /\ -dy \in Int32
<1>1. PICK g \in Nat : g = Greatest(dx, dy) /\ dx <= g /\ dy <= g /\ 3 * g <= IntMax
    BY IntMaxIs DEF Greatest
<1>2. 2 * off <= g /\ -(2 * off) <= g  BY <1>1 DEF Near
<1>3. IntMax \in Nat  BY IntMaxIs
<1>4. /\ -IntMax - 1 <= dx - dy - off /\ dx - dy - off <= IntMax
      /\ -IntMax - 1 <= 2 * (dx - dy - off) /\ 2 * (dx - dy - off) <= IntMax
      /\ -IntMax - 1 <= -dy /\ -dy <= IntMax
    BY <1>1, <1>2, <1>3
<1>5. QED  BY <1>4, SmallInts

LEMMA AlongInts ==
    ASSUME NEW a \in Int32, NEW b \in Int32, NEW n \in Nat, n <= Far(a, b)
    PROVE  Along(a, b, n) \in Int32
<1>1. /\ a \in Int /\ b \in Int /\ -IntMax - 1 <= a /\ a <= IntMax /\ -IntMax - 1 <= b /\ b <= IntMax /\ IntMax \in Nat
    BY Ints, IntMaxIs
<1>2. Along(a, b, n) \in Int /\ -IntMax - 1 <= Along(a, b, n) /\ Along(a, b, n) <= IntMax
    BY <1>1 DEF Along, Far, Abs
<1>3. QED  BY <1>2, SmallInts

Turned(S, l, a, b) ==
    /\ LineDrawing(S \cup {<<l.x, l.y>>}, LineStep(l), a, b)
    /\ LineStep(l).rest = l.rest /\ LineStep(l).kind = "line"

LEMMA PathTurns ==
    ASSUME NEW a, NEW b, Short(a, b), NEW S, NEW l \in LineLoops, LineDrawing(S, l, a, b), <<l.x, l.y>> # l.to
    PROVE  Turned(S, l, a, b)
<1>1. PICK i, j \in Nat : LineStands(l, a, b, i, j) /\ PathTo(S, a, b, StepsOf(a, b, i, j))  BY DEF LineDrawing
<1>2. PICK m \in Nat : m = StepsOf(a, b, i, j)  BY <1>1 DEF StepsOf
<1>3. a \in Points /\ b \in Points /\ b = <<b[1], b[2]>>  BY ShortIs, PointIs
<1>4. PICK p : p = LinePoint(a, b, i, j) /\ p = <<l.x, l.y>> /\ p # b  BY <1>1 DEF LineStands
<1>5. PICK dx, dy \in Nat : dx = DX(a, b) /\ dy = DY(a, b) /\ 3 * dx <= IntMax /\ 3 * dy <= IntMax  BY ShortIs
<1>6. PICK a1, a2, b1, b2 \in Int32 : a1 = a[1] /\ a2 = a[2] /\ b1 = b[1] /\ b2 = b[2]  BY <1>3, PointIs
<1>7. /\ a1 \in Int /\ a2 \in Int /\ b1 \in Int /\ b2 \in Int
      /\ dx = Far(a1, b1) /\ dy = Far(a2, b2)
    BY <1>5, <1>6, Ints DEF DX, DY
<1>8. PathTo(S \cup {p}, a, b, m + 1)
    <2>1. Balanced(DX(a, b), DY(a, b), i, j) /\ (m = 0 => i = 0 /\ j = 0)  BY <1>1, <1>2 DEF LineStands
    <2>2. PathTo(S, a, b, m)  BY <1>1, <1>2
    <2>3. QED  BY <1>1, <1>2, <1>3, <1>4, <2>1, <2>2, PathGoesOn
<1>9. Balanced(dx, dy, i, j)  BY <1>1, <1>5 DEF LineStands
<1>10. PICK off \in Int : off = OffOf(dx, dy, i, j) /\ Near(dx, dy, off)  BY <1>9 DEF Balanced, Near
<1>11. ~(i = dx /\ j = dy)
    <2>1. Along(a1, b1, dx) = b1 /\ Along(a2, b2, dy) = b2  BY <1>7, AlongIs
    <2>2. LinePoint(a, b, dx, dy) = b  BY <1>3, <1>6, <2>1 DEF LinePoint
    <2>3. QED  BY <1>4, <2>2
<1>12. PICK i2 \in Nat : i2 = (IF Across(dx, dy, off) THEN i + 1 ELSE i)  BY <1>1
<1>13. PICK j2 \in Nat : j2 = (IF Down(dx, dy, off) THEN j + 1 ELSE j)  BY <1>1
<1>14. Balanced(dx, dy, i2, j2) /\ (dx >= dy => i2 = i + 1) /\ (dx < dy => j2 = j + 1)
    <2>1. Steps(dx, dy, i, j, i2, j2)
        <3>1. Turns(dx, dy, i, j, off, i2, j2)  BY <1>9, <1>10, <1>11, <1>12, <1>13 DEF Turns
        <3>2. QED  BY <1>1, <1>5, <1>10, <1>12, <1>13, <3>1, LineMoves
    <2>2. QED  BY <2>1 DEF Steps
<1>15. StepsOf(a, b, i2, j2) = m + 1  BY <1>2, <1>5, <1>14 DEF StepsOf
<1>16. PICK off2 \in Int : off2 = OffOf(dx, dy, i2, j2) /\ Near(dx, dy, off2)  BY <1>14 DEF Balanced, Near
<1>17. off2 = OffNext(dx, dy, off)
    <2>1. PICK o \in Int : Growing(dx, dy, i, j, o)  BY <1>1, OffGrows
    <2>2. /\ OffOf(dx, dy, i + 1, j) = off + dy /\ OffOf(dx, dy, i, j + 1) = off - dx
          /\ OffOf(dx, dy, i + 1, j + 1) = off + dy - dx
        BY <1>10, <2>1 DEF Growing
    <2>3. QED  BY <1>10, <1>12, <1>13, <1>16, <2>2 DEF OffNext
<1>18. PICK e \in Int32 : e = dx - dy - off /\ 2 * e \in Int32 /\ -dy \in Int32  BY <1>5, <1>10, ErrorIs
<1>19. PICK e2 \in Int32 : e2 = dx - dy - off2  BY <1>5, <1>16, ErrorIs
<1>20. PICK across, down \in BOOLEAN : across = Across(dx, dy, off) /\ down = Down(dx, dy, off)
    <2>1. Across(dx, dy, off) \in BOOLEAN /\ Down(dx, dy, off) \in BOOLEAN  BY DEF Across, Down
    <2>2. QED  BY <2>1
<1>21. /\ l.err = e /\ l.dx = dx /\ l.dy = dy /\ l.sx = Way(a1, b1) /\ l.sy = Way(a2, b2) /\ l.to = b
       /\ l.x = Along(a1, b1, i) /\ l.y = Along(a2, b2, j)
    BY <1>1, <1>5, <1>6, <1>10, <1>18 DEF LineStands, LinePoint
<1>22. LineStep(l) = Move(l, across, down)
    <2>1. Wrap(2 * l.err) = 2 * e /\ Wrap(-l.dy) = -dy  BY <1>18, <1>21, WrapSame
    <2>2. LineStep(l) = Move(l, 2 * e > -dy, 2 * e < dx)  BY <1>21, <2>1, Zenon DEF LineStep
    <2>3. (2 * e > -dy) = across /\ (2 * e < dx) = down  BY <1>18, <1>20 DEF Across, Down
    <2>4. QED  BY <2>2, <2>3, Zenon
<1>23. PICK x2 \in Int32 : x2 = Along(a1, b1, i2) /\ x2 = (IF across THEN l.x + l.sx ELSE l.x)
    <2>1. i2 <= dx  BY <1>14 DEF Balanced
    <2>2. Along(a1, b1, i2) \in Int32  BY <1>7, <2>1, AlongInts
    <2>3. Along(a1, b1, i + 1) = Along(a1, b1, i) + Way(a1, b1)  BY <1>1, <1>7, AlongIs
    <2>4. QED  BY <1>12, <1>20, <1>21, <2>2, <2>3
<1>24. PICK y2 \in Int32 : y2 = Along(a2, b2, j2) /\ y2 = (IF down THEN l.y + l.sy ELSE l.y)
    <2>1. j2 <= dy  BY <1>14 DEF Balanced
    <2>2. Along(a2, b2, j2) \in Int32  BY <1>7, <2>1, AlongInts
    <2>3. Along(a2, b2, j + 1) = Along(a2, b2, j) + Way(a2, b2)  BY <1>1, <1>7, AlongIs
    <2>4. QED  BY <1>13, <1>20, <1>21, <2>2, <2>3
<1>25. e2 = l.err - (IF across THEN l.dy ELSE 0) + (IF down THEN l.dx ELSE 0)
    <2>1. off2 = off + (IF across THEN dy ELSE 0) - (IF down THEN dx ELSE 0)  BY <1>17, <1>20 DEF OffNext
    <2>2. PICK s, t \in Int : s = (IF across THEN dy ELSE 0) /\ t = (IF down THEN dx ELSE 0)
        BY <1>20
    <2>3. off2 = off + s - t /\ e2 = e - s + t  BY <1>18, <1>19, <2>1, <2>2
    <2>4. QED  BY <1>21, <2>2, <2>3
<1>26. PICK n : n = LineStep(l)  OBVIOUS
<1>27. /\ n.x = x2 /\ n.y = y2 /\ n.err = e2 /\ n.dx = dx /\ n.dy = dy /\ n.sx = l.sx /\ n.sy = l.sy
       /\ n.to = b /\ n.rest = l.rest /\ n.kind = "line"
    BY <1>21, <1>22, <1>23, <1>24, <1>25, <1>26, MoveIs
<1>28. LineStands(n, a, b, i2, j2)
    <2>1. StepsOf(a, b, i2, j2) # 0  BY <1>15
    <2>2. <<n.x, n.y>> = LinePoint(a, b, i2, j2)  BY <1>6, <1>23, <1>24, <1>27 DEF LinePoint
    <2>3. n.err = dx - dy - OffOf(dx, dy, i2, j2)  BY <1>16, <1>19, <1>27
    <2>4. QED  BY <1>5, <1>6, <1>14, <1>21, <1>27, <2>1, <2>2, <2>3 DEF LineStands
<1>29. LineDrawing(S \cup {p}, n, a, b)  BY <1>8, <1>12, <1>13, <1>15, <1>28 DEF LineDrawing
<1>30. QED  BY <1>4, <1>26, <1>27, <1>29 DEF Turned

\* The call, and what its loop has drawn.
LineShape ==
    (call.op = "line" /\ 3 * Longer(call.from, call.to) <= IntMax) =>
        IF loop = Idle THEN IsLine(drawn, call.from, call.to)
        ELSE loop.rest = <<>> /\ LineDrawing(drawn, loop, call.from, call.to)

LEMMA LineBegins ==
    ASSUME CoreInv, NEW c \in Asking, Hands(c), call' = c, loop = Idle
    PROVE  LineShape'
<1>1. SUFFICES ASSUME c.op = "line", 3 * Longer(c.from, c.to) <= IntMax
               PROVE  loop' # Idle /\ loop'.rest = <<>> /\ LineDrawing(drawn', loop', c.from, c.to)
    BY DEF LineShape
<1>2. PICK a, b : a = c.from /\ b = c.to /\ Short(a, b)  BY <1>1, Fields DEF Short
<1>3. PICK l : l = LineFrom(a, b, ColorOf(c.color), <<>>)  OBVIOUS
<1>4. loop' = l /\ drawn' = {}  BY <1>1, <1>2, <1>3 DEF Hands, graphics_draw_line, Loop
<1>5. LineDrawing({}, l, a, b) /\ l.rest = <<>> /\ l.kind = "line"  BY <1>2, <1>3, LineStarts DEF Started
<1>6. l # Idle
    <2>1. Idle.kind = "idle"  BY DEF Idle
    <2>2. QED  BY <1>5, <2>1
<1>7. QED  BY <1>2, <1>4, <1>5, <1>6

LEMMA LineGoesOn ==
    ASSUME CoreInv, LineShape, DuringLoop, LineIteration, call.op = "line"
    PROVE  LineShape'
<1>1. SUFFICES ASSUME 3 * Longer(call.from, call.to) <= IntMax
               PROVE  IF loop' = Idle THEN IsLine(drawn', call.from, call.to)
                      ELSE loop'.rest = <<>> /\ LineDrawing(drawn', loop', call.from, call.to)
    BY DEF LineShape, DuringLoop
<1>2. call \in Asking
    <2>1. call \in Asking \cup {[op |-> "none"]} /\ [op |-> "none"].op = "none"  BY DEF CoreInv, VixTypes
    <2>2. QED  BY <2>1
<1>3. PICK a, b : a = call.from /\ b = call.to /\ Short(a, b)  BY <1>1, <1>2, Fields DEF Short
<1>4. loop # Idle /\ UNCHANGED result  BY DEF DuringLoop
<1>5. loop.rest = <<>> /\ LineDrawing(drawn, loop, a, b)  BY <1>1, <1>3, <1>4 DEF LineShape
<1>6. PICK l \in LineLoops : l = loop  BY <1>4, LineIs
<1>7. drawn' = drawn \cup {<<l.x, l.y>>}  BY <1>4, <1>6, LineIs DEF Paints
<1>8. CASE <<l.x, l.y>> = l.to
    <2>1. loop' = NextLine(l)  BY <1>4, <1>6, <1>8, LineIs
    <2>2. Len(<<>>) < 2  OBVIOUS
    <2>3. loop' = Idle  BY <1>5, <1>6, <2>1, <2>2 DEF NextLine
    <2>4. IsLine(drawn', a, b)  BY <1>3, <1>5, <1>6, <1>7, <1>8, PathMeets
    <2>5. QED  BY <1>3, <2>3, <2>4
<1>9. CASE <<l.x, l.y>> # l.to
    <2>1. loop' = LineStep(l)  BY <1>4, <1>6, <1>9, LineIs
    <2>2. LineDrawing(drawn', loop', a, b) /\ loop'.rest = <<>> /\ loop'.kind = "line"
        <3>1. LineDrawing(drawn, l, a, b) /\ l.rest = <<>>  BY <1>5, <1>6
        <3>2. /\ LineDrawing(drawn \cup {<<l.x, l.y>>}, LineStep(l), a, b)
              /\ LineStep(l).rest = l.rest /\ LineStep(l).kind = "line"
            <4>1. Turned(drawn, l, a, b)  BY <1>3, <1>6, <1>9, <3>1, PathTurns
            <4>2. QED  BY <4>1 DEF Turned
        <3>3. QED  BY <1>7, <2>1, <3>1, <3>2
    <2>3. loop' # Idle
        <3>1. Idle.kind = "idle"  BY DEF Idle
        <3>2. QED  BY <2>2, <3>1
    <2>4. QED  BY <1>3, <2>2, <2>3
<1>10. QED  BY <1>8, <1>9

LEMMA LineKept == ASSUME CoreInv, LineShape, [VixNext]_vixVars PROVE LineShape'
<1>1. CASE UNCHANGED vixVars  BY <1>1 DEF vixVars, vars, LineShape
<1>2. CASE VixNext /\ \E c \in Asking : Hands(c) /\ call' = c /\ loop = Idle  BY <1>2, LineBegins
<1>3. CASE DuringLoop /\ call.op # "line"  BY <1>3 DEF DuringLoop, LineShape
<1>4. CASE DuringLoop /\ LineIteration /\ call.op = "line"  BY <1>4, LineGoesOn
<1>5. QED  BY <1>1, <1>2, <1>3, <1>4, StepIs

----------------------------------------------------------------------------
(* An outline: four lines, one after another, that are its sides.            *)
Edge(r, k) == Corners(r)[k]
Side(r, k) == Span(Edge(r, k), Edge(r, k + 1), 1) \X Span(Edge(r, k), Edge(r, k + 1), 2)
SidesBefore(r, k) == UNION {Side(r, n) : n \in 1 .. k - 1}
Framed(r) == /\ r \in Rects /\ r.width > 0 /\ r.height > 0 /\ Fits(r)
             /\ 3 * Greatest(r.width, r.height) <= IntMax

RectDrawing(S, l, r) ==
    \E k \in 1 .. 4, T \in SUBSET S :
        /\ S = SidesBefore(r, k) \cup T
        /\ LineDrawing(T, l, Edge(r, k), Edge(r, k + 1))
        /\ l.rest = SubSeq(Corners(r), k + 1, 5)
RectShape ==
    (call.op = "rect" /\ Framed(call.rect)) =>
        IF loop = Idle THEN IsOutline(drawn, call.rect) ELSE RectDrawing(drawn, loop, call.rect)

\* The corners, and the sides between them.
LEMMA EdgesAre ==
    ASSUME NEW r, Framed(r)
    PROVE  \E x, y, right, bottom \in Int32 :
              /\ x = r.x /\ y = r.y /\ right = x + r.width - 1 /\ bottom = y + r.height - 1
              /\ x <= right /\ y <= bottom /\ 3 * (right - x) <= IntMax /\ 3 * (bottom - y) <= IntMax
              /\ Corners(r) = <<<<x, y>>, <<right, y>>, <<right, bottom>>, <<x, bottom>>, <<x, y>>>>
<1>1. r.x \in Int32 /\ r.y \in Int32 /\ r.width \in Int /\ r.height \in Int  BY Ints DEF Framed, Rects
<1>2. PICK x, y \in Int32 : x = r.x /\ y = r.y  BY <1>1
<1>3. PICK w, h \in Int : w = r.width /\ h = r.height  BY <1>1
<1>4. w > 0 /\ h > 0 /\ x + w \in Int32 /\ y + h \in Int32 /\ 3 * Greatest(w, h) <= IntMax
    BY <1>2, <1>3 DEF Framed, Fits
<1>5. 3 * w <= IntMax /\ 3 * h <= IntMax  BY <1>4, IntMaxIs DEF Greatest
<1>6. PICK right, bottom \in Int : right = x + w - 1 /\ bottom = y + h - 1
    <2>1. x \in Int /\ y \in Int  BY Ints
    <2>2. x + w - 1 \in Int /\ y + h - 1 \in Int  BY <2>1
    <2>3. QED  BY <2>2
<1>7. right \in Int32 /\ bottom \in Int32 /\ x <= right /\ y <= bottom
      /\ 3 * (right - x) <= IntMax /\ 3 * (bottom - y) <= IntMax
    <2>1. /\ x \in Int /\ y \in Int /\ -IntMax - 1 <= x /\ -IntMax - 1 <= y
          /\ x + w <= IntMax /\ y + h <= IntMax /\ IntMax \in Nat
        BY <1>4, Ints, IntMaxIs
    <2>2. /\ -IntMax - 1 <= right /\ right <= IntMax /\ -IntMax - 1 <= bottom /\ bottom <= IntMax
          /\ x <= right /\ y <= bottom /\ 3 * (right - x) <= IntMax /\ 3 * (bottom - y) <= IntMax
        BY <1>4, <1>5, <1>6, <2>1
    <2>3. QED  BY <2>2, SmallInts
<1>8. Wrap(r.x + r.width - 1) = right /\ Wrap(r.y + r.height - 1) = bottom  BY <1>2, <1>3, <1>6, <1>7, WrapSame
<1>9. Corners(r) = <<<<x, y>>, <<right, y>>, <<right, bottom>>, <<x, bottom>>, <<x, y>>>>
    BY <1>2, <1>8 DEF Corners
<1>10. QED  BY <1>2, <1>3, <1>6, <1>7, <1>9

\* A line that is level or upright has every pixel between its ends.
LEMMA SideIsLine ==
    ASSUME NEW a \in Points, NEW b \in Points, a[1] = b[1] \/ a[2] = b[2], NEW S, IsLine(S, a, b)
    PROVE  S = Span(a, b, 1) \X Span(a, b, 2)
<1>1. PICK a1, a2, b1, b2 \in Int : a1 = a[1] /\ a2 = a[2] /\ b1 = b[1] /\ b2 = b[2]  BY PointIs, Ints
<1>2. PICK long \in {1, 2} : /\ long = (IF Abs(b1 - a1) >= Abs(b2 - a2) THEN 1 ELSE 2)
                             /\ {p[long] : p \in S} = Span(a, b, long)
    BY <1>1 DEF IsLine
<1>3. S \subseteq Span(a, b, 1) \X Span(a, b, 2)  BY DEF IsLine
<1>4. CASE long = 1
    <2>1. Abs(b1 - a1) >= Abs(b2 - a2)  BY <1>2, <1>4
    <2>2. a2 = b2  BY <1>1, <2>1 DEF Abs
    <2>3. Span(a, b, 2) = {a2}  BY <1>1, <2>2 DEF Span, Least, Greatest
    <2>4. ASSUME NEW q \in Span(a, b, 1) \X Span(a, b, 2) PROVE q \in S
        <3>1. q = <<q[1], q[2]>> /\ q[1] \in Span(a, b, 1) /\ q[2] = a2  BY <2>3
        <3>2. PICK p \in S : p[1] = q[1]  BY <1>2, <1>4, <3>1
        <3>3. p = <<p[1], p[2]>> /\ p[2] = a2  BY <1>3, <2>3, <3>2
        <3>4. QED  BY <3>1, <3>2, <3>3
    <2>5. QED  BY <1>3, <2>4
<1>5. CASE long = 2
    <2>1. ~(Abs(b1 - a1) >= Abs(b2 - a2))  BY <1>2, <1>5
    <2>2. a1 = b1  BY <1>1, <2>1 DEF Abs
    <2>3. Span(a, b, 1) = {a1}  BY <1>1, <2>2 DEF Span, Least, Greatest
    <2>4. ASSUME NEW q \in Span(a, b, 1) \X Span(a, b, 2) PROVE q \in S
        <3>1. q = <<q[1], q[2]>> /\ q[2] \in Span(a, b, 2) /\ q[1] = a1  BY <2>3
        <3>2. PICK p \in S : p[2] = q[2]  BY <1>2, <1>5, <3>1
        <3>3. p = <<p[1], p[2]>> /\ p[1] = a1  BY <1>3, <2>3, <3>2
        <3>4. QED  BY <3>1, <3>2, <3>3
    <2>5. QED  BY <1>3, <2>4
<1>6. QED  BY <1>4, <1>5

LEMMA SpanIs ==
    ASSUME NEW a, NEW b, NEW x1 \in Int, NEW y1 \in Int, NEW x2 \in Int, NEW y2 \in Int,
           a = <<x1, y1>>, b = <<x2, y2>>
    PROVE  Span(a, b, 1) \X Span(a, b, 2) = (Least(x1, x2) .. Greatest(x1, x2)) \X (Least(y1, y2) .. Greatest(y1, y2))
BY DEF Span

LEMMA LongerIs ==
    ASSUME NEW x1 \in Int32, NEW y1 \in Int32, NEW x2 \in Int32, NEW y2 \in Int32,
           3 * (x2 - x1) <= IntMax, 3 * (x1 - x2) <= IntMax, 3 * (y2 - y1) <= IntMax, 3 * (y1 - y2) <= IntMax
    PROVE  Short(<<x1, y1>>, <<x2, y2>>)
<1>1. <<x1, y1>> \in Points /\ <<x2, y2>> \in Points  BY DEF Points
<1>2. x1 \in Int /\ y1 \in Int /\ x2 \in Int /\ y2 \in Int  BY Ints
<1>3. PICK a, b : a = <<x1, y1>> /\ b = <<x2, y2>>  OBVIOUS
<1>4. Longer(a, b) = Greatest(Abs(x2 - x1), Abs(y2 - y1))  BY <1>3 DEF Longer
<1>5. 3 * Greatest(Abs(x2 - x1), Abs(y2 - y1)) <= IntMax  BY <1>2, IntMaxIs DEF Greatest, Abs
<1>6. QED  BY <1>1, <1>3, <1>4, <1>5 DEF Short

\* The sides are level or upright, and short enough for the loop.
LEMMA EdgesShort ==
    ASSUME NEW r, Framed(r), NEW k \in 1 .. 4
    PROVE  /\ Short(Edge(r, k), Edge(r, k + 1))
           /\ Edge(r, k)[1] = Edge(r, k + 1)[1] \/ Edge(r, k)[2] = Edge(r, k + 1)[2]
<1>1. PICK x, y, right, bottom \in Int32 :
          /\ x <= right /\ y <= bottom /\ 3 * (right - x) <= IntMax /\ 3 * (bottom - y) <= IntMax
          /\ Corners(r) = <<<<x, y>>, <<right, y>>, <<right, bottom>>, <<x, bottom>>, <<x, y>>>>
    BY EdgesAre
<1>2. /\ Edge(r, 1) = <<x, y>> /\ Edge(r, 2) = <<right, y>> /\ Edge(r, 3) = <<right, bottom>>
      /\ Edge(r, 4) = <<x, bottom>> /\ Edge(r, 5) = <<x, y>>
    BY <1>1 DEF Edge
<1>3. x \in Int /\ y \in Int /\ right \in Int /\ bottom \in Int /\ IntMax \in Nat  BY <1>1, Ints, IntMaxIs
<1>4. /\ 3 * (x - right) <= IntMax /\ 3 * (y - bottom) <= IntMax /\ 3 * (x - x) <= IntMax /\ 3 * (y - y) <= IntMax
      /\ 3 * (right - right) <= IntMax /\ 3 * (bottom - bottom) <= IntMax
    BY <1>1, <1>3
<1>5. k = 1 \/ k = 2 \/ k = 3 \/ k = 4  OBVIOUS
<1>6. CASE k = 1
    <2>1. Edge(r, k) = <<x, y>> /\ Edge(r, k + 1) = <<right, y>>  BY <1>2, <1>6
    <2>2. Short(<<x, y>>, <<right, y>>)  BY <1>1, <1>4, LongerIs
    <2>3. QED  BY <2>1, <2>2
<1>7. CASE k = 2
    <2>1. Edge(r, k) = <<right, y>> /\ Edge(r, k + 1) = <<right, bottom>>  BY <1>2, <1>7
    <2>2. Short(<<right, y>>, <<right, bottom>>)  BY <1>1, <1>4, LongerIs
    <2>3. QED  BY <2>1, <2>2
<1>8. CASE k = 3
    <2>1. Edge(r, k) = <<right, bottom>> /\ Edge(r, k + 1) = <<x, bottom>>  BY <1>2, <1>8
    <2>2. Short(<<right, bottom>>, <<x, bottom>>)  BY <1>1, <1>4, LongerIs
    <2>3. QED  BY <2>1, <2>2
<1>9. CASE k = 4
    <2>1. Edge(r, k) = <<x, bottom>> /\ Edge(r, k + 1) = <<x, y>>  BY <1>2, <1>9
    <2>2. Short(<<x, bottom>>, <<x, y>>)  BY <1>1, <1>4, LongerIs
    <2>3. QED  BY <2>1, <2>2
<1>10. QED  BY <1>5, <1>6, <1>7, <1>8, <1>9

\* The four sides are the outline.
LEMMA SidesAre ==
    ASSUME NEW r, Framed(r)
    PROVE  IsOutline(SidesBefore(r, 5), r)
<1>1. PICK x, y, right, bottom \in Int32 :
          /\ x = r.x /\ y = r.y /\ right = x + r.width - 1 /\ bottom = y + r.height - 1
          /\ x <= right /\ y <= bottom
          /\ Corners(r) = <<<<x, y>>, <<right, y>>, <<right, bottom>>, <<x, bottom>>, <<x, y>>>>
    BY EdgesAre
<1>2. /\ Edge(r, 1) = <<x, y>> /\ Edge(r, 2) = <<right, y>> /\ Edge(r, 3) = <<right, bottom>>
      /\ Edge(r, 4) = <<x, bottom>> /\ Edge(r, 5) = <<x, y>>
    BY <1>1 DEF Edge
<1>3. x \in Int /\ y \in Int /\ right \in Int /\ bottom \in Int  BY <1>1, Ints
<1>4. Side(r, 1) = (x .. right) \X (y .. y)
    <2>1. Edge(r, 1 + 1) = <<right, y>>  BY <1>2
    <2>2. Side(r, 1) = (Least(x, right) .. Greatest(x, right)) \X (Least(y, y) .. Greatest(y, y))
        BY <1>2, <1>3, <2>1, SpanIs DEF Side
    <2>3. Least(x, right) = x /\ Greatest(x, right) = right /\ Least(y, y) = y /\ Greatest(y, y) = y
        BY <1>1, <1>3 DEF Least, Greatest
    <2>4. QED  BY <2>2, <2>3
<1>5. Side(r, 2) = (right .. right) \X (y .. bottom)
    <2>1. Edge(r, 2 + 1) = <<right, bottom>>  BY <1>2
    <2>2. Side(r, 2) = (Least(right, right) .. Greatest(right, right)) \X (Least(y, bottom) .. Greatest(y, bottom))
        BY <1>2, <1>3, <2>1, SpanIs DEF Side
    <2>3. /\ Least(right, right) = right /\ Greatest(right, right) = right
          /\ Least(y, bottom) = y /\ Greatest(y, bottom) = bottom
        BY <1>1, <1>3 DEF Least, Greatest
    <2>4. QED  BY <2>2, <2>3
<1>6. Side(r, 3) = (x .. right) \X (bottom .. bottom)
    <2>1. Edge(r, 3 + 1) = <<x, bottom>>  BY <1>2
    <2>2. Side(r, 3) = (Least(right, x) .. Greatest(right, x)) \X (Least(bottom, bottom) .. Greatest(bottom, bottom))
        BY <1>2, <1>3, <2>1, SpanIs DEF Side
    <2>3. /\ Least(right, x) = x /\ Greatest(right, x) = right
          /\ Least(bottom, bottom) = bottom /\ Greatest(bottom, bottom) = bottom
        BY <1>1, <1>3 DEF Least, Greatest
    <2>4. QED  BY <2>2, <2>3
<1>7. Side(r, 4) = (x .. x) \X (y .. bottom)
    <2>1. Edge(r, 4 + 1) = <<x, y>>  BY <1>2
    <2>2. Side(r, 4) = (Least(x, x) .. Greatest(x, x)) \X (Least(bottom, y) .. Greatest(bottom, y))
        BY <1>2, <1>3, <2>1, SpanIs DEF Side
    <2>3. /\ Least(x, x) = x /\ Greatest(x, x) = x
          /\ Least(bottom, y) = y /\ Greatest(bottom, y) = bottom
        BY <1>1, <1>3 DEF Least, Greatest
    <2>4. QED  BY <2>2, <2>3
<1>8. SidesBefore(r, 5) = Side(r, 1) \cup Side(r, 2) \cup Side(r, 3) \cup Side(r, 4)
    <2>1. 1 .. 5 - 1 = {1, 2, 3, 4}  OBVIOUS
    <2>2. QED  BY <2>1 DEF SidesBefore
<1>9. ASSUME NEW p
      PROVE  p \in SidesBefore(r, 5) <=>
                p \in {q \in (x .. right) \X (y .. bottom) : q[1] \in {x, right} \/ q[2] \in {y, bottom}}
    <2>1. PICK i, j : (p = <<p[1], p[2]>>) => p = <<i, j>>  OBVIOUS
    <2>2. CASE p # <<p[1], p[2]>>  BY <1>4, <1>5, <1>6, <1>7, <1>8, <2>2
    <2>3. CASE p = <<p[1], p[2]>>
        <3>1. PICK u, v : p = <<u, v>>  BY <2>3
        <3>2. /\ p \in Side(r, 1) <=> u \in x .. right /\ v \in y .. y
              /\ p \in Side(r, 2) <=> u \in right .. right /\ v \in y .. bottom
              /\ p \in Side(r, 3) <=> u \in x .. right /\ v \in bottom .. bottom
              /\ p \in Side(r, 4) <=> u \in x .. x /\ v \in y .. bottom
            BY <1>4, <1>5, <1>6, <1>7, <3>1
        <3>3. p \in {q \in (x .. right) \X (y .. bottom) : q[1] \in {x, right} \/ q[2] \in {y, bottom}} <=>
                 u \in x .. right /\ v \in y .. bottom /\ (u \in {x, right} \/ v \in {y, bottom})
            BY <3>1
        <3>4. (u \in x .. right /\ v \in y .. y) \/ (u \in right .. right /\ v \in y .. bottom)
              \/ (u \in x .. right /\ v \in bottom .. bottom) \/ (u \in x .. x /\ v \in y .. bottom)
              <=> u \in x .. right /\ v \in y .. bottom /\ (u \in {x, right} \/ v \in {y, bottom})
            BY <1>1, <1>3
        <3>5. QED  BY <1>8, <3>2, <3>3, <3>4
    <2>4. QED  BY <2>2, <2>3
<1>10. SidesBefore(r, 5) = {q \in (x .. right) \X (y .. bottom) : q[1] \in {x, right} \/ q[2] \in {y, bottom}}
    BY <1>9
<1>11. QED  BY <1>1, <1>10 DEF IsOutline

\* The corners that are left.
Cut(c, s, m, n, S) ==
    /\ c \in Seq(S) /\ Len(c) = n - m + 1
    /\ \A i \in 1 .. n - m + 1 : c[i] = s[m + i - 1]

LEMMA CutIs ==
    ASSUME NEW S, NEW s \in Seq(S), NEW m \in Nat \ {0}, NEW n \in Nat, n = Len(s), m <= n,
           NEW c, c = SubSeq(s, m, n)
    PROVE  Cut(c, s, m, n, S)
<1>1. m \in Int /\ n \in Int  OBVIOUS
<1>2. \A i \in m .. n : s[i] \in S
    <2>1. TAKE i \in m .. n
    <2>2. i \in 1 .. Len(s)  OBVIOUS
    <2>3. QED  BY <2>2
<1>3. /\ SubSeq(s, m, n) \in Seq(S)
      /\ Len(SubSeq(s, m, n)) = IF m <= n THEN n - m + 1 ELSE 0
      /\ \A i \in 1 .. n - m + 1 : SubSeq(s, m, n)[i] = s[m + i - 1]
    BY <1>1, <1>2, SubSeqProperties
<1>4. QED  BY <1>3 DEF Cut

LEMMA CutsAre ==
    ASSUME NEW S, NEW at \in Seq(S), Len(at) = 5, NEW k \in 1 .. 4
    PROVE  LET rest == SubSeq(at, k + 1, 5)
           IN  /\ Len(rest) = 5 - k /\ rest[1] = at[k + 1]
               /\ k < 4 => rest[2] = at[k + 2] /\ Tail(rest) = SubSeq(at, k + 2, 5)
<1>1. PICK n \in Nat : n = 5  OBVIOUS
<1>2. PICK m \in Nat \ {0} : m = k + 1  OBVIOUS
<1>3. PICK rest : rest = SubSeq(at, m, n)  OBVIOUS
<1>4. /\ rest \in Seq(S) /\ Len(rest) = n - m + 1
      /\ \A i \in 1 .. n - m + 1 : rest[i] = at[m + i - 1]
    <2>1. m <= n /\ n = Len(at)  BY <1>1, <1>2
    <2>2. Cut(rest, at, m, n, S)  BY <1>3, <2>1, CutIs
    <2>3. QED  BY <2>2 DEF Cut
<1>5. Len(rest) = 5 - k /\ \A i \in 1 .. 5 - k : rest[i] = at[k + i]
    <2>1. n - m + 1 = 5 - k /\ \A i \in 1 .. 5 - k : m + i - 1 = k + i  BY <1>1, <1>2
    <2>2. QED  BY <1>4, <2>1
<1>6. rest[1] = at[k + 1]
    <2>1. 1 \in 1 .. 5 - k  OBVIOUS
    <2>2. QED  BY <1>5, <2>1
<1>7. ASSUME k < 4 PROVE rest[2] = at[k + 2] /\ Tail(rest) = SubSeq(at, k + 2, 5)
    <2>1. rest[2] = at[k + 2]
        <3>1. 2 \in 1 .. 5 - k  BY <1>7
        <3>2. QED  BY <1>5, <3>1
    <2>2. PICK t : t = Tail(rest)  OBVIOUS
    <2>3. t \in Seq(S) /\ Len(t) = 4 - k /\ \A i \in 1 .. 4 - k : t[i] = rest[i + 1]
        <3>1. rest # <<>>  BY <1>4, <1>5, <1>7
        <3>2. t \in Seq(S) /\ Len(t) = Len(rest) - 1 /\ \A i \in 1 .. Len(t) : t[i] = rest[i + 1]
            BY <1>4, <2>2, <3>1, HeadTailProperties
        <3>3. Len(t) = 4 - k  BY <1>5, <3>2
        <3>4. QED  BY <3>2, <3>3
    <2>4. PICK o \in Nat \ {0} : o = k + 2  OBVIOUS
    <2>5. PICK s : s = SubSeq(at, o, n)  OBVIOUS
    <2>6. /\ s \in Seq(S) /\ Len(s) = n - o + 1
          /\ \A i \in 1 .. n - o + 1 : s[i] = at[o + i - 1]
        <3>1. o <= n /\ n = Len(at)  BY <1>1, <1>7, <2>4
        <3>2. Cut(s, at, o, n, S)  BY <2>5, <3>1, CutIs
        <3>3. QED  BY <3>2 DEF Cut
    <2>7. Len(s) = 4 - k /\ \A i \in 1 .. 4 - k : s[i] = at[k + (i + 1)]
        <3>1. n - o + 1 = 4 - k /\ \A i \in 1 .. 4 - k : o + i - 1 = k + (i + 1)  BY <1>1, <2>4
        <3>2. QED  BY <2>6, <3>1
    <2>8. \A i \in 1 .. 4 - k : s[i] = t[i]
        <3>1. TAKE i \in 1 .. 4 - k
        <3>2. i + 1 \in 1 .. 5 - k  OBVIOUS
        <3>3. rest[i + 1] = at[k + (i + 1)]  BY <1>5, <3>2
        <3>4. QED  BY <2>3, <2>7, <3>3
    <2>9. s = t
        <3>1. Len(s) = Len(t) /\ s \in Seq(S) /\ t \in Seq(S) /\ \A i \in 1 .. Len(s) : s[i] = t[i]
            BY <2>3, <2>6, <2>7, <2>8
        <3>2. QED  BY <3>1
    <2>10. SubSeq(at, k + 2, 5) = s  BY <1>1, <2>4, <2>5
    <2>11. QED  BY <2>1, <2>2, <2>9, <2>10
<1>8. rest = SubSeq(at, k + 1, 5)  BY <1>1, <1>2, <1>3
<1>9. QED  BY <1>5, <1>6, <1>7, <1>8

LEMMA RestIs ==
    ASSUME NEW r, Framed(r), NEW k \in 1 .. 4
    PROVE  LET rest == SubSeq(Corners(r), k + 1, 5)
           IN  /\ Len(rest) = 5 - k /\ rest[1] = Edge(r, k + 1)
               /\ k < 4 => rest[2] = Edge(r, k + 2) /\ Tail(rest) = SubSeq(Corners(r), k + 2, 5)
<1>1. PICK x, y, right, bottom \in Int32 :
          Corners(r) = <<<<x, y>>, <<right, y>>, <<right, bottom>>, <<x, bottom>>, <<x, y>>>>
    BY EdgesAre
<1>2. PICK p1, p2, p3, p4 \in Points :
          p1 = <<x, y>> /\ p2 = <<right, y>> /\ p3 = <<right, bottom>> /\ p4 = <<x, bottom>>
    BY <1>1 DEF Points
<1>3. PICK at \in Seq(Points) : at = Corners(r) /\ Len(at) = 5
    <2>1. Corners(r) = <<p1, p2, p3, p4, p1>>  BY <1>1, <1>2
    <2>2. <<p1, p2, p3, p4, p1>> \in Seq(Points) /\ Len(<<p1, p2, p3, p4, p1>>) = 5  OBVIOUS
    <2>3. QED  BY <2>1, <2>2
<1>4. LET rest == SubSeq(at, k + 1, 5)
      IN  /\ Len(rest) = 5 - k /\ rest[1] = at[k + 1]
          /\ k < 4 => rest[2] = at[k + 2] /\ Tail(rest) = SubSeq(at, k + 2, 5)
    BY <1>3, CutsAre
<1>5. QED  BY <1>3, <1>4 DEF Edge

LEMMA SidesGrow ==
    ASSUME NEW r, NEW k \in 1 .. 4
    PROVE  SidesBefore(r, 1) = {} /\ SidesBefore(r, k + 1) = SidesBefore(r, k) \cup Side(r, k)
<1>1. 1 .. 1 - 1 = {} /\ 1 .. (k + 1) - 1 = (1 .. k - 1) \cup {k}  OBVIOUS
<1>2. QED  BY <1>1 DEF SidesBefore

LEMMA RectBegins ==
    ASSUME CoreInv, NEW c \in Asking, Hands(c), call' = c, loop = Idle
    PROVE  RectShape'
<1>1. SUFFICES ASSUME c.op = "rect", Framed(c.rect)
               PROVE  loop' # Idle /\ RectDrawing(drawn', loop', c.rect)
    BY DEF RectShape
<1>2. PICK r : r = c.rect /\ Framed(r)  BY <1>1
<1>3. PICK l : l = LineFrom(Edge(r, 1), Edge(r, 2), ColorOf(c.color), SubSeq(Corners(r), 2, 5))  OBVIOUS
<1>4. loop' = l /\ drawn' = {}  BY <1>1, <1>2, <1>3 DEF Hands, graphics_draw_rect, Loop, Edge
<1>5. Short(Edge(r, 1), Edge(r, 2))
    <2>1. 1 \in 1 .. 4 /\ 1 + 1 = 2  OBVIOUS
    <2>2. QED  BY <1>2, <2>1, EdgesShort
<1>6. /\ LineDrawing({}, l, Edge(r, 1), Edge(r, 2)) /\ l.rest = SubSeq(Corners(r), 2, 5) /\ l.kind = "line"
    <2>1. Started(l, Edge(r, 1), Edge(r, 2), SubSeq(Corners(r), 2, 5))  BY <1>3, <1>5, LineStarts
    <2>2. QED  BY <2>1 DEF Started
<1>7. SidesBefore(r, 1) = {}
    <2>1. 1 \in 1 .. 4  OBVIOUS
    <2>2. QED  BY <2>1, SidesGrow
<1>8. RectDrawing({}, l, r)
    <2>1. 1 \in 1 .. 4 /\ {} \in SUBSET {} /\ 1 + 1 = 2 /\ {} = {} \cup {}  OBVIOUS
    <2>2. QED  BY <1>6, <1>7, <2>1 DEF RectDrawing
<1>9. l # Idle
    <2>1. Idle.kind = "idle"  BY DEF Idle
    <2>2. QED  BY <1>6, <2>1
<1>10. QED  BY <1>2, <1>4, <1>8, <1>9

LEMMA RectGoesOn ==
    ASSUME CoreInv, RectShape, DuringLoop, LineIteration, call.op = "rect"
    PROVE  RectShape'
<1>1. SUFFICES ASSUME Framed(call.rect)
               PROVE  IF loop' = Idle THEN IsOutline(drawn', call.rect) ELSE RectDrawing(drawn', loop', call.rect)
    BY DEF RectShape, DuringLoop
<1>2. PICK r : r = call.rect /\ Framed(r)  BY <1>1
<1>3. loop # Idle /\ UNCHANGED result  BY DEF DuringLoop
<1>4. PICK l \in LineLoops : l = loop  BY <1>3, LineIs
<1>5. RectDrawing(drawn, l, r)  BY <1>1, <1>2, <1>3, <1>4 DEF RectShape
<1>6. PICK k \in 1 .. 4, T \in SUBSET drawn :
          /\ drawn = SidesBefore(r, k) \cup T
          /\ LineDrawing(T, l, Edge(r, k), Edge(r, k + 1))
          /\ l.rest = SubSeq(Corners(r), k + 1, 5)
    BY <1>5 DEF RectDrawing
<1>7. PICK p : p = <<l.x, l.y>> /\ drawn' = drawn \cup {p}  BY <1>3, <1>4, LineIs DEF Paints
<1>8. PICK a, b : a = Edge(r, k) /\ b = Edge(r, k + 1) /\ Short(a, b) /\ (a[1] = b[1] \/ a[2] = b[2])
    BY <1>2, <1>6, EdgesShort
<1>9. LineDrawing(T, l, a, b)  BY <1>6, <1>8
<1>10. CASE p = l.to
    <2>1. loop' = NextLine(l)  BY <1>3, <1>4, <1>7, <1>10, LineIs
    <2>2. IsLine(T \cup {p}, a, b)
        <3>1. <<l.x, l.y>> = l.to  BY <1>7, <1>10
        <3>2. IsLine(T \cup {<<l.x, l.y>>}, a, b)  BY <1>8, <1>9, <3>1, PathMeets
        <3>3. QED  BY <1>7, <3>2
    <2>3. T \cup {p} = Side(r, k)
        <3>1. a \in Points /\ b \in Points  BY <1>8 DEF Short
        <3>2. T \cup {p} = Span(a, b, 1) \X Span(a, b, 2)  BY <1>8, <2>2, <3>1, SideIsLine
        <3>3. QED  BY <1>8, <3>2 DEF Side
    <2>4. drawn' = SidesBefore(r, k + 1)
        <3>1. SidesBefore(r, k + 1) = SidesBefore(r, k) \cup Side(r, k)  BY <1>6, SidesGrow
        <3>2. drawn' = SidesBefore(r, k) \cup (T \cup {p})  BY <1>6, <1>7
        <3>3. QED  BY <2>3, <3>1, <3>2
    <2>5. /\ Len(l.rest) = 5 - k /\ l.rest[1] = Edge(r, k + 1)
          /\ k < 4 => l.rest[2] = Edge(r, k + 2) /\ Tail(l.rest) = SubSeq(Corners(r), k + 2, 5)
        BY <1>2, <1>6, RestIs
    <2>6. CASE k = 4
        <3>1. Len(l.rest) < 2  BY <2>5, <2>6
        <3>2. loop' = Idle  BY <2>1, <3>1 DEF NextLine
        <3>3. k + 1 = 5  BY <2>6
        <3>4. IsOutline(drawn', r)  BY <1>2, <2>4, <3>3, SidesAre
        <3>5. QED  BY <1>2, <3>2, <3>4
    <2>7. CASE k < 4
        <3>1. ~(Len(l.rest) < 2)  BY <1>6, <2>5, <2>7
        <3>2. PICK n \in 1 .. 4 : n = k + 1 /\ n + 1 = k + 2  BY <1>6, <2>7
        <3>3. PICK e, f : e = Edge(r, n) /\ f = Edge(r, n + 1) /\ Short(e, f)  BY <1>2, <3>2, EdgesShort
        <3>4. loop' = LineFrom(e, f, l.color, SubSeq(Corners(r), n + 1, 5))
            BY <2>1, <2>5, <2>7, <3>1, <3>2, <3>3 DEF NextLine
        <3>5. /\ LineDrawing({}, loop', e, f) /\ loop'.rest = SubSeq(Corners(r), n + 1, 5) /\ loop'.kind = "line"
            <4>1. Started(loop', e, f, SubSeq(Corners(r), n + 1, 5))  BY <3>3, <3>4, LineStarts
            <4>2. QED  BY <4>1 DEF Started
        <3>6. RectDrawing(drawn', loop', r)
            <4>1. drawn' = SidesBefore(r, n) \cup {} /\ {} \in SUBSET (drawn')  BY <2>4, <3>2
            <4>2. QED  BY <3>2, <3>3, <3>5, <4>1 DEF RectDrawing
        <3>7. loop' # Idle
            <4>1. Idle.kind = "idle"  BY DEF Idle
            <4>2. QED  BY <3>5, <4>1
        <3>8. QED  BY <1>2, <3>6, <3>7
    <2>8. QED  BY <1>6, <2>6, <2>7
<1>11. CASE p # l.to
    <2>1. loop' = LineStep(l)  BY <1>3, <1>4, <1>7, <1>11, LineIs
    <2>2. <<l.x, l.y>> # l.to  BY <1>7, <1>11
    <2>3. Turned(T, l, a, b)  BY <1>8, <1>9, <2>2, PathTurns
    <2>4. LineDrawing(T \cup {p}, loop', a, b) /\ loop'.rest = l.rest /\ loop'.kind = "line"
        BY <1>7, <2>1, <2>3 DEF Turned
    <2>5. RectDrawing(drawn', loop', r)
        <3>1. drawn' = SidesBefore(r, k) \cup (T \cup {p}) /\ T \cup {p} \in SUBSET (drawn')  BY <1>6, <1>7
        <3>2. QED  BY <1>6, <1>8, <2>4, <3>1 DEF RectDrawing
    <2>6. loop' # Idle
        <3>1. Idle.kind = "idle"  BY DEF Idle
        <3>2. QED  BY <2>4, <3>1
    <2>7. QED  BY <1>2, <2>5, <2>6
<1>12. QED  BY <1>10, <1>11

LEMMA RectKept == ASSUME CoreInv, RectShape, [VixNext]_vixVars PROVE RectShape'
<1>1. CASE UNCHANGED vixVars  BY <1>1 DEF vixVars, vars, RectShape
<1>2. CASE VixNext /\ \E c \in Asking : Hands(c) /\ call' = c /\ loop = Idle  BY <1>2, RectBegins
<1>3. CASE DuringLoop /\ call.op # "rect"  BY <1>3 DEF DuringLoop, RectShape
<1>4. CASE DuringLoop /\ LineIteration /\ call.op = "rect"  BY <1>4, RectGoesOn
<1>5. QED  BY <1>1, <1>2, <1>3, <1>4, StepIs

----------------------------------------------------------------------------
(* A circle: the number the loop reckons with tells how far the pixel is     *)
(* from the circle, and stays within a few times its coordinates.            *)
Reckoned(x, y, d, r) ==
    /\ d = 2 * (SquareOf(x) + SquareOf(y)) + 8 * x - 6 * y + 4 * r - 2 * SquareOf(r) + 3
    /\ y >= x + 2 => d <= 4 * x + 6
    /\ d <= 4 * x + 12
    /\ d > 4 * x + 6 => y < r /\ x >= 1
    /\ y = r \/ d >= 11 - 4 * (y - x)
    /\ x = 0 => y = r
Reckons(x, y, d, x2, y2, d2) ==
    /\ x2 = x + 1 /\ y2 = (IF d > 0 THEN y - 1 ELSE y)
    /\ d2 = d + (IF d > 0 THEN 4 * (x2 - y2) + 10 ELSE 4 * x2 + 6)
OnCircle(x, y, r) ==
    /\ 4 * (SquareOf(x) + SquareOf(y)) < SquareOf(2 * r + 1)
    /\ r > 1 => 4 * (SquareOf(x) + SquareOf(y)) > SquareOf(2 * r - 3)

LEMMA SquareSteps ==
    ASSUME NEW a \in Int
    PROVE  \E s \in Nat : /\ s = SquareOf(a) /\ SquareOf(a + 1) = s + 2 * a + 1 /\ SquareOf(a - 1) = s - 2 * a + 1
                          /\ SquareOf(2 * a + 1) = 4 * s + 4 * a + 1 /\ SquareOf(2 * a - 3) = 4 * s - 12 * a + 9
<1>1. PICK s \in Nat : s = SquareOf(a) /\ s = a * a  BY SquareIs
<1>2. /\ (a + 1) * (a + 1) = a * a + 2 * a + 1 /\ (a - 1) * (a - 1) = a * a - 2 * a + 1
      /\ (2 * a + 1) * (2 * a + 1) = 4 * (a * a) + 4 * a + 1
      /\ (2 * a - 3) * (2 * a - 3) = 4 * (a * a) - 12 * a + 9
    OBVIOUS
<1>3. QED  BY <1>1, <1>2 DEF SquareOf

LEMMA ReckoningStarts == ASSUME NEW r \in Nat PROVE Reckoned(0, r, 3 - 2 * r, r)
<1>1. SquareOf(0) = 0  BY DEF SquareOf
<1>2. PICK s \in Nat : s = SquareOf(r)  BY SquareIs
<1>3. /\ 3 - 2 * r = 2 * (0 + s) + 8 * 0 - 6 * r + 4 * r - 2 * s + 3
      /\ 3 - 2 * r <= 4 * 0 + 6 /\ 3 - 2 * r <= 4 * 0 + 12
    OBVIOUS
<1>4. QED  BY <1>1, <1>2, <1>3 DEF Reckoned

LEMMA ReckoningGoesOn ==
    ASSUME NEW r \in Nat, NEW x \in Nat, NEW y \in Nat, x <= y, y <= r, NEW d \in Int, Reckoned(x, y, d, r),
           NEW x2 \in Int, NEW y2 \in Int, NEW d2 \in Int, Reckons(x, y, d, x2, y2, d2), x2 <= y2
    PROVE  Reckoned(x2, y2, d2, r)
<1>1. PICK s, t, u \in Nat : /\ s = SquareOf(x) /\ SquareOf(x + 1) = s + 2 * x + 1
                             /\ t = SquareOf(y) /\ SquareOf(y - 1) = t - 2 * y + 1
                             /\ u = SquareOf(r)
    <2>1. PICK s \in Nat : s = SquareOf(x) /\ SquareOf(x + 1) = s + 2 * x + 1  BY SquareSteps
    <2>2. PICK t \in Nat : t = SquareOf(y) /\ SquareOf(y - 1) = t - 2 * y + 1  BY SquareSteps
    <2>3. PICK u \in Nat : u = SquareOf(r)  BY SquareIs
    <2>4. QED  BY <2>1, <2>2, <2>3
<1>2. /\ d = 2 * (s + t) + 8 * x - 6 * y + 4 * r - 2 * u + 3
      /\ y >= x + 2 => d <= 4 * x + 6
      /\ d <= 4 * x + 12
      /\ d > 4 * x + 6 => y < r /\ x >= 1
      /\ y = r \/ d >= 11 - 4 * (y - x)
    BY <1>1 DEF Reckoned
<1>3. CASE d > 0
    <2>1. x2 = x + 1 /\ y2 = y - 1 /\ d2 = d + (4 * (x2 - y2) + 10)  BY <1>3 DEF Reckons
    <2>2. PICK s2, t2 \in Int : s2 = SquareOf(x2) /\ t2 = SquareOf(y2) /\ s2 = s + 2 * x + 1 /\ t2 = t - 2 * y + 1
        <3>1. s + 2 * x + 1 \in Int /\ t - 2 * y + 1 \in Int  OBVIOUS
        <3>2. QED  BY <1>1, <2>1, <3>1
    <2>3. d2 = 2 * (s2 + t2) + 8 * x2 - 6 * y2 + 4 * r - 2 * u + 3  BY <1>2, <2>1, <2>2
    <2>4. /\ y2 >= x2 + 2 => d2 <= 4 * x2 + 6
          /\ d2 <= 4 * x2 + 12
          /\ y2 < r /\ x2 >= 1
          /\ d2 >= 11 - 4 * (y2 - x2)
        BY <1>2, <1>3, <2>1
    <2>5. QED  BY <1>1, <2>1, <2>2, <2>3, <2>4 DEF Reckoned
<1>4. CASE ~(d > 0)
    <2>1. x2 = x + 1 /\ y2 = y /\ d2 = d + (4 * x2 + 6)  BY <1>4 DEF Reckons
    <2>2. PICK s2 \in Int : s2 = SquareOf(x2) /\ s2 = s + 2 * x + 1
        <3>1. s + 2 * x + 1 \in Int  OBVIOUS
        <3>2. QED  BY <1>1, <2>1, <3>1
    <2>3. d2 = 2 * (s2 + t) + 8 * x2 - 6 * y2 + 4 * r - 2 * u + 3  BY <1>2, <2>1, <2>2
    <2>4. /\ d2 <= 4 * x2 + 6
          /\ y2 = r \/ d2 >= 11 - 4 * (y2 - x2)
          /\ x2 >= 1
        BY <1>2, <1>4, <2>1
    <2>5. QED  BY <1>1, <2>1, <2>2, <2>3, <2>4 DEF Reckoned
<1>5. QED  BY <1>3, <1>4

\* The pixel is on the circle, and the reckoning in ints.
LEMMA ReckonedIsNear ==
    ASSUME NEW r \in Nat, NEW x \in Nat, NEW y \in Nat, x <= y, y <= r, NEW d \in Int, Reckoned(x, y, d, r)
    PROVE  OnCircle(x, y, r)
<1>1. PICK s, t \in Nat : s = SquareOf(x) /\ t = SquareOf(y)  BY SquareIs
<1>2. PICK u \in Nat : u = SquareOf(r) /\ SquareOf(2 * r + 1) = 4 * u + 4 * r + 1
                       /\ SquareOf(2 * r - 3) = 4 * u - 12 * r + 9
    BY SquareSteps
<1>3. /\ d = 2 * (s + t) + 8 * x - 6 * y + 4 * r - 2 * u + 3
      /\ d <= 4 * x + 12
      /\ d > 4 * x + 6 => y < r /\ x >= 1
      /\ y = r \/ d >= 11 - 4 * (y - x)
      /\ x = 0 => y = r
    BY <1>1, <1>2 DEF Reckoned
<1>4. 4 * (s + t) < 4 * u + 4 * r + 1
    <2>1. CASE x = 0
        <3>1. s = 0 /\ t = u  BY <1>1, <1>2, <1>3, <2>1 DEF SquareOf
        <3>2. QED  BY <3>1
    <2>2. CASE x # 0 /\ d > 4 * x + 6  BY <1>3, <2>2
    <2>3. CASE x # 0 /\ ~(d > 4 * x + 6)  BY <1>3, <2>3
    <2>4. QED  BY <2>1, <2>2, <2>3
<1>5. ASSUME r > 1 PROVE 4 * (s + t) > 4 * u - 12 * r + 9
    <2>1. CASE y = r
        <3>1. t = u  BY <1>1, <1>2, <2>1
        <3>2. QED  BY <1>5, <3>1
    <2>2. CASE y # r  BY <1>3, <1>5, <2>2
    <2>3. QED  BY <2>1, <2>2
<1>6. QED  BY <1>1, <1>2, <1>4, <1>5 DEF OnCircle

LEMMA ReckonedIsInt ==
    ASSUME NEW r \in Nat, 4 * r + 64 <= IntMax, NEW x \in Nat, NEW y \in Nat, x <= y, y <= r,
           NEW d \in Int, Reckoned(x, y, d, r),
           NEW x2 \in Int, NEW y2 \in Int, NEW d2 \in Int, Reckons(x, y, d, x2, y2, d2)
    PROVE  x2 \in Int32 /\ d2 \in Int32
<1>1. PICK s, t, u \in Nat : s = SquareOf(x) /\ t = SquareOf(y) /\ u = SquareOf(r)  BY SquareIs
<1>2. /\ d = 2 * (s + t) + 8 * x - 6 * y + 4 * r - 2 * u + 3
      /\ d <= 4 * x + 12
      /\ y = r \/ d >= 11 - 4 * (y - x)
    BY <1>1 DEF Reckoned
<1>3. d >= -4 * r
    <2>1. CASE y = r
        <3>1. t = u  BY <1>1, <2>1
        <3>2. QED  BY <1>2, <2>1, <3>1
    <2>2. CASE y # r  BY <1>2, <2>2
    <2>3. QED  BY <2>1, <2>2
<1>4. x2 = x + 1 /\ y2 \in {y, y - 1} /\ (d > 0 => d2 = d + 4 * (x2 - y2) + 10) /\ (~(d > 0) => d2 = d + 4 * x2 + 6)
    BY DEF Reckons
<1>5. IntMax \in Nat  BY IntMaxIs
<1>6. -IntMax - 1 <= x2 /\ x2 <= IntMax  BY <1>4, <1>5
<1>7. -IntMax - 1 <= d2 /\ d2 <= IntMax
    <2>1. CASE d > 0  BY <1>2, <1>4, <1>5, <2>1
    <2>2. CASE ~(d > 0)  BY <1>3, <1>4, <1>5, <2>2
    <2>3. QED  BY <2>1, <2>2
<1>8. QED  BY <1>6, <1>7, SmallInts

\* The ring of the first n columns: Y[k] is how far up the k-th reaches, and the other
\* seven octants are its mirror images.
Reaches(y, k, u, v) == (Abs(u) = k /\ Abs(v) = y) \/ (Abs(u) = y /\ Abs(v) = k)
OnRing(Y, n, u, v) == \E k \in 0 .. n - 1 : Reaches(Y[k], k, u, v)
Ring(a, b, Y, n) == {p \in Int \X Int : OnRing(Y, n, p[1] - a, p[2] - b)}
Descent(Y, n, r) ==
    /\ Y \in [0 .. n -> Int] /\ Y[0] = r
    /\ \A k \in 0 .. n - 1 : k <= Y[k] /\ Y[k] <= r /\ Y[k + 1] \in {Y[k], Y[k] - 1} /\ OnCircle(k, Y[k], r)

Beside(u, v, u1, v1) == u1 - u \in -1 .. 1 /\ v1 - v \in -1 .. 1 /\ (u1 # u \/ v1 # v)
Two(Y, n, u, v, u1, v1, u2, v2) ==
    /\ OnRing(Y, n, u1, v1) /\ OnRing(Y, n, u2, v2) /\ (u1 # u2 \/ v1 # v2)
    /\ Beside(u, v, u1, v1) /\ Beside(u, v, u2, v2)
HasTwo(Y, n, u, v) == \E u1, v1, u2, v2 \in Int : Two(Y, n, u, v, u1, v1, u2, v2)

LEMMA RingTurns ==
    ASSUME NEW Y, NEW n, NEW u \in Int, NEW v \in Int, OnRing(Y, n, u, v)
    PROVE  OnRing(Y, n, -u, v) /\ OnRing(Y, n, u, -v) /\ OnRing(Y, n, v, u)
<1>1. PICK k \in 0 .. n - 1 : Reaches(Y[k], k, u, v)  BY DEF OnRing
<1>2. Reaches(Y[k], k, -u, v) /\ Reaches(Y[k], k, u, -v) /\ Reaches(Y[k], k, v, u)
    <2>1. Abs(-u) = Abs(u) /\ Abs(-v) = Abs(v)  BY DEF Abs
    <2>2. QED  BY <1>1, <2>1 DEF Reaches
<1>3. QED  BY <1>1, <1>2 DEF OnRing

LEMMA TwoTurn ==
    ASSUME NEW Y, NEW n, NEW u \in Int, NEW v \in Int, HasTwo(Y, n, u, v)
    PROVE  HasTwo(Y, n, -u, v) /\ HasTwo(Y, n, u, -v) /\ HasTwo(Y, n, v, u)
<1>1. PICK u1, v1, u2, v2 \in Int : Two(Y, n, u, v, u1, v1, u2, v2)  BY DEF HasTwo
<1>2. /\ OnRing(Y, n, u1, v1) /\ OnRing(Y, n, u2, v2) /\ (u1 # u2 \/ v1 # v2)
      /\ Beside(u, v, u1, v1) /\ Beside(u, v, u2, v2)
    BY <1>1 DEF Two
<1>3. /\ Beside(-u, v, -u1, v1) /\ Beside(u, -v, u1, -v1) /\ Beside(v, u, v1, u1)
      /\ Beside(-u, v, -u2, v2) /\ Beside(u, -v, u2, -v2) /\ Beside(v, u, v2, u2)
    BY <1>1, <1>2 DEF Beside
<1>4. /\ OnRing(Y, n, -u1, v1) /\ OnRing(Y, n, u1, -v1) /\ OnRing(Y, n, v1, u1)
      /\ OnRing(Y, n, -u2, v2) /\ OnRing(Y, n, u2, -v2) /\ OnRing(Y, n, v2, u2)
    BY <1>1, <1>2, RingTurns
<1>5. PICK m1, m2, w1, w2 \in Int : m1 = -u1 /\ m2 = -u2 /\ w1 = -v1 /\ w2 = -v2  BY <1>1
<1>6. m1 # m2 \/ v1 # v2  BY <1>1, <1>2, <1>5
<1>7. u1 # u2 \/ w1 # w2  BY <1>1, <1>2, <1>5
<1>8. Two(Y, n, -u, v, m1, v1, m2, v2)  BY <1>3, <1>4, <1>5, <1>6 DEF Two
<1>9. Two(Y, n, u, -v, u1, w1, u2, w2)  BY <1>3, <1>4, <1>5, <1>7 DEF Two
<1>10. Two(Y, n, v, u, v1, u1, v2, u2)  BY <1>2, <1>3, <1>4 DEF Two
<1>11. QED  BY <1>1, <1>5, <1>8, <1>9, <1>10 DEF HasTwo

\* A closed ring: each pixel of a column has one on either side.
LEMMA ColumnHasTwo ==
    ASSUME NEW n \in Nat, NEW r \in Nat, r > 0, NEW Y, Descent(Y, n, r), Y[n] < n, NEW k \in 0 .. n - 1
    PROVE  HasTwo(Y, n, k, Y[k])
<1>1. /\ \A i \in 0 .. n : Y[i] \in Int
      /\ Y[0] = r
      /\ \A i \in 0 .. n - 1 : i <= Y[i] /\ Y[i] <= r /\ Y[i + 1] \in {Y[i], Y[i] - 1}
    BY DEF Descent
<1>2. \A i \in 0 .. n - 1 : OnRing(Y, n, i, Y[i]) /\ OnRing(Y, n, -i, Y[i])
    <2>1. TAKE i \in 0 .. n - 1
    <2>2. PICK y \in Int : y = Y[i] /\ i <= y  BY <1>1
    <2>3. Reaches(y, i, i, y) /\ Reaches(y, i, -i, y)  BY <2>2 DEF Abs, Reaches
    <2>4. QED  BY <2>2, <2>3 DEF OnRing
<1>3. \A i \in 0 .. n - 1 : OnRing(Y, n, Y[i], i) /\ OnRing(Y, n, Y[i], -i) /\ OnRing(Y, n, -Y[i], i)
    <2>1. TAKE i \in 0 .. n - 1
    <2>2. PICK y \in Int : y = Y[i] /\ i <= y  BY <1>1
    <2>3. OnRing(Y, n, i, y) /\ i \in Int  BY <1>2, <2>2
    <2>4. OnRing(Y, n, y, i)  BY <2>2, <2>3, RingTurns
    <2>5. OnRing(Y, n, y, -i) /\ OnRing(Y, n, -y, i)  BY <2>2, <2>3, <2>4, RingTurns
    <2>6. QED  BY <2>2, <2>4, <2>5
<1>4. PICK y \in Int : y = Y[k] /\ k <= y  BY <1>1
\* The one before,
<1>5. PICK u1, v1 \in Int : /\ OnRing(Y, n, u1, v1) /\ Beside(k, y, u1, v1)
                            /\ k > 0 => u1 = k - 1
                            /\ k = 0 /\ n > 1 => u1 = -1
                            /\ k = 0 /\ n = 1 => u1 = -1 /\ v1 = 0
    <2>1. CASE k > 0
        <3>1. PICK i \in 0 .. n - 1 : i = k - 1  BY <2>1
        <3>2. PICK z \in Int : z = Y[i]  BY <1>1, <3>1
        <3>3. Y[i + 1] \in {Y[i], Y[i] - 1} /\ i + 1 = k  BY <1>1, <3>1
        <3>4. Beside(k, y, i, z)  BY <1>4, <3>1, <3>2, <3>3 DEF Beside
        <3>5. OnRing(Y, n, i, z)  BY <1>2, <3>1, <3>2
        <3>6. QED  BY <2>1, <3>1, <3>2, <3>4, <3>5
    <2>2. CASE k = 0 /\ n > 1
        <3>1. 1 \in 0 .. n - 1 /\ 0 \in 0 .. n - 1  BY <2>2
        <3>2. PICK z \in Int : z = Y[1]  BY <1>1, <3>1
        <3>3. z \in {y, y - 1}  BY <1>1, <1>4, <2>2, <3>1, <3>2
        <3>4. Beside(k, y, -1, z)  BY <1>4, <2>2, <3>2, <3>3 DEF Beside
        <3>5. OnRing(Y, n, -1, z)  BY <1>2, <3>1, <3>2
        <3>6. QED  BY <2>2, <3>2, <3>4, <3>5
    <2>3. CASE k = 0 /\ n = 1
        <3>1. y = 1
            <4>1. y = r /\ Y[1] \in {y, y - 1} /\ Y[1] < 1  BY <1>1, <1>4, <2>3
            <4>2. QED  BY <4>1
        <3>2. Beside(k, y, -1, 0)  BY <2>3, <3>1 DEF Beside
        <3>3. OnRing(Y, n, -1, 0)
            <4>1. OnRing(Y, n, -Y[k], k)  BY <1>3
            <4>2. -Y[k] = -1 /\ k = 0  BY <1>4, <2>3, <3>1
            <4>3. QED  BY <4>1, <4>2
        <3>4. -1 \in Int /\ 0 \in Int  OBVIOUS
        <3>5. QED  BY <2>3, <3>2, <3>3, <3>4
    <2>4. n >= 1  OBVIOUS
    <2>5. QED  BY <2>1, <2>2, <2>3, <2>4
\* and the one after: in the last column the mirror image of a pixel of it or of the one before.
<1>6. PICK u2, v2 \in Int : /\ OnRing(Y, n, u2, v2) /\ Beside(k, y, u2, v2)
                            /\ \/ u2 = k + 1
                               \/ u2 >= k /\ k > 0
    <2>1. CASE k < n - 1
        <3>1. PICK i \in 0 .. n - 1 : i = k + 1  BY <2>1
        <3>2. PICK z \in Int : z = Y[i]  BY <1>1, <3>1
        <3>3. Y[k + 1] \in {Y[k], Y[k] - 1}  BY <1>1
        <3>4. Beside(k, y, i, z)  BY <1>4, <3>1, <3>2, <3>3 DEF Beside
        <3>5. OnRing(Y, n, i, z)  BY <1>2, <3>1, <3>2
        <3>6. QED  BY <3>1, <3>2, <3>4, <3>5
    <2>2. CASE k = n - 1
        <3>1. y \in {k, k + 1}
            <4>1. Y[k + 1] \in {y, y - 1} /\ k + 1 = n /\ Y[n] < n  BY <1>1, <1>4, <2>2
            <4>2. QED  BY <1>4, <4>1
        <3>2. CASE y = k + 1
            <4>1. Beside(k, y, y, k)  BY <3>2 DEF Beside
            <4>2. OnRing(Y, n, y, k)  BY <1>3, <1>4
            <4>3. QED  BY <1>4, <3>2, <4>1, <4>2
        <3>3. CASE y = k
            <4>1. k > 0
                <5>1. CASE k = 0  BY <1>1, <1>4, <3>3, <5>1
                <5>2. QED  BY <5>1
            <4>2. PICK i \in 0 .. n - 1 : i = k - 1  BY <4>1
            <4>3. PICK z \in Int : z = Y[i]  BY <1>1, <4>2
            <4>4. Y[i + 1] \in {Y[i], Y[i] - 1} /\ i + 1 = k  BY <1>1, <4>2
            <4>5. z \in {k, k + 1}
                <5>1. k \in {z, z - 1}  BY <1>4, <3>3, <4>3, <4>4
                <5>2. QED  BY <4>3, <5>1
            <4>6. Beside(k, y, z, i)  BY <3>3, <4>2, <4>5 DEF Beside
            <4>7. OnRing(Y, n, z, i)  BY <1>3, <4>2, <4>3
            <4>8. z >= k  BY <4>5
            <4>9. QED  BY <4>1, <4>2, <4>3, <4>6, <4>7, <4>8
        <3>4. QED  BY <3>1, <3>2, <3>3
    <2>3. QED  BY <2>1, <2>2
<1>7. u1 # u2
    <2>1. CASE k > 0  BY <1>5, <1>6, <2>1
    <2>2. CASE k = 0
        <3>1. n > 1 \/ n = 1  OBVIOUS
        <3>2. u1 = -1 /\ u2 = 1  BY <1>5, <1>6, <2>2, <3>1
        <3>3. QED  BY <3>2
    <2>3. QED  BY <2>1, <2>2
<1>8. Two(Y, n, k, y, u1, v1, u2, v2)  BY <1>5, <1>6, <1>7 DEF Two
<1>9. QED  BY <1>4, <1>5, <1>6, <1>8 DEF HasTwo

LEMMA RingHasTwo ==
    ASSUME NEW n \in Nat, NEW r \in Nat, r > 0, NEW Y, Descent(Y, n, r), Y[n] < n,
           NEW u \in Int, NEW v \in Int, OnRing(Y, n, u, v)
    PROVE  HasTwo(Y, n, u, v)
<1>1. PICK k \in 0 .. n - 1 : (Abs(u) = k /\ Abs(v) = Y[k]) \/ (Abs(u) = Y[k] /\ Abs(v) = k)  BY DEF OnRing, Reaches
<1>2. PICK y \in Int : y = Y[k]  BY DEF Descent
<1>3. HasTwo(Y, n, k, y)  BY <1>2, ColumnHasTwo
<1>4. HasTwo(Y, n, y, k)  BY <1>2, <1>3, TwoTurn
<1>5. ASSUME NEW i \in Int, NEW j \in Int, HasTwo(Y, n, i, j)
      PROVE  HasTwo(Y, n, -i, j) /\ HasTwo(Y, n, i, -j) /\ HasTwo(Y, n, -i, -j)
    <2>1. HasTwo(Y, n, -i, j) /\ HasTwo(Y, n, i, -j)  BY <1>5, TwoTurn
    <2>2. PICK m \in Int : m = -i  BY <1>5
    <2>3. HasTwo(Y, n, m, -j)  BY <1>5, <2>1, <2>2, TwoTurn
    <2>4. QED  BY <2>1, <2>2, <2>3
<1>6. PICK i, j \in Int : Abs(u) = i /\ Abs(v) = j /\ HasTwo(Y, n, i, j)  BY <1>1, <1>2, <1>3, <1>4
<1>7. u \in {i, -i} /\ v \in {j, -j}  BY <1>6 DEF Abs
<1>8. QED  BY <1>5, <1>6, <1>7

LEMMA RingIn ==
    ASSUME NEW n \in Nat, NEW r \in Nat, NEW Y, Descent(Y, n, r), NEW a \in Int, NEW b \in Int
    PROVE  IsFiniteSet(Ring(a, b, Y, n))
<1>1. ASSUME NEW p \in Ring(a, b, Y, n) PROVE p \in (a - r .. a + r) \X (b - r .. b + r)
    <2>1. PICK i, j \in Int : p = <<i, j>> /\ OnRing(Y, n, i - a, j - b)  BY DEF Ring
    <2>2. PICK u, v \in Int : u = i - a /\ v = j - b  BY <2>1
    <2>3. PICK k \in 0 .. n - 1 : (Abs(u) = k /\ Abs(v) = Y[k]) \/ (Abs(u) = Y[k] /\ Abs(v) = k)
        BY <2>1, <2>2 DEF OnRing, Reaches
    <2>4. PICK y \in Int : y = Y[k] /\ k <= y /\ y <= r  BY DEF Descent
    <2>5. Abs(u) <= r /\ Abs(v) <= r  BY <2>3, <2>4
    <2>6. -r <= u /\ u <= r /\ -r <= v /\ v <= r  BY <2>2, <2>5 DEF Abs
    <2>7. i \in a - r .. a + r /\ j \in b - r .. b + r  BY <2>1, <2>2, <2>6
    <2>8. QED  BY <2>1, <2>7
<1>2. IsFiniteSet(a - r .. a + r) /\ IsFiniteSet(b - r .. b + r)
    <2>1. a - r \in Int /\ a + r \in Int /\ b - r \in Int /\ b + r \in Int  OBVIOUS
    <2>2. QED  BY <2>1, FS_Interval
<1>3. IsFiniteSet((a - r .. a + r) \X (b - r .. b + r))  BY <1>2, FS_Product
<1>4. Ring(a, b, Y, n) \in SUBSET ((a - r .. a + r) \X (b - r .. b + r))  BY <1>1
<1>5. QED  BY <1>3, <1>4, FS_Subset

LEMMA BesideIs ==
    ASSUME NEW i \in Int, NEW j \in Int, NEW i1 \in Int, NEW j1 \in Int, Beside(i, j, i1, j1)
    PROVE  Apart(<<i, j>>, <<i1, j1>>) \in {1, 2}
<1>1. PICK e, f \in -1 .. 1 : e = i - i1 /\ f = j - j1 /\ (e # 0 \/ f # 0)
    <2>1. i - i1 \in -1 .. 1 /\ j - j1 \in -1 .. 1 /\ (i - i1 # 0 \/ j - j1 # 0)  BY DEF Beside
    <2>2. QED  BY <2>1
<1>2. \A g \in -1 .. 1 : SquareOf(g) = IF g = 0 THEN 0 ELSE 1
    <2>1. SquareOf(0) = 0 /\ SquareOf(1) = 1 /\ SquareOf(-1) = 1  BY DEF SquareOf
    <2>2. \A g \in -1 .. 1 : g = 0 \/ g = 1 \/ g = -1  OBVIOUS
    <2>3. QED  BY <2>1, <2>2
<1>3. Apart(<<i, j>>, <<i1, j1>>) = SquareOf(e) + SquareOf(f)  BY <1>1 DEF Apart
<1>4. QED  BY <1>1, <1>2, <1>3

LEMMA AtLeastTwo ==
    ASSUME NEW N, IsFiniteSet(N), NEW q1 \in N, NEW q2 \in N, q1 # q2
    PROVE  Cardinality(N) >= 2
<1>1. IsFiniteSet({q1}) /\ Cardinality({q1}) = 1  BY FS_Singleton
<1>2. {q1} \cup {q2} \in SUBSET N /\ q2 \notin {q1}  OBVIOUS
<1>3. Cardinality({q1} \cup {q2}) = 2  BY <1>1, <1>2, FS_AddElement
<1>4. Cardinality({q1} \cup {q2}) <= Cardinality(N) /\ Cardinality(N) \in Nat
    BY <1>2, FS_Subset, FS_CardinalityType
<1>5. QED  BY <1>3, <1>4

LEMMA RingIsCircle ==
    ASSUME NEW n \in Nat, NEW r \in Nat, NEW Y, Descent(Y, n, r), Y[n] < n, NEW a \in Int, NEW b \in Int,
           NEW center, center = <<a, b>>
    PROVE  IsCircle(Ring(a, b, Y, n), center, r)
<1>1. PICK S : S = Ring(a, b, Y, n)  OBVIOUS
<1>0. <<center[1], center[2] + r>> \in S
    <2>1. 0 \in 0 .. n - 1 /\ Y[0] = r
        <3>1. Y[0] = r  BY DEF Descent
        <3>2. n # 0
            <4>1. CASE n = 0  BY <3>1, <4>1
            <4>2. QED  BY <4>1
        <3>3. QED  BY <3>1, <3>2
    <2>2. Reaches(r, 0, 0, r)  BY DEF Reaches, Abs
    <2>3. OnRing(Y, n, 0, r)  BY <2>1, <2>2 DEF OnRing
    <2>4. PICK j \in Int : j = b + r
        <3>1. b + r \in Int  OBVIOUS
        <3>2. QED  BY <3>1
    <2>5. a - a = 0 /\ j - b = r  BY <2>4
    <2>6. <<a, j>> \in S  BY <1>1, <2>3, <2>5 DEF Ring
    <2>7. QED  BY <2>4, <2>6
<1>2. SUFFICES ASSUME NEW p \in S
               PROVE  /\ 4 * Apart(p, center) < SquareOf(2 * r + 1)
                      /\ r > 1 => 4 * Apart(p, center) > SquareOf(2 * r - 3)
                      /\ r > 0 => Cardinality({q \in S : Apart(p, q) \in {1, 2}}) >= 2
                      /\ {<<2 * center[1] - p[1], p[2]>>, <<p[1], 2 * center[2] - p[2]>>} \subseteq S
    BY <1>0, <1>1 DEF IsCircle
<1>3. PICK i, j \in Int : p = <<i, j>> /\ OnRing(Y, n, i - a, j - b)  BY <1>1, <1>2 DEF Ring
<1>4. PICK u, v \in Int : u = i - a /\ v = j - b  BY <1>3
<1>5. OnRing(Y, n, u, v)  BY <1>3, <1>4
<1>6. PICK k \in 0 .. n - 1 : (Abs(u) = k /\ Abs(v) = Y[k]) \/ (Abs(u) = Y[k] /\ Abs(v) = k)
    BY <1>5 DEF OnRing, Reaches
<1>7. PICK y \in Int : y = Y[k] /\ OnCircle(k, y, r)  BY DEF Descent
<1>8. Apart(p, center) = SquareOf(k) + SquareOf(y)
    <2>1. Apart(p, center) = SquareOf(u) + SquareOf(v)  BY <1>3, <1>4 DEF Apart
    <2>2. PICK g, h \in Nat : g = SquareOf(u) /\ h = SquareOf(v) /\ g = SquareOf(-u) /\ h = SquareOf(-v)
        BY SquareIs
    <2>3. SquareOf(Abs(u)) = g /\ SquareOf(Abs(v)) = h  BY <2>2 DEF Abs
    <2>4. CASE Abs(u) = k /\ Abs(v) = y  BY <2>1, <2>2, <2>3, <2>4
    <2>5. CASE Abs(u) = y /\ Abs(v) = k
        <3>1. SquareOf(k) + SquareOf(y) = h + g  BY <2>3, <2>5
        <3>2. QED  BY <2>1, <2>2, <3>1
    <2>6. QED  BY <1>6, <1>7, <2>4, <2>5
<1>9. /\ 4 * Apart(p, center) < SquareOf(2 * r + 1)
      /\ r > 1 => 4 * Apart(p, center) > SquareOf(2 * r - 3)
    BY <1>7, <1>8 DEF OnCircle
<1>10. ASSUME r > 0 PROVE Cardinality({q \in S : Apart(p, q) \in {1, 2}}) >= 2
    <2>1. PICK u1, v1, u2, v2 \in Int : Two(Y, n, u, v, u1, v1, u2, v2)
        <3>1. HasTwo(Y, n, u, v)  BY <1>4, <1>5, <1>10, RingHasTwo
        <3>2. QED  BY <3>1 DEF HasTwo
    <2>2. /\ OnRing(Y, n, u1, v1) /\ OnRing(Y, n, u2, v2) /\ (u1 # u2 \/ v1 # v2)
          /\ Beside(u, v, u1, v1) /\ Beside(u, v, u2, v2)
        BY <2>1 DEF Two
    <2>3. PICK i1, j1, i2, j2 \in Int : i1 = a + u1 /\ j1 = b + v1 /\ i2 = a + u2 /\ j2 = b + v2  BY <2>1
    <2>4. i1 - a = u1 /\ j1 - b = v1 /\ i2 - a = u2 /\ j2 - b = v2  BY <2>1, <2>3
    <2>5. <<i1, j1>> \in S /\ <<i2, j2>> \in S  BY <1>1, <2>2, <2>3, <2>4 DEF Ring
    <2>6. Beside(i, j, i1, j1) /\ Beside(i, j, i2, j2)
        BY <1>3, <1>4, <2>1, <2>2, <2>3 DEF Beside
    <2>7. Apart(p, <<i1, j1>>) \in {1, 2} /\ Apart(p, <<i2, j2>>) \in {1, 2}
        BY <1>3, <2>3, <2>6, BesideIs
    <2>8. <<i1, j1>> # <<i2, j2>>
        <3>1. i1 # i2 \/ j1 # j2  BY <2>1, <2>2, <2>3
        <3>2. QED  BY <3>1
    <2>9. PICK N : N = {q \in S : Apart(p, q) \in {1, 2}}  OBVIOUS
    <2>10. IsFiniteSet(N)
        <3>1. IsFiniteSet(S) /\ N \in SUBSET S  BY <1>1, <2>9, RingIn
        <3>2. QED  BY <3>1, FS_Subset
    <2>11. <<i1, j1>> \in N /\ <<i2, j2>> \in N  BY <2>5, <2>7, <2>9
    <2>12. QED  BY <2>8, <2>9, <2>10, <2>11, AtLeastTwo
<1>11. <<2 * a - i, j>> \in S /\ <<i, 2 * b - j>> \in S
    <2>1. OnRing(Y, n, -u, v) /\ OnRing(Y, n, u, -v)  BY <1>4, <1>5, RingTurns
    <2>2. PICK i1, j1 \in Int : i1 = 2 * a - i /\ j1 = 2 * b - j
        <3>1. 2 * a - i \in Int /\ 2 * b - j \in Int  BY <1>3
        <3>2. QED  BY <3>1
    <2>3. i1 - a = -u /\ j1 - b = -v  BY <1>3, <1>4, <2>2
    <2>4. OnRing(Y, n, i1 - a, j - b) /\ OnRing(Y, n, i - a, j1 - b)  BY <1>4, <2>1, <2>3
    <2>5. <<i1, j>> \in S /\ <<i, j1>> \in S  BY <1>1, <1>3, <2>2, <2>4 DEF Ring
    <2>6. QED  BY <2>2, <2>5
<1>12. QED  BY <1>3, <1>9, <1>10, <1>11

\* What an iteration sets: the pixel of a column and its mirror images.
Image(x, y, i, j) == {<<i * x, j * y>>, <<i * y, j * x>>}
Images(x, y) == UNION {Image(x, y, i, j) : i, j \in {-1, 1}}

LEMMA AbsIs == ASSUME NEW u \in Int, NEW x \in Nat PROVE (Abs(u) = x) <=> (u = x \/ u = -x)
<1>1. CASE u < 0
    <2>1. Abs(u) = -u  BY <1>1 DEF Abs
    <2>2. QED  BY <1>1, <2>1
<1>2. CASE ~(u < 0)
    <2>1. Abs(u) = u  BY <1>2 DEF Abs
    <2>2. QED  BY <1>2, <2>1
<1>3. QED  BY <1>1, <1>2

LEMMA ImagesAre ==
    ASSUME NEW x \in Nat, NEW y \in Nat, NEW x1, NEW y1, x1 = -x, y1 = -y
    PROVE  Images(x, y) = {<<x, y>>, <<x, y1>>, <<x1, y>>, <<x1, y1>>,
                           <<y, x>>, <<y, x1>>, <<y1, x>>, <<y1, x1>>}
<1>1. Image(x, y, 1, 1) = {<<x, y>>, <<y, x>>} /\ Image(x, y, 1, -1) = {<<x, y1>>, <<y, x1>>}
    <2>1. 1 * x = x /\ 1 * y = y /\ (-1) * x = x1 /\ (-1) * y = y1  OBVIOUS
    <2>2. QED  BY <2>1 DEF Image
<1>2. Image(x, y, -1, 1) = {<<x1, y>>, <<y1, x>>} /\ Image(x, y, -1, -1) = {<<x1, y1>>, <<y1, x1>>}
    <2>1. 1 * x = x /\ 1 * y = y /\ (-1) * x = x1 /\ (-1) * y = y1  OBVIOUS
    <2>2. QED  BY <2>1 DEF Image
<1>3. Images(x, y) = (Image(x, y, 1, 1) \cup Image(x, y, 1, -1))
                     \cup (Image(x, y, -1, 1) \cup Image(x, y, -1, -1))
    <2>1. \A v : v \in Images(x, y) <=> \E i, j \in {-1, 1} : v \in Image(x, y, i, j)  BY DEF Images
    <2>2. QED  BY <2>1
<1>4. QED  BY <1>1, <1>2, <1>3
OctantsOf(a, b, x, y) == {p \in Int \X Int : Reaches(y, x, p[1] - a, p[2] - b)}

OctantsAt(l, a, b, x, y, r) ==
    /\ a = l.center[1] /\ b = l.center[2] /\ x = l.x /\ y = l.y /\ x <= y /\ y <= r
    /\ a - r \in Int32 /\ a + r \in Int32 /\ b - r \in Int32 /\ b + r \in Int32

LEMMA OctantsAre ==
    ASSUME NEW l \in CircleLoops, NEW a \in Int, NEW b \in Int, NEW x \in Nat, NEW y \in Nat, NEW r \in Nat,
           OctantsAt(l, a, b, x, y, r)
    PROVE  Octants(l) = OctantsOf(a, b, x, y)
<1> USE DEF OctantsAt
<1>1. \A e \in -r .. r : Wrap(a + e) = a + e /\ Wrap(b + e) = b + e
    <2>1. TAKE e \in -r .. r
    <2>2. a - r <= a + e /\ a + e <= a + r /\ b - r <= b + e /\ b + e <= b + r  OBVIOUS
    <2>3. a + e \in Int32 /\ b + e \in Int32  BY <2>2, SmallInts, IntMaxIs
    <2>4. QED  BY <2>3, WrapSame
<1>2. PICK V : V = Images(x, y)  OBVIOUS
<1>3. Octants(l) = {<<Wrap(a + v[1]), Wrap(b + v[2])>> : v \in V}  BY <1>2 DEF Octants, Images, Image
<1>4. PICK x1, y1 \in Int : x1 = -x /\ y1 = -y  OBVIOUS
<1>5. V = {<<x, y>>, <<x, y1>>, <<x1, y>>, <<x1, y1>>, <<y, x>>, <<y, x1>>, <<y1, x>>, <<y1, x1>>}
    BY <1>2, <1>4, ImagesAre
<1>6. \A v \in V : v = <<v[1], v[2]>> /\ v[1] \in -r .. r /\ v[2] \in -r .. r
    <2>1. x \in -r .. r /\ y \in -r .. r /\ x1 \in -r .. r /\ y1 \in -r .. r  BY <1>4
    <2>2. QED  BY <1>5, <2>1
<1>7. Octants(l) = {<<a + v[1], b + v[2]>> : v \in V}  BY <1>1, <1>3, <1>6
<1>8. \A u, v \in Int : <<u, v>> \in V <=> Reaches(y, x, u, v)
    <2>1. TAKE u, v \in Int
    <2>2. /\ (Abs(u) = x) <=> (u = x \/ u = x1)
          /\ (Abs(u) = y) <=> (u = y \/ u = y1)
          /\ (Abs(v) = x) <=> (v = x \/ v = x1)
          /\ (Abs(v) = y) <=> (v = y \/ v = y1)
        BY <1>4, AbsIs
    <2>3. Reaches(y, x, u, v) <=> (\/ (u = x \/ u = x1) /\ (v = y \/ v = y1)
                                   \/ (u = y \/ u = y1) /\ (v = x \/ v = x1))
        BY <2>2 DEF Reaches
    <2>4. QED  BY <1>5, <2>3
<1>9. ASSUME NEW i \in Int, NEW j \in Int PROVE <<i, j>> \in Octants(l) <=> <<i - a, j - b>> \in V
    <2>1. ASSUME <<i, j>> \in Octants(l) PROVE <<i - a, j - b>> \in V
        <3>1. PICK v \in V : <<i, j>> = <<a + v[1], b + v[2]>>  BY <1>7, <2>1
        <3>2. PICK e, f \in Int : e = v[1] /\ f = v[2] /\ v = <<e, f>>  BY <1>6
        <3>3. i = a + e /\ j = b + f  BY <3>1, <3>2
        <3>4. i - a = e /\ j - b = f  BY <3>2, <3>3
        <3>5. QED  BY <3>2, <3>4
    <2>2. ASSUME <<i - a, j - b>> \in V PROVE <<i, j>> \in Octants(l)
        <3>1. a + (i - a) = i /\ b + (j - b) = j  BY <1>9
        <3>2. PICK v \in V : v[1] = i - a /\ v[2] = j - b  BY <2>2
        <3>3. <<a + v[1], b + v[2]>> = <<i, j>>  BY <3>1, <3>2
        <3>4. QED  BY <1>7, <3>3
    <2>3. QED  BY <2>1, <2>2
<1>10. \A p \in Octants(l) : p \in Int \X Int  BY OctantsIn
<1>11. ASSUME NEW p PROVE p \in Octants(l) <=> p \in OctantsOf(a, b, x, y)
    <2>1. CASE p \notin Int \X Int  BY <1>10, <2>1 DEF OctantsOf
    <2>2. CASE p \in Int \X Int
        <3>1. PICK i, j \in Int : p = <<i, j>>  BY <2>2
        <3>2. PICK u, v \in Int : u = i - a /\ v = j - b  BY <3>1
        <3>3. p \in Octants(l) <=> Reaches(y, x, u, v)  BY <1>8, <1>9, <3>1, <3>2
        <3>4. p \in OctantsOf(a, b, x, y) <=> Reaches(y, x, u, v)  BY <3>1, <3>2 DEF OctantsOf
        <3>5. QED  BY <3>3, <3>4
    <2>3. QED  BY <2>1, <2>2
<1>12. QED  BY <1>11

\* Where the loop stands after n columns, and what it has drawn.
CircleStands(l, at, r, n, Y) ==
    /\ Descent(Y, n, r) /\ l.center = at /\ l.x = n /\ l.y = Y[n] /\ Y[n] <= r
    /\ n <= Y[n] => Reckoned(n, Y[n], l.d, r)
CircleDrawing(S, l, at, r) ==
    \E n \in Nat : \E Y \in [0 .. n -> Int] : CircleStands(l, at, r, n, Y) /\ S = Ring(at[1], at[2], Y, n)
CircleAsked(c) == c.op = "circle" /\ c.radius >= 0 /\ 4 * c.radius + 64 <= IntMax /\ Around(c.at, c.radius)
CircleShape ==
    CircleAsked(call) => IF loop = Idle THEN IsCircle(drawn, call.at, call.radius)
                         ELSE CircleDrawing(drawn, loop, call.at, call.radius)

Grows(Y, n, r, y, y2, a, b, Y2) ==
    /\ Descent(Y2, n + 1, r) /\ Y2[n + 1] = y2
    /\ Ring(a, b, Y2, n + 1) = Ring(a, b, Y, n) \cup OctantsOf(a, b, n, y)

LEMMA RingGrows ==
    ASSUME NEW n \in Nat, NEW r \in Nat, NEW Y, Descent(Y, n, r), NEW y \in Int, y = Y[n], n <= y, y <= r,
           OnCircle(n, y, r), NEW y2 \in {y, y - 1}, NEW a \in Int, NEW b \in Int,
           NEW Y2, Y2 = [k \in 0 .. n + 1 |-> IF k <= n THEN Y[k] ELSE y2]
    PROVE  Grows(Y, n, r, y, y2, a, b, Y2)
<1>1. \A k \in 0 .. n : Y[k] \in Int /\ Y2[k] = Y[k]
    <2>1. \A k \in 0 .. n : k \in 0 .. n + 1 /\ k <= n  OBVIOUS
    <2>2. QED  BY <2>1 DEF Descent
<1>2. Y2[n + 1] = y2
    <2>1. n + 1 \in 0 .. n + 1 /\ ~(n + 1 <= n)  OBVIOUS
    <2>2. QED  BY <2>1
<1>3. Y2 \in [0 .. n + 1 -> Int]
    <2>1. \A k \in 0 .. n + 1 : k \in 0 .. n \/ ~(k <= n)  OBVIOUS
    <2>2. y2 \in Int  OBVIOUS
    <2>3. \A k \in 0 .. n + 1 : (IF k <= n THEN Y[k] ELSE y2) \in Int  BY <1>1, <2>1, <2>2
    <2>4. QED  BY <2>3
<1>4. Y2[0] = r
    <2>1. 0 \in 0 .. n  OBVIOUS
    <2>2. QED  BY <1>1, <2>1 DEF Descent
<1>5. ASSUME NEW k \in 0 .. (n + 1) - 1
      PROVE  k <= Y2[k] /\ Y2[k] <= r /\ Y2[k + 1] \in {Y2[k], Y2[k] - 1} /\ OnCircle(k, Y2[k], r)
    <2>1. CASE k = n  BY <1>1, <1>2, <2>1
    <2>2. CASE k # n
        <3>1. k \in 0 .. n - 1 /\ k \in 0 .. n /\ k + 1 \in 0 .. n  BY <2>2
        <3>2. k <= Y[k] /\ Y[k] <= r /\ Y[k + 1] \in {Y[k], Y[k] - 1} /\ OnCircle(k, Y[k], r)
            BY <3>1 DEF Descent
        <3>3. QED  BY <1>1, <3>1, <3>2
    <2>3. QED  BY <2>1, <2>2
<1>6. ASSUME NEW u \in Int, NEW v \in Int
      PROVE  OnRing(Y2, n + 1, u, v) <=> (OnRing(Y, n, u, v) \/ Reaches(y, n, u, v))
    <2>1. 0 .. (n + 1) - 1 = (0 .. n - 1) \cup {n}  OBVIOUS
    <2>2. Y2[n] = y /\ \A k \in 0 .. n - 1 : Y2[k] = Y[k]  BY <1>1
    <2>3. QED  BY <2>1, <2>2 DEF OnRing
<1>7. \A p \in Int \X Int : OnRing(Y2, n + 1, p[1] - a, p[2] - b)
                            <=> (OnRing(Y, n, p[1] - a, p[2] - b) \/ Reaches(y, n, p[1] - a, p[2] - b))
    <2>1. TAKE p \in Int \X Int
    <2>2. PICK u, v \in Int : u = p[1] - a /\ v = p[2] - b
        <3>1. p[1] - a \in Int /\ p[2] - b \in Int  OBVIOUS
        <3>2. QED  BY <3>1
    <2>3. QED  BY <1>6, <2>2
<1>8. Ring(a, b, Y2, n + 1) = Ring(a, b, Y, n) \cup OctantsOf(a, b, n, y)  BY <1>7 DEF Ring, OctantsOf
<1>9. Descent(Y2, n + 1, r)  BY <1>3, <1>4, <1>5 DEF Descent
<1>10. QED  BY <1>2, <1>8, <1>9 DEF Grows

\* An iteration reckons as the numbers do.
StepReckons(l, x, y, d) ==
    \E x2, y2, d2 \in Int :
        /\ Reckons(x, y, d, x2, y2, d2) /\ CircleStep(l) = [l EXCEPT !.x = x2, !.y = y2, !.d = d2]
        /\ y2 \in {y, y - 1} /\ x2 = x + 1

LEMMA CircleReckons ==
    ASSUME NEW l \in CircleLoops, NEW r \in Nat, 4 * r + 64 <= IntMax, NEW x \in Nat, NEW y \in Nat,
           x = l.x, y = l.y, x <= y, y <= r, NEW d \in Int, d = l.d, Reckoned(x, y, d, r)
    PROVE  StepReckons(l, x, y, d)
<1>1. PICK x2, y2, d2 \in Int : Reckons(x, y, d, x2, y2, d2)
    <2>1. PICK x2, y2 \in Int : x2 = x + 1 /\ y2 = IF d > 0 THEN y - 1 ELSE y
        <3>1. x + 1 \in Int /\ y - 1 \in Int  OBVIOUS
        <3>2. QED  BY <3>1
    <2>2. PICK d2 \in Int : d2 = d + (IF d > 0 THEN 4 * (x2 - y2) + 10 ELSE 4 * x2 + 6)
        <3>1. d + (4 * (x2 - y2) + 10) \in Int /\ d + (4 * x2 + 6) \in Int  BY <2>1
        <3>2. QED  BY <3>1
    <2>3. QED  BY <2>1, <2>2 DEF Reckons
<1>2. x2 \in Int32 /\ d2 \in Int32  BY <1>1, ReckonedIsInt
<1>3. Wrap(x2) = x2 /\ Wrap(d2) = d2  BY <1>2, WrapSame
<1>4. x2 = x + 1 /\ y2 = (IF d > 0 THEN y - 1 ELSE y)
      /\ d2 = d + (IF d > 0 THEN 4 * (x2 - y2) + 10 ELSE 4 * x2 + 6)
    BY <1>1 DEF Reckons
<1>5. CircleStep(l) = [l EXCEPT !.x = x2, !.y = y2, !.d = d2]  BY <1>3, <1>4 DEF CircleStep
<1>6. QED  BY <1>1, <1>4, <1>5, Zenon DEF StepReckons

LEMMA CircleBegins ==
    ASSUME CoreInv, NEW c \in Asking, Hands(c), call' = c, loop = Idle
    PROVE  CircleShape'
<1>1. SUFFICES ASSUME c.op = "circle", c.radius >= 0, 4 * c.radius + 64 <= IntMax, Around(c.at, c.radius)
               PROVE  loop' # Idle /\ CircleDrawing(drawn', loop', c.at, c.radius)
    BY DEF CircleShape, CircleAsked
<1>2. c.at \in Points /\ c.radius \in Int32  BY <1>1, Fields
<1>3. PICK r \in Nat : r = c.radius /\ r >= 0 /\ 4 * r + 64 <= IntMax  BY <1>1, <1>2, Ints
<1>4. PICK d \in Int : d = 3 - 2 * r  OBVIOUS
<1>5. Wrap(d) = d
    <2>1. d \in Int32  BY <1>3, <1>4, SmallInts, IntMaxIs
    <2>2. QED  BY <2>1, WrapSame
<1>6. PICK l : l = [kind |-> "circle", x |-> 0, y |-> r, d |-> d, center |-> c.at, color |-> ColorOf(c.color)]
    OBVIOUS
<1>7. loop' = l /\ drawn' = {}
    BY <1>1, <1>3, <1>4, <1>5, <1>6 DEF Hands, graphics_draw_circle, Loop
<1>8. l # Idle
    <2>1. Idle.kind = "idle" /\ l.kind = "circle"  BY <1>6 DEF Idle
    <2>2. QED  BY <2>1
<1>9. PICK Y : Y = [k \in 0 .. 0 |-> r]  OBVIOUS
<1>10. Y \in [0 .. 0 -> Int] /\ Y[0] = r  BY <1>9
<1>11. CircleStands(l, c.at, r, 0, Y)
    <2>1. Descent(Y, 0, r)
        <3>1. 0 .. 0 - 1 = {}  OBVIOUS
        <3>2. QED  BY <1>10, <3>1 DEF Descent
    <2>2. Reckoned(0, r, d, r)  BY <1>4, ReckoningStarts
    <2>3. QED  BY <1>6, <1>10, <2>1, <2>2 DEF CircleStands
<1>12. Ring(c.at[1], c.at[2], Y, 0) = {}
    <2>1. 0 .. 0 - 1 = {}  OBVIOUS
    <2>2. QED  BY <2>1 DEF Ring, OnRing
<1>13. CircleDrawing({}, l, c.at, r)  BY <1>10, <1>11, <1>12 DEF CircleDrawing
<1>14. QED  BY <1>3, <1>7, <1>8, <1>13

LEMMA CircleGoesOn ==
    ASSUME CoreInv, CircleShape, DuringLoop, CircleIteration, call.op = "circle"
    PROVE  CircleShape'
<1>1. SUFFICES ASSUME CircleAsked(call)
               PROVE  IF loop' = Idle THEN IsCircle(drawn', call.at, call.radius)
                      ELSE CircleDrawing(drawn', loop', call.at, call.radius)
    BY DEF CircleShape, CircleAsked, DuringLoop
<1>2. call \in Asking
    <2>1. call \in Asking \cup {[op |-> "none"]} /\ [op |-> "none"].op = "none"  BY DEF CoreInv, VixTypes
    <2>2. QED  BY <2>1
<1>3. call.at \in Points /\ call.radius \in Int32  BY <1>2, Fields
<1>4. PICK r \in Nat : r = call.radius /\ r \in Int32 /\ 4 * r + 64 <= IntMax
    <2>1. call.radius \in Int /\ call.radius >= 0 /\ 4 * call.radius + 64 <= IntMax
        BY <1>1, <1>3, Ints DEF CircleAsked
    <2>2. QED  BY <1>3, <2>1
<1>5. PICK a, b \in Int : a = call.at[1] /\ b = call.at[2] /\ call.at = <<a, b>>  BY <1>3, PointIs, Ints
<1>6. a - r \in Int32 /\ b - r \in Int32 /\ a + r \in Int32 /\ b + r \in Int32
    BY <1>1, <1>3, <1>4, <1>5, AroundIs DEF CircleAsked
<1>7. loop # Idle /\ result' = result  BY DEF DuringLoop
<1>8. CircleDrawing(drawn, loop, call.at, r)  BY <1>1, <1>4, <1>7 DEF CircleShape
<1>9. PICK n \in Nat : \E Y \in [0 .. n -> Int] :
          CircleStands(loop, call.at, r, n, Y) /\ drawn = Ring(a, b, Y, n)
    BY <1>5, <1>8 DEF CircleDrawing
<1>10. PICK Y \in [0 .. n -> Int] : CircleStands(loop, call.at, r, n, Y) /\ drawn = Ring(a, b, Y, n)  BY <1>9
<1>11. PICK l \in CircleLoops : l = loop  BY <1>7, CircleIs
<1>12. PICK y \in Int : y = Y[n]
    <2>1. n \in 0 .. n  OBVIOUS
    <2>2. QED  BY <2>1
<1>13. /\ Descent(Y, n, r) /\ l.center = call.at /\ l.x = n /\ l.y = y /\ y <= r
       /\ n <= y => Reckoned(n, y, l.d, r)
    BY <1>10, <1>11, <1>12 DEF CircleStands
<1>14. CASE y >= n
    <2>1. PICK d \in Int : d = l.d  BY Ints DEF CircleLoops
    <2>2. y \in Nat /\ n <= y /\ Reckoned(n, y, d, r)  BY <1>13, <1>14, <2>1
    <2>3. PICK x2, y2, d2 \in Int :
              /\ Reckons(n, y, d, x2, y2, d2) /\ CircleStep(l) = [l EXCEPT !.x = x2, !.y = y2, !.d = d2]
              /\ y2 \in {y, y - 1} /\ x2 = n + 1
        <3>1. n = l.x /\ y = l.y /\ d = l.d  BY <1>13, <2>1
        <3>2. StepReckons(l, n, y, d)  BY <1>4, <1>13, <2>2, <3>1, CircleReckons
        <3>3. QED  BY <3>2, Zenon DEF StepReckons
    <2>4. drawn' = drawn \cup Octants(l) /\ loop' = CircleStep(l)
        BY <1>7, <1>11, <1>13, <1>14, CircleIs DEF Paints
    <2>5. l.center[1] = a /\ l.center[2] = b  BY <1>5, <1>13
    <2>6. Octants(l) = OctantsOf(a, b, n, y)
        <3>1. OctantsAt(l, a, b, n, y, r)  BY <1>6, <1>13, <2>2, <2>5 DEF OctantsAt
        <3>2. y \in Nat  BY <2>2
        <3>3. QED  BY <3>1, <3>2, OctantsAre
    <2>7. OnCircle(n, y, r)  BY <1>13, <2>2, ReckonedIsNear
    <2>8. PICK Y2 : Y2 = [k \in 0 .. n + 1 |-> IF k <= n THEN Y[k] ELSE y2]  OBVIOUS
    <2>9. Descent(Y2, n + 1, r) /\ Y2[n + 1] = y2
          /\ Ring(a, b, Y2, n + 1) = Ring(a, b, Y, n) \cup OctantsOf(a, b, n, y)
        <3>1. Grows(Y, n, r, y, y2, a, b, Y2)  BY <1>12, <1>13, <2>2, <2>3, <2>7, <2>8, RingGrows, Zenon
        <3>2. QED  BY <3>1 DEF Grows
    <2>10. loop'.x = x2 /\ loop'.y = y2 /\ loop'.d = d2 /\ loop'.center = l.center /\ loop'.kind = "circle"
        BY <2>3, <2>4 DEF CircleLoops
    <2>11. loop' # Idle
        <3>1. Idle.kind = "idle"  BY DEF Idle
        <3>2. QED  BY <2>10, <3>1
    <2>12. y2 <= r  BY <1>13, <2>3
    <2>13. ASSUME n + 1 <= y2 PROVE Reckoned(n + 1, y2, d2, r)
        <3>1. x2 <= y2  BY <2>3, <2>13
        <3>2. Reckoned(x2, y2, d2, r)  BY <1>13, <2>2, <2>3, <3>1, ReckoningGoesOn
        <3>3. QED  BY <2>3, <3>2
    <2>14. CircleStands(loop', call.at, r, n + 1, Y2)
        BY <1>13, <2>3, <2>9, <2>10, <2>12, <2>13 DEF CircleStands
    <2>15. drawn' = Ring(a, b, Y2, n + 1)  BY <1>10, <2>4, <2>6, <2>9
    <2>16. Y2 \in [0 .. n + 1 -> Int] /\ n + 1 \in Nat  BY <2>9 DEF Descent
    <2>17. CircleDrawing(drawn', loop', call.at, r)  BY <1>5, <2>14, <2>15, <2>16 DEF CircleDrawing
    <2>18. QED  BY <1>4, <2>11, <2>17
<1>15. CASE ~(y >= n)
    <2>1. loop' = Idle /\ drawn' = drawn  BY <1>7, <1>11, <1>13, <1>15, CircleIs
    <2>2. Y[n] < n  BY <1>12, <1>15
    <2>3. IsCircle(Ring(a, b, Y, n), call.at, r)  BY <1>5, <1>13, <2>2, RingIsCircle
    <2>4. QED  BY <1>4, <1>10, <2>1, <2>3
<1>16. QED  BY <1>14, <1>15

LEMMA CircleKept == ASSUME CoreInv, CircleShape, [VixNext]_vixVars PROVE CircleShape'
<1>1. CASE UNCHANGED vixVars  BY <1>1 DEF vixVars, vars, CircleShape, CircleAsked
<1>2. CASE VixNext /\ \E c \in Asking : Hands(c) /\ call' = c /\ loop = Idle  BY <1>2, CircleBegins
<1>3. CASE DuringLoop /\ call.op # "circle"  BY <1>3 DEF DuringLoop, CircleShape, CircleAsked
<1>4. CASE DuringLoop /\ CircleIteration /\ call.op = "circle"  BY <1>4, CircleGoesOn
<1>5. QED  BY <1>1, <1>2, <1>3, <1>4, StepIs

----------------------------------------------------------------------------
(* All of them together.                                                     *)
ShapeInv == InOneStep /\ LineShape /\ RectShape /\ CircleShape /\ DiscShape /\ TextShape

LEMMA ShapesStart == ASSUME VixInit PROVE ShapeInv
<1>1. call.op = "none"  BY NoneOf DEF VixInit, Init
<1>2. QED
    BY <1>1 DEF ShapeInv, InOneStep, LineShape, RectShape, CircleShape, CircleAsked, DiscShape, TextShape, TextAsked

LEMMA ShapesKept == ASSUME CoreInv, ShapeInv, [VixNext]_vixVars PROVE ShapeInv'
<1>1. InOneStep /\ LineShape /\ RectShape /\ CircleShape /\ DiscShape /\ TextShape  BY DEF ShapeInv
<1>2. InOneStep' /\ LineShape' /\ RectShape' /\ CircleShape' /\ DiscShape' /\ TextShape'
    BY <1>1, InOneStepKept, LineKept, RectKept, CircleKept, DiscKept, TextKept
<1>3. QED  BY <1>2 DEF ShapeInv

LEMMA ShapeIsDrawn == ASSUME CoreInv, ShapeInv, loop = Idle PROVE ShapeOfCall
<1>1. InOneStep /\ LineShape /\ RectShape /\ CircleShape /\ DiscShape /\ TextShape  BY DEF ShapeInv
<1>2. CASE call.op = "pixel"
    <2>1. drawn = {call.at}  BY <1>1, <1>2 DEF InOneStep
    <2>2. QED  BY <1>2, <2>1 DEF ShapeOfCall
<1>3. CASE call.op = "line"
    <2>1. 3 * Longer(call.from, call.to) <= IntMax => IsLine(drawn, call.from, call.to)
        BY <1>1, <1>3 DEF LineShape
    <2>2. QED  BY <1>3, <2>1 DEF ShapeOfCall
<1>4. CASE call.op = "rect"
    <2>1. call \in Asking
        <3>1. call \in Asking \cup {[op |-> "none"]}  BY DEF CoreInv, VixTypes
        <3>2. QED  BY <1>4, <3>1, NoneOf
    <2>2. call.rect \in Rects  BY <1>4, <2>1, Fields
    <2>3. Framed(call.rect) => IsOutline(drawn, call.rect)  BY <1>1, <1>4 DEF RectShape
    <2>4. (call.rect.width > 0 /\ call.rect.height > 0 /\ Fits(call.rect)
             /\ 3 * Greatest(call.rect.width, call.rect.height) <= IntMax) => IsOutline(drawn, call.rect)
        BY <2>2, <2>3 DEF Framed
    <2>5. QED  BY <1>4, <2>4 DEF ShapeOfCall
<1>5. CASE call.op = "fill"
    <2>1. Fits(call.rect) => drawn = {p \in Area : Within(p, call.rect)}  BY <1>1, <1>5 DEF InOneStep
    <2>2. QED  BY <1>5, <2>1 DEF ShapeOfCall
<1>6. CASE call.op = "circle"
    <2>1. CircleAsked(call) => IsCircle(drawn, call.at, call.radius)  BY <1>1 DEF CircleShape
    <2>2. (call.radius >= 0 /\ 4 * call.radius + 64 <= IntMax /\ Around(call.at, call.radius)) =>
              IsCircle(drawn, call.at, call.radius)
        BY <1>6, <2>1 DEF CircleAsked
    <2>3. QED  BY <1>6, <2>2 DEF ShapeOfCall
<1>7. CASE call.op = "disc"
    <2>1. (SquareOf(call.radius) <= IntMax /\ Around(call.at, call.radius)) => IsDisc(drawn, call.at, call.radius)
        BY <1>1, <1>7 DEF DiscShape
    <2>2. QED  BY <1>7, <2>1 DEF ShapeOfCall
<1>8. ASSUME TextAsked PROVE IsText(drawn, TextAt(call.text), call.at, ScaleOf(call))
    BY <1>1, <1>8 DEF TextShape, TextDrawn
<1>9. CASE call.op = "text"
    <2>1. (call.text # 0 /\ TextFits(TextAt(call.text), call.at, 1)) => IsText(drawn, TextAt(call.text), call.at, 1)
        BY <1>8, <1>9 DEF TextAsked, ScaleOf
    <2>2. QED  BY <1>9, <2>1 DEF ShapeOfCall
<1>10. CASE call.op = "scaled"
    <2>1. (result = 0 /\ TextFits(TextAt(call.text), call.at, call.scale)) =>
              IsText(drawn, TextAt(call.text), call.at, call.scale)
        BY <1>8, <1>10 DEF TextAsked, ScaleOf
    <2>2. QED  BY <1>10, <2>1 DEF ShapeOfCall
<1>11. CASE call.op \notin {"pixel", "line", "rect", "fill", "circle", "disc", "text", "scaled"}
    BY <1>11 DEF ShapeOfCall
<1>12. QED  BY <1>2, <1>3, <1>4, <1>5, <1>6, <1>7, <1>9, <1>10, <1>11

(* When a call's loop has ended, what it set is the shape it asked for, and  *)
(* the caller sees what its clip rectangle has of it (graphics.c:385-535,    *)
(* 722-769, through vios.c).                                                 *)
THEOREM DrawingsHaveTheirShape == VixSpec => []DrawsTheShape
<1>1. VixInit => CoreInv /\ ShapeInv  BY CoreStarts, ShapesStart
<1>2. (CoreInv /\ ShapeInv) /\ [VixNext]_vixVars => (CoreInv /\ ShapeInv)'  BY CoreKept, ShapesKept
<1>3. CoreInv /\ ShapeInv => DrawsTheShape
    <2>1. SUFFICES ASSUME CoreInv, ShapeInv, Finished
                   PROVE  ShapeOfCall /\ ShownInsideClip /\ (call.op = "present" => pixels.front = pixels.back)
        BY DEF DrawsTheShape
    <2>2. ShapeOfCall  BY <2>1, ShapeIsDrawn DEF Finished
    <2>3. ShownInsideClip  BY <2>1, ShownHolds
    <2>4. call.op = "present" => pixels.front = pixels.back  BY <2>1 DEF ShapeInv, InOneStep
    <2>5. QED  BY <2>2, <2>3, <2>4
<1>4. QED  BY <1>1, <1>2, <1>3, PTL DEF VixSpec
=============================================================================
