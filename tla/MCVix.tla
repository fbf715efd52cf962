------------------------------- MODULE MCVix -------------------------------
(* A screen of four by three pixels and a font of two by two; first a clip   *)
(* rectangle, a picture or nothing, then one drawing out of many, on and off *)
(* the screen, and a present.                                                *)
EXTENDS Vix

White == 16777215
Gray == 8421504
MCFont == [char \in {"A", "B"} |-> IF char = "A" THEN {<<0, 0>>, <<1, 1>>} ELSE {<<1, 0>>}]
MCTexts == [a \in 101 .. 103 |->
    CASE a = 101 -> <<"A", "B">> [] a = 102 -> <<"B", "\t", "A", "\n", "A">> [] OTHER -> <<"\n", "B", "B">>]

SomeRects == {Rect(x, y, w, h) : x \in {-2, 1, 5}, y \in {-1, 1}, w \in {-1, 2, 6, IntMax}, h \in {1, 4}}
Setups ==
    {[op |-> "clip", rect |-> r] : r \in {s \in SomeRects : s.x # 5 \/ s.width = 2} \cup {NoRect}}
    \cup {[op |-> "disc", at |-> <<1, 1>>, radius |-> 1, color |-> White],
          [op |-> "text", text |-> 102, at |-> <<0, 0>>, color |-> White],
          [op |-> "clear", color |-> Gray], [op |-> "present"]}
\* As far as a line may go, and so far that its error wraps: the last but one is never met.
FarEnds == {<<43, 1>>, <<-41, 20>>, <<65, 1>>, <<1, 65>>}
Draws ==
    {[op |-> "pixel", at |-> p, color |-> Gray] : p \in (-1 .. 4) \X (-1 .. 3)}
    \cup {[op |-> "line", from |-> <<1, 1>>, to |-> p, color |-> Gray] : p \in (-5 .. 6) \X (-4 .. 5)}
    \cup {[op |-> "line", from |-> <<1, 1>>, to |-> p, color |-> Gray] : p \in FarEnds}
    \cup {[op |-> "rect", rect |-> Rect(1, 1, w, 2), color |-> Gray] : w \in {43, 65}}
    \cup {[op |-> o, at |-> <<1, 1>>, radius |-> IntMax, color |-> Gray] : o \in {"circle", "disc"}}
    \cup {[op |-> "rect", rect |-> r, color |-> Gray] : r \in {s \in SomeRects : s.width # IntMax}}
    \cup {[op |-> "fill", rect |-> r, color |-> Gray] : r \in SomeRects}
    \cup {[op |-> o, at |-> p, radius |-> n, color |-> Gray] :
            o \in {"circle", "disc"}, p \in {<<1, 1>>, <<5, -1>>}, n \in -1 .. 7}
    \cup {[op |-> "text", text |-> a, at |-> <<1, -1>>, color |-> Gray] : a \in {0} \cup DOMAIN MCTexts}
    \cup {[op |-> "scaled", text |-> a, at |-> <<-1, 0>>, color |-> Gray, scale |-> n] :
            a \in DOMAIN MCTexts, n \in 0 .. 3}
    \cup {[op |-> "print", text |-> 101, at |-> <<1, 0>>, color |-> Gray, scale |-> 2]}
    \cup {[op |-> "putchar"]}
    \cup {[op |-> "width", text |-> a, scale |-> 2] : a \in {0} \cup DOMAIN MCTexts}
    \cup {[op |-> "height", scale |-> n] : n \in 0 .. 2}
    \cup {[op |-> "blit", src |-> b, rect |-> r, to |-> p] :
            b \in {"front", "back"}, r \in SomeRects \cup {NoRect}, p \in {<<-1, 0>>, <<0, 0>>, <<2, 1>>}}
    \cup {[op |-> "alpha", src |-> b, rect |-> NoRect, to |-> p, alpha |-> a] :
            b \in {"front", "back"}, p \in {<<1, 0>>, <<1, -1>>}, a \in {0, 128, 254, 255}}
MCLowMemory == <<"B">>
MCCalls == <<Setups, Draws, {[op |-> "present"]}>>
=============================================================================
