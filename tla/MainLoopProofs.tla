--------------------------- MODULE MainLoopProofs ---------------------------
(***************************************************************************)
(* Proofs about the kernel's main loop: the terminal it runs and the port  *)
(* it polls.                                                               *)
(*                                                                         *)
(* The terminal, for every size of the screen and of the command line,     *)
(* every set of commands and every text they print: the cursor stays on    *)
(* the screen, what Enter runs is what the frame shows, and the command    *)
(* line is a line editor.  The invariant says where the line stands: while *)
(* it is not torn, the cells from the beginning of some row to the cursor  *)
(* hold the prompt and then what the buffer holds.  Printing is a          *)
(* recursion over a string; what it keeps is proved by induction over its  *)
(* length, for which the well-founded order of the naturals is cited from  *)
(* the library.                                                            *)
(*                                                                         *)
(* The port, for any number of bytes, any screen and any length of a       *)
(* movement: the drivers keep their types whoever reads whose byte, and,   *)
(* as long as no byte has gone astray, the mouse driver's packet is the    *)
(* part of one report that has been read and no shift is left down.        *)
(***************************************************************************)
EXTENDS Ps2, KernelTerminal, SequenceTheorems, WellFoundedInduction, TLAPS

-----------------------------------------------------------------------------
(* Arithmetic, and induction over the naturals for a set.                    *)

LEMMA SetInduction ==
    ASSUME NEW S, 0 \in S, \A n \in Nat : n \in S => n + 1 \in S
    PROVE  \A n \in Nat : n \in S
<1> DEFINE Less == OpToRel(<, Nat)
           Out == {n \in Nat : n \notin S}
<1>1. IsWellFoundedOn(Less, Nat)  BY NatLessThanWellFounded
<1>2. \A x, y \in Nat : <<y, x>> \in Less <=> y < x  BY DEF OpToRel
<1>3. SUFFICES ASSUME Out # {} PROVE FALSE  OBVIOUS
<1> HIDE DEF Less
<1>4. PICK x \in Out : \A y \in Out : ~(<<y, x>> \in Less)  BY <1>1, <1>3, WFMin
<1>5. x \in Nat /\ x # 0 /\ x - 1 \in Nat  OBVIOUS
<1>6. x - 1 \in S
    <2>1. SUFFICES ASSUME x - 1 \notin S PROVE FALSE  OBVIOUS
    <2>2. x - 1 \in Out  BY <1>5, <2>1
    <2>3. PICK y \in Nat : y = x - 1 /\ y < x  BY <1>5
    <2>4. <<y, x>> \in Less  BY <1>2, <1>5, <2>3, Zenon
    <2>5. QED  BY <1>4, <2>2, <2>3, <2>4, Zenon
<1>7. (x - 1) + 1 \in S  BY <1>5, <1>6
<1>8. QED  BY <1>5, <1>7

\* A place on a screen of w columns and h rows is one of its cells.
LEMMA CellOnScreen ==
    ASSUME NEW w \in Nat \ {0}, NEW h \in Nat \ {0}, NEW x \in 0 .. w - 1, NEW y \in 0 .. h - 1
    PROVE  y * w + x \in 0 .. w * h - 1
<1>1. \A a, b \in Nat : a * b \in Nat  OBVIOUS
<1>2. h - 1 - y \in Nat  OBVIOUS
<1>3. (h - 1 - y) * w \in Nat  BY <1>1, <1>2
<1>4. (h - 1 - y) * w = w * h - w - y * w  OBVIOUS
<1>5. y * w \in Nat  BY <1>1
<1>6. w * h \in Nat  BY <1>1
<1>7. QED  BY <1>3, <1>4, <1>5, <1>6

\* The beginning of the next row.
LEMMA NextRow ==
    ASSUME NEW w \in Nat, NEW y \in Nat
    PROVE  (y + 1) * w = y * w + w
OBVIOUS

\* The beginnings of rows are the multiples of the width.
LEMMA RowBegins ==
    ASSUME NEW w \in Nat \ {0}, NEW y \in Nat
    PROVE  y * w \in Nat /\ (y * w) % w = 0
<1>1. \A a, b \in Nat : a * b \in Nat  OBVIOUS
<1>2. y * w \in Nat  BY <1>1
<1>3. (y * w) % w = 0  OBVIOUS
<1>4. QED  BY <1>2, <1>3

-----------------------------------------------------------------------------
(* Printing a string is a recursion with a value at every length.            *)

\* The first k characters printed one after the other.
Printing(t, s, k, g) == g = [i \in 0 .. k |-> IF i = 0 THEN t ELSE Put(g[i - 1], s[i])]

LEMMA PrintingExists ==
    ASSUME NEW t, NEW s
    PROVE  \A k \in Nat : \E g : Printing(t, s, k, g)
<1> DEFINE S == {k \in Nat : \E g : Printing(t, s, k, g)}
<1>1. 0 \in S
    <2>1. Printing(t, s, 0, [i \in 0 .. 0 |-> t])
        <3>1. \A i \in 0 .. 0 : i = 0  OBVIOUS
        <3>2. QED  BY <3>1 DEF Printing
    <2>2. QED  BY <2>1
<1>2. ASSUME NEW k \in Nat, k \in S PROVE k + 1 \in S
    <2>1. PICK g : Printing(t, s, k, g)  BY <1>2
    <2>2. DEFINE h == [i \in 0 .. k + 1 |-> IF i = k + 1 THEN Put(g[k], s[k + 1]) ELSE g[i]]
    <2>3. ASSUME NEW i \in 0 .. k + 1
          PROVE  h[i] = IF i = 0 THEN t ELSE Put(h[i - 1], s[i])
        <3>1. CASE i = k + 1
            <4>1. i # 0 /\ i - 1 = k /\ k \in 0 .. k + 1 /\ k # k + 1  BY <3>1
            <4>2. h[i - 1] = g[k]  BY <4>1
            <4>3. h[i] = Put(g[k], s[k + 1])  BY <3>1
            <4>4. QED  BY <3>1, <4>1, <4>2, <4>3
        <3>2. CASE i # k + 1
            <4>1. i \in 0 .. k  BY <3>2
            <4>2. h[i] = g[i]  BY <3>2
            <4>3. g[i] = IF i = 0 THEN t ELSE Put(g[i - 1], s[i])  BY <2>1, <4>1 DEF Printing
            <4>4. i # 0 => i - 1 \in 0 .. k /\ i - 1 # k + 1 /\ i - 1 \in 0 .. k + 1  BY <4>1
            <4>5. i # 0 => h[i - 1] = g[i - 1]  BY <4>4
            <4>6. QED  BY <4>2, <4>3, <4>5
        <3>3. QED  BY <3>1, <3>2
    <2>4. h = [i \in 0 .. k + 1 |-> IF i = 0 THEN t ELSE Put(h[i - 1], s[i])]  BY <2>3
    <2> HIDE DEF h
    <2>5. Printing(t, s, k + 1, h)  BY <2>4 DEF Printing
    <2>6. QED  BY <2>5
<1>3. \A k \in Nat : k \in S
    <2> HIDE DEF S
    <2>1. QED  BY <1>1, <1>2, SetInduction
<1>4. QED  BY <1>3

LEMMA WrittenUnfolds ==
    ASSUME NEW t, NEW C, NEW s \in Seq(C)
    PROVE  /\ Written(t, s)[0] = t
           /\ \A i \in 1 .. Len(s) : Written(t, s)[i] = Put(Written(t, s)[i - 1], s[i])
<1>1. Len(s) \in Nat  OBVIOUS
<1>2. \E g : Printing(t, s, Len(s), g)  BY <1>1, PrintingExists
<1>3. Printing(t, s, Len(s), CHOOSE g : Printing(t, s, Len(s), g))  BY <1>2
<1>4. Written(t, s) = CHOOSE g : Printing(t, s, Len(s), g)  BY DEF Written, Printing
<1>5. Printing(t, s, Len(s), Written(t, s))  BY <1>3, <1>4
<1>6. PICK w : w = Written(t, s)  OBVIOUS
<1>7. w = [i \in 0 .. Len(s) |-> IF i = 0 THEN t ELSE Put(w[i - 1], s[i])]
    BY <1>5, <1>6 DEF Printing
<1>8. w[0] = t  BY <1>1, <1>7
<1>9. \A i \in 1 .. Len(s) : w[i] = Put(w[i - 1], s[i])
    <2>1. \A i \in 1 .. Len(s) : i \in 0 .. Len(s) /\ i # 0  BY <1>1
    <2>2. QED  BY <1>7, <2>1
<1>10. QED  BY <1>6, <1>8, <1>9

-----------------------------------------------------------------------------
(* Types of the screen.                                                      *)

Terminals == [buffer : [Cells -> Glyphs], x : 0 .. Columns - 1, y : 0 .. Rows - 1]
Printable == Glyphs \cup {Newline}

LEMMA Sizes ==
    /\ Columns \in Nat \ {0} /\ Rows \in Nat \ {0} /\ BufferSize \in Nat \ {0}
    /\ Len(Prompt) \in Nat /\ Len(Prompt) < Columns
<1>1. /\ Columns \in Nat \ {0} /\ Rows \in Nat \ {0} /\ BufferSize \in Nat \ {0}
      /\ Prompt \in Seq(Glyphs) /\ Len(Prompt) < Columns
    BY TerminalAssumption
<1>2. QED  BY <1>1

LEMMA CharsPrint ==
    Newline \notin Glyphs /\ Char \subseteq Glyphs /\ Blank \in Glyphs /\ Nul \notin Char
BY TerminalAssumption DEF Glyphs

LEMMA CellTyped ==
    ASSUME NEW t \in Terminals
    PROVE  Cell(t) \in Cells /\ Cell(t) \in Nat
<1>1. t.x \in 0 .. Columns - 1 /\ t.y \in 0 .. Rows - 1  BY DEF Terminals
<1>2. t.y * Columns + t.x \in 0 .. Columns * Rows - 1  BY <1>1, Sizes, CellOnScreen
<1>3. QED  BY <1>2 DEF Cell, Cells

LEMMA ClearedTyped == ClearedTerminal \in Terminals /\ ClearedTerminal.x = 0
<1>1. 0 \in 0 .. Columns - 1 /\ 0 \in 0 .. Rows - 1  BY Sizes
<1>2. [i \in Cells |-> Blank] \in [Cells -> Glyphs]  BY CharsPrint
<1>3. QED  BY <1>1, <1>2 DEF ClearedTerminal, Terminals

LEMMA NewLineTyped ==
    ASSUME NEW t \in Terminals
    PROVE  NewLine(t) \in Terminals /\ NewLine(t).x = 0
<1>1. /\ t.x \in 0 .. Columns - 1 /\ t.y \in 0 .. Rows - 1 /\ t.buffer \in [Cells -> Glyphs]
      /\ t = [buffer |-> t.buffer, x |-> t.x, y |-> t.y]
    BY DEF Terminals
<1>2. ScrollUp(t.buffer) \in [Cells -> Glyphs]
    BY <1>1, CharsPrint DEF ScrollUp
<1>3. 0 \in 0 .. Columns - 1  BY Sizes
<1>4. CASE t.y + 1 < Rows
    <2>1. NewLine(t) = [buffer |-> t.buffer, x |-> 0, y |-> t.y + 1]  BY <1>1, <1>4 DEF NewLine
    <2>2. t.y + 1 \in 0 .. Rows - 1  BY <1>1, <1>4, Sizes
    <2>3. QED  BY <1>1, <1>3, <2>1, <2>2 DEF Terminals
<1>5. CASE ~(t.y + 1 < Rows)
    <2>1. NewLine(t) = [buffer |-> ScrollUp(t.buffer), x |-> 0, y |-> t.y]
        BY <1>1, <1>5 DEF NewLine
    <2>2. QED  BY <1>1, <1>2, <1>3, <2>1 DEF Terminals
<1>6. QED  BY <1>4, <1>5

\* A character that is printed stands where the cursor was, and the cursor is one
\* further on, unless it was at the end of the last row.
LEMMA PutPrints ==
    ASSUME NEW t \in Terminals, NEW c \in Glyphs
    PROVE  /\ Put(t, c) \in Terminals
           /\ Put(t, c).buffer = [t.buffer EXCEPT ![Cell(t)] = c]
           /\ t.x + 1 < Columns => Put(t, c).x = t.x + 1 /\ Put(t, c).y = t.y
           /\ ~(t.x = Columns - 1 /\ t.y = Rows - 1) => Cell(Put(t, c)) = Cell(t) + 1
<1> DEFINE b == [t.buffer EXCEPT ![Cell(t)] = c]
<1>1. /\ t.x \in 0 .. Columns - 1 /\ t.y \in 0 .. Rows - 1 /\ t.buffer \in [Cells -> Glyphs]
      /\ t = [buffer |-> t.buffer, x |-> t.x, y |-> t.y]
    BY DEF Terminals
<1>2. b \in [Cells -> Glyphs]  BY <1>1
<1>3. [t EXCEPT !.buffer[Cell(t)] = c] = [buffer |-> b, x |-> t.x, y |-> t.y]  BY <1>1
<1>4. c # Newline  BY CharsPrint
<1>5. Put(t, c) = Advance([buffer |-> b, x |-> t.x, y |-> t.y])  BY <1>3, <1>4 DEF Put
<1> HIDE DEF b
<1>6. CASE t.x + 1 < Columns
    <2>1. Put(t, c) = [buffer |-> b, x |-> t.x + 1, y |-> t.y]  BY <1>5, <1>6 DEF Advance
    <2>2. t.x + 1 \in 0 .. Columns - 1  BY <1>1, <1>6, Sizes
    <2>3. Put(t, c) \in Terminals  BY <1>1, <1>2, <2>1, <2>2 DEF Terminals
    <2>4. Cell(Put(t, c)) = Cell(t) + 1
        <3>1. t.y * Columns \in Nat  BY <1>1, Sizes, RowBegins
        <3>2. Cell(Put(t, c)) = t.y * Columns + (t.x + 1)  BY <2>1 DEF Cell
        <3>3. QED  BY <1>1, <3>1, <3>2 DEF Cell
    <2>5. QED  BY <1>6, <2>1, <2>3, <2>4 DEF b
<1>7. CASE ~(t.x + 1 < Columns) /\ t.y + 1 < Rows
    <2>1. Put(t, c) = [buffer |-> b, x |-> 0, y |-> t.y + 1]  BY <1>5, <1>7 DEF Advance
    <2>2. t.y + 1 \in 0 .. Rows - 1 /\ 0 \in 0 .. Columns - 1 /\ t.x = Columns - 1
        BY <1>1, <1>7, Sizes
    <2>3. Put(t, c) \in Terminals  BY <1>2, <2>1, <2>2 DEF Terminals
    <2>4. Cell(Put(t, c)) = Cell(t) + 1
        <3>1. t.y * Columns \in Nat /\ (t.y + 1) * Columns = t.y * Columns + Columns
            BY <1>1, Sizes, RowBegins, NextRow
        <3>2. Cell(Put(t, c)) = (t.y + 1) * Columns + 0  BY <2>1 DEF Cell
        <3>3. QED  BY <2>2, <3>1, <3>2, Sizes DEF Cell
    <2>5. QED  BY <1>7, <2>1, <2>3, <2>4 DEF b
<1>8. CASE ~(t.x + 1 < Columns) /\ ~(t.y + 1 < Rows)
    <2>1. Put(t, c) = [buffer |-> b, x |-> 0, y |-> Rows - 1]  BY <1>5, <1>8 DEF Advance
    <2>2. /\ Rows - 1 \in 0 .. Rows - 1 /\ 0 \in 0 .. Columns - 1
          /\ t.x = Columns - 1 /\ t.y = Rows - 1
        BY <1>1, <1>8, Sizes
    <2>3. Put(t, c) \in Terminals  BY <1>2, <2>1, <2>2 DEF Terminals
    <2>4. QED  BY <1>8, <2>1, <2>2, <2>3 DEF b
<1>9. QED  BY <1>6, <1>7, <1>8

LEMMA PutTyped ==
    ASSUME NEW t \in Terminals, NEW c \in Printable
    PROVE  Put(t, c) \in Terminals
<1>1. CASE c = Newline  BY <1>1, NewLineTyped DEF Put
<1>2. CASE c \in Glyphs  BY <1>2, PutPrints
<1>3. QED  BY <1>1, <1>2 DEF Printable

\* An erasure steps back by one cell within the row.
LEMMA RuboutErases ==
    ASSUME NEW t \in Terminals
    PROVE  /\ Rubout(t) \in Terminals
           /\ t.x > 0 => /\ Cell(Rubout(t)) = Cell(t) - 1
                         /\ Rubout(t).buffer = [t.buffer EXCEPT ![Cell(t) - 1] = Blank]
<1>1. /\ t.x \in 0 .. Columns - 1 /\ t.y \in 0 .. Rows - 1 /\ t.buffer \in [Cells -> Glyphs]
      /\ t = [buffer |-> t.buffer, x |-> t.x, y |-> t.y]
    BY DEF Terminals
<1>2. CASE t.x = 0  BY <1>2 DEF Rubout
<1>3. CASE t.x # 0
    <2> DEFINE u == [t EXCEPT !.x = @ - 1]
               b == [t.buffer EXCEPT ![Cell(u)] = Blank]
    <2>1. u = [buffer |-> t.buffer, x |-> t.x - 1, y |-> t.y]  BY <1>1
    <2>2. Rubout(t) = [u EXCEPT !.buffer[Cell(u)] = Blank]  BY <1>3 DEF Rubout
    <2>3. Rubout(t) = [buffer |-> b, x |-> t.x - 1, y |-> t.y]  BY <2>1, <2>2
    <2>4. t.x - 1 \in 0 .. Columns - 1  BY <1>1, <1>3, Sizes
    <2>5. b \in [Cells -> Glyphs]  BY <1>1, CharsPrint
    <2>6. t.y * Columns \in Nat  BY <1>1, Sizes, RowBegins
    <2>7. Cell(u) = t.y * Columns + (t.x - 1)  BY <2>1 DEF Cell
    <2>8. Cell(u) = Cell(t) - 1  BY <1>1, <2>6, <2>7 DEF Cell
    <2> HIDE DEF u, b
    <2>9. Cell(Rubout(t)) = Cell(u)  BY <2>3, <2>7 DEF Cell
    <2>10. Rubout(t) \in Terminals  BY <1>1, <2>3, <2>4, <2>5 DEF Terminals
    <2>11. Rubout(t).buffer = [t.buffer EXCEPT ![Cell(t) - 1] = Blank]
        BY <2>3, <2>8 DEF b
    <2>12. QED  BY <2>8, <2>9, <2>10, <2>11
<1>4. QED  BY <1>2, <1>3

-----------------------------------------------------------------------------
(* What printing a string leaves.                                            *)

LEMMA WrittenTyped ==
    ASSUME NEW t \in Terminals, NEW s \in Seq(Printable)
    PROVE  \A i \in 0 .. Len(s) : Written(t, s)[i] \in Terminals
<1> DEFINE S == {i \in Nat : i <= Len(s) => Written(t, s)[i] \in Terminals}
<1>1. Len(s) \in Nat  OBVIOUS
<1>2. 0 \in S
    <2>1. Written(t, s)[0] \in Terminals  BY WrittenUnfolds
    <2>2. QED  BY <2>1
<1>3. ASSUME NEW i \in Nat, i \in S PROVE i + 1 \in S
    <2>1. SUFFICES ASSUME i + 1 <= Len(s) PROVE Written(t, s)[i + 1] \in Terminals  OBVIOUS
    <2>2. PICK j \in 1 .. Len(s) : j = i + 1  BY <1>1, <2>1
    <2>3. j - 1 = i /\ i <= Len(s)  BY <1>1, <2>1, <2>2
    <2>4. Written(t, s)[i] \in Terminals  BY <1>3, <2>3
    <2>5. Written(t, s)[j] = Put(Written(t, s)[j - 1], s[j])  BY WrittenUnfolds
    <2>6. s[j] \in Printable  OBVIOUS
    <2>7. Put(Written(t, s)[i], s[j]) \in Terminals  BY <2>4, <2>6, PutTyped
    <2>8. QED  BY <2>2, <2>3, <2>5, <2>7
<1>4. \A i \in Nat : i \in S
    <2> HIDE DEF S
    <2>1. QED  BY <1>2, <1>3, SetInduction
<1>5. QED  BY <1>1, <1>4

LEMMA WriteTyped ==
    ASSUME NEW t \in Terminals, NEW s \in Seq(Printable)
    PROVE  Write(t, s) \in Terminals
<1>1. Len(s) \in 0 .. Len(s)  OBVIOUS
<1>2. QED  BY <1>1, WrittenTyped DEF Write

\* A text that ends with a new line leaves the cursor at the beginning of a row.
LEMMA WriteEndsLine ==
    ASSUME NEW t \in Terminals, NEW s \in Seq(Printable), s # <<>>, s[Len(s)] = Newline
    PROVE  Write(t, s).x = 0
<1>1. Len(s) \in 1 .. Len(s) /\ Len(s) - 1 \in 0 .. Len(s)  OBVIOUS
<1>2. Written(t, s)[Len(s)] = Put(Written(t, s)[Len(s) - 1], Newline)  BY <1>1, WrittenUnfolds
<1>3. PICK u \in Terminals : u = Written(t, s)[Len(s) - 1]  BY <1>1, WrittenTyped
<1>4. Put(u, Newline).x = 0  BY NewLineTyped DEF Put
<1>5. QED  BY <1>2, <1>3, <1>4 DEF Write

LEMMA WriteNothing ==
    ASSUME NEW t
    PROVE  Write(t, <<>>) = t
<1>1. <<>> \in Seq(Printable) /\ Len(<<>>) = 0  OBVIOUS
<1>2. Written(t, <<>>)[0] = t  BY <1>1, WrittenUnfolds
<1>3. QED  BY <1>1, <1>2 DEF Write

\* A text shorter than a row, printed at the beginning of one, stands there.
LEMMA WriteInRow ==
    ASSUME NEW t \in Terminals, t.x = 0, NEW s \in Seq(Glyphs), Len(s) < Columns
    PROVE  LET u == Write(t, s)
           IN  /\ u.x = Len(s) /\ u.y = t.y /\ Cell(u) = Cell(t) + Len(s)
               /\ \A i \in 1 .. Len(s) : u.buffer[Cell(t) + i - 1] = s[i]
<1> DEFINE w == Written(t, s)
           Stands(i) == /\ w[i].x = i /\ w[i].y = t.y /\ Cell(w[i]) = Cell(t) + i
                        /\ \A j \in 1 .. i : w[i].buffer[Cell(t) + j - 1] = s[j]
           S == {i \in Nat : i <= Len(s) => Stands(i)}
<1>1. Len(s) \in Nat /\ s \in Seq(Printable)
    <2>1. \A i \in 1 .. Len(s) : s[i] \in Printable  BY DEF Printable
    <2>2. QED  BY <2>1, SeqDef
<1>2. w[0] = t /\ \A i \in 1 .. Len(s) : w[i] = Put(w[i - 1], s[i])  BY WrittenUnfolds
<1>3. \A i \in 0 .. Len(s) : w[i] \in Terminals  BY <1>1, WrittenTyped
<1>4. Cell(t) \in Nat  BY CellTyped
<1> HIDE DEF w
<1>5. 0 \in S
    <2>1. Stands(0)  BY <1>2, <1>4
    <2>2. QED  BY <2>1
<1>6. ASSUME NEW i \in Nat, i \in S PROVE i + 1 \in S
    <2>1. SUFFICES ASSUME i + 1 <= Len(s) PROVE Stands(i + 1)  OBVIOUS
    <2>2. i \in 0 .. Len(s) /\ i + 1 \in 1 .. Len(s) /\ (i + 1) - 1 = i  BY <1>1, <2>1
    <2>3. Stands(i)  BY <1>6, <2>2
    <2>4. PICK v \in Terminals : v = w[i]  BY <1>3, <2>2
    <2>5. PICK c \in Glyphs : c = s[i + 1]  BY <2>2
    <2>6. w[i + 1] = Put(v, c)  BY <1>2, <2>2, <2>4, <2>5
    <2>7. v.x = i /\ v.y = t.y /\ v.x + 1 < Columns  BY <1>1, <2>1, <2>3, <2>4, Sizes
    <2>8. /\ Put(v, c).x = i + 1 /\ Put(v, c).y = t.y
          /\ Put(v, c).buffer = [v.buffer EXCEPT ![Cell(v)] = c]
        BY <2>7, PutPrints
    <2>9. ~(v.x = Columns - 1 /\ v.y = Rows - 1)  BY <2>7, Sizes
    <2>10. Cell(Put(v, c)) = Cell(v) + 1  BY <2>9, PutPrints
    <2>11. Cell(v) = Cell(t) + i  BY <2>3, <2>4
    <2>12. v.buffer \in [Cells -> Glyphs] /\ Cell(v) \in Cells  BY CellTyped DEF Terminals
    <2>13. ASSUME NEW j \in 1 .. i + 1
           PROVE  Put(v, c).buffer[Cell(t) + j - 1] = s[j]
        <3>1. CASE j = i + 1
            <4>1. Cell(t) + j - 1 = Cell(v)  BY <1>4, <2>11, <3>1
            <4>2. QED  BY <2>5, <2>8, <2>12, <3>1, <4>1
        <3>2. CASE j # i + 1
            <4>1. j \in 1 .. i  BY <3>2
            <4>2. Cell(t) + j - 1 # Cell(v) /\ Cell(t) + j - 1 \in Nat
                BY <1>4, <2>11, <4>1
            <4>3. v.buffer[Cell(t) + j - 1] = s[j]  BY <2>3, <2>4, <4>1
            <4>4. Cell(t) + j - 1 \in Cells
                <5>1. Cell(t) + j - 1 <= Cell(v)  BY <1>4, <2>11, <4>1
                <5>2. QED  BY <2>12, <4>2, <5>1, Sizes DEF Cells
            <4>5. QED  BY <2>8, <2>12, <4>2, <4>3, <4>4
        <3>3. QED  BY <3>1, <3>2
    <2>14. Cell(Put(v, c)) = Cell(t) + (i + 1)  BY <1>4, <2>10, <2>11
    <2>15. QED  BY <2>6, <2>8, <2>13, <2>14
<1>7. \A i \in Nat : i \in S
    <2> HIDE DEF S
    <2>1. QED  BY <1>5, <1>6, SetInduction
<1>8. Stands(Len(s))  BY <1>1, <1>7
<1>9. QED  BY <1>8 DEF Write, w

-----------------------------------------------------------------------------
(* The command line and what a command does to the screen.                   *)

Line(b, n) == [i \in 1 .. n |-> b[i - 1]]

LEMMA LineTyped ==
    ASSUME NEW n \in Nat, NEW b, \A i \in 0 .. n - 1 : b[i] \in Char
    PROVE  Line(b, n) \in Seq(Char) /\ Len(Line(b, n)) = n
<1>1. \A i \in 1 .. n : i - 1 \in 0 .. n - 1  OBVIOUS
<1>2. Line(b, n) \in [1 .. n -> Char]  BY <1>1 DEF Line
<1>3. QED  BY <1>2

\* The string in the buffer is the line, whatever is left behind it of longer ones.
LEMMA StringIsLine ==
    ASSUME NEW b \in [0 .. BufferSize - 1 -> Char \cup {Nul}], NEW n \in 0 .. BufferSize - 1,
           \A i \in 0 .. n - 1 : b[i] \in Char
    PROVE  String(Terminated(b, n)) = Line(b, n)
<1> DEFINE e == Terminated(b, n)
           Ends == {i \in DOMAIN e : e[i] = Nul}
<1>1. /\ DOMAIN e = 0 .. BufferSize - 1 /\ e[n] = Nul
      /\ \A i \in 0 .. BufferSize - 1 : i # n => e[i] = b[i]
    BY Sizes DEF Terminated
<1> HIDE DEF e
<1>2. n \in Ends  BY <1>1
<1>3. \A i \in Ends : i \in Nat /\ n <= i
    <2>1. ASSUME NEW i \in 0 .. BufferSize - 1, i < n PROVE e[i] # Nul
        <3>1. i \in 0 .. n - 1 /\ i # n  BY <2>1, Sizes
        <3>2. e[i] \in Char  BY <1>1, <3>1
        <3>3. QED  BY <3>2, CharsPrint
    <2>2. QED  BY <1>1, <2>1, Sizes
<1> HIDE DEF Ends
<1>4. Min(Ends) = n
    <2>1. n \in Nat  BY Sizes
    <2>2. \A i \in Ends : (\A j \in Ends : i <= j) => i = n  BY <1>2, <1>3, <2>1
    <2>3. QED  BY <1>2, <1>3, <2>2 DEF Min
<1>5. String(e) = [i \in 1 .. n |-> e[i - 1]]  BY <1>4 DEF String, Ends
<1>6. \A i \in 1 .. n : e[i - 1] = b[i - 1]
    <2>1. \A i \in 1 .. n : i - 1 \in 0 .. BufferSize - 1 /\ i - 1 # n  BY Sizes
    <2>2. QED  BY <1>1, <2>1
<1>7. QED  BY <1>5, <1>6 DEF Line, e

\* A text that leaves the cursor at the beginning of a row it was at the beginning of.
EndsLine(s) == s # <<>> => s[Len(s)] = Newline

LEMMA OneOfFour ==
    ASSUME NEW p \in BOOLEAN, NEW q \in BOOLEAN, NEW r \in BOOLEAN, NEW a, NEW b, NEW c, NEW d
    PROVE  (CASE p -> a [] q -> b [] r -> c [] OTHER -> d) \in {a, b, c, d}
OBVIOUS

LEMMA OutputEndsLine ==
    ASSUME NEW cmd \in Seq(Char)
    PROVE  Output(cmd) \in Seq(Printable) /\ EndsLine(Output(cmd))
<1>1. \A s \in Seq(Char) : s \in Seq(Printable)
    <2>1. Char \subseteq Printable  BY CharsPrint DEF Printable
    <2>2. QED  BY <2>1
<1>2. HelpText \in Seq(Printable) /\ EndsLine(HelpText) /\ UnknownText \in Seq(Printable)
    BY TerminalAssumption DEF Printable, EndsLine, Last
<1>3. Newline \in Printable  BY DEF Printable
<1>4. ASSUME NEW s \in Seq(Printable)
      PROVE  s \o <<Newline>> \in Seq(Printable) /\ EndsLine(s \o <<Newline>>)
    BY <1>3 DEF EndsLine
<1>5. SubSeq(cmd, Len(Echo) + 1, Len(cmd)) \in Seq(Printable)
    <2>1. Echo \in Seq(Char)  BY TerminalAssumption DEF CommandNames
    <2>2. Len(Echo) + 1 \in Nat /\ Len(Echo) + 1 >= 1  BY <2>1
    <2>3. SubSeq(cmd, Len(Echo) + 1, Len(cmd)) \in Seq(Char)  BY <2>2
    <2>4. QED  BY <1>1, <2>3
<1>6. UnknownText \o cmd \in Seq(Printable)  BY <1>1, <1>2
<1>7. <<>> \in Seq(Printable) /\ EndsLine(<<>>)  BY DEF EndsLine
<1>8. \/ Output(cmd) = HelpText
      \/ Output(cmd) = SubSeq(cmd, Len(Echo) + 1, Len(cmd)) \o <<Newline>>
      \/ Output(cmd) = <<>>
      \/ Output(cmd) = UnknownText \o cmd \o <<Newline>>
    <2>1. PICK help, echo, silent \in BOOLEAN :
              /\ help = IsPrefix(Help, cmd)
              /\ echo = IsPrefix(Echo, cmd)
              /\ silent = (cmd = <<>> \/ (\E b \in DOMAIN Backgrounds : IsPrefix(b, cmd)))
        BY DEF IsPrefix
    <2>2. PICK echoed : echoed = SubSeq(cmd, Len(Echo) + 1, Len(cmd)) \o <<Newline>>  OBVIOUS
    <2>3. PICK unknown : unknown = UnknownText \o cmd \o <<Newline>>  OBVIOUS
    <2>4. Output(cmd) = CASE help -> HelpText [] echo -> echoed [] silent -> <<>>
                          [] OTHER -> unknown
        BY <2>1, <2>2, <2>3, Zenon DEF Output
    <2>5. Output(cmd) \in {HelpText, echoed, <<>>, unknown}
        BY <2>4, OneOfFour
    <2>6. QED  BY <2>2, <2>3, <2>5
<1>9. QED  BY <1>2, <1>4, <1>5, <1>6, <1>7, <1>8

LEMMA WriteLines ==
    ASSUME NEW t \in Terminals, t.x = 0, NEW s \in Seq(Printable), EndsLine(s)
    PROVE  Write(t, s) \in Terminals /\ Write(t, s).x = 0
<1>1. CASE s = <<>>  BY <1>1, WriteNothing
<1>2. CASE s # <<>>  BY <1>2, WriteTyped, WriteEndsLine DEF EndsLine
<1>3. QED  BY <1>1, <1>2

LEMMA ExecuteEndsLine ==
    ASSUME NEW t \in Terminals, t.x = 0, NEW cmd \in Seq(Char)
    PROVE  Execute(t, cmd) \in Terminals /\ Execute(t, cmd).x = 0
<1>1. CASE IsPrefix(Clear, cmd)  BY <1>1, ClearedTyped DEF Execute
<1>2. CASE ~IsPrefix(Clear, cmd)  BY <1>2, OutputEndsLine, WriteLines DEF Execute
<1>3. QED  BY <1>1, <1>2

-----------------------------------------------------------------------------
(* The inductive invariant.                                                  *)

LineFrom == Cell(terminal) - Len(Prompt) - input_pos

LineStands ==
    /\ LineFrom \in Nat /\ LineFrom % Columns = 0
    /\ \A i \in 1 .. Len(Prompt) : terminal.buffer[LineFrom + i - 1] = Prompt[i]
    /\ \A i \in 0 .. input_pos - 1 :
           terminal.buffer[LineFrom + Len(Prompt) + i] = input_buffer[i]

TerminalInv ==
    /\ TerminalTypeOK
    /\ \A i \in 0 .. input_pos - 1 : input_buffer[i] \in Char
    /\ ~torn => LineStands

LEMMA TypesOf ==
    ASSUME TerminalTypeOK
    PROVE  /\ terminal \in Terminals /\ terminal.buffer \in [Cells -> Glyphs]
           /\ Cell(terminal) \in Cells /\ Cell(terminal) \in Nat
           /\ input_buffer \in [0 .. BufferSize - 1 -> Char \cup {Nul}]
           /\ input_pos \in 0 .. BufferSize - 1 /\ input_pos \in Nat
           /\ torn \in BOOLEAN
<1>1. terminal \in Terminals  BY DEF TerminalTypeOK, Terminals
<1>2. QED  BY <1>1, CellTyped, Sizes DEF TerminalTypeOK, Terminals

LEMMA Concatenated ==
    ASSUME NEW C, NEW D, NEW s \in Seq(C), NEW t \in Seq(D)
    PROVE  /\ Len(s \o t) = Len(s) + Len(t)
           /\ \A i \in 1 .. Len(s) + Len(t) :
                  (s \o t)[i] = IF i <= Len(s) THEN s[i] ELSE t[i - Len(s)]
<1>1. s \in Seq(C \cup D) /\ t \in Seq(C \cup D)  OBVIOUS
<1>2. QED  BY <1>1

LEMMA AppendAsFunction ==
    ASSUME NEW C, NEW s \in Seq(C), NEW c \in C, NEW n \in Nat, n = Len(s)
    PROVE  Append(s, c) = [i \in 1 .. n + 1 |-> IF i = n + 1 THEN c ELSE s[i]]
<1> DEFINE a == Append(s, c)
           b == [i \in 1 .. n + 1 |-> IF i = n + 1 THEN c ELSE s[i]]
<1>1. /\ a \in Seq(C) /\ Len(a) = n + 1 /\ a[n + 1] = c
      /\ \A i \in 1 .. n : a[i] = s[i]
    BY AppendProperties
<1> HIDE DEF a
<1>2. a \in [1 .. n + 1 -> C]  BY <1>1
<1>3. \A i \in 1 .. n + 1 : i # n + 1 => i \in 1 .. n  OBVIOUS
<1>4. \A i \in 1 .. n + 1 : a[i] = b[i]  BY <1>1, <1>3
<1>5. a = b  BY <1>2, <1>4
<1>6. QED  BY <1>5 DEF a

\* A prompt printed at the beginning of a row begins an empty line.
LEMMA PromptStarts ==
    ASSUME NEW t \in Terminals, t.x = 0
    PROVE  LET u == Write(t, Prompt)
               from == Cell(u) - Len(Prompt) - 0
           IN  /\ u \in Terminals
               /\ from \in Nat /\ from % Columns = 0
               /\ \A i \in 1 .. Len(Prompt) : u.buffer[from + i - 1] = Prompt[i]
<1> DEFINE u == Write(t, Prompt)
<1>1. Prompt \in Seq(Glyphs) /\ Len(Prompt) < Columns  BY TerminalAssumption
<1>2. Prompt \in Seq(Printable)
    <2>1. Glyphs \subseteq Printable  BY DEF Printable
    <2>2. QED  BY <1>1, <2>1
<1>3. u \in Terminals  BY <1>2, WriteTyped
<1>4. /\ Cell(u) = Cell(t) + Len(Prompt)
      /\ \A i \in 1 .. Len(Prompt) : u.buffer[Cell(t) + i - 1] = Prompt[i]
    BY <1>1, WriteInRow
<1> HIDE DEF u
<1>5. Cell(t) \in Nat /\ Cell(t) % Columns = 0
    <2>1. t.y \in Nat  BY Sizes DEF Terminals
    <2>2. t.y * Columns \in Nat /\ (t.y * Columns) % Columns = 0  BY <2>1, Sizes, RowBegins
    <2>3. Cell(t) = t.y * Columns  BY <2>2 DEF Cell
    <2>4. QED  BY <2>2, <2>3
<1>6. Cell(u) - Len(Prompt) - 0 = Cell(t)  BY <1>4, <1>5, Sizes
<1>7. QED  BY <1>3, <1>4, <1>5, <1>6 DEF u

LEMMA TerminalInit ==
    ASSUME Init
    PROVE  TerminalInv
<1>1. Greeting \in Seq(Printable) /\ Greeting # <<>> /\ Greeting[Len(Greeting)] = Newline
    BY TerminalAssumption DEF Printable, Last
<1>2. PICK t \in Terminals : t = Write(ClearedTerminal, Greeting) /\ t.x = 0
    BY <1>1, ClearedTyped, WriteTyped, WriteEndsLine
<1>3. terminal = Write(t, Prompt)  BY <1>2 DEF Init
<1>4. input_pos = 0 /\ torn = FALSE /\ terminal_bg_color = Black  BY DEF Init
<1>5. input_buffer \in [0 .. BufferSize - 1 -> Char \cup {Nul}]  BY DEF Init
<1>6. terminal \in Terminals  BY <1>2, <1>3, PromptStarts
<1>7. TerminalTypeOK
    <2>1. 0 \in 0 .. BufferSize - 1  BY Sizes
    <2>2. QED  BY <1>4, <1>5, <1>6, <2>1 DEF TerminalTypeOK, Terminals
<1>8. \A i \in 0 .. input_pos - 1 : FALSE  BY <1>4
<1>9. LineStands
    <2>1. LineFrom = Cell(terminal) - Len(Prompt) - 0  BY <1>4 DEF LineFrom
    <2>2. /\ LineFrom \in Nat /\ LineFrom % Columns = 0
          /\ \A i \in 1 .. Len(Prompt) : terminal.buffer[LineFrom + i - 1] = Prompt[i]
        BY <1>2, <1>3, <2>1, PromptStarts
    <2>3. QED  BY <1>8, <2>2 DEF LineStands
<1>10. QED  BY <1>7, <1>8, <1>9 DEF TerminalInv

LEMMA TypeCharKeeps ==
    ASSUME TerminalInv, NEW c \in Char, TypeChar(c)
    PROVE  TerminalInv'
<1> USE DEF TerminalInv
<1>1. /\ terminal \in Terminals /\ terminal.buffer \in [Cells -> Glyphs]
      /\ Cell(terminal) \in Cells /\ Cell(terminal) \in Nat
      /\ input_buffer \in [0 .. BufferSize - 1 -> Char \cup {Nul}]
      /\ input_pos \in 0 .. BufferSize - 1 /\ input_pos \in Nat /\ torn \in BOOLEAN
    BY TypesOf
<1>2. /\ input_buffer' = [input_buffer EXCEPT ![input_pos] = c]
      /\ input_pos' = input_pos + 1 /\ input_pos < BufferSize - 1
      /\ terminal' = Put(terminal, c)
      /\ torn' = (torn \/ (terminal.x = Columns - 1 /\ terminal.y = Rows - 1))
      /\ terminal_bg_color' = terminal_bg_color
    BY DEF TypeChar
<1>3. c \in Glyphs  BY CharsPrint
<1>4. /\ terminal' \in Terminals
      /\ terminal'.buffer = [terminal.buffer EXCEPT ![Cell(terminal)] = c]
      /\ ~(terminal.x = Columns - 1 /\ terminal.y = Rows - 1) =>
             Cell(terminal') = Cell(terminal) + 1
    BY <1>1, <1>2, <1>3, PutPrints
<1>5. TerminalTypeOK'
    <2>1. input_buffer' \in [0 .. BufferSize - 1 -> Char \cup {Nul}]  BY <1>1, <1>2
    <2>2. input_pos' \in 0 .. BufferSize - 1  BY <1>1, <1>2, Sizes
    <2>3. torn' \in BOOLEAN  BY <1>1, <1>2
    <2>4. QED  BY <1>2, <1>4, <2>1, <2>2, <2>3 DEF TerminalTypeOK, Terminals
<1>6. \A i \in 0 .. input_pos' - 1 :
          /\ input_buffer'[i] = IF i = input_pos THEN c ELSE input_buffer[i]
          /\ i # input_pos => i \in 0 .. input_pos - 1
    BY <1>1, <1>2, Sizes
<1>7. \A i \in 0 .. input_pos' - 1 : input_buffer'[i] \in Char  BY <1>6
<1>8. ASSUME ~torn'
      PROVE  LineStands'
    <2>1. LineStands /\ Cell(terminal') = Cell(terminal) + 1  BY <1>2, <1>4, <1>8
    <2>2. PICK from \in Nat : from = LineFrom /\ from % Columns = 0  BY <2>1 DEF LineStands
    <2>3. LineFrom' = from
        <3>1. LineFrom' = Cell(terminal') - Len(Prompt) - input_pos'  BY DEF LineFrom
        <3>2. QED  BY <1>1, <1>2, <2>1, <2>2, <3>1, Sizes DEF LineFrom
    <2>4. Cell(terminal) = from + Len(Prompt) + input_pos
        BY <1>1, <2>2, Sizes DEF LineFrom
    <2>5. \A i \in 0 .. Len(Prompt) + input_pos - 1 :
              terminal'.buffer[from + i] = terminal.buffer[from + i]
        <3>1. ASSUME NEW i \in 0 .. Len(Prompt) + input_pos - 1
              PROVE  from + i \in Cells /\ from + i # Cell(terminal)
            BY <1>1, <2>4, Sizes DEF Cells
        <3>2. QED  BY <1>1, <1>4, <3>1
    <2>6. ASSUME NEW i \in 1 .. Len(Prompt)
          PROVE  terminal'.buffer[from + i - 1] = Prompt[i]
        <3>1. PICK j \in 0 .. Len(Prompt) + input_pos - 1 : j = i - 1  BY <1>1, Sizes
        <3>2. from + j = from + i - 1  BY <3>1
        <3>3. terminal.buffer[from + i - 1] = Prompt[i]  BY <2>1, <2>2 DEF LineStands
        <3>4. QED  BY <2>5, <3>2, <3>3
    <2>7. ASSUME NEW i \in 0 .. input_pos' - 1
          PROVE  terminal'.buffer[from + Len(Prompt) + i] = input_buffer'[i]
        <3>1. CASE i = input_pos
            <4>1. from + Len(Prompt) + i = Cell(terminal)  BY <2>4, <3>1
            <4>2. QED  BY <1>1, <1>4, <1>6, <3>1, <4>1
        <3>2. CASE i # input_pos
            <4>1. i \in 0 .. input_pos - 1 /\ input_buffer'[i] = input_buffer[i]  BY <1>6, <3>2
            <4>2. terminal.buffer[from + Len(Prompt) + i] = input_buffer[i]
                BY <2>1, <2>2, <4>1 DEF LineStands
            <4>3. PICK j \in 0 .. Len(Prompt) + input_pos - 1 : j = Len(Prompt) + i
                BY <1>1, <4>1, Sizes
            <4>4. from + j = from + Len(Prompt) + i  BY <4>1, <4>3, Sizes
            <4>5. QED  BY <2>5, <4>1, <4>2, <4>4
        <3>3. QED  BY <3>1, <3>2
    <2>8. QED  BY <2>2, <2>3, <2>6, <2>7 DEF LineStands
<1>9. QED  BY <1>5, <1>7, <1>8

LEMMA EraseCharKeeps ==
    ASSUME TerminalInv, EraseChar
    PROVE  TerminalInv'
<1> USE DEF TerminalInv
<1>1. /\ terminal \in Terminals /\ terminal.buffer \in [Cells -> Glyphs]
      /\ Cell(terminal) \in Cells /\ Cell(terminal) \in Nat
      /\ input_buffer \in [0 .. BufferSize - 1 -> Char \cup {Nul}]
      /\ input_pos \in 0 .. BufferSize - 1 /\ input_pos \in Nat /\ torn \in BOOLEAN
    BY TypesOf
<1>2. /\ input_pos > 0 /\ input_pos' = input_pos - 1
      /\ terminal' = Rubout(terminal) /\ torn' = (torn \/ terminal.x = 0)
      /\ input_buffer' = input_buffer /\ terminal_bg_color' = terminal_bg_color
    BY DEF EraseChar
<1>3. /\ terminal' \in Terminals
      /\ terminal.x > 0 =>
             /\ Cell(terminal') = Cell(terminal) - 1
             /\ terminal'.buffer = [terminal.buffer EXCEPT ![Cell(terminal) - 1] = Blank]
    BY <1>1, <1>2, RuboutErases
<1>4. TerminalTypeOK'
    <2>1. input_pos' \in 0 .. BufferSize - 1  BY <1>1, <1>2, Sizes
    <2>2. torn' \in BOOLEAN  BY <1>1, <1>2
    <2>3. QED  BY <1>1, <1>2, <1>3, <2>1, <2>2 DEF TerminalTypeOK, Terminals
<1>5. \A i \in 0 .. input_pos' - 1 : i \in 0 .. input_pos - 1  BY <1>1, <1>2
<1>6. \A i \in 0 .. input_pos' - 1 : input_buffer'[i] \in Char  BY <1>2, <1>5
<1>7. ASSUME ~torn'
      PROVE  LineStands'
    <2>1. terminal.x > 0  BY <1>1, <1>2, <1>7, Sizes DEF Terminals
    <2>2. LineStands  BY <1>2, <1>7
    <2>3. PICK from \in Nat : from = LineFrom /\ from % Columns = 0  BY <2>2 DEF LineStands
    <2>4. LineFrom' = from
        <3>1. LineFrom' = Cell(terminal') - Len(Prompt) - input_pos'  BY DEF LineFrom
        <3>2. QED  BY <1>1, <1>2, <1>3, <2>1, <2>3, <3>1, Sizes DEF LineFrom
    <2>5. Cell(terminal) = from + Len(Prompt) + input_pos
        BY <1>1, <2>3, Sizes DEF LineFrom
    <2>6. \A i \in 0 .. Len(Prompt) + input_pos - 2 :
              terminal'.buffer[from + i] = terminal.buffer[from + i]
        <3>1. ASSUME NEW i \in 0 .. Len(Prompt) + input_pos - 2
              PROVE  from + i \in Cells /\ from + i # Cell(terminal) - 1
            BY <1>1, <2>5, Sizes DEF Cells
        <3>2. QED  BY <1>1, <1>3, <2>1, <3>1
    <2>7. ASSUME NEW i \in 1 .. Len(Prompt)
          PROVE  terminal'.buffer[from + i - 1] = Prompt[i]
        <3>1. PICK j \in 0 .. Len(Prompt) + input_pos - 2 : j = i - 1  BY <1>1, <1>2, Sizes
        <3>2. from + j = from + i - 1  BY <3>1
        <3>3. terminal.buffer[from + i - 1] = Prompt[i]  BY <2>2, <2>3 DEF LineStands
        <3>4. QED  BY <2>6, <3>2, <3>3
    <2>8. ASSUME NEW i \in 0 .. input_pos' - 1
          PROVE  terminal'.buffer[from + Len(Prompt) + i] = input_buffer'[i]
        <3>1. terminal.buffer[from + Len(Prompt) + i] = input_buffer[i]
            BY <1>5, <2>2, <2>3 DEF LineStands
        <3>2. PICK j \in 0 .. Len(Prompt) + input_pos - 2 : j = Len(Prompt) + i
            BY <1>1, <1>2, Sizes
        <3>3. from + j = from + Len(Prompt) + i  BY <1>1, <1>2, <3>2, Sizes
        <3>4. QED  BY <1>2, <2>6, <3>1, <3>3
    <2>9. QED  BY <2>3, <2>4, <2>7, <2>8 DEF LineStands
<1>8. QED  BY <1>4, <1>6, <1>7

LEMMA EnterKeeps ==
    ASSUME TerminalInv, Enter
    PROVE  TerminalInv' /\ command' = Line(input_buffer, input_pos)
<1>1. /\ terminal \in Terminals
      /\ input_buffer \in [0 .. BufferSize - 1 -> Char \cup {Nul}]
      /\ input_pos \in 0 .. BufferSize - 1 /\ input_pos \in Nat
      /\ \A i \in 0 .. input_pos - 1 : input_buffer[i] \in Char
    BY TypesOf DEF TerminalInv
<1>2. /\ input_buffer' = Terminated(input_buffer, input_pos) /\ input_pos' = 0
      /\ command' = String(input_buffer') /\ torn' = FALSE
      /\ terminal' = Write(Execute(Put(terminal, Newline), command'), Prompt)
      /\ terminal_bg_color' = NewBackground(command')
    BY DEF Enter
<1>3. command' = Line(input_buffer, input_pos) /\ command' \in Seq(Char)
    <2>1. String(Terminated(input_buffer, input_pos)) = Line(input_buffer, input_pos)
        BY <1>1, StringIsLine
    <2>2. Line(input_buffer, input_pos) \in Seq(Char)  BY <1>1, LineTyped
    <2>3. QED  BY <1>2, <2>1, <2>2
<1>4. PICK cmd \in Seq(Char) : cmd = command'  BY <1>3
<1>5. PICK t \in Terminals : t = Put(terminal, Newline) /\ t.x = 0
    BY <1>1, NewLineTyped DEF Put
<1>6. PICK u \in Terminals : u = Execute(t, cmd) /\ u.x = 0  BY <1>5, ExecuteEndsLine
<1>7. terminal' = Write(u, Prompt)  BY <1>2, <1>4, <1>5, <1>6
<1>8. /\ terminal' \in Terminals
      /\ Cell(terminal') - Len(Prompt) - 0 \in Nat
      /\ (Cell(terminal') - Len(Prompt) - 0) % Columns = 0
      /\ \A i \in 1 .. Len(Prompt) :
             terminal'.buffer[Cell(terminal') - Len(Prompt) - 0 + i - 1] = Prompt[i]
    BY <1>6, <1>7, PromptStarts
<1>9. terminal_bg_color' \in {Black} \cup {Backgrounds[b] : b \in DOMAIN Backgrounds}
    <2>1. terminal_bg_color \in {Black} \cup {Backgrounds[b] : b \in DOMAIN Backgrounds}
        BY DEF TerminalInv, TerminalTypeOK
    <2>2. terminal_bg_color' = NewBackground(cmd)  BY <1>2, <1>4
    <2>3. CASE \E b \in DOMAIN Backgrounds : IsPrefix(b, cmd)
        <3>1. PICK b \in DOMAIN Backgrounds :
                  b = CHOOSE c \in DOMAIN Backgrounds : IsPrefix(c, cmd)
            BY <2>3, Zenon
        <3>2. terminal_bg_color' = Backgrounds[b]  BY <2>2, <2>3, <3>1, Zenon DEF NewBackground
        <3>3. QED  BY <3>2
    <2>4. CASE ~ \E b \in DOMAIN Backgrounds : IsPrefix(b, cmd)
        <3>1. terminal_bg_color' = terminal_bg_color  BY <2>2, <2>4, Zenon DEF NewBackground
        <3>2. QED  BY <2>1, <3>1
    <2>5. QED  BY <2>3, <2>4
<1>10. TerminalTypeOK'
    <2>1. input_buffer' \in [0 .. BufferSize - 1 -> Char \cup {Nul}]
        BY <1>1, <1>2 DEF Terminated
    <2>2. 0 \in 0 .. BufferSize - 1  BY Sizes
    <2>3. QED  BY <1>2, <1>8, <1>9, <2>1, <2>2 DEF TerminalTypeOK, Terminals
<1>11. \A i \in 0 .. input_pos' - 1 : FALSE  BY <1>2
<1>12. LineStands'
    <2>1. LineFrom' = Cell(terminal') - Len(Prompt) - 0  BY <1>2 DEF LineFrom
    <2>2. QED  BY <1>8, <1>11, <2>1 DEF LineStands
<1>13. QED  BY <1>3, <1>10, <1>11, <1>12 DEF TerminalInv

LEMMA TerminalNext ==
    ASSUME TerminalInv, [Next]_vars
    PROVE  TerminalInv'
<1>1. CASE NothingTyped
    <2>1. /\ terminal' = terminal /\ input_buffer' = input_buffer /\ input_pos' = input_pos
          /\ terminal_bg_color' = terminal_bg_color /\ torn' = torn
        BY <1>1 DEF NothingTyped
    <2>2. QED
        BY <2>1 DEF TerminalInv, TerminalTypeOK, LineStands, LineFrom, Cell
<1>2. CASE \E c \in Char : TypeChar(c)  BY <1>2, TypeCharKeeps
<1>3. CASE EraseChar  BY <1>3, EraseCharKeeps
<1>4. CASE Enter  BY <1>4, EnterKeeps
<1>5. CASE UNCHANGED vars
    <2>1. /\ terminal' = terminal /\ input_buffer' = input_buffer /\ input_pos' = input_pos
          /\ terminal_bg_color' = terminal_bg_color /\ torn' = torn
        BY <1>5 DEF vars
    <2>2. QED
        BY <2>1 DEF TerminalInv, TerminalTypeOK, LineStands, LineFrom, Cell
<1>6. QED  BY <1>1, <1>2, <1>3, <1>4, <1>5 DEF Next

LEMMA TerminalAlways == Spec => []TerminalInv
BY TerminalInit, TerminalNext, PTL DEF Spec

(***************************************************************************)
(* The cursor stays on the screen and the line in its buffer, and what     *)
(* Enter runs is what the frame shows from the beginning of a row to the   *)
(* cursor, unless the line was torn (mainloop.c:29-62, :124-196).          *)
(***************************************************************************)
THEOREM TerminalShowsTheLine == Spec => EnterRunsWhatIsShown
<1>1. TerminalInv => TerminalTypeOK  BY DEF TerminalInv
<1>2. TerminalInv /\ [Next]_vars =>
          [Enter /\ ~torn =>
            LET from == Cell(terminal) - Len(Prompt \o command')
            IN  /\ from % Columns = 0
                /\ Shows(frame'.cells, Prompt \o command', from)]_vars
    <2> SUFFICES ASSUME TerminalInv, Enter, ~torn
                 PROVE  LET from == Cell(terminal) - Len(Prompt \o command')
                        IN  /\ from % Columns = 0
                            /\ Shows(frame'.cells, Prompt \o command', from)
        OBVIOUS
    <2>1. command' = Line(input_buffer, input_pos)  BY EnterKeeps
    <2>2. /\ terminal \in Terminals /\ terminal.buffer \in [Cells -> Glyphs]
          /\ Cell(terminal) \in Cells /\ Cell(terminal) \in Nat
          /\ input_pos \in Nat
          /\ \A i \in 0 .. input_pos - 1 : input_buffer[i] \in Char
          /\ LineStands
        BY TypesOf DEF TerminalInv
    <2>3. PICK cmd \in Seq(Char) :
              cmd = command' /\ Len(cmd) = input_pos
              /\ \A i \in 1 .. input_pos : cmd[i] = input_buffer[i - 1]
        BY <2>1, <2>2, LineTyped DEF Line
    <2>4. Prompt \in Seq(Glyphs)  BY TerminalAssumption
    <2>5. /\ Len(Prompt \o cmd) = Len(Prompt) + input_pos
          /\ \A i \in 1 .. Len(Prompt) + input_pos :
                (Prompt \o cmd)[i] = IF i <= Len(Prompt) THEN Prompt[i] ELSE cmd[i - Len(Prompt)]
        <3>1. /\ Len(Prompt \o cmd) = Len(Prompt) + Len(cmd)
              /\ \A i \in 1 .. Len(Prompt) + Len(cmd) :
                    (Prompt \o cmd)[i] = IF i <= Len(Prompt) THEN Prompt[i]
                                         ELSE cmd[i - Len(Prompt)]
            <4>1. PICK s \in Seq(Glyphs) : s = Prompt  BY <2>4
            <4>2. /\ Len(s \o cmd) = Len(s) + Len(cmd)
                  /\ \A i \in 1 .. Len(s) + Len(cmd) :
                        (s \o cmd)[i] = IF i <= Len(s) THEN s[i] ELSE cmd[i - Len(s)]
                BY Concatenated
            <4>3. QED  BY <4>1, <4>2, Zenon
        <3>2. QED  BY <2>3, <3>1, Zenon
    <2>6. PICK from \in Nat : from = LineFrom /\ from % Columns = 0  BY <2>2 DEF LineStands
    <2>7. from = Cell(terminal) - Len(Prompt \o cmd)
        BY <2>2, <2>5, <2>6, Sizes DEF LineFrom
    <2>8. frame'.cells = [terminal.buffer EXCEPT ![Cell(terminal)] = Cursor]
        BY DEF Enter, Render
    <2>9. ASSUME NEW i \in 1 .. Len(Prompt) + input_pos
          PROVE  frame'.cells[from + i - 1] = (Prompt \o cmd)[i]
        <3>1. from + i - 1 \in Cells /\ from + i - 1 # Cell(terminal)
            BY <2>2, <2>5, <2>7, Sizes DEF Cells
        <3>2. frame'.cells[from + i - 1] = terminal.buffer[from + i - 1]
            BY <2>2, <2>8, <3>1
        <3>3. CASE i <= Len(Prompt)
            <4>1. i \in 1 .. Len(Prompt)  BY <3>3, Sizes
            <4>2. terminal.buffer[from + i - 1] = Prompt[i]  BY <2>2, <2>6, <4>1 DEF LineStands
            <4>3. QED  BY <2>5, <3>2, <3>3, <4>2
        <3>4. CASE i > Len(Prompt)
            <4>8. PICK n \in Nat, k \in Nat : n = input_pos /\ k = Len(Prompt)
                BY <2>2, Sizes
            <4>1. PICK j \in 0 .. input_pos - 1 : j = i - Len(Prompt) - 1
                <5>1. i \in 1 .. k + n /\ i > k  BY <3>4, <4>8
                <5>2. i - k - 1 \in 0 .. n - 1  BY <5>1
                <5>3. QED  BY <4>8, <5>2
            <4>2. from + i - 1 = from + Len(Prompt) + j  BY <4>1, Sizes
            <4>3. terminal.buffer[from + i - 1] = input_buffer[j]
                BY <2>2, <2>6, <4>2 DEF LineStands
            <4>4. i - Len(Prompt) \in 1 .. input_pos /\ (i - Len(Prompt)) - 1 = j
                BY <2>2, <3>4, <4>1, Sizes
            <4>5. cmd[i - Len(Prompt)] = input_buffer[j]  BY <2>3, <4>4
            <4>6. (Prompt \o cmd)[i] = cmd[i - Len(Prompt)]  BY <2>5, <3>4, Sizes
            <4>7. QED  BY <3>2, <4>3, <4>5, <4>6
        <3>5. i \in Int /\ Len(Prompt) \in Nat  BY <2>2, Sizes
        <3>6. i <= Len(Prompt) \/ i > Len(Prompt)  BY <3>5
        <3>7. QED  BY <3>3, <3>4, <3>6, Zenon
    <2>10. QED  BY <2>3, <2>5, <2>6, <2>7, <2>9 DEF Shows
<1>3. QED  BY <1>1, <1>2, TerminalAlways, PTL DEF Spec, EnterRunsWhatIsShown

(***************************************************************************)
(* The buffer, its position and its terminator are the line editor of      *)
(* LineEditor: a step is a step of that editor or changes nothing of it    *)
(* (mainloop.c:168, :174, :179, :184).                                     *)
(***************************************************************************)
THEOREM TerminalImplementsLineEditor == Spec => LineEditorSpec
<1> DEFINE line == Line(input_buffer, input_pos)
<1>1. Init => Editor!Init
    <2> SUFFICES ASSUME Init PROVE line = <<>> /\ command = <<>>
        BY DEF Editor!Init, Line
    <2>1. input_pos = 0 /\ command = <<>>  BY DEF Init
    <2>2. QED  BY <2>1 DEF Line
<1>2. TerminalInv /\ [Next]_vars => [Editor!Next]_<<line, command>>
    <2> SUFFICES ASSUME TerminalInv, [Next]_vars
                 PROVE  Editor!Next \/ (line' = line /\ command' = command)
        OBVIOUS
    <2>1. /\ input_buffer \in [0 .. BufferSize - 1 -> Char \cup {Nul}]
          /\ input_pos \in 0 .. BufferSize - 1 /\ input_pos \in Nat
          /\ \A i \in 0 .. input_pos - 1 : input_buffer[i] \in Char
        BY TypesOf DEF TerminalInv
    <2>2. line \in Seq(Char) /\ Len(line) = input_pos  BY <2>1, LineTyped
    <2>3. \A i \in 1 .. input_pos : line[i] = input_buffer[i - 1]  BY DEF Line
    <2>4. CASE NothingTyped \/ UNCHANGED vars  BY <2>4 DEF NothingTyped, vars, Line
    <2>5. ASSUME NEW c \in Char, TypeChar(c)
          PROVE  Editor!Next
        <3>1. /\ input_buffer' = [input_buffer EXCEPT ![input_pos] = c]
              /\ input_pos' = input_pos + 1 /\ input_pos < BufferSize - 1
              /\ command' = command
            BY <2>5 DEF TypeChar
        <3>2. \A i \in 1 .. input_pos + 1 :
                 input_buffer'[i - 1] = IF i = input_pos + 1 THEN c ELSE input_buffer[i - 1]
            BY <2>1, <3>1
        <3>3. line' = [i \in 1 .. input_pos + 1 |->
                          IF i = input_pos + 1 THEN c ELSE input_buffer[i - 1]]
            BY <3>1, <3>2 DEF Line
        <3>4. line' = Append(line, c)
            <4>1. PICK l \in Seq(Char), n \in Nat : l = line /\ n = input_pos /\ Len(l) = n
                BY <2>1, <2>2
            <4>2. Append(l, c) = [i \in 1 .. n + 1 |-> IF i = n + 1 THEN c ELSE l[i]]
                BY <4>1, AppendAsFunction
            <4>3. \A i \in 1 .. n + 1 : i # n + 1 => l[i] = input_buffer[i - 1]
                BY <2>3, <4>1
            <4>4. line' = [i \in 1 .. n + 1 |-> IF i = n + 1 THEN c ELSE input_buffer[i - 1]]
                BY <3>3, <4>1
            <4>5. line' = Append(l, c)  BY <4>2, <4>3, <4>4
            <4>6. QED  BY <4>1, <4>5
        <3>5. Editor!Type(c)  BY <2>2, <3>1, <3>4 DEF Editor!Type, Line
        <3>6. QED  BY <3>5 DEF Editor!Next
    <2>6. CASE EraseChar
        <3>1. input_pos > 0 /\ input_pos' = input_pos - 1 /\ input_buffer' = input_buffer
              /\ command' = command
            BY <2>6 DEF EraseChar
        <3>2. line' = [i \in 1 .. input_pos - 1 |-> input_buffer[i - 1]]  BY <3>1 DEF Line
        <3>3. line' = SubSeq(line, 1, Len(line) - 1)  BY <2>1, <2>2, <2>3, <3>1, <3>2
        <3>4. line # <<>>  BY <2>2, <3>1
        <3>5. Editor!Erase  BY <3>1, <3>3, <3>4 DEF Editor!Erase, Line
        <3>6. QED  BY <3>5 DEF Editor!Next
    <2>7. CASE Enter
        <3>1. command' = line  BY <2>7, EnterKeeps
        <3>2. line' = <<>>
            <4>1. input_pos' = 0  BY <2>7 DEF Enter
            <4>2. QED  BY <4>1 DEF Line
        <3>3. Editor!Enter  BY <3>1, <3>2 DEF Editor!Enter, Line
        <3>4. QED  BY <3>3 DEF Editor!Next
    <2>8. QED  BY <2>4, <2>5, <2>6, <2>7 DEF Next
<1>3. QED  BY <1>1, <1>2, TerminalAlways, PTL DEF Spec, LineEditorSpec, Editor!Spec, Line

-----------------------------------------------------------------------------
(* The port and its three readers.                                           *)

\* An interrupt is pending for the byte in the port and for no other.
IrqForOut == irq = IF out = Empty THEN {} ELSE {out.dev}

\* The packet is what was read of the report the mouse is sending, and the byte in
\* the port, when it is the mouse's, is the next one of it.
PacketIsReport ==
    /\ \A i \in DOMAIN packet : packet[i].dev = "mouse" /\ packet[i].n = i
    /\ IF Mine("mouse") THEN out.n = Len(packet) + 1 /\ report = out.n % 3
                        ELSE report = Len(packet)

\* With no shift key held, shift is not down once the scancode on its way to the
\* driver is handled. A scancode that overtakes another is discarded, and so astray.
ShiftSettles ==
    held = {} =>
        /\ (reading = NoCode /\ ~Mine("keyboard")) => ~shift_down
        /\ (reading = NoCode /\ Mine("keyboard")) => ~ShiftAfter(out.code)
        /\ (reading # NoCode /\ out = Empty) => ~ShiftAfter(reading)

\* The inductive invariant.
Ps2Inv ==
    /\ Ps2TypeOK
    /\ ~astray => IrqForOut /\ PacketIsReport /\ ShiftSettles

----------------------------------------------------------------------------
\* A byte that was read has a scancode, and the scancode is one.
LEMMA CodeParts ==
    ASSUME NEW c \in Codes
    PROVE  c.key # "none" /\ c.up \in BOOLEAN /\ c # NoCode
<1>1. c.key # "none" /\ c.up \in BOOLEAN
    <2>1. CASE c \in [key : ShiftKeys, up : BOOLEAN]  BY <2>1 DEF ShiftKeys
    <2>2. CASE c \in [key : {"caps", "Q"}, up : {FALSE}]  BY <2>2
    <2>3. CASE c \in [key : {"A"}, up : {TRUE}]  BY <2>3
    <2>4. QED  BY <2>1, <2>2, <2>3 DEF Codes
<1>2. NoCode.key = "none"  BY DEF NoCode
<1>3. QED  BY <1>1, <1>2

LEMMA ByteCodes ==
    ASSUME NEW b \in Bytes
    PROVE  /\ b.code \in Codes /\ b.code # NoCode /\ b.code.up \in BOOLEAN
           /\ b # Empty /\ b.dev \in Devices
           /\ b.dev = "mouse" => b \in MouseBytes
           /\ b.dev = "keyboard" => b \in KeyBytes
<1>1. b.code \in Codes /\ b.dev \in Devices
    <2>1. CASE b \in KeyBytes
        BY <2>1 DEF KeyBytes, Devices
    <2>2. CASE b \in MouseBytes
        <3>1. /\ Press("left") \in Codes /\ Press("Q") \in Codes
              /\ [key |-> "A", up |-> TRUE] \in Codes
            BY DEF Press, Codes, ShiftKeys
        <3>2. b.dev = "mouse"  BY <2>2 DEF MouseBytes
        <3>3. b.code \in {Press("left"), Press("Q"), [key |-> "A", up |-> TRUE]}
            <4> HIDE DEF Press
            <4>1. CASE b \in [dev : {"mouse"}, code : {Press("left")}, n : {1, 3}]  BY <4>1
            <4>2. CASE b \in [dev : {"mouse"},
                              code : {Press("left"), Press("Q"), [key |-> "A", up |-> TRUE]},
                              n : {2}]
                BY <4>2
            <4>3. QED  BY <2>2, <4>1, <4>2 DEF MouseBytes
        <3>4. QED  BY <3>1, <3>2, <3>3 DEF Devices
    <2>3. QED  BY <2>1, <2>2 DEF Bytes
<1>2. b # Empty
    <2>1. Empty.dev = "none"  BY DEF Empty
    <2>2. QED  BY <1>1, <2>1 DEF Devices
<1>3. \A k \in KeyBytes : k.dev = "keyboard"  BY DEF KeyBytes
<1>4. \A m \in MouseBytes : m.dev = "mouse"  BY DEF MouseBytes
<1>5. QED  BY <1>1, <1>2, <1>3, <1>4, CodeParts DEF Bytes

\* insb returns a byte in either case.
LEMMA DataIsByte == ASSUME Ps2TypeOK PROVE Data \in Bytes
BY DEF Ps2TypeOK, Data

\* The packet the driver keeps is one of at most two bytes.
LEMMA PacketKept ==
    ASSUME packet \in Seq(Bytes), Len(packet) < 3, NEW b \in Bytes
    PROVE  PacketAfter(b) \in Seq(Bytes) /\ Len(PacketAfter(b)) < 3
<1>1. Append(packet, b) \in Seq(Bytes) /\ Len(Append(packet, b)) = Len(packet) + 1  OBVIOUS
<1>2. <<>> \in Seq(Bytes) /\ Len(<<>>) < 3  OBVIOUS
<1>3. CASE PacketAfter(b) = <<>>  BY <1>2, <1>3, Zenon
<1>4. CASE PacketAfter(b) = Append(packet, b) /\ Len(packet) # 2
    <2>1. Len(packet) \in Nat  OBVIOUS
    <2>2. Len(Append(packet, b)) < 3
        <3>1. \A n \in Nat : n < 3 /\ n # 2 => n + 1 < 3  OBVIOUS
        <3>2. Len(packet) + 1 < 3  BY <1>4, <2>1, <3>1, Zenon
        <3>3. QED  BY <1>1, <3>2, Zenon
    <2>3. QED  BY <1>1, <1>4, <2>2, Zenon
<1>5. QED  BY <1>3, <1>4 DEF PacketAfter

\* The mouse stays on the screen.
LEMMA ClampOnScreen == ASSUME NEW x \in Int PROVE MoveTo(x) \in 0 .. Width - 1
BY Ps2Assumption DEF MoveTo, Clamp

LEMMA MovementInt == ASSUME NEW code PROVE Movement(code) \in Int
BY Ps2Assumption DEF Movement

----------------------------------------------------------------------------
LEMMA Ps2Begins == Ps2Init => Ps2Inv
<1> SUFFICES ASSUME Ps2Init PROVE Ps2Inv  OBVIOUS
<1>1. last \in Bytes
    BY DEF Ps2Init, Bytes, KeyBytes, Codes, Press, ShiftKeys
<1>2. mouse_x \in 0 .. Width - 1
    <2>1. Width \in Int /\ Width > 0  BY Ps2Assumption
    <2>2. QED  BY <2>1 DEF Ps2Init
<1>3. \A d \in Devices : sent[d] \in 0 .. Bound(d)
    BY Ps2Assumption DEF Ps2Init, Devices, Bound
<1>4. Len(packet) = 0 /\ packet \in Seq(Bytes) /\ DOMAIN packet = {}  BY DEF Ps2Init
<1>5. Ps2TypeOK
    <2>1. report \in 0 .. 2 /\ Len(packet) < 3  BY <1>4 DEF Ps2Init
    <2>2. held \subseteq ShiftKeys /\ irq \subseteq Devices  BY DEF Ps2Init
    <2>3. loop \in {"poll", "read"} /\ shift_down \in BOOLEAN /\ caps \in BOOLEAN  BY DEF Ps2Init
    <2>4. out = Empty /\ reading = NoCode  BY DEF Ps2Init
    <2>5. QED  BY <1>1, <1>2, <1>3, <1>4, <2>1, <2>2, <2>3, <2>4 DEF Ps2TypeOK
<1>6. ~Mine("mouse") /\ ~Mine("keyboard")  BY DEF Ps2Init, Mine
<1>7. IrqForOut /\ PacketIsReport /\ ShiftSettles
    BY <1>4, <1>6 DEF Ps2Init, IrqForOut, PacketIsReport, ShiftSettles
<1>8. QED  BY <1>5, <1>7 DEF Ps2Inv

----------------------------------------------------------------------------
\* What a byte that is put in the port leaves true.
LEMMA LoadTypes ==
    ASSUME Ps2TypeOK, NEW b \in Bytes, Load(b), held' \subseteq ShiftKeys, report' \in 0 .. 2
    PROVE  Ps2TypeOK'
<1>1. b.dev \in Devices  BY ByteCodes
<1>2. \A d \in Devices : sent'[d] \in 0 .. Bound(d)
    <2> SUFFICES ASSUME NEW d \in Devices PROVE sent'[d] \in 0 .. Bound(d)  OBVIOUS
    <2>1. sent[d] \in 0 .. Bound(d) /\ Bound(d) \in Int
        BY Ps2Assumption DEF Ps2TypeOK, Bound
    <2>2. d # b.dev => sent'[d] = sent[d]
        BY DEF Load
    <2>3. d = b.dev => sent[d] < Bound(d) /\ (sent'[d] = sent[d] + 1 \/ sent'[d] = sent[d])
        BY DEF Load
    <2>4. QED  BY <2>1, <2>2, <2>3
<1>3. QED  BY <1>1, <1>2 DEF Ps2TypeOK, Load, drivers

LEMMA LoadKeyKeeps ==
    ASSUME Ps2Inv, NEW b \in KeyBytes, LoadKey(b)
    PROVE  Ps2Inv'
<1>1. b \in Bytes /\ b.dev = "keyboard" /\ b.code.up \in BOOLEAN /\ b # Empty
    BY ByteCodes DEF Bytes, KeyBytes
<1>2. held' \subseteq ShiftKeys
    BY DEF Ps2Inv, Ps2TypeOK, LoadKey
<1>3. Ps2TypeOK'
    BY <1>1, <1>2, LoadTypes DEF Ps2Inv, Ps2TypeOK, LoadKey
<1>4. ASSUME ~astray' PROVE IrqForOut' /\ PacketIsReport' /\ ShiftSettles'
    <2>1. /\ ~astray /\ out = Empty /\ out' = b /\ IrqForOut /\ PacketIsReport /\ ShiftSettles
          /\ irq' = irq \cup {"keyboard"} /\ packet' = packet /\ report' = report
          /\ reading' = reading /\ shift_down' = shift_down
        BY <1>1, <1>4 DEF Ps2Inv, LoadKey, Load, drivers
    <2>2. ~Mine("keyboard") /\ ~Mine("mouse") /\ Mine("keyboard")' /\ ~Mine("mouse")'
        BY <1>1, <2>1 DEF Mine
    <2>3. IrqForOut'  BY <1>1, <2>1 DEF IrqForOut
    <2>4. PacketIsReport'  BY <2>1, <2>2 DEF PacketIsReport
    <2>5. ASSUME held' = {}, reading = NoCode PROVE ~ShiftAfter(b.code)'
        <3>1. CASE b.code.key \in ShiftKeys
            <4>1. b.code.up  BY <2>5, <3>1, <1>1 DEF LoadKey
            <4>2. QED  BY <3>1, <4>1 DEF ShiftAfter
        <3>2. CASE b.code.key \notin ShiftKeys
            <4>1. held = {}
                BY <2>5, <3>2 DEF LoadKey, Ps2Inv, Ps2TypeOK
            <4>2. ~shift_down  BY <2>1, <2>2, <2>5, <4>1 DEF ShiftSettles
            <4>3. QED  BY <3>2, <4>2, <2>1 DEF ShiftAfter
        <3>3. QED  BY <3>1, <3>2
    <2>6. ShiftSettles'
        BY <1>1, <2>1, <2>2, <2>5 DEF ShiftSettles, ShiftAfter
    <2>7. QED  BY <2>3, <2>4, <2>6
<1>5. QED  BY <1>3, <1>4 DEF Ps2Inv

LEMMA LoadMouseKeeps ==
    ASSUME Ps2Inv, NEW b \in MouseBytes, LoadMouse(b)
    PROVE  Ps2Inv'
<1>1. b \in Bytes /\ b.dev = "mouse" /\ b # Empty /\ b.n \in 1 .. 3
    BY ByteCodes DEF Bytes, MouseBytes
<1>2. report \in 0 .. 2 /\ report' \in 0 .. 2 /\ b.n = report + 1 /\ report' = b.n % 3
    BY DEF Ps2Inv, Ps2TypeOK, LoadMouse
<1>3. Ps2TypeOK'
    BY <1>1, <1>2, LoadTypes DEF Ps2Inv, Ps2TypeOK, LoadMouse
<1>4. ASSUME ~astray' PROVE IrqForOut' /\ PacketIsReport' /\ ShiftSettles'
    <2>1. /\ ~astray /\ out = Empty /\ out' = b /\ IrqForOut /\ PacketIsReport /\ ShiftSettles
          /\ irq' = irq \cup {"mouse"} /\ packet' = packet /\ held' = held
          /\ reading' = reading /\ shift_down' = shift_down
        BY <1>1, <1>4 DEF Ps2Inv, LoadMouse, Load, drivers
    <2>2. ~Mine("keyboard") /\ ~Mine("mouse") /\ ~Mine("keyboard")' /\ Mine("mouse")'
        BY <1>1, <2>1 DEF Mine
    <2>3. IrqForOut'  BY <1>1, <2>1 DEF IrqForOut
    <2>4. report = Len(packet)  BY <2>1, <2>2 DEF PacketIsReport
    <2>5. PacketIsReport'  BY <1>2, <2>1, <2>2, <2>4 DEF PacketIsReport
    <2>6. ShiftSettles'
        BY <1>1, <2>1, <2>2 DEF ShiftSettles, ShiftAfter
    <2>7. QED  BY <2>3, <2>5, <2>6
<1>5. QED  BY <1>3, <1>4 DEF Ps2Inv

LEMMA KeyboardInterruptKeeps ==
    ASSUME Ps2Inv, KeyboardInterrupt
    PROVE  Ps2Inv'
<1>1. Data \in Bytes /\ Data.code \in Codes /\ Data.code # NoCode
    BY DataIsByte, ByteCodes DEF Ps2Inv
<1>2. Ps2TypeOK'
    BY <1>1 DEF Ps2Inv, Ps2TypeOK, KeyboardInterrupt, ReadPort, devices
<1>3. ASSUME ~astray' PROVE IrqForOut' /\ PacketIsReport' /\ ShiftSettles'
    <2>1. /\ ~astray /\ IrqForOut /\ PacketIsReport /\ ShiftSettles
          /\ Mine("keyboard") /\ reading = NoCode /\ out' = Empty
          /\ irq' = irq \ {"keyboard"} /\ packet' = packet /\ report' = report /\ held' = held
          /\ shift_down' = shift_down /\ reading' = Data.code /\ Data = out
        BY <1>3 DEF Ps2Inv, KeyboardInterrupt, ReadPort, devices, Mine, Data
    <2>2. ~Mine("mouse") /\ ~Mine("keyboard")' /\ ~Mine("mouse")'
        BY <2>1 DEF Mine
    <2>3. IrqForOut'  BY <2>1 DEF IrqForOut, Mine
    <2>4. PacketIsReport'  BY <2>1, <2>2 DEF PacketIsReport
    <2>5. ShiftSettles'  BY <1>1, <2>1, <2>2 DEF ShiftSettles, ShiftAfter
    <2>6. QED  BY <2>3, <2>4, <2>5
<1>4. QED  BY <1>2, <1>3 DEF Ps2Inv

LEMMA KeyboardDiscardKeeps ==
    ASSUME Ps2Inv, KeyboardDiscard
    PROVE  Ps2Inv'
<1>1. Data \in Bytes  BY DataIsByte DEF Ps2Inv
<1>2. ShiftAfter(reading) \in BOOLEAN
    <2>1. reading \in Codes /\ shift_down \in BOOLEAN
        BY DEF Ps2Inv, Ps2TypeOK, KeyboardDiscard
    <2>2. QED  BY <2>1 DEF ShiftAfter
<1>3. Ps2TypeOK'
    BY <1>1, <1>2 DEF Ps2Inv, Ps2TypeOK, KeyboardDiscard, ReadPort, devices
<1>4. ASSUME ~astray' PROVE IrqForOut' /\ PacketIsReport' /\ ShiftSettles'
    <2>1. /\ ~astray /\ IrqForOut /\ PacketIsReport /\ ShiftSettles
          /\ out = Empty /\ out' = Empty /\ reading # NoCode /\ reading' = NoCode
          /\ irq' = irq /\ packet' = packet /\ report' = report /\ held' = held
          /\ shift_down' = ShiftAfter(reading)
        BY <1>4 DEF Ps2Inv, KeyboardDiscard, ReadPort, devices
    <2>2. ~Mine("mouse") /\ ~Mine("keyboard")' /\ ~Mine("mouse")'
        BY <2>1 DEF Mine
    <2>3. IrqForOut'  BY <2>1 DEF IrqForOut
    <2>4. PacketIsReport'  BY <2>1, <2>2 DEF PacketIsReport
    <2>5. ShiftSettles'  BY <2>1, <2>2 DEF ShiftSettles
    <2>6. QED  BY <2>3, <2>4, <2>5
<1>5. QED  BY <1>3, <1>4 DEF Ps2Inv

LEMMA MouseInterruptKeeps ==
    ASSUME Ps2Inv, MouseInterrupt
    PROVE  Ps2Inv'
<1>1. Data \in Bytes /\ packet \in Seq(Bytes) /\ Len(packet) < 3
    BY DataIsByte DEF Ps2Inv, Ps2TypeOK
<1>2. packet' \in Seq(Bytes) /\ Len(packet') < 3
    BY <1>1, PacketKept DEF MouseInterrupt
<1>3. mouse_x' \in 0 .. Width - 1
    <2>1. mouse_x \in 0 .. Width - 1 /\ Width \in Int
        BY Ps2Assumption DEF Ps2Inv, Ps2TypeOK
    <2>2. mouse_x + Movement(packet[2].code) \in Int
        BY <2>1, MovementInt
    <2>3. QED  BY <2>1, <2>2, ClampOnScreen DEF MouseInterrupt
<1>4. Ps2TypeOK'
    BY <1>1, <1>2, <1>3 DEF Ps2Inv, Ps2TypeOK, MouseInterrupt, ReadPort, devices
<1>5. ASSUME ~astray' PROVE IrqForOut' /\ PacketIsReport' /\ ShiftSettles'
    <2>1. /\ ~astray /\ IrqForOut /\ PacketIsReport /\ ShiftSettles
          /\ Mine("mouse") /\ reading = NoCode /\ reading' = NoCode /\ out' = Empty
          /\ irq' = irq \ {"mouse"} /\ report' = report /\ held' = held
          /\ shift_down' = shift_down /\ packet' = PacketAfter(out)
        BY <1>5 DEF Ps2Inv, MouseInterrupt, ReadPort, devices, Mine, Data
    <2>2. ~Mine("keyboard") /\ ~Mine("keyboard")' /\ ~Mine("mouse")'
        BY <2>1 DEF Mine
    <2>3. IrqForOut'  BY <2>1 DEF IrqForOut, Mine
    <2>4. out \in MouseBytes /\ out.dev = "mouse" /\ out.n = Len(packet) + 1 /\ report = out.n % 3
        BY <2>1, ByteCodes DEF Mine, PacketIsReport, Ps2Inv, Ps2TypeOK
    <2>5. PacketIsReport'
        <3>1. CASE Len(packet) = 2
            <4>1. packet # <<>>
                <5>1. Len(<<>>) = 0  OBVIOUS
                <5>2. QED  BY <3>1, <5>1
            <4>2. packet' = <<>>  BY <2>1, <3>1, <4>1 DEF PacketAfter
            <4>3. report = 0  BY <2>4, <3>1
            <4>4. QED  BY <2>1, <2>2, <4>2, <4>3 DEF PacketIsReport
        <3>2. CASE Len(packet) # 2
            <4>1. Len(packet) \in 0 .. 1
                <5>1. Len(packet) \in Nat  BY <1>1
                <5>2. \A n \in Nat : n < 3 /\ n # 2 => n \in 0 .. 1  OBVIOUS
                <5>3. QED  BY <1>1, <3>2, <5>1, <5>2, Zenon
            <4>2. packet = <<>> => Bit3(out.code)
                BY <2>4 DEF MouseBytes, Bit3, Press
            <4>3. packet' = Append(packet, out)  BY <2>1, <3>2, <4>2 DEF PacketAfter
            <4>4. /\ Len(packet') = Len(packet) + 1 /\ DOMAIN packet' = 1 .. Len(packet) + 1
                  /\ DOMAIN packet = 1 .. Len(packet)
                  /\ \A i \in 1 .. Len(packet) : packet'[i] = packet[i]
                  /\ packet'[Len(packet) + 1] = out
                BY <1>1, <2>4, <4>3 DEF Ps2Inv, Ps2TypeOK, Bytes
            <4>5. report = Len(packet')  BY <2>4, <4>1, <4>4
            <4>6. \A i \in DOMAIN packet' : packet'[i].dev = "mouse" /\ packet'[i].n = i
                BY <2>1, <2>4, <4>1, <4>4 DEF PacketIsReport
            <4>7. QED  BY <2>1, <2>2, <4>5, <4>6 DEF PacketIsReport
        <3>3. QED  BY <3>1, <3>2
    <2>6. ShiftSettles'  BY <2>1, <2>2 DEF ShiftSettles
    <2>7. QED  BY <2>3, <2>5, <2>6
<1>6. QED  BY <1>4, <1>5 DEF Ps2Inv

LEMMA PollStatusKeeps ==
    ASSUME Ps2Inv, PollStatus
    PROVE  Ps2Inv'
BY DEF Ps2Inv, PollStatus, Ps2TypeOK, IrqForOut, PacketIsReport, ShiftSettles, ShiftAfter, Mine,
       devices, port, drivers

LEMMA PollDataKeeps ==
    ASSUME Ps2Inv, PollData
    PROVE  Ps2Inv'
<1>1. Data \in Bytes  BY DataIsByte DEF Ps2Inv
<1>2. QED  BY <1>1 DEF Ps2Inv, PollData, Ps2TypeOK, ReadPort, devices, drivers

LEMMA Ps2Goes == Ps2Inv /\ [Ps2Next]_ps2Vars => Ps2Inv'
<1> SUFFICES ASSUME Ps2Inv, [Ps2Next]_ps2Vars PROVE Ps2Inv'  OBVIOUS
<1>1. ASSUME NEW b \in KeyBytes, LoadKey(b) PROVE Ps2Inv'  BY <1>1, LoadKeyKeeps
<1>2. ASSUME NEW b \in MouseBytes, LoadMouse(b) PROVE Ps2Inv'  BY <1>2, LoadMouseKeeps
<1>3. CASE KeyboardInterrupt  BY <1>3, KeyboardInterruptKeeps
<1>4. CASE KeyboardDiscard  BY <1>4, KeyboardDiscardKeeps
<1>5. CASE MouseInterrupt  BY <1>5, MouseInterruptKeeps
<1>6. CASE PollStatus  BY <1>6, PollStatusKeeps
<1>7. CASE PollData  BY <1>7, PollDataKeeps
<1>8. CASE UNCHANGED ps2Vars
    BY <1>8 DEF Ps2Inv, Ps2TypeOK, IrqForOut, PacketIsReport, ShiftSettles, ShiftAfter, Mine, ps2Vars
<1>9. QED  BY <1>1, <1>2, <1>3, <1>4, <1>5, <1>6, <1>7, <1>8 DEF Ps2Next

LEMMA Ps2Always == Ps2Spec => []Ps2Inv
BY Ps2Begins, Ps2Goes, PTL DEF Ps2Spec

\* The mouse driver keeps its types whatever it reads, and never puts a packet
\* together from the bytes of two reports before a byte has gone astray.
THEOREM PacketsAreReports == Ps2Spec => []PacketsWhole
<1>1. Ps2Inv => PacketsWhole  BY DEF Ps2Inv, PacketsWhole, PacketIsReport
<1>2. QED  BY <1>1, Ps2Always, PTL

\* Shift is not left down after both of its keys are up, before a byte has gone astray.
THEOREM ShiftComesUp == Ps2Spec => []ShiftReleased
<1>1. Ps2Inv => ShiftReleased  BY DEF Ps2Inv, ShiftReleased, ShiftSettles
<1>2. QED  BY <1>1, Ps2Always, PTL
=============================================================================
