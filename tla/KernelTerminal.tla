--------------------------- MODULE KernelTerminal ---------------------------
(***************************************************************************)
(* The terminal the kernel runs in (kernel/mainloop.c): a screen of        *)
(* characters with a cursor, a command line in a buffer of its own, and a  *)
(* loop that draws a frame, polls the keyboard and handles at most one key.*)
(* One action is one round of the loop.  What the port delivers, and to    *)
(* whom, is the subject of Ps2; here a round gets a key or none.           *)
(*                                                                         *)
(* Screen and command line are two records of the same line.  They are     *)
(* edited side by side and never compared: what is run is the buffer, what *)
(* the user sees is the screen.                                            *)
(***************************************************************************)
EXTENDS Integers, SequencesExt

CONSTANTS
    Columns, Rows,          \* 80 and 25
    BufferSize,             \* of input_buffer: 256
    Char,                   \* what the keys print
    Blank, Newline, Nul,    \* ' ', '\n' and '\0'
    Prompt, Greeting,       \* "# ", and what is printed before the first one
    Help, Clear, Echo,      \* what those commands begin with
    HelpText, UnknownText,
    Backgrounds,            \* from what a bgcolor command begins with to its color
    Black,
    Cursor, BootScreen      \* the block drawn for the cursor; the frame of the boot

Cells == 0 .. Columns * Rows - 1
Glyphs == Char \cup {Blank} \cup (ToSet(Prompt \o Greeting \o HelpText \o UnknownText) \ {Newline})
CommandNames == {Help, Clear, Echo} \cup DOMAIN Backgrounds

\* The order in which execute_command tries the names does not matter.
ASSUME TerminalAssumption ==
    /\ {Columns, Rows, BufferSize} \subseteq Nat \ {0}
    /\ Char \cap {Newline, Nul} = {} /\ Newline # Blank
    /\ CommandNames \subseteq Seq(Char)
    /\ {Greeting, HelpText, UnknownText} \subseteq Seq(Glyphs \cup {Newline})
    /\ Prompt \in Seq(Glyphs) /\ Len(Prompt) < Columns
    /\ \A text \in {Greeting, HelpText} : text # <<>> /\ Last(text) = Newline
    /\ \A p, q \in CommandNames : IsPrefix(p, q) => p = q

VARIABLES
    terminal,               \* [buffer, x, y]: terminal_buffer, cursor_x, cursor_y
    input_buffer, input_pos,
    terminal_bg_color,
    frame,                  \* what was drawn last
    command,                \* history: the string that was executed last
    torn                    \* history: the line left its place on the screen

vars == <<terminal, input_buffer, input_pos, terminal_bg_color, frame, command, torn>>
-----------------------------------------------------------------------------
Cell(t) == t.y * Columns + t.x

ClearedTerminal == [buffer |-> [i \in Cells |-> Blank], x |-> 0, y |-> 0]

ScrollUp(buffer) == [i \in Cells |-> IF i + Columns \in Cells THEN buffer[i + Columns] ELSE Blank]

\* Seeded fault: the column is reset only when nothing scrolls.
NewLineKeepsColumn(t) ==
    IF t.y + 1 < Rows
    THEN [t EXCEPT !.x = 0, !.y = @ + 1]
    ELSE [t EXCEPT !.buffer = ScrollUp(@)]

NewLine(t) ==
    IF t.y + 1 < Rows
    THEN [t EXCEPT !.x = 0, !.y = @ + 1]
    ELSE [t EXCEPT !.x = 0, !.buffer = ScrollUp(@)]

\* At the end of the last row the cursor returns to its beginning and nothing scrolls.
Advance(t) ==
    IF t.x + 1 < Columns
    THEN [t EXCEPT !.x = @ + 1]
    ELSE [t EXCEPT !.x = 0, !.y = IF @ + 1 < Rows THEN @ + 1 ELSE Rows - 1]

Put(t, c) ==
    IF c = Newline THEN NewLine(t) ELSE Advance([t EXCEPT !.buffer[Cell(t)] = c])

\* '\b' erases within a row only.
Rubout(t) ==
    IF t.x = 0 THEN t ELSE LET u == [t EXCEPT !.x = @ - 1]
                           IN [u EXCEPT !.buffer[Cell(u)] = Blank]

\* A string, character by character: the terminal after the first i.
Written(t, s) ==
    LET w[i \in 0 .. Len(s)] == IF i = 0 THEN t ELSE Put(w[i - 1], s[i])
    IN  w

Write(t, s) == Written(t, s)[Len(s)]

Render == [cells |-> [terminal.buffer EXCEPT ![Cell(terminal)] = Cursor],
           color |-> terminal_bg_color]
-----------------------------------------------------------------------------
\* The C string in a buffer: what comes before its first terminator.
String(buffer) ==
    LET end == Min({i \in DOMAIN buffer : buffer[i] = Nul})
    IN [i \in 1 .. end |-> buffer[i - 1]]

\* Seeded fault: the string is left without a terminator.
NotTerminated(buffer, n) == buffer

Terminated(buffer, n) == [buffer EXCEPT ![n] = Nul]

\* What a command other than clear prints.
Output(cmd) ==
    CASE IsPrefix(Help, cmd) -> HelpText
      [] IsPrefix(Echo, cmd) -> SubSeq(cmd, Len(Echo) + 1, Len(cmd)) \o <<Newline>>
      [] cmd = <<>> \/ (\E b \in DOMAIN Backgrounds : IsPrefix(b, cmd)) -> <<>>
      [] OTHER -> UnknownText \o cmd \o <<Newline>>

Execute(t, cmd) == IF IsPrefix(Clear, cmd) THEN ClearedTerminal ELSE Write(t, Output(cmd))

NewBackground(cmd) ==
    IF \E b \in DOMAIN Backgrounds : IsPrefix(b, cmd)
    THEN Backgrounds[CHOOSE b \in DOMAIN Backgrounds : IsPrefix(b, cmd)]
    ELSE terminal_bg_color
-----------------------------------------------------------------------------
Init ==
    /\ terminal = Write(Write(ClearedTerminal, Greeting), Prompt)
    /\ input_buffer = [i \in 0 .. BufferSize - 1 |-> Nul]
    /\ input_pos = 0
    /\ terminal_bg_color = Black
    /\ frame = BootScreen
    /\ command = <<>>
    /\ torn = FALSE

\* No byte, a key's release, a key that prints nothing, or one too many for the line.
NothingTyped ==
    /\ frame' = Render
    /\ UNCHANGED <<terminal, input_buffer, input_pos, terminal_bg_color, command, torn>>

TypeChar(c) ==
    /\ input_pos < BufferSize - 1
    /\ frame' = Render
    /\ input_buffer' = [input_buffer EXCEPT ![input_pos] = c]
    /\ input_pos' = input_pos + 1
    /\ terminal' = Put(terminal, c)
    /\ torn' = (torn \/ (terminal.x = Columns - 1 /\ terminal.y = Rows - 1))
    /\ UNCHANGED <<terminal_bg_color, command>>

EraseChar ==
    /\ input_pos > 0
    /\ frame' = Render
    /\ input_pos' = input_pos - 1
    /\ terminal' = Rubout(terminal)
    /\ torn' = (torn \/ terminal.x = 0)
    /\ UNCHANGED <<input_buffer, terminal_bg_color, command>>

Enter ==
    /\ frame' = Render
    /\ input_buffer' = Terminated(input_buffer, input_pos)
    /\ command' = String(input_buffer')
    /\ terminal' = Write(Execute(Put(terminal, Newline), command'), Prompt)
    /\ terminal_bg_color' = NewBackground(command')
    /\ input_pos' = 0
    /\ torn' = FALSE

Next == NothingTyped \/ (\E c \in Char : TypeChar(c)) \/ EraseChar \/ Enter

Spec == Init /\ [][Next]_vars
-----------------------------------------------------------------------------
(***************************************************************************)
(* The cursor never leaves the screen and the line never leaves its buffer,*)
(* whatever is printed where (mainloop.c:51, :168).                        *)
(***************************************************************************)
TerminalTypeOK ==
    /\ terminal \in [buffer : [Cells -> Glyphs], x : 0 .. Columns - 1, y : 0 .. Rows - 1]
    /\ input_buffer \in [0 .. BufferSize - 1 -> Char \cup {Nul}]
    /\ input_pos \in 0 .. BufferSize - 1
    /\ terminal_bg_color \in {Black} \cup {Backgrounds[b] : b \in DOMAIN Backgrounds}
    /\ torn \in BOOLEAN

(***************************************************************************)
(* What Enter runs is what the user saw when pressing it: the frame drawn  *)
(* before the key shows, from the beginning of a row to the cursor, the    *)
(* prompt and the command, whatever earlier commands printed, scrolled or  *)
(* cleared (mainloop.c:168-175).  Two cases are excepted, which torn       *)
(* records: the line reached the end of the last row, where the cursor     *)
(* returns to the row's beginning without scrolling (mainloop.c:57), or it *)
(* was erased past the beginning of a row, where the buffer loses a        *)
(* character and the screen does not (mainloop.c:46, :179).                *)
(***************************************************************************)
Shows(cells, s, from) == \A i \in 1 .. Len(s) : cells[from + i - 1] = s[i]

EnterRunsWhatIsShown ==
    /\ []TerminalTypeOK
    /\ [][Enter /\ ~torn =>
            LET from == Cell(terminal) - Len(Prompt \o command')
            IN  /\ from % Columns = 0
                /\ Shows(frame'.cells, Prompt \o command', from)]_vars

(***************************************************************************)
(* The buffer, its position and its terminator are a line editor: what is  *)
(* executed is what was typed since the last Enter and not erased, with    *)
(* nothing left of longer lines before it (mainloop.c:168, :174, :184).    *)
(***************************************************************************)
Editor == INSTANCE LineEditor WITH
    Limit <- BufferSize - 1,
    line <- [i \in 1 .. input_pos |-> input_buffer[i - 1]]

LineEditorSpec == Editor!Spec
=============================================================================
