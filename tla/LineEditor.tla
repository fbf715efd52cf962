----------------------------- MODULE LineEditor -----------------------------
(***************************************************************************)
(* What a command line promises: Enter runs the line as it was typed,      *)
(* after erasures, up to a longest length; then the next line is empty.    *)
(***************************************************************************)
EXTENDS Naturals, Sequences

CONSTANTS Char, Limit

VARIABLES
    line,       \* what has been typed of the present line
    command     \* the line that was run last

Init == line = <<>> /\ command = <<>>

Type(c) ==
    /\ Len(line) < Limit
    /\ line' = Append(line, c)
    /\ UNCHANGED command

Erase ==
    /\ line # <<>>
    /\ line' = SubSeq(line, 1, Len(line) - 1)
    /\ UNCHANGED command

Enter == command' = line /\ line' = <<>>

Next == (\E c \in Char : Type(c)) \/ Erase \/ Enter

Spec == Init /\ [][Next]_<<line, command>>
=============================================================================
