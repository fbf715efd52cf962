-------------------------- MODULE MCKernelTerminal --------------------------
(***************************************************************************)
(* A terminal of two rows of three columns with lines of up to four       *)
(* characters out of two: a line wraps on the first row and on the last,   *)
(* every command and several unknown ones can be typed, and whatever is    *)
(* printed scrolls.                                                        *)
(***************************************************************************)
EXTENDS KernelTerminal, TLC

MCPrompt == <<"#">>
MCGreeting == <<"V", "newline">>
MCHelp == <<"c", "e">>
MCClear == <<"c", "c">>
MCEcho == <<"e", "c">>
MCHelpText == <<"c", "newline", "e", "newline">>
MCUnknownText == <<"?">>
MCBackgrounds == (<<"e", "e">> :> "red")
=============================================================================
