------------------------------- MODULE MCPs2 -------------------------------
(***************************************************************************)
(* Ps2 with a few bytes from each device: a shift key down, up and down    *)
(* again, or both down and one up; a mouse report and the first byte of    *)
(* the next.  A movement is as wide as the screen: either way the mouse,   *)
(* which starts at the left edge, is held at an edge.                      *)
(***************************************************************************)
EXTENDS Ps2
=============================================================================
