----------------------------- MODULE MCKeyboard -----------------------------
(***************************************************************************)
(* Keyboard with rings of three slots: two processes, and keys enough to lap *)
(* a ring and go on typing.                                                *)
(***************************************************************************)
EXTENDS Keyboard
=============================================================================
