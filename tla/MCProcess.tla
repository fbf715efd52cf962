------------------------------ MODULE MCProcess ------------------------------
(***************************************************************************)
(* Process with a table of a few slots; task objects have one address more *)
(* than there are slots, process objects exactly as many, so that freed    *)
(* addresses are reused.                                                   *)
(***************************************************************************)
EXTENDS Process, TLC

Symmetry == Permutations(Task) \cup Permutations(Proc)
=============================================================================
