------------------------------ MODULE MCSound ------------------------------
(* Timer counts of four bits, delays that fit them, wrap to little and wrap  *)
(* to none; two sounds with a command of the DSP in their lengths.           *)
EXTENDS Sound

MCSounds == {<<\hD1, 1>>, <<2, \h41>>}
=============================================================================
