------------------------------- MODULE MCRtc -------------------------------
(* A day of two hours of two minutes of eleven seconds: the last second has  *)
(* two digits.  The requests are none, a second, the longest that ends, the  *)
(* shortest that does not, and the largest int.                              *)
EXTENDS Rtc

MCRequests == {-1, 0, 1, Day - 1, Day, IntMax}
=============================================================================
