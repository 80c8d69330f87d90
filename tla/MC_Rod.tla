------------------------------- MODULE MC_Rod -------------------------------
(* Numbers modulo 8 and windows of 2 and 4, so that windows span the wrap    *)
(* and a jump of half of the numbers is longer than either window; the peer  *)
(* begins shortly before the wrap.  A window of 8 divides the numbers but is *)
(* longer than the array, as 128 is; one of 3 does not divide them.          *)
EXTENDS Rod
=============================================================================
