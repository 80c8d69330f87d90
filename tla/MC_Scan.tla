------------------------------ MODULE MC_Scan ------------------------------
(* The scanner of one station with two bands, each of up to MaxChunks         *)
(* requests.                                                                  *)
EXTENDS Scan
=============================================================================
