------------------------------- MODULE MC_Sq -------------------------------
(* The send queue of a station interface with its access point, and the       *)
(* queue of packets for nobody in particular, with two access categories.     *)
(* The limits are those at which every comparison goes both ways: a peer may  *)
(* have one packet in a category, a category two, the firmware two.           *)
EXTENDS Sq

CONSTANTS s1, v1

OneVap == [p \in Stations |-> v1]
=============================================================================
