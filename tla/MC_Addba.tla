----------------------------- MODULE MC_Addba ------------------------------
(* Two TIDs compete for one aggregation; the peer asks for a reordering on   *)
(* one of them.  Two tokens, so that a late answer meets a token that has     *)
(* changed and the tokens wrap around.  One association, which tasks of an     *)
(* earlier one may meet, and one rejection that overtakes the confirmation of *)
(* its request.                                                               *)
EXTENDS Addba
=============================================================================
