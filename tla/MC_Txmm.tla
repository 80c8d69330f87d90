------------------------------ MODULE MC_Txmm ------------------------------
(* Instances of TXMM with fewer slots than messages, so that blocks wait in   *)
(* QUEUED, and as few blocks as let one queue hold them all: Txmm.cfg without *)
(* blocked senders, Txmm_blocked.cfg with two of them.                        *)
EXTENDS Txmm
=============================================================================
