----------------------------- MODULE MC_TxmmQue -----------------------------
(* A ring of four places: the smallest in which a block can be unlinked      *)
(* with blocks before it and behind it, with the ring wrapped or full.        *)
EXTENDS TxmmQue, TLC

\* Nothing distinguishes the blocks but their places.
Symmetry == Permutations(Blocks)
=============================================================================
