---------------------------- MODULE TxmmQueSpec ----------------------------
(***************************************************************************)
(* What a queue of TXMM promises: blocks enter at the end, leave at the     *)
(* front or from the middle, and those that stay keep their order (QUEUED)  *)
(* or may be rearranged (SENT, TIMED_OUT).                                  *)
(***************************************************************************)
EXTENDS Integers, Sequences

CONSTANT Blocks

VARIABLES list, ordered

Elements(s) == {s[i] : i \in DOMAIN s}

Init == list = <<>> /\ ordered \in BOOLEAN

Put(b) == b \notin Elements(list) /\ list' = Append(list, b)

Get == list # <<>> /\ list' = Tail(list)

\* Block b leaves; the others stay, each once.
Leave(b) ==
  \E i \in DOMAIN list :
    /\ list[i] = b
    /\ IF ordered
       THEN list' = SubSeq(list, 1, i - 1) \o SubSeq(list, i + 1, Len(list))
       ELSE /\ Elements(list') = Elements(list) \ {b}
            /\ Len(list') = Len(list) - 1

Next == /\ Get \/ \E b \in Blocks : Put(b) \/ Leave(b)
        /\ UNCHANGED ordered

Spec == Init /\ [][Next]_<<list, ordered>>
=============================================================================
