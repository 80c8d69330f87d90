------------------------------- MODULE Lists -------------------------------
(* Walks over the lists of the driver.                                        *)
EXTENDS Integers, Sequences, FiniteSets

\* What a walk that takes out the members of D leaves of the list q, in order:
\* Left[i] of the first i members.
Kept(q, D) ==
  LET Left[i \in 0 .. Len(q)] ==
        IF i = 0 THEN <<>>
        ELSE IF q[i] \in D THEN Left[i - 1] ELSE Append(Left[i - 1], q[i])
  IN Left[Len(q)]

\* b comes before c in the list q.
Ahead(q, b, c) == \E i, j \in 1 .. Len(q) : i < j /\ q[i] = b /\ q[j] = c

\* How many members of the list s are in T.
Count(s, T) == Cardinality({i \in 1 .. Len(s) : s[i] \in T})
=============================================================================
