------------------------------ MODULE RodSpec ------------------------------
(* What the reordering queue of one TID promises, on sequence numbers that  *)
(* never wrap: a window that only moves forward over the numbers, packets    *)
(* held above its start, and packets released in the order of their numbers, *)
(* each once, as soon as nothing is missing below them or the missing ones   *)
(* are given up.                                                             *)
EXTENDS Integers, Sequences

CONSTANTS
  Limit,       \* numbers on the air are taken modulo Limit
  Windows,     \* the window sizes an agreement may have
  MaxSent      \* bound: numbers the peer uses

VARIABLES
  open,        \* there is an agreement
  win,         \* its window size
  next,        \* start of the window
  held,        \* the numbers of the packets that wait
  out,         \* what the last operation released, in this order
  void         \* nothing is promised any more

vars == <<open, win, next, held, out>>

\* o lists the elements of a set of numbers in increasing order.
InOrder(o, S) ==
  /\ o \in Seq(S)
  /\ \A k \in S : \E i \in 1 .. Len(o) : o[i] = k
  /\ \A i, j \in 1 .. Len(o) : i < j => o[i] < o[j]

\* Gives up everything below n, then releases what follows without a gap.
Advance(n, S) ==
  LET first == CHOOSE m \in n .. MaxSent + 1 :
                 /\ m \notin S
                 /\ \A k \in n .. m - 1 : k \in S
  IN /\ next' = first
     /\ held' = {k \in S : k >= first}
     /\ InOrder(out', {k \in S : k < first})

Init ==
  /\ open = FALSE
  /\ win \in Windows
  /\ next = 0
  /\ held = {}
  /\ out = <<>>

\* Without an agreement a packet passes at once.
Pass(p) ==
  /\ ~open
  /\ out' = <<p>>
  /\ UNCHANGED <<open, win, next, held>>

\* A packet below the window is discarded; one beyond it pulls the window along.
Receive(p) ==
  /\ open
  /\ IF p < next
     THEN out' = <<>> /\ UNCHANGED <<next, held>>
     ELSE Advance(IF p >= next + win THEN p - win + 1 ELSE next, held \cup {p})
  /\ UNCHANGED <<open, win>>

\* A BAR moves the start of the window, never back.
Bar(s) ==
  /\ open
  /\ IF s < next
     THEN out' = <<>> /\ UNCHANGED <<next, held>>
     ELSE Advance(s, held)
  /\ UNCHANGED <<open, win>>

\* Everything that waits is released.
Release ==
  /\ InOrder(out', held)
  /\ held' = {}

\* The window moves behind what is released.
Flush ==
  /\ open
  /\ held # {}
  /\ Release
  /\ next' = 1 + CHOOSE m \in held : \A k \in held : k <= m
  /\ UNCHANGED <<open, win>>

\* A new agreement; what waited for the old one is released first.
Open(s, w) ==
  /\ Release
  /\ open' = TRUE
  /\ next' = s
  /\ win' = w

Close ==
  /\ Release
  /\ open' = FALSE
  /\ next' = 0
  /\ UNCHANGED win

\* Nothing is released.
Silent == out' = <<>> /\ UNCHANGED <<open, win, next, held>>

Next ==
  \/ void
  \/ \E p \in 0 .. MaxSent : Pass(p) \/ Receive(p) \/ Bar(p)
  \/ \E s \in 0 .. MaxSent, w \in Windows : Open(s, w)
  \/ Flush \/ Close \/ Silent

Spec == Init /\ [][Next]_vars
=============================================================================
