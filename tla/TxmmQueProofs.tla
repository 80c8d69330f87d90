--------------------------- MODULE TxmmQueProofs ---------------------------
(***************************************************************************)
(* Proofs about TxmmQue, the ring of a TXMM queue, for any number of        *)
(* blocks: that the ring stays consistent, that the timer's walk misses     *)
(* nothing although deletions move blocks under it, and that the ring       *)
(* implements the queue of TxmmQueSpec.                                     *)
(***************************************************************************)
EXTENDS TxmmQue, FiniteSetTheorems, SequenceTheorems, TLAPS

-----------------------------------------------------------------------------
(***************************************************************************)
(* Places.  At(f, k) is the place k steps after place f.                    *)
(***************************************************************************)
At(f, k) == (f + k) % N

\* The ring has at least one place.
LEMMA RingSize == N \in Nat /\ N >= 1
<1>1. N \in Nat
  BY QueAssumption, FS_CardinalityType DEF N
<1>2. N # 0
  BY QueAssumption, FS_EmptySet DEF N
<1> QED
  BY <1>1, <1>2

\* Three cases of the remainder, the only ones there are here.
LEMMA Remainder ==
  ASSUME NEW n \in Nat, n >= 1
  PROVE  /\ \A x \in 0 .. n - 1 : x % n = x
         /\ \A x \in n .. 2 * n - 1 : x % n = x - n
         /\ \A x \in (-n) .. (-1) : x % n = x + n
OBVIOUS

\* A place without the remainder.
LEMMA AtCases ==
  ASSUME NEW f \in Places, NEW k \in 0 .. N
  PROVE  At(f, k) = IF f + k < N THEN f + k ELSE f + k - N
<1>1. CASE f + k < N
  <2>1. f + k \in 0 .. N - 1
    BY <1>1, RingSize DEF Places
  <2> QED
    BY <1>1, <2>1, RingSize, Remainder DEF At
<1>2. CASE ~(f + k < N)
  <2>1. f + k \in N .. 2 * N - 1
    BY <1>2, RingSize DEF Places
  <2>2. \A x \in N .. 2 * N - 1 : x % N = x - N
    BY RingSize, Remainder
  <2>3. (f + k) % N = (f + k) - N
    BY <2>1, <2>2
  <2>4. (f + k) - N = f + k - N
    BY RingSize DEF Places
  <2> QED
    BY <1>2, <2>3, <2>4 DEF At
<1> QED
  BY <1>1, <1>2

\* Places are places of the ring.
LEMMA AtPlace ==
  ASSUME NEW f \in Places, NEW k \in 0 .. N
  PROVE  At(f, k) \in Places
BY AtCases, RingSize DEF Places

\* No step, and a whole turn.
LEMMA AtEnds ==
  ASSUME NEW f \in Places
  PROVE  At(f, 0) = f /\ At(f, N) = f
<1>1. 0 \in 0 .. N /\ N \in 0 .. N /\ f \in Int
  BY RingSize DEF Places
<1> QED
  BY <1>1, AtCases, RingSize DEF Places

\* INC_WRAP_IDX and the step back are one step.
LEMMA AtNext ==
  ASSUME NEW f \in Places, NEW k \in 0 .. N - 1
  PROVE  /\ IncWrap(f) \in Places
         /\ At(IncWrap(f), k) = At(f, k + 1)
         /\ IncWrap(At(f, k)) = At(f, k + 1)
         /\ DecWrap(At(f, k + 1)) = At(f, k)
<1>1. k \in 0 .. N /\ k + 1 \in 0 .. N /\ IncWrap(f) \in Places
  BY RingSize DEF IncWrap, Places
<1>2. /\ At(f, k) = IF f + k < N THEN f + k ELSE f + k - N
      /\ At(f, k + 1) = IF f + (k + 1) < N THEN f + (k + 1) ELSE f + (k + 1) - N
      /\ At(IncWrap(f), k) = IF IncWrap(f) + k < N THEN IncWrap(f) + k
                             ELSE IncWrap(f) + k - N
  BY <1>1, AtCases
<1> QED
  BY <1>1, <1>2, RingSize DEF IncWrap, DecWrap, Places

\* Fewer than N steps lead to different places.
LEMMA AtInjective ==
  ASSUME NEW f \in Places, NEW j \in 0 .. N - 1, NEW k \in 0 .. N - 1,
         At(f, j) = At(f, k)
  PROVE  j = k
<1>1. j \in 0 .. N /\ k \in 0 .. N
  BY RingSize
<1> QED
  BY <1>1, AtCases, RingSize DEF Places

\* The distance back from one place to another.
LEMMA AtDistance ==
  ASSUME NEW f \in Places, NEW j \in 0 .. N - 1, NEW k \in 0 .. N - 1
  PROVE  (At(f, k) - At(f, j)) % N = IF j <= k THEN k - j ELSE k - j + N
<1>1. j \in 0 .. N /\ k \in 0 .. N
  BY RingSize
<1>2. /\ At(f, k) = IF f + k < N THEN f + k ELSE f + k - N
      /\ At(f, j) = IF f + j < N THEN f + j ELSE f + j - N
  BY <1>1, AtCases
<1> DEFINE x == At(f, k) - At(f, j)
<1>3. x \in Int /\ x < N /\ x >= -N
  BY <1>2, RingSize DEF Places
<1>4. x = k - j \/ x = k - j + N \/ x = k - j - N
  BY <1>2, RingSize DEF Places
<1> HIDE DEF x
<1>5. CASE x >= 0
  <2>1. x \in 0 .. N - 1
    BY <1>3, <1>5, RingSize
  <2>2. x % N = x
    BY <2>1, RingSize, Remainder
  <2> QED
    BY <1>3, <1>4, <1>5, <2>2, RingSize DEF x
<1>6. CASE x < 0
  <2>1. x \in (-N) .. (-1)
    BY <1>3, <1>6, RingSize
  <2>2. x % N = x + N
    BY <2>1, RingSize, Remainder
  <2> QED
    BY <1>3, <1>4, <1>6, <2>2, RingSize DEF x
<1> QED
  BY <1>3, <1>5, <1>6

\* Every place is reached in fewer than N steps.
LEMMA AtOnto ==
  ASSUME NEW f \in Places, NEW p \in Places
  PROVE  \E k \in 0 .. N - 1 : p = At(f, k)
<1> DEFINE k == IF f <= p THEN p - f ELSE p - f + N
<1>1. k \in 0 .. N - 1 /\ k \in 0 .. N
  BY RingSize DEF Places
<1>2. At(f, k) = IF f + k < N THEN f + k ELSE f + k - N
  BY <1>1, AtCases
<1>3. p = At(f, k)
  BY <1>2, RingSize DEF Places
<1> QED
  BY <1>1, <1>3

-----------------------------------------------------------------------------
(***************************************************************************)
(* The invariant.                                                           *)
(***************************************************************************)
\* The k-th block of the ring.
Nth(k) == ptr[At(from, k)]

\* The blocks of the ring know their places, so each is there once.
RingInv ==
  /\ to = At(from, total)
  /\ \A b \in Blocks : b \in inQue <=> \E k \in 0 .. total - 1 : Nth(k) = b
  /\ \A k \in 0 .. total - 1 : Nth(k) \in Blocks /\ idx[Nth(k)] = At(from, k)
  /\ Cardinality(inQue) = total

\* The walk has passed the first d blocks, and none of them is due; or the ring
\* was full when the walk began, and it ends at once.
WalkInv ==
  si # None =>
    \/ /\ sawAll /\ total < N
       /\ \E d \in 0 .. total :
            /\ si = At(from, d)
            /\ \A k \in 0 .. d - 1 : Nth(k) \notin due
    \/ ~sawAll /\ si = to

IInv == TypeOK /\ RingInv /\ WalkInv

\* Before a deletion of the d-th block, where the k-th block of the new ring was.
Old(d, k) ==
  IF ordered THEN IF k < d THEN k ELSE k + 1
  ELSE IF k + 1 = d THEN 0 ELSE k + 1

\* Every block of the new ring comes from the old one, and not from place d.
LEMMA OldRange ==
  ASSUME NEW n \in Nat, NEW d \in 0 .. n - 1, NEW k \in 0 .. n - 2
  PROVE  Old(d, k) \in 0 .. n - 1 /\ Old(d, k) # d
BY DEF Old

\* Every block but the d-th comes to exactly one place.
LEMMA OldInjective ==
  ASSUME NEW n \in Nat, NEW d \in 0 .. n - 1
  PROVE  /\ \A j, k \in 0 .. n - 2 : Old(d, j) = Old(d, k) => j = k
         /\ \A e \in 0 .. n - 1 : e # d => \E k \in 0 .. n - 2 : Old(d, k) = e
<1>1. \A j, k \in 0 .. n - 2 : Old(d, j) = Old(d, k) => j = k
  BY DEF Old
<1>2. ASSUME NEW e \in 0 .. n - 1, e # d
      PROVE  \E k \in 0 .. n - 2 : Old(d, k) = e
  <2> DEFINE k == IF ordered THEN IF e < d THEN e ELSE e - 1
                  ELSE IF e = 0 THEN d - 1 ELSE e - 1
  <2>1. k \in 0 .. n - 2 /\ Old(d, k) = e
    BY <1>2 DEF Old
  <2> QED
    BY <2>1
<1> QED
  BY <1>1, <1>2

\* What _mtlk_txmm_del_buf_from_que moves, counted from the front.
LEMMA MovedPlaces ==
  ASSUME TypeOK, NEW d \in 0 .. N - 1, NEW e \in 0 .. N - 1
  PROVE  At(from, e) \in Moved(At(from, d)) <=>
           IF ordered THEN 1 <= e /\ e <= d ELSE e = d /\ d # 0
<1>0. from \in Places /\ 0 \in 0 .. N - 1
  BY RingSize DEF TypeOK
<1>1. At(from, 0) = from
  BY <1>0, AtEnds
<1>2. At(from, d) = from <=> d = 0
  BY <1>0, <1>1, AtInjective
<1>3. At(from, d) = At(from, e) <=> d = e
  BY <1>0, AtInjective
<1>4. At(from, e) \in Places
  <2>1. e \in 0 .. N
    BY RingSize
  <2> QED
    BY <1>0, <2>1, AtPlace
<1>5. (At(from, d) - At(from, e)) % N = IF e <= d THEN d - e ELSE d - e + N
  BY <1>0, AtDistance
<1>6. (At(from, d) - from) % N = d
  <2>1. (At(from, d) - At(from, 0)) % N = IF 0 <= d THEN d - 0 ELSE d - 0 + N
    BY <1>0, AtDistance
  <2> QED
    BY <2>1, <1>1
<1>7. CASE d = 0
  BY <1>2, <1>7 DEF Moved
<1>8. CASE d # 0 /\ ordered
  <2>1. Moved(At(from, d)) =
          {j \in Places : (At(from, d) - j) % N < (At(from, d) - from) % N}
    BY <1>2, <1>8 DEF Moved
  <2>2. At(from, e) \in Moved(At(from, d)) <=>
          (IF e <= d THEN d - e ELSE d - e + N) < d
    BY <2>1, <1>4, <1>5, <1>6
  <2> QED
    BY <2>2, <1>8, RingSize
<1>9. CASE d # 0 /\ ~ordered
  BY <1>2, <1>3, <1>9 DEF Moved
<1> QED
  BY <1>7, <1>8, <1>9

\* The ring after the d-th block has been deleted.
LEMMA Deleted ==
  ASSUME TypeOK, RingInv, NEW d \in 0 .. total - 1, DelBuf(Nth(d))
  PROVE  /\ ptr' \in [Places -> Blocks \cup {None}]
         /\ idx' \in [Blocks -> Places]
         /\ from' = At(from, 1) /\ from' \in Places
         /\ total' = total - 1 /\ total' \in 0 .. N - 1
         /\ to' = to
         /\ inQue' = inQue \ {Nth(d)}
         /\ \A k \in 0 .. total - 2 :
              /\ At(from', k) = At(from, k + 1)
              /\ ptr'[At(from', k)] = Nth(Old(d, k))
              /\ idx'[Nth(Old(d, k))] = At(from', k)
<1> DEFINE b == Nth(d)
           i == At(from, d)
           comesTo(c, j) == j \in Moved(i) /\ ptr[Source(j)] = c
<1>1. /\ from \in Places /\ total \in 0 .. N /\ N \in Nat /\ N >= 1
      /\ d \in 0 .. N - 1 /\ total \in Nat
  BY RingSize DEF TypeOK
<1>2. b \in Blocks /\ idx[b] = i /\ i \in Places
  <2>1. d \in 0 .. N
    BY <1>1
  <2> QED
    BY <2>1, <1>1, AtPlace DEF RingInv
<1>3. /\ ptr' = [j \in Places |->
                  IF j \in Moved(i) THEN ptr[Source(j)] ELSE ptr[j]]
      /\ idx' = [c \in Blocks |->
                  IF \E j \in Places : comesTo(c, j)
                  THEN CHOOSE j \in Places : comesTo(c, j) ELSE idx[c]]
      /\ from' = IncWrap(from)
      /\ total' = total - 1
      /\ inQue' = inQue \ {b}
      /\ UNCHANGED to
  BY <1>2 DEF DelBuf
<1>4. \A e \in 0 .. N - 1 :
        At(from, e) \in Moved(i) <=>
          IF ordered THEN 1 <= e /\ e <= d ELSE e = d /\ d # 0
  BY <1>1, MovedPlaces
<1>5. \A e \in 0 .. N - 1 :
        At(from, e) \in Moved(i) =>
          Source(At(from, e)) = IF ordered THEN At(from, e - 1) ELSE At(from, 0)
  <2> SUFFICES ASSUME NEW e \in 0 .. N - 1, At(from, e) \in Moved(i)
               PROVE  Source(At(from, e)) =
                        IF ordered THEN At(from, e - 1) ELSE At(from, 0)
    OBVIOUS
  <2>1. CASE ordered
    <3>1. e - 1 \in 0 .. N - 1 /\ (e - 1) + 1 = e
      BY <1>1, <1>4, <2>1
    <3>2. DecWrap(At(from, e)) = At(from, e - 1)
      BY <1>1, <3>1, AtNext
    <3> QED
      BY <2>1, <3>2 DEF Source
  <2>2. CASE ~ordered
    BY <1>1, <2>2, AtEnds DEF Source
  <2> QED
    BY <2>1, <2>2
<1> HIDE DEF comesTo
<1>6. from' = At(from, 1) /\ from' \in Places
  <2>1. 0 \in 0 .. N - 1 /\ 0 + 1 = 1
    BY <1>1
  <2> QED
    BY <2>1, <1>1, <1>3, AtNext, AtEnds
<1>7. ptr' \in [Places -> Blocks \cup {None}]
  <2>1. \A j \in Places : Source(j) \in Places
    BY <1>1 DEF Source, DecWrap, Places
  <2> QED
    BY <1>3, <2>1 DEF TypeOK
<1>8. idx' \in [Blocks -> Places]
  BY <1>3 DEF TypeOK
<1>9. \A j, k \in 0 .. total - 1 : Nth(j) = Nth(k) => j = k
  <2> SUFFICES ASSUME NEW j \in 0 .. total - 1, NEW k \in 0 .. total - 1,
                      Nth(j) = Nth(k)
               PROVE  j = k
    OBVIOUS
  <2>1. At(from, j) = At(from, k)
    BY DEF RingInv
  <2>2. j \in 0 .. N - 1 /\ k \in 0 .. N - 1
    BY <1>1
  <2> QED
    BY <1>1, <2>1, <2>2, AtInjective
<1>10. ASSUME NEW k \in 0 .. total - 2
       PROVE  /\ At(from', k) = At(from, k + 1)
              /\ ptr'[At(from', k)] = Nth(Old(d, k))
              /\ idx'[Nth(Old(d, k))] = At(from', k)
  <2> DEFINE p == At(from, k + 1)
             c == Nth(Old(d, k))
  <2>1. k \in 0 .. N - 1 /\ k + 1 \in 0 .. N - 1 /\ k + 1 \in 0 .. N
    BY <1>1
  <2>2. At(from', k) = p /\ p \in Places
    BY <1>1, <1>3, <2>1, AtNext, AtPlace
  <2>3. Old(d, k) \in 0 .. total - 1 /\ Old(d, k) \in 0 .. N - 1
    BY <1>1, OldRange
  <2>4. c \in Blocks /\ idx[c] = At(from, Old(d, k))
    BY <2>3 DEF RingInv
  <2>5. p \in Moved(i) <=>
          IF ordered THEN k < d ELSE k + 1 = d
    BY <1>4, <2>1, <1>1
  <2>6. CASE p \in Moved(i)
    <3>1. Source(p) = At(from, Old(d, k))
      BY <1>1, <1>5, <2>1, <2>5, <2>6 DEF Old
    <3>2. ptr'[p] = c
      BY <1>3, <2>2, <2>6, <3>1 DEF Nth
    <3>3. comesTo(c, p)
      BY <2>6, <3>1 DEF comesTo, Nth
    <3>4. ASSUME NEW j \in Places, comesTo(c, j)
          PROVE  j = p
      <4>1. PICK e \in 0 .. N - 1 : j = At(from, e)
        BY <1>1, AtOnto
      <4>2. j \in Moved(i) /\ ptr[Source(j)] = c
        BY <3>4 DEF comesTo
      <4>3. IF ordered THEN 1 <= e /\ e <= d ELSE e = d /\ d # 0
        BY <1>4, <4>1, <4>2
      <4> DEFINE g == IF ordered THEN e - 1 ELSE 0
      <4>4. Source(j) = At(from, g) /\ g \in 0 .. total - 1
        BY <1>1, <1>5, <4>1, <4>2, <4>3
      <4>5. Nth(g) = Nth(Old(d, k))
        BY <4>2, <4>4 DEF Nth
      <4>6. g = Old(d, k)
        BY <1>9, <2>3, <4>4, <4>5
      <4>7. e = k + 1
        BY <4>3, <4>6, <2>5, <2>6, <2>1 DEF Old
      <4> QED
        BY <4>1, <4>7
    <3>5. idx'[c] = p
      <4>1. idx'[c] = CHOOSE j \in Places : comesTo(c, j)
        BY <1>3, <2>2, <2>4, <3>3
      <4> QED
        BY <4>1, <2>2, <3>3, <3>4
    <3> QED
      BY <2>2, <3>2, <3>5
  <2>7. CASE p \notin Moved(i)
    <3>1. Old(d, k) = k + 1
      BY <2>5, <2>7 DEF Old
    <3>2. ptr'[p] = c
      BY <1>3, <2>2, <2>7, <3>1 DEF Nth
    <3>3. ASSUME NEW j \in Places, comesTo(c, j)
          PROVE  FALSE
      <4>1. PICK e \in 0 .. N - 1 : j = At(from, e)
        BY <1>1, AtOnto
      <4>2. j \in Moved(i) /\ ptr[Source(j)] = c
        BY <3>3 DEF comesTo
      <4>3. IF ordered THEN 1 <= e /\ e <= d ELSE e = d /\ d # 0
        BY <1>4, <4>1, <4>2
      <4> DEFINE g == IF ordered THEN e - 1 ELSE 0
      <4>4. Source(j) = At(from, g) /\ g \in 0 .. total - 1
        BY <1>1, <1>5, <4>1, <4>2, <4>3
      <4>5. Nth(g) = Nth(Old(d, k))
        BY <4>2, <4>4 DEF Nth
      <4>6. g = k + 1
        BY <1>9, <2>3, <3>1, <4>4, <4>5
      <4> QED
        BY <4>3, <4>6, <2>5, <2>7, <2>1
    <3>4. idx'[c] = idx[c]
      BY <1>3, <2>4, <3>3
    <3> QED
      BY <2>2, <2>4, <3>1, <3>2, <3>4
  <2> QED
    BY <2>6, <2>7
<1>11. total' = total - 1 /\ total' \in 0 .. N - 1
  BY <1>1, <1>3
<1> QED
  BY <1>3, <1>6, <1>7, <1>8, <1>10, <1>11

-----------------------------------------------------------------------------
(***************************************************************************)
(* The steps.                                                               *)
(***************************************************************************)
LEMMA NthInjective ==
  ASSUME TypeOK, RingInv, NEW j \in 0 .. total - 1, NEW k \in 0 .. total - 1,
         Nth(j) = Nth(k)
  PROVE  j = k
<1>1. At(from, j) = At(from, k)
  BY DEF RingInv
<1>2. j \in 0 .. N - 1 /\ k \in 0 .. N - 1 /\ from \in Places
  BY RingSize DEF TypeOK
<1> QED
  BY <1>1, <1>2, AtInjective

\* A deletion keeps the ring consistent.
LEMMA DeletedRing ==
  ASSUME TypeOK, RingInv, NEW d \in 0 .. total - 1, DelBuf(Nth(d))
  PROVE  RingInv'
<1>0. /\ from \in Places /\ total \in 0 .. N /\ N \in Nat /\ N >= 1
      /\ total \in Nat /\ inQue \subseteq Blocks /\ IsFiniteSet(inQue)
  BY RingSize, QueAssumption, FS_Subset DEF TypeOK
<1>1. /\ from' = At(from, 1) /\ from' \in Places
      /\ total' = total - 1 /\ to' = to
      /\ inQue' = inQue \ {Nth(d)}
      /\ \A k \in 0 .. total - 2 :
           /\ At(from', k) = At(from, k + 1)
           /\ ptr'[At(from', k)] = Nth(Old(d, k))
           /\ idx'[Nth(Old(d, k))] = At(from', k)
  BY Deleted
<1>2. to' = At(from', total')
  <2>1. total - 1 \in 0 .. N - 1 /\ (total - 1) + 1 = total /\ 0 \in 0 .. N - 1
    BY <1>0
  <2>2. from' = IncWrap(from)
    BY DEF DelBuf
  <2>3. At(IncWrap(from), total - 1) = At(from, (total - 1) + 1)
    BY <1>0, <2>1, AtNext
  <2> QED
    BY <1>1, <2>1, <2>2, <2>3 DEF RingInv
<1>3. \A k \in 0 .. total' - 1 :
        /\ Nth(k)' = Nth(Old(d, k))
        /\ Old(d, k) \in 0 .. total - 1 /\ Old(d, k) # d
        /\ idx'[Nth(Old(d, k))] = At(from', k)
  <2> TAKE k \in 0 .. total' - 1
  <2>1. k \in 0 .. total - 2
    BY <1>0, <1>1
  <2> QED
    BY <1>0, <1>1, <2>1, OldRange DEF Nth
<1>4. \A k \in 0 .. total' - 1 :
        Nth(k)' \in Blocks /\ idx'[Nth(k)'] = At(from', k)
  BY <1>3 DEF RingInv
<1>5. \A b \in Blocks : b \in inQue' <=> \E k \in 0 .. total' - 1 : Nth(k)' = b
  <2> TAKE b \in Blocks
  <2>1. ASSUME b \in inQue' PROVE \E k \in 0 .. total' - 1 : Nth(k)' = b
    <3>1. PICK e \in 0 .. total - 1 : Nth(e) = b
      BY <1>1, <2>1 DEF RingInv
    <3>2. e # d
      BY <1>1, <2>1, <3>1
    <3>a. \A x \in 0 .. total - 1 : x # d => \E k \in 0 .. total - 2 : Old(d, k) = x
      BY <1>0, OldInjective
    <3>3. PICK k \in 0 .. total - 2 : Old(d, k) = e
      BY <3>a, <3>2
    <3>4. k \in 0 .. total' - 1
      BY <1>0, <1>1
    <3> QED
      BY <1>3, <3>1, <3>3, <3>4
  <2>2. ASSUME NEW k \in 0 .. total' - 1, Nth(k)' = b PROVE b \in inQue'
    <3>1. Nth(Old(d, k)) = b /\ Old(d, k) \in 0 .. total - 1 /\ Old(d, k) # d
      BY <1>3, <2>2
    <3>2. b \in inQue
      BY <3>1 DEF RingInv
    <3>3. b # Nth(d)
      BY <3>1, NthInjective
    <3> QED
      BY <1>1, <3>2, <3>3
  <2> QED
    BY <2>1, <2>2
<1>6. Cardinality(inQue') = total'
  <2>1. Nth(d) \in inQue
    BY DEF RingInv
  <2>2. Cardinality(inQue \ {Nth(d)}) = Cardinality(inQue) - 1
    BY <1>0, <2>1, FS_RemoveElement
  <2> QED
    BY <1>1, <2>2 DEF RingInv
<1> QED
  BY <1>2, <1>4, <1>5, <1>6 DEF RingInv

\* A block of the queue is at some place of the ring.
LEMMA Placed ==
  ASSUME RingInv, NEW b \in Blocks, b \in inQue
  PROVE  \E d \in 0 .. total - 1 : b = Nth(d)
BY DEF RingInv

\* There is a place for a block that is not in the ring.
LEMMA PutHasRoom ==
  ASSUME TypeOK, RingInv, NEW b \in Blocks, b \notin inQue
  PROVE  total \in 0 .. N - 1
<1>1. inQue \subseteq Blocks /\ inQue # Blocks /\ IsFiniteSet(Blocks)
  BY QueAssumption DEF TypeOK
<1>2. Cardinality(inQue) # Cardinality(Blocks)
  BY <1>1, FS_Subset
<1> QED
  BY <1>2, RingSize DEF RingInv, TypeOK, N

\* _mtlk_txmm_put_buf.
LEMMA PutRing ==
  ASSUME TypeOK, RingInv, NEW b \in Blocks, PutBuf(b)
  PROVE  /\ RingInv'
         /\ total \in 0 .. N - 1 /\ total' = total + 1
         /\ \A k \in 0 .. total - 1 : Nth(k)' = Nth(k)
         /\ ptr'[At(from', total)] = b
<1>0. /\ from \in Places /\ N \in Nat /\ N >= 1 /\ b \notin inQue
      /\ inQue \subseteq Blocks /\ IsFiniteSet(inQue)
      /\ ptr \in [Places -> Blocks \cup {None}] /\ idx \in [Blocks -> Places]
  BY RingSize, QueAssumption, FS_Subset DEF TypeOK, PutBuf
<1>1. total \in 0 .. N - 1 /\ total \in Nat
  BY <1>0, PutHasRoom
<1>2. /\ idx' = [idx EXCEPT ![b] = to]
      /\ ptr' = [ptr EXCEPT ![to] = b]
      /\ to' = IncWrap(to)
      /\ total' = total + 1
      /\ inQue' = inQue \cup {b}
      /\ from' = from
  BY DEF PutBuf
<1>3. to = At(from, total) /\ to \in Places
  BY DEF RingInv, TypeOK
<1>4. \A k \in 0 .. total - 1 : At(from, k) # to /\ At(from, k) \in Places
  <2> TAKE k \in 0 .. total - 1
  <2>1. k \in 0 .. N - 1 /\ k \in 0 .. N /\ k # total
    BY <1>1, <1>0
  <2> QED
    BY <1>0, <1>1, <1>3, <2>1, AtInjective, AtPlace
<1>5. \A k \in 0 .. total - 1 : Nth(k)' = Nth(k)
  BY <1>0, <1>2, <1>4 DEF Nth
<1>6. ptr'[At(from', total)] = b
  BY <1>0, <1>2, <1>3 DEF Nth
<1>7. to' = At(from', total')
  BY <1>0, <1>1, <1>2, <1>3, AtNext
<1>8. \A k \in 0 .. total' - 1 : k \in 0 .. total - 1 \/ k = total
  BY <1>1, <1>2
<1>9. \A k \in 0 .. total' - 1 :
        Nth(k)' \in Blocks /\ idx'[Nth(k)'] = At(from', k)
  <2> TAKE k \in 0 .. total' - 1
  <2>1. CASE k = total
    BY <2>1, <1>0, <1>2, <1>3, <1>6 DEF Nth
  <2>2. CASE k \in 0 .. total - 1
    <3>1. Nth(k) \in Blocks /\ idx[Nth(k)] = At(from, k) /\ Nth(k) \in inQue
      BY <2>2 DEF RingInv
    <3> QED
      BY <2>2, <3>1, <1>0, <1>2, <1>5
  <2> QED
    BY <2>1, <2>2, <1>8
<1>10. \A c \in Blocks : c \in inQue' <=> \E k \in 0 .. total' - 1 : Nth(k)' = c
  <2> TAKE c \in Blocks
  <2>1. total \in 0 .. total' - 1 /\ \A k \in 0 .. total - 1 : k \in 0 .. total' - 1
    BY <1>1, <1>2
  <2>2. c \in inQue <=> \E k \in 0 .. total - 1 : Nth(k) = c
    BY DEF RingInv
  <2>3. \A k : k = total => Nth(k)' = b
    BY <1>6 DEF Nth
  <2> QED
    BY <2>1, <2>2, <1>2, <1>5, <1>8, <2>3
<1>11. Cardinality(inQue') = total'
  BY <1>0, <1>2, FS_AddElement DEF RingInv
<1>12. RingInv'
  BY <1>7, <1>9, <1>10, <1>11 DEF RingInv
<1> QED
  BY <1>1, <1>2, <1>5, <1>6, <1>12

\* _mtlk_txmm_get_buf.
LEMMA GetRing ==
  ASSUME TypeOK, RingInv, GetBuf
  PROVE  /\ RingInv'
         /\ total \in 1 .. N /\ total' = total - 1
         /\ from' \in Places
         /\ \A k \in 0 .. total - 2 : Nth(k)' = Nth(k + 1)
<1>0. /\ from \in Places /\ total \in 1 .. N /\ N \in Nat /\ N >= 1
      /\ total \in Nat /\ inQue \subseteq Blocks /\ IsFiniteSet(inQue)
  BY RingSize, QueAssumption, FS_Subset DEF TypeOK, GetBuf
<1>1. /\ from' = IncWrap(from)
      /\ total' = total - 1
      /\ inQue' = inQue \ {ptr[from]}
      /\ UNCHANGED <<ptr, to, idx>>
  BY DEF GetBuf
<1>2. /\ 0 \in 0 .. total - 1 /\ 0 \in 0 .. N - 1
      /\ ptr[from] = Nth(0)
  BY <1>0, AtEnds DEF Nth
<1>3. \A k \in 0 .. total - 1 :
        At(from', k) = At(from, k + 1)
  <2> TAKE k \in 0 .. total - 1
  <2>1. k \in 0 .. N - 1
    BY <1>0
  <2> QED
    BY <1>0, <1>1, <2>1, AtNext
<1>4. \A k \in 0 .. total - 2 :
        /\ k \in 0 .. total - 1 /\ k + 1 \in 0 .. total - 1 /\ k + 1 # 0
        /\ Nth(k)' = Nth(k + 1)
  <2> TAKE k \in 0 .. total - 2
  <2>1. k \in 0 .. total - 1 /\ k + 1 \in 0 .. total - 1 /\ k + 1 # 0
    BY <1>0
  <2> QED
    BY <1>1, <1>3, <2>1 DEF Nth
<1>5. to' = At(from', total')
  <2>1. total - 1 \in 0 .. total - 1 /\ (total - 1) + 1 = total
    BY <1>0
  <2> QED
    BY <1>1, <1>3, <2>1 DEF RingInv
<1>6. \A k \in 0 .. total' - 1 :
        Nth(k)' \in Blocks /\ idx'[Nth(k)'] = At(from', k)
  <2> TAKE k \in 0 .. total' - 1
  <2>1. k \in 0 .. total - 2
    BY <1>0, <1>1
  <2> QED
    BY <1>1, <1>3, <1>4, <2>1 DEF RingInv
<1>7. \A c \in Blocks : c \in inQue' <=> \E k \in 0 .. total' - 1 : Nth(k)' = c
  <2> TAKE c \in Blocks
  <2>1. ASSUME c \in inQue' PROVE \E k \in 0 .. total' - 1 : Nth(k)' = c
    <3>1. PICK e \in 0 .. total - 1 : Nth(e) = c
      BY <1>1, <2>1 DEF RingInv
    <3>2. e # 0
      BY <1>1, <1>2, <2>1, <3>1
    <3>3. e - 1 \in 0 .. total - 2 /\ e - 1 \in 0 .. total' - 1 /\ (e - 1) + 1 = e
      BY <1>0, <1>1, <3>2
    <3> QED
      BY <1>4, <3>1, <3>3
  <2>2. ASSUME NEW k \in 0 .. total' - 1, Nth(k)' = c PROVE c \in inQue'
    <3>1. k \in 0 .. total - 2
      BY <1>0, <1>1
    <3>2. c = Nth(k + 1) /\ k + 1 \in 0 .. total - 1 /\ k + 1 # 0
      BY <1>4, <2>2, <3>1
    <3>3. c \in inQue
      BY <3>2 DEF RingInv
    <3>4. c # Nth(0)
      BY <1>2, <3>2, NthInjective
    <3> QED
      BY <1>1, <1>2, <3>3, <3>4
  <2> QED
    BY <2>1, <2>2
<1>8. Cardinality(inQue') = total'
  <2>1. Nth(0) \in inQue
    BY <1>2 DEF RingInv
  <2>2. Cardinality(inQue \ {Nth(0)}) = Cardinality(inQue) - 1
    BY <1>0, <2>1, FS_RemoveElement
  <2> QED
    BY <1>1, <1>2, <2>2 DEF RingInv
<1>9. RingInv'
  BY <1>5, <1>6, <1>7, <1>8 DEF RingInv
<1>10. from' \in Places
  BY <1>0, <1>1, <1>2, AtNext
<1> QED
  BY <1>0, <1>1, <1>4, <1>9, <1>10

\* One iteration of the walk: the block at the walk's index stays, or is deleted.
LEMMA ScanBlockCases ==
  ASSUME TypeOK, RingInv, WalkInv, ScanBlock
  PROVE  /\ sawAll /\ total < N
         /\ \E d \in 0 .. total - 1 :
              /\ si = At(from, d)
              /\ \A k \in 0 .. d - 1 : Nth(k) \notin due
              /\ \/ Nth(d) \in due /\ DelBuf(Nth(d))
                 \/ Nth(d) \notin due /\ UNCHANGED queVars
<1>1. sawAll /\ total < N
  BY DEF WalkInv, ScanBlock
<1>2. PICK d \in 0 .. total :
            /\ si = At(from, d)
            /\ \A k \in 0 .. d - 1 : Nth(k) \notin due
  BY DEF WalkInv, ScanBlock
<1>3. d # total
  BY <1>2 DEF RingInv, ScanBlock
<1>4. d \in 0 .. total - 1
  BY <1>2, <1>3, RingSize DEF TypeOK
<1>5. \/ Nth(d) \in due /\ DelBuf(Nth(d))
      \/ Nth(d) \notin due /\ UNCHANGED queVars
  BY <1>2 DEF ScanBlock, Nth
<1> QED
  BY <1>1, <1>2, <1>4, <1>5

\* One iteration of the walk keeps its part of the invariant.
LEMMA WalkStep ==
  ASSUME TypeOK, RingInv, WalkInv, ScanBlock
  PROVE  WalkInv'
<1>1. sawAll /\ total < N
  BY ScanBlockCases
<1>2. PICK d \in 0 .. total - 1 :
              /\ si = At(from, d)
              /\ \A k \in 0 .. d - 1 : Nth(k) \notin due
              /\ \/ Nth(d) \in due /\ DelBuf(Nth(d))
                 \/ Nth(d) \notin due /\ UNCHANGED queVars
  BY ScanBlockCases
<1>3. /\ from \in Places /\ total \in Nat /\ N \in Nat /\ d \in 0 .. N - 1
      /\ si' = IncWrap(si) /\ UNCHANGED <<due, sawAll>>
  BY RingSize DEF TypeOK, ScanBlock
<1>4. si' = At(from, d + 1)
  BY <1>2, <1>3, AtNext
<1>5. CASE DelBuf(Nth(d))
  <2>1. /\ from' = IncWrap(from)
        /\ total' = total - 1
        /\ \A k \in 0 .. total - 2 :
             /\ ptr'[At(from', k)] = Nth(Old(d, k))
    BY <1>5, Deleted DEF DelBuf
  <2>2. si' = At(from', d)
    BY <1>3, <1>4, <2>1, AtNext
  <2>3. \A k \in 0 .. d - 1 : Nth(k)' \notin due'
    <3> TAKE k \in 0 .. d - 1
    <3>1. k \in 0 .. total - 2 /\ Old(d, k) \in 0 .. d - 1
      BY <1>3 DEF Old
    <3> QED
      BY <1>2, <1>3, <2>1, <3>1 DEF Nth
  <2>4. d \in 0 .. total' /\ total' < N
    BY <1>1, <1>3, <2>1
  <2> QED
    BY <1>1, <1>3, <2>2, <2>3, <2>4 DEF WalkInv
<1>6. CASE Nth(d) \notin due /\ UNCHANGED queVars
  <2>1. UNCHANGED <<ptr, from, to, total>>
    BY <1>6 DEF queVars
  <2>2. \A k \in 0 .. (d + 1) - 1 : k \in 0 .. d - 1 \/ k = d
    BY <1>3
  <2>3. \A k \in 0 .. (d + 1) - 1 : Nth(k)' \notin due'
    BY <1>2, <1>3, <1>6, <2>1, <2>2 DEF Nth
  <2>4. d + 1 \in 0 .. total'
    BY <1>3, <2>1
  <2>5. si' = At(from', d + 1) /\ sawAll' /\ total' < N
    BY <1>1, <1>3, <1>4, <2>1
  <2> QED
    BY <2>3, <2>4, <2>5 DEF WalkInv
<1> QED
  BY <1>2, <1>5, <1>6

\* The empty queue satisfies the invariant.
LEMMA InitInv == Init => IInv
<1> SUFFICES ASSUME Init PROVE IInv
  OBVIOUS
<1>1. 0 \in Places /\ 0 \in 0 .. N /\ total = 0 /\ from = 0 /\ to = 0
  BY RingSize DEF Init, Places
<1>2. TypeOK
  BY <1>1 DEF Init, TypeOK
<1>3. At(0, 0) = 0
  BY <1>1, AtEnds
<1>4. \A k \in 0 .. 0 - 1 : FALSE
  OBVIOUS
<1>5. RingInv
  BY <1>1, <1>3, <1>4, FS_EmptySet DEF Init, RingInv
<1>6. WalkInv
  BY DEF Init, WalkInv
<1> QED
  BY <1>2, <1>5, <1>6 DEF IInv

\* Every step keeps the invariant.
LEMMA NextInv ==
  ASSUME IInv, [Next]_vars
  PROVE  IInv'
<1>0. TypeOK /\ RingInv /\ WalkInv /\ N \in Nat
  BY RingSize DEF IInv
<1>1. CASE UNCHANGED vars
  BY <1>0, <1>1 DEF IInv, TypeOK, RingInv, WalkInv, Nth, vars, queVars
<1>2. ASSUME NEW b \in Blocks, PutBuf(b), UNCHANGED ordered
      PROVE  IInv'
  <2>1. RingInv' /\ total \in 0 .. N - 1 /\ total' = total + 1
    BY <1>0, <1>2, PutRing
  <2>2. /\ idx' = [idx EXCEPT ![b] = to] /\ ptr' = [ptr EXCEPT ![to] = b]
        /\ to' = IncWrap(to) /\ inQue' = inQue \cup {b} /\ due' = due \ {b}
        /\ si = None /\ UNCHANGED <<from, si, sawAll>>
    BY <1>2 DEF PutBuf
  <2>3. to' \in Places
    BY <1>0, <2>2, RingSize DEF TypeOK, IncWrap, Places
  <2>4. total' \in 0 .. N
    BY <1>0, <2>1
  <2>5. TypeOK'
    BY <1>0, <1>2, <2>2, <2>3, <2>4 DEF TypeOK
  <2> QED
    BY <2>1, <2>2, <2>5 DEF IInv, WalkInv
<1>3. CASE GetBuf /\ UNCHANGED ordered
  <2>1. RingInv' /\ total \in 1 .. N /\ total' = total - 1 /\ from' \in Places
    BY <1>0, <1>3, GetRing
  <2>2. inQue' \subseteq inQue /\ UNCHANGED <<ptr, to, idx, due, si, sawAll>>
    BY <1>3 DEF GetBuf
  <2>3. total' \in 0 .. N
    BY <1>0, <2>1
  <2>4. TypeOK'
    BY <1>0, <1>3, <2>1, <2>2, <2>3 DEF TypeOK
  <2>5. WalkInv'
    BY <1>3 DEF GetBuf, WalkInv
  <2> QED
    BY <2>1, <2>4, <2>5 DEF IInv
<1>4. ASSUME NEW d \in 0 .. total - 1, DelBuf(Nth(d)), UNCHANGED <<ordered, due, sawAll>>,
             si' \in Places \cup {None}
      PROVE  TypeOK' /\ RingInv'
  <2>1. /\ ptr' \in [Places -> Blocks \cup {None}]
        /\ idx' \in [Blocks -> Places]
        /\ from' \in Places
        /\ total' \in 0 .. N - 1
        /\ to' = to
        /\ inQue' = inQue \ {Nth(d)}
    BY <1>0, <1>4, Deleted
  <2>2. total' \in 0 .. N
    BY <1>0, <2>1
  <2>3. TypeOK'
    BY <1>0, <1>4, <2>1, <2>2 DEF TypeOK
  <2> QED
    BY <1>0, <1>4, <2>3, DeletedRing
<1>5. ASSUME NEW b \in Blocks, Unlink(b), UNCHANGED ordered
      PROVE  IInv'
  <2>1. PICK d \in 0 .. total - 1 : b = Nth(d)
    BY <1>0, <1>5, Placed DEF Unlink
  <2>2. /\ DelBuf(Nth(d)) /\ UNCHANGED <<ordered, due, sawAll>>
        /\ si = None /\ si' = si
    BY <1>5, <2>1 DEF Unlink
  <2>3. TypeOK' /\ RingInv'
    BY <1>4, <2>2
  <2> QED
    BY <2>2, <2>3 DEF IInv, WalkInv
<1>6. ASSUME NEW b \in Blocks, Expire(b), UNCHANGED ordered
      PROVE  IInv'
  <2>1. TypeOK'
    BY <1>0, <1>6 DEF TypeOK, Expire, queVars
  <2>2. RingInv'
    BY <1>0, <1>6 DEF RingInv, Nth, Expire, queVars
  <2> QED
    BY <1>6, <2>1, <2>2 DEF IInv, WalkInv, Expire
<1>7. CASE ScanBegin /\ UNCHANGED ordered
  <2>1. TypeOK'
    <3>1. sawAll' \in BOOLEAN
      BY <1>7 DEF ScanBegin
    <3> QED
      BY <1>0, <1>7, <3>1 DEF TypeOK, ScanBegin, queVars
  <2>2. RingInv'
    BY <1>0, <1>7 DEF RingInv, Nth, ScanBegin, queVars
  <2>3. /\ si' = from /\ UNCHANGED <<ptr, from, to, total, due>>
        /\ from \in Places /\ total \in 0 .. N
    BY <1>0, <1>7 DEF TypeOK, ScanBegin, queVars
  <2>4. sawAll' <=> total < N
    BY <1>7 DEF ScanBegin
  <2>5. At(from, 0) = from /\ At(from, N) = from
    BY <2>3, AtEnds
  <2>6. CASE total < N
    <3>1. 0 \in 0 .. total' /\ \A k \in 0 .. 0 - 1 : Nth(k)' \notin due'
      BY <1>0, <2>3
    <3>2. sawAll' /\ total' < N /\ si' = At(from', 0)
      BY <2>3, <2>4, <2>5, <2>6
    <3> QED
      BY <2>1, <2>2, <3>1, <3>2 DEF IInv, WalkInv
  <2>7. CASE ~(total < N)
    <3>1. total = N
      BY <1>0, <2>3, <2>7
    <3>2. ~sawAll' /\ si' = to'
      BY <1>0, <2>3, <2>4, <2>5, <2>7, <3>1 DEF RingInv
    <3> QED
      BY <2>1, <2>2, <3>2 DEF IInv, WalkInv
  <2> QED
    BY <2>6, <2>7
<1>8. CASE ScanBlock /\ UNCHANGED ordered
  <2>1. WalkInv'
    BY <1>0, <1>8, WalkStep
  <2>2. PICK d \in 0 .. total - 1 :
              /\ si = At(from, d)
              /\ \/ DelBuf(Nth(d))
                 \/ UNCHANGED queVars
    BY <1>0, <1>8, ScanBlockCases
  <2>3. UNCHANGED <<ordered, due, sawAll>> /\ si' = IncWrap(si)
    BY <1>8 DEF ScanBlock
  <2>4. si' \in Places
    <3>1. d \in 0 .. N /\ from \in Places
      BY <1>0 DEF TypeOK
    <3>2. si \in Places
      BY <2>2, <3>1, AtPlace
    <3> QED
      BY <2>3, <3>2, RingSize DEF IncWrap, Places
  <2>5. CASE DelBuf(Nth(d))
    BY <1>4, <2>1, <2>3, <2>4, <2>5 DEF IInv
  <2>6. CASE UNCHANGED queVars
    <3>1. TypeOK'
      BY <1>0, <2>3, <2>4, <2>6 DEF TypeOK, queVars
    <3>2. RingInv'
      BY <1>0, <2>6 DEF RingInv, Nth, queVars
    <3> QED
      BY <2>1, <3>1, <3>2 DEF IInv
  <2> QED
    BY <2>2, <2>5, <2>6
<1>9. CASE ScanEnd /\ UNCHANGED ordered
  <2>1. TypeOK'
    BY <1>0, <1>9 DEF TypeOK, ScanEnd, queVars
  <2>2. RingInv'
    BY <1>0, <1>9 DEF RingInv, Nth, ScanEnd, queVars
  <2> QED
    BY <1>9, <2>1, <2>2 DEF IInv, WalkInv, ScanEnd
<1> QED
  BY <1>1, <1>2, <1>3, <1>5, <1>6, <1>7, <1>8, <1>9 DEF Next

\* The invariant implies the property the runs check.
LEMMA IInvRingSafe == IInv => RingSafe
<1> SUFFICES ASSUME IInv PROVE RingSafe
  OBVIOUS
<1>0. /\ TypeOK /\ RingInv /\ WalkInv /\ from \in Places
      /\ total \in 0 .. N /\ N \in Nat /\ N >= 1
  BY RingSize DEF IInv, TypeOK
<1>1. RingConsistent
  <2>1. to = (from + total) % N
    BY <1>0 DEF RingInv, At
  <2>2. \A b : b \in inQue <=> \E k \in 0 .. total - 1 : b = ptr[(from + k) % N]
    BY <1>0 DEF RingInv, TypeOK, Nth, At
  <2>3. inQue = {ptr[(from + k) % N] : k \in 0 .. total - 1}
    BY <2>2
  <2>4. \A b \in inQue : ptr[idx[b]] = b
    <3> TAKE b \in inQue
    <3>1. PICK k \in 0 .. total - 1 : Nth(k) = b
      BY <1>0 DEF RingInv, TypeOK
    <3>2. idx[b] = At(from, k)
      BY <1>0, <3>1 DEF RingInv
    <3> QED
      BY <3>1, <3>2 DEF Nth
  <2> QED
    BY <2>1, <2>3, <2>4 DEF RingConsistent
<1>2. ScanMissesNothing
  <2> SUFFICES ASSUME si # None, sawAll, NEW k \in 0 .. total - 1,
                      k < (si - from) % N \/ si = to
               PROVE  ptr[(from + k) % N] \notin due
    BY DEF ScanMissesNothing
  <2>1. PICK d \in 0 .. total :
            /\ si = At(from, d)
            /\ \A j \in 0 .. d - 1 : Nth(j) \notin due
    BY <1>0 DEF WalkInv
  <2>2. total < N /\ d \in 0 .. N - 1 /\ total \in 0 .. N - 1 /\ 0 \in 0 .. N - 1
    BY <1>0 DEF WalkInv
  <2>3. (si - from) % N = d
    <3>1. At(from, 0) = from
      BY <1>0, AtEnds
    <3>2. (At(from, d) - At(from, 0)) % N = IF 0 <= d THEN d - 0 ELSE d - 0 + N
      BY <1>0, <2>2, AtDistance
    <3> QED
      BY <2>1, <2>2, <3>1, <3>2
  <2>4. si = to => d = total
    BY <1>0, <2>1, <2>2, AtInjective DEF RingInv
  <2>5. k \in 0 .. d - 1
    BY <2>2, <2>3, <2>4
  <2> QED
    BY <2>1, <2>5 DEF Nth, At
<1> QED
  BY <1>0, <1>1, <1>2 DEF RingSafe

\* The ring of a TXMM queue keeps its indices, its count and the places the
\* blocks remember in agreement, and the timer's walk skips no block that is
\* due, for any number of blocks (_mtlk_txmm_put_buf, _mtlk_txmm_get_buf,
\* _mtlk_txmm_del_buf_from_que, _mtlk_txmm_on_timer_que).
THEOREM RingSafeCorrect == Spec => []RingSafe
<1>1. IInv /\ [Next]_vars => IInv'
  BY NextInv
<1> QED
  BY InitInv, IInvRingSafe, <1>1, PTL DEF Spec

-----------------------------------------------------------------------------
(***************************************************************************)
(* The refinement: the content of the ring is the list of TxmmQueSpec.      *)
(***************************************************************************)

\* The content as a sequence.
LEMMA ContentFacts ==
  ASSUME TypeOK, RingInv
  PROVE  /\ Content \in Seq(Blocks)
         /\ Len(Content) = total
         /\ DOMAIN Content = 1 .. total
         /\ \A k \in 1 .. total : Content[k] = Nth(k - 1)
<1>1. total \in Nat
  BY RingSize DEF TypeOK
<1>2. Content = [k \in 1 .. total |-> Nth(k - 1)]
  BY DEF Content, Nth, At
<1>3. \A k \in 1 .. total : k - 1 \in 0 .. total - 1
  BY <1>1
<1>4. \A k \in 1 .. total : Nth(k - 1) \in Blocks
  BY <1>3 DEF RingInv
<1>5. Content \in [1 .. total -> Blocks]
  BY <1>2, <1>4
<1>6. Content \in Seq(Blocks)
  BY <1>1, <1>5, SeqDef
<1>7. DOMAIN Content = 1 .. total
  BY <1>5
<1>8. Len(Content) = total
  BY <1>1, <1>6, <1>7
<1> QED
  BY <1>2, <1>6, <1>7, <1>8

\* What the queue holds, as a set.
LEMMA ContentElements ==
  ASSUME TypeOK, RingInv
  PROVE  Abs!Elements(Content) = inQue
<1>0. total \in Nat /\ inQue \subseteq Blocks
  BY RingSize DEF TypeOK
<1>1. Abs!Elements(Content) = {Content[i] : i \in 1 .. total}
  BY ContentFacts DEF Abs!Elements
<1>2. \A b : b \in inQue <=> \E i \in 1 .. total : b = Content[i]
  <2> TAKE b
  <2>1. ASSUME b \in inQue PROVE \E i \in 1 .. total : b = Content[i]
    <3>1. PICK k \in 0 .. total - 1 : Nth(k) = b
      BY <1>0, <2>1 DEF RingInv
    <3>2. k + 1 \in 1 .. total /\ (k + 1) - 1 = k
      BY <1>0
    <3> QED
      BY <3>1, <3>2, ContentFacts
  <2>2. ASSUME NEW i \in 1 .. total, b = Content[i] PROVE b \in inQue
    <3>1. i - 1 \in 0 .. total - 1
      BY <1>0
    <3> QED
      BY <2>2, <3>1, ContentFacts DEF RingInv
  <2> QED
    BY <2>1, <2>2
<1> QED
  BY <1>1, <1>2

\* The same of the next state.
LEMMA ContentNext ==
  (TypeOK /\ RingInv =>
     /\ Content \in Seq(Blocks)
     /\ Len(Content) = total
     /\ \A k \in 1 .. total : Content[k] = Nth(k - 1)
     /\ Abs!Elements(Content) = inQue)'
<1>1. TypeOK /\ RingInv =>
        /\ Content \in Seq(Blocks)
        /\ Len(Content) = total
        /\ \A k \in 1 .. total : Content[k] = Nth(k - 1)
        /\ Abs!Elements(Content) = inQue
  BY ContentFacts, ContentElements
<1> QED
  BY <1>1, PTL

\* _mtlk_txmm_put_buf appends to the list.
LEMMA PutImplements ==
  ASSUME IInv, IInv', NEW b \in Blocks, PutBuf(b)
  PROVE  Abs!Put(b)
<1>0. TypeOK /\ RingInv /\ TypeOK' /\ RingInv'
  BY DEF IInv
<1>1. /\ total \in 0 .. N - 1 /\ total' = total + 1
      /\ \A k \in 0 .. total - 1 : Nth(k)' = Nth(k)
      /\ ptr'[At(from', total)] = b
  BY <1>0, PutRing
<1>2. b \notin Abs!Elements(Content)
  BY <1>0, ContentElements DEF PutBuf
<1>3. /\ Content \in Seq(Blocks) /\ Len(Content) = total
      /\ \A k \in 1 .. total : Content[k] = Nth(k - 1)
  BY <1>0, ContentFacts
<1>4. /\ Content' \in Seq(Blocks) /\ Len(Content') = total'
      /\ \A k \in 1 .. total' : Content'[k] = Nth(k - 1)'
  BY <1>0, ContentNext
<1>5. total \in Nat
  BY <1>1, RingSize
<1>6. \A k \in 1 .. total' : Content'[k] = Append(Content, b)[k]
  <2> TAKE k \in 1 .. total'
  <2>1. CASE k = total + 1
    <3>1. k - 1 = total
      BY <1>5, <2>1
    <3>2. Nth(k - 1)' = ptr'[At(from', k - 1)]
      BY DEF Nth
    <3> QED
      BY <1>1, <1>3, <1>4, <1>5, <2>1, <3>1, <3>2
  <2>2. CASE k \in 1 .. total
    <3>1. k - 1 \in 0 .. total - 1
      BY <1>5, <2>2
    <3>2. Content'[k] = Content[k]
      BY <1>1, <1>3, <1>4, <2>2, <3>1
    <3>3. Append(Content, b)[k] = Content[k]
      BY <1>3, <1>5, <2>2
    <3> QED
      BY <3>2, <3>3
  <2>3. k = total + 1 \/ k \in 1 .. total
    BY <1>1, <1>5
  <2> QED
    BY <2>1, <2>2, <2>3
<1>7. Append(Content, b) \in Seq(Blocks) /\ Len(Append(Content, b)) = total'
  BY <1>1, <1>3, <1>5
<1>8. Content' = Append(Content, b)
  BY <1>4, <1>6, <1>7, SeqEqual
<1> QED
  BY <1>2, <1>8 DEF Abs!Put

\* _mtlk_txmm_get_buf takes the head of the list.
LEMMA GetImplements ==
  ASSUME IInv, IInv', GetBuf
  PROVE  Abs!Get
<1>0. TypeOK /\ RingInv /\ TypeOK' /\ RingInv'
  BY DEF IInv
<1>1. /\ total \in 1 .. N /\ total' = total - 1
      /\ \A k \in 0 .. total - 2 : Nth(k)' = Nth(k + 1)
  BY <1>0, GetRing
<1>2. total \in Nat /\ total >= 1
  BY <1>1, RingSize
<1>3. /\ Content \in Seq(Blocks) /\ Len(Content) = total
      /\ \A k \in 1 .. total : Content[k] = Nth(k - 1)
  BY <1>0, ContentFacts
<1>4. /\ Content' \in Seq(Blocks) /\ Len(Content') = total'
      /\ \A k \in 1 .. total' : Content'[k] = Nth(k - 1)'
  BY <1>0, ContentNext
<1>5. Content # <<>>
  BY <1>2, <1>3
<1>6. Tail(Content) \in Seq(Blocks) /\ Len(Tail(Content)) = total'
  BY <1>1, <1>2, <1>3, <1>5
<1>7. \A k \in 1 .. total' : Content'[k] = Tail(Content)[k]
  <2> TAKE k \in 1 .. total'
  <2>1. k - 1 \in 0 .. total - 2 /\ (k - 1) + 1 = k /\ (k + 1) - 1 = k /\ k + 1 \in 1 .. total
    BY <1>1, <1>2
  <2>2. Tail(Content)[k] = Content[k + 1]
    BY <1>3, <1>5, <1>6
  <2>3. Content'[k] = Nth(k)
    BY <1>1, <1>4, <2>1
  <2> QED
    BY <1>3, <2>1, <2>2, <2>3
<1>8. Content' = Tail(Content)
  BY <1>4, <1>6, <1>7, SeqEqual
<1> QED
  BY <1>5, <1>8 DEF Abs!Get

\* _mtlk_txmm_del_buf_from_que takes one block out of the list, the order of the
\* others kept where the queue asks for it.
LEMMA LeaveImplements ==
  ASSUME IInv, IInv', NEW d \in 0 .. total - 1, DelBuf(Nth(d))
  PROVE  Abs!Leave(Nth(d))
<1> DEFINE i == d + 1
           b == Nth(d)
<1>0. TypeOK /\ RingInv /\ TypeOK' /\ RingInv' /\ total \in Nat
  BY RingSize DEF IInv, TypeOK
<1>1. /\ total' = total - 1 /\ inQue' = inQue \ {b}
      /\ \A k \in 0 .. total - 2 : ptr'[At(from', k)] = Nth(Old(d, k))
  BY <1>0, Deleted
<1>2. /\ Content \in Seq(Blocks) /\ Len(Content) = total
      /\ DOMAIN Content = 1 .. total
      /\ \A k \in 1 .. total : Content[k] = Nth(k - 1)
  BY <1>0, ContentFacts
<1>3. /\ Content' \in Seq(Blocks) /\ Len(Content') = total'
      /\ \A k \in 1 .. total' : Content'[k] = Nth(k - 1)'
  BY <1>0, ContentNext
<1>4. i \in 1 .. total /\ i - 1 = d /\ i \in DOMAIN Content /\ Content[i] = b
  BY <1>0, <1>2
<1>5. CASE ordered
  <2> DEFINE u == SubSeq(Content, 1, i - 1)
             v == SubSeq(Content, i + 1, Len(Content))
             r == u \o v
  <2>1. /\ u \in Seq(Blocks) /\ Len(u) = d
        /\ \A k \in 1 .. d : u[k] = Content[k]
    BY <1>0, <1>2, <1>4
  <2>2. /\ v \in Seq(Blocks) /\ Len(v) = total - i
        /\ \A k \in 1 .. total - i : v[k] = Content[i + k]
    BY <1>0, <1>2, <1>4
  <2> HIDE DEF u, v
  <2>3. r \in Seq(Blocks) /\ Len(r) = total'
    BY <1>0, <1>1, <2>1, <2>2
  <2>4. \A k \in 1 .. total' : Content'[k] = r[k]
    <3> TAKE k \in 1 .. total'
    <3>1. k - 1 \in 0 .. total - 2
      BY <1>0, <1>1
    <3>2. Content'[k] = Nth(Old(d, k - 1))
      BY <1>1, <1>3, <3>1 DEF Nth
    <3>3. CASE k <= d
      <4>1. Old(d, k - 1) = k - 1 /\ k \in 1 .. total /\ k \in 1 .. d
        BY <1>0, <1>1, <1>5, <3>3 DEF Old
      <4>2. r[k] = u[k]
        BY <2>1, <2>2, <4>1
      <4> QED
        BY <1>2, <2>1, <3>2, <4>1, <4>2
    <3>4. CASE ~(k <= d)
      <4>1. Old(d, k - 1) = k /\ k + 1 \in 1 .. total /\ (k + 1) - 1 = k
        BY <1>0, <1>1, <1>5, <3>4 DEF Old
      <4>2. r[k] = v[k - d] /\ k - d \in 1 .. total - i
        BY <1>0, <1>1, <2>1, <2>2, <3>4
      <4>3. v[k - d] = Content[i + (k - d)] /\ i + (k - d) = k + 1
        BY <1>0, <2>2, <4>2
      <4> QED
        BY <1>2, <3>2, <4>1, <4>2, <4>3
    <3> QED
      BY <3>3, <3>4
  <2>5. Content' = r
    BY <1>3, <2>3, <2>4, SeqEqual
  <2>6. Content' = SubSeq(Content, 1, i - 1) \o SubSeq(Content, i + 1, Len(Content))
    BY <2>5 DEF r, u, v
  <2> HIDE DEF i, b
  <2> QED
    BY <1>4, <1>5, <2>6 DEF Abs!Leave, b
<1>6. CASE ~ordered
  <2>1. Abs!Elements(Content) = inQue
    BY <1>0, ContentElements
  <2>2. Abs!Elements(Content') = inQue'
    BY <1>0, ContentNext
  <2>3. Len(Content') = Len(Content) - 1
    BY <1>1, <1>2, <1>3
  <2> HIDE DEF i, b
  <2> QED
    BY <1>1, <1>4, <1>6, <2>1, <2>2, <2>3 DEF Abs!Leave, b
<1> QED
  BY <1>5, <1>6

\* A step of the ring is a step of the list.
LEMMA StepImplements ==
  ASSUME IInv, IInv', [Next]_vars
  PROVE  [Abs!Next]_<<Content, ordered>>
<1>0. TypeOK /\ RingInv /\ WalkInv
  BY DEF IInv
<1>1. CASE UNCHANGED <<ptr, from, total, ordered>>
  BY <1>1 DEF Content
<1>2. ASSUME NEW b \in Blocks, PutBuf(b), UNCHANGED ordered
      PROVE  Abs!Next
  BY <1>2, PutImplements DEF Abs!Next
<1>3. CASE GetBuf /\ UNCHANGED ordered
  BY <1>3, GetImplements DEF Abs!Next
<1>4. ASSUME NEW d \in 0 .. total - 1, DelBuf(Nth(d)), UNCHANGED ordered
      PROVE  Abs!Next
  <2>1. Nth(d) \in Blocks
    BY <1>0 DEF RingInv
  <2> QED
    BY <1>4, <2>1, LeaveImplements DEF Abs!Next
<1>5. ASSUME NEW b \in Blocks, Unlink(b), UNCHANGED ordered
      PROVE  Abs!Next
  <2>1. PICK d \in 0 .. total - 1 : b = Nth(d)
    BY <1>0, <1>5, Placed DEF Unlink
  <2> QED
    BY <1>4, <1>5, <2>1 DEF Unlink
<1>6. CASE ScanBlock /\ UNCHANGED ordered
  <2>1. PICK d \in 0 .. total - 1 : DelBuf(Nth(d)) \/ UNCHANGED queVars
    BY <1>0, <1>6, ScanBlockCases
  <2> QED
    BY <1>1, <1>4, <1>6, <2>1 DEF queVars
<1> QED
  BY <1>1, <1>2, <1>3, <1>5, <1>6
  DEF Next, Expire, ScanBegin, ScanEnd, queVars, vars

\* Every step of the ring is a step of the queue or leaves its content alone:
\* put, get, and deletions from the middle, those of a running walk included,
\* wherever the ring wraps.
THEOREM QueueImplemented == Spec => ImplementsQueue
<1>1. Init => Abs!Init
  <2> SUFFICES ASSUME Init PROVE Abs!Init
    OBVIOUS
  <2>1. TypeOK /\ RingInv /\ total = 0
    BY InitInv DEF IInv, Init
  <2>2. Content \in Seq(Blocks) /\ Len(Content) = 0
    BY <2>1, ContentFacts
  <2>3. Content = <<>>
    BY <2>2
  <2> QED
    BY <2>3 DEF Init, Abs!Init
<1>2. IInv /\ [Next]_vars => IInv'
  BY NextInv
<1>3. IInv /\ IInv' /\ [Next]_vars => [Abs!Next]_<<Content, ordered>>
  BY StepImplements
<1> QED
  BY InitInv, <1>1, <1>2, <1>3, PTL DEF Spec, ImplementsQueue, Abs!Spec
=============================================================================
