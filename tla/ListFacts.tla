------------------------------ MODULE ListFacts ------------------------------
(***************************************************************************)
(* Facts about the lists the modules keep their queues in: what a step      *)
(* leaves in a list, in which order and how many of each kind.              *)
(***************************************************************************)
EXTENDS Lists, FiniteSets, FunctionTheorems, FiniteSetTheorems, WellFoundedInduction, TLAPS

-----------------------------------------------------------------------------
(***************************************************************************)
(* Sequences.  Has(q, b): b is in q.  Distinct(q): everything is once.      *)
(***************************************************************************)
Has(q, b) == \E i \in 1 .. Len(q) : q[i] = b
Distinct(q) == \A i, j \in 1 .. Len(q) : q[i] = q[j] => i = j

\* A block enters at the end: what was there stays, in its order.
LEMMA AppendFacts ==
  ASSUME NEW S, NEW q \in Seq(S), Distinct(q), NEW b \in S, ~Has(q, b)
  PROVE  /\ Append(q, b) \in Seq(S)
         /\ Append(q, b) # <<>>
         /\ Distinct(Append(q, b))
         /\ \A c : Has(Append(q, b), c) <=> Has(q, c) \/ c = b
         /\ \A c, d : Ahead(q, c, d) => Ahead(Append(q, b), c, d)
<1> DEFINE r == Append(q, b)
<1>1. r \in Seq(S) /\ Len(r) = Len(q) + 1 /\ r[Len(r)] = b
  OBVIOUS
<1>2. \A i \in 1 .. Len(q) : r[i] = q[i]
  OBVIOUS
<1>3. Len(q) \in Nat
  OBVIOUS
<1> HIDE DEF r
<1>4. \A i \in 1 .. Len(r) : i \in 1 .. Len(q) \/ i = Len(r)
  BY <1>1, <1>3
<1>5. Distinct(r)
  BY <1>1, <1>2, <1>3, <1>4 DEF Distinct, Has
<1>6. \A c : Has(r, c) <=> Has(q, c) \/ c = b
  BY <1>1, <1>2, <1>3, <1>4 DEF Has
<1>7. \A c, d : Ahead(q, c, d) => Ahead(r, c, d)
  BY <1>1, <1>2, <1>3 DEF Ahead
<1>8. r # <<>>
  BY <1>1, <1>3
<1> QED
  BY <1>1, <1>5, <1>6, <1>7, <1>8 DEF r

\* The first block leaves.
LEMMA TailFacts ==
  ASSUME NEW S, NEW q \in Seq(S), Distinct(q), q # <<>>
  PROVE  /\ Head(q) \in S
         /\ Has(q, Head(q))
         /\ Tail(q) \in Seq(S)
         /\ Distinct(Tail(q))
         /\ \A c : Has(Tail(q), c) <=> Has(q, c) /\ c # Head(q)
         /\ \A c, d : Ahead(q, c, d) => c = Head(q) \/ Ahead(Tail(q), c, d)
<1> DEFINE r == Tail(q)
           h == Head(q)
<1>1. /\ Len(q) \in Nat /\ Len(q) >= 1
      /\ r \in Seq(S) /\ Len(r) = Len(q) - 1
      /\ h = q[1] /\ h \in S
  OBVIOUS
<1>2. \A i \in 1 .. Len(r) : r[i] = q[i + 1]
  OBVIOUS
<1> HIDE DEF r, h
<1>3. \A i \in 2 .. Len(q) : i - 1 \in 1 .. Len(r) /\ r[i - 1] = q[i]
  BY <1>1, <1>2
<1>4. Distinct(r)
  BY <1>1, <1>2 DEF Distinct
<1>5. \A c : Has(r, c) <=> Has(q, c) /\ c # h
  <2> TAKE c
  <2>1. ASSUME Has(r, c) PROVE Has(q, c) /\ c # h
    <3>1. PICK i \in 1 .. Len(r) : r[i] = c
      BY <2>1 DEF Has
    <3>2. i + 1 \in 1 .. Len(q) /\ q[i + 1] = c /\ 1 \in 1 .. Len(q) /\ i + 1 # 1
      BY <1>1, <1>2, <3>1
    <3> QED
      BY <1>1, <3>2 DEF Has, Distinct
  <2>2. ASSUME Has(q, c), c # h PROVE Has(r, c)
    <3>1. PICK i \in 1 .. Len(q) : q[i] = c
      BY <2>2 DEF Has
    <3>2. i \in 2 .. Len(q)
      BY <1>1, <2>2, <3>1
    <3> QED
      BY <1>3, <3>1, <3>2 DEF Has
  <2> QED
    BY <2>1, <2>2
<1>6. \A c, d : Ahead(q, c, d) => c = h \/ Ahead(r, c, d)
  <2> SUFFICES ASSUME NEW c, NEW d, Ahead(q, c, d), c # h
               PROVE  Ahead(r, c, d)
    OBVIOUS
  <2>1. PICK i \in 1 .. Len(q), j \in 1 .. Len(q) :
               i < j /\ q[i] = c /\ q[j] = d
    BY DEF Ahead
  <2>2. i \in 2 .. Len(q) /\ j \in 2 .. Len(q)
    BY <1>1, <2>1
  <2>3. i - 1 \in 1 .. Len(r) /\ j - 1 \in 1 .. Len(r) /\ i - 1 < j - 1
    BY <1>3, <2>1, <2>2
  <2> QED
    BY <1>3, <2>1, <2>2, <2>3 DEF Ahead
<1>7. Has(q, h)
  BY <1>1 DEF Has
<1> QED
  BY <1>1, <1>4, <1>5, <1>6, <1>7 DEF r, h

\* A set of numbers that is not empty has a least one: the induction of the
\* lemmas below, stated for sets.
LEMMA LeastNat ==
  ASSUME NEW T \in SUBSET Nat, T # {}
  PROVE  \E x \in T : \A y \in T : x <= y
<1> DEFINE R == OpToRel(<, Nat)
<1>1. IsWellFoundedOn(R, Nat)
  BY NatLessThanWellFounded
<1>2. \A x, y \in Nat : x < y => <<x, y>> \in R
  BY DEF OpToRel
<1> HIDE DEF R
<1>3. PICK x \in T : \A y \in T : ~ (<<y, x>> \in R)
  BY <1>1, WFMin
<1>4. \A y \in T : ~ (y < x)
  BY <1>2, <1>3
<1> QED
  BY <1>4

\* L is the function Left of Kept(q, D), up to n.
LeftAt(q, D, L, i) ==
  IF i = 0 THEN <<>>
  ELSE IF q[i] \in D THEN L[i - 1] ELSE Append(L[i - 1], q[i])
IsLeft(q, D, L, n) == L = [i \in 0 .. n |-> LeftAt(q, D, L, i)]

\* The recursion of Kept defines something.
LEMMA LeftExists ==
  ASSUME NEW S, NEW D, NEW q \in Seq(S)
  PROVE  \A n \in 0 .. Len(q) : \E L : IsLeft(q, D, L, n)
<1> DEFINE T == {n \in 0 .. Len(q) : ~ \E L : IsLeft(q, D, L, n)}
<1> SUFFICES ASSUME T # {} PROVE FALSE
  OBVIOUS
<1>1. T \in SUBSET Nat
  OBVIOUS
<1>2. PICK n \in T : \A y \in T : n <= y
  BY <1>1, LeastNat
<1>3. n \in 0 .. Len(q) /\ ~ \E L : IsLeft(q, D, L, n)
  OBVIOUS
<1>4. n # 0
  <2>1. IsLeft(q, D, [i \in 0 .. 0 |-> <<>>], 0)
    BY DEF IsLeft, LeftAt
  <2> QED
    BY <2>1, <1>3
<1>5. n - 1 \in 0 .. Len(q) /\ n - 1 \notin T
  BY <1>2, <1>3, <1>4
<1>6. PICK L : IsLeft(q, D, L, n - 1)
  BY <1>5
<1>7. n \in Nat /\ n > 0
  BY <1>3, <1>4
<1> DEFINE M == [i \in 0 .. n |-> IF i < n THEN L[i] ELSE LeftAt(q, D, L, n)]
           P == [i \in 0 .. n |-> LeftAt(q, D, M, i)]
<1>8. \A i \in 0 .. n : M[i] = P[i]
  <2> TAKE i \in 0 .. n
  <2>1. P[i] = LeftAt(q, D, M, i)
    OBVIOUS
  <2>2. i # 0 => M[i - 1] = L[i - 1]
    BY <1>7
  <2>3. M[i] = LeftAt(q, D, L, i)
    <3>1. CASE i = n
      BY <3>1, <1>7
    <3>2. CASE i < n
      <4>1. i \in 0 .. n - 1 /\ M[i] = L[i]
        BY <3>2, <1>7
      <4>2. L = [j \in 0 .. n - 1 |-> LeftAt(q, D, L, j)]
        BY <1>6 DEF IsLeft
      <4> HIDE DEF M
      <4> QED
        BY <4>1, <4>2
    <3> QED
      BY <3>1, <3>2, <1>7
  <2> HIDE DEF M, P
  <2> QED
    BY <2>1, <2>2, <2>3 DEF LeftAt
<1>9. M = P
  <2>1. M = [i \in 0 .. n |-> M[i]] /\ P = [i \in 0 .. n |-> P[i]]
    OBVIOUS
  <2> HIDE DEF M, P
  <2> QED
    BY <2>1, <1>8
<1>10. IsLeft(q, D, M, n)
  BY <1>9 DEF IsLeft
<1> QED
  BY <1>10, <1>3

\* What Kept computes is the last of the sequences IsLeft describes.
LEMMA KeptIsLeft ==
  ASSUME NEW S, NEW D, NEW q \in Seq(S)
  PROVE  \E L : IsLeft(q, D, L, Len(q)) /\ Kept(q, D) = L[Len(q)]
<1> DEFINE L == CHOOSE L : L = [i \in 0 .. Len(q) |->
                   IF i = 0 THEN <<>>
                   ELSE IF q[i] \in D THEN L[i - 1]
                   ELSE Append(L[i - 1], q[i])]
<1>1. Kept(q, D) = L[Len(q)]
  BY DEF Kept
<1>2. Len(q) \in 0 .. Len(q)
  OBVIOUS
<1> HIDE DEF L
<1>3. \E M : IsLeft(q, D, M, Len(q))
  BY <1>2, LeftExists
<1>4. IsLeft(q, D, L, Len(q))
  BY <1>3 DEF IsLeft, LeftAt, L
<1> QED
  BY <1>1, <1>4

\* r is what q has at the places f[1] < f[2] < ..., which are those of the first
\* n that are not in D.
Picks(q, D, n, r, f) ==
  /\ f \in [1 .. Len(r) -> 1 .. n]
  /\ \A i, j \in 1 .. Len(r) : i < j => f[i] < f[j]
  /\ \A i \in 1 .. Len(r) : r[i] = q[f[i]] /\ q[f[i]] \notin D
  /\ \A k \in 1 .. n : q[k] \notin D => \E i \in 1 .. Len(r) : f[i] = k

\* What the walk leaves of the first n blocks.
LEMMA LeftPicks ==
  ASSUME NEW S, NEW D, NEW q \in Seq(S), NEW L, IsLeft(q, D, L, Len(q))
  PROVE  \A n \in 0 .. Len(q) : L[n] \in Seq(S) /\ \E f : Picks(q, D, n, L[n], f)
<1> DEFINE T == {n \in 0 .. Len(q) :
                   ~ (L[n] \in Seq(S) /\ \E f : Picks(q, D, n, L[n], f))}
<1> SUFFICES ASSUME T # {} PROVE FALSE
  OBVIOUS
<1>1. T \in SUBSET Nat
  OBVIOUS
<1>2. PICK n \in T : \A y \in T : n <= y
  BY <1>1, LeastNat
<1>3. n \in 0 .. Len(q) /\ ~ (L[n] \in Seq(S) /\ \E f : Picks(q, D, n, L[n], f))
  OBVIOUS
<1>4. \A i \in 0 .. Len(q) : L[i] = LeftAt(q, D, L, i)
  BY DEF IsLeft
<1>5. n # 0
  <2> SUFFICES ASSUME n = 0 PROVE FALSE
    OBVIOUS
  <2>1. L[0] = <<>>
    BY <1>3, <1>4 DEF LeftAt
  <2>2. <<>> \in Seq(S) /\ Picks(q, D, 0, <<>>, [i \in 1 .. 0 |-> 0])
    BY DEF Picks
  <2> QED
    BY <2>1, <2>2, <1>3
<1>6. n - 1 \in 0 .. Len(q) /\ n - 1 \notin T /\ n \in 1 .. Len(q) /\ n \in Nat
  BY <1>2, <1>3, <1>5
<1> DEFINE r == L[n - 1]
<1>7. r \in Seq(S) /\ \E f : Picks(q, D, n - 1, r, f)
  BY <1>6
<1>8. PICK f : Picks(q, D, n - 1, r, f)
  BY <1>7
<1>9. L[n] = IF q[n] \in D THEN r ELSE Append(r, q[n])
  BY <1>4, <1>6 DEF LeftAt
<1> HIDE DEF r, T
<1>10. CASE q[n] \in D
  <2>1. Picks(q, D, n, r, f)
    BY <1>6, <1>7, <1>8, <1>10 DEF Picks
  <2> QED
    BY <2>1, <1>3, <1>7, <1>9, <1>10
<1>11. CASE q[n] \notin D
  <2> DEFINE s == Append(r, q[n])
             l == Len(r)
             g == [i \in 1 .. l + 1 |-> IF i = l + 1 THEN n ELSE f[i]]
  <2>1. s \in Seq(S) /\ Len(s) = l + 1 /\ s[l + 1] = q[n] /\ l \in Nat
    BY <1>6, <1>7
  <2>2. \A i \in 1 .. l : s[i] = r[i]
    BY <1>7
  <2>3. \A i \in 1 .. l : g[i] = f[i] /\ f[i] \in 1 .. n - 1
    BY <1>8, <2>1 DEF Picks
  <2>4. g[l + 1] = n
    BY <2>1
  <2>5. \A i \in 1 .. l + 1 : i \in 1 .. l \/ i = l + 1
    BY <2>1
  <2>6. g \in [1 .. l + 1 -> 1 .. n]
    <3>1. g = [i \in 1 .. l + 1 |-> g[i]]
      OBVIOUS
    <3> HIDE DEF g
    <3>2. \A x \in 1 .. n - 1 : x \in 1 .. n
      BY <1>6
    <3>3. n \in 1 .. n /\ \A i \in 1 .. l : g[i] \in 1 .. n
      BY <2>3, <3>2, <1>6
    <3> QED
      BY <3>1, <3>2, <3>3, <2>4, <2>5
  <2> HIDE DEF s, g, l
  <2>7. \A i, j \in 1 .. l + 1 : i < j => g[i] < g[j]
    <3> SUFFICES ASSUME NEW i \in 1 .. l + 1, NEW j \in 1 .. l + 1, i < j
                 PROVE  g[i] < g[j]
      OBVIOUS
    <3>1. i \in 1 .. l
      BY <2>1
    <3>2. CASE j = l + 1
      BY <3>1, <3>2, <2>3, <2>4, <1>6
    <3>3. CASE j \in 1 .. l
      BY <3>1, <3>3, <2>3, <1>8 DEF Picks, l
    <3> QED
      BY <3>2, <3>3, <2>5
  <2>8. \A i \in 1 .. l + 1 : s[i] = q[g[i]] /\ q[g[i]] \notin D
    <3> TAKE i \in 1 .. l + 1
    <3>1. CASE i = l + 1
      BY <3>1, <2>1, <2>4, <1>11
    <3>2. CASE i \in 1 .. l
      BY <3>2, <2>2, <2>3, <1>8 DEF Picks, l
    <3> QED
      BY <3>1, <3>2, <2>5
  <2>9. \A k \in 1 .. n : q[k] \notin D => \E i \in 1 .. l + 1 : g[i] = k
    <3> SUFFICES ASSUME NEW k \in 1 .. n, q[k] \notin D
                 PROVE  \E i \in 1 .. l + 1 : g[i] = k
      OBVIOUS
    <3>1. CASE k = n
      BY <3>1, <2>4, <2>1
    <3>2. CASE k \in 1 .. n - 1
      <4>1. PICK i \in 1 .. l : f[i] = k
        BY <3>2, <1>8 DEF Picks, l
      <4> QED
        BY <4>1, <2>1, <2>3
    <3> QED
      BY <3>1, <3>2, <1>6
  <2>10. Picks(q, D, n, s, g)
    BY <2>1, <2>6, <2>7, <2>8, <2>9 DEF Picks
  <2> QED
    BY <2>1, <2>10, <1>3, <1>9, <1>11 DEF s
<1> QED
  BY <1>10, <1>11

\* The walk takes out the blocks of D and leaves the others in their order.
LEMMA KeptFacts ==
  ASSUME NEW S, NEW q \in Seq(S), Distinct(q), NEW D
  PROVE  /\ Kept(q, D) \in Seq(S)
         /\ Distinct(Kept(q, D))
         /\ \A c : Has(Kept(q, D), c) <=> Has(q, c) /\ c \notin D
         /\ \A c, d : Ahead(q, c, d) /\ c \notin D /\ d \notin D =>
                        Ahead(Kept(q, D), c, d)
<1> DEFINE r == Kept(q, D)
           l == Len(q)
<1>1. PICK L : IsLeft(q, D, L, Len(q)) /\ r = L[Len(q)]
  BY KeptIsLeft
<1>2. l \in 0 .. Len(q) /\ l \in Nat
  OBVIOUS
<1>3. r \in Seq(S) /\ \E f : Picks(q, D, l, r, f)
  BY <1>1, <1>2, LeftPicks
<1>4. PICK f : Picks(q, D, l, r, f)
  BY <1>3
<1> HIDE DEF r
<1>5. Len(r) \in Nat
  BY <1>3
<1>6. \A i \in 1 .. Len(r) : f[i] \in 1 .. Len(q)
  BY <1>4 DEF Picks
<1>7. Distinct(r)
  <2> SUFFICES ASSUME NEW i \in 1 .. Len(r), NEW j \in 1 .. Len(r), r[i] = r[j]
               PROVE  i = j
    BY DEF Distinct
  <2>1. f[i] = f[j]
    BY <1>4, <1>6 DEF Picks, Distinct
  <2>2. ~ (i < j) /\ ~ (j < i)
    BY <1>4, <1>6, <2>1 DEF Picks
  <2> QED
    BY <2>2, <1>5
<1>8. \A c : Has(r, c) <=> Has(q, c) /\ c \notin D
  <2> TAKE c
  <2>1. ASSUME Has(r, c) PROVE Has(q, c) /\ c \notin D
    BY <1>4, <1>6, <2>1 DEF Picks, Has
  <2>2. ASSUME Has(q, c), c \notin D PROVE Has(r, c)
    <3>1. PICK k \in 1 .. Len(q) : q[k] = c
      BY <2>2 DEF Has
    <3>2. PICK i \in 1 .. Len(r) : f[i] = k
      BY <1>4, <2>2, <3>1 DEF Picks
    <3>3. r[i] = c
      BY <1>4, <3>1, <3>2 DEF Picks
    <3> QED
      BY <3>3 DEF Has
  <2> QED
    BY <2>1, <2>2
<1>9. \A c, d : Ahead(q, c, d) /\ c \notin D /\ d \notin D => Ahead(r, c, d)
  <2> SUFFICES ASSUME NEW c, NEW d, Ahead(q, c, d), c \notin D, d \notin D
               PROVE  Ahead(r, c, d)
    OBVIOUS
  <2>1. PICK i \in 1 .. Len(q), j \in 1 .. Len(q) :
               i < j /\ q[i] = c /\ q[j] = d
    BY DEF Ahead
  <2>2. PICK i1 \in 1 .. Len(r) : f[i1] = i
    BY <1>4, <2>1 DEF Picks
  <2>3. PICK j1 \in 1 .. Len(r) : f[j1] = j
    BY <1>4, <2>1 DEF Picks
  <2>4. r[i1] = c /\ r[j1] = d
    BY <1>4, <2>1, <2>2, <2>3 DEF Picks
  <2>5. ~ (j1 < i1) /\ i1 # j1
    BY <1>4, <2>1, <2>2, <2>3 DEF Picks
  <2>6. i1 < j1
    BY <1>5, <2>5
  <2> QED
    BY <2>4, <2>6 DEF Ahead
<1> QED
  BY <1>3, <1>7, <1>8, <1>9 DEF r

\* A member enters at the front.
LEMMA PushHas ==
  ASSUME NEW S, NEW q \in Seq(S), NEW b \in S
  PROVE  /\ <<b>> \o q \in Seq(S)
         /\ \A c : Has(<<b>> \o q, c) <=> Has(q, c) \/ c = b
<1> DEFINE r == <<b>> \o q
<1>1. /\ r \in Seq(S) /\ Len(q) \in Nat /\ Len(r) = Len(q) + 1 /\ r[1] = b
      /\ \A i \in 1 .. Len(q) : r[i + 1] = q[i]
  OBVIOUS
<1> HIDE DEF r
<1>2. \A i \in 2 .. Len(r) : i - 1 \in 1 .. Len(q) /\ r[(i - 1) + 1] = q[i - 1]
  BY <1>1
<1>2a. \A i \in 2 .. Len(r) : (i - 1) + 1 = i
  BY <1>1
<1>2b. \A i \in 1 .. Len(r) : i = 1 \/ i \in 2 .. Len(r)
  BY <1>1
<1>3. \A i \in 1 .. Len(q) : i + 1 \in 1 .. Len(r)
  BY <1>1
<1>4. 1 \in 1 .. Len(r)
  BY <1>1
<1>5. ASSUME NEW c PROVE Has(r, c) <=> Has(q, c) \/ c = b
  <2>1. ASSUME Has(r, c), c # b PROVE Has(q, c)
    <3>1. PICK i \in 1 .. Len(r) : r[i] = c
      BY <2>1 DEF Has
    <3>2. i \in 2 .. Len(r)
      BY <1>1, <1>2b, <2>1, <3>1
    <3>3. i - 1 \in 1 .. Len(q) /\ q[i - 1] = c
      BY <1>2, <1>2a, <3>1, <3>2
    <3> QED
      BY <3>3 DEF Has
  <2>2. Has(q, c) \/ c = b => Has(r, c)
    BY <1>1, <1>3, <1>4 DEF Has
  <2> QED
    BY <2>1, <2>2
<1> QED
  BY <1>1, <1>5 DEF r

\* The first member becomes the last.
LEMMA RotateHas ==
  ASSUME NEW S, NEW q \in Seq(S), q # <<>>
  PROVE  /\ Append(Tail(q), Head(q)) \in Seq(S)
         /\ \A c : Has(Append(Tail(q), Head(q)), c) <=> Has(q, c)
<1> DEFINE r == Append(Tail(q), Head(q))
<1>1. /\ Len(q) \in Nat /\ Len(q) >= 1 /\ r \in Seq(S) /\ Len(r) = Len(q)
      /\ r[Len(q)] = q[1]
  OBVIOUS
<1>2. \A i \in 1 .. Len(q) - 1 : r[i] = q[i + 1]
  OBVIOUS
<1> HIDE DEF r
<1>3. \A i \in 1 .. Len(r) : i = Len(q) \/ (i \in 1 .. Len(q) - 1 /\ i + 1 \in 1 .. Len(q))
  BY <1>1
<1>4. \A i \in 1 .. Len(q) :
        i = 1 \/ (i - 1 \in 1 .. Len(q) - 1 /\ i - 1 \in 1 .. Len(r) /\ r[i - 1] = q[i])
  BY <1>1, <1>2
<1>5. Len(q) \in 1 .. Len(r) /\ 1 \in 1 .. Len(q)
  BY <1>1
<1>6. ASSUME NEW c PROVE Has(r, c) <=> Has(q, c)
  BY <1>1, <1>2, <1>3, <1>4, <1>5 DEF Has
<1> QED
  BY <1>1, <1>6 DEF r

-----------------------------------------------------------------------------
(***************************************************************************)
(* Counting.                                                                *)
(***************************************************************************)

\* Sets that a function pairs off have the same number of members.
LEMMA SameSize ==
  ASSUME NEW S, NEW T, IsFiniteSet(S), NEW f \in [S -> T],
         \A x, y \in S : f[x] = f[y] => x = y,
         \A t \in T : \E x \in S : f[x] = t
  PROVE  IsFiniteSet(T) /\ Cardinality(T) = Cardinality(S)
<1>1. f \in Bijection(S, T)
  BY Fun_IsBij
<1> QED
  BY <1>1, FS_Bijection DEF ExistsBijection

\* The members of a list are finitely many.
LEMMA CountType ==
  ASSUME NEW S, NEW s \in Seq(S), NEW T
  PROVE  /\ IsFiniteSet({i \in 1 .. Len(s) : s[i] \in T})
         /\ Count(s, T) \in Nat
<1>1. Len(s) \in Int /\ 1 \in Int
  OBVIOUS
<1>2. IsFiniteSet(1 .. Len(s))
  BY <1>1, FS_Interval
<1>3. IsFiniteSet({i \in 1 .. Len(s) : s[i] \in T})
  BY <1>2, FS_Subset
<1> QED
  BY <1>3, FS_CardinalityType DEF Count

\* The counts of a list that is empty and of one with a single member.
LEMMA CountOne ==
  ASSUME NEW k, NEW T
  PROVE  /\ Count(<<>>, T) = 0
         /\ Count(<<k>>, T) = IF k \in T THEN 1 ELSE 0
<1>1. Count(<<>>, T) = 0
  <2>1. {i \in 1 .. Len(<<>>) : <<>>[i] \in T} = {}
    OBVIOUS
  <2> QED
    BY <2>1, FS_EmptySet DEF Count
<1>2. CASE k \in T
  <2>1. {i \in 1 .. Len(<<k>>) : <<k>>[i] \in T} = {1}
    BY <1>2
  <2> QED
    BY <1>1, <1>2, <2>1, FS_Singleton DEF Count
<1>3. CASE k \notin T
  <2>1. {i \in 1 .. Len(<<k>>) : <<k>>[i] \in T} = {}
    BY <1>3
  <2> QED
    BY <1>1, <1>3, <2>1, FS_EmptySet DEF Count
<1> QED
  BY <1>2, <1>3

\* A member enters at the end.
LEMMA CountAppend ==
  ASSUME NEW S, NEW s \in Seq(S), NEW k \in S, NEW T
  PROVE  Count(Append(s, k), T) = Count(s, T) + IF k \in T THEN 1 ELSE 0
<1> DEFINE I == {i \in 1 .. Len(s) : s[i] \in T}
           r == Append(s, k)
           J == {i \in 1 .. Len(r) : r[i] \in T}
           n == Len(s) + 1
<1>1. /\ Len(s) \in Nat /\ r \in Seq(S) /\ Len(r) = n /\ r[n] = k
      /\ \A i \in 1 .. Len(s) : r[i] = s[i]
  OBVIOUS
<1>2. IsFiniteSet(I) /\ Cardinality(I) \in Nat /\ Count(s, T) = Cardinality(I)
  BY CountType DEF Count
<1>3. n \notin I
  BY <1>1
<1> HIDE DEF r
<1>4. CASE k \in T
  <2>1. J = I \cup {n}
    BY <1>1, <1>4
  <2> HIDE DEF I, J, n
  <2>2. Cardinality(J) = Cardinality(I) + 1
    BY <1>2, <1>3, <2>1, FS_AddElement
  <2> QED
    BY <1>2, <1>4, <2>2 DEF Count, J, r
<1>5. CASE k \notin T
  <2>1. J = I
    BY <1>1, <1>5
  <2> HIDE DEF I, J, n
  <2>2. Cardinality(J) = Cardinality(I)
    BY <2>1
  <2>3. Count(r, T) = Cardinality(J)
    BY DEF Count, J
  <2> QED
    BY <1>2, <1>5, <2>2, <2>3 DEF r
<1> QED
  BY <1>4, <1>5

\* The first member leaves.
LEMMA CountTail ==
  ASSUME NEW S, NEW s \in Seq(S), s # <<>>, NEW T
  PROVE  Count(Tail(s), T) = Count(s, T) - IF Head(s) \in T THEN 1 ELSE 0
<1> DEFINE I == {i \in 1 .. Len(s) : s[i] \in T}
           r == Tail(s)
           J == {i \in 1 .. Len(r) : r[i] \in T}
           K == I \ {1}
           f == [i \in J |-> i + 1]
<1>1. /\ Len(s) \in Nat /\ Len(s) >= 1 /\ r \in Seq(S) /\ Len(r) = Len(s) - 1
      /\ Head(s) = s[1]
      /\ \A i \in 1 .. Len(r) : r[i] = s[i + 1]
  OBVIOUS
<1>2. /\ IsFiniteSet(I) /\ Cardinality(I) \in Nat /\ Count(s, T) = Cardinality(I)
  BY CountType DEF Count
<1>3. IsFiniteSet(J) /\ Count(r, T) = Cardinality(J)
  BY <1>1, CountType DEF Count
<1> HIDE DEF r
<1>4. \A i \in J : i \in Nat /\ i + 1 \in K
  BY <1>1
<1>5. \A i \in K : i - 1 \in J /\ i = (i - 1) + 1
  BY <1>1
<1>6. 1 \in I <=> Head(s) \in T
  BY <1>1
<1> HIDE DEF I, J, K
<1>7. Cardinality(K) = Cardinality(J)
  <2>1. f \in [J -> K]
    BY <1>4
  <2>2. \A x, y \in J : f[x] = f[y] => x = y
    BY <1>4
  <2>3. \A t \in K : \E x \in J : f[x] = t
    BY <1>5
  <2> HIDE DEF f
  <2> QED
    BY <1>3, <2>1, <2>2, <2>3, SameSize
<1>8. Cardinality(K) = IF 1 \in I THEN Cardinality(I) - 1 ELSE Cardinality(I)
  BY <1>2, FS_RemoveElement DEF K
<1> QED
  BY <1>2, <1>3, <1>6, <1>7, <1>8 DEF r

\* A member enters at the front.
LEMMA CountPush ==
  ASSUME NEW S, NEW s \in Seq(S), NEW k \in S, NEW T
  PROVE  /\ <<k>> \o s \in Seq(S)
         /\ Count(<<k>> \o s, T) = Count(s, T) + IF k \in T THEN 1 ELSE 0
<1> DEFINE r == <<k>> \o s
<1>1. r \in Seq(S) /\ r # <<>> /\ Head(r) = k /\ Tail(r) = s
  OBVIOUS
<1> HIDE DEF r
<1>2. Count(s, T) = Count(r, T) - IF k \in T THEN 1 ELSE 0
  BY <1>1, CountTail
<1>3. Count(s, T) \in Nat /\ Count(r, T) \in Nat
  BY <1>1, CountType
<1> QED
  BY <1>1, <1>2, <1>3 DEF r

\* What a walk leaves is what it does not take out.
LEMMA KeptCount ==
  ASSUME NEW S, NEW q \in Seq(S), NEW D, NEW T
  PROVE  /\ Kept(q, D) \in Seq(S)
         /\ Count(Kept(q, D), T) = Count(q, T \ D)
         /\ \A c : Has(Kept(q, D), c) <=> Has(q, c) /\ c \notin D
<1> DEFINE r == Kept(q, D)
           l == Len(q)
           J == {i \in 1 .. Len(r) : r[i] \in T}
           I == {i \in 1 .. Len(q) : q[i] \in T \ D}
<1>1. PICK L : IsLeft(q, D, L, Len(q)) /\ r = L[Len(q)]
  BY KeptIsLeft
<1>2. l \in 0 .. Len(q) /\ l \in Nat
  OBVIOUS
<1>3. r \in Seq(S) /\ \E f : Picks(q, D, l, r, f)
  BY <1>1, <1>2, LeftPicks
<1>4. PICK f : Picks(q, D, l, r, f)
  BY <1>3
<1> HIDE DEF r
<1>5. IsFiniteSet(J) /\ Count(r, T) = Cardinality(J) /\ Len(r) \in Nat
  BY <1>3, CountType DEF Count
<1> DEFINE g == [i \in J |-> f[i]]
<1>6. \A i \in J : f[i] \in I
  BY <1>4 DEF Picks
<1>7. \A x, y \in J : f[x] = f[y] => x = y
  <2> SUFFICES ASSUME NEW x \in J, NEW y \in J, f[x] = f[y] PROVE x = y
    OBVIOUS
  <2>1. f[x] \in 1 .. l
    BY <1>4 DEF Picks
  <2>2. ~ (x < y) /\ ~ (y < x)
    BY <1>4, <2>1 DEF Picks
  <2> QED
    BY <2>2, <1>5
<1>8. \A t \in I : \E x \in J : f[x] = t
  BY <1>4 DEF Picks
<1>9. \A c : Has(r, c) <=> Has(q, c) /\ c \notin D
  <2> TAKE c
  <2>1. ASSUME Has(r, c) PROVE Has(q, c) /\ c \notin D
    BY <1>4, <2>1 DEF Picks, Has
  <2>2. ASSUME Has(q, c), c \notin D PROVE Has(r, c)
    <3>1. PICK k \in 1 .. Len(q) : q[k] = c
      BY <2>2 DEF Has
    <3>2. PICK i \in 1 .. Len(r) : f[i] = k
      BY <1>4, <2>2, <3>1 DEF Picks
    <3>3. r[i] = c
      BY <1>4, <3>1, <3>2 DEF Picks
    <3> QED
      BY <3>3 DEF Has
  <2> QED
    BY <2>1, <2>2
<1>10. Cardinality(I) = Cardinality(J)
  <2>1. g \in [J -> I] /\ \A i \in J : g[i] = f[i]
    BY <1>6
  <2> HIDE DEF g, I, J
  <2>2. \A x, y \in J : g[x] = g[y] => x = y
    BY <1>7, <2>1
  <2>3. \A t \in I : \E x \in J : g[x] = t
    BY <1>8, <2>1
  <2> QED
    BY <1>5, <2>1, <2>2, <2>3, SameSize
<1>11. Count(q, T \ D) = Cardinality(I)
  BY DEF Count
<1> HIDE DEF I, J
<1> QED
  BY <1>3, <1>5, <1>9, <1>10, <1>11 DEF r

\* It is a list of the same kind.
LEMMA KeptType ==
  ASSUME NEW S, NEW q \in Seq(S), NEW D
  PROVE  Kept(q, D) \in Seq(S)
BY KeptCount

\* A walk that takes out D and one that takes out the others share the list.
LEMMA KeptSplit ==
  ASSUME NEW S, NEW q \in Seq(S), NEW D \in SUBSET S, NEW T \in SUBSET S
  PROVE  Count(q, T) = Count(Kept(q, D), T) + Count(Kept(q, S \ D), T)
<1> DEFINE I == {i \in 1 .. Len(q) : q[i] \in T}
           J == {i \in 1 .. Len(q) : q[i] \in T \ D}
           K == {i \in 1 .. Len(q) : q[i] \in T \ (S \ D)}
<1>1. /\ Count(Kept(q, D), T) = Count(q, T \ D)
      /\ Count(Kept(q, S \ D), T) = Count(q, T \ (S \ D))
  BY KeptCount
<1>2. I = J \cup K /\ J \cap K = {}
  OBVIOUS
<1>3. /\ IsFiniteSet(J) /\ Cardinality(J) \in Nat /\ Count(q, T \ D) = Cardinality(J)
      /\ IsFiniteSet(K) /\ Cardinality(K) \in Nat /\ Count(q, T \ (S \ D)) = Cardinality(K)
      /\ Count(q, T) = Cardinality(I)
  BY CountType DEF Count
<1> HIDE DEF I, J, K
<1>4. Cardinality(I) = Cardinality(J) + Cardinality(K) - Cardinality(J \cap K)
  BY <1>2, <1>3, FS_Union
<1>5. Cardinality(J \cap K) = 0
  BY <1>2, FS_EmptySet
<1> QED
  BY <1>1, <1>3, <1>4, <1>5
=============================================================================
