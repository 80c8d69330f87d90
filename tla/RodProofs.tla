----------------------------- MODULE RodProofs -----------------------------
(***************************************************************************)
(* Proofs about Rod for any window sizes that divide the sequence numbers,  *)
(* any age of the peer's packets and any number of wraps: the slots, the    *)
(* count and the head agree, no good packet is taken for a replay unless    *)
(* keys are mixed, and the queue implements RodSpec.                        *)
(***************************************************************************)
EXTENDS Rod, ListFacts, SequenceTheorems

-----------------------------------------------------------------------------
(***************************************************************************)
(* Arithmetic modulo a number.                                              *)
(***************************************************************************)

\* x and y are the same number modulo m.
Cong(x, y, m) == \E t \in Int : x = y + t * m

\* The remainder is in range and the same number modulo m.
LEMMA ModFacts ==
  ASSUME NEW x \in Int, NEW m \in Int, m > 0
  PROVE  /\ x % m \in 0 .. m - 1
         /\ Cong(x % m, x, m)
<1>1. x % m \in 0 .. m - 1
  OBVIOUS
<1>2. PICK k \in Int : x = k * m + (x % m)
  OBVIOUS
<1>3. -k \in Int /\ x % m = x + (-k) * m
  BY <1>1, <1>2
<1> QED
  BY <1>1, <1>3 DEF Cong

\* Numbers that agree modulo m and are less than m apart are equal.
LEMMA CongNear ==
  ASSUME NEW x \in Int, NEW y \in Int, NEW m \in Int, m > 0,
         Cong(x, y, m), x - y < m, y - x < m
  PROVE  x = y
<1>1. PICK t \in Int : x = y + t * m
  BY DEF Cong
<1>2. CASE t >= 1
  <2>1. (t - 1) * m >= 0
    BY <1>2
  <2>2. t * m = (t - 1) * m + m
    OBVIOUS
  <2> QED
    BY <1>1, <2>1, <2>2
<1>3. CASE t <= -1
  <2>1. (-1 - t) * m >= 0
    BY <1>3
  <2>2. t * m = - ((-1 - t) * m) - m
    OBVIOUS
  <2> QED
    BY <1>1, <2>1, <2>2
<1>4. CASE t = 0
  BY <1>1, <1>4
<1> QED
  BY <1>2, <1>3, <1>4

\* Agreement modulo m can be read both ways.
LEMMA CongSym ==
  ASSUME NEW x \in Int, NEW y \in Int, NEW m \in Int, Cong(x, y, m)
  PROVE  Cong(y, x, m)
<1>1. PICK t \in Int : x = y + t * m
  BY DEF Cong
<1>2. -t \in Int /\ y = x + (-t) * m
  BY <1>1
<1> QED
  BY <1>2 DEF Cong

\* It is transitive.
LEMMA CongTrans ==
  ASSUME NEW x \in Int, NEW y \in Int, NEW z \in Int, NEW m \in Int,
         Cong(x, y, m), Cong(y, z, m)
  PROVE  Cong(x, z, m)
<1>1. PICK t \in Int : x = y + t * m
  BY DEF Cong
<1>2. PICK u \in Int : y = z + u * m
  BY DEF Cong
<1>3. t + u \in Int /\ x = z + (t + u) * m
  BY <1>1, <1>2
<1> QED
  BY <1>3 DEF Cong

\* Sums and differences agree.
LEMMA CongSum ==
  ASSUME NEW x \in Int, NEW y \in Int, NEW u \in Int, NEW v \in Int, NEW m \in Int,
         Cong(x, y, m), Cong(u, v, m)
  PROVE  Cong(x + u, y + v, m) /\ Cong(x - u, y - v, m)
<1>1. PICK t \in Int : x = y + t * m
  BY DEF Cong
<1>2. PICK w \in Int : u = v + w * m
  BY DEF Cong
<1>3. /\ t + w \in Int /\ t - w \in Int
      /\ x + u = (y + v) + (t + w) * m
      /\ x - u = (y - v) + (t - w) * m
  BY <1>1, <1>2
<1> QED
  BY <1>3 DEF Cong

\* A number agrees with itself, and with itself a turn later.
LEMMA CongSelf ==
  ASSUME NEW x \in Int, NEW m \in Int
  PROVE  Cong(x, x, m) /\ Cong(x + m, x, m)
<1>1. 0 \in Int /\ x = x + 0 * m
  OBVIOUS
<1>2. 1 \in Int /\ x + m = x + 1 * m
  OBVIOUS
<1> QED
  BY <1>1, <1>2 DEF Cong

\* Both numbers may be moved by the same distance.
LEMMA CongShift ==
  ASSUME NEW x \in Int, NEW y \in Int, NEW k \in Int, NEW m \in Int, Cong(x, y, m)
  PROVE  Cong(x + k, y + k, m)
<1>1. PICK t \in Int : x = y + t * m
  BY DEF Cong
<1>2. x + k = (y + k) + t * m
  BY <1>1
<1> QED
  BY <1>2 DEF Cong

\* Agreement modulo Limit is agreement modulo a window that divides it: what
\* the slots at the wrap depend on.
LEMMA CongDivides ==
  ASSUME NEW x \in Int, NEW y \in Int, NEW m \in Int, NEW w \in Int, w > 0,
         m % w = 0, Cong(x, y, m)
  PROVE  Cong(x, y, w)
<1>1. PICK t \in Int : x = y + t * m
  BY DEF Cong
<1>2. PICK d \in Int : m = d * w
  <2>1. \E k \in Int : m = k * w + (m % w)
    OBVIOUS
  <2> QED
    BY <2>1
<1>3. t * d \in Int /\ t * m = (t * d) * w
  BY <1>2
<1> QED
  BY <1>1, <1>3 DEF Cong

\* Numbers that agree have the same remainder.
LEMMA CongMod ==
  ASSUME NEW x \in Int, NEW y \in Int, NEW m \in Int, m > 0, Cong(x, y, m)
  PROVE  x % m = y % m
<1>1. x % m \in 0 .. m - 1 /\ y % m \in 0 .. m - 1 /\ Cong(x % m, x, m) /\ Cong(y % m, y, m)
  BY ModFacts
<1>2. Cong(y, y % m, m) /\ Cong(x % m, y, m)
  BY <1>1, CongSym, CongTrans
<1>3. Cong(x % m, y % m, m)
  BY <1>1, <1>2, CongTrans
<1> QED
  BY <1>1, <1>3, CongNear

\* Numbers with the same remainder agree.
LEMMA ModCong ==
  ASSUME NEW x \in Int, NEW y \in Int, NEW m \in Int, m > 0, x % m = y % m
  PROVE  Cong(x, y, m)
<1>1. x % m \in Int /\ Cong(x % m, x, m) /\ Cong(y % m, y, m)
  BY ModFacts
<1>2. Cong(x, x % m, m) /\ Cong(x % m, y, m)
  BY <1>1, CongSym
<1> QED
  BY <1>1, <1>2, CongTrans

-----------------------------------------------------------------------------
(***************************************************************************)
(* The queue during an operation.  Rel(H, b, q): the window of q starts at the*)
(* unwrapped number b, those of the numbers H that are not below b wait in their*)
(* slots, and those below b have left, in order.                            *)
(***************************************************************************)

\* The windows the queue is made for.
FitWindows == {w \in Windows : Fits(w)}

\* Slots in use, the numbers in them, and the parts of a set of numbers above
\* and below the start of the window.
Full(f) == {s \in Slots : f[s] # NULL}
Seqs(f) == {f[s].seq : s \in Full(f)}
From(H, b) == {k \in H : k >= b}
Below(H, b) == {k \in H : k < b}

\* Queues.
QueueRecords ==
  [head : Nat, win : FitWindows, count : Int,
   nbuf : [Slots -> Packets \cup {NULL}], rsc : 0 .. MaxSent + 1,
   out : Seq(0 .. MaxSent), replayed : SUBSET (0 .. MaxSent),
   top : 0 .. MaxSent + 1]

\* A packet of the window at b; its replay counter is that of its number unless
\* keys are mixed.
InWindow(b, w, r) ==
  /\ r.seq \in b .. b + w - 1
  /\ mixed \/ r.pn = r.seq - keySeq + 1

\* Every packet is in the window and in its slot.
Slotted(b, w, f) ==
  /\ \A s \in Full(f) : InWindow(b, w, f[s])
  /\ \A s \in Full(f) : s = f[s].seq % w

\* How the replay counter relates to what reached the stack before this
\* operation (top), during it (q.top) and to the window.
Fresh(b, q) ==
  /\ top <= q.top
  /\ \A p \in q.replayed : p < top \/ mixed
  /\ mixed \/ q.rsc = 0 \/ q.rsc + keySeq <= q.top
  /\ mixed \/ q.rsc = 0 \/ q.rsc + keySeq <= top \/ q.rsc + keySeq <= b

\* The relation of a queue to the numbers.
Rel(H, b, q) ==
  /\ q \in QueueRecords
  /\ Slotted(b, q.win, q.nbuf)
  /\ q.count = Cardinality(Full(q.nbuf))
  /\ Seqs(q.nbuf) = From(H, b)
  /\ Abstract!InOrder(q.out, Below(H, b))
  /\ Fresh(b, q)
  /\ Cong(q.head, b, Limit)

\* What does not change during an operation.
Env ==
  /\ keySeq \in 0 .. MaxSent
  /\ top \in 0 .. MaxSent + 1
  /\ cipher \in BOOLEAN
  /\ mixed \in BOOLEAN

\* What the assumptions on the constants give.
LEMMA Constants ==
  /\ Limit \in Nat /\ Limit \div 2 \in Nat /\ Limit = 2 * (Limit \div 2)
  /\ Limit >= 4 /\ Limit > 0 /\ Limit \div 2 >= 2
  /\ Age \in Nat /\ Age >= 1 /\ Age <= Limit \div 2 - 1
  /\ MaxSent \in Nat /\ FirstSeq \in Nat /\ FirstSeq <= MaxSent
  /\ NULL \notin Packets
<1>1. Limit \in Nat /\ Limit % 2 = 0
  BY LimitAssumption
<1>2. Limit \div 2 \in Nat /\ Limit = 2 * (Limit \div 2)
  BY <1>1
<1>3. Age \in Int /\ Age >= 1 /\ Age <= Limit \div 2 - 1
  BY <1>2, AgeAssumption
<1>4. MaxSent \in Nat /\ FirstSeq \in Nat /\ FirstSeq <= MaxSent
  BY MaxSentAssumption
<1> QED
  BY <1>1, <1>2, <1>3, <1>4, NullAssumption

\* What is known of a window.
LEMMA WindowFacts ==
  ASSUME NEW w \in FitWindows
  PROVE  /\ w \in Nat /\ w >= 1 /\ w > 0 /\ w <= Limit \div 2
         /\ Limit % w = 0
         /\ 0 .. w - 1 \subseteq Slots
<1>1. w \in Nat /\ w >= 1 /\ w > 0 /\ w <= BufSize /\ Limit % w = 0
  BY WindowsAssumption, BufSizeAssumption DEF FitWindows, Fits
<1>2. BufSize \in Nat /\ BufSize <= Limit \div 2
  BY BufSizeAssumption, Constants
<1> QED
  BY <1>1, <1>2, Constants DEF Slots

\* The slots are finitely many, and so are those in use.
LEMMA FullFinite ==
  ASSUME NEW f
  PROVE  /\ IsFiniteSet(Full(f))
         /\ Cardinality(Full(f)) \in Nat
         /\ Cardinality(Full(f)) = 0 <=> Full(f) = {}
<1>1. IsFiniteSet(Slots)
  <2>1. 0 \in Int /\ BufSize - 1 \in Int
    BY BufSizeAssumption, Constants
  <2> QED
    BY <2>1, FS_Interval DEF Slots
<1>2. Full(f) \subseteq Slots
  BY DEF Full
<1>3. IsFiniteSet(Full(f))
  BY <1>1, <1>2, FS_Subset
<1> QED
  BY <1>3, FS_CardinalityType, FS_EmptySet

\* The packet in the slot of the head is the first of the window, if there is
\* one.
LEMMA HeadSlot ==
  ASSUME Env, NEW H \in SUBSET Nat, NEW b \in Nat, NEW q, Rel(H, b, q),
         NEW s, s = q.head % q.win
  PROVE  /\ s \in Slots
         /\ q.nbuf[s] # NULL => /\ q.nbuf[s] \in Packets
                                /\ q.nbuf[s].seq = b
                                /\ b \in H
         /\ q.nbuf[s] = NULL => b \notin H
<1> DEFINE w == q.win
           f == q.nbuf
<1>1. w \in FitWindows /\ q.head \in Nat /\ f \in [Slots -> Packets \cup {NULL}]
  BY DEF Rel, QueueRecords
<1>2. w \in Int /\ w > 0 /\ Limit % w = 0 /\ 0 .. w - 1 \subseteq Slots
  BY <1>1, WindowFacts
<1>3. Cong(q.head, b, Limit) /\ Slotted(b, w, f) /\ Seqs(f) = From(H, b)
  BY DEF Rel
<1> HIDE DEF w, f
<1>4. Cong(q.head, b, w)
  BY <1>1, <1>2, <1>3, Constants, CongDivides
<1>5. s = b % w
  BY <1>1, <1>2, <1>4, CongMod DEF w
<1>6. s \in Slots
  BY <1>2, <1>5, ModFacts
<1>7. ASSUME f[s] # NULL
      PROVE  f[s] \in Packets /\ f[s].seq = b /\ b \in H
  <2>1. f[s] \in Packets /\ s \in Full(f)
    BY <1>1, <1>6, <1>7 DEF Full
  <2>2. f[s].seq \in b .. b + w - 1 /\ s = f[s].seq % w
    BY <1>3, <2>1 DEF Slotted, InWindow
  <2>3. Cong(f[s].seq, b, w)
    <3>1. f[s].seq \in Int /\ b \in Int /\ f[s].seq % w = b % w
      BY <1>2, <1>5, <2>2
    <3> QED
      BY <1>2, <3>1, ModCong
  <2>4. f[s].seq = b
    BY <1>2, <2>2, <2>3, CongNear
  <2>5. b \in Seqs(f)
    BY <2>1, <2>4 DEF Seqs
  <2> QED
    BY <1>3, <2>1, <2>4, <2>5 DEF From
<1>8. ASSUME f[s] = NULL, b \in H PROVE FALSE
  <2>1. b \in Seqs(f)
    BY <1>3, <1>8 DEF From
  <2>2. PICK x \in Full(f) : b = f[x].seq
    BY <2>1 DEF Seqs
  <2>3. x = s
    BY <1>3, <1>5, <2>2 DEF Slotted
  <2> QED
    BY <2>2, <2>3, <1>8 DEF Full
<1> QED
  BY <1>6, <1>7, <1>8 DEF f

\* The first number of the window leaves after those below it.
LEMMA InOrderAppend ==
  ASSUME NEW H \in SUBSET Nat, NEW b \in H, NEW o, Abstract!InOrder(o, Below(H, b))
  PROVE  Abstract!InOrder(Append(o, b), Below(H, b + 1))
<1> DEFINE S == Below(H, b)
           T == Below(H, b + 1)
           r == Append(o, b)
<1>1. /\ o \in Seq(S)
      /\ \A k \in S : \E i \in 1 .. Len(o) : o[i] = k
      /\ \A i, j \in 1 .. Len(o) : i < j => o[i] < o[j]
  BY DEF Abstract!InOrder
<1>0. b \in Nat /\ \A k \in H : k \in Nat
  OBVIOUS
<1>2. S \subseteq T /\ b \in T /\ \A k \in T : k \in S \/ k = b
  <2>1. \A k \in H : k < b => k < b + 1
    BY <1>0
  <2>2. \A k \in H : k < b + 1 => k < b \/ k = b
    BY <1>0
  <2>3. b < b + 1
    BY <1>0
  <2> QED
    BY <2>1, <2>2, <2>3 DEF Below
<1>3. \A k \in S : k < b
  BY DEF Below
<1> HIDE DEF S, T
<1>4. r \in Seq(T) /\ Len(r) = Len(o) + 1 /\ r[Len(r)] = b /\ Len(o) \in Nat
  <2>1. o \in Seq(T)
    BY <1>1, <1>2, SeqMonotonic
  <2> QED
    BY <1>2, <2>1
<1>5. \A i \in 1 .. Len(o) : r[i] = o[i] /\ o[i] \in S
  BY <1>1
<1> HIDE DEF r
<1>6. \A i \in 1 .. Len(r) : i \in 1 .. Len(o) \/ i = Len(r)
  BY <1>4
<1>7. \A k \in T : \E i \in 1 .. Len(r) : r[i] = k
  BY <1>1, <1>2, <1>4, <1>5
<1>8. \A i, j \in 1 .. Len(r) : i < j => r[i] < r[j]
  <2> SUFFICES ASSUME NEW i \in 1 .. Len(r), NEW j \in 1 .. Len(r), i < j
               PROVE  r[i] < r[j]
    OBVIOUS
  <2>1. i \in 1 .. Len(o)
    BY <1>4
  <2>2. CASE j \in 1 .. Len(o)
    BY <1>1, <1>5, <2>1, <2>2
  <2>3. CASE j = Len(r)
    BY <1>3, <1>4, <1>5, <2>1, <2>3
  <2> QED
    BY <1>6, <2>2, <2>3
<1> QED
  BY <1>4, <1>7, <1>8 DEF Abstract!InOrder, r, T

\* mtlk_detect_replay_or_sendup, field by field.
LEMMA SendupFields ==
  ASSUME NEW q \in QueueRecords, NEW r \in Packets
  PROVE  /\ DetectReplayOrSendup(q, r) \in QueueRecords
         /\ DetectReplayOrSendup(q, r).head = q.head
         /\ DetectReplayOrSendup(q, r).win = q.win
         /\ DetectReplayOrSendup(q, r).count = q.count
         /\ DetectReplayOrSendup(q, r).nbuf = q.nbuf
         /\ DetectReplayOrSendup(q, r).out = Append(q.out, r.seq)
         /\ DetectReplayOrSendup(q, r).replayed =
              IF IsReplay(q, r) THEN q.replayed \cup {r.seq} ELSE q.replayed
         /\ DetectReplayOrSendup(q, r).rsc =
              IF cipher /\ ~IsReplay(q, r) THEN r.pn ELSE q.rsc
         /\ DetectReplayOrSendup(q, r).top =
              IF ~IsReplay(q, r) /\ r.seq >= q.top THEN r.seq + 1 ELSE q.top
<1> DEFINE o == Append(q.out, r.seq)
           a == IF IsReplay(q, r) THEN q.replayed \cup {r.seq} ELSE q.replayed
           c == IF cipher /\ ~IsReplay(q, r) THEN r.pn ELSE q.rsc
           t == IF ~IsReplay(q, r) /\ r.seq >= q.top THEN r.seq + 1 ELSE q.top
           d == [q EXCEPT !.out = o, !.replayed = a, !.rsc = c, !.top = t]
<1>1. DetectReplayOrSendup(q, r) = d
  BY DEF DetectReplayOrSendup
<1>2. r.seq \in 0 .. MaxSent /\ r.pn \in 1 .. MaxSent + 1
  BY DEF Packets
<1>3. o \in Seq(0 .. MaxSent)
  BY <1>2 DEF QueueRecords
<1>4. a \in SUBSET (0 .. MaxSent)
  BY <1>2 DEF QueueRecords
<1>5. c \in 0 .. MaxSent + 1
  BY <1>2, Constants DEF QueueRecords
<1>6. t \in 0 .. MaxSent + 1
  BY <1>2, Constants DEF QueueRecords
<1> HIDE DEF o, a, c, t
<1>7. d \in QueueRecords
  BY <1>3, <1>4, <1>5, <1>6 DEF QueueRecords
<1>8. /\ d.head = q.head /\ d.win = q.win /\ d.count = q.count /\ d.nbuf = q.nbuf
      /\ d.out = o /\ d.replayed = a /\ d.rsc = c /\ d.top = t
  BY DEF QueueRecords
<1> HIDE DEF d
<1> QED
  BY <1>1, <1>7, <1>8 DEF o, a, c, t

\* What a turn of a loop over the window does to the fields of the queue.
LEMMA RetireHeadNull ==
  ASSUME NEW q \in QueueRecords, q.nbuf[q.head % q.win] = NULL
  PROVE  /\ RetireHead(q) \in QueueRecords
         /\ RetireHead(q).head = q.head + 1
         /\ RetireHead(q).win = q.win
         /\ RetireHead(q).count = q.count
         /\ RetireHead(q).nbuf = q.nbuf
         /\ RetireHead(q).out = q.out
         /\ RetireHead(q).replayed = q.replayed
         /\ RetireHead(q).rsc = q.rsc
         /\ RetireHead(q).top = q.top
<1>1. RetireHead(q) = [q EXCEPT !.head = q.head + 1]
  BY DEF RetireHead, RetireSlot
<1>2. q.head + 1 \in Nat
  BY DEF QueueRecords
<1> QED
  BY <1>1, <1>2 DEF QueueRecords

\* The same, when there is a packet in the slot.
LEMMA RetireHeadFull ==
  ASSUME NEW q \in QueueRecords, NEW s \in Slots, s = q.head % q.win, q.nbuf[s] # NULL,
         NEW d, d = DetectReplayOrSendup(q, q.nbuf[s])
  PROVE  /\ RetireHead(q) \in QueueRecords
         /\ RetireHead(q).head = q.head + 1
         /\ RetireHead(q).win = q.win
         /\ RetireHead(q).count = q.count - 1
         /\ RetireHead(q).nbuf = [q.nbuf EXCEPT ![s] = NULL]
         /\ RetireHead(q).out = Append(q.out, q.nbuf[s].seq)
         /\ RetireHead(q).replayed = d.replayed
         /\ RetireHead(q).rsc = d.rsc
         /\ RetireHead(q).top = d.top
<1>1. q.nbuf[s] \in Packets /\ q.nbuf \in [Slots -> Packets \cup {NULL}]
  BY DEF QueueRecords
<1>2. /\ d \in QueueRecords /\ d.head = q.head /\ d.win = q.win
      /\ d.count = q.count /\ d.nbuf = q.nbuf /\ d.out = Append(q.out, q.nbuf[s].seq)
  BY <1>1, SendupFields
<1> DEFINE f == [d.nbuf EXCEPT ![s] = NULL]
           e == [d EXCEPT !.nbuf = f, !.count = d.count - 1]
<1>3. RetireSlot(q, q.head) = e
  BY DEF RetireSlot
<1>4. f \in [Slots -> Packets \cup {NULL}] /\ d.count - 1 \in Int /\ d.head + 1 \in Nat
  <2>1. f \in [Slots -> Packets \cup {NULL}]
    BY <1>1, <1>2
  <2>2. d.count \in Int /\ d.head \in Nat
    BY <1>2 DEF QueueRecords
  <2> QED
    BY <2>1, <2>2
<1>5. f = [q.nbuf EXCEPT ![s] = NULL]
  BY <1>2
<1> HIDE DEF f
<1>6. e \in QueueRecords
  BY <1>2, <1>4 DEF QueueRecords
<1>7. /\ e.head = d.head /\ e.win = d.win /\ e.count = d.count - 1 /\ e.nbuf = f
      /\ e.out = d.out /\ e.replayed = d.replayed /\ e.rsc = d.rsc /\ e.top = d.top
  BY <1>2 DEF QueueRecords
<1> HIDE DEF e
<1>8. RetireHead(q) = [e EXCEPT !.head = e.head + 1]
  BY <1>3 DEF RetireHead
<1>9. /\ RetireHead(q) \in QueueRecords /\ RetireHead(q).head = e.head + 1
      /\ RetireHead(q).win = e.win /\ RetireHead(q).count = e.count
      /\ RetireHead(q).nbuf = e.nbuf /\ RetireHead(q).out = e.out
      /\ RetireHead(q).replayed = e.replayed /\ RetireHead(q).rsc = e.rsc
      /\ RetireHead(q).top = e.top
  BY <1>4, <1>6, <1>7, <1>8 DEF QueueRecords
<1> QED
  BY <1>2, <1>5, <1>7, <1>9

\* The numbers from b on and those below it, when b is not there.
LEMMA SkipNumber ==
  ASSUME NEW H \in SUBSET Nat, NEW b \in Nat, b \notin H
  PROVE  From(H, b + 1) = From(H, b) /\ Below(H, b + 1) = Below(H, b)
<1>1. \A k \in H : (k >= b + 1 <=> k >= b) /\ (k < b + 1 <=> k < b)
  OBVIOUS
<1> QED
  BY <1>1 DEF From, Below

\* The replay counters stay in order when the window moves.
LEMMA FreshMono ==
  ASSUME Env, NEW b \in Nat, NEW c \in Nat, b <= c, NEW q \in QueueRecords, Fresh(b, q)
  PROVE  Fresh(c, q)
<1>1. q.rsc \in Int /\ keySeq \in Int
  BY Constants DEF Env, QueueRecords
<1>2. q.rsc + keySeq <= b => q.rsc + keySeq <= c
  BY <1>1
<1> QED
  BY <1>2 DEF Fresh

\* A turn that meets an empty slot.
LEMMA RetireNothing ==
  ASSUME Env, NEW H \in SUBSET Nat, NEW b \in Nat, NEW q, Rel(H, b, q),
         q.nbuf[q.head % q.win] = NULL
  PROVE  Rel(H, b + 1, RetireHead(q)) /\ b \notin H
<1> DEFINE r == RetireHead(q)
           f == q.nbuf
           w == q.win
<1>1. /\ q \in QueueRecords /\ Slotted(b, w, f) /\ q.count = Cardinality(Full(f))
      /\ Seqs(f) = From(H, b) /\ Abstract!InOrder(q.out, Below(H, b))
      /\ Fresh(b, q) /\ Cong(q.head, b, Limit)
  BY DEF Rel
<1>2. /\ r \in QueueRecords /\ r.head = q.head + 1 /\ r.win = w /\ r.count = q.count
      /\ r.nbuf = f /\ r.out = q.out /\ r.replayed = q.replayed /\ r.rsc = q.rsc
      /\ r.top = q.top
  BY <1>1, RetireHeadNull
<1>3. b \notin H
  BY HeadSlot
<1>4. From(H, b + 1) = From(H, b) /\ Below(H, b + 1) = Below(H, b)
  BY <1>3, SkipNumber
<1>5. w \in Nat /\ q.head \in Nat
  BY <1>1, WindowFacts DEF QueueRecords
<1>6. Slotted(b + 1, w, f)
  <2> SUFFICES ASSUME NEW s \in Full(f) PROVE InWindow(b + 1, w, f[s])
    BY <1>1 DEF Slotted
  <2>1. InWindow(b, w, f[s])
    BY <1>1 DEF Slotted
  <2>2. f[s].seq \in H
    BY <1>1 DEF Seqs, From
  <2>3. f[s].seq # b
    BY <1>3, <2>2
  <2>4. f[s].seq \in b .. b + w - 1
    BY <2>1 DEF InWindow
  <2>5. f[s].seq \in b + 1 .. (b + 1) + w - 1
    BY <1>5, <2>3, <2>4
  <2> QED
    BY <2>1, <2>5 DEF InWindow
<1>7. Cong(q.head + 1, b + 1, Limit)
  BY <1>1, <1>5, Constants, CongShift
<1>8. Fresh(b + 1, q)
  <2>1. b + 1 \in Nat /\ b <= b + 1
    OBVIOUS
  <2> QED
    BY <1>1, <2>1, FreshMono
<1>9. Fresh(b + 1, r)
  BY <1>2, <1>8 DEF Fresh
<1> HIDE DEF r, f, w
<1> QED
  BY <1>1, <1>2, <1>3, <1>4, <1>6, <1>7, <1>9 DEF Rel, r

\* Taking a packet out of its slot.
LEMMA EmptySlot ==
  ASSUME NEW f \in [Slots -> Packets \cup {NULL}], NEW s \in Full(f)
  PROVE  /\ Full([f EXCEPT ![s] = NULL]) = Full(f) \ {s}
         /\ \A x \in Full([f EXCEPT ![s] = NULL]) : [f EXCEPT ![s] = NULL][x] = f[x]
         /\ Cardinality(Full([f EXCEPT ![s] = NULL])) = Cardinality(Full(f)) - 1
<1> DEFINE g == [f EXCEPT ![s] = NULL]
<1>1. s \in Slots
  BY DEF Full
<1>2. \A x \in Slots : g[x] = IF x = s THEN NULL ELSE f[x]
  BY <1>1
<1>3. Full(g) = Full(f) \ {s}
  BY <1>1, <1>2 DEF Full
<1>4. \A x \in Full(g) : g[x] = f[x]
  BY <1>2, <1>3 DEF Full
<1>5. IsFiniteSet(Full(f))
  BY FullFinite
<1>6. Cardinality(Full(f) \ {s}) = Cardinality(Full(f)) - 1
  BY <1>5, FS_RemoveElement
<1> QED
  BY <1>3, <1>4, <1>6

\* The replay counters when the first packet of the window reaches the check.
LEMMA SendupFresh ==
  ASSUME Env, NEW b \in Nat, NEW q \in QueueRecords, Fresh(b, q),
         NEW r \in Packets, r.seq = b, mixed \/ r.pn = r.seq - keySeq + 1
  PROVE  Fresh(b + 1, DetectReplayOrSendup(q, r))
<1> DEFINE d == DetectReplayOrSendup(q, r)
<1> SUFFICES Fresh(b + 1, d)
  OBVIOUS
<1>1. /\ d.replayed = IF IsReplay(q, r) THEN q.replayed \cup {r.seq} ELSE q.replayed
      /\ d.rsc = IF cipher /\ ~IsReplay(q, r) THEN r.pn ELSE q.rsc
      /\ d.top = IF ~IsReplay(q, r) /\ r.seq >= q.top THEN r.seq + 1 ELSE q.top
  BY SendupFields
<1> HIDE DEF d
<1>2. /\ q.rsc \in Int /\ keySeq \in Int /\ top \in Int /\ q.top \in Int
      /\ r.pn \in Int /\ r.pn >= 1 /\ q.rsc >= 0
  BY Constants DEF Env, QueueRecords, Packets
<1>3. Fresh(b + 1, q)
  BY FreshMono
<1>4. CASE IsReplay(q, r)
  <2>1. r.pn <= q.rsc
    BY <1>4 DEF IsReplay
  <2>2. d.rsc = q.rsc /\ d.top = q.top /\ d.replayed = q.replayed \cup {b}
    BY <1>1, <1>4
  <2>3. b < top \/ mixed
    BY <1>2, <2>1 DEF Fresh
  <2>4. \A p \in d.replayed : p < top \/ mixed
    BY <1>3, <2>2, <2>3 DEF Fresh
  <2> QED
    BY <1>3, <2>2, <2>4 DEF Fresh
<1>5. CASE ~IsReplay(q, r)
  <2>1. d.replayed = q.replayed /\ (d.rsc = r.pn \/ d.rsc = q.rsc)
        /\ d.top \in Int /\ d.top >= q.top /\ d.top >= b + 1
    BY <1>1, <1>2, <1>5
  <2>2. top <= d.top
    BY <1>2, <2>1 DEF Fresh
  <2>5. \A p \in d.replayed : p < top \/ mixed
    BY <1>3, <2>1 DEF Fresh
  <2>3. CASE d.rsc = q.rsc
    <3>1. mixed \/ d.rsc = 0 \/ d.rsc + keySeq <= d.top
      BY <1>2, <1>3, <2>1, <2>3 DEF Fresh
    <3>2. mixed \/ d.rsc = 0 \/ d.rsc + keySeq <= top \/ d.rsc + keySeq <= b + 1
      BY <1>3, <2>3 DEF Fresh
    <3> QED
      BY <2>2, <2>5, <3>1, <3>2 DEF Fresh
  <2>4. CASE d.rsc = r.pn
    <3>1. mixed \/ d.rsc + keySeq = b + 1
      BY <1>2, <2>4
    <3>2. mixed \/ (d.rsc + keySeq <= d.top /\ d.rsc + keySeq <= b + 1)
      BY <1>2, <2>1, <3>1
    <3> QED
      BY <2>2, <2>5, <3>2 DEF Fresh
  <2> QED
    BY <2>1, <2>3, <2>4
<1> QED
  BY <1>4, <1>5 DEF d

\* A turn that meets a packet.
LEMMA RetirePacket ==
  ASSUME Env, NEW H \in SUBSET Nat, NEW b \in Nat, NEW q, Rel(H, b, q),
         q.nbuf[q.head % q.win] # NULL
  PROVE  Rel(H, b + 1, RetireHead(q)) /\ b \in H
<1> DEFINE r == RetireHead(q)
           f == q.nbuf
           g == r.nbuf
           w == q.win
           s == q.head % q.win
           d == DetectReplayOrSendup(q, f[s])
<1>1. /\ q \in QueueRecords /\ Slotted(b, w, f) /\ q.count = Cardinality(Full(f))
      /\ Seqs(f) = From(H, b) /\ Abstract!InOrder(q.out, Below(H, b))
      /\ Fresh(b, q) /\ Cong(q.head, b, Limit)
  BY DEF Rel
<1>2. s \in Slots /\ f[s] # NULL /\ f[s] \in Packets /\ f[s].seq = b /\ b \in H
  BY HeadSlot
<1>3. /\ r \in QueueRecords /\ r.head = q.head + 1 /\ r.win = w /\ r.count = q.count - 1
      /\ g = [f EXCEPT ![s] = NULL] /\ r.out = Append(q.out, f[s].seq)
      /\ r.replayed = d.replayed /\ r.rsc = d.rsc /\ r.top = d.top
  BY <1>1, <1>2, RetireHeadFull
<1>4. w \in Nat /\ q.head \in Nat /\ f \in [Slots -> Packets \cup {NULL}]
  BY <1>1, WindowFacts DEF QueueRecords
<1> HIDE DEF r, f, g, w, s, d
<1>5. s \in Full(f)
  BY <1>2 DEF Full
<1>6. /\ Full(g) = Full(f) \ {s}
      /\ \A x \in Full(g) : g[x] = f[x]
      /\ Cardinality(Full(g)) = Cardinality(Full(f)) - 1
  <2>1. /\ Full([f EXCEPT ![s] = NULL]) = Full(f) \ {s}
        /\ \A x \in Full([f EXCEPT ![s] = NULL]) : [f EXCEPT ![s] = NULL][x] = f[x]
        /\ Cardinality(Full([f EXCEPT ![s] = NULL])) = Cardinality(Full(f)) - 1
    BY <1>4, <1>5, EmptySlot
  <2> QED
    BY <1>3, <2>1
<1>7. \A x \in Full(g) : x \in Full(f) /\ f[x].seq # b
  BY <1>1, <1>2, <1>5, <1>6 DEF Slotted
<1>8. Slotted(b + 1, w, g)
  <2> SUFFICES ASSUME NEW x \in Full(g) PROVE InWindow(b + 1, w, g[x]) /\ x = g[x].seq % w
    BY DEF Slotted
  <2>1. g[x] = f[x] /\ InWindow(b, w, f[x]) /\ x = f[x].seq % w /\ f[x].seq # b
    BY <1>1, <1>6, <1>7 DEF Slotted
  <2>2. f[x].seq \in b .. b + w - 1
    BY <2>1 DEF InWindow
  <2>3. f[x].seq \in b + 1 .. (b + 1) + w - 1
    BY <1>4, <2>1, <2>2
  <2> QED
    BY <2>1, <2>3 DEF InWindow
<1>9. Seqs(g) = From(H, b + 1)
  <2>1. \A k \in Seqs(g) : k \in From(H, b + 1)
    <3> TAKE k \in Seqs(g)
    <3>1. PICK x \in Full(g) : k = g[x].seq
      BY DEF Seqs
    <3>2. k \in Seqs(f) /\ k # b
      BY <1>6, <1>7, <3>1 DEF Seqs
    <3>3. k \in H /\ k >= b
      BY <1>1, <3>2 DEF From
    <3>4. k \in Nat /\ k >= b + 1
      BY <3>2, <3>3
    <3> QED
      BY <3>3, <3>4 DEF From
  <2>2. \A k \in From(H, b + 1) : k \in Seqs(g)
    <3> TAKE k \in From(H, b + 1)
    <3>1. k \in H /\ k >= b + 1
      BY DEF From
    <3>2. k >= b /\ k # b
      BY <3>1
    <3>3. PICK x \in Full(f) : k = f[x].seq
      BY <1>1, <3>1, <3>2 DEF Seqs, From
    <3>4. x \in Full(g)
      BY <1>2, <1>6, <3>2, <3>3
    <3> QED
      BY <1>6, <3>3, <3>4 DEF Seqs
  <2> QED
    BY <2>1, <2>2
<1>10. Abstract!InOrder(r.out, Below(H, b + 1))
  BY <1>1, <1>2, <1>3, InOrderAppend
<1>11. Cong(r.head, b + 1, Limit)
  BY <1>1, <1>3, <1>4, Constants, CongShift
<1>12. Fresh(b + 1, r)
  <2>1. InWindow(b, w, f[s])
    BY <1>1, <1>5 DEF Slotted
  <2>2. mixed \/ f[s].pn = f[s].seq - keySeq + 1
    BY <2>1 DEF InWindow
  <2>3. Fresh(b + 1, d)
    BY <1>1, <1>2, <2>2, SendupFresh DEF d
  <2> QED
    BY <1>3, <2>3 DEF Fresh
<1> QED
  BY <1>1, <1>2, <1>3, <1>6, <1>8, <1>9, <1>10, <1>11, <1>12 DEF Rel, r, g

\* One turn of a loop over the window moves its start by one.
LEMMA RetireHeadRel ==
  ASSUME Env, NEW H \in SUBSET Nat, NEW b \in Nat, NEW q, Rel(H, b, q)
  PROVE  /\ Rel(H, b + 1, RetireHead(q))
         /\ q.nbuf[q.head % q.win] # NULL <=> b \in H
         /\ RetireHead(q).win = q.win
<1>1. q \in QueueRecords
  BY DEF Rel
<1>2. CASE q.nbuf[q.head % q.win] = NULL
  BY <1>1, <1>2, RetireNothing, RetireHeadNull
<1>3. CASE q.nbuf[q.head % q.win] # NULL
  <2>1. q.head % q.win \in Slots
    BY HeadSlot
  <2> QED
    BY <1>1, <1>3, <2>1, RetirePacket, RetireHeadFull
<1> QED
  BY <1>2, <1>3

-----------------------------------------------------------------------------
(***************************************************************************)
(* The loops.  step of each is a function of the number of turns.           *)
(***************************************************************************)

\* The turns of the three loops, and the functions step they are written with.
Turn(k, w, p) ==
  IF k = "move" THEN RetireHead(p)
  ELSE IF k = "retire"
  THEN IF p.nbuf[p.head % w] = NULL THEN p ELSE RetireHead(p)
  ELSE IF p.count = 0 THEN p ELSE MoveWindow(p, 1)
StepAt(k, q, L, i) == IF i = 0 THEN q ELSE Turn(k, q.win, L[i - 1])
IsSteps(k, q, L, n) == L = [i \in 0 .. n |-> StepAt(k, q, L, i)]

\* The recursion of the loops defines something: the least number of turns for
\* which it would not cannot exist.
LEMMA StepsExist ==
  ASSUME NEW k, NEW q
  PROVE  \A n \in Nat : \E L : IsSteps(k, q, L, n)
<1> DEFINE T == {n \in Nat : ~ \E L : IsSteps(k, q, L, n)}
<1> SUFFICES ASSUME T # {} PROVE FALSE
  OBVIOUS
<1>1. T \in SUBSET Nat
  OBVIOUS
<1>2. PICK n \in T : \A y \in T : n <= y
  BY <1>1, LeastNat
<1>3. n \in Nat /\ ~ \E L : IsSteps(k, q, L, n)
  OBVIOUS
<1>4. n # 0
  <2>1. IsSteps(k, q, [i \in 0 .. 0 |-> q], 0)
    BY DEF IsSteps, StepAt
  <2> QED
    BY <2>1, <1>3
<1>5. n - 1 \in Nat /\ n - 1 \notin T
  BY <1>2, <1>3, <1>4
<1>6. PICK L : IsSteps(k, q, L, n - 1)
  BY <1>5
<1>7. n \in Nat /\ n > 0
  BY <1>3, <1>4
<1> DEFINE M == [i \in 0 .. n |-> IF i < n THEN L[i] ELSE StepAt(k, q, L, n)]
           P == [i \in 0 .. n |-> StepAt(k, q, M, i)]
<1>8. \A i \in 0 .. n : M[i] = P[i]
  <2> TAKE i \in 0 .. n
  <2>1. P[i] = StepAt(k, q, M, i)
    OBVIOUS
  <2>2. i # 0 => M[i - 1] = L[i - 1]
    BY <1>7
  <2>3. M[i] = StepAt(k, q, L, i)
    <3>1. CASE i = n
      BY <3>1, <1>7
    <3>2. CASE i < n
      <4>1. i \in 0 .. n - 1 /\ M[i] = L[i]
        BY <3>2, <1>7
      <4>2. L = [j \in 0 .. n - 1 |-> StepAt(k, q, L, j)]
        BY <1>6 DEF IsSteps
      <4> HIDE DEF M
      <4> QED
        BY <4>1, <4>2
    <3> QED
      BY <3>1, <3>2, <1>7
  <2> HIDE DEF M, P
  <2> QED
    BY <2>1, <2>2, <2>3 DEF StepAt
<1>9. M = P
  <2>1. M = [i \in 0 .. n |-> M[i]] /\ P = [i \in 0 .. n |-> P[i]]
    OBVIOUS
  <2> HIDE DEF M, P
  <2> QED
    BY <2>1, <1>8
<1>10. IsSteps(k, q, M, n)
  BY <1>9 DEF IsSteps
<1> QED
  BY <1>10, <1>3

\* The first queue of a loop, and each from the one before.
LEMMA StepsFacts ==
  ASSUME NEW k, NEW q, NEW n \in Nat, NEW L, IsSteps(k, q, L, n)
  PROVE  /\ L[0] = q
         /\ \A i \in 1 .. n : L[i] = Turn(k, q.win, L[i - 1])
<1>1. \A i \in 0 .. n : L[i] = StepAt(k, q, L, i)
  BY DEF IsSteps
<1>2. 0 \in 0 .. n /\ \A i \in 1 .. n : i \in 0 .. n /\ i # 0
  OBVIOUS
<1> QED
  BY <1>1, <1>2 DEF StepAt

\* rod_move_window as its turns.
LEMMA MoveWindowIs ==
  ASSUME NEW q, NEW n \in Nat
  PROVE  \E L : IsSteps("move", q, L, n) /\ MoveWindow(q, n) = [L[n] EXCEPT !.head = @ % Limit]
<1> DEFINE L == CHOOSE L : L = [i \in 0 .. n |-> IF i = 0 THEN q ELSE RetireHead(L[i - 1])]
<1>1. MoveWindow(q, n) = [L[n] EXCEPT !.head = @ % Limit]
  BY DEF MoveWindow
<1> HIDE DEF L
<1>2. \E M : IsSteps("move", q, M, n)
  BY StepsExist
<1>3. IsSteps("move", q, L, n)
  BY <1>2 DEF IsSteps, StepAt, Turn, L
<1> QED
  BY <1>1, <1>3

\* retire_rod_queue as its turns.
LEMMA RetireQueueIs ==
  ASSUME NEW q, q.win \in Nat
  PROVE  \E L : /\ IsSteps("retire", q, L, q.win)
                /\ RetireQueue(q) = [L[q.win] EXCEPT !.head = @ % Limit]
<1> DEFINE L == CHOOSE L : L = [i \in 0 .. q.win |->
                  IF i = 0 THEN q
                  ELSE IF L[i - 1].nbuf[L[i - 1].head % q.win] = NULL THEN L[i - 1]
                  ELSE RetireHead(L[i - 1])]
<1>1. RetireQueue(q) = [L[q.win] EXCEPT !.head = @ % Limit]
  BY DEF RetireQueue
<1> HIDE DEF L
<1>2. \E M : IsSteps("retire", q, M, q.win)
  BY StepsExist
<1>3. IsSteps("retire", q, L, q.win)
  BY <1>2 DEF IsSteps, StepAt, Turn, L
<1> QED
  BY <1>1, <1>3

\* mtlk_flush_rod_queue as its turns.
LEMMA FlushQueueIs ==
  ASSUME NEW q
  PROVE  \E L : IsSteps("flush", q, L, Limit) /\ FlushQueue(q) = L[Limit]
<1> DEFINE L == CHOOSE L : L = [i \in 0 .. Limit |->
                  IF i = 0 THEN q
                  ELSE IF L[i - 1].count = 0 THEN L[i - 1]
                  ELSE MoveWindow(L[i - 1], 1)]
<1>1. FlushQueue(q) = L[Limit]
  BY DEF FlushQueue
<1> HIDE DEF L
<1>2. \E M : IsSteps("flush", q, M, Limit)
  BY Constants, StepsExist
<1>3. IsSteps("flush", q, L, Limit)
  BY <1>2 DEF IsSteps, StepAt, Turn, L
<1> QED
  BY <1>1, <1>3

\* The head is wrapped at the end of a loop.
Wrapped(q) == [q EXCEPT !.head = @ % Limit]

\* It leaves the queue what it is.
LEMMA WrapRel ==
  ASSUME NEW H, NEW b \in Nat, NEW q, Rel(H, b, q)
  PROVE  /\ Rel(H, b, Wrapped(q))
         /\ Wrapped(q).win = q.win
         /\ Wrapped(q).head \in 0 .. Limit - 1
<1> DEFINE h == q.head % Limit
           r == Wrapped(q)
<1>1. q \in QueueRecords /\ q.head \in Nat /\ Cong(q.head, b, Limit)
  BY DEF Rel, QueueRecords
<1>2. h \in 0 .. Limit - 1 /\ Cong(h, q.head, Limit)
  <2>1. q.head \in Int /\ Limit \in Int /\ Limit > 0
    BY <1>1, Constants
  <2> QED
    BY <2>1, ModFacts
<1>3. h \in Nat
  BY <1>2, Constants
<1>4. Cong(h, b, Limit)
  BY <1>1, <1>2, <1>3, Constants, CongTrans
<1>5. r = [q EXCEPT !.head = h]
  BY DEF Wrapped
<1> HIDE DEF h, r
<1>6. r \in QueueRecords
  BY <1>1, <1>3, <1>5 DEF QueueRecords
<1>7. /\ r.head = h /\ r.win = q.win /\ r.count = q.count /\ r.nbuf = q.nbuf
      /\ r.out = q.out /\ r.replayed = q.replayed /\ r.rsc = q.rsc /\ r.top = q.top
  BY <1>1, <1>5 DEF QueueRecords
<1>8. Fresh(b, r)
  BY <1>7 DEF Rel, Fresh
<1> QED
  BY <1>2, <1>4, <1>6, <1>7, <1>8 DEF Rel, r

\* rod_move_window moves the start of the window by n.
LEMMA MoveWindowRel ==
  ASSUME Env, NEW H \in SUBSET Nat, NEW b \in Nat, NEW q, Rel(H, b, q), NEW n \in Nat
  PROVE  /\ Rel(H, b + n, MoveWindow(q, n))
         /\ MoveWindow(q, n).win = q.win
         /\ MoveWindow(q, n).head \in 0 .. Limit - 1
<1>1. PICK L : IsSteps("move", q, L, n) /\ MoveWindow(q, n) = Wrapped(L[n])
  BY MoveWindowIs DEF Wrapped
<1>2. L[0] = q /\ \A i \in 1 .. n : L[i] = RetireHead(L[i - 1])
  BY <1>1, StepsFacts DEF Turn
<1> DEFINE T == {i \in 0 .. n : ~ (Rel(H, b + i, L[i]) /\ L[i].win = q.win)}
<1>3. T = {}
  <2> SUFFICES ASSUME T # {} PROVE FALSE
    OBVIOUS
  <2>1. PICK i \in T : \A j \in T : i <= j
    <3>1. T \in SUBSET Nat
      OBVIOUS
    <3> QED
      BY <3>1, LeastNat
  <2>2. i \in 0 .. n /\ ~ (Rel(H, b + i, L[i]) /\ L[i].win = q.win)
    OBVIOUS
  <2>3. i # 0
    BY <1>2, <2>2
  <2>4. i \in 1 .. n /\ i - 1 \in 0 .. n /\ i - 1 \notin T
    BY <2>1, <2>2, <2>3
  <2>5. Rel(H, b + (i - 1), L[i - 1]) /\ L[i - 1].win = q.win
    BY <2>4
  <2>6. b + (i - 1) \in Nat /\ (b + (i - 1)) + 1 = b + i
    BY <2>4
  <2> HIDE DEF T
  <2>7. Rel(H, (b + (i - 1)) + 1, L[i]) /\ L[i].win = q.win
    <3>1. L[i] = RetireHead(L[i - 1])
      BY <1>2, <2>4
    <3> DEFINE p == L[i - 1]
               c == b + (i - 1)
    <3>2. c \in Nat /\ Rel(H, c, p) /\ p.win = q.win
      BY <2>5, <2>6
    <3> HIDE DEF p, c
    <3>3. Rel(H, c + 1, RetireHead(p)) /\ RetireHead(p).win = q.win
      BY <3>2, RetireHeadRel
    <3> QED
      BY <3>1, <3>3 DEF p, c
  <2> QED
    BY <2>2, <2>6, <2>7
<1>4. Rel(H, b + n, L[n]) /\ L[n].win = q.win
  BY <1>3
<1>5. b + n \in Nat
  OBVIOUS
<1> HIDE DEF T
<1>6. /\ Rel(H, b + n, Wrapped(L[n])) /\ Wrapped(L[n]).win = q.win
      /\ Wrapped(L[n]).head \in 0 .. Limit - 1
  BY <1>4, <1>5, WrapRel
<1> QED
  BY <1>1, <1>6

\* Everything that waits is in the window.
LEMMA HeldInWindow ==
  ASSUME NEW H \in SUBSET Nat, NEW b \in Nat, NEW q, Rel(H, b, q)
  PROVE  \A k \in H : k >= b => k < b + q.win
<1> SUFFICES ASSUME NEW k \in H, k >= b PROVE k < b + q.win
  OBVIOUS
<1>1. Slotted(b, q.win, q.nbuf) /\ Seqs(q.nbuf) = From(H, b) /\ q.win \in FitWindows
  BY DEF Rel, QueueRecords
<1>2. PICK s \in Full(q.nbuf) : k = q.nbuf[s].seq
  BY <1>1 DEF From, Seqs
<1>3. k \in b .. b + q.win - 1
  BY <1>1, <1>2 DEF Slotted, InWindow
<1>4. q.win \in 1 .. Limit \div 2
  BY <1>1, WindowFacts
<1> QED
  BY <1>3, <1>4, Constants

\* c is the first number from b on that is not in H; c is on the way there.
Missing(H, b, c) == c \in Nat /\ c >= b /\ c \notin H /\ \A k \in b .. c - 1 : k \in H
Walked(H, b, c, i) ==
  c \in Nat /\ c >= b /\ (c = b + i \/ c \notin H) /\ \A k \in b .. c - 1 : k \in H

\* retire_rod_queue stops at the first number that is missing, at most a window
\* further on.
LEMMA RetireQueueRel ==
  ASSUME Env, NEW H \in SUBSET Nat, NEW b \in Nat, NEW q, Rel(H, b, q)
  PROVE  /\ \E c \in Nat : Missing(H, b, c) /\ Rel(H, c, RetireQueue(q))
         /\ RetireQueue(q).win = q.win
         /\ RetireQueue(q).head \in 0 .. Limit - 1
<1> DEFINE w == q.win
<1>0. w \in FitWindows /\ w \in Nat /\ q.win \in Nat
  BY WindowFacts DEF Rel, QueueRecords
<1>1. PICK L : IsSteps("retire", q, L, w) /\ RetireQueue(q) = Wrapped(L[w])
  BY <1>0, RetireQueueIs DEF Wrapped
<1>2. L[0] = q /\ \A i \in 1 .. w : L[i] = Turn("retire", w, L[i - 1])
  <2>1. IsSteps("retire", q, L, w) /\ w \in Nat
    BY <1>0, <1>1
  <2> HIDE DEF w
  <2>2. L[0] = q /\ \A i \in 1 .. w : L[i] = Turn("retire", q.win, L[i - 1])
    BY <2>1, StepsFacts
  <2> QED
    BY <2>2 DEF w
<1> HIDE DEF w
<1> DEFINE Good(i) == L[i].win = w /\ \E c \in Nat : Walked(H, b, c, i) /\ Rel(H, c, L[i])
           T == {i \in 0 .. w : ~ Good(i)}
<1>3. T = {}
  <2> SUFFICES ASSUME T # {} PROVE FALSE
    OBVIOUS
  <2>0. T \in SUBSET Nat
    OBVIOUS
  <2>1. PICK i \in T : \A j \in T : i <= j
    BY <2>0, LeastNat
  <2>2. i \in 0 .. w /\ ~ Good(i)
    OBVIOUS
  <2>3. i # 0
    <3>1. Walked(H, b, b, 0)
      BY DEF Walked
    <3>2. Good(0)
      BY <1>2, <3>1 DEF w
    <3> QED
      BY <2>2, <3>2
  <2>4. i \in 1 .. w /\ i - 1 \in 0 .. w /\ i - 1 \notin T /\ i \in Nat
    BY <1>0, <2>1, <2>2, <2>3
  <2>5. Good(i - 1)
    BY <2>4
  <2> HIDE DEF T
  <2>6. PICK c \in Nat : Walked(H, b, c, i - 1) /\ Rel(H, c, L[i - 1])
    BY <2>5
  <2> DEFINE p == L[i - 1]
  <2>7. p.win = w /\ L[i] = Turn("retire", w, p)
    BY <1>2, <2>4, <2>5
  <2>8. /\ Rel(H, c + 1, RetireHead(p)) /\ RetireHead(p).win = w
        /\ p.nbuf[p.head % w] # NULL <=> c \in H
    BY <2>6, <2>7, RetireHeadRel
  <2> HIDE DEF p
  <2>9. CASE c \in H
    <3>1. L[i] = RetireHead(p)
      BY <2>7, <2>8, <2>9 DEF Turn
    <3>2. c = b + (i - 1) /\ c >= b /\ \A k \in b .. c - 1 : k \in H
      BY <2>6, <2>9 DEF Walked
    <3>3. \A k \in b .. (c + 1) - 1 : k \in H
      BY <2>9, <3>2
    <3>4. c + 1 = b + i /\ c + 1 \in Nat /\ c + 1 >= b
      BY <2>4, <3>2
    <3>5. Walked(H, b, c + 1, i)
      BY <3>3, <3>4 DEF Walked
    <3> QED
      BY <2>2, <2>8, <3>1, <3>4, <3>5
  <2>10. CASE c \notin H
    <3>1. L[i] = L[i - 1]
      BY <2>7, <2>8, <2>10 DEF Turn, p
    <3>2. Walked(H, b, c, i)
      BY <2>6, <2>10 DEF Walked
    <3> QED
      BY <2>2, <2>6, <2>7, <3>1, <3>2 DEF p
  <2> QED
    BY <2>9, <2>10
<1>4. Good(w)
  BY <1>0, <1>3
<1>5. PICK c \in Nat : Walked(H, b, c, w) /\ Rel(H, c, L[w])
  BY <1>4
<1>6. Missing(H, b, c)
  <2>1. \A k \in H : k >= b => k < b + w
    BY HeldInWindow DEF w
  <2>2. c \notin H
    BY <1>0, <1>5, <2>1 DEF Walked
  <2> QED
    BY <1>5, <2>2 DEF Walked, Missing
<1>7. L[w].win = w
  BY <1>4
<1> HIDE DEF Good, T
<1>8. Rel(H, c, RetireQueue(q)) /\ RetireQueue(q).win = w /\ RetireQueue(q).head \in 0 .. Limit - 1
  BY <1>1, <1>5, <1>7, WrapRel
<1> QED
  BY <1>5, <1>6, <1>8 DEF w

\* count is zero if and only if nothing waits.
LEMMA CountZero ==
  ASSUME NEW H, NEW b, NEW q, Rel(H, b, q)
  PROVE  /\ q.count \in Nat
         /\ q.count = 0 <=> From(H, b) = {}
         /\ q.count = 0 <=> \A s \in Slots : q.nbuf[s] = NULL
<1>1. q.count = Cardinality(Full(q.nbuf)) /\ Seqs(q.nbuf) = From(H, b)
  BY DEF Rel
<1>2. q.count \in Nat /\ (q.count = 0 <=> Full(q.nbuf) = {})
  BY <1>1, FullFinite
<1>3. Full(q.nbuf) = {} <=> From(H, b) = {}
  BY <1>1 DEF Seqs
<1>4. Full(q.nbuf) = {} <=> \A s \in Slots : q.nbuf[s] = NULL
  BY DEF Full
<1> QED
  BY <1>2, <1>3, <1>4

\* c follows the last number of H from b on; c is on the way there.
Flushed(H, b, c) == c \in Nat /\ c >= b /\ (c = b \/ (c - 1 >= b /\ c - 1 \in H)) /\ From(H, c) = {}
Flushing(H, b, c) == c \in Nat /\ c >= b /\ (c = b \/ \E k \in H : k >= c - 1)

\* mtlk_flush_rod_queue empties the queue within Limit turns, and stops right
\* behind the last packet.
LEMMA FlushQueueRel ==
  ASSUME Env, NEW H \in SUBSET Nat, NEW b \in Nat, NEW q, Rel(H, b, q),
         q.head \in 0 .. Limit - 1
  PROVE  /\ \E c \in Nat : Flushed(H, b, c) /\ Rel(H, c, FlushQueue(q))
         /\ FlushQueue(q).count = 0
         /\ FlushQueue(q).win = q.win
         /\ FlushQueue(q).head \in 0 .. Limit - 1
         /\ \A s \in Slots : FlushQueue(q).nbuf[s] = NULL
<1> DEFINE w == q.win
<1>0. w \in FitWindows /\ w \in Nat /\ w <= Limit /\ Limit \in Nat
  <2>1. w \in FitWindows
    BY DEF Rel, QueueRecords
  <2>2. w \in Nat /\ w <= Limit \div 2
    BY <2>1, WindowFacts
  <2> QED
    BY <2>1, <2>2, Constants
<1>1. PICK L : IsSteps("flush", q, L, Limit) /\ FlushQueue(q) = L[Limit]
  BY FlushQueueIs
<1>2. L[0] = q /\ \A i \in 1 .. Limit : L[i] = Turn("flush", w, L[i - 1])
  <2>1. IsSteps("flush", q, L, Limit)
    BY <1>1
  <2>2. L[0] = q /\ \A i \in 1 .. Limit : L[i] = Turn("flush", q.win, L[i - 1])
    <3>1. Limit \in Nat
      BY Constants
    <3> HIDE DEF w
    <3> QED
      BY <2>1, <3>1, StepsFacts
  <2> QED
    BY <2>2
<1> HIDE DEF w
<1> DEFINE Reach(i) == \E c \in Nat : /\ Flushing(H, b, c) /\ Rel(H, c, L[i])
                                      /\ c = b + i \/ L[i].count = 0
           Good(i) == L[i].win = w /\ L[i].head \in 0 .. Limit - 1 /\ Reach(i)
           T == {i \in 0 .. Limit : ~ Good(i)}
<1>3. T = {}
  <2> SUFFICES ASSUME T # {} PROVE FALSE
    OBVIOUS
  <2>0. T \in SUBSET Nat
    BY <1>0
  <2>1. PICK i \in T : \A j \in T : i <= j
    BY <2>0, LeastNat
  <2>2. i \in 0 .. Limit /\ ~ Good(i)
    OBVIOUS
  <2>3. i # 0
    <3>1. Flushing(H, b, b) /\ b = b + 0
      BY DEF Flushing
    <3>2. Good(0)
      BY <1>2, <3>1 DEF w
    <3> QED
      BY <2>2, <3>2
  <2>4. i \in 1 .. Limit /\ i - 1 \in 0 .. Limit /\ i - 1 \notin T /\ i \in Nat
    BY <1>0, <2>1, <2>2, <2>3
  <2>5. Good(i - 1)
    BY <2>4
  <2> HIDE DEF T
  <2> DEFINE p == L[i - 1]
  <2>6. PICK c \in Nat : /\ Flushing(H, b, c) /\ Rel(H, c, p)
                         /\ c = b + (i - 1) \/ p.count = 0
    BY <2>5
  <2>7. p.win = w /\ p.head \in 0 .. Limit - 1 /\ L[i] = Turn("flush", w, p)
    BY <1>2, <2>4, <2>5
  <2>8. /\ Rel(H, c + 1, MoveWindow(p, 1)) /\ MoveWindow(p, 1).win = w
        /\ MoveWindow(p, 1).head \in 0 .. Limit - 1
    <3> HIDE DEF p
    <3>1. 1 \in Nat /\ Rel(H, c, p)
      BY <2>6
    <3>2. /\ Rel(H, c + 1, MoveWindow(p, 1)) /\ MoveWindow(p, 1).win = p.win
          /\ MoveWindow(p, 1).head \in 0 .. Limit - 1
      BY <3>1, MoveWindowRel
    <3> QED
      BY <2>7, <3>2
  <2> HIDE DEF p
  <2>9. CASE p.count = 0
    <3>1. L[i] = p
      BY <2>7, <2>9 DEF Turn
    <3>2. Reach(i)
      BY <2>6, <2>9, <3>1
    <3> QED
      BY <2>2, <2>7, <3>1, <3>2
  <2>10. CASE p.count # 0
    <3>1. L[i] = MoveWindow(p, 1)
      BY <2>7, <2>10 DEF Turn
    <3>2. From(H, c) # {}
      BY <2>6, <2>10, CountZero
    <3>3. PICK k \in H : k >= c
      BY <3>2 DEF From
    <3>4. c + 1 \in Nat /\ c + 1 >= b /\ k >= (c + 1) - 1 /\ c + 1 = b + i
      BY <2>4, <2>6, <2>10, <3>3 DEF Flushing
    <3>5. Flushing(H, b, c + 1)
      BY <3>4 DEF Flushing
    <3>6. Reach(i)
      BY <2>8, <3>1, <3>4, <3>5
    <3> QED
      BY <2>2, <2>8, <3>1, <3>6
  <2> QED
    BY <2>9, <2>10
<1>4. Good(Limit)
  BY <1>0, <1>3
<1> HIDE DEF T
<1> DEFINE r == L[Limit]
<1>5. PICK c \in Nat : Flushing(H, b, c) /\ Rel(H, c, r) /\ (c = b + Limit \/ r.count = 0)
  BY <1>4
<1>6. r.win = w /\ r.head \in 0 .. Limit - 1 /\ FlushQueue(q) = r
  BY <1>1, <1>4
<1> HIDE DEF r, Good, Reach
<1>7. From(H, c) = {}
  <2>1. CASE r.count = 0
    BY <1>5, <2>1, CountZero
  <2>2. CASE c = b + Limit
    <3>1. \A k \in H : k >= b => k < b + w
      BY HeldInWindow DEF w
    <3>2. \A k \in H : ~ (k >= c)
      BY <1>0, <2>2, <3>1
    <3> QED
      BY <3>2 DEF From
  <2> QED
    BY <1>5, <2>1, <2>2
<1>8. r.count = 0 /\ \A s \in Slots : r.nbuf[s] = NULL
  BY <1>5, <1>7, CountZero
<1>9. Flushed(H, b, c)
  <2>1. \A k \in H : k \in Nat /\ k < c
    BY <1>7 DEF From
  <2>2. CASE c # b
    <3>1. PICK k \in H : k >= c - 1
      BY <1>5, <2>2 DEF Flushing
    <3>2. k = c - 1
      BY <2>1, <3>1
    <3>3. c - 1 >= b
      BY <1>5, <2>2 DEF Flushing
    <3> QED
      BY <1>5, <1>7, <3>1, <3>2, <3>3 DEF Flushed, Flushing
  <2> QED
    BY <1>5, <1>7, <2>2 DEF Flushed, Flushing
<1> QED
  BY <1>5, <1>6, <1>8, <1>9 DEF w

-----------------------------------------------------------------------------
(***************************************************************************)
(* A packet enters.                                                         *)
(***************************************************************************)

\* The slot of a number that was wrapped first.
LEMMA SlotOf ==
  ASSUME NEW w \in FitWindows, NEW p \in Nat
  PROVE  (p % Limit) % w = p % w /\ p % w \in Slots
<1>1. w \in Int /\ w > 0 /\ Limit % w = 0 /\ 0 .. w - 1 \subseteq Slots
  BY WindowFacts
<1>2. Limit \in Int /\ Limit > 0 /\ p \in Int
  BY Constants
<1>3. p % Limit \in 0 .. Limit - 1 /\ Cong(p % Limit, p, Limit)
  BY <1>2, ModFacts
<1>4. p % Limit \in Int
  BY <1>2, <1>3
<1>5. Cong(p % Limit, p, w)
  BY <1>1, <1>2, <1>3, <1>4, CongDivides
<1>6. (p % Limit) % w = p % w
  BY <1>1, <1>2, <1>4, <1>5, CongMod
<1>7. p % w \in 0 .. w - 1
  BY <1>1, <1>2, ModFacts
<1> QED
  BY <1>1, <1>6, <1>7

\* The slot of a number of the window is in use if and only if the packet of
\* that number waits.
LEMMA SlotTaken ==
  ASSUME NEW H \in SUBSET Nat, NEW b \in Nat, NEW q, Rel(H, b, q),
         NEW p \in Nat, p \in b .. b + q.win - 1
  PROVE  /\ (p % Limit) % q.win = p % q.win
         /\ p % q.win \in Slots
         /\ q.nbuf[p % q.win] # NULL <=> p \in H
<1> DEFINE w == q.win
           f == q.nbuf
           s == p % w
<1>1. /\ w \in FitWindows /\ f \in [Slots -> Packets \cup {NULL}]
      /\ Slotted(b, w, f) /\ Seqs(f) = From(H, b)
  BY DEF Rel, QueueRecords
<1> HIDE DEF f, w
<1>2. (p % Limit) % w = s /\ s \in Slots
  BY <1>1, SlotOf
<1>3. w \in Int /\ w > 0
  BY <1>1, WindowFacts
<1>4. p \in b .. b + w - 1
  BY DEF w
<1>5. ASSUME f[s] # NULL PROVE p \in H
  <2>1. s \in Full(f)
    BY <1>2, <1>5 DEF Full
  <2>2. f[s].seq \in b .. b + w - 1 /\ s = f[s].seq % w
    BY <1>1, <2>1 DEF Slotted, InWindow
  <2>3. f[s].seq \in Int /\ f[s].seq % w = p % w
    BY <2>2
  <2>4. Cong(f[s].seq, p, w)
    BY <1>3, <2>3, ModCong
  <2>5. f[s].seq = p
    BY <1>3, <1>4, <2>2, <2>4, CongNear
  <2> QED
    BY <1>1, <2>1, <2>5 DEF Seqs, From
<1>6. ASSUME p \in H PROVE f[s] # NULL
  <2>1. p \in Seqs(f)
    BY <1>1, <1>4, <1>6 DEF From
  <2>2. PICK x \in Full(f) : p = f[x].seq
    BY <2>1 DEF Seqs
  <2>3. x = s
    BY <1>1, <2>2 DEF Slotted
  <2> QED
    BY <2>2, <2>3 DEF Full
<1> QED
  BY <1>2, <1>5, <1>6 DEF f, w

\* A packet is put into its empty slot.
LEMMA FillSlot ==
  ASSUME NEW f \in [Slots -> Packets \cup {NULL}], NEW s \in Slots, f[s] = NULL,
         NEW r \in Packets
  PROVE  /\ [f EXCEPT ![s] = r] \in [Slots -> Packets \cup {NULL}]
         /\ Full([f EXCEPT ![s] = r]) = Full(f) \cup {s}
         /\ [f EXCEPT ![s] = r][s] = r
         /\ \A x \in Full(f) : [f EXCEPT ![s] = r][x] = f[x]
         /\ Cardinality(Full([f EXCEPT ![s] = r])) = Cardinality(Full(f)) + 1
<1> DEFINE g == [f EXCEPT ![s] = r]
<1>1. \A x \in Slots : g[x] = IF x = s THEN r ELSE f[x]
  OBVIOUS
<1>2. g \in [Slots -> Packets \cup {NULL}]
  OBVIOUS
<1> HIDE DEF g
<1>3. r # NULL
  BY Constants
<1>4. Full(g) = Full(f) \cup {s} /\ s \notin Full(f)
  BY <1>1, <1>3 DEF Full
<1>5. IsFiniteSet(Full(f))
  BY FullFinite
<1>6. Cardinality(Full(f) \cup {s}) = Cardinality(Full(f)) + 1
  BY <1>4, <1>5, FS_AddElement
<1>7. \A x \in Full(f) : g[x] = f[x]
  BY <1>1, <1>4 DEF Full
<1>8. g[s] = r
  BY <1>1
<1> QED
  BY <1>2, <1>4, <1>6, <1>7, <1>8 DEF g

\* A packet is put into slot s.
Filled(q, s, r) == [q EXCEPT !.nbuf[s] = r, !.count = @ + 1]

\* A packet of the window that does not wait yet is put in, and then the queue
\* is retired.
LEMMA InsertRel ==
  ASSUME Env, NEW H \in SUBSET Nat, NEW b \in Nat, NEW q, Rel(H, b, q),
         NEW p \in 0 .. MaxSent, p >= keySeq, p \in b .. b + q.win - 1, p \notin H
  PROVE  /\ Insert(q, Packet(p)) = RetireQueue(Filled(q, p % q.win, Packet(p)))
         /\ Rel(H \cup {p}, b, Filled(q, p % q.win, Packet(p)))
         /\ Filled(q, p % q.win, Packet(p)).win = q.win
<1> DEFINE w == q.win
           f == q.nbuf
           s == p % w
           r == Packet(p)
           g == [f EXCEPT ![s] = r]
           e == Filled(q, s, r)
           I == H \cup {p}
<1>1. p \in Nat /\ keySeq \in Nat /\ MaxSent \in Nat
  BY Constants DEF Env
<1>2. (p % Limit) % w = s /\ s \in Slots /\ f[s] = NULL
  BY <1>1, SlotTaken
<1>3. r.seq = p /\ r.pn = p - keySeq + 1 /\ r \in Packets
  <2>1. p - keySeq + 1 \in 1 .. MaxSent + 1
    BY <1>1
  <2> QED
    BY <2>1 DEF Packet, Packets
<1>4. /\ q \in QueueRecords /\ f \in [Slots -> Packets \cup {NULL}] /\ w \in FitWindows
      /\ Slotted(b, w, f) /\ q.count = Cardinality(Full(f)) /\ Seqs(f) = From(H, b)
      /\ Abstract!InOrder(q.out, Below(H, b)) /\ Fresh(b, q) /\ Cong(q.head, b, Limit)
  BY DEF Rel, QueueRecords
<1>5. Insert(q, r) = RetireQueue(e)
  BY <1>2, <1>3 DEF Insert, Filled
<1>6. /\ g \in [Slots -> Packets \cup {NULL}] /\ Full(g) = Full(f) \cup {s} /\ g[s] = r
      /\ \A x \in Full(f) : g[x] = f[x]
      /\ Cardinality(Full(g)) = Cardinality(Full(f)) + 1
  <2>1. s \in Slots /\ f[s] = NULL /\ r \in Packets /\ f \in [Slots -> Packets \cup {NULL}]
    BY <1>2, <1>3, <1>4
  <2> HIDE DEF f, s, r, w
  <2>2. /\ [f EXCEPT ![s] = r] \in [Slots -> Packets \cup {NULL}]
        /\ Full([f EXCEPT ![s] = r]) = Full(f) \cup {s}
        /\ [f EXCEPT ![s] = r][s] = r
        /\ \A x \in Full(f) : [f EXCEPT ![s] = r][x] = f[x]
        /\ Cardinality(Full([f EXCEPT ![s] = r])) = Cardinality(Full(f)) + 1
    BY <2>1, FillSlot
  <2> QED
    BY <2>2
<1>7. e = [q EXCEPT !.nbuf = g, !.count = q.count + 1]
  BY DEF Filled
<1>8. q.count + 1 \in Int
  BY <1>4 DEF QueueRecords
<1> HIDE DEF f, s, r, w, g, e
<1>9. e \in QueueRecords
  BY <1>4, <1>6, <1>7, <1>8 DEF QueueRecords
<1>10. /\ e.head = q.head /\ e.win = w /\ e.count = q.count + 1 /\ e.nbuf = g
       /\ e.out = q.out /\ e.replayed = q.replayed /\ e.rsc = q.rsc /\ e.top = q.top
  BY <1>4, <1>7 DEF QueueRecords, w
<1>11. Slotted(b, w, g)
  <2> SUFFICES ASSUME NEW x \in Full(g) PROVE InWindow(b, w, g[x]) /\ x = g[x].seq % w
    BY DEF Slotted
  <2>1. CASE x = s
    <3>1. p \in b .. b + w - 1
      BY DEF w
    <3> QED
      BY <1>3, <1>6, <2>1, <3>1 DEF InWindow, s
  <2>2. CASE x \in Full(f)
    BY <1>4, <1>6, <2>2 DEF Slotted
  <2> QED
    BY <1>6, <2>1, <2>2
<1>12. p >= b
  BY <1>1
<1>13. Seqs(g) = From(I, b)
  <2>1. \A k : k \in Seqs(g) <=> k \in Seqs(f) \/ k = p
    BY <1>3, <1>6 DEF Seqs
  <2>2. \A k : k \in From(I, b) <=> k \in From(H, b) \/ k = p
    BY <1>12 DEF From
  <2> QED
    BY <1>4, <2>1, <2>2
<1>14. Below(I, b) = Below(H, b)
  BY <1>1, <1>12 DEF Below
<1>15. Fresh(b, e)
  BY <1>4, <1>10 DEF Fresh
<1>16. Rel(I, b, e)
  BY <1>4, <1>6, <1>9, <1>10, <1>11, <1>13, <1>14, <1>15 DEF Rel
<1> QED
  BY <1>5, <1>10, <1>16 DEF e, s, r, w

-----------------------------------------------------------------------------
(***************************************************************************)
(* Wrapped and unwrapped numbers, and the invariant of the states between the*)
(* operations.                                                              *)
(***************************************************************************)

\* SEQ_DISTANCE from the wrapped number h of b to that of n is n - b, or that
\* and one turn.
LEMMA Distance ==
  ASSUME NEW h \in 0 .. Limit - 1, NEW b \in Int, NEW n \in Int, Cong(h, b, Limit)
  PROVE  /\ SeqDistance(h, n % Limit) \in 0 .. Limit - 1
         /\ Cong(SeqDistance(h, n % Limit), n - b, Limit)
<1> DEFINE m == n % Limit
           x == m - h + Limit
           d == SeqDistance(h, m)
<1>1. Limit \in Int /\ Limit > 0 /\ h \in Int
  BY Constants
<1>2. m \in 0 .. Limit - 1 /\ Cong(m, n, Limit)
  BY <1>1, ModFacts
<1>3. m \in Int /\ x \in Int /\ n - b \in Int /\ m - h \in Int
  BY <1>1, <1>2
<1>4. d = x % Limit
  BY DEF SeqDistance
<1> HIDE DEF m, d
<1>5. Cong(m - h, n - b, Limit)
  BY <1>1, <1>2, <1>3, CongSum
<1>6. Cong(x, m - h, Limit)
  BY <1>1, <1>3, CongSelf
<1>7. Cong(x, n - b, Limit)
  BY <1>1, <1>3, <1>5, <1>6, CongTrans
<1> HIDE DEF x
<1>8. d \in 0 .. Limit - 1 /\ Cong(d, x, Limit)
  BY <1>1, <1>3, <1>4, ModFacts
<1>9. Cong(d, n - b, Limit)
  BY <1>1, <1>3, <1>7, <1>8, CongTrans
<1> QED
  BY <1>8, <1>9 DEF d, m

\* The distance to a number ahead.
LEMMA DistanceAhead ==
  ASSUME NEW h \in 0 .. Limit - 1, NEW b \in Int, NEW n \in Int, Cong(h, b, Limit),
         n - b >= 0, n - b < Limit
  PROVE  SeqDistance(h, n % Limit) = n - b
<1> DEFINE d == SeqDistance(h, n % Limit)
<1>1. d \in 0 .. Limit - 1 /\ Cong(d, n - b, Limit)
  BY Distance
<1>2. Limit \in Int /\ Limit > 0 /\ n - b \in Int
  BY Constants
<1> HIDE DEF d
<1>3. d = n - b
  BY <1>1, <1>2, CongNear
<1> QED
  BY <1>3 DEF d

\* The distance to a number of the recent past is more than half of the numbers.
LEMMA DistanceBehind ==
  ASSUME NEW h \in 0 .. Limit - 1, NEW b \in Int, NEW n \in Int, Cong(h, b, Limit),
         b - n > 0, b - n <= Age
  PROVE  TooOld(SeqDistance(h, n % Limit))
<1> DEFINE d == SeqDistance(h, n % Limit)
           x == (n - b) + Limit
<1>1. d \in 0 .. Limit - 1 /\ Cong(d, n - b, Limit)
  BY Distance
<1>2. Limit \in Int /\ Limit > 0 /\ n - b \in Int /\ x \in Int /\ d \in Int
  BY <1>1, Constants
<1> HIDE DEF d
<1>3. Cong(x, n - b, Limit)
  BY <1>2, CongSelf
<1>4. Cong(n - b, x, Limit)
  BY <1>2, <1>3, CongSym
<1>5. Cong(d, x, Limit)
  BY <1>1, <1>2, <1>4, CongTrans
<1>6. x > Limit \div 2 /\ x < Limit
  BY Constants
<1>7. d = x
  <2> HIDE DEF x
  <2>1. d - x < Limit /\ x - d < Limit
    BY <1>1, <1>2, <1>6, Constants
  <2> QED
    BY <1>2, <1>5, <2>1, CongNear
<1> QED
  BY <1>6, <1>7 DEF TooOld, d

\* The start of the window, from the head and the number the peer uses next.
LEMMA StartIs ==
  ASSUME NEW h \in 0 .. Limit - 1, NEW n \in Int, NEW b \in Int, Cong(h, b, Limit),
         b <= n, n - b <= Limit \div 2 + 1
  PROVE  n - SeqDistance(h, n % Limit) = b
<1>1. n - b >= 0 /\ n - b < Limit
  BY Constants
<1>2. SeqDistance(h, n % Limit) = n - b
  BY <1>1, DistanceAhead
<1> QED
  BY <1>2

\* A queue in use, with its window at b, between two operations: b is missing, and
\* the peer is at most half of the numbers and one ahead.
At(b) ==
  /\ Cong(head, b, Limit)
  /\ b <= sent
  /\ sent - b <= Limit \div 2 + 1
  /\ Slotted(b, window_size, nbuf)
  /\ b \notin Held
  /\ \A k \in Held : k < sent

\* What the type invariant says while every window has fitted.
Typed ==
  /\ used \in BOOLEAN /\ window_size \in FitWindows
  /\ head \in 0 .. Limit - 1 /\ count \in 0 .. window_size
  /\ nbuf \in [Slots -> Packets \cup {NULL}]
  /\ rsc \in 0 .. MaxSent + 1 /\ cipher \in BOOLEAN
  /\ sent \in 0 .. MaxSent /\ keySeq \in 0 .. MaxSent
  /\ out \in Seq(0 .. MaxSent) /\ replayed \subseteq 0 .. MaxSent
  /\ top \in 0 .. MaxSent + 1 /\ mixed \in BOOLEAN

\* The invariant while every window has fitted.
Inv ==
  /\ Typed
  /\ count = Cardinality(Full(nbuf))
  /\ mixed \/ rsc = 0 \/ rsc + keySeq <= top
  /\ ~used => \A s \in Slots : nbuf[s] = NULL
  /\ used => \E b \in Nat : At(b)

\* The part of the type invariant the loops need.
LEMMA TypeEnv == Typed => Env
BY DEF Typed, Env

\* The numbers that wait.
LEMMA HeldIsSeqs == Held = Seqs(nbuf)
BY DEF Held, Seqs, Full

\* They are numbers the peer uses.
LEMMA HeldType == 
  ASSUME Typed
  PROVE  Held \in SUBSET Nat /\ \A k \in Held : k <= MaxSent
<1>1. \A s \in Full(nbuf) : nbuf[s] \in Packets
  BY DEF Typed, Full
<1>2. \A r \in Packets : r.seq \in Nat /\ r.seq <= MaxSent
  BY Constants DEF Packets
<1> QED
  BY <1>1, <1>2, HeldIsSeqs DEF Seqs

\* The queue as a record, field by field.
LEMMA QueueFields ==
  ASSUME Typed
  PROVE  /\ Queue \in QueueRecords
         /\ Queue.head = head /\ Queue.win = window_size /\ Queue.count = count
         /\ Queue.nbuf = nbuf /\ Queue.rsc = rsc /\ Queue.out = <<>>
         /\ Queue.replayed = {} /\ Queue.top = top
<1>1. head \in Nat /\ count \in Int /\ <<>> \in Seq(0 .. MaxSent)
  <2>1. head \in 0 .. Limit - 1 /\ count \in 0 .. window_size
    BY DEF Typed
  <2>2. head \in Nat /\ count \in Int
    BY <2>1
  <2> QED
    BY <2>2
<1>2. window_size \in FitWindows /\ nbuf \in [Slots -> Packets \cup {NULL}]
      /\ rsc \in 0 .. MaxSent + 1 /\ top \in 0 .. MaxSent + 1
  BY DEF Typed
<1> QED
  BY <1>1, <1>2 DEF Queue, QueueRecords

\* Nothing is in order.
LEMMA NothingInOrder == Abstract!InOrder(<<>>, {})
BY DEF Abstract!InOrder

\* The start of the window in a state.
LEMMA InvWindow ==
  ASSUME Inv, used, NEW b \in Nat, At(b)
  PROVE  WindowStart = b
<1>1. head \in 0 .. Limit - 1 /\ sent \in Int
  BY Constants DEF Inv, Typed
<1>2. Cong(head, b, Limit) /\ b <= sent /\ sent - b <= Limit \div 2 + 1
  BY DEF At
<1> QED
  BY <1>1, <1>2, StartIs DEF WindowStart

\* A queue in use, seen at the start of an operation.
LEMMA QueueRel ==
  ASSUME Inv, used, NEW b \in Nat, At(b)
  PROVE  Rel(Held, b, Queue)
<1>1. Typed
  BY DEF Inv
<1>2. /\ Queue \in QueueRecords
      /\ Queue.head = head /\ Queue.win = window_size /\ Queue.count = count
      /\ Queue.nbuf = nbuf /\ Queue.rsc = rsc /\ Queue.out = <<>>
      /\ Queue.replayed = {} /\ Queue.top = top
  BY <1>1, QueueFields
<1>3. Held \in SUBSET Nat
  BY <1>1, HeldType
<1>4. Slotted(b, window_size, nbuf) /\ Cong(head, b, Limit)
  BY DEF At
<1>5. \A k \in Held : k >= b
  <2>1. \A s \in Full(nbuf) : nbuf[s].seq \in b .. b + window_size - 1
    BY <1>4 DEF Slotted, InWindow
  <2>2. \A s \in Full(nbuf) : nbuf[s].seq >= b
    BY <2>1
  <2> QED
    BY <2>2, HeldIsSeqs DEF Seqs
<1>6. From(Held, b) = Seqs(nbuf) /\ Below(Held, b) = {}
  <2>1. \A k \in Held : ~ (k < b)
    BY <1>3, <1>5
  <2> QED
    BY <1>5, <2>1, HeldIsSeqs DEF From, Below
<1>7. Fresh(b, Queue)
  <2>1. top \in Int /\ top <= top
    BY <1>1, Constants DEF Typed
  <2>2. mixed \/ rsc = 0 \/ rsc + keySeq <= top
    BY DEF Inv
  <2> QED
    BY <1>2, <2>1, <2>2 DEF Fresh
<1>8. count = Cardinality(Full(nbuf))
  BY DEF Inv
<1> QED
  BY <1>2, <1>4, <1>6, <1>7, <1>8, NothingInOrder DEF Rel

\* No more packets wait than the window has places.
LEMMA CountBound ==
  ASSUME NEW b \in Nat, NEW w \in FitWindows, NEW f, Slotted(b, w, f)
  PROVE  Cardinality(Full(f)) \in 0 .. w
<1>1. w \in Int /\ w > 0
  BY WindowFacts
<1>2. \A s \in Full(f) : s \in 0 .. w - 1
  <2> TAKE s \in Full(f)
  <2>1. f[s].seq \in b .. b + w - 1 /\ s = f[s].seq % w
    BY DEF Slotted, InWindow
  <2>2. f[s].seq \in Int
    BY <1>1, <2>1
  <2> QED
    BY <1>1, <2>1, <2>2, ModFacts
<1>3. IsFiniteSet(0 .. w - 1) /\ Cardinality(0 .. w - 1) = w
  <2>1. 0 \in Int /\ w - 1 \in Int /\ (w - 1) - 0 + 1 = w /\ ~ (0 > w - 1)
    BY <1>1
  <2>2. IsFiniteSet(0 .. w - 1) /\ Cardinality(0 .. w - 1) = IF 0 > w - 1 THEN 0 ELSE (w - 1) - 0 + 1
    BY <2>1, FS_Interval
  <2> QED
    BY <2>1, <2>2
<1>4. Full(f) \subseteq 0 .. w - 1
  BY <1>2
<1>5. Cardinality(Full(f)) <= Cardinality(0 .. w - 1)
  BY <1>3, <1>4, FS_Subset
<1>6. Cardinality(Full(f)) \in Nat
  BY FullFinite
<1> QED
  BY <1>1, <1>3, <1>5, <1>6

\* What holds after an operation that left the queue in use.
Moved(H, c) ==
  /\ Inv'
  /\ WindowStart' = c
  /\ Held' = From(H, c)
  /\ Abstract!InOrder(out', Below(H, c))
  /\ \A p \in replayed' : p < top \/ mixed

\* The result of a loop over the window is written back.
LEMMA StoreMoved ==
  ASSUME Typed, used, NEW H \in SUBSET Nat, NEW c \in Nat, NEW q,
         Rel(H, c, q), q.win = window_size, q.head \in 0 .. Limit - 1,
         c \notin H, c <= sent, sent - c <= Limit \div 2 + 1, \A k \in H : k < sent,
         Store(q), UNCHANGED <<used, window_size, envVars>>
  PROVE  Moved(H, c)
<1>1. /\ head' = q.head /\ count' = q.count /\ nbuf' = q.nbuf /\ rsc' = q.rsc
      /\ out' = q.out /\ replayed' = q.replayed /\ top' = q.top
  BY DEF Store
<1>2. /\ used' = used /\ window_size' = window_size /\ cipher' = cipher
      /\ sent' = sent /\ keySeq' = keySeq /\ mixed' = mixed
  BY DEF envVars
<1>3. /\ q \in QueueRecords /\ Slotted(c, q.win, q.nbuf) /\ q.count = Cardinality(Full(q.nbuf))
      /\ Seqs(q.nbuf) = From(H, c) /\ Abstract!InOrder(q.out, Below(H, c))
      /\ Fresh(c, q) /\ Cong(q.head, c, Limit)
  BY DEF Rel
<1>4. /\ q.nbuf \in [Slots -> Packets \cup {NULL}] /\ q.rsc \in 0 .. MaxSent + 1
      /\ q.out \in Seq(0 .. MaxSent) /\ q.replayed \subseteq 0 .. MaxSent
      /\ q.top \in 0 .. MaxSent + 1
  BY <1>3 DEF QueueRecords
<1>5. window_size \in FitWindows
  BY DEF Typed
<1>6. q.count \in 0 .. window_size
  BY <1>3, <1>5, CountBound
<1>7. Typed'
  BY <1>1, <1>2, <1>4, <1>6 DEF Typed
<1>8. count' = Cardinality(Full(nbuf'))
  BY <1>1, <1>3
<1>9. (mixed \/ rsc = 0 \/ rsc + keySeq <= top)'
  BY <1>1, <1>2, <1>3 DEF Fresh
<1>10. Held' = From(H, c)
  <2>1. Held' = Seqs(nbuf')
    BY DEF Held, Seqs, Full
  <2> QED
    BY <2>1, <1>1, <1>3
<1>11. At(c)'
  <2>1. Slotted(c, window_size, nbuf)'
    <3>1. Full(nbuf)' = Full(q.nbuf)
      BY <1>1 DEF Full
    <3> QED
      BY <1>1, <1>2, <1>3, <3>1 DEF Slotted, InWindow
  <2>2. c \notin Held' /\ \A k \in Held' : k < sent'
    BY <1>2, <1>10 DEF From
  <2>3. Cong(head', c, Limit) /\ c <= sent' /\ sent' - c <= Limit \div 2 + 1
    BY <1>1, <1>2, <1>3
  <2> QED
    BY <2>1, <2>2, <2>3 DEF At
<1>12. Inv'
  <2>1. (count = Cardinality(Full(nbuf)))'
    BY <1>8
  <2>2. (~used => \A s \in Slots : nbuf[s] = NULL)'
    BY <1>2
  <2> QED
    BY <1>7, <1>9, <1>11, <2>1, <2>2 DEF Inv
<1>13. WindowStart' = c
  <2>1. head' \in 0 .. Limit - 1 /\ sent' \in Int /\ c \in Int /\ Cong(head', c, Limit)
        /\ c <= sent' /\ sent' - c <= Limit \div 2 + 1
    BY <1>1, <1>2, <1>3, Constants DEF Typed
  <2> QED
    BY <2>1, StartIs DEF WindowStart
<1>14. \A p \in replayed' : p < top \/ mixed
  BY <1>1, <1>3 DEF Fresh
<1> QED
  BY <1>1, <1>3, <1>10, <1>12, <1>13, <1>14 DEF Moved

-----------------------------------------------------------------------------
(***************************************************************************)
(* Every operation is right.                                                *)
(***************************************************************************)

\* What every step does: it keeps the invariant, takes no packet that follows
\* all others for a replay unless keys are mixed, and is a step of RodSpec.
Right ==
  /\ Inv' \/ unfit'
  /\ \A p \in replayed' : p < top \/ mixed
  /\ Abstract!Next

\* A step that releases nothing and moves nothing.
LEMMA SilentRight ==
  ASSUME Inv', out' = <<>>, replayed' = {}, used' = used, window_size' = window_size,
         Held' = Held, used => WindowStart' = WindowStart
  PROVE  Right
<1>1. Abstract!Silent
  BY DEF Abstract!Silent
<1>2. Abstract!Next
  BY <1>1 DEF Abstract!Next
<1>3. \A p \in replayed' : p < top \/ mixed
  OBVIOUS
<1> QED
  BY <1>2, <1>3 DEF Right

\* The queue is left as it is.
LEMMA SameRight ==
  ASSUME Inv, head' = head, count' = count, nbuf' = nbuf, rsc' = rsc,
         out' = <<>>, replayed' = {}, top' = top,
         used' = used, window_size' = window_size, cipher' = cipher,
         sent' = sent, keySeq' = keySeq, mixed' = mixed
  PROVE  Right
<1>0. Typed
  BY DEF Inv
<1>1. /\ head' = head /\ count' = count /\ nbuf' = nbuf /\ rsc' = rsc
      /\ out' = <<>> /\ replayed' = {} /\ top' = top
  OBVIOUS
<1>2. /\ used' = used /\ window_size' = window_size /\ cipher' = cipher
      /\ sent' = sent /\ keySeq' = keySeq /\ mixed' = mixed
  OBVIOUS
<1>3. Held' = Held /\ WindowStart' = WindowStart
  BY <1>1, <1>2 DEF Held, WindowStart
<1>4. Typed'
  <2>1. out' \in Seq(0 .. MaxSent) /\ replayed' \subseteq 0 .. MaxSent
    BY <1>1
  <2> QED
    BY <1>0, <1>1, <1>2, <2>1 DEF Typed
<1>5. (used => \E b \in Nat : At(b))'
  <2> SUFFICES ASSUME used PROVE \E b \in Nat : At(b)'
    BY <1>2
  <2>1. PICK b \in Nat : At(b)
    BY DEF Inv
  <2>2. Slotted(b, window_size, nbuf)'
    BY <1>1, <1>2, <2>1 DEF At, Slotted, InWindow, Full
  <2>3. At(b)'
    BY <1>1, <1>2, <1>3, <2>1, <2>2 DEF At
  <2> QED
    BY <2>3
<1>6. Inv'
  <2>1. (count = Cardinality(Full(nbuf)))'
    BY <1>1 DEF Inv, Full
  <2>2. (mixed \/ rsc = 0 \/ rsc + keySeq <= top)'
    BY <1>1, <1>2 DEF Inv
  <2>3. (~used => \A s \in Slots : nbuf[s] = NULL)'
    BY <1>1, <1>2 DEF Inv
  <2> QED
    BY <1>4, <1>5, <2>1, <2>2, <2>3 DEF Inv
<1> QED
  BY <1>1, <1>2, <1>3, <1>6, SilentRight

\* An operation that does nothing to the queue.
LEMMA StoreSame ==
  ASSUME Inv, Store(Queue), UNCHANGED <<used, window_size, envVars>>
  PROVE  Right
<1>1. /\ head' = head /\ count' = count /\ nbuf' = nbuf /\ rsc' = rsc
      /\ out' = <<>> /\ replayed' = {} /\ top' = top
  BY DEF Store, Queue
<1>2. /\ used' = used /\ window_size' = window_size /\ cipher' = cipher
      /\ sent' = sent /\ keySeq' = keySeq /\ mixed' = mixed
  BY DEF envVars
<1> QED
  BY <1>1, <1>2, SameRight

\* The first number that is missing is the one RodSpec chooses.
LEMMA AdvanceIs ==
  ASSUME NEW S \in SUBSET Nat, NEW n \in Nat, NEW c \in Nat, Missing(S, n, c), c <= MaxSent + 1
  PROVE  (CHOOSE m \in n .. MaxSent + 1 : /\ m \notin S
                                          /\ \A k \in n .. m - 1 : k \in S) = c
<1> DEFINE P(m) == m \notin S /\ \A k \in n .. m - 1 : k \in S
<1>1. c \in n .. MaxSent + 1 /\ P(c)
  BY Constants DEF Missing
<1>2. ASSUME NEW m \in n .. MaxSent + 1, P(m) PROVE m = c
  <2>1. m \in Int /\ m >= n /\ c >= n
    BY <1>1, Constants
  <2>2. CASE m < c
    <3>1. m \in n .. c - 1
      BY <2>1, <2>2
    <3> QED
      BY <1>1, <1>2, <3>1
  <2>3. CASE m > c
    <3>1. c \in n .. m - 1
      BY <2>1, <2>3
    <3> QED
      BY <1>1, <1>2, <3>1
  <2> QED
    BY <2>1, <2>2, <2>3
<1> DEFINE x == CHOOSE m \in n .. MaxSent + 1 : P(m)
<1>3. x \in n .. MaxSent + 1 /\ P(x)
  BY <1>1
<1>4. x = c
  <2> HIDE DEF x
  <2> QED
    BY <1>2, <1>3
<1> QED
  BY <1>4

\* The window of RodSpec advances as the queue did.
LEMMA AdvanceRight ==
  ASSUME used, used' = used, NEW S \in SUBSET Nat, NEW n \in Nat, NEW c \in Nat, Missing(S, n, c),
         c <= MaxSent + 1, Moved(S, c)
  PROVE  Abstract!Advance(n, S)
<1>1. (CHOOSE m \in n .. MaxSent + 1 : /\ m \notin S
                                       /\ \A k \in n .. m - 1 : k \in S) = c
  BY AdvanceIs
<1>2. WindowStart' = c /\ Held' = From(S, c) /\ Abstract!InOrder(out', Below(S, c))
  BY DEF Moved
<1>3. (IF used THEN WindowStart ELSE 0)' = c
  BY <1>2
<1>4. Held' = {k \in S : k >= c} /\ Abstract!InOrder(out', {k \in S : k < c})
  BY <1>2 DEF From, Below
<1> QED
  BY <1>1, <1>3, <1>4 DEF Abstract!Advance

\* The numbers the peer may use.
LEMMA NumbersFacts ==
  ASSUME Typed, NEW p \in Numbers
  PROVE  p \in Nat /\ p <= MaxSent /\ p \in 0 .. MaxSent /\ p <= sent /\ sent - p <= Age
<1>1. sent \in Int /\ sent <= MaxSent /\ sent >= 0
  BY Constants DEF Typed
<1>2. p \in sent - Age .. sent /\ p >= FirstSeq
  BY DEF Numbers
<1> QED
  BY <1>1, <1>2, Constants

\* A packet or a BAR of the peer, seen from the start of the window.
LEMMA Seen ==
  ASSUME Inv, used, NEW b \in Nat, At(b), NEW p \in Numbers
  PROVE  /\ p < b => TooOld(SeqDistance(head, p % Limit))
         /\ p >= b => SeqDistance(head, p % Limit) = p - b
<1>1. Typed
  BY DEF Inv
<1>2. p \in Int /\ p <= sent /\ sent - p <= Age
  BY <1>1, NumbersFacts
<1>3. head \in 0 .. Limit - 1 /\ sent \in Int
  BY <1>1, Constants DEF Typed
<1>4. Cong(head, b, Limit) /\ b <= sent /\ sent - b <= Limit \div 2 + 1
  BY DEF At
<1>5. CASE p < b
  <2>1. b - p > 0 /\ b - p <= Age
    BY <1>2, <1>3, <1>4, <1>5, Constants
  <2>2. TooOld(SeqDistance(head, p % Limit))
    BY <1>2, <1>3, <1>4, <2>1, DistanceBehind
  <2> QED
    BY <1>2, <1>5, <2>2
<1>6. CASE p >= b
  <2>1. p - b >= 0 /\ p - b < Limit
    BY <1>2, <1>3, <1>4, <1>6, Constants
  <2>2. SeqDistance(head, p % Limit) = p - b
    BY <1>2, <1>3, <1>4, <2>1, DistanceAhead
  <2> QED
    BY <1>2, <1>6, <2>2
<1> QED
  BY <1>2, <1>5, <1>6

\* Retiring from the start n of a window that holds S.
LEMMA RetireMoved ==
  ASSUME Typed, used, NEW S \in SUBSET Nat, NEW n \in Nat, NEW q, Rel(S, n, q),
         q.win = window_size, n <= sent, sent - n <= Limit \div 2 + 1, \A k \in S : k < sent,
         Store(RetireQueue(q)), UNCHANGED <<used, window_size, envVars>>
  PROVE  /\ Inv'
         /\ \A p \in replayed' : p < top \/ mixed
         /\ Abstract!Advance(n, S)
<1>0. Env
  BY TypeEnv
<1>1. PICK c \in Nat : Missing(S, n, c) /\ Rel(S, c, RetireQueue(q))
  BY <1>0, RetireQueueRel
<1>2. RetireQueue(q).win = window_size /\ RetireQueue(q).head \in 0 .. Limit - 1
  BY <1>0, RetireQueueRel
<1>3. sent \in Int /\ sent <= MaxSent
  BY Constants DEF Typed
<1>4. c \notin S /\ c >= n
  BY <1>1 DEF Missing
<1>5. c <= sent
  <2>1. CASE c = n
    BY <2>1
  <2>2. CASE c # n
    <3>1. c - 1 \in n .. c - 1
      BY <1>4, <2>2
    <3>2. c - 1 \in S
      BY <1>1, <3>1 DEF Missing
    <3> QED
      BY <1>3, <3>2
  <2> QED
    BY <2>1, <2>2
<1>6. sent - c <= Limit \div 2 + 1 /\ c <= MaxSent + 1
  BY <1>3, <1>4, <1>5, Constants
<1>7. Moved(S, c)
  BY <1>1, <1>2, <1>4, <1>5, <1>6, StoreMoved
<1>8. used' = used
  OBVIOUS
<1>9. Abstract!Advance(n, S)
  BY <1>1, <1>6, <1>7, <1>8, AdvanceRight
<1> QED
  BY <1>7, <1>9 DEF Moved

\* mtlk_rod_process_bar.
LEMMA BarRight ==
  ASSUME Inv, NEW s \in Numbers, ProcessBar(s)
  PROVE  Right
<1> DEFINE diff == SeqDistance(head, s % Limit)
<1>0. Typed /\ Env
  BY TypeEnv DEF Inv
<1>1. /\ Store(IF ~used \/ TooOld(diff) THEN Queue ELSE RetireQueue(MoveWindow(Queue, diff)))
      /\ UNCHANGED <<used, window_size, envVars>>
  BY DEF ProcessBar
<1> HIDE DEF diff
<1>2. CASE ~used \/ TooOld(diff)
  BY <1>1, <1>2, StoreSame
<1>3. CASE used /\ ~TooOld(diff)
  <2>1. PICK b \in Nat : At(b)
    BY <1>3 DEF Inv
  <2>2. s \in Nat /\ s <= sent /\ s \in 0 .. MaxSent
    BY <1>0, NumbersFacts
  <2>3. s >= b /\ diff = s - b
    BY <1>3, <2>1, <2>2, Seen DEF diff
  <2>4. diff \in Nat /\ b + diff = s
    BY <2>2, <2>3
  <2>5. Rel(Held, b, Queue) /\ WindowStart = b
    BY <1>3, <2>1, QueueRel, InvWindow
  <2>6. Held \in SUBSET Nat
    BY <1>0, HeldType
  <2> DEFINE q == MoveWindow(Queue, diff)
  <2>7. Rel(Held, s, q) /\ q.win = window_size
    <3>1. Rel(Held, b + diff, q) /\ q.win = Queue.win
      BY <1>0, <2>4, <2>5, <2>6, MoveWindowRel
    <3>2. Queue.win = window_size
      BY <1>0, QueueFields
    <3> QED
      BY <2>4, <3>1, <3>2
  <2>8. Store(RetireQueue(q)) /\ UNCHANGED <<used, window_size, envVars>>
    BY <1>1, <1>3
  <2> HIDE DEF q
  <2>9. \A k \in Held : k < sent
    BY <2>1 DEF At
  <2>10. sent - s <= Limit \div 2 + 1
    <3>1. sent - s <= Age /\ sent \in Int
      BY <1>0, NumbersFacts, Constants DEF Typed
    <3> QED
      BY <2>2, <3>1, Constants
  <2>11. /\ Inv' /\ \A p \in replayed' : p < top \/ mixed
         /\ Abstract!Advance(s, Held)
    BY <1>0, <1>3, <2>2, <2>6, <2>7, <2>8, <2>9, <2>10, RetireMoved
  <2>12. used' = used /\ window_size' = window_size
    BY <1>1
  <2>13. ~ (s < (IF used THEN WindowStart ELSE 0))
    BY <1>3, <2>2, <2>3, <2>5
  <2>14. Abstract!Bar(s)
    BY <1>3, <2>11, <2>12, <2>13 DEF Abstract!Bar
  <2> QED
    BY <2>2, <2>11, <2>14 DEF Right, Abstract!Next
<1> QED
  BY <1>2, <1>3

\* A packet of the present key.
LEMMA ArrivingPacket ==
  ASSUME Typed, NEW p \in Arriving
  PROVE  /\ p \in Numbers /\ p < sent /\ p >= keySeq
         /\ Packet(p) \in Packets /\ Packet(p).seq = p /\ Packet(p).pn = p - keySeq + 1
<1>1. p \in Numbers /\ p < sent /\ p >= keySeq
  BY DEF Arriving
<1>2. p \in 0 .. MaxSent
  BY <1>1, NumbersFacts
<1>3. keySeq \in Int /\ keySeq >= 0
  BY Constants DEF Typed
<1>4. p - keySeq + 1 \in 1 .. MaxSent + 1
  BY <1>1, <1>2, <1>3, Constants
<1> QED
  BY <1>1, <1>2, <1>4 DEF Packet, Packets

\* Without an agreement a packet passes at once.
LEMMA PassRight ==
  ASSUME Inv, ~used, NEW p \in Arriving, ReorderPacket(p)
  PROVE  Right
<1> DEFINE r == Packet(p)
           d == DetectReplayOrSendup(Queue, r)
<1>0. Typed /\ Env
  BY TypeEnv DEF Inv
<1>1. Store(d) /\ UNCHANGED <<used, window_size, envVars>>
  BY DEF ReorderPacket
<1>2. /\ Queue \in QueueRecords
      /\ Queue.head = head /\ Queue.win = window_size /\ Queue.count = count
      /\ Queue.nbuf = nbuf /\ Queue.rsc = rsc /\ Queue.out = <<>>
      /\ Queue.replayed = {} /\ Queue.top = top
  BY <1>0, QueueFields
<1>3. p \in Numbers /\ r \in Packets /\ r.seq = p /\ r.pn = p - keySeq + 1 /\ p >= keySeq
  BY <1>0, ArrivingPacket
<1>4. p \in Nat /\ p \in 0 .. MaxSent
  BY <1>0, <1>3, NumbersFacts
<1> HIDE DEF r, d
<1>5. /\ d \in QueueRecords /\ d.head = head /\ d.count = count /\ d.nbuf = nbuf
      /\ d.out = Append(<<>>, p)
  <2>1. /\ d \in QueueRecords /\ d.head = Queue.head /\ d.count = Queue.count
        /\ d.nbuf = Queue.nbuf /\ d.out = Append(Queue.out, r.seq)
    BY <1>2, <1>3, SendupFields DEF d
  <2> QED
    BY <1>2, <1>3, <2>1
<1>6. Fresh(p + 1, d)
  <2>1. Fresh(p, Queue)
    <3>1. top \in Int /\ top <= top
      BY <1>0, Constants DEF Typed
    <3>2. mixed \/ rsc = 0 \/ rsc + keySeq <= top
      BY DEF Inv
    <3> QED
      BY <1>2, <3>1, <3>2 DEF Fresh
  <2> QED
    BY <1>0, <1>2, <1>3, <1>4, <2>1, SendupFresh DEF d
<1>7. /\ head' = head /\ count' = count /\ nbuf' = nbuf /\ rsc' = d.rsc
      /\ out' = d.out /\ replayed' = d.replayed /\ top' = d.top
  BY <1>1, <1>5 DEF Store
<1>8. /\ used' = used /\ window_size' = window_size /\ cipher' = cipher
      /\ sent' = sent /\ keySeq' = keySeq /\ mixed' = mixed
  BY <1>1 DEF envVars
<1>9. Typed'
  <2>1. /\ d.rsc \in 0 .. MaxSent + 1 /\ d.out \in Seq(0 .. MaxSent)
        /\ d.replayed \subseteq 0 .. MaxSent /\ d.top \in 0 .. MaxSent + 1
    BY <1>5 DEF QueueRecords
  <2> QED
    BY <1>0, <1>7, <1>8, <2>1 DEF Typed
<1>10. Inv'
  <2>1. (count = Cardinality(Full(nbuf)))'
    BY <1>7 DEF Inv, Full
  <2>2. (mixed \/ rsc = 0 \/ rsc + keySeq <= top)'
    BY <1>6, <1>7, <1>8 DEF Fresh
  <2>3. (~used => \A s \in Slots : nbuf[s] = NULL)'
    BY <1>7, <1>8 DEF Inv
  <2>4. (used => \E b \in Nat : At(b))'
    BY <1>8
  <2> QED
    BY <1>9, <2>1, <2>2, <2>3, <2>4 DEF Inv
<1>11. \A x \in replayed' : x < top \/ mixed
  BY <1>6, <1>7 DEF Fresh
<1>12. Abstract!Pass(p)
  <2>1. Held' = Held
    BY <1>7 DEF Held
  <2>2. out' = <<p>>
    BY <1>5, <1>7
  <2> QED
    BY <1>8, <2>1, <2>2 DEF Abstract!Pass
<1> QED
  BY <1>4, <1>10, <1>11, <1>12 DEF Right, Abstract!Next

\* A packet from the start of the window on.
LEMMA ReceiveRight ==
  ASSUME Inv, used, NEW b \in Nat, At(b), NEW p \in Arriving, p >= b, ReorderPacket(p)
  PROVE  Right
<1> DEFINE diff == SeqDistance(head, p % Limit)
           w == window_size
           r == Packet(p)
           n == IF p >= b + w THEN p - w + 1 ELSE b
           m == MakeRoom(Queue, diff)
<1>0. Typed /\ Env
  BY TypeEnv DEF Inv
<1>1. /\ Store(IF TooOld(diff) THEN Queue ELSE Insert(m, r))
      /\ UNCHANGED <<used, window_size, envVars>>
  BY DEF ReorderPacket
<1>2. p \in Numbers /\ p < sent /\ p >= keySeq
  BY <1>0, ArrivingPacket
<1>3. p \in Nat /\ p \in 0 .. MaxSent /\ sent \in Int
  BY <1>0, <1>2, NumbersFacts, Constants DEF Typed
<1>4. diff = p - b
  BY <1>2, Seen
<1>5. w \in FitWindows /\ w \in Nat /\ w >= 1
  BY <1>0, WindowFacts DEF Typed
<1>6. b <= sent /\ sent - b <= Limit \div 2 + 1 /\ \A k \in Held : k < sent
  BY DEF At
<1>7. ~TooOld(diff)
  BY <1>2, <1>3, <1>4, <1>6, Constants DEF TooOld
<1>8. Rel(Held, b, Queue) /\ WindowStart = b /\ Held \in SUBSET Nat /\ Queue.win = w
  BY <1>0, QueueRel, InvWindow, HeldType, QueueFields
<1>9. b \notin Held
  BY DEF At
<1> HIDE DEF diff, r, w
<1>10. n \in Nat /\ n >= b /\ p \in n .. n + w - 1
  BY <1>3, <1>5
<1>11. Rel(Held, n, m) /\ m.win = w
  <2>1. CASE p >= b + w
    <3> DEFINE x == diff - w + 1
    <3>1. diff >= Queue.win /\ x \in Nat /\ b + x = n
      BY <1>3, <1>4, <1>5, <1>8, <2>1
    <3>2. m = MoveWindow(Queue, x)
      BY <1>8, <3>1 DEF MakeRoom
    <3> HIDE DEF m, n, x
    <3>3. Rel(Held, b + x, MoveWindow(Queue, x)) /\ MoveWindow(Queue, x).win = Queue.win
      BY <1>0, <1>8, <3>1, MoveWindowRel
    <3> QED
      BY <1>8, <3>1, <3>2, <3>3
  <2>2. CASE ~ (p >= b + w)
    <3>1. ~ (diff >= Queue.win) /\ n = b
      BY <1>3, <1>4, <1>5, <1>8, <2>2
    <3>2. m = Queue
      BY <3>1 DEF MakeRoom
    <3> QED
      BY <1>8, <3>1, <3>2
  <2> QED
    BY <2>1, <2>2
<1>12. \A k \in Held : k < b + w
  <2>1. \A k \in Held : k >= b => k < b + w
    BY <1>8, HeldInWindow
  <2> QED
    BY <1>5, <1>8, <2>1
<1>13. CASE p \in Held
  <2>1. p < b + w
    BY <1>12, <1>13
  <2>2. n = b /\ m = Queue
    BY <1>3, <1>4, <1>5, <1>8, <2>1 DEF MakeRoom
  <2> HIDE DEF m, n
  <2>3. Queue.nbuf[(p % Limit) % Queue.win] # NULL
    <3>1. p \in b .. b + Queue.win - 1
      BY <1>8, <1>10, <2>2
    <3>2. Rel(Held, b, Queue) /\ Held \in SUBSET Nat /\ p \in Nat
      BY <1>3, <1>8
    <3>3. (p % Limit) % Queue.win = p % Queue.win
      BY <3>1, <3>2, SlotTaken
    <3>4. Queue.nbuf[p % Queue.win] # NULL <=> p \in Held
      BY <3>1, <3>2, SlotTaken
    <3> QED
      BY <1>13, <3>3, <3>4
  <2>4. r.seq = p
    BY DEF r, Packet
  <2>5. Insert(m, r) = Queue
    BY <2>2, <2>3, <2>4 DEF Insert
  <2> QED
    BY <1>1, <1>7, <2>5, StoreSame
<1>14. CASE p \notin Held
  <2> DEFINE e == Filled(m, p % w, r)
             S == Held \cup {p}
  <2> HIDE DEF m, n
  <2>1. Insert(m, r) = RetireQueue(e) /\ Rel(S, n, e) /\ e.win = w
    <3>1. p \in n .. n + m.win - 1
      BY <1>10, <1>11
    <3>2. /\ Insert(m, Packet(p)) = RetireQueue(Filled(m, p % m.win, Packet(p)))
          /\ Rel(Held \cup {p}, n, Filled(m, p % m.win, Packet(p)))
          /\ Filled(m, p % m.win, Packet(p)).win = m.win
      BY <1>0, <1>2, <1>3, <1>8, <1>10, <1>11, <1>14, <3>1, InsertRel
    <3> QED
      BY <1>11, <3>2 DEF r
  <2>2. Store(RetireQueue(e))
    BY <1>1, <1>7, <2>1
  <2> HIDE DEF e
  <2>3. S \in SUBSET Nat /\ \A k \in S : k < sent
    BY <1>2, <1>3, <1>6, <1>8
  <2>4. n <= sent /\ sent - n <= Limit \div 2 + 1
    BY <1>2, <1>3, <1>5, <1>6, <1>10, Constants
  <2> HIDE DEF S
  <2>5. e.win = window_size /\ UNCHANGED <<used, window_size, envVars>>
    BY <1>1, <2>1 DEF w
  <2>6. /\ Inv' /\ \A x \in replayed' : x < top \/ mixed
        /\ Abstract!Advance(n, S)
    BY <1>0, <1>10, <2>1, <2>2, <2>3, <2>4, <2>5, RetireMoved
  <2>7. used' = used /\ window_size' = window_size
    BY <1>1
  <2>8. (IF used THEN WindowStart ELSE 0) = b /\ ~ (p < b)
    BY <1>3, <1>8
  <2>9. n = IF p >= (IF used THEN WindowStart ELSE 0) + window_size
            THEN p - window_size + 1 ELSE (IF used THEN WindowStart ELSE 0)
    BY <2>8 DEF n, w
  <2>10. Abstract!Receive(p)
    BY <2>6, <2>7, <2>8, <2>9 DEF Abstract!Receive, S
  <2> QED
    BY <1>3, <2>6, <2>10 DEF Right, Abstract!Next
<1> QED
  BY <1>13, <1>14

\* mtlk_reorder_packet.
LEMMA ReorderRight ==
  ASSUME Inv, NEW p \in Arriving, ReorderPacket(p)
  PROVE  Right
<1>0. Typed
  BY DEF Inv
<1>1. CASE ~used
  BY <1>1, PassRight
<1>2. CASE used
  <2>1. PICK b \in Nat : At(b)
    BY <1>2 DEF Inv
  <2>2. p \in Numbers /\ p \in Nat
    BY <1>0, ArrivingPacket, NumbersFacts
  <2>3. CASE p < b
    <3>1. TooOld(SeqDistance(head, p % Limit))
      BY <1>2, <2>1, <2>2, <2>3, Seen
    <3>2. Store(Queue) /\ UNCHANGED <<used, window_size, envVars>>
      BY <1>2, <3>1 DEF ReorderPacket
    <3> QED
      BY <3>2, StoreSame
  <2>4. CASE p >= b
    BY <1>2, <2>1, <2>4, ReceiveRight
  <2> QED
    BY <2>2, <2>3, <2>4
<1> QED
  BY <1>1, <1>2

\* A queue in use is emptied and stays in use.
LEMMA FlushRight ==
  ASSUME Inv, used, Store(FlushQueue(Queue)), UNCHANGED <<used, window_size, envVars>>
  PROVE  Right
<1>0. Typed /\ Env
  BY TypeEnv DEF Inv
<1>1. PICK b \in Nat : At(b)
  BY DEF Inv
<1>2. Rel(Held, b, Queue) /\ WindowStart = b /\ Held \in SUBSET Nat
  BY <1>0, <1>1, QueueRel, InvWindow, HeldType
<1>3. Queue.head \in 0 .. Limit - 1 /\ Queue.win = window_size
  BY <1>0, QueueFields DEF Typed
<1> DEFINE q == FlushQueue(Queue)
<1>4. PICK c \in Nat : Flushed(Held, b, c) /\ Rel(Held, c, q)
  BY <1>0, <1>2, <1>3, FlushQueueRel
<1>5. q.win = window_size /\ q.head \in 0 .. Limit - 1
  BY <1>0, <1>2, <1>3, FlushQueueRel
<1>6. Store(q)
  OBVIOUS
<1> HIDE DEF q
<1>7. b <= sent /\ sent - b <= Limit \div 2 + 1 /\ \A k \in Held : k < sent
  BY <1>1 DEF At
<1>8. sent \in Int
  BY <1>0, Constants DEF Typed
<1>9. /\ c >= b /\ (c = b \/ (c - 1 >= b /\ c - 1 \in Held)) /\ From(Held, c) = {}
  BY <1>4 DEF Flushed
<1>10. \A k \in Held : k \in Nat /\ k < c
  BY <1>2, <1>9 DEF From
<1>11. c \notin Held
  BY <1>10
<1>12. c <= sent /\ sent - c <= Limit \div 2 + 1
  BY <1>7, <1>8, <1>9, Constants
<1>13. Moved(Held, c)
  BY <1>0, <1>2, <1>4, <1>5, <1>6, <1>7, <1>11, <1>12, StoreMoved
<1>14. /\ Inv' /\ WindowStart' = c /\ Held' = {}
       /\ Abstract!InOrder(out', Held) /\ \A p \in replayed' : p < top \/ mixed
  <2>1. Below(Held, c) = Held
    BY <1>10 DEF Below
  <2> QED
    BY <1>9, <1>13, <2>1 DEF Moved
<1>15. used' = used /\ window_size' = window_size
  OBVIOUS
<1>16. CASE c = b
  <2>1. Held = {}
    <3>1. \A k \in Held : k >= b
      <4>1. Seqs(nbuf) = From(Held, b)
        BY <1>0, <1>2, QueueFields DEF Rel
      <4> QED
        BY <4>1, HeldIsSeqs DEF From
    <3> QED
      BY <1>10, <1>16, <3>1
  <2>2. Abstract!Silent
    <3>1. out' = <<>>
      BY <1>14, <2>1 DEF Abstract!InOrder
    <3> QED
      BY <1>2, <1>14, <1>15, <1>16, <2>1, <3>1 DEF Abstract!Silent
  <2> QED
    BY <1>14, <2>2 DEF Right, Abstract!Next
<1>17. CASE c # b
  <2>1. c - 1 \in Held
    BY <1>9, <1>17
  <2>2. \A k \in Held : k <= c - 1
    BY <1>10
  <2> DEFINE x == CHOOSE m \in Held : \A k \in Held : k <= m
  <2>3. x \in Held /\ \A k \in Held : k <= x
    BY <2>1, <2>2
  <2> HIDE DEF x
  <2>4. x = c - 1
    BY <1>10, <2>1, <2>2, <2>3
  <2>5. (IF used THEN WindowStart ELSE 0)' = 1 + x
    BY <1>14, <1>15, <2>4
  <2>6. Abstract!Flush
    BY <1>14, <1>15, <2>1, <2>5 DEF Abstract!Flush, Abstract!Release, x
  <2> QED
    BY <1>14, <2>6 DEF Right, Abstract!Next
<1> QED
  BY <1>16, <1>17

\* What is left of a queue that is about to be opened or closed.
Emptied(q) ==
  /\ q \in QueueRecords
  /\ q.count = 0
  /\ \A s \in Slots : q.nbuf[s] = NULL
  /\ q.head \in 0 .. Limit - 1
  /\ Abstract!InOrder(q.out, Held)
  /\ \A p \in q.replayed : p < top \/ mixed
  /\ mixed \/ q.rsc = 0 \/ q.rsc + keySeq <= q.top

\* A queue is empty before it is opened.
LEMMA FlushIfUsedEmpties ==
  ASSUME Inv
  PROVE  Emptied(FlushIfUsed)
<1>0. Typed /\ Env
  BY TypeEnv DEF Inv
<1>1. /\ Queue \in QueueRecords /\ Queue.head = head /\ Queue.count = count
      /\ Queue.nbuf = nbuf /\ Queue.rsc = rsc /\ Queue.out = <<>>
      /\ Queue.replayed = {} /\ Queue.top = top
  BY <1>0, QueueFields
<1>2. head \in 0 .. Limit - 1
  BY <1>0 DEF Typed
<1>3. CASE ~used
  <2>1. FlushIfUsed = Queue
    BY <1>3 DEF FlushIfUsed
  <2>2. \A s \in Slots : nbuf[s] = NULL
    BY <1>3 DEF Inv
  <2>3. Full(nbuf) = {}
    BY <2>2 DEF Full
  <2>4. Held = {}
    BY <2>3, HeldIsSeqs DEF Seqs
  <2>5. count = 0
    BY <2>3, FullFinite DEF Inv
  <2>6. mixed \/ rsc = 0 \/ rsc + keySeq <= top
    BY DEF Inv
  <2> QED
    BY <1>1, <1>2, <2>1, <2>2, <2>4, <2>5, <2>6, NothingInOrder DEF Emptied
<1>4. CASE used
  <2> DEFINE q == FlushQueue(Queue)
  <2>0. FlushIfUsed = q
    BY <1>4 DEF FlushIfUsed
  <2>1. PICK b \in Nat : At(b)
    BY <1>4 DEF Inv
  <2>2. Rel(Held, b, Queue) /\ Held \in SUBSET Nat
    BY <1>0, <1>4, <2>1, QueueRel, HeldType
  <2>3. Queue.head \in 0 .. Limit - 1
    BY <1>1, <1>2
  <2>4. PICK c \in Nat : Flushed(Held, b, c) /\ Rel(Held, c, q)
    BY <1>0, <2>2, <2>3, FlushQueueRel
  <2>5. q.count = 0 /\ q.head \in 0 .. Limit - 1 /\ \A s \in Slots : q.nbuf[s] = NULL
    BY <1>0, <2>2, <2>3, FlushQueueRel
  <2> HIDE DEF q
  <2>6. Below(Held, c) = Held
    <3>1. From(Held, c) = {}
      BY <2>4 DEF Flushed
    <3>2. \A k \in Held : k < c
      BY <2>2, <3>1 DEF From
    <3> QED
      BY <3>2 DEF Below
  <2>7. q \in QueueRecords /\ Abstract!InOrder(q.out, Held) /\ Fresh(c, q)
    BY <2>4, <2>6 DEF Rel
  <2> QED
    BY <2>0, <2>5, <2>7 DEF Emptied, Fresh
<1> QED
  BY <1>3, <1>4

\* An empty queue is written back: what waited has left.
LEMMA EmptiedOut ==
  ASSUME NEW q, Emptied(q), nbuf' = q.nbuf, out' = q.out, replayed' = q.replayed
  PROVE  /\ Held' = {}
         /\ Abstract!InOrder(out', Held)
         /\ \A p \in replayed' : p < top \/ mixed
<1>1. \A s \in Slots : nbuf'[s] = NULL
  BY DEF Emptied
<1>2. Held' = {}
  BY <1>1 DEF Held
<1> QED
  BY <1>2 DEF Emptied

\* The queue is opened or closed with a window that fits.
LEMMA StoreEmptied ==
  ASSUME Typed, NEW q, Emptied(q), nbuf' = q.nbuf, count' = 0, rsc' = q.rsc, out' = q.out,
         replayed' = q.replayed, top' = q.top, head' \in 0 .. Limit - 1,
         window_size' \in FitWindows, used' \in BOOLEAN, UNCHANGED envVars,
         used' => \E b \in Nat : Cong(head', b, Limit) /\ b <= sent /\ sent - b <= Limit \div 2 + 1
  PROVE  Inv'
<1>1. cipher' = cipher /\ sent' = sent /\ keySeq' = keySeq /\ mixed' = mixed
  BY DEF envVars
<1>2. \A s \in Slots : nbuf'[s] = NULL
  BY DEF Emptied
<1>3. Full(nbuf') = {} /\ Full(nbuf)' = {}
  BY <1>2 DEF Full
<1>4. Held' = {}
  BY <1>2 DEF Held
<1>5. Typed'
  <2>1. /\ q.rsc \in 0 .. MaxSent + 1 /\ q.out \in Seq(0 .. MaxSent)
        /\ q.replayed \subseteq 0 .. MaxSent /\ q.top \in 0 .. MaxSent + 1
        /\ q.nbuf \in [Slots -> Packets \cup {NULL}]
    BY DEF Emptied, QueueRecords
  <2>2. window_size' \in Nat
    BY WindowFacts
  <2>3. 0 \in 0 .. window_size'
    BY <2>2, Constants
  <2> QED
    BY <1>1, <2>1, <2>3 DEF Typed
<1>6. (used => \E b \in Nat : At(b))'
  <2> SUFFICES ASSUME used' PROVE \E b \in Nat : At(b)'
    OBVIOUS
  <2>1. PICK b \in Nat : Cong(head', b, Limit) /\ b <= sent /\ sent - b <= Limit \div 2 + 1
    OBVIOUS
  <2>2. Slotted(b, window_size, nbuf)'
    BY <1>3 DEF Slotted
  <2>3. At(b)'
    BY <1>1, <1>4, <2>1, <2>2 DEF At
  <2> QED
    BY <2>3
<1>7. (count = Cardinality(Full(nbuf)))'
  BY <1>3, FS_EmptySet
<1>8. (mixed \/ rsc = 0 \/ rsc + keySeq <= top)'
  BY <1>1 DEF Emptied
<1>9. (~used => \A s \in Slots : nbuf[s] = NULL)'
  BY <1>2
<1> QED
  BY <1>5, <1>6, <1>7, <1>8, <1>9 DEF Inv

\* mtlk_clear_rod_queue.
LEMMA ClearRight ==
  ASSUME Inv, ClearRodQueue
  PROVE  Right
<1> DEFINE q == FlushIfUsed
<1>0. Typed
  BY DEF Inv
<1>1. Emptied(q)
  BY FlushIfUsedEmpties
<1>2. q = FlushQueue(Queue)
  BY DEF ClearRodQueue, FlushIfUsed
<1> HIDE DEF q
<1>3. /\ head' = q.head /\ count' = q.count /\ nbuf' = q.nbuf /\ rsc' = q.rsc
      /\ out' = q.out /\ replayed' = q.replayed /\ top' = q.top
      /\ used' = FALSE /\ window_size' = window_size /\ UNCHANGED envVars
  BY <1>2 DEF ClearRodQueue, Store
<1>4. count' = 0 /\ head' \in 0 .. Limit - 1 /\ window_size' \in FitWindows
  BY <1>0, <1>1, <1>3 DEF Emptied, Typed
<1>5. /\ Held' = {} /\ Abstract!InOrder(out', Held)
      /\ \A p \in replayed' : p < top \/ mixed
  BY <1>1, <1>3, EmptiedOut
<1>7. Inv'
  BY <1>0, <1>1, <1>3, <1>4, StoreEmptied
<1>6. Abstract!Close
  BY <1>3, <1>5 DEF Abstract!Close, Abstract!Release
<1> QED
  BY <1>5, <1>6, <1>7 DEF Right, Abstract!Next

\* mtlk_create_rod_queue.
LEMMA CreateRight ==
  ASSUME Inv, NEW s \in Numbers, NEW w \in Windows, CreateRodQueue(s, w)
  PROVE  Right
<1> DEFINE q == FlushIfUsed
           h == s % Limit
           r == [q EXCEPT !.count = 0, !.head = h]
<1>0. Typed
  BY DEF Inv
<1>1. Emptied(q)
  BY FlushIfUsedEmpties
<1>2. /\ Store(r) /\ used' = TRUE /\ window_size' = w /\ UNCHANGED envVars
      /\ unfit' = (unfit \/ ~Fits(w))
  BY DEF CreateRodQueue
<1>3. s \in Nat /\ s \in 0 .. MaxSent /\ s <= sent /\ sent - s <= Age /\ sent \in Int
  BY <1>0, NumbersFacts, Constants DEF Typed
<1>4. h \in 0 .. Limit - 1 /\ Cong(h, s, Limit)
  <2>1. s \in Int /\ Limit \in Int /\ Limit > 0
    BY <1>3, Constants
  <2> QED
    BY <2>1, ModFacts
<1> HIDE DEF q, h
<1>5. /\ r.head = h /\ r.count = 0 /\ r.nbuf = q.nbuf /\ r.rsc = q.rsc
      /\ r.out = q.out /\ r.replayed = q.replayed /\ r.top = q.top
  BY <1>1 DEF Emptied, QueueRecords
<1> HIDE DEF r
<1>6. /\ head' = h /\ count' = 0 /\ nbuf' = q.nbuf /\ rsc' = q.rsc
      /\ out' = q.out /\ replayed' = q.replayed /\ top' = q.top
  BY <1>2, <1>5 DEF Store
<1>7. Cong(head', s, Limit) /\ s <= sent /\ sent - s <= Limit \div 2 + 1
  BY <1>3, <1>4, <1>6, Constants
<1>8. head' \in 0 .. Limit - 1
  BY <1>4, <1>6
<1>9. /\ Held' = {} /\ Abstract!InOrder(out', Held)
      /\ \A p \in replayed' : p < top \/ mixed
  BY <1>1, <1>6, EmptiedOut
<1>12. Inv' \/ unfit'
  <2>1. CASE Fits(w)
    <3>1. window_size' \in FitWindows /\ used' \in BOOLEAN
      BY <1>2, <2>1 DEF FitWindows
    <3> QED
      BY <1>0, <1>1, <1>2, <1>3, <1>6, <1>7, <1>8, <3>1, StoreEmptied
  <2>2. CASE ~Fits(w)
    BY <1>2, <2>2, Zenon
  <2> QED
    BY <2>1, <2>2
<1>10. WindowStart' = s
  <2>1. sent' = sent
    BY <1>2 DEF envVars
  <2>2. head' - 0 \in Int /\ s \in Int
    BY <1>3, <1>8
  <2>3. sent - SeqDistance(head', sent % Limit) = s
    BY <1>3, <1>7, <1>8, StartIs
  <2> QED
    BY <2>1, <2>3 DEF WindowStart
<1>11. Abstract!Open(s, w)
  BY <1>2, <1>9, <1>10 DEF Abstract!Open, Abstract!Release
<1> QED
  BY <1>3, <1>9, <1>11, <1>12 DEF Right, Abstract!Next

\* mtlk_create_rod_queue when the allocation fails.
LEMMA CreateFailsRight ==
  ASSUME Inv, CreateFails
  PROVE  Right
<1>1. Store(FlushIfUsed) /\ UNCHANGED <<used, window_size, envVars>>
  BY DEF CreateFails
<1>2. CASE used
  <2>1. Store(FlushQueue(Queue))
    BY <1>1, <1>2 DEF FlushIfUsed
  <2> QED
    BY <1>1, <1>2, <2>1, FlushRight
<1>3. CASE ~used
  <2>1. Store(Queue)
    BY <1>1, <1>3 DEF FlushIfUsed
  <2> QED
    BY <1>1, <2>1, StoreSame
<1> QED
  BY <1>2, <1>3

\* mtlk_handle_rod_queue_timer.
LEMMA TimerRight ==
  ASSUME Inv, HandleRodQueueTimer
  PROVE  Right
BY FlushRight DEF HandleRodQueueTimer

\* The peer goes on to the next number.
LEMMA SendRight ==
  ASSUME Inv, Send
  PROVE  Right
<1>0. Typed /\ sent \in Int
  BY Constants DEF Inv, Typed
<1>1. /\ sent < MaxSent /\ sent' = sent + 1 /\ out' = <<>> /\ replayed' = {}
      /\ used' = used /\ window_size' = window_size /\ head' = head /\ count' = count
      /\ nbuf' = nbuf /\ rsc' = rsc /\ cipher' = cipher /\ keySeq' = keySeq
      /\ top' = top /\ mixed' = mixed
  BY DEF Send, queVars
<1>2. used => sent - WindowStart <= Limit \div 2
  BY DEF Send
<1>3. Held' = Held
  BY <1>1 DEF Held
<1>4. Typed'
  <2>1. out' \in Seq(0 .. MaxSent) /\ replayed' \subseteq 0 .. MaxSent
    BY <1>1
  <2>2. sent' \in 0 .. MaxSent
    BY <1>0, <1>1, Constants DEF Typed
  <2> QED
    BY <1>0, <1>1, <2>1, <2>2 DEF Typed
<1>5. ASSUME used PROVE (\E b \in Nat : At(b)') /\ WindowStart' = WindowStart
  <2>1. PICK b \in Nat : At(b)
    BY <1>5 DEF Inv
  <2>2. WindowStart = b
    BY <1>5, <2>1, InvWindow
  <2>3. Cong(head', b, Limit) /\ b <= sent' /\ sent' - b <= Limit \div 2 + 1
    BY <1>0, <1>1, <1>2, <1>5, <2>1, <2>2, Constants DEF At
  <2>4. Slotted(b, window_size, nbuf)'
    BY <1>1, <2>1 DEF At, Slotted, InWindow, Full
  <2>5. b \notin Held' /\ \A k \in Held' : k < sent'
    <3>1. \A k \in Held : k \in Int /\ k < sent
      BY <1>0, <2>1, HeldType DEF At
    <3>2. \A k \in Held : k < sent + 1
      BY <1>0, <3>1
    <3> QED
      BY <1>1, <1>3, <2>1, <3>2 DEF At
  <2>6. At(b)'
    BY <2>3, <2>4, <2>5 DEF At
  <2>7. head' \in 0 .. Limit - 1 /\ sent' \in Int
    BY <1>0, <1>1 DEF Typed
  <2>8. WindowStart' = b
    BY <2>3, <2>7, StartIs DEF WindowStart
  <2> QED
    BY <2>2, <2>6, <2>8
<1>6. Inv'
  <2>1. (count = Cardinality(Full(nbuf)))'
    BY <1>1 DEF Inv, Full
  <2>2. (mixed \/ rsc = 0 \/ rsc + keySeq <= top)'
    BY <1>1 DEF Inv
  <2>3. (~used => \A s \in Slots : nbuf[s] = NULL)'
    BY <1>1 DEF Inv
  <2>4. (used => \E b \in Nat : At(b))'
    BY <1>1, <1>5
  <2> QED
    BY <1>4, <2>1, <2>2, <2>3, <2>4 DEF Inv
<1> QED
  BY <1>1, <1>3, <1>5, <1>6, SilentRight

\* A key is to be set: the counters restart under the old key.
LEMMA SetKeyRight ==
  ASSUME Inv, NEW c \in BOOLEAN, SetKey(c)
  PROVE  Right
<1>0. Typed
  BY DEF Inv
<1>1. /\ cipher' = c /\ rsc' = 0 /\ keySeq' = keySeq /\ mixed' = mixed
      /\ out' = <<>> /\ replayed' = {} /\ sent' = sent
      /\ used' = used /\ window_size' = window_size /\ head' = head /\ count' = count
      /\ nbuf' = nbuf /\ top' = top
  BY DEF SetKey, queVars
<1>2. Held' = Held /\ WindowStart' = WindowStart
  BY <1>1 DEF Held, WindowStart
<1>3. Typed'
  <2>1. out' \in Seq(0 .. MaxSent) /\ replayed' \subseteq 0 .. MaxSent
    BY <1>1
  <2>2. rsc' \in 0 .. MaxSent + 1
    BY <1>1, Constants
  <2> QED
    BY <1>0, <1>1, <2>1, <2>2 DEF Typed
<1>4. Full(nbuf)' = Full(nbuf)
  BY <1>1 DEF Full
<1>6. ASSUME used PROVE \E b \in Nat : At(b)'
  <2>1. PICK b \in Nat : At(b)
    BY <1>6 DEF Inv
  <2>2. Slotted(b, window_size, nbuf)'
    BY <1>1, <1>4, <2>1 DEF At, Slotted, InWindow
  <2>3. At(b)'
    BY <1>1, <1>2, <2>1, <2>2 DEF At
  <2> QED
    BY <2>3
<1>7. Inv'
  <2>1. (count = Cardinality(Full(nbuf)))'
    BY <1>1, <1>4 DEF Inv
  <2>2. (mixed \/ rsc = 0 \/ rsc + keySeq <= top)'
    BY <1>1
  <2>3. (~used => \A s \in Slots : nbuf[s] = NULL)'
    BY <1>1 DEF Inv
  <2>4. (used => \E b \in Nat : At(b))'
    BY <1>1, <1>6
  <2> QED
    BY <1>3, <2>1, <2>2, <2>3, <2>4 DEF Inv
<1> QED
  BY <1>1, <1>2, <1>7, SilentRight

\* While a key is on its way the counter is zero until a packet moves it.
Keyed == keying /\ ~met => rsc = 0

\* What holds whatever the windows are, and when an index may have left nbuf[].
Shape ==
  /\ used \in BOOLEAN /\ window_size \in Windows
  /\ cipher \in BOOLEAN /\ keying \in BOOLEAN
  /\ sent \in 0 .. MaxSent /\ keySeq \in 0 .. MaxSent
  /\ met \in BOOLEAN /\ mixed \in BOOLEAN /\ unfit \in BOOLEAN /\ overrun \in BOOLEAN
  /\ Keyed

\* A key comes into force: if nothing waits and no packet has raised the counter
\* since it restarted, the counters begin with the packets; else the keys are
\* mixed.
LEMMA KeyInForceRight ==
  ASSUME Inv, Shape, KeyInForce
  PROVE  Right
<1>0. Typed
  BY DEF Inv
<1>1. /\ cipher' = cipher /\ rsc' = rsc /\ keySeq' = sent /\ mixed' = (count > 0 \/ met)
      /\ out' = <<>> /\ replayed' = {} /\ sent' = sent
      /\ used' = used /\ window_size' = window_size /\ head' = head /\ count' = count
      /\ nbuf' = nbuf /\ top' = top
  BY DEF KeyInForce, queVars
<1>2. Held' = Held /\ WindowStart' = WindowStart
  BY <1>1 DEF Held, WindowStart
<1>3. Typed'
  <2>1. out' \in Seq(0 .. MaxSent) /\ replayed' \subseteq 0 .. MaxSent
    BY <1>1
  <2>2. mixed' \in BOOLEAN
    BY <1>1, Zenon
  <2> QED
    BY <1>0, <1>1, <2>1, <2>2 DEF Typed
<1>4. Full(nbuf)' = Full(nbuf)
  BY <1>1 DEF Full
<1>5. mixed' \/ Full(nbuf) = {}
  <2>1. count \in Nat /\ (count = 0 <=> Full(nbuf) = {})
    BY FullFinite DEF Inv
  <2>2. count > 0 \/ count = 0
    BY <2>1
  <2>3. count > 0 => mixed'
    BY <1>1, Zenon
  <2> QED
    BY <2>1, <2>2, <2>3
<1>6. ASSUME used PROVE \E b \in Nat : At(b)'
  <2>1. PICK b \in Nat : At(b)
    BY <1>6 DEF Inv
  <2>2. Slotted(b, window_size, nbuf)'
    <3>1. CASE mixed'
      BY <1>1, <1>4, <2>1, <3>1 DEF At, Slotted, InWindow
    <3>2. CASE Full(nbuf) = {}
      BY <1>4, <3>2 DEF Slotted
    <3> QED
      BY <1>5, <3>1, <3>2
  <2>3. At(b)'
    BY <1>1, <1>2, <2>1, <2>2 DEF At
  <2> QED
    BY <2>3
<1>7. Inv'
  <2>1. (count = Cardinality(Full(nbuf)))'
    BY <1>1, <1>4 DEF Inv
  <2>2. (mixed \/ rsc = 0 \/ rsc + keySeq <= top)'
    <3>1. met \/ rsc = 0
      BY DEF Shape, Keyed, KeyInForce
    <3>2. met => mixed'
      BY <1>1, Zenon
    <3> QED
      BY <1>1, <3>1, <3>2
  <2>3. (~used => \A s \in Slots : nbuf[s] = NULL)'
    BY <1>1 DEF Inv
  <2>4. (used => \E b \in Nat : At(b))'
    BY <1>1, <1>6
  <2> QED
    BY <1>3, <2>1, <2>2, <2>3, <2>4 DEF Inv
<1> QED
  BY <1>1, <1>2, <1>7, SilentRight

\* A key is refused: nothing changes.
LEMMA KeyRefusedRight ==
  ASSUME Inv, KeyRefused
  PROVE  Right
<1>1. /\ head' = head /\ count' = count /\ nbuf' = nbuf /\ rsc' = rsc
      /\ out' = <<>> /\ replayed' = {} /\ top' = top
      /\ used' = used /\ window_size' = window_size /\ cipher' = cipher
      /\ sent' = sent /\ keySeq' = keySeq /\ mixed' = mixed
  BY DEF KeyRefused, queVars
<1> QED
  BY <1>1, SameRight

\* The invariant holds initially.
LEMMA InitInv == Init => Inv
<1> SUFFICES ASSUME Init PROVE Inv
  OBVIOUS
<1>0. window_size \in FitWindows
  BY DEF Init, FitWindows
<1>1. /\ used = FALSE /\ head = 0 /\ count = 0
      /\ nbuf = [s \in Slots |-> NULL] /\ rsc = 0 /\ cipher = FALSE
      /\ sent = FirstSeq /\ keySeq = FirstSeq
      /\ out = <<>> /\ replayed = {} /\ top = 0 /\ mixed = FALSE
  BY DEF Init
<1>2. \A s \in Slots : nbuf[s] = NULL
  BY <1>1
<1>3. count = Cardinality(Full(nbuf))
  <2>1. Full(nbuf) = {}
    BY <1>2 DEF Full
  <2> QED
    BY <1>1, <2>1, FS_EmptySet
<1>4. Typed
  <2>1. window_size \in Nat
    BY <1>0, WindowFacts
  <2>2. 0 \in 0 .. window_size /\ 0 \in 0 .. Limit - 1 /\ 0 \in 0 .. MaxSent + 1
        /\ FirstSeq \in 0 .. MaxSent
    BY <2>1, Constants
  <2>3. nbuf \in [Slots -> Packets \cup {NULL}]
    BY <1>1
  <2>4. out \in Seq(0 .. MaxSent) /\ replayed \subseteq 0 .. MaxSent
    BY <1>1
  <2> QED
    BY <1>0, <1>1, <2>2, <2>3, <2>4 DEF Typed
<1> QED
  BY <1>1, <1>2, <1>3, <1>4 DEF Inv

\* No index leaves nbuf[] while every window has fitted.
LEMMA NoOverrun ==
  ASSUME Inv, NEW n, Overrun(n)
  PROVE  FALSE
<1>1. window_size \in FitWindows
  BY DEF Inv, Typed
<1> QED
  BY <1>1 DEF Overrun, InBuffer, FitWindows, Fits

\* Every step is right.
LEMMA NextRight ==
  ASSUME Inv, Shape, Next
  PROVE  Right
BY SendRight, ReorderRight, BarRight, CreateRight, CreateFailsRight, ClearRight, TimerRight,
   SetKeyRight, KeyInForceRight, KeyRefusedRight, NoOverrun DEF Next

\* A step of another part of the driver.
LEMMA StutterInv ==
  ASSUME Inv, UNCHANGED vars
  PROVE  /\ Inv' /\ used' = used /\ window_size' = window_size /\ Held' = Held
         /\ WindowStart' = WindowStart /\ out' = out
<1>1. /\ used' = used /\ window_size' = window_size /\ head' = head /\ count' = count
      /\ nbuf' = nbuf /\ rsc' = rsc /\ cipher' = cipher /\ sent' = sent /\ keySeq' = keySeq
      /\ out' = out /\ replayed' = replayed /\ top' = top /\ mixed' = mixed
  BY DEF vars, queVars, envVars
<1>2. Held' = Held /\ WindowStart' = WindowStart
  BY <1>1 DEF Held, WindowStart
<1>3. Inv'
  BY <1>1, <1>2 DEF Inv, Typed, At, Full, Slotted, InWindow
<1> QED
  BY <1>1, <1>2, <1>3

\* What the invariant says of the slots.
LEMMA InvConsistent ==
  ASSUME Inv
  PROVE  /\ count = Cardinality({s \in Slots : nbuf[s] # NULL})
         /\ ~used => count = 0
         /\ \A s \in Slots : nbuf[s] # NULL =>
              /\ s = (nbuf[s].seq % Limit) % window_size
              /\ nbuf[s].seq \in WindowStart + 1 .. WindowStart + window_size - 1
<1>0. Typed /\ count = Cardinality(Full(nbuf))
  BY DEF Inv
<1>1. count = Cardinality({s \in Slots : nbuf[s] # NULL})
  BY <1>0 DEF Full
<1>2. ~used => count = 0
  <2> SUFFICES ASSUME ~used PROVE count = 0
    OBVIOUS
  <2>1. Full(nbuf) = {}
    BY DEF Inv, Full
  <2> QED
    BY <1>0, <2>1, FullFinite
<1>3. ASSUME NEW s \in Slots, nbuf[s] # NULL
      PROVE  /\ s = (nbuf[s].seq % Limit) % window_size
             /\ nbuf[s].seq \in WindowStart + 1 .. WindowStart + window_size - 1
  <2>1. used
    BY <1>3 DEF Inv
  <2>2. PICK b \in Nat : At(b)
    BY <2>1 DEF Inv
  <2>3. WindowStart = b
    BY <2>1, <2>2, InvWindow
  <2>4. s \in Full(nbuf)
    BY <1>3 DEF Full
  <2>5. nbuf[s].seq \in b .. b + window_size - 1 /\ s = nbuf[s].seq % window_size
    BY <2>2, <2>4 DEF At, Slotted, InWindow
  <2>6. nbuf[s].seq \in Held
    BY <2>4, HeldIsSeqs DEF Seqs
  <2>7. nbuf[s].seq \in Nat /\ nbuf[s].seq # b
    BY <1>0, <2>2, <2>6, HeldType DEF At
  <2>8. window_size \in FitWindows /\ window_size \in Nat
    BY <1>0, WindowFacts DEF Typed
  <2>9. (nbuf[s].seq % Limit) % window_size = nbuf[s].seq % window_size
    BY <2>7, <2>8, SlotOf
  <2>10. nbuf[s].seq \in b + 1 .. b + window_size - 1
    BY <2>5, <2>7, <2>8
  <2> QED
    BY <2>3, <2>5, <2>9, <2>10
<1> QED
  BY <1>1, <1>2, <1>3

\* The inductive invariant.
IInv ==
  /\ Shape
  /\ ~unfit => Inv /\ ~overrun

\* Writing a queue back keeps what Shape says of the counter.
LEMMA StoreKeyed ==
  ASSUME Shape, NEW q, Store(q), keying' = keying
  PROVE  met' \in BOOLEAN /\ Keyed'
<1>1. met' = (met \/ (keying /\ q.rsc # rsc)) /\ rsc' = q.rsc
  BY DEF Store
<1>2. met' \in BOOLEAN
  BY <1>1, Zenon
<1>3. ASSUME keying', ~met' PROVE rsc' = 0
  <2>1. ~met /\ ~(keying /\ q.rsc # rsc)
    BY <1>1, <1>3, Zenon
  <2> QED
    BY <1>1, <1>3, <2>1 DEF Shape, Keyed
<1> QED
  BY <1>2, <1>3 DEF Keyed

\* So an operation on the queue keeps Shape.
LEMMA StoreShape ==
  ASSUME Shape, NEW q, Store(q), UNCHANGED envVars, used' \in BOOLEAN,
         window_size' \in Windows, unfit' \in BOOLEAN, overrun' = overrun
  PROVE  Shape'
<1>1. /\ cipher' = cipher /\ keying' = keying /\ sent' = sent /\ keySeq' = keySeq
      /\ mixed' = mixed
  BY DEF envVars
<1>2. met' \in BOOLEAN /\ Keyed'
  BY <1>1, StoreKeyed
<1> QED
  BY <1>1, <1>2 DEF Shape

\* Whatever the windows are, steps keep Shape.
LEMMA ShapeStep ==
  ASSUME Shape, Next
  PROVE  Shape'
<1>0. used \in BOOLEAN /\ window_size \in Windows /\ unfit \in BOOLEAN
  BY DEF Shape
<1>1. CASE Send
  <2>1. sent' \in 0 .. MaxSent
    BY <1>1, Constants DEF Send, Shape
  <2>2. /\ used' = used /\ window_size' = window_size /\ cipher' = cipher
        /\ keying' = keying /\ keySeq' = keySeq /\ met' = met /\ mixed' = mixed
        /\ rsc' = rsc /\ unfit' = unfit /\ overrun' = overrun
    BY <1>1 DEF Send, queVars, badVars
  <2> QED
    BY <2>1, <2>2 DEF Shape, Keyed
<1>2. ASSUME NEW p \in Arriving, ReorderPacket(p) PROVE Shape'
  <2>1. /\ \E q : Store(q)
        /\ used' = used /\ window_size' = window_size /\ UNCHANGED envVars
        /\ unfit' = unfit /\ overrun' = overrun
    BY <1>2 DEF ReorderPacket, badVars
  <2> QED
    BY <1>0, <2>1, StoreShape
<1>3. ASSUME NEW n \in Numbers, ProcessBar(n) PROVE Shape'
  <2>1. /\ \E q : Store(q)
        /\ used' = used /\ window_size' = window_size /\ UNCHANGED envVars
        /\ unfit' = unfit /\ overrun' = overrun
    BY <1>3 DEF ProcessBar, badVars
  <2> QED
    BY <1>0, <2>1, StoreShape
<1>4. ASSUME NEW n \in Numbers, Overrun(n) PROVE Shape'
  BY <1>4 DEF Overrun, envVars, queVars, Shape, Keyed
<1>5. ASSUME NEW n \in Numbers, NEW w \in Windows, CreateRodQueue(n, w) PROVE Shape'
  <2>1. unfit' \in BOOLEAN
    BY <1>5, Zenon DEF CreateRodQueue
  <2>2. /\ \E q : Store(q)
        /\ used' = TRUE /\ window_size' = w /\ UNCHANGED envVars /\ overrun' = overrun
    BY <1>5 DEF CreateRodQueue
  <2> QED
    BY <2>1, <2>2, StoreShape
<1>6. CASE CreateFails
  <2>1. /\ \E q : Store(q)
        /\ used' = used /\ window_size' = window_size /\ UNCHANGED envVars
        /\ unfit' = unfit /\ overrun' = overrun
    BY <1>6 DEF CreateFails, badVars
  <2> QED
    BY <1>0, <2>1, StoreShape
<1>7. CASE ClearRodQueue
  <2>1. /\ \E q : Store(q)
        /\ used' = FALSE /\ window_size' = window_size /\ UNCHANGED envVars
        /\ unfit' = unfit /\ overrun' = overrun
    BY <1>7 DEF ClearRodQueue, badVars
  <2> QED
    BY <1>0, <2>1, StoreShape
<1>8. CASE HandleRodQueueTimer
  <2>1. /\ \E q : Store(q)
        /\ used' = used /\ window_size' = window_size /\ UNCHANGED envVars
        /\ unfit' = unfit /\ overrun' = overrun
    BY <1>8 DEF HandleRodQueueTimer, badVars
  <2> QED
    BY <1>0, <2>1, StoreShape
<1>9. ASSUME NEW c \in BOOLEAN, SetKey(c) PROVE Shape'
  BY <1>9 DEF SetKey, queVars, badVars, Shape, Keyed
<1>10. CASE KeyInForce
  <2>1. mixed' \in BOOLEAN
    BY <1>10, Zenon DEF KeyInForce
  <2>2. /\ used' = used /\ window_size' = window_size /\ cipher' = cipher
        /\ keying' = FALSE /\ sent' = sent /\ keySeq' = sent /\ met' = FALSE
        /\ unfit' = unfit /\ overrun' = overrun
    BY <1>10 DEF KeyInForce, queVars, badVars
  <2> QED
    BY <2>1, <2>2 DEF Shape, Keyed
<1>11. CASE KeyRefused
  BY <1>11 DEF KeyRefused, queVars, badVars, Shape, Keyed
<1> QED
  BY <1>1, <1>2, <1>3, <1>4, <1>5, <1>6, <1>7, <1>8, <1>9, <1>10, <1>11 DEF Next

\* Once a window has not fitted, that is remembered; and only Overrun makes an
\* index leave nbuf[].
LEMMA BadKept ==
  ASSUME Next
  PROVE  /\ unfit => unfit'
         /\ overrun' = overrun \/ \E n \in Numbers : Overrun(n)
<1>1. CASE Send
  BY <1>1 DEF Send, badVars
<1>2. ASSUME NEW p \in Arriving, ReorderPacket(p) PROVE unfit' = unfit /\ overrun' = overrun
  BY <1>2 DEF ReorderPacket, badVars
<1>3. ASSUME NEW n \in Numbers, ProcessBar(n) PROVE unfit' = unfit /\ overrun' = overrun
  BY <1>3 DEF ProcessBar, badVars
<1>4. ASSUME NEW n \in Numbers, Overrun(n) PROVE unfit' = unfit
  BY <1>4 DEF Overrun
<1>5. ASSUME NEW n \in Numbers, NEW w \in Windows, CreateRodQueue(n, w)
      PROVE  (unfit => unfit') /\ overrun' = overrun
  <2>1. unfit => unfit'
    BY <1>5, Zenon DEF CreateRodQueue
  <2> QED
    BY <1>5, <2>1 DEF CreateRodQueue
<1>6. CASE CreateFails
  BY <1>6 DEF CreateFails, badVars
<1>7. CASE ClearRodQueue
  BY <1>7 DEF ClearRodQueue, badVars
<1>8. CASE HandleRodQueueTimer
  BY <1>8 DEF HandleRodQueueTimer, badVars
<1>9. ASSUME NEW c \in BOOLEAN, SetKey(c) PROVE unfit' = unfit /\ overrun' = overrun
  BY <1>9 DEF SetKey, badVars
<1>10. CASE KeyInForce
  BY <1>10 DEF KeyInForce, badVars
<1>11. CASE KeyRefused
  BY <1>11 DEF KeyRefused, badVars
<1> QED
  BY <1>1, <1>2, <1>3, <1>4, <1>5, <1>6, <1>7, <1>8, <1>9, <1>10, <1>11 DEF Next

\* The inductive invariant holds initially.
LEMMA InitIInv == Init => IInv
<1> SUFFICES ASSUME Init PROVE IInv
  OBVIOUS
<1>1. Inv
  BY InitInv
<1>2. Shape
  BY MaxSentAssumption DEF Init, Shape, Keyed
<1>3. ~overrun
  BY DEF Init
<1> QED
  BY <1>1, <1>2, <1>3 DEF IInv

\* Every step keeps it.
LEMMA IInvStep ==
  ASSUME IInv, Next
  PROVE  IInv'
<1>1. Shape'
  BY ShapeStep DEF IInv
<1>2. ASSUME ~unfit' PROVE Inv' /\ ~overrun'
  <2>1. ~unfit
    BY <1>2, BadKept
  <2>2. Inv /\ ~overrun /\ Shape
    BY <2>1 DEF IInv
  <2>3. Inv'
    BY <1>2, <2>2, NextRight DEF Right
  <2>4. overrun' = overrun
    BY <2>2, BadKept, NoOverrun
  <2> QED
    BY <2>2, <2>3, <2>4
<1> QED
  BY <1>1, <1>2 DEF IInv

\* The invariant the results rest on.
THEOREM InvCorrect == Spec => []IInv
<1>1. ASSUME IInv, UNCHANGED vars PROVE IInv'
  <2>1. Shape'
    BY <1>1 DEF IInv, Shape, Keyed, vars, queVars, envVars, badVars
  <2>2. unfit' = unfit /\ overrun' = overrun
    BY <1>1 DEF vars, badVars
  <2>3. Inv => Inv'
    BY <1>1, StutterInv
  <2> QED
    BY <1>1, <2>1, <2>2, <2>3 DEF IInv
<1>2. IInv /\ [Next]_vars => IInv'
  BY <1>1, IInvStep
<1> QED
  BY InitIInv, <1>2, PTL DEF Spec

\* Variables keep their types, for any windows the peers ask for; while they fit
\* nbuf[] and divide SEQUENCE_NUMBER_LIMIT, head is below that limit whenever the
\* lock is free, and count never exceeds the window.
THEOREM TypeCorrect == Spec => []TypeOK
<1>1. IInv => TypeOK
  BY DEF IInv, Inv, Shape, Typed, TypeOK
<1> QED
  BY InvCorrect, <1>1, PTL

\* Until a peer asks for a window that does not fit: no index leaves nbuf[]; count,
\* which ends the flush loop of rod.c, is the number of occupied slots; and every
\* packet is in the slot of its number, inside the window.
THEOREM SlotsConsistentCorrect == Spec => []SlotsConsistent
<1>1. IInv => SlotsConsistent
  BY InvConsistent DEF IInv, SlotsConsistent
<1> QED
  BY InvCorrect, <1>1, PTL

\* Until a peer asks for a window that does not fit, a packet that follows
\* everything the stack has seen is discarded as a replay
\* (mtlk_detect_replay_or_sendup) only if packets of two keys met one counter: the
\* old ones waited when the new key came into force, or had passed after the
\* counters were zeroed for it.
THEOREM ReplayOnlyIfMixedCorrect == Spec => ReplayOnlyIfMixed
<1>1. IInv /\ [Next]_vars => [\A p \in replayed' : p < top \/ mixed \/ unfit]_vars
  BY NextRight DEF Right, IInv
<1> QED
  BY InvCorrect, <1>1, PTL DEF Spec, ReplayOnlyIfMixed

\* The queue of rod.c implements the reordering of RodSpec, over every number of
\* wraps: order, no duplicates, no loss, and the moves of the window; RodSpec
\* promises nothing once a peer has asked for a window that does not fit.
THEOREM ReorderingImplemented == Spec => ImplementsReordering
<1>1. Spec => []IInv
  BY InvCorrect
<1>2. Init => Abstract!Init
  <2> SUFFICES ASSUME Init PROVE Abstract!Init
    OBVIOUS
  <2>1. /\ used = FALSE /\ window_size \in Windows /\ out = <<>>
        /\ nbuf = [s \in Slots |-> NULL]
    BY DEF Init
  <2>2. Held = {}
    BY <2>1 DEF Held
  <2> QED
    BY <2>1, <2>2 DEF Abstract!Init
<1>3. IInv /\ [Next]_vars
        => [Abstract!Next]_<<used, window_size, IF used THEN WindowStart ELSE 0, Held, out>>
  <2>1. ASSUME IInv, Next PROVE Abstract!Next
    <3>1. CASE unfit
      BY <3>1 DEF Abstract!Next
    <3>2. CASE ~unfit
      BY <2>1, <3>2, NextRight DEF Right, IInv
    <3> QED
      BY <3>1, <3>2
  <2>2. ASSUME UNCHANGED vars
        PROVE  UNCHANGED <<used, window_size, IF used THEN WindowStart ELSE 0, Held, out>>
    <3>1. /\ used' = used /\ window_size' = window_size /\ head' = head
          /\ nbuf' = nbuf /\ sent' = sent /\ out' = out
      BY <2>2 DEF vars, queVars, envVars
    <3> QED
      BY <3>1 DEF Held, WindowStart
  <2> QED
    BY <2>1, <2>2
<1>4. [Abstract!Next]_<<used, window_size, IF used THEN WindowStart ELSE 0, Held, out>>
        => [Abstract!Next]_Abstract!vars
  BY DEF Abstract!vars
<1> QED
  BY <1>1, <1>2, <1>3, <1>4, PTL DEF Spec, ImplementsReordering, Abstract!Spec
=============================================================================
