----------------------------- MODULE TxmmProofs -----------------------------
(***************************************************************************)
(* Proofs about Txmm, for any sets of blocks, slots and message objects.    *)
(***************************************************************************)
EXTENDS Txmm, ListFacts, FiniteSetTheorems, TLAPS

-----------------------------------------------------------------------------
\* A block leaves from the middle, and the others close up.
LEMMA RemoveAtFacts ==
  ASSUME NEW S, NEW q \in Seq(S), Distinct(q), NEW b, Has(q, b)
  PROVE  LET r == RemoveAt(q, IndexOf(q, b))
         IN /\ r \in Seq(S)
            /\ Distinct(r)
            /\ \A c : Has(r, c) <=> Has(q, c) /\ c # b
            /\ \A c, d : Ahead(q, c, d) /\ c # b /\ d # b => Ahead(r, c, d)
<1> DEFINE k == IndexOf(q, b)
           r == RemoveAt(q, k)
<1>1. k \in 1 .. Len(q) /\ q[k] = b
  BY DEF IndexOf, Has
<1>2. Len(q) \in Nat
  OBVIOUS
<1> HIDE DEF k
<1> DEFINE u == SubSeq(q, 1, k - 1)
           v == SubSeq(q, k + 1, Len(q))
<1>a. u \in Seq(S) /\ Len(u) = k - 1 /\ \A i \in 1 .. k - 1 : u[i] = q[i]
  BY <1>1, <1>2
<1>b. /\ v \in Seq(S) /\ Len(v) = Len(q) - k
      /\ \A i \in 1 .. Len(q) - k : v[i] = q[k + i]
  BY <1>1, <1>2
<1>c. r = u \o v
  BY DEF RemoveAt
<1> HIDE DEF r, u, v
<1>3. r \in Seq(S) /\ Len(r) = Len(q) - 1
  BY <1>1, <1>2, <1>a, <1>b, <1>c
<1>4. \A i \in 1 .. Len(r) : r[i] = IF i < k THEN q[i] ELSE q[i + 1]
  <2> TAKE i \in 1 .. Len(r)
  <2>1. CASE i < k
    BY <1>1, <1>2, <1>3, <1>a, <1>b, <1>c, <2>1
  <2>2. CASE ~(i < k)
    <3>1. r[i] = v[i - Len(u)] /\ i - Len(u) \in 1 .. Len(v)
      BY <1>1, <1>2, <1>3, <1>a, <1>b, <1>c, <2>2
    <3>2. v[i - (k - 1)] = q[k + (i - (k - 1))] /\ k + (i - (k - 1)) = i + 1
      BY <1>1, <1>2, <1>3, <1>a, <1>b, <2>2, <3>1
    <3> QED
      BY <1>a, <2>2, <3>1, <3>2
  <2> QED
    BY <2>1, <2>2
<1>5. \A i \in 1 .. Len(q) :
        i # k => LET j == IF i < k THEN i ELSE i - 1
                 IN j \in 1 .. Len(r) /\ r[j] = q[i]
  BY <1>1, <1>2, <1>3, <1>4
<1>6. Distinct(r)
  BY <1>1, <1>2, <1>3, <1>4 DEF Distinct
<1>7. \A c : Has(r, c) <=> Has(q, c) /\ c # b
  <2> TAKE c
  <2>1. ASSUME Has(r, c) PROVE Has(q, c) /\ c # b
    <3>1. PICK i \in 1 .. Len(r) : r[i] = c
      BY <2>1 DEF Has
    <3>2. PICK j \in 1 .. Len(q) : j # k /\ q[j] = c
      BY <1>1, <1>2, <1>3, <1>4, <3>1
    <3> QED
      BY <1>1, <3>2 DEF Has, Distinct
  <2>2. ASSUME Has(q, c), c # b PROVE Has(r, c)
    BY <1>1, <1>5, <2>2 DEF Has
  <2> QED
    BY <2>1, <2>2
<1>8. \A c, d : Ahead(q, c, d) /\ c # b /\ d # b => Ahead(r, c, d)
  <2> SUFFICES ASSUME NEW c, NEW d, Ahead(q, c, d), c # b, d # b
               PROVE  Ahead(r, c, d)
    OBVIOUS
  <2>1. PICK i \in 1 .. Len(q), j \in 1 .. Len(q) :
               i < j /\ q[i] = c /\ q[j] = d
    BY DEF Ahead
  <2>2. i # k /\ j # k
    BY <1>1, <2>1
  <2> DEFINE i1 == IF i < k THEN i ELSE i - 1
             j1 == IF j < k THEN j ELSE j - 1
  <2>3. i1 \in 1 .. Len(r) /\ r[i1] = c
    BY <1>5, <2>1, <2>2
  <2>4. j1 \in 1 .. Len(r) /\ r[j1] = d
    BY <1>5, <2>1, <2>2
  <2>5. i1 < j1
    BY <1>1, <2>1, <2>2
  <2> HIDE DEF i1, j1
  <2> QED
    BY <2>3, <2>4, <2>5 DEF Ahead
<1> QED
  BY <1>3, <1>6, <1>7, <1>8 DEF r, k

-----------------------------------------------------------------------------
(***************************************************************************)
(* The invariant.  Messages are cancelled at any time; a callback that the   *)
(* tasklet or the timer had decided on when its message was cancelled (a    *)
(* block of lateCfm or lateTmr) is one that nothing is known about.         *)
(***************************************************************************)
\* Nearly every step leaves the history of late cancellations alone.
USE DEF lateVars

\* TypeOK in three parts.
BlkTypes ==
  /\ free \in SUBSET Blocks /\ sent \in SUBSET Blocks
  /\ timedOut \in SUBSET Blocks /\ queued \in Seq(Blocks)
  /\ bque \in [Blocks -> BlockQues]
  /\ bmsg \in [Blocks -> Msgs \cup {None}]
  /\ bslot \in [Blocks -> Slots \cup {None}]
  /\ bclb \in [Blocks -> Clbs]
  /\ expired \in SUBSET Blocks
UsrTypes ==
  /\ data \in [Msgs -> Blocks \cup {None}]
  /\ slotAt \in [Slots -> SlotPlaces]
  /\ ust \in [Msgs -> UserPcs]
  /\ tasklet \in [pc : TaskletPcs, block : Blocks \cup {None},
                  slot : Slots \cup {None}]
  /\ timer \in [pc : TimerPcs, block : Blocks \cup {None}]
  /\ lateCfm \in SUBSET Blocks /\ lateTmr \in SUBSET Blocks
CtlTypes ==
  /\ active \in BOOLEAN /\ evt \in BOOLEAN /\ mutex \in Msgs \cup {None}
  /\ refCnt \in Nat /\ zeroEvt \in BOOLEAN
  /\ res \in [Msgs -> {"none", "OK", "TIMEOUT", "UNKNOWN"}]
  /\ confirmed \in SUBSET Msgs /\ kpc \in CleanupPcs
  /\ corrupt \in BOOLEAN

\* The type invariant in three parts, so that a step needs only one of them.
LEMMA TypeParts == TypeOK <=> BlkTypes /\ UsrTypes /\ CtlTypes
BY DEF TypeOK, BlkTypes, UsrTypes, CtlTypes

\* BlockPlaced: every block is where block->que says, and only there.
PlacedInv ==
  /\ \A b \in Blocks : /\ b \in free <=> bque[b] = "FREE"
                       /\ b \in sent <=> bque[b] = "SENT"
                       /\ b \in timedOut \ lateTmr <=> bque[b] = "TIMED_OUT"
                       /\ Has(queued, b) <=> bque[b] = "QUEUED"
  /\ Distinct(queued)

\* Linked: messages and blocks name each other; a free block names nothing.
DataInv ==
  /\ \A m \in Msgs : data[m] # None => bmsg[data[m]] = m
  /\ \A b \in Blocks : bque[b] # "FREE" => bmsg[b] # None /\ data[bmsg[b]] = b
  /\ \A b \in Blocks : bque[b] = "FREE" => bmsg[b] = None /\ bclb[b] = "none"

\* The tasklet or the timer has taken block b out of its queue and is about to
\* call its callback, and the message has not been cancelled since.
Answering == {"clbSent", "clbQueued"}
Holds(b) ==
  \/ tasklet.pc = "clb" /\ tasklet.block = b /\ b \notin lateCfm
  \/ timer.pc \in Answering /\ timer.block = b /\ b \notin lateTmr

\* A user that has data and has not sent it yet has a block that nobody else
\* knows of; only blocked senders are inside a blocked send.
Inside == {"mutex", "locked", "wait", "fin"}
Ready == {"attached", "mutex", "locked"}
UserInv ==
  \A m \in Msgs :
    /\ ust[m] \in Ready => /\ data[m] \in Blocks
                           /\ bque[data[m]] = "NONE"
                           /\ ~Holds(data[m])
    /\ ust[m] \in Inside \cup {"returned"} => m \in BlockedMsgs

\* The blocks that are held are in no queue, and held once.
HeldInv ==
  /\ tasklet.pc = "clb" => tasklet.block \in Blocks
  /\ timer.pc \in Answering => timer.block \in Blocks
  /\ \A b \in Blocks : Holds(b) => bque[b] = "NONE"
  /\ \A b \in Blocks :
       ~ /\ tasklet.pc = "clb" /\ tasklet.block = b /\ b \notin lateCfm
         /\ timer.pc \in Answering /\ timer.block = b /\ b \notin lateTmr

\* The timer looks for blocks that are due only when it has dealt with those it
\* has found, the cancelled ones included.
LateInv ==
  /\ timer.pc \in {"idle", "scanQueued"} => timedOut = {}
  /\ \A b \in lateTmr :
       b \in timedOut \/ (timer.pc \in Answering /\ timer.block = b)

\* A block that waits for an answer has a callback, of its message's kind.
ClbInv ==
  \A b \in Blocks :
    /\ bclb[b] \in {"async", "timed"} => bmsg[b] \in Async \cup Timed
    /\ bque[b] \in {"SENT", "QUEUED", "TIMED_OUT"} \/ Holds(b) =>
         bclb[b] # "none"

\* SlotOwnership, and the slot the tasklet works on.
SlotInv ==
  /\ \A b \in sent : /\ bslot[b] \in Slots
                     /\ slotAt[bslot[b]] \in {"hand", "fw"}
  /\ \A b, c \in sent : bslot[b] = bslot[c] => b = c
  /\ tasklet.pc # "idle" =>
       tasklet.slot \in Slots /\ slotAt[tasklet.slot] = "cfm"

\* The reference count of the remove lock: one for each sender inside, and one
\* until the clean-up gives its own back.
Senders == {m \in Msgs : ust[m] \in Inside}
RefInv ==
  /\ kpc \in {"up", "signal", "release"} =>
       refCnt = Cardinality(Senders) + 1 /\ ~zeroEvt
  /\ kpc = "drain" => /\ refCnt = Cardinality(Senders)
                      /\ zeroEvt <=> Cardinality(Senders) = 0
  /\ kpc = "cleaned" =>
       \/ refCnt = Cardinality(Senders) + 1 /\ ~zeroEvt
       \/ refCnt = 0 /\ Cardinality(Senders) = 0 /\ zeroEvt

\* Only the callback of a block that was cancelled too late corrupts.
CorruptInv == corrupt => lateCfm \cup lateTmr # {}

IInv == /\ TypeOK /\ PlacedInv /\ DataInv /\ UserInv /\ HeldInv /\ ClbInv
        /\ LateInv /\ SlotInv /\ RefInv /\ CorruptInv

\* The part of it that the effects below need.
BlockInv == /\ BlkTypes /\ UsrTypes /\ PlacedInv /\ DataInv /\ UserInv
            /\ HeldInv /\ ClbInv /\ LateInv

-----------------------------------------------------------------------------
(***************************************************************************)
(* What the operators the actions are built from do to the blocks.          *)
(***************************************************************************)
\* The blocks of G enter QUEUED at the end; those of R leave it at the front,
\* those of W anywhere.
QueueStep(G, R, W) ==
  /\ queued' \in Seq(Blocks)
  /\ Distinct(queued')
  /\ \A c : Has(queued', c) <=>
              (Has(queued, c) \/ c \in G) /\ c \notin R /\ c \notin W
  /\ \A c, d : Ahead(queued, c, d) =>
                 c \in R \/ c \in W \/ d \in W \/ Ahead(queued', c, d)

\* A step that leaves QUEUED alone.
LEMMA QueueStays ==
  ASSUME BlkTypes, PlacedInv, UNCHANGED queued
  PROVE  QueueStep({}, {}, {})
BY DEF BlkTypes, PlacedInv, QueueStep

\* Block b enters QUEUED.
LEMMA AppendEffect ==
  ASSUME BlkTypes, PlacedInv, NEW b \in Blocks, bque[b] # "QUEUED",
         queued' = Append(queued, b)
  PROVE  QueueStep({b}, {}, {})
<1>1. queued \in Seq(Blocks) /\ Distinct(queued) /\ ~Has(queued, b)
  BY DEF BlkTypes, PlacedInv
<1> QED
  BY <1>1, AppendFacts DEF QueueStep

\* A block is sent in slot s: itself, or an earlier one, h, that takes the slot.
SentInstead(b, h, s) ==
  /\ slotAt[s] = "pool"
  /\ h = b \/ bque[h] = "QUEUED"
  /\ QueueStep({b}, {h}, {})
  /\ slotAt' = [slotAt EXCEPT ![s] = "hand"]
  /\ sent' = sent \cup {h}
  /\ bslot' = [bslot EXCEPT ![h] = s]
  /\ bque' = [[bque EXCEPT ![b] = "QUEUED"] EXCEPT ![h] = "SENT"]
SentLater(b) ==
  /\ QueueStep({b}, {}, {})
  /\ bque' = [bque EXCEPT ![b] = "QUEUED"]
  /\ bslot' = [bslot EXCEPT ![b] = None]
  /\ UNCHANGED <<sent, slotAt>>

\* _mtlk_txmm_send: the block waits in QUEUED, or the head goes to a slot.
LEMMA SendEffect ==
  ASSUME BlkTypes, PlacedInv, NEW m, NEW clb, data[m] \in Blocks,
         bque[data[m]] = "NONE", SendEx(m, clb)
  PROVE  \/ SentLater(data[m])
         \/ \E s \in Slots, h \in Blocks : SentInstead(data[m], h, s)
<1> DEFINE b == data[m]
           q == Append(queued, b)
<1>0. b \in Blocks /\ bque[b] = "NONE"
  OBVIOUS
<1>1. queued \in Seq(Blocks) /\ Distinct(queued) /\ ~Has(queued, b)
  BY DEF BlkTypes, PlacedInv
<1>2. /\ q \in Seq(Blocks) /\ q # <<>> /\ Distinct(q)
      /\ \A c : Has(q, c) <=> Has(queued, c) \/ c = b
      /\ \A c, d : Ahead(queued, c, d) => Ahead(q, c, d)
  BY <1>0, <1>1, AppendFacts
<1>3. CASE /\ queued' = q
           /\ bque' = [bque EXCEPT ![b] = "QUEUED"]
           /\ bslot' = [bslot EXCEPT ![b] = None]
           /\ UNCHANGED <<sent, slotAt>>
  <2>1. QueueStep({b}, {}, {})
    BY <1>0, <1>3, AppendEffect
  <2> QED
    BY <1>3, <2>1 DEF SentLater
<1>4. ASSUME NEW s \in Pool, Pump(s, q),
             bque' = [[bque EXCEPT ![b] = "QUEUED"] EXCEPT ![Head(q)] = "SENT"]
      PROVE  \E h \in Blocks : SentInstead(b, h, s)
  <2> DEFINE h == Head(q)
  <2> HIDE DEF q
  <2>1. /\ h \in Blocks /\ Has(q, h)
        /\ Tail(q) \in Seq(Blocks) /\ Distinct(Tail(q))
        /\ \A c : Has(Tail(q), c) <=> Has(q, c) /\ c # h
        /\ \A c, d : Ahead(q, c, d) => c = h \/ Ahead(Tail(q), c, d)
    BY <1>2, TailFacts
  <2>2. /\ slotAt' = [slotAt EXCEPT ![s] = "hand"]
        /\ queued' = Tail(q)
        /\ sent' = sent \cup {h}
        /\ bslot' = [bslot EXCEPT ![h] = s]
    BY <1>2, <1>4 DEF Pump
  <2>3. bque' = [[bque EXCEPT ![b] = "QUEUED"] EXCEPT ![h] = "SENT"]
    BY <1>4
  <2> HIDE DEF h
  <2>4. QueueStep({b}, {h}, {})
    BY <1>2, <2>1, <2>2 DEF QueueStep
  <2>5. h = b \/ bque[h] = "QUEUED"
    BY <1>2, <2>1 DEF PlacedInv
  <2>6. slotAt[s] = "pool"
    BY DEF Pool
  <2> HIDE DEF b
  <2> QED
    BY <2>1, <2>2, <2>3, <2>4, <2>5, <2>6 DEF SentInstead
<1>5. Pool \subseteq Slots
  BY DEF Pool
<1>6. \/ /\ queued' = q
         /\ bque' = [bque EXCEPT ![b] = "QUEUED"]
         /\ bslot' = [bslot EXCEPT ![b] = None]
         /\ UNCHANGED <<sent, slotAt>>
      \/ \E s \in Pool :
           /\ Pump(s, q)
           /\ bque' = [[bque EXCEPT ![b] = "QUEUED"] EXCEPT ![Head(q)] = "SENT"]
  BY DEF SendEx
<1> HIDE DEF b, q
<1>7. CASE \E s \in Pool :
           /\ Pump(s, q)
           /\ bque' = [[bque EXCEPT ![b] = "QUEUED"] EXCEPT ![Head(q)] = "SENT"]
  BY <1>4, <1>5, <1>7 DEF b
<1> QED
  BY <1>3, <1>6, <1>7 DEF b

\* The pump: the confirmed slot carries the first queued block h, or is free.
Pumped(h, s) ==
  /\ bque[h] = "QUEUED"
  /\ QueueStep({}, {h}, {})
  /\ slotAt' = [slotAt EXCEPT ![s] = "hand"]
  /\ sent' = sent \cup {h}
  /\ bslot' = [bslot EXCEPT ![h] = s]
  /\ bque' = [bque EXCEPT ![h] = "SENT"]
SlotFreed(s) ==
  /\ QueueStep({}, {}, {})
  /\ slotAt' = [slotAt EXCEPT ![s] = "pool"]
  /\ UNCHANGED <<sent, bslot, bque>>

\* _mtlk_txmm_pump with a slot: the head takes it, or it returns to the pool.
LEMMA PumpEffect ==
  ASSUME BlkTypes, PlacedInv, OnCfmPump
  PROVE  \/ SlotFreed(tasklet.slot)
         \/ \E h \in Blocks : Pumped(h, tasklet.slot)
<1> DEFINE s == tasklet.slot
           h == Head(queued)
<1>1. CASE queued = <<>>
  <2>1. /\ UNCHANGED queued
        /\ slotAt' = [slotAt EXCEPT ![s] = "pool"]
        /\ UNCHANGED <<sent, bslot, bque>>
    BY <1>1 DEF OnCfmPump, Pump
  <2> HIDE DEF s
  <2> QED
    BY <2>1, QueueStays DEF SlotFreed, s
<1>2. CASE queued # <<>>
  <2>1. queued \in Seq(Blocks) /\ Distinct(queued)
    BY DEF BlkTypes, PlacedInv
  <2>2. /\ h \in Blocks /\ Has(queued, h)
        /\ Tail(queued) \in Seq(Blocks) /\ Distinct(Tail(queued))
        /\ \A c : Has(Tail(queued), c) <=> Has(queued, c) /\ c # h
        /\ \A c, d : Ahead(queued, c, d) => c = h \/ Ahead(Tail(queued), c, d)
    BY <1>2, <2>1, TailFacts
  <2>3. /\ slotAt' = [slotAt EXCEPT ![s] = "hand"]
        /\ queued' = Tail(queued)
        /\ sent' = sent \cup {h}
        /\ bslot' = [bslot EXCEPT ![h] = s]
        /\ bque' = [bque EXCEPT ![h] = "SENT"]
    BY <1>2 DEF OnCfmPump, Pump
  <2> HIDE DEF h, s
  <2>4. QueueStep({}, {h}, {})
    BY <2>2, <2>3 DEF QueueStep
  <2>5. bque[h] = "QUEUED"
    BY <2>2 DEF PlacedInv
  <2>6. Pumped(h, s)
    BY <2>3, <2>4, <2>5 DEF Pumped
  <2> QED
    BY <2>2, <2>6 DEF s
<1> QED
  BY <1>1, <1>2

\* The block of a cancelled message leaves the queue it is in.
LEMMA UnlinkEffect ==
  ASSUME BlkTypes, PlacedInv, NEW b \in Blocks, Unlink(b)
  PROVE  QueueStep({}, {}, {b}) /\ sent' = sent \ {b}
<1>1. sent' = sent \ {b}
  BY DEF Unlink, PlacedInv
<1>2. CASE bque[b] = "QUEUED"
  <2>1. queued \in Seq(Blocks) /\ Distinct(queued) /\ Has(queued, b)
    BY <1>2 DEF BlkTypes, PlacedInv
  <2>2. queued' = RemoveAt(queued, IndexOf(queued, b))
    BY <1>2 DEF Unlink
  <2>3. /\ queued' \in Seq(Blocks) /\ Distinct(queued')
        /\ \A c : Has(queued', c) <=> Has(queued, c) /\ c # b
        /\ \A c, d : Ahead(queued, c, d) /\ c # b /\ d # b =>
                       Ahead(queued', c, d)
    BY <2>1, <2>2, RemoveAtFacts
  <2> QED
    BY <1>1, <2>3 DEF QueueStep
<1>3. CASE bque[b] # "QUEUED"
  <2>1. UNCHANGED queued /\ ~Has(queued, b)
    BY <1>3 DEF Unlink, PlacedInv
  <2> QED
    BY <1>1, <2>1 DEF QueueStep, BlkTypes, PlacedInv
<1> QED
  BY <1>2, <1>3

\* The callback of a block that is held: the event of a blocked send is set,
\* the message is sent again, or block and message part.
Answered(b) ==
  /\ bclb[b] \notin {"async", "timed"}
  /\ QueueStep({}, {}, {})
  /\ UNCHANGED <<free, bque, bmsg, bslot, bclb, expired, data, ust>>
SentAgain(b) ==
  /\ QueueStep({b}, {}, {})
  /\ bque' = [bque EXCEPT ![b] = "QUEUED"]
  /\ expired' = expired \ {b}
  /\ UNCHANGED <<free, bmsg, bslot, bclb, data, ust>>
Parted(b) ==
  /\ bclb[b] \in {"async", "timed"}
  /\ QueueStep({}, {}, {})
  /\ FreeBuf(b)
  /\ data' = [data EXCEPT ![bmsg[b]] = None]
  /\ ust' = [ust EXCEPT ![bmsg[b]] = "idle"]

\* _mtlk_txmm_call_usr_clb_locked never meets a NULL pointer, and ends in one
\* of three ways.
LEMMA CallbackEffect ==
  ASSUME BlkTypes, UsrTypes, PlacedInv, DataInv, NEW b \in Blocks,
         bque[b] = "NONE", bclb[b] # "none", NEW reason,
         CallUsrClb(b, reason)
  PROVE  /\ bmsg[b] \in Msgs
         /\ data[bmsg[b]] = b
         /\ Answered(b) \/ SentAgain(b) \/ Parted(b)
<1> DEFINE m == bmsg[b]
<1>1. m \in Msgs /\ data[m] = b /\ b # None
  BY TxmmAssumption DEF DataInv, BlkTypes
<1>2. CASE bclb[b] = "blocked"
  <2>1. UNCHANGED <<free, queued, blkVars, expired, data, ust>>
    BY <1>1, <1>2 DEF CallUsrClb
  <2> QED
    BY <1>1, <1>2, <2>1, QueueStays DEF Answered, blkVars
<1>3. CASE /\ bclb[b] \in {"async", "timed"}
           /\ m \in Resend /\ reason = "CONFIRMED"
  <2>1. /\ queued' = Append(queued, b)
        /\ bque' = [bque EXCEPT ![b] = "QUEUED"]
        /\ expired' = expired \ {b}
        /\ UNCHANGED <<free, bmsg, bslot, bclb, data, ust>>
    BY <1>1, <1>3 DEF CallUsrClb
  <2> QED
    BY <1>1, <2>1, AppendEffect DEF SentAgain
<1>4. CASE /\ bclb[b] \in {"async", "timed"}
           /\ ~(m \in Resend /\ reason = "CONFIRMED")
  <2>1. /\ FreeBuf(b)
        /\ data' = [data EXCEPT ![m] = None]
        /\ ust' = [ust EXCEPT ![m] = "idle"]
        /\ UNCHANGED queued
    BY <1>1, <1>4 DEF CallUsrClb
  <2> QED
    BY <1>1, <1>4, <2>1, QueueStays DEF Parted
<1>5. bclb[b] \in {"blocked", "async", "timed"}
  BY <1>1 DEF CallUsrClb, BlkTypes, Clbs
<1> QED
  BY <1>1, <1>2, <1>3, <1>4, <1>5

\* The blocks of QUEUED that the timer moves to TIMED_OUT.
LEMMA ScanEffect ==
  ASSUME BlkTypes, PlacedInv, TimerScansQueued
  PROVE  \E D \in SUBSET Blocks :
           /\ \A b \in D : bque[b] = "QUEUED"
           /\ QueueStep({}, {}, D)
           /\ timedOut' = timedOut \cup D
           /\ bque' = [b \in Blocks |->
                         IF b \in D THEN "TIMED_OUT" ELSE bque[b]]
<1> DEFINE D == IF ScanSees(Len(queued))
                THEN {b \in Blocks : Due(b) /\ InQueued(b)} ELSE {}
<1>1. /\ queued' = Kept(queued, D)
      /\ timedOut' = timedOut \cup D
      /\ bque' = [b \in Blocks |-> IF b \in D THEN "TIMED_OUT" ELSE bque[b]]
  BY DEF TimerScansQueued
<1>2. D \in SUBSET Blocks /\ \A b \in D : Has(queued, b)
  BY DEF InQueued, Has
<1> HIDE DEF D
<1>3. queued \in Seq(Blocks) /\ Distinct(queued)
  BY DEF BlkTypes, PlacedInv
<1>4. /\ queued' \in Seq(Blocks) /\ Distinct(queued')
      /\ \A c : Has(queued', c) <=> Has(queued, c) /\ c \notin D
      /\ \A c, d : Ahead(queued, c, d) /\ c \notin D /\ d \notin D =>
                     Ahead(queued', c, d)
  BY <1>1, <1>3, KeptFacts
<1>5. QueueStep({}, {}, D)
  BY <1>4 DEF QueueStep
<1>6. \A b \in D : bque[b] = "QUEUED"
  BY <1>2 DEF PlacedInv
<1> QED
  BY <1>1, <1>2, <1>5, <1>6

(***************************************************************************)
(* The actions in those terms.                                              *)
(***************************************************************************)
\* MsgSend and BlockedSend.
Sends(m, clb) ==
  /\ ust[m] \in Ready
  /\ data[m] \in Blocks /\ bque[data[m]] = "NONE" /\ ~Holds(data[m])
  /\ clb \in Clbs \ {"none"}
  /\ clb \in {"async", "timed"} => m \in Async \cup Timed
  /\ \/ SentLater(data[m])
     \/ \E s \in Slots, h \in Blocks : SentInstead(data[m], h, s)
  /\ bclb' = [bclb EXCEPT ![data[m]] = clb]
  /\ expired' = expired \ {data[m]}
  /\ \/ ust' = [ust EXCEPT ![m] = "sent"]
     \/ m \in BlockedMsgs /\ ust' = [ust EXCEPT ![m] = "wait"]
  /\ UNCHANGED <<free, timedOut, bmsg, data, tasklet, timer, lateCfm, lateTmr>>

\* Both ways of sending a message, seen from the block.
LEMMA Sending ==
  ASSUME BlockInv, NEW m \in Msgs, MsgSend(m) \/ BlockedSend(m)
  PROVE  \E clb : Sends(m, clb)
<1>1. ust[m] \in Ready
  BY DEF MsgSend, BlockedSend, Ready
<1>2. data[m] \in Blocks /\ bque[data[m]] = "NONE" /\ ~Holds(data[m])
  BY <1>1 DEF BlockInv, UserInv
<1>3. ASSUME NEW clb \in Clbs \ {"none"}, SendEx(m, clb),
             clb \in {"async", "timed"} => m \in Async \cup Timed,
             \/ ust' = [ust EXCEPT ![m] = "sent"]
             \/ m \in BlockedMsgs /\ ust' = [ust EXCEPT ![m] = "wait"],
             UNCHANGED <<free, timedOut, bmsg, data, tasklet, timer, lateCfm,
                         lateTmr>>
      PROVE  Sends(m, clb)
  <2>1. \/ SentLater(data[m])
        \/ \E s \in Slots, h \in Blocks : SentInstead(data[m], h, s)
    BY <1>2, <1>3, SendEffect DEF BlockInv
  <2>2. /\ bclb' = [bclb EXCEPT ![data[m]] = clb]
        /\ expired' = expired \ {data[m]}
    BY <1>3 DEF SendEx
  <2> QED
    BY <1>1, <1>2, <1>3, <2>1, <2>2 DEF Sends
<1>4. CASE MsgSend(m)
  <2> DEFINE clb == IF m \in Timed THEN "timed" ELSE "async"
  <2>1. /\ clb \in Clbs \ {"none"} /\ SendEx(m, clb)
        /\ clb \in {"async", "timed"} => m \in Async \cup Timed
        /\ ust' = [ust EXCEPT ![m] = "sent"]
        /\ UNCHANGED <<free, timedOut, bmsg, data, tasklet, timer, lateCfm,
                       lateTmr>>
    BY <1>4 DEF MsgSend, Clbs
  <2> HIDE DEF clb
  <2> QED
    BY <1>3, <2>1
<1>5. CASE BlockedSend(m)
  <2>1. /\ "blocked" \in Clbs \ {"none"} /\ SendEx(m, "blocked")
        /\ m \in BlockedMsgs
        /\ ust' = [ust EXCEPT ![m] = "wait"]
        /\ UNCHANGED <<free, timedOut, bmsg, data, tasklet, timer, lateCfm,
                       lateTmr>>
    BY <1>5 DEF BlockedSend, Clbs, BlockInv, UserInv, Inside
  <2> QED
    BY <1>3, <2>1
<1> QED
  BY <1>4, <1>5

\* MsgCancel.  Nobody holds the block any more, in the sense above.
Cancels(m) ==
  /\ ust[m] \notin Inside
  /\ data[m] \in Blocks /\ bque[data[m]] # "FREE"
  /\ QueueStep({}, {}, {data[m]})
  /\ sent' = sent \ {data[m]}
  /\ FreeBuf(data[m])
  /\ data' = [data EXCEPT ![m] = None]
  /\ ust' = [ust EXCEPT ![m] = "idle"]
  /\ \A c : Holds(c)' <=> Holds(c) /\ c # data[m]
  /\ lateCfm \subseteq lateCfm' /\ lateCfm' \subseteq lateCfm \cup {data[m]}
  /\ lateTmr \subseteq lateTmr' /\ lateTmr' \subseteq lateTmr \cup {data[m]}
  /\ data[m] \in timedOut => data[m] \in lateTmr'
  /\ data[m] \in lateTmr' \ lateTmr => TmrCallbackDue(data[m])
  /\ UNCHANGED <<timedOut, slotAt, tasklet, timer>>

\* mtlk_txmm_msg_cancel, at any time.
LEMMA Cancelling ==
  ASSUME BlockInv, NEW m \in Msgs, MsgCancel(m)
  PROVE  Cancels(m)
<1> DEFINE b == data[m]
<1>1. b \in Blocks /\ b # None
  BY DEF MsgCancel, BlockInv, UsrTypes
<1>2. bque[b] # "FREE"
  BY <1>1, TxmmAssumption DEF BlockInv, DataInv
<1>3. /\ Unlink(b) /\ FreeBuf(b)
      /\ data' = [data EXCEPT ![m] = None]
      /\ ust' = [ust EXCEPT ![m] = "idle"]
      /\ ust[m] \notin Inside
      /\ UNCHANGED <<timedOut, slotAt, tasklet, timer>>
  BY DEF MsgCancel, Inside
<1>4. /\ lateCfm' = IF CfmCallbackDue(b) THEN lateCfm \cup {b} ELSE lateCfm
      /\ lateTmr' = IF TmrCallbackDue(b) THEN lateTmr \cup {b} ELSE lateTmr
  BY DEF MsgCancel
<1>5. QueueStep({}, {}, {b}) /\ sent' = sent \ {b}
  BY <1>1, <1>3, UnlinkEffect DEF BlockInv
<1> HIDE DEF b
<1>6. \A c : Holds(c)' <=> Holds(c) /\ c # b
  BY <1>3, <1>4 DEF Holds, CfmCallbackDue, TmrCallbackDue, Answering
<1>7. b \in timedOut => b \in lateTmr'
  BY <1>4 DEF TmrCallbackDue
<1>8. b \in lateTmr' \ lateTmr => TmrCallbackDue(b)
  BY <1>4
<1>9. /\ lateCfm \subseteq lateCfm' /\ lateCfm' \subseteq lateCfm \cup {b}
      /\ lateTmr \subseteq lateTmr' /\ lateTmr' \subseteq lateTmr \cup {b}
  BY <1>4
<1> QED
  BY <1>1, <1>2, <1>3, <1>5, <1>6, <1>7, <1>8, <1>9 DEF Cancels, b

\* OnCfmCallback and TimerCallback: who called, goes on with its work.
Returns ==
  \/ /\ tasklet.pc = "clb"
     /\ tasklet' = [tasklet EXCEPT !.pc = "pump", !.block = None]
     /\ UNCHANGED timer
  \/ /\ timer.pc \in Answering
     /\ timer' = [pc |-> IF timer.pc = "clbSent" THEN "popSent"
                         ELSE "popQueued", block |-> None]
     /\ UNCHANGED tasklet
Calls(b) ==
  /\ Holds(b) /\ bque[b] = "NONE"
  /\ bmsg[b] \in Msgs /\ data[bmsg[b]] = b
  /\ ust[bmsg[b]] \notin Ready
  /\ Answered(b) \/ SentAgain(b) \/ Parted(b)
  /\ \A c : Holds(c)' => Holds(c) /\ c # b
  /\ UNCHANGED <<sent, timedOut, slotAt, lateCfm, lateTmr>>
  /\ Returns

\* The callback of the tasklet and that of the timer, seen from the block.
LEMMA Calling ==
  ASSUME BlockInv, OnCfmCallback \/ TimerCallback
  PROVE  \E b \in Blocks : Calls(b)
<1>1. ASSUME NEW b \in Blocks, bque[b] = "NONE", Holds(b), NEW reason,
             CallUsrClb(b, reason)
      PROVE  /\ bmsg[b] \in Msgs /\ data[bmsg[b]] = b
             /\ ust[bmsg[b]] \notin Ready
             /\ Answered(b) \/ SentAgain(b) \/ Parted(b)
  <2>0. bclb[b] # "none"
    BY <1>1 DEF BlockInv, ClbInv
  <2>1. /\ bmsg[b] \in Msgs /\ data[bmsg[b]] = b
        /\ Answered(b) \/ SentAgain(b) \/ Parted(b)
    BY <1>1, <2>0, CallbackEffect DEF BlockInv
  <2>2. ust[bmsg[b]] \notin Ready
    BY <1>1, <2>1 DEF BlockInv, UserInv
  <2> QED
    BY <2>1, <2>2
<1>2. CASE OnCfmCallback
  <2> DEFINE b == tasklet.block
  <2>1. /\ b \in Blocks /\ bque[b] = "NONE" /\ Holds(b)
        /\ timer.pc \in Answering /\ timer.block = b => b \in lateTmr
    BY <1>2 DEF OnCfmCallback, BlockInv, HeldInv, Holds
  <2>2. /\ CallUsrClb(b, "CONFIRMED")
        /\ tasklet.pc = "clb"
        /\ tasklet' = [tasklet EXCEPT !.pc = "pump", !.block = None]
        /\ UNCHANGED <<sent, timedOut, slotAt, timer, lateCfm, lateTmr>>
    BY <1>2 DEF OnCfmCallback
  <2>3. tasklet'.pc = "pump"
    BY <2>2 DEF BlockInv, UsrTypes
  <2>4. \A c : Holds(c)' => Holds(c) /\ c # b
    BY <2>1, <2>2, <2>3 DEF Holds
  <2>5. /\ bmsg[b] \in Msgs /\ data[bmsg[b]] = b
        /\ ust[bmsg[b]] \notin Ready
        /\ Answered(b) \/ SentAgain(b) \/ Parted(b)
    BY <1>1, <2>1, <2>2
  <2> QED
    BY <2>1, <2>2, <2>4, <2>5 DEF Calls, Returns
<1>3. CASE TimerCallback
  <2> DEFINE b == timer.block
  <2>1. /\ b \in Blocks /\ bque[b] = "NONE" /\ Holds(b)
        /\ tasklet.pc = "clb" /\ tasklet.block = b => b \in lateCfm
    BY <1>3 DEF TimerCallback, BlockInv, HeldInv, Holds, Answering
  <2>2. /\ CallUsrClb(b, "TIMEOUT")
        /\ timer.pc \in Answering
        /\ timer' = [pc |-> IF timer.pc = "clbSent" THEN "popSent"
                            ELSE "popQueued", block |-> None]
        /\ UNCHANGED <<sent, timedOut, slotAt, tasklet, lateCfm, lateTmr>>
    BY <1>3 DEF TimerCallback, Answering
  <2>3. timer'.pc \notin Answering
    BY <2>2 DEF Answering
  <2>4. \A c : Holds(c)' => Holds(c) /\ c # b
    BY <2>1, <2>2, <2>3 DEF Holds
  <2>5. /\ bmsg[b] \in Msgs /\ data[bmsg[b]] = b
        /\ ust[bmsg[b]] \notin Ready
        /\ Answered(b) \/ SentAgain(b) \/ Parted(b)
    BY <1>1, <2>1, <2>2
  <2> QED
    BY <2>1, <2>2, <2>4, <2>5 DEF Calls, Returns
<1> QED
  BY <1>2, <1>3

\* What a callback's return does to the tasklet and to the timer.
LEMMA Returning ==
  ASSUME UsrTypes, Returns
  PROVE  /\ tasklet' \in [pc : TaskletPcs, block : Blocks \cup {None},
                          slot : Slots \cup {None}]
         /\ timer' \in [pc : TimerPcs, block : Blocks \cup {None}]
         /\ tasklet'.pc = "clb" =>
              tasklet.pc = "clb" /\ tasklet'.block = tasklet.block
         /\ timer'.pc \in Answering =>
              timer.pc \in Answering /\ timer'.block = timer.block
         /\ tasklet'.pc # "idle" =>
              tasklet.pc # "idle" /\ tasklet'.slot = tasklet.slot
<1>1. CASE /\ tasklet.pc = "clb"
           /\ tasklet' = [tasklet EXCEPT !.pc = "pump", !.block = None]
           /\ UNCHANGED timer
  <2>1. tasklet'.pc = "pump" /\ tasklet'.slot = tasklet.slot
    BY <1>1 DEF UsrTypes
  <2>2. tasklet' \in [pc : TaskletPcs, block : Blocks \cup {None},
                      slot : Slots \cup {None}]
    BY <1>1 DEF UsrTypes, TaskletPcs
  <2> QED
    BY <1>1, <2>1, <2>2 DEF UsrTypes
<1>2. CASE /\ timer' = [pc |-> IF timer.pc = "clbSent" THEN "popSent"
                               ELSE "popQueued", block |-> None]
           /\ UNCHANGED tasklet
  <2>1. timer'.pc \in {"popSent", "popQueued"} /\ timer'.block = None
    BY <1>2
  <2>2. timer' \in [pc : TimerPcs, block : Blocks \cup {None}]
    BY <1>2 DEF TimerPcs
  <2>3. timer'.pc \notin Answering
    BY <2>1 DEF Answering
  <2> QED
    BY <1>2, <2>2, <2>3 DEF UsrTypes
<1> QED
  BY <1>1, <1>2 DEF Returns

\* TimerScansSent and TimerScansQueued: the blocks of D, which were in the queue
\* from, go to TIMED_OUT.
TimesOut(D, from) ==
  /\ \A b \in D : b \in Blocks /\ bque[b] = from
  /\ \/ from = "SENT" /\ sent' = sent \ D /\ QueueStep({}, {}, {})
     \/ from = "QUEUED" /\ UNCHANGED sent /\ QueueStep({}, {}, D)
  /\ timedOut' = timedOut \cup D
  /\ bque' = [b \in Blocks |-> IF b \in D THEN "TIMED_OUT" ELSE bque[b]]
  /\ timer.pc \notin Answering /\ timer'.pc \notin Answering
  /\ timer' \in [pc : TimerPcs, block : {None}]
  /\ lateTmr = {}
  /\ UNCHANGED <<free, bmsg, bslot, bclb, expired, data, slotAt, ust, tasklet,
                 lateCfm, lateTmr>>

\* Both scans of the timer, seen from the blocks they take.
LEMMA TimingOut ==
  ASSUME BlockInv, TimerScansSent \/ TimerScansQueued
  PROVE  \E D, from : TimesOut(D, from)
<1>1. CASE TimerScansSent
  <2> DEFINE D == IF ScanSees(Cardinality(sent)) THEN {b \in sent : Due(b)}
                  ELSE {}
  <2>1. D \subseteq sent
    OBVIOUS
  <2>2. /\ sent' = sent \ D
        /\ UNCHANGED queued
        /\ timedOut' = timedOut \cup D
        /\ bque' = [b \in Blocks |-> IF b \in D THEN "TIMED_OUT" ELSE bque[b]]
        /\ UNCHANGED <<free, bmsg, bslot, bclb, expired, data, slotAt, ust,
                       tasklet, lateCfm, lateTmr>>
    BY <1>1 DEF TimerScansSent
  <2>3. timer.pc = "idle" /\ timer' = [pc |-> "popSent", block |-> None]
    BY <1>1 DEF TimerScansSent
  <2> HIDE DEF D
  <2>4. \A b \in D : b \in Blocks /\ bque[b] = "SENT"
    BY <2>1 DEF BlockInv, BlkTypes, PlacedInv
  <2>5. QueueStep({}, {}, {})
    BY <2>2, QueueStays DEF BlockInv
  <2>6. /\ timer.pc \notin Answering /\ timer'.pc \notin Answering
        /\ timer' \in [pc : TimerPcs, block : {None}]
    BY <2>3 DEF Answering, TimerPcs
  <2>7. lateTmr = {}
    BY <2>3 DEF BlockInv, LateInv, Answering
  <2> QED
    BY <2>2, <2>4, <2>5, <2>6, <2>7 DEF TimesOut
<1>2. CASE TimerScansQueued
  <2>1. PICK D \in SUBSET Blocks :
           /\ \A b \in D : bque[b] = "QUEUED"
           /\ QueueStep({}, {}, D)
           /\ timedOut' = timedOut \cup D
           /\ bque' = [b \in Blocks |->
                         IF b \in D THEN "TIMED_OUT" ELSE bque[b]]
    BY <1>2, ScanEffect DEF BlockInv
  <2>2. UNCHANGED <<free, sent, bmsg, bslot, bclb, expired, data, slotAt, ust,
                    tasklet, lateCfm, lateTmr>>
    BY <1>2 DEF TimerScansQueued
  <2>3. timer.pc = "scanQueued" /\ timer' = [pc |-> "popQueued", block |-> None]
    BY <1>2 DEF TimerScansQueued
  <2>4. /\ timer.pc \notin Answering /\ timer'.pc \notin Answering
        /\ timer' \in [pc : TimerPcs, block : {None}]
    BY <2>3 DEF Answering, TimerPcs
  <2>5. lateTmr = {}
    BY <2>3 DEF BlockInv, LateInv, Answering
  <2> QED
    BY <2>1, <2>2, <2>4, <2>5 DEF TimesOut
<1> QED
  BY <1>1, <1>2

-----------------------------------------------------------------------------
(***************************************************************************)
(* The steps: for each part of the invariant the actions that write one of  *)
(* its variables.                                                           *)
(***************************************************************************)
\* Blocks, queues and what the blocks say keep their types.
LEMMA BlkTypesStep ==
  ASSUME BlockInv, [Next]_vars
  PROVE  BlkTypes'
<1>1. CASE UNCHANGED <<free, sent, timedOut, queued, bque, bmsg, bslot, bclb,
                       expired>>
  BY <1>1 DEF BlockInv, BlkTypes, UsrTypes, BlockQues
<1>2. ASSUME NEW m \in Msgs, GetEmptyData(m)
      PROVE  BlkTypes'
  BY <1>2 DEF BlockInv, BlkTypes, UsrTypes, BlockQues, GetEmptyData
<1>3. ASSUME NEW m \in Msgs, MsgSend(m) \/ BlockedSend(m)
      PROVE  BlkTypes'
  <2>1. PICK clb : Sends(m, clb)
    BY <1>3, Sending
  <2>2. CASE SentLater(data[m])
    BY <2>1, <2>2
    DEF BlockInv, BlkTypes, UsrTypes, BlockQues, Sends, SentLater, QueueStep
  <2>3. ASSUME NEW s \in Slots, NEW h \in Blocks, SentInstead(data[m], h, s)
        PROVE  BlkTypes'
    BY <2>1, <2>3
    DEF BlockInv, BlkTypes, UsrTypes, BlockQues, Sends, SentInstead, QueueStep
  <2> QED
    BY <2>1, <2>2, <2>3 DEF Sends
<1>4. ASSUME NEW m \in Msgs, MsgCancel(m)
      PROVE  BlkTypes'
  <2>1. Cancels(m)
    BY <1>4, Cancelling
  <2> QED
    BY <2>1
    DEF BlockInv, BlkTypes, UsrTypes, BlockQues, Cancels, FreeBuf, QueueStep,
        Clbs
<1>5. ASSUME NEW s \in Slots, OnCfm(s)
      PROVE  BlkTypes'
  BY <1>5 DEF BlockInv, BlkTypes, UsrTypes, BlockQues, OnCfm
<1>6. CASE OnCfmCallback \/ TimerCallback
  <2>1. PICK b \in Blocks : Calls(b)
    BY <1>6, Calling
  <2>2. CASE Answered(b)
    BY <2>1, <2>2
    DEF BlockInv, BlkTypes, UsrTypes, BlockQues, Calls, Answered, QueueStep
  <2>3. CASE SentAgain(b)
    BY <2>1, <2>3
    DEF BlockInv, BlkTypes, UsrTypes, BlockQues, Calls, SentAgain, QueueStep
  <2>4. CASE Parted(b)
    BY <2>1, <2>4
    DEF BlockInv, BlkTypes, UsrTypes, BlockQues, Calls, Parted, FreeBuf,
        QueueStep, Clbs
  <2> QED
    BY <2>1, <2>2, <2>3, <2>4 DEF Calls
<1>7. CASE OnCfmPump
  <2>1. /\ tasklet.pc = "pump"
        /\ tasklet' = [pc |-> "idle", block |-> None, slot |-> None]
        /\ UNCHANGED <<free, timedOut, bmsg, bclb, expired, data, ust, timer,
                       lateCfm, lateTmr>>
    BY <1>7 DEF OnCfmPump
  <2>2. CASE SlotFreed(tasklet.slot)
    BY <2>1, <2>2
    DEF BlockInv, BlkTypes, UsrTypes, BlockQues, SlotFreed, QueueStep
  <2>3. ASSUME NEW h \in Blocks, Pumped(h, tasklet.slot)
        PROVE  BlkTypes'
    BY <2>1, <2>3
    DEF BlockInv, BlkTypes, UsrTypes, BlockQues, Pumped, QueueStep
  <2> QED
    BY <1>7, <2>2, <2>3, PumpEffect DEF BlockInv
<1>8. ASSUME NEW b \in Blocks, Expire(b)
      PROVE  BlkTypes'
  BY <1>8
  DEF BlockInv, BlkTypes, UsrTypes, BlockQues, Expire, queVars, blkVars
<1>9. CASE TimerScansSent \/ TimerScansQueued
  <2>1. PICK D, from : TimesOut(D, from)
    BY <1>9, TimingOut
  <2> QED
    BY <2>1 DEF BlockInv, BlkTypes, UsrTypes, BlockQues, TimesOut, QueueStep
<1>10. ASSUME NEW b \in Blocks, TimerPops(b)
      PROVE  BlkTypes'
  BY <1>10 DEF BlockInv, BlkTypes, UsrTypes, BlockQues, TimerPops
<1> QED
  BY <1>1, <1>2, <1>3, <1>4, <1>5, <1>6, <1>7, <1>8, <1>9, <1>10
  DEF Next, Tasklet, Timer, OnCfmFreed, TimerFreed, CallFreedClb,
      Cleanup, BlockedProceeds, HandToFw, BlockedEnter,
      BlockedLock, BlockedWait, BlockedUnlock, BlockedReturn, TimerEndsQueue,
      Halt, CleanupBegin, CleanupSignal, CleanupRelease, CleanupDrained, vars,
      queVars, blkVars

\* A block is where block->que says.
LEMMA PlacedStep ==
  ASSUME BlockInv, [Next]_vars
  PROVE  PlacedInv'
<1>1. CASE UNCHANGED <<free, sent, timedOut, queued, bque, lateTmr>>
  BY <1>1 DEF BlockInv, BlkTypes, PlacedInv
<1>2. ASSUME NEW m \in Msgs, GetEmptyData(m)
      PROVE  PlacedInv'
  BY <1>2 DEF BlockInv, BlkTypes, PlacedInv, GetEmptyData
<1>3. ASSUME NEW m \in Msgs, MsgSend(m) \/ BlockedSend(m)
      PROVE  PlacedInv'
  <2>1. PICK clb : Sends(m, clb)
    BY <1>3, Sending
  <2>2. CASE SentLater(data[m])
    BY <2>1, <2>2
    DEF BlockInv, BlkTypes, PlacedInv, Sends, SentLater, QueueStep
  <2>3. ASSUME NEW s \in Slots, NEW h \in Blocks, SentInstead(data[m], h, s)
        PROVE  PlacedInv'
    BY <2>1, <2>3
    DEF BlockInv, BlkTypes, PlacedInv, Sends, SentInstead, QueueStep
  <2> QED
    BY <2>1, <2>2, <2>3 DEF Sends
<1>4. ASSUME NEW m \in Msgs, MsgCancel(m)
      PROVE  PlacedInv'
  <2>1. Cancels(m)
    BY <1>4, Cancelling
  <2> QED
    BY <2>1 DEF BlockInv, BlkTypes, PlacedInv, Cancels, FreeBuf, QueueStep
<1>5. ASSUME NEW s \in Slots, OnCfm(s)
      PROVE  PlacedInv'
  BY <1>5 DEF BlockInv, BlkTypes, PlacedInv, OnCfm
<1>6. CASE OnCfmCallback \/ TimerCallback
  <2>1. PICK b \in Blocks : Calls(b)
    BY <1>6, Calling
  <2>2. CASE Answered(b)
    BY <2>1, <2>2
    DEF BlockInv, BlkTypes, PlacedInv, Calls, Answered, QueueStep
  <2>3. CASE SentAgain(b)
    BY <2>1, <2>3
    DEF BlockInv, BlkTypes, PlacedInv, Calls, SentAgain, QueueStep
  <2>4. CASE Parted(b)
    BY <2>1, <2>4
    DEF BlockInv, BlkTypes, PlacedInv, Calls, Parted, FreeBuf, QueueStep
  <2> QED
    BY <2>1, <2>2, <2>3, <2>4 DEF Calls
<1>7. CASE OnCfmPump
  <2>1. /\ tasklet.pc = "pump"
        /\ tasklet' = [pc |-> "idle", block |-> None, slot |-> None]
        /\ UNCHANGED <<free, timedOut, bmsg, bclb, expired, data, ust, timer,
                       lateCfm, lateTmr>>
    BY <1>7 DEF OnCfmPump
  <2>2. CASE SlotFreed(tasklet.slot)
    BY <2>1, <2>2 DEF BlockInv, BlkTypes, PlacedInv, SlotFreed, QueueStep
  <2>3. ASSUME NEW h \in Blocks, Pumped(h, tasklet.slot)
        PROVE  PlacedInv'
    BY <2>1, <2>3 DEF BlockInv, BlkTypes, PlacedInv, Pumped, QueueStep
  <2> QED
    BY <1>7, <2>2, <2>3, PumpEffect DEF BlockInv
<1>8. CASE TimerScansSent \/ TimerScansQueued
  <2>1. PICK D, from : TimesOut(D, from)
    BY <1>8, TimingOut
  <2> QED
    BY <2>1 DEF BlockInv, BlkTypes, PlacedInv, TimesOut, QueueStep
<1>9. ASSUME NEW b \in Blocks, TimerPops(b)
      PROVE  PlacedInv'
  BY <1>9 DEF BlockInv, BlkTypes, PlacedInv, TimerPops
<1> QED
  BY <1>1, <1>2, <1>3, <1>4, <1>5, <1>6, <1>7, <1>8, <1>9
  DEF Next, Tasklet, Timer, OnCfmFreed, TimerFreed, CallFreedClb,
      Cleanup, BlockedProceeds, HandToFw, BlockedEnter,
      BlockedLock, BlockedWait, BlockedUnlock, BlockedReturn, Expire,
      TimerEndsQueue, Halt, CleanupBegin, CleanupSignal, CleanupRelease,
      CleanupDrained, vars, queVars, blkVars

\* Messages and blocks name each other.
LEMMA DataStep ==
  ASSUME BlockInv, [Next]_vars
  PROVE  DataInv'
<1>1. CASE UNCHANGED <<data, bmsg, bque, bclb>>
  BY <1>1 DEF BlockInv, BlkTypes, UsrTypes, PlacedInv, DataInv
<1>2. ASSUME NEW m \in Msgs, GetEmptyData(m)
      PROVE  DataInv'
  <2>1. PICK b \in free :
           /\ bmsg' = [bmsg EXCEPT ![b] = m]
           /\ bque' = [bque EXCEPT ![b] = "NONE"]
           /\ data' = [data EXCEPT ![m] = b]
    BY <1>2 DEF GetEmptyData
  <2>2. /\ ust' = [ust EXCEPT ![m] = "attached"] /\ data[m] = None
        /\ UNCHANGED <<bclb, tasklet, timer, lateCfm, lateTmr>>
    BY <1>2 DEF GetEmptyData
  <2>3. b \in Blocks /\ bque[b] = "FREE" /\ b # None
    BY <2>1, TxmmAssumption DEF BlockInv, BlkTypes, PlacedInv

  <2>4. \A x \in Msgs : data'[x] # None => bmsg'[data'[x]] = x
    BY <2>1, <2>2, <2>3, TxmmAssumption
    DEF BlockInv, BlkTypes, UsrTypes, DataInv
  <2>5. \A c \in Blocks :
          bque'[c] # "FREE" => bmsg'[c] # None /\ data'[bmsg'[c]] = c
    BY <2>1, <2>2, <2>3, TxmmAssumption
    DEF BlockInv, BlkTypes, UsrTypes, DataInv
  <2>6. \A c \in Blocks : bque'[c] = "FREE" => bmsg'[c] = None /\ bclb'[c] = "none"
    BY <2>1, <2>2, <2>3 DEF BlockInv, BlkTypes, DataInv
  <2> QED
    BY <2>4, <2>5, <2>6 DEF DataInv
<1>3. ASSUME NEW m \in Msgs, MsgSend(m) \/ BlockedSend(m)
      PROVE  DataInv'
  <2>1. PICK clb : Sends(m, clb)
    BY <1>3, Sending
  <2>2. CASE SentLater(data[m])
    BY <2>1, <2>2
    DEF BlockInv, BlkTypes, UsrTypes, PlacedInv, DataInv, Sends, SentLater,
        QueueStep
  <2>3. ASSUME NEW s \in Slots, NEW h \in Blocks, SentInstead(data[m], h, s)
        PROVE  DataInv'
    BY <2>1, <2>3
    DEF BlockInv, BlkTypes, UsrTypes, PlacedInv, DataInv, Sends, SentInstead,
        QueueStep
  <2> QED
    BY <2>1, <2>2, <2>3 DEF Sends
<1>4. ASSUME NEW m \in Msgs, MsgCancel(m)
      PROVE  DataInv'
  <2>1. Cancels(m)
    BY <1>4, Cancelling
  <2> QED
    BY <2>1
    DEF BlockInv, BlkTypes, UsrTypes, PlacedInv, DataInv, Cancels, FreeBuf,
        QueueStep
<1>5. ASSUME NEW s \in Slots, OnCfm(s)
      PROVE  DataInv'
  BY <1>5 DEF BlockInv, BlkTypes, UsrTypes, PlacedInv, DataInv, OnCfm
<1>6. CASE OnCfmCallback \/ TimerCallback
  <2>1. PICK b \in Blocks : Calls(b)
    BY <1>6, Calling
  <2>2. CASE Answered(b)
    BY <2>1, <2>2
    DEF BlockInv, BlkTypes, UsrTypes, PlacedInv, DataInv, Calls, Answered,
        QueueStep
  <2>3. CASE SentAgain(b)
    BY <2>1, <2>3
    DEF BlockInv, BlkTypes, UsrTypes, PlacedInv, DataInv, Calls, SentAgain,
        QueueStep
  <2>4. CASE Parted(b)
    BY <2>1, <2>4
    DEF BlockInv, BlkTypes, UsrTypes, PlacedInv, DataInv, Calls, Parted,
        FreeBuf, QueueStep
  <2> QED
    BY <2>1, <2>2, <2>3, <2>4 DEF Calls
<1>7. CASE OnCfmPump
  <2>1. /\ tasklet.pc = "pump"
        /\ tasklet' = [pc |-> "idle", block |-> None, slot |-> None]
        /\ UNCHANGED <<free, timedOut, bmsg, bclb, expired, data, ust, timer,
                       lateCfm, lateTmr>>
    BY <1>7 DEF OnCfmPump
  <2>2. CASE SlotFreed(tasklet.slot)
    BY <2>1, <2>2
    DEF BlockInv, BlkTypes, UsrTypes, PlacedInv, DataInv, SlotFreed, QueueStep
  <2>3. ASSUME NEW h \in Blocks, Pumped(h, tasklet.slot)
        PROVE  DataInv'
    BY <2>1, <2>3
    DEF BlockInv, BlkTypes, UsrTypes, PlacedInv, DataInv, Pumped, QueueStep
  <2> QED
    BY <1>7, <2>2, <2>3, PumpEffect DEF BlockInv
<1>8. CASE TimerScansSent \/ TimerScansQueued
  <2>1. PICK D, from : TimesOut(D, from)
    BY <1>8, TimingOut
  <2> QED
    BY <2>1
    DEF BlockInv, BlkTypes, UsrTypes, PlacedInv, DataInv, TimesOut, QueueStep
<1>9. ASSUME NEW b \in Blocks, TimerPops(b)
      PROVE  DataInv'
  BY <1>9 DEF BlockInv, BlkTypes, UsrTypes, PlacedInv, DataInv, TimerPops
<1> QED
  BY <1>1, <1>2, <1>3, <1>4, <1>5, <1>6, <1>7, <1>8, <1>9
  DEF Next, Tasklet, Timer, OnCfmFreed, TimerFreed, CallFreedClb,
      Cleanup, BlockedProceeds, HandToFw, BlockedEnter,
      BlockedLock, BlockedWait, BlockedUnlock, BlockedReturn, Expire,
      TimerEndsQueue, Halt, CleanupBegin, CleanupSignal, CleanupRelease,
      CleanupDrained, vars, blkVars

\* Nobody knows of the block of a user that has not sent yet.
LEMMA UserStep ==
  ASSUME BlockInv, [Next]_vars
  PROVE  UserInv'
<1>1. CASE UNCHANGED <<ust, data, bque, tasklet, timer, lateCfm, lateTmr>>
  BY <1>1 DEF BlockInv, BlkTypes, UsrTypes, UserInv, Ready, Inside, Holds
<1>2. ASSUME NEW m \in Msgs, GetEmptyData(m)
      PROVE  UserInv'
  <2>1. PICK b \in free :
           /\ bmsg' = [bmsg EXCEPT ![b] = m]
           /\ bque' = [bque EXCEPT ![b] = "NONE"]
           /\ data' = [data EXCEPT ![m] = b]
    BY <1>2 DEF GetEmptyData
  <2>2. /\ ust' = [ust EXCEPT ![m] = "attached"] /\ data[m] = None
        /\ UNCHANGED <<bclb, tasklet, timer, lateCfm, lateTmr>>
    BY <1>2 DEF GetEmptyData
  <2>3. b \in Blocks /\ bque[b] = "FREE" /\ b # None
    BY <2>1, TxmmAssumption DEF BlockInv, BlkTypes, PlacedInv

  <2>4. ~Holds(b)
    BY <2>3 DEF BlockInv, HeldInv, Holds
  <2>5. \A c : Holds(c)' <=> Holds(c)
    BY <2>2 DEF Holds
  <2> QED
    BY <2>1, <2>2, <2>3, <2>4, <2>5
    DEF BlockInv, BlkTypes, UsrTypes, UserInv, Ready, Inside
<1>3. ASSUME NEW m \in Msgs, MsgSend(m) \/ BlockedSend(m)
      PROVE  UserInv'
  <2>1. PICK clb : Sends(m, clb)
    BY <1>3, Sending
  <2>2. CASE SentLater(data[m])
    <3>1. \A c : Holds(c)' <=> Holds(c)
      BY <2>1 DEF Sends, Holds
    <3>2. \A x \in Msgs : x # m => data[x] # data[m]
      BY <2>1, TxmmAssumption DEF Sends, BlockInv, DataInv
    <3> QED
      BY <2>1, <2>2, <3>1, <3>2
      DEF BlockInv, BlkTypes, UsrTypes, UserInv, Ready, Inside, Sends, SentLater
  <2>3. ASSUME NEW s \in Slots, NEW h \in Blocks, SentInstead(data[m], h, s)
        PROVE  UserInv'
    <3>1. \A c : Holds(c)' <=> Holds(c)
      BY <2>1 DEF Sends, Holds
    <3>2. \A x \in Msgs : x # m => data[x] # data[m]
      BY <2>1, TxmmAssumption DEF Sends, BlockInv, DataInv
    <3> QED
      BY <2>1, <2>3, <3>1, <3>2
      DEF BlockInv, BlkTypes, UsrTypes, UserInv, Ready, Inside, Sends, SentInstead
  <2> QED
    BY <2>1, <2>2, <2>3 DEF Sends
<1>4. ASSUME NEW m \in Msgs, MsgCancel(m)
      PROVE  UserInv'
  <2>1. Cancels(m)
    BY <1>4, Cancelling
  <2> QED
    <3>1. \A c : Holds(c)' => Holds(c) /\ c # data[m]
      BY <2>1 DEF Cancels
    <3>2. \A x \in Msgs : x # m => data[x] # data[m]
      BY <2>1, TxmmAssumption DEF Cancels, BlockInv, DataInv
    <3> QED
      BY <2>1, <3>1, <3>2
      DEF BlockInv, BlkTypes, UsrTypes, UserInv, Ready, Inside, Cancels, FreeBuf
<1>5. ASSUME NEW m \in Msgs, BlockedEnter(m)
      PROVE  UserInv'
  BY <1>5
  DEF BlockInv, BlkTypes, UsrTypes, UserInv, Ready, Inside, Holds,
      BlockedEnter, blkVars
<1>6. ASSUME NEW m \in Msgs, BlockedLock(m)
      PROVE  UserInv'
  BY <1>6
  DEF BlockInv, BlkTypes, UsrTypes, UserInv, Ready, Inside, Holds,
      BlockedLock, blkVars
<1>7. ASSUME NEW m \in Msgs, BlockedWait(m)
      PROVE  UserInv'
  BY <1>7
  DEF BlockInv, BlkTypes, UsrTypes, UserInv, Ready, Inside, Holds,
      BlockedWait, blkVars
<1>8. ASSUME NEW m \in Msgs, BlockedReturn(m)
      PROVE  UserInv'
  BY <1>8
  DEF BlockInv, BlkTypes, UsrTypes, UserInv, Ready, Inside, Holds,
      BlockedReturn, blkVars
<1>9. ASSUME NEW s \in Slots, OnCfm(s)
      PROVE  UserInv'
  BY <1>9
  DEF BlockInv, BlkTypes, UsrTypes, UserInv, Ready, Inside, Holds, OnCfm,
      PlacedInv
<1>10. CASE OnCfmCallback \/ TimerCallback
  <2>1. PICK b \in Blocks : Calls(b)
    BY <1>10, Calling
  <2>2. CASE Answered(b)
    BY <2>1, <2>2
    DEF BlockInv, BlkTypes, UsrTypes, UserInv, Ready, Inside, Calls, Answered,
        QueueStep
  <2>3. CASE SentAgain(b)
    BY <2>1, <2>3
    DEF BlockInv, BlkTypes, UsrTypes, UserInv, Ready, Inside, Calls,
        SentAgain, QueueStep, DataInv
  <2>4. CASE Parted(b)
    BY <2>1, <2>4
    DEF BlockInv, BlkTypes, UsrTypes, UserInv, Ready, Inside, Calls, Parted,
        FreeBuf, QueueStep, DataInv
  <2> QED
    BY <2>1, <2>2, <2>3, <2>4 DEF Calls
<1>11. CASE OnCfmPump
  <2>1. /\ tasklet.pc = "pump"
        /\ tasklet' = [pc |-> "idle", block |-> None, slot |-> None]
        /\ UNCHANGED <<free, timedOut, bmsg, bclb, expired, data, ust, timer,
                       lateCfm, lateTmr>>
    BY <1>11 DEF OnCfmPump
  <2>2. CASE SlotFreed(tasklet.slot)
    BY <2>1, <2>2
    DEF BlockInv, BlkTypes, UsrTypes, UserInv, Ready, Inside, Holds,
        SlotFreed, QueueStep
  <2>3. ASSUME NEW h \in Blocks, Pumped(h, tasklet.slot)
        PROVE  UserInv'
    BY <2>1, <2>3
    DEF BlockInv, BlkTypes, UsrTypes, UserInv, Ready, Inside, Holds, Pumped,
        QueueStep
  <2> QED
    BY <1>11, <2>2, <2>3, PumpEffect DEF BlockInv
<1>12. CASE TimerScansSent \/ TimerScansQueued
  <2>1. PICK D, from : TimesOut(D, from)
    BY <1>12, TimingOut
  <2> QED
    BY <2>1
    DEF BlockInv, BlkTypes, UsrTypes, UserInv, Ready, Inside, Holds, TimesOut,
        QueueStep
<1>13. ASSUME NEW b \in Blocks, TimerPops(b)
      PROVE  UserInv'
  BY <1>13
  DEF BlockInv, BlkTypes, UsrTypes, UserInv, Ready, Inside, Holds, TimerPops,
      PlacedInv
<1>14. CASE TimerEndsQueue
  BY <1>14
  DEF BlockInv, BlkTypes, UsrTypes, UserInv, Ready, Inside, Holds,
      TimerEndsQueue, blkVars, Answering
<1> QED
  BY <1>1, <1>2, <1>3, <1>4, <1>5, <1>6, <1>7, <1>8, <1>9, <1>10, <1>11,
     <1>12, <1>13, <1>14
  DEF Next, Tasklet, Timer, OnCfmFreed, TimerFreed, CallFreedClb,
      Cleanup, BlockedProceeds, HandToFw, BlockedUnlock,
      Expire, Halt, CleanupBegin, CleanupSignal, CleanupRelease,
      CleanupDrained, vars, blkVars

\* The blocks that are held.
LEMMA HeldStep ==
  ASSUME BlockInv, [Next]_vars
  PROVE  HeldInv'
<1>1. CASE UNCHANGED <<tasklet, timer, bque, lateCfm, lateTmr>>
  BY <1>1 DEF BlockInv, BlkTypes, UsrTypes, HeldInv, Holds
<1>2. ASSUME NEW m \in Msgs, GetEmptyData(m)
      PROVE  HeldInv'
  BY <1>2 DEF BlockInv, BlkTypes, UsrTypes, HeldInv, GetEmptyData,
      PlacedInv, Holds
<1>3. ASSUME NEW m \in Msgs, MsgSend(m) \/ BlockedSend(m)
      PROVE  HeldInv'
  <2>1. PICK clb : Sends(m, clb)
    BY <1>3, Sending
  <2>2. CASE SentLater(data[m])
    BY <2>1, <2>2
    DEF BlockInv, BlkTypes, UsrTypes, HeldInv, Sends, SentLater, QueueStep,
        Holds
  <2>3. ASSUME NEW s \in Slots, NEW h \in Blocks, SentInstead(data[m], h, s)
        PROVE  HeldInv'
    BY <2>1, <2>3
    DEF BlockInv, BlkTypes, UsrTypes, HeldInv, Sends, SentInstead, QueueStep,
        Holds
  <2> QED
    BY <2>1, <2>2, <2>3 DEF Sends
<1>4. ASSUME NEW m \in Msgs, MsgCancel(m)
      PROVE  HeldInv'
  <2>1. Cancels(m)
    BY <1>4, Cancelling
  <2>2. /\ tasklet'.pc = "clb" => tasklet'.block \in Blocks
        /\ timer'.pc \in Answering => timer'.block \in Blocks
    BY <2>1 DEF BlockInv, HeldInv, Cancels
  <2>3. \A c \in Blocks : Holds(c)' => bque'[c] = "NONE"
    BY <2>1 DEF BlockInv, BlkTypes, HeldInv, Cancels, FreeBuf
  <2>4. /\ lateCfm \subseteq lateCfm' /\ lateTmr \subseteq lateTmr'
        /\ UNCHANGED <<tasklet, timer>>
    BY <2>1 DEF Cancels
  <2>5. \A c \in Blocks :
          ~ /\ tasklet'.pc = "clb" /\ tasklet'.block = c /\ c \notin lateCfm'
            /\ timer'.pc \in Answering /\ timer'.block = c
            /\ c \notin lateTmr'
    BY <2>4 DEF BlockInv, HeldInv
  <2> QED
    BY <2>2, <2>3, <2>5 DEF HeldInv
<1>5. ASSUME NEW s \in Slots, OnCfm(s)
      PROVE  HeldInv'
  BY <1>5 DEF BlockInv, BlkTypes, UsrTypes, HeldInv, OnCfm, PlacedInv, Holds
<1>6. CASE OnCfmCallback \/ TimerCallback
  <2>1. PICK b \in Blocks : Calls(b)
    BY <1>6, Calling
  <2>2. /\ tasklet'.pc = "clb" =>
             tasklet.pc = "clb" /\ tasklet'.block = tasklet.block
        /\ timer'.pc \in Answering =>
             timer.pc \in Answering /\ timer'.block = timer.block
        /\ UNCHANGED <<lateCfm, lateTmr>>
    BY <2>1, Returning DEF Calls, BlockInv
  <2>3. /\ tasklet'.pc = "clb" => tasklet'.block \in Blocks
        /\ timer'.pc \in Answering => timer'.block \in Blocks
    BY <2>2 DEF BlockInv, HeldInv
  <2>4. \A c \in Blocks :
          ~ /\ tasklet'.pc = "clb" /\ tasklet'.block = c /\ c \notin lateCfm'
            /\ timer'.pc \in Answering /\ timer'.block = c
            /\ c \notin lateTmr'
    BY <2>2 DEF BlockInv, HeldInv
  <2>5. \A c \in Blocks : c # b => bque'[c] = bque[c]
    BY <2>1
    DEF BlockInv, BlkTypes, Calls, Answered, SentAgain, Parted, FreeBuf
  <2>6. \A c \in Blocks : Holds(c)' => bque'[c] = "NONE"
    BY <2>1, <2>5 DEF BlockInv, HeldInv, Calls
  <2> QED
    BY <2>3, <2>4, <2>6 DEF HeldInv
<1>7. CASE OnCfmPump
  <2>1. /\ tasklet.pc = "pump"
        /\ tasklet' = [pc |-> "idle", block |-> None, slot |-> None]
        /\ UNCHANGED <<free, timedOut, bmsg, bclb, expired, data, ust, timer,
                       lateCfm, lateTmr>>
    BY <1>7 DEF OnCfmPump
  <2>2. CASE SlotFreed(tasklet.slot)
    BY <2>1, <2>2
    DEF BlockInv, BlkTypes, UsrTypes, HeldInv, SlotFreed, QueueStep, Holds
  <2>3. ASSUME NEW h \in Blocks, Pumped(h, tasklet.slot)
        PROVE  HeldInv'
    BY <2>1, <2>3
    DEF BlockInv, BlkTypes, UsrTypes, HeldInv, Pumped, QueueStep, Holds
  <2> QED
    BY <1>7, <2>2, <2>3, PumpEffect DEF BlockInv
<1>8. CASE TimerScansSent \/ TimerScansQueued
  <2>1. PICK D, from : TimesOut(D, from)
    BY <1>8, TimingOut
  <2> QED
    BY <2>1
    DEF BlockInv, BlkTypes, UsrTypes, HeldInv, TimesOut, QueueStep, Holds
<1>9. ASSUME NEW b \in Blocks, TimerPops(b)
      PROVE  HeldInv'
  BY <1>9
  DEF BlockInv, BlkTypes, UsrTypes, HeldInv, TimerPops, PlacedInv, Answering,
      Holds
<1>10. CASE TimerEndsQueue
  BY <1>10
  DEF BlockInv, BlkTypes, UsrTypes, HeldInv, TimerEndsQueue, blkVars,
      Answering, Holds
<1> QED
  BY <1>1, <1>2, <1>3, <1>4, <1>5, <1>6, <1>7, <1>8, <1>9, <1>10
  DEF Next, Tasklet, Timer, OnCfmFreed, TimerFreed, CallFreedClb,
      Cleanup, BlockedProceeds, HandToFw, BlockedEnter,
      BlockedLock, BlockedWait, BlockedUnlock, BlockedReturn, Expire, Halt,
      CleanupBegin, CleanupSignal, CleanupRelease, CleanupDrained, vars,
      blkVars

\* Whoever waits for an answer has a callback.
LEMMA ClbStep ==
  ASSUME BlockInv, [Next]_vars
  PROVE  ClbInv'
<1>1. CASE UNCHANGED <<tasklet, timer, bque, bclb, bmsg, lateCfm, lateTmr>>
  BY <1>1 DEF BlockInv, BlkTypes, ClbInv, Holds
<1>2. ASSUME NEW m \in Msgs, GetEmptyData(m)
      PROVE  ClbInv'
  <2>1. PICK b \in free :
           /\ bmsg' = [bmsg EXCEPT ![b] = m]
           /\ bque' = [bque EXCEPT ![b] = "NONE"]
           /\ data' = [data EXCEPT ![m] = b]
    BY <1>2 DEF GetEmptyData
  <2>2. /\ ust' = [ust EXCEPT ![m] = "attached"] /\ data[m] = None
        /\ UNCHANGED <<bclb, tasklet, timer, lateCfm, lateTmr>>
    BY <1>2 DEF GetEmptyData
  <2>3. b \in Blocks /\ bque[b] = "FREE" /\ b # None
    BY <2>1, TxmmAssumption DEF BlockInv, BlkTypes, PlacedInv

  <2>4. ~Holds(b)
    BY <2>3 DEF BlockInv, HeldInv, Holds
  <2>5. \A c : Holds(c)' <=> Holds(c)
    BY <2>2 DEF Holds
  <2>6. bclb[b] = "none"
    BY <2>3 DEF BlockInv, DataInv
  <2> QED
    BY <2>1, <2>2, <2>3, <2>4, <2>5, <2>6 DEF BlockInv, BlkTypes, ClbInv
<1>3. ASSUME NEW m \in Msgs, MsgSend(m) \/ BlockedSend(m)
      PROVE  ClbInv'
  <2>1. PICK clb : Sends(m, clb)
    BY <1>3, Sending
  <2>2. CASE SentLater(data[m])
    <3>1. \A c : Holds(c)' <=> Holds(c)
      BY <2>1 DEF Sends, Holds
    <3>2. bmsg[data[m]] = m
      BY <2>1, TxmmAssumption DEF Sends, BlockInv, DataInv
    <3> QED
      BY <2>1, <2>2, <3>1, <3>2
      DEF BlockInv, BlkTypes, ClbInv, Sends, SentLater
  <2>3. ASSUME NEW s \in Slots, NEW h \in Blocks, SentInstead(data[m], h, s)
        PROVE  ClbInv'
    <3>1. \A c : Holds(c)' <=> Holds(c)
      BY <2>1 DEF Sends, Holds
    <3>2. bmsg[data[m]] = m
      BY <2>1, TxmmAssumption DEF Sends, BlockInv, DataInv
    <3> QED
      BY <2>1, <2>3, <3>1, <3>2
      DEF BlockInv, BlkTypes, ClbInv, Sends, SentInstead
  <2> QED
    BY <2>1, <2>2, <2>3 DEF Sends
<1>4. ASSUME NEW m \in Msgs, MsgCancel(m)
      PROVE  ClbInv'
  <2>1. Cancels(m)
    BY <1>4, Cancelling
  <2> QED
    <3>1. \A c : Holds(c)' => Holds(c) /\ c # data[m]
      BY <2>1 DEF Cancels
    <3>2. bmsg[data[m]] = m
      BY <2>1, TxmmAssumption DEF Cancels, BlockInv, DataInv
    <3> QED
      BY <2>1, <3>1, <3>2
      DEF BlockInv, BlkTypes, ClbInv, Cancels, FreeBuf
<1>5. ASSUME NEW s \in Slots, OnCfm(s)
      PROVE  ClbInv'
  BY <1>5 DEF BlockInv, BlkTypes, ClbInv, Holds, OnCfm, PlacedInv
<1>6. CASE OnCfmCallback \/ TimerCallback
  <2>1. PICK b \in Blocks : Calls(b)
    BY <1>6, Calling
  <2>2. CASE Answered(b)
    BY <2>1, <2>2 DEF BlockInv, BlkTypes, ClbInv, Calls, Answered, QueueStep
  <2>3. CASE SentAgain(b)
    BY <2>1, <2>3 DEF BlockInv, BlkTypes, ClbInv, Calls, SentAgain, QueueStep
  <2>4. CASE Parted(b)
    BY <2>1, <2>4
    DEF BlockInv, BlkTypes, ClbInv, Calls, Parted, FreeBuf, QueueStep
  <2> QED
    BY <2>1, <2>2, <2>3, <2>4 DEF Calls
<1>7. CASE OnCfmPump
  <2>1. /\ tasklet.pc = "pump"
        /\ tasklet' = [pc |-> "idle", block |-> None, slot |-> None]
        /\ UNCHANGED <<free, timedOut, bmsg, bclb, expired, data, ust, timer,
                       lateCfm, lateTmr>>
    BY <1>7 DEF OnCfmPump
  <2>2. CASE SlotFreed(tasklet.slot)
    BY <2>1, <2>2 DEF BlockInv, BlkTypes, ClbInv, Holds, SlotFreed, QueueStep
  <2>3. ASSUME NEW h \in Blocks, Pumped(h, tasklet.slot)
        PROVE  ClbInv'
    BY <2>1, <2>3 DEF BlockInv, BlkTypes, ClbInv, Holds, Pumped, QueueStep
  <2> QED
    BY <1>7, <2>2, <2>3, PumpEffect DEF BlockInv
<1>8. CASE TimerScansSent \/ TimerScansQueued
  <2>1. PICK D, from : TimesOut(D, from)
    BY <1>8, TimingOut
  <2> QED
    BY <2>1 DEF BlockInv, BlkTypes, ClbInv, Holds, TimesOut, QueueStep
<1>9. ASSUME NEW b \in Blocks, TimerPops(b)
      PROVE  ClbInv'
  BY <1>9 DEF BlockInv, BlkTypes, ClbInv, Holds, TimerPops, PlacedInv
<1>10. CASE TimerEndsQueue
  BY <1>10
  DEF BlockInv, BlkTypes, ClbInv, Holds, TimerEndsQueue, blkVars, Answering
<1> QED
  BY <1>1, <1>2, <1>3, <1>4, <1>5, <1>6, <1>7, <1>8, <1>9, <1>10
  DEF Next, Tasklet, Timer, OnCfmFreed, TimerFreed, CallFreedClb,
      Cleanup, BlockedProceeds, HandToFw, BlockedEnter,
      BlockedLock, BlockedWait, BlockedUnlock, BlockedReturn, Expire, Halt,
      CleanupBegin, CleanupSignal, CleanupRelease, CleanupDrained, vars,
      blkVars

\* What the timer has found and not dealt with yet.
LEMMA LateStep ==
  ASSUME BlockInv, [Next]_vars
  PROVE  LateInv'
<1>1. CASE UNCHANGED <<timer, timedOut, lateTmr>>
  BY <1>1 DEF BlockInv, LateInv
<1>2. ASSUME NEW m \in Msgs, MsgCancel(m)
      PROVE  LateInv'
  <2>1. Cancels(m)
    BY <1>2, Cancelling
  <2>2. UNCHANGED <<timer, timedOut>>
    BY <2>1 DEF Cancels
  <2>3. ASSUME NEW b \in lateTmr'
        PROVE  b \in timedOut \/ (timer.pc \in Answering /\ timer.block = b)
    <3>1. CASE b \in lateTmr
      BY <3>1 DEF BlockInv, LateInv
    <3>2. CASE b \notin lateTmr
      BY <2>1, <2>3, <3>2 DEF Cancels, TmrCallbackDue, Answering
    <3> QED
      BY <3>1, <3>2
  <2>4. \A b \in lateTmr' :
          b \in timedOut' \/ (timer'.pc \in Answering /\ timer'.block = b)
    BY <2>2, <2>3
  <2>5. timer'.pc \in {"idle", "scanQueued"} => timedOut' = {}
    BY <2>2 DEF BlockInv, LateInv
  <2> QED
    BY <2>4, <2>5 DEF LateInv
<1>3. CASE TimerCallback
  <2>1. /\ timer' = [pc |-> IF timer.pc = "clbSent" THEN "popSent"
                            ELSE "popQueued", block |-> None]
        /\ timer.block \notin lateTmr
        /\ UNCHANGED <<timedOut, lateTmr>>
    BY <1>3 DEF TimerCallback
  <2>2. timer'.pc \in {"popSent", "popQueued"}
    BY <2>1
  <2> QED
    BY <2>1, <2>2 DEF BlockInv, LateInv
<1>4. CASE TimerScansSent \/ TimerScansQueued
  <2>1. timer.pc \in {"idle", "scanQueued"}
    BY <1>4 DEF TimerScansSent, TimerScansQueued
  <2>2. timer'.pc \in {"popSent", "popQueued"}
    BY <1>4 DEF TimerScansSent, TimerScansQueued
  <2>3. lateTmr' = {}
    BY <1>4, <2>1
    DEF BlockInv, LateInv, Answering, TimerScansSent, TimerScansQueued
  <2> QED
    BY <2>2, <2>3 DEF LateInv
<1>5. ASSUME NEW b \in Blocks, TimerPops(b)
      PROVE  LateInv'
  <2>1. /\ timedOut' = timedOut \ {b} /\ b \notin lateTmr
        /\ timer'.pc \in Answering
        /\ timer.pc \notin Answering
        /\ UNCHANGED lateTmr
    BY <1>5 DEF TimerPops, Answering
  <2>2. timer'.pc \notin {"idle", "scanQueued"}
    BY <2>1 DEF Answering
  <2> QED
    BY <2>1, <2>2 DEF BlockInv, LateInv
<1>6. CASE TimerEndsQueue
  BY <1>6 DEF BlockInv, LateInv, TimerEndsQueue, Answering, queVars
<1> QED
  BY <1>1, <1>2, <1>3, <1>4, <1>5, <1>6
  DEF Next, Tasklet, Timer, OnCfmFreed, TimerFreed, CallFreedClb,
      Cleanup, BlockedProceeds, GetEmptyData, MsgSend, BlockedSend, HandToFw,
      BlockedEnter, BlockedLock, BlockedWait, BlockedUnlock, BlockedReturn,
      OnCfm, OnCfmCallback, OnCfmPump, Expire, Halt, CleanupBegin,
      CleanupSignal, CleanupRelease, CleanupDrained, vars, queVars

\* A slot carries one block.
LEMMA SlotStep ==
  ASSUME BlockInv, SlotInv, [Next]_vars
  PROVE  SlotInv'
<1>1. CASE UNCHANGED <<tasklet, sent, bslot, slotAt>>
  BY <1>1 DEF BlockInv, BlkTypes, UsrTypes, PlacedInv, SlotInv
<1>2. ASSUME NEW m \in Msgs, MsgSend(m) \/ BlockedSend(m)
      PROVE  SlotInv'
  <2>1. PICK clb : Sends(m, clb)
    BY <1>2, Sending
  <2>2. CASE SentLater(data[m])
    BY <2>1, <2>2
    DEF BlockInv, BlkTypes, UsrTypes, PlacedInv, SlotInv, Sends, SentLater,
        QueueStep
  <2>3. ASSUME NEW s \in Slots, NEW h \in Blocks, SentInstead(data[m], h, s)
        PROVE  SlotInv'
    <3>1. /\ slotAt[s] = "pool" /\ slotAt' = [slotAt EXCEPT ![s] = "hand"]
          /\ sent' = sent \cup {h} /\ bslot' = [bslot EXCEPT ![h] = s]
      BY <2>3 DEF SentInstead
    <3>2. UNCHANGED tasklet
      BY <2>1 DEF Sends
    <3>3. /\ sent \in SUBSET Blocks /\ bslot \in [Blocks -> Slots \cup {None}]
          /\ slotAt \in [Slots -> SlotPlaces]
      BY DEF BlockInv, BlkTypes, UsrTypes
    <3>4. \A b \in sent : bslot[b] # s
      BY <3>1 DEF SlotInv
    <3> QED
      BY <3>1, <3>2, <3>3, <3>4 DEF SlotInv
  <2> QED
    BY <2>1, <2>2, <2>3 DEF Sends
<1>3. ASSUME NEW s \in Slots, HandToFw(s)
      PROVE  SlotInv'
  BY <1>3
  DEF BlockInv, BlkTypes, UsrTypes, PlacedInv, SlotInv, HandToFw, queVars,
      blkVars
<1>4. ASSUME NEW m \in Msgs, MsgCancel(m)
      PROVE  SlotInv'
  <2>1. Cancels(m)
    BY <1>4, Cancelling
  <2> QED
    BY <2>1
    DEF BlockInv, BlkTypes, UsrTypes, PlacedInv, SlotInv, Cancels, FreeBuf,
        QueueStep
<1>5. ASSUME NEW s \in Slots, OnCfm(s)
      PROVE  SlotInv'
  BY <1>5 DEF BlockInv, BlkTypes, UsrTypes, PlacedInv, SlotInv, OnCfm
<1>6. CASE OnCfmCallback \/ TimerCallback
  <2>1. PICK b \in Blocks : Calls(b)
    BY <1>6, Calling
  <2>2. CASE Answered(b)
    BY <2>1, <2>2, Returning
    DEF BlockInv, BlkTypes, UsrTypes, PlacedInv, SlotInv, Calls, Answered,
        QueueStep
  <2>3. CASE SentAgain(b)
    BY <2>1, <2>3, Returning
    DEF BlockInv, BlkTypes, UsrTypes, PlacedInv, SlotInv, Calls, SentAgain,
        QueueStep
  <2>4. CASE Parted(b)
    BY <2>1, <2>4, Returning
    DEF BlockInv, BlkTypes, UsrTypes, PlacedInv, SlotInv, Calls, Parted,
        FreeBuf, QueueStep
  <2> QED
    BY <2>1, <2>2, <2>3, <2>4 DEF Calls
<1>7. CASE OnCfmPump
  <2>1. /\ tasklet.pc = "pump"
        /\ tasklet' = [pc |-> "idle", block |-> None, slot |-> None]
        /\ UNCHANGED <<free, timedOut, bmsg, bclb, expired, data, ust, timer,
                       lateCfm, lateTmr>>
    BY <1>7 DEF OnCfmPump
  <2>2. CASE SlotFreed(tasklet.slot)
    BY <2>1, <2>2
    DEF BlockInv, BlkTypes, UsrTypes, PlacedInv, SlotInv, SlotFreed, QueueStep
  <2>3. ASSUME NEW h \in Blocks, Pumped(h, tasklet.slot)
        PROVE  SlotInv'
    BY <2>1, <2>3
    DEF BlockInv, BlkTypes, UsrTypes, PlacedInv, SlotInv, Pumped, QueueStep
  <2> QED
    BY <1>7, <2>2, <2>3, PumpEffect DEF BlockInv
<1>8. CASE TimerScansSent \/ TimerScansQueued
  <2>1. PICK D, from : TimesOut(D, from)
    BY <1>8, TimingOut
  <2> QED
    BY <2>1
    DEF BlockInv, BlkTypes, UsrTypes, PlacedInv, SlotInv, TimesOut, QueueStep
<1> QED
  BY <1>1, <1>2, <1>3, <1>4, <1>5, <1>6, <1>7, <1>8
  DEF Next, Tasklet, Timer, OnCfmFreed, TimerFreed, CallFreedClb,
      Cleanup, BlockedProceeds, GetEmptyData,
      BlockedEnter, BlockedLock, BlockedWait, BlockedUnlock, BlockedReturn,
      Expire, TimerScansQueued, TimerPops, TimerEndsQueue, Halt, CleanupBegin,
      CleanupSignal, CleanupRelease, CleanupDrained, vars, queVars, blkVars

\* Users, slots and the two callers keep their types.
LEMMA UsrTypesStep ==
  ASSUME BlockInv, SlotInv, [Next]_vars
  PROVE  UsrTypes'
<1>1. CASE UNCHANGED <<tasklet, timer, data, slotAt, ust, lateCfm, lateTmr>>
  BY <1>1 DEF BlockInv, BlkTypes, UsrTypes, SlotPlaces, UserPcs
<1>2. ASSUME NEW m \in Msgs, GetEmptyData(m)
      PROVE  UsrTypes'
  BY <1>2 DEF BlockInv, BlkTypes, UsrTypes, SlotPlaces, UserPcs, GetEmptyData
<1>3. ASSUME NEW m \in Msgs, MsgSend(m) \/ BlockedSend(m)
      PROVE  UsrTypes'
  <2>1. PICK clb : Sends(m, clb)
    BY <1>3, Sending
  <2>2. CASE SentLater(data[m])
    BY <2>1, <2>2
    DEF BlockInv, BlkTypes, UsrTypes, SlotPlaces, UserPcs, Sends, SentLater,
        QueueStep
  <2>3. ASSUME NEW s \in Slots, NEW h \in Blocks, SentInstead(data[m], h, s)
        PROVE  UsrTypes'
    BY <2>1, <2>3
    DEF BlockInv, BlkTypes, UsrTypes, SlotPlaces, UserPcs, Sends, SentInstead,
        QueueStep
  <2> QED
    BY <2>1, <2>2, <2>3 DEF Sends
<1>4. ASSUME NEW s \in Slots, HandToFw(s)
      PROVE  UsrTypes'
  BY <1>4 DEF BlockInv, BlkTypes, UsrTypes, SlotPlaces, UserPcs, HandToFw
<1>5. ASSUME NEW m \in Msgs, MsgCancel(m)
      PROVE  UsrTypes'
  <2>1. Cancels(m)
    BY <1>5, Cancelling
  <2> QED
    BY <2>1
    DEF BlockInv, BlkTypes, UsrTypes, SlotPlaces, UserPcs, Cancels, FreeBuf,
        QueueStep
<1>6. ASSUME NEW m \in Msgs, BlockedEnter(m)
      PROVE  UsrTypes'
  BY <1>6 DEF BlockInv, BlkTypes, UsrTypes, SlotPlaces, UserPcs, BlockedEnter
<1>7. ASSUME NEW m \in Msgs, BlockedLock(m)
      PROVE  UsrTypes'
  BY <1>7 DEF BlockInv, BlkTypes, UsrTypes, SlotPlaces, UserPcs, BlockedLock
<1>8. ASSUME NEW m \in Msgs, BlockedWait(m)
      PROVE  UsrTypes'
  BY <1>8 DEF BlockInv, BlkTypes, UsrTypes, SlotPlaces, UserPcs, BlockedWait
<1>9. ASSUME NEW m \in Msgs, BlockedReturn(m)
      PROVE  UsrTypes'
  BY <1>9 DEF BlockInv, BlkTypes, UsrTypes, SlotPlaces, UserPcs, BlockedReturn
<1>10. ASSUME NEW s \in Slots, OnCfm(s)
      PROVE  UsrTypes'
  BY <1>10
  DEF BlockInv, BlkTypes, UsrTypes, SlotPlaces, UserPcs, OnCfm, TaskletPcs
<1>11. CASE OnCfmCallback \/ TimerCallback
  <2>1. PICK b \in Blocks : Calls(b)
    BY <1>11, Calling
  <2>2. CASE Answered(b)
    BY <2>1, <2>2, Returning
    DEF BlockInv, BlkTypes, UsrTypes, SlotPlaces, UserPcs, Calls, Answered,
        QueueStep
  <2>3. CASE SentAgain(b)
    BY <2>1, <2>3, Returning
    DEF BlockInv, BlkTypes, UsrTypes, SlotPlaces, UserPcs, Calls, SentAgain,
        QueueStep
  <2>4. CASE Parted(b)
    BY <2>1, <2>4, Returning
    DEF BlockInv, BlkTypes, UsrTypes, SlotPlaces, UserPcs, Calls, Parted,
        FreeBuf, QueueStep
  <2> QED
    BY <2>1, <2>2, <2>3, <2>4 DEF Calls
<1>12. CASE OnCfmPump
  <2>1. /\ tasklet.pc = "pump"
        /\ tasklet' = [pc |-> "idle", block |-> None, slot |-> None]
        /\ UNCHANGED <<free, timedOut, bmsg, bclb, expired, data, ust, timer,
                       lateCfm, lateTmr>>
    BY <1>12 DEF OnCfmPump
  <2>2. CASE SlotFreed(tasklet.slot)
    BY <2>1, <2>2
    DEF BlockInv, BlkTypes, UsrTypes, SlotPlaces, UserPcs, SlotFreed,
        QueueStep, TaskletPcs
  <2>3. ASSUME NEW h \in Blocks, Pumped(h, tasklet.slot)
        PROVE  UsrTypes'
    BY <2>1, <2>3
    DEF BlockInv, BlkTypes, UsrTypes, SlotPlaces, UserPcs, Pumped, QueueStep,
        TaskletPcs
  <2> QED
    BY <1>12, <2>2, <2>3, PumpEffect DEF BlockInv
<1>13. CASE TimerScansSent \/ TimerScansQueued
  <2>1. PICK D, from : TimesOut(D, from)
    BY <1>13, TimingOut
  <2> QED
    BY <2>1
    DEF BlockInv, BlkTypes, UsrTypes, SlotPlaces, UserPcs, TimesOut, QueueStep
<1>14. ASSUME NEW b \in Blocks, TimerPops(b)
      PROVE  UsrTypes'
  BY <1>14
  DEF BlockInv, BlkTypes, UsrTypes, SlotPlaces, UserPcs, TimerPops, TimerPcs
<1>15. CASE TimerEndsQueue
  BY <1>15
  DEF BlockInv, BlkTypes, UsrTypes, SlotPlaces, UserPcs, TimerEndsQueue,
      TimerPcs
<1> QED
  BY <1>1, <1>2, <1>3, <1>4, <1>5, <1>6, <1>7, <1>8, <1>9, <1>10, <1>11,
     <1>12, <1>13, <1>14, <1>15
  DEF Next, Tasklet, Timer, OnCfmFreed, TimerFreed, CallFreedClb,
      Cleanup, BlockedProceeds, BlockedUnlock, Expire,
      Halt, CleanupBegin, CleanupSignal, CleanupRelease, CleanupDrained, vars

\* The reference count: one for each sender inside.
LEMMA RefStep ==
  ASSUME BlockInv, CtlTypes, RefInv, [Next]_vars
  PROVE  RefInv'
<1>a. IsFiniteSet(Senders) /\ Cardinality(Senders) \in Nat
  <2>1. Senders \subseteq Msgs
    BY DEF Senders
  <2>2. IsFiniteSet(Senders)
    BY <2>1, FS_Subset, TxmmAssumption
  <2> QED
    BY <2>2, FS_CardinalityType
<1>b. ASSUME Senders' = Senders, UNCHANGED <<kpc, refCnt, zeroEvt>>
      PROVE  RefInv'
  BY <1>b DEF RefInv
<1>1. CASE UNCHANGED <<ust, kpc, refCnt, zeroEvt>>
  <2>1. Senders' = Senders
    BY <1>1 DEF Senders
  <2> QED
    BY <1>1, <2>1, <1>b
<1>2. ASSUME NEW m \in Msgs, GetEmptyData(m)
      PROVE  RefInv'
  <2>1. Senders' = Senders
    BY <1>2 DEF Senders, Inside, BlockInv, UsrTypes, GetEmptyData
  <2>2. UNCHANGED <<kpc, refCnt, zeroEvt>>
    BY <1>2 DEF GetEmptyData, bsndVars
  <2> QED
    BY <2>1, <2>2, <1>b
<1>3. ASSUME NEW m \in Msgs, MsgSend(m)
      PROVE  RefInv'
  <2>1. Senders' = Senders
    BY <1>3 DEF Senders, Inside, BlockInv, UsrTypes, MsgSend
  <2>2. UNCHANGED <<kpc, refCnt, zeroEvt>>
    BY <1>3 DEF MsgSend, bsndVars
  <2> QED
    BY <2>1, <2>2, <1>b
<1>4. ASSUME NEW m \in Msgs, MsgCancel(m)
      PROVE  RefInv'
  <2>1. Senders' = Senders
    BY <1>4, Cancelling DEF Senders, Inside, BlockInv, UsrTypes, Cancels
  <2>2. UNCHANGED <<kpc, refCnt, zeroEvt>>
    BY <1>4 DEF MsgCancel, bsndVars
  <2> QED
    BY <2>1, <2>2, <1>b
<1>5. ASSUME NEW m \in Msgs, BlockedEnter(m)
      PROVE  RefInv'
  <2>1. m \notin Senders /\ Senders' = Senders \cup {m}
    BY <1>5 DEF Senders, Inside, BlockInv, UsrTypes, BlockedEnter
  <2>2. Cardinality(Senders') = Cardinality(Senders) + 1
    BY <2>1, <1>a, FS_AddElement
  <2>3. kpc = "up" /\ refCnt' = refCnt + 1 /\ UNCHANGED <<kpc, zeroEvt>>
    BY <1>5 DEF BlockedEnter
  <2> QED
    BY <2>2, <2>3, <1>a DEF RefInv
<1>6. ASSUME NEW m \in Msgs, BlockedLock(m)
      PROVE  RefInv'
  <2>1. Senders' = Senders
    BY <1>6 DEF Senders, Inside, BlockInv, UsrTypes, BlockedLock
  <2>2. UNCHANGED <<kpc, refCnt, zeroEvt>>
    BY <1>6 DEF BlockedLock
  <2> QED
    BY <2>1, <2>2, <1>b
<1>7. ASSUME NEW m \in Msgs, BlockedSend(m)
      PROVE  RefInv'
  <2>1. Senders' = Senders
    BY <1>7 DEF Senders, Inside, BlockInv, UsrTypes, BlockedSend
  <2>2. UNCHANGED <<kpc, refCnt, zeroEvt>>
    BY <1>7 DEF BlockedSend, bsndVars
  <2> QED
    BY <2>1, <2>2, <1>b
<1>8. ASSUME NEW m \in Msgs, BlockedWait(m)
      PROVE  RefInv'
  <2>1. Senders' = Senders
    BY <1>8 DEF Senders, Inside, BlockInv, UsrTypes, BlockedWait
  <2>2. UNCHANGED <<kpc, refCnt, zeroEvt>>
    BY <1>8 DEF BlockedWait
  <2> QED
    BY <2>1, <2>2, <1>b
<1>9. ASSUME NEW m \in Msgs, BlockedReturn(m)
      PROVE  RefInv'
  <2>1. m \in Senders /\ Senders' = Senders \ {m}
    BY <1>9 DEF Senders, Inside, BlockInv, UsrTypes, BlockedReturn
  <2>2. Cardinality(Senders') = Cardinality(Senders) - 1
    BY <2>1, <1>a, FS_RemoveElement
  <2>3. Cardinality(Senders) # 0
    BY <2>1, <1>a, FS_EmptySet
  <2>4. refCnt' = refCnt - 1 /\ UNCHANGED kpc
    BY <1>9 DEF BlockedReturn, RmRelease
  <2>5. zeroEvt' <=> zeroEvt \/ refCnt = 1
    BY <1>9 DEF BlockedReturn, RmRelease
  <2> QED
    BY <2>2, <2>3, <2>4, <2>5, <1>a DEF RefInv, CtlTypes, CleanupPcs
<1>10. CASE OnCfmCallback
  <2>1. PICK b \in Blocks : Calls(b)
    BY <1>10, Calling
  <2>2. Senders' = Senders
    <3>1. CASE Parted(b)
      <4>1. ust[bmsg[b]] \notin Inside
        BY <3>1, <2>1, TxmmAssumption
        DEF Parted, Calls, ClbInv, BlockInv, UserInv, Msgs
      <4> QED
        BY <3>1, <2>1, <4>1
        DEF Senders, Inside, Parted, Calls, BlockInv, UsrTypes
    <3>2. CASE Answered(b) \/ SentAgain(b)
      BY <3>2 DEF Senders, Answered, SentAgain
    <3> QED
      BY <2>1, <3>1, <3>2 DEF Calls
  <2>3. UNCHANGED <<kpc, refCnt, zeroEvt>>
    BY <1>10 DEF OnCfmCallback
  <2> QED
    BY <2>2, <2>3, <1>b
<1>11. CASE TimerCallback
  <2>1. PICK b \in Blocks : Calls(b)
    BY <1>11, Calling
  <2>2. Senders' = Senders
    <3>1. CASE Parted(b)
      <4>1. ust[bmsg[b]] \notin Inside
        BY <3>1, <2>1, TxmmAssumption
        DEF Parted, Calls, ClbInv, BlockInv, UserInv, Msgs
      <4> QED
        BY <3>1, <2>1, <4>1
        DEF Senders, Inside, Parted, Calls, BlockInv, UsrTypes
    <3>2. CASE Answered(b) \/ SentAgain(b)
      BY <3>2 DEF Senders, Answered, SentAgain
    <3> QED
      BY <2>1, <3>1, <3>2 DEF Calls
  <2>3. UNCHANGED <<kpc, refCnt, zeroEvt>>
    BY <1>11 DEF TimerCallback
  <2> QED
    BY <2>2, <2>3, <1>b
<1>12. CASE CleanupBegin
  <2>1. Senders' = Senders
    BY <1>12 DEF Senders, CleanupBegin
  <2> QED
    BY <1>12, <2>1, <1>a DEF RefInv, CtlTypes, CleanupPcs, CleanupBegin, bsndVars
<1>13. CASE CleanupSignal
  <2>1. Senders' = Senders
    BY <1>13 DEF Senders, CleanupSignal
  <2> QED
    BY <1>13, <2>1, <1>a DEF RefInv, CtlTypes, CleanupPcs, CleanupSignal
<1>14. CASE CleanupRelease
  <2>1. Senders' = Senders
    BY <1>14 DEF Senders, CleanupRelease
  <2>2. refCnt' = refCnt - 1 /\ kpc = "release" /\ kpc' = "drain"
    BY <1>14 DEF CleanupRelease, RmRelease
  <2>3. zeroEvt' <=> zeroEvt \/ refCnt = 1
    BY <1>14 DEF CleanupRelease, RmRelease
  <2> QED
    BY <2>1, <2>2, <2>3, <1>a DEF RefInv
<1>15. CASE CleanupDrained
  <2>1. Senders' = Senders
    BY <1>15 DEF Senders, CleanupDrained
  <2> QED
    BY <1>15, <2>1, <1>a DEF RefInv, CtlTypes, CleanupPcs, CleanupDrained, bsndVars
<1> QED
  BY <1>1, <1>2, <1>3, <1>4, <1>5, <1>6, <1>7, <1>8, <1>9, <1>10, <1>11,
     <1>12, <1>13, <1>14, <1>15
  DEF Next, Tasklet, Timer, OnCfmFreed, TimerFreed, CallFreedClb,
      Cleanup, BlockedProceeds, HandToFw, BlockedUnlock,
      OnCfm, OnCfmPump, Expire, TimerScansSent, TimerScansQueued, TimerPops,
      TimerEndsQueue, Halt, vars, bsndVars

\* The rest keeps its types.
LEMMA CtlTypesStep ==
  ASSUME BlockInv, CtlTypes, refCnt' \in Nat, [Next]_vars
  PROVE  CtlTypes'
<1>1. CASE UNCHANGED <<active, evt, mutex, refCnt, zeroEvt, res, confirmed,
                       kpc, corrupt>>
  BY <1>1 DEF CtlTypes
<1>2. ASSUME NEW m \in Msgs, MsgSend(m)
      PROVE  CtlTypes'
  BY <1>2 DEF CtlTypes, MsgSend, SendEx, bsndVars
<1>3. ASSUME NEW m \in Msgs, BlockedEnter(m)
      PROVE  CtlTypes'
  BY <1>3 DEF CtlTypes, BlockedEnter
<1>4. ASSUME NEW m \in Msgs, BlockedLock(m)
      PROVE  CtlTypes'
  BY <1>4 DEF CtlTypes, BlockedLock
<1>5. ASSUME NEW m \in Msgs, BlockedSend(m)
      PROVE  CtlTypes'
  BY <1>5 DEF CtlTypes, BlockedSend, SendEx, bsndVars
<1>6. ASSUME NEW m \in Msgs, BlockedWait(m)
      PROVE  CtlTypes'
  BY <1>6 DEF CtlTypes, BlockedWait
<1>7. ASSUME NEW m \in Msgs, BlockedUnlock(m)
      PROVE  CtlTypes'
  BY <1>7 DEF CtlTypes, BlockedUnlock
<1>8. ASSUME NEW m \in Msgs, BlockedReturn(m)
      PROVE  CtlTypes'
  <2>1. zeroEvt' \in BOOLEAN
    BY <1>8 DEF BlockedReturn, RmRelease
  <2> QED
    BY <1>8, <2>1 DEF CtlTypes, CleanupPcs, BlockedReturn
<1>9. CASE OnCfmCallback
  <2> DEFINE b == tasklet.block
  <2>1. PICK reason \in {"CONFIRMED", "TIMEOUT"} : CallUsrClb(b, reason)
    BY <1>9 DEF OnCfmCallback
  <2>2. bmsg[b] \in Msgs /\ bclb[b] \in {"blocked", "async", "timed"}
    <3>1. b \in Blocks /\ Holds(b) /\ bque[b] = "NONE"
      BY <1>9 DEF OnCfmCallback, Holds, Answering, BlockInv, HeldInv
    <3>2. bclb[b] \in {"blocked", "async", "timed"}
      BY <3>1 DEF BlockInv, ClbInv, BlkTypes, Clbs
    <3>3. bmsg[b] # None
      BY <3>1 DEF BlockInv, DataInv
    <3> QED
      BY <3>1, <3>2, <3>3 DEF BlockInv, BlkTypes
  <2> HIDE DEF b
  <2>3. confirmed' \in SUBSET Msgs
    BY <2>1, <2>2 DEF CallUsrClb, CtlTypes
  <2>4. evt' \in BOOLEAN
    <3>1. evt' = TRUE \/ evt' = evt
      BY <2>1, <2>2 DEF CallUsrClb
    <3> QED
      BY <3>1 DEF CtlTypes
  <2> QED
    BY <1>9, <2>3, <2>4 DEF CtlTypes, OnCfmCallback
<1>10. CASE TimerCallback
  <2> DEFINE b == timer.block
  <2>1. PICK reason \in {"CONFIRMED", "TIMEOUT"} : CallUsrClb(b, reason)
    BY <1>10 DEF TimerCallback
  <2>2. bmsg[b] \in Msgs /\ bclb[b] \in {"blocked", "async", "timed"}
    <3>1. b \in Blocks /\ Holds(b) /\ bque[b] = "NONE"
      BY <1>10 DEF TimerCallback, Holds, Answering, BlockInv, HeldInv
    <3>2. bclb[b] \in {"blocked", "async", "timed"}
      BY <3>1 DEF BlockInv, ClbInv, BlkTypes, Clbs
    <3>3. bmsg[b] # None
      BY <3>1 DEF BlockInv, DataInv
    <3> QED
      BY <3>1, <3>2, <3>3 DEF BlockInv, BlkTypes
  <2> HIDE DEF b
  <2>3. confirmed' \in SUBSET Msgs
    BY <2>1, <2>2 DEF CallUsrClb, CtlTypes
  <2>4. evt' \in BOOLEAN
    <3>1. evt' = TRUE \/ evt' = evt
      BY <2>1, <2>2 DEF CallUsrClb
    <3> QED
      BY <3>1 DEF CtlTypes
  <2> QED
    BY <1>10, <2>3, <2>4 DEF CtlTypes, TimerCallback
<1>11. CASE Halt
  BY <1>11 DEF CtlTypes, Halt, bsndVars
<1>12. CASE CleanupBegin
  BY <1>12 DEF CtlTypes, CleanupBegin, bsndVars, CleanupPcs
<1>13. CASE CleanupSignal
  BY <1>13 DEF CtlTypes, CleanupSignal, CleanupPcs
<1>14. CASE CleanupRelease
  <2>1. zeroEvt' \in BOOLEAN
    BY <1>14 DEF CleanupRelease, RmRelease
  <2> QED
    BY <1>14, <2>1 DEF CtlTypes, CleanupPcs, CleanupRelease
<1>15. CASE CleanupDrained
  BY <1>15 DEF CtlTypes, CleanupDrained, bsndVars, CleanupPcs
<1>16. CASE CallFreedClb
  BY <1>16 DEF CtlTypes, CallFreedClb, bsndVars
<1> QED
  BY <1>1, <1>2, <1>3, <1>4, <1>5, <1>6, <1>7, <1>8, <1>9, <1>10, <1>11,
     <1>12, <1>13, <1>14, <1>15, <1>16
  DEF Next, Tasklet, Timer, OnCfmFreed, TimerFreed,
      Cleanup, BlockedProceeds, GetEmptyData, HandToFw,
      MsgCancel, OnCfm, OnCfmPump, Expire, TimerScansSent, TimerScansQueued,
      TimerPops, TimerEndsQueue, vars, bsndVars

\* What corrupts was cancelled too late.  The sets only grow, until then.
LEMMA CorruptStep ==
  ASSUME CorruptInv, [Next]_vars
  PROVE  CorruptInv'
<1>1. CASE UNCHANGED lateVars
  BY <1>1 DEF CorruptInv
<1>2. CASE OnCfmFreed
  BY <1>2 DEF CorruptInv, OnCfmFreed, CallFreedClb
<1>3. CASE TimerFreed
  BY <1>3 DEF CorruptInv, TimerFreed, CallFreedClb
<1>4. ASSUME NEW m \in Msgs, MsgCancel(m)
      PROVE  CorruptInv'
  <2>1. lateCfm \subseteq lateCfm' /\ lateTmr \subseteq lateTmr'
    BY <1>4 DEF MsgCancel
  <2>2. UNCHANGED corrupt
    BY <1>4 DEF MsgCancel
  <2> QED
    BY <2>1, <2>2 DEF CorruptInv
<1> QED
  BY <1>1, <1>2, <1>3, <1>4
  DEF Next, Tasklet, Timer, Cleanup, BlockedProceeds, GetEmptyData, MsgSend,
      BlockedSend, HandToFw, BlockedEnter, BlockedLock, BlockedWait,
      BlockedUnlock, BlockedReturn, OnCfm, OnCfmCallback, OnCfmPump, Expire,
      TimerScansSent, TimerScansQueued, TimerPops, TimerEndsQueue,
      TimerCallback, Halt, CleanupBegin, CleanupSignal, CleanupRelease,
      CleanupDrained, vars

-----------------------------------------------------------------------------
(***************************************************************************)
(* The invariant is inductive.                                              *)
(***************************************************************************)
LEMMA InitInv == Init => IInv
<1> SUFFICES ASSUME Init PROVE IInv
  OBVIOUS
<1>1. TypeOK
  <2>1. BlkTypes
    <3>1. queued \in Seq(Blocks)
      BY DEF Init
    <3> QED
      BY <3>1 DEF Init, BlkTypes, BlockQues, Clbs
  <2>2. UsrTypes
    BY DEF Init, UsrTypes, SlotPlaces, UserPcs, TaskletPcs, TimerPcs
  <2>3. CtlTypes
    BY DEF Init, CtlTypes, CleanupPcs
  <2> QED
    BY <2>1, <2>2, <2>3, TypeParts
<1>2. PlacedInv
  <2>1. Distinct(queued) /\ \A b : ~Has(queued, b)
    BY DEF Init, Distinct, Has
  <2> QED
    BY <2>1 DEF Init, PlacedInv
<1>3. DataInv /\ UserInv /\ HeldInv
  BY DEF Init, DataInv, UserInv, HeldInv, Holds, Ready, Inside, Answering
<1>4. ClbInv /\ SlotInv /\ LateInv /\ CorruptInv
  BY DEF Init, ClbInv, SlotInv, LateInv, CorruptInv, Holds, Answering
<1>5. RefInv
  <2>1. Senders = {}
    BY DEF Init, Senders, Inside
  <2>2. Cardinality(Senders) = 0
    BY <2>1, FS_EmptySet
  <2> QED
    BY <2>2 DEF Init, RefInv
<1> QED
  BY <1>1, <1>2, <1>3, <1>4, <1>5 DEF IInv

\* Every step keeps the invariant.
LEMMA NextInv ==
  ASSUME IInv, [Next]_vars
  PROVE  IInv'
<1>1. BlockInv /\ CtlTypes /\ ClbInv /\ SlotInv /\ RefInv /\ CorruptInv
  BY TypeParts DEF IInv, BlockInv
<1>2. BlkTypes' /\ PlacedInv' /\ DataInv'
  BY <1>1, BlkTypesStep, PlacedStep, DataStep
<1>3. UsrTypes' /\ UserInv' /\ HeldInv'
  BY <1>1, UsrTypesStep, UserStep, HeldStep
<1>4. ClbInv' /\ LateInv' /\ SlotInv' /\ RefInv' /\ CorruptInv'
  BY <1>1, ClbStep, LateStep, SlotStep, RefStep, CorruptStep
<1>5. kpc' \in CleanupPcs
  <2>1. CASE UNCHANGED kpc
    BY <1>1, <2>1 DEF CtlTypes
  <2>2. CASE CleanupBegin \/ CleanupSignal \/ CleanupRelease \/ CleanupDrained
    BY <2>2
    DEF CleanupBegin, CleanupSignal, CleanupRelease, CleanupDrained, CleanupPcs
  <2> QED
    BY <2>1, <2>2
    DEF Next, Tasklet, Timer, OnCfmFreed, TimerFreed, CallFreedClb,
        Cleanup, BlockedProceeds, GetEmptyData, MsgSend, HandToFw, MsgCancel, BlockedEnter, BlockedLock, BlockedSend,
        BlockedWait, BlockedUnlock, BlockedReturn, OnCfm, OnCfmCallback,
        OnCfmPump, Expire, TimerScansSent, TimerScansQueued, TimerPops,
        TimerEndsQueue, TimerCallback, Halt, vars
<1>6. refCnt' \in Nat
  <2>1. Senders' \subseteq Msgs
    BY DEF Senders
  <2>2. Cardinality(Senders') \in Nat
    BY <2>1, FS_Subset, FS_CardinalityType, TxmmAssumption
  <2> QED
    BY <1>4, <1>5, <2>2 DEF RefInv, CleanupPcs
<1>7. CtlTypes'
  BY <1>1, <1>6, CtlTypesStep
<1>8. TypeOK'
  <2>1. BlkTypes' /\ UsrTypes' /\ CtlTypes'
    BY <1>2, <1>3, <1>7
  <2> QED
    BY <2>1 DEF TypeOK, BlkTypes, UsrTypes, CtlTypes
<1> QED
  BY <1>2, <1>3, <1>4, <1>8 DEF IInv

\* The inductive invariant holds in every state: blocks, messages, slots, the
\* tasklet, the timer and the references to the object agree, whatever is
\* cancelled and when; what a callback for a cancelled message may still do is
\* in the steps after which nothing is known (txmm.c).
THEOREM Invariance == Spec => []IInv
<1>1. IInv /\ [Next]_vars => IInv'
  BY NextInv
<1> QED
  BY InitInv, <1>1, PTL DEF Spec

-----------------------------------------------------------------------------
(***************************************************************************)
(* The theorems.                                                            *)
(***************************************************************************)
\* Every field keeps the values the code gives it.
THEOREM TypeCorrect == Spec => []TypeOK
<1>1. IInv => TypeOK
  BY DEF IInv
<1> QED
  BY <1>1, Invariance, PTL

\* A block is in the queue its que field names, once, and message objects and
\* blocks name each other, whatever is cancelled, times out or is sent again
\* (_mtlk_txmm_free, _mtlk_txmm_on_timer_que, _mtlk_txmm_call_usr_clb_locked).
THEOREM LinkedCorrect == Spec => []Linked
<1>1. IInv => Linked
  <2> SUFFICES ASSUME IInv PROVE Linked
    OBVIOUS
  <2>1. \A b \in Blocks : InQueued(b) <=> bque[b] = "QUEUED"
    BY DEF IInv, PlacedInv, InQueued, Has
  <2>2. BlockPlaced
    BY <2>1 DEF IInv, PlacedInv, BlockPlaced, Distinct
  <2> QED
    BY <2>2 DEF IInv, DataInv, Linked
<1> QED
  BY <1>1, Invariance, PTL

\* Two blocks never wait for the same slot, and the slot a sent block waits for
\* is with the sender or the firmware (_mtlk_txmm_send_ex, _mtlk_txmm_on_cfm,
\* _mtlk_txmm_pump).
THEOREM SlotOwnershipCorrect == Spec => []SlotOwnership
<1>1. IInv => SlotOwnership
  BY DEF IInv, SlotInv, SlotOwnership
<1> QED
  BY <1>1, Invariance, PTL

\* mtlk_txmm_cleanup does not end its wait for the remove lock while a blocked
\* sender is inside.
THEOREM CleanupWaitsCorrect == Spec => []CleanupWaits
<1>1. IInv => CleanupWaits
  <2> SUFFICES ASSUME IInv, kpc = "cleaned", zeroEvt, NEW m \in BlockedMsgs
               PROVE  ust[m] \notin Inside
    BY DEF CleanupWaits, Inside
  <2>1. Cardinality(Senders) = 0
    BY DEF IInv, RefInv
  <2>2. Senders \subseteq Msgs
    BY DEF Senders
  <2>3. IsFiniteSet(Senders)
    BY <2>2, FS_Subset, TxmmAssumption
  <2>4. Senders = {}
    BY <2>1, <2>3, FS_EmptySet
  <2> QED
    BY <2>4 DEF Senders, Msgs
<1> QED
  BY <1>1, Invariance, PTL

\* None of the pointers of _mtlk_txmm_call_usr_clb_locked is NULL, or of
\* another message.
Callable(b) == bmsg[b] \in Msgs /\ data[bmsg[b]] = b /\ bclb[b] # "none"

\* Where the tasklet or the timer is about to call back, the block has a
\* message, the message has the block, and there is a callback to call, unless
\* that very block was cancelled since it was taken for the callback; and the
\* callback of such a block is the only thing that corrupts.  A cancel that
\* comes too late is therefore the only way _mtlk_txmm_call_usr_clb_locked
\* meets a NULL pointer or another message's block.
CallbackSafe ==
  /\ tasklet.pc = "clb" =>
       \/ tasklet.block \in lateCfm
       \/ Callable(tasklet.block)
  /\ timer.pc \in Answering =>
       \/ timer.block \in lateTmr
       \/ Callable(timer.block)
  /\ corrupt => lateCfm \cup lateTmr # {}

\* A callback meets a NULL pointer or a stranger's block only if the message
\* was cancelled after the tasklet or the timer had decided to call it
\* (_mtlk_txmm_call_usr_clb_locked, mtlk_txmm_msg_cancel).
THEOREM CallbackSafeCorrect == Spec => []CallbackSafe
<1>1. IInv => CallbackSafe
  <2> SUFFICES ASSUME IInv PROVE CallbackSafe
    OBVIOUS
  <2>1. ASSUME NEW b \in Blocks, Holds(b) PROVE Callable(b)
    <3>1. bque[b] = "NONE"
      BY <2>1 DEF IInv, HeldInv
    <3>2. bmsg[b] # None /\ data[bmsg[b]] = b
      BY <3>1 DEF IInv, DataInv
    <3>3. bmsg[b] \in Msgs
      BY <3>2 DEF IInv, TypeOK
    <3> QED
      BY <2>1, <3>2, <3>3 DEF IInv, ClbInv, Callable
  <2>2. /\ tasklet.pc = "clb" => tasklet.block \in Blocks
        /\ timer.pc \in Answering => timer.block \in Blocks
    BY DEF IInv, HeldInv
  <2>3. corrupt => lateCfm \cup lateTmr # {}
    BY DEF IInv, CorruptInv
  <2> QED
    BY <2>1, <2>2, <2>3 DEF CallbackSafe, Holds
<1> QED
  BY <1>1, Invariance, PTL

\* A step changes the order of QUEUED only by what it takes out: of two queued
\* blocks the later one does not get a slot before the earlier one.
LEMMA FifoStep ==
  ASSUME IInv, [Next]_vars
  PROVE  \A b, c \in Blocks :
           Ahead(queued, b, c) => \/ Ahead(queued', b, c)
                                  \/ bque'[b] # "QUEUED"
                                  \/ bque'[c] # "QUEUED" /\ bque'[c] # "SENT"
<1> DEFINE Kpt(b, c) == \/ Ahead(queued', b, c)
                        \/ bque'[b] # "QUEUED"
                        \/ bque'[c] # "QUEUED" /\ bque'[c] # "SENT"
<1> SUFFICES ASSUME NEW b \in Blocks, NEW c \in Blocks, Ahead(queued, b, c)
             PROVE  Kpt(b, c)
  OBVIOUS
<1>1. BlockInv /\ BlkTypes /\ PlacedInv /\ bque \in [Blocks -> BlockQues]
  BY TypeParts DEF IInv, BlockInv, BlkTypes
<1>2. CASE UNCHANGED queued
  BY <1>2
<1>3. ASSUME NEW m \in Msgs, MsgSend(m) \/ BlockedSend(m)
      PROVE  Kpt(b, c)
  <2>1. PICK clb : Sends(m, clb)
    BY <1>1, <1>3, Sending
  <2>2. CASE SentLater(data[m])
    BY <2>2 DEF SentLater, QueueStep
  <2>3. ASSUME NEW s \in Slots, NEW h \in Blocks, SentInstead(data[m], h, s)
        PROVE  Kpt(b, c)
    <3>1. b = h \/ Ahead(queued', b, c)
      BY <2>3 DEF SentInstead, QueueStep
    <3>2. bque'[h] = "SENT"
      BY <1>1, <2>3 DEF SentInstead
    <3> QED
      BY <3>1, <3>2
  <2> QED
    BY <2>1, <2>2, <2>3 DEF Sends
<1>4. ASSUME NEW m \in Msgs, MsgCancel(m)
      PROVE  Kpt(b, c)
  <2>1. Cancels(m)
    BY <1>1, <1>4, Cancelling
  <2>2. b = data[m] \/ c = data[m] \/ Ahead(queued', b, c)
    BY <2>1 DEF Cancels, QueueStep
  <2>3. bque'[data[m]] = "FREE"
    BY <1>1, <2>1 DEF Cancels, FreeBuf
  <2> QED
    BY <2>2, <2>3
<1>5. CASE OnCfmCallback \/ TimerCallback
  <2>1. PICK x \in Blocks : Calls(x)
    BY <1>1, <1>5, Calling
  <2> QED
    BY <2>1 DEF Calls, Answered, SentAgain, Parted, QueueStep
<1>6. CASE OnCfmPump
  <2>1. CASE SlotFreed(tasklet.slot)
    BY <2>1 DEF SlotFreed, QueueStep
  <2>2. ASSUME NEW h \in Blocks, Pumped(h, tasklet.slot)
        PROVE  Kpt(b, c)
    <3>1. b = h \/ Ahead(queued', b, c)
      BY <2>2 DEF Pumped, QueueStep
    <3>2. bque'[h] = "SENT"
      BY <1>1, <2>2 DEF Pumped
    <3> QED
      BY <3>1, <3>2
  <2> QED
    BY <1>1, <1>6, <2>1, <2>2, PumpEffect
<1>7. CASE TimerScansQueued
  <2>1. PICK D \in SUBSET Blocks :
           /\ QueueStep({}, {}, D)
           /\ bque' = [x \in Blocks |->
                         IF x \in D THEN "TIMED_OUT" ELSE bque[x]]
    BY <1>1, <1>7, ScanEffect
  <2>2. b \in D \/ c \in D \/ Ahead(queued', b, c)
    BY <2>1 DEF QueueStep
  <2> QED
    BY <2>1, <2>2
<1> QED
  BY <1>2, <1>3, <1>4, <1>5, <1>6, <1>7
  DEF Next, Tasklet, Timer, OnCfmFreed, TimerFreed, CallFreedClb,
      Cleanup, BlockedProceeds, GetEmptyData, HandToFw,
      BlockedEnter, BlockedLock, BlockedWait, BlockedUnlock, BlockedReturn,
      OnCfm, Expire, TimerScansSent, TimerPops, TimerEndsQueue, Halt,
      CleanupBegin, CleanupSignal, CleanupRelease, CleanupDrained, vars, queVars

\* QUEUED keeps the order of sending.
THEOREM FifoKeptCorrect == Spec => FifoKept
<1>1. IInv /\ [Next]_vars =>
        [\A b, c \in Blocks :
           Ahead(queued, b, c) => \/ Ahead(queued', b, c)
                                  \/ bque'[b] # "QUEUED"
                                  \/ bque'[c] # "QUEUED" /\ bque'[c] # "SENT"]_vars
  BY FifoStep
<1> QED
  BY <1>1, Invariance, PTL DEF Spec, FifoKept
=============================================================================
