------------------------------ MODULE SqProofs ------------------------------
(***************************************************************************)
(* Proofs about Sq, for any sets of stations, access points and senders,    *)
(* any number of categories and descriptors and any limits.                 *)
(***************************************************************************)
EXTENDS Sq, ListFacts, FunctionTheorems, FiniteSetTheorems, TLAPS

-----------------------------------------------------------------------------
(***************************************************************************)
(* The invariant.                                                           *)
(***************************************************************************)

\* What the tasklet holds at each of its steps.
Carrying == {"get", "read", "stop", "send", "count"}
FlInv ==
  /\ fl.pc \in {"idle", "peer"} => fl.peer = NULL /\ fl.pkt = NULL
  /\ fl.pc # "idle" => fl.ac \in ACs /\ fl.pos \in Nat \ {0}
  /\ fl.pc \in Carrying => fl.peer \in Peers /\ fl.pkt \in Packets
  /\ fl.msg => fl.pc \in {"read", "stop", "send", "count"}
  /\ fl.pc = "count" => fl.msg

\* What the other threads hold.
CfmInv == cfm.pc # "idle" => cfm.desc \in Descs
SndInv ==
  \A c \in Senders :
    /\ snd[c].pc # "idle" => snd[c].ac \in ACs
    /\ snd[c].pc = "queue" => snd[c].peer \in Peers /\ snd[c].pkt \in Plain
    /\ snd[c].pc = "clone" => snd[c].pkt \in Clones
DiscInv == disc.pc # "idle" => disc.vap \in Vaps

\* While a key is set the station stays, no packet for it is taken from its queue
\* or, on a station interface, from that of broadcasts, and once the lock was held
\* none is in the tasklet's hands.
KeyInv ==
  /\ key.pc # "idle" => key.peer \in Stations
  /\ key.pc # "idle" => key.peer \in listed /\ disc.pc = "idle"
  /\ key.pc \in {"cancel", "wait", "send"} =>
       filter[key.peer] = "none" /\ key.stored \in Filters
  /\ key.pc \in {"wait", "send"} => fl.peer # key.peer /\ (is_ap \/ fl.peer # Broadcast)
  /\ key.pc = "send" => InHw(key.peer) = 0

\* The packet that was handed over and is not counted yet is in one place, and
\* no other is marked as such.
CurInv ==
  /\ fl.pc # "count" => /\ \A d \in Descs : d.cur => hw[d] = 0
                        /\ cfm.pc # "idle" => ~cfm.desc.cur
  /\ fl.pc = "count" => /\ \A d \in Descs : d.cur /\ d # CurDesc => hw[d] = 0
                        /\ cfm.pc # "idle" /\ cfm.desc.cur => cfm.desc = CurDesc
                        /\ hw[CurDesc] + One(cfm.pc # "idle" /\ cfm.desc.cur) <= 1

ThreadInv == FlInv /\ CfmInv /\ SndInv /\ DiscInv /\ CurInv

\* Known stations are in every list.
OrderInv ==
  \A a \in ACs : \A p \in listed \cup {Broadcast} : Has(order[a], p)

\* The inductive invariant of the type correctness and of the counts.
IInv == TypeOK /\ ThreadInv /\ OrderInv /\ UsedMatches /\ PoolMatches /\ KeyInv

\* A confirmation that found no descriptor free is not the last one: another
\* descriptor is busy or in the tasklet's hands.
LastInv == cfm.pc # "idle" /\ cfm.res = 0 => free + 2 <= PoolSize

\* A round that sent nothing yet has looked at every station from the first on.
RoundInv == fl.pc = "peer" /\ ~fl.sent => fl.pos = 1

\* Something is under way that schedules the tasklet or is excused.
Pending ==
  \/ scheduled \/ stops # {} \/ early
  \/ Busy # {} \/ (fl.msg /\ fl.pc # "count")
  \/ (cfm.pc = "wake" /\ cfm.res # 0)
  \/ \E c \in Senders : snd[c].pc = "clone"

\* The categories the tasklet has left are empty, unless it will come again.
Done(a) == fl.pc = "idle" \/ a > fl.ac
Clear(a) == \A p \in listed \cup {Broadcast} : buflist[p][a] = <<>>
AllClear == \A a \in ACs : Done(a) => Clear(a)
ServedInv == Pending \/ AllClear

-----------------------------------------------------------------------------
(***************************************************************************)
(* Busy descriptors, as a function h of their kinds counts them.            *)
(***************************************************************************)
BusyOf(h) == {x \in Descs \X (1 .. PoolSize) : x[2] <= h[x[1]]}
Mine(h, p) == {x \in BusyOf(h) : x[1].peer = p}
Of(d, p) == One(d.peer = p)

\* The constants, in the form the steps use them.
LEMMA Constants ==
  /\ PoolSize \in Nat /\ PoolSize >= 1 /\ NACs \in Nat /\ NACs >= 1
  /\ LimitCfg \in Nat /\ LimitCfg >= 1 /\ PmLimit \in Nat /\ PmLimit >= 1
  /\ MaxPackets \in Nat /\ MaxRequests \in Nat
  /\ Broadcast \in Peers /\ Broadcast \notin Stations /\ NULL \notin Peers
  /\ NULL \notin Packets /\ NULL \notin Stations
  /\ VapOf \in [Stations -> Vaps]
BY StationsAssumption, BoundsAssumption, NullAssumption DEF Peers, Packets, Kinds

\* There are finitely many kinds of descriptors.
LEMMA DescsFinite == IsFiniteSet(Descs)
<1> DEFINE A == Peers \cup {NULL}
           B == (A \X Vaps) \X BOOLEAN
           f == [d \in Descs |-> <<<<d.peer, d.vap>>, d.cur>>]
<1>1. IsFiniteSet(Stations) /\ IsFiniteSet(Vaps)
  BY StationsAssumption, UsersAssumption
<1>2. IsFiniteSet(Peers)
  BY <1>1, FS_AddElement DEF Peers
<1>3. IsFiniteSet(A)
  BY <1>2, FS_AddElement
<1>4. IsFiniteSet(BOOLEAN)
  <2>1. BOOLEAN = ({} \cup {TRUE}) \cup {FALSE}
    OBVIOUS
  <2>2. IsFiniteSet({} \cup {TRUE})
    BY FS_EmptySet, FS_AddElement
  <2> QED
    BY <2>1, <2>2, FS_AddElement
<1> HIDE DEF A
<1>5. IsFiniteSet(B)
  <2>1. IsFiniteSet(A \X Vaps)
    BY <1>1, <1>3, FS_Product
  <2> QED
    BY <1>4, <2>1, FS_Product
<1>6. f \in [Descs -> B]
  BY DEF Descs, A
<1>7. ASSUME NEW x \in Descs, NEW y \in Descs, f[x] = f[y]
      PROVE  x = y
  <2>1. x.peer = y.peer /\ x.vap = y.vap /\ x.cur = y.cur
    BY <1>7
  <2> QED
    BY <2>1 DEF Descs
<1> HIDE DEF B, f
<1>8. f \in Injection(Descs, B)
  BY <1>6, <1>7, Fun_IsInj
<1> QED
  BY <1>5, <1>8, FS_Injection

\* So there are finitely many busy ones, of all and of one station.
LEMMA BusyFinite ==
  ASSUME NEW h
  PROVE  /\ IsFiniteSet(BusyOf(h)) /\ Cardinality(BusyOf(h)) \in Nat
         /\ \A p : IsFiniteSet(Mine(h, p)) /\ Cardinality(Mine(h, p)) \in Nat
<1>1. IsFiniteSet(1 .. PoolSize)
  BY Constants, FS_Interval
<1>2. IsFiniteSet(Descs \X (1 .. PoolSize))
  BY <1>1, DescsFinite, FS_Product
<1>3. IsFiniteSet(BusyOf(h))
  BY <1>2, FS_Subset DEF BusyOf
<1>4. \A p : IsFiniteSet(Mine(h, p))
  BY <1>3, FS_Subset DEF Mine
<1> QED
  BY <1>3, <1>4, FS_CardinalityType

\* There are as many busy descriptors as there are of one kind at least.
LEMMA HwBound ==
  ASSUME NEW h \in [Descs -> 0 .. PoolSize], NEW d \in Descs
  PROVE  h[d] <= Cardinality(BusyOf(h))
<1> DEFINE f == [i \in 1 .. h[d] |-> <<d, i>>]
<1>1. h[d] \in 0 .. PoolSize /\ PoolSize \in Nat
  BY Constants
<1>2. f \in [1 .. h[d] -> BusyOf(h)]
  BY <1>1 DEF BusyOf
<1>3. \A x, y \in 1 .. h[d] : f[x] = f[y] => x = y
  OBVIOUS
<1> HIDE DEF f
<1>4. f \in Injection(1 .. h[d], BusyOf(h))
  BY <1>2, <1>3, Fun_IsInj
<1>5. Cardinality(1 .. h[d]) <= Cardinality(BusyOf(h))
  BY <1>4, BusyFinite, FS_Injection
<1>6. Cardinality(1 .. h[d]) = h[d]
  BY <1>1, FS_Interval
<1> QED
  BY <1>5, <1>6

\* A descriptor becomes busy: one more, of its kind.
LEMMA BusyGain ==
  ASSUME NEW h \in [Descs -> 0 .. PoolSize], NEW d \in Descs, h[d] < PoolSize,
         NEW g, g = [h EXCEPT ![d] = @ + 1]
  PROVE  /\ g \in [Descs -> 0 .. PoolSize]
         /\ BusyOf(g) = BusyOf(h) \cup {<<d, h[d] + 1>>}
         /\ <<d, h[d] + 1>> \notin BusyOf(h)
<1> DEFINE x == <<d, h[d] + 1>>
<1>1. h[d] \in 0 .. PoolSize /\ PoolSize \in Nat
  BY Constants
<1>2. g \in [Descs -> 0 .. PoolSize]
  BY <1>1
<1>3. BusyOf(g) = BusyOf(h) \cup {x} /\ x \notin BusyOf(h)
  <2>1. x \in BusyOf(g) /\ x \notin BusyOf(h)
    BY <1>1 DEF BusyOf
  <2>2. ASSUME NEW y \in Descs \X (1 .. PoolSize), y # x
        PROVE  y[2] <= g[y[1]] <=> y[2] <= h[y[1]]
    <3>1. y = <<y[1], y[2]>> /\ y[1] \in Descs /\ y[2] \in 1 .. PoolSize
      OBVIOUS
    <3>2. CASE y[1] = d
      BY <1>1, <2>2, <3>1, <3>2
    <3>3. CASE y[1] # d
      BY <3>1, <3>3
    <3> QED
      BY <3>2, <3>3
  <2> HIDE DEF x
  <2> QED
    BY <2>1, <2>2 DEF BusyOf
<1> QED
  BY <1>2, <1>3

\* So there is one more of all.
LEMMA BusyAdd ==
  ASSUME NEW h \in [Descs -> 0 .. PoolSize], NEW d \in Descs, h[d] < PoolSize,
         NEW g, g = [h EXCEPT ![d] = @ + 1]
  PROVE  /\ g \in [Descs -> 0 .. PoolSize]
         /\ Cardinality(BusyOf(g)) = Cardinality(BusyOf(h)) + 1
<1> DEFINE x == <<d, h[d] + 1>>
<1>1. g \in [Descs -> 0 .. PoolSize] /\ BusyOf(g) = BusyOf(h) \cup {x} /\ x \notin BusyOf(h)
  BY BusyGain
<1> HIDE DEF x
<1> QED
  BY <1>1, BusyFinite, FS_AddElement

\* In g one more descriptor of the kind d is busy than in h, as p counts them.
OneMore(g, h, d, p) == Cardinality(Mine(g, p)) = Cardinality(Mine(h, p)) + Of(d, p)

\* And one more of its station.
LEMMA MineAdd ==
  ASSUME NEW h \in [Descs -> 0 .. PoolSize], NEW d \in Descs, h[d] < PoolSize,
         NEW p, NEW g, g = [h EXCEPT ![d] = @ + 1]
  PROVE  OneMore(g, h, d, p)
<1> DEFINE x == <<d, h[d] + 1>>
<1>1. BusyOf(g) = BusyOf(h) \cup {x} /\ x \notin BusyOf(h)
  BY BusyGain
<1>2. x[1] = d
  OBVIOUS
<1> HIDE DEF x
<1>3. /\ IsFiniteSet(Mine(h, p)) /\ Cardinality(Mine(h, p)) \in Nat
  BY BusyFinite
<1>4. CASE d.peer = p
  <2>1. Mine(g, p) = Mine(h, p) \cup {x} /\ x \notin Mine(h, p)
    BY <1>1, <1>2, <1>4 DEF Mine
  <2>2. Cardinality(Mine(g, p)) = Cardinality(Mine(h, p)) + 1
    BY <1>3, <2>1, FS_AddElement
  <2>3. Of(d, p) = 1
    BY <1>4 DEF Of, One
  <2> QED
    BY <2>2, <2>3 DEF OneMore
<1>5. CASE d.peer # p
  <2>1. Mine(g, p) = Mine(h, p)
    BY <1>1, <1>2, <1>5 DEF Mine
  <2>2. Of(d, p) = 0
    BY <1>5 DEF Of, One
  <2> QED
    BY <1>3, <2>1, <2>2 DEF OneMore
<1> QED
  BY <1>4, <1>5

Plus(h, d) == [h EXCEPT ![d] = @ + 1]

\* Taking a descriptor back is the opposite of its becoming busy.
LEMMA Undone ==
  ASSUME NEW h \in [Descs -> 0 .. PoolSize], NEW d \in Descs, h[d] > 0,
         NEW g, g = [h EXCEPT ![d] = @ - 1]
  PROVE  /\ g \in [Descs -> 0 .. PoolSize] /\ g[d] < PoolSize
         /\ h = Plus(g, d)
<1>1. h[d] \in 0 .. PoolSize /\ PoolSize \in Nat
  BY Constants
<1>2. g \in [Descs -> 0 .. PoolSize] /\ g[d] = h[d] - 1 /\ g[d] < PoolSize
  BY <1>1
<1> DEFINE k == [g EXCEPT ![d] = @ + 1]
<1>3. \A e \in Descs : k[e] = h[e]
  BY <1>1, <1>2
<1>4. h = [e \in Descs |-> h[e]] /\ k = [e \in Descs |-> k[e]]
  BY <1>2
<1> HIDE DEF k
<1>5. h = k
  BY <1>3, <1>4
<1> QED
  BY <1>2, <1>5 DEF k, Plus

\* A descriptor is taken back: one less of all.
LEMMA BusyRemove ==
  ASSUME NEW h \in [Descs -> 0 .. PoolSize], NEW d \in Descs, h[d] > 0,
         NEW g, g = [h EXCEPT ![d] = @ - 1]
  PROVE  /\ g \in [Descs -> 0 .. PoolSize]
         /\ Cardinality(BusyOf(g)) = Cardinality(BusyOf(h)) - 1
<1>1. /\ g \in [Descs -> 0 .. PoolSize] /\ g[d] < PoolSize
      /\ h = Plus(g, d)
  BY Undone
<1>2. Cardinality(BusyOf(h)) = Cardinality(BusyOf(g)) + 1
  BY <1>1, BusyAdd DEF Plus
<1>3. Cardinality(BusyOf(g)) \in Nat /\ Cardinality(BusyOf(h)) \in Nat
  BY BusyFinite
<1>4. Cardinality(BusyOf(g)) = Cardinality(BusyOf(h)) - 1
  BY <1>2, <1>3
<1> QED
  BY <1>1, <1>4

\* And one less of its station.
LEMMA MineRemove ==
  ASSUME NEW h \in [Descs -> 0 .. PoolSize], NEW d \in Descs, h[d] > 0,
         NEW p, NEW g, g = [h EXCEPT ![d] = @ - 1]
  PROVE  OneMore(h, g, d, p)
<1>1. /\ g \in [Descs -> 0 .. PoolSize] /\ g[d] < PoolSize
      /\ h = Plus(g, d)
  BY Undone
<1> QED
  BY <1>1, MineAdd DEF Plus

\* Nobody's descriptors are counted by a number below zero, and somebody's
\* being busy means that one is.
LEMMA MineBusy ==
  ASSUME NEW h, NEW p
  PROVE  /\ Cardinality(Mine(h, p)) > 0 => BusyOf(h) # {}
         /\ Cardinality(BusyOf(h)) > 0 <=> BusyOf(h) # {}
<1>1. Cardinality(BusyOf(h)) = 0 <=> BusyOf(h) = {}
  BY BusyFinite, FS_EmptySet
<1>2. BusyOf(h) = {} => Mine(h, p) = {}
  BY DEF Mine
<1>3. Cardinality(Mine(h, p)) = 0 <=> Mine(h, p) = {}
  BY BusyFinite, FS_EmptySet
<1> QED
  BY <1>1, <1>2, <1>3, BusyFinite

-----------------------------------------------------------------------------
(***************************************************************************)
(* Which actions change what.                                               *)
(***************************************************************************)

SenderStep(c) ==
  \/ \E p \in listed \cup {Broadcast}, v \in Vaps, k \in {"data", "eapol"}, a \in ACs :
       Transmit(c, p, v, k, a)
  \/ EnqueuePkt(c)
  \/ \E v \in Vaps, a \in ACs : CloneBegin(c, v, a)
  \/ \E p \in Stations : Clone(c, p)
  \/ CloneEnd(c)
StationStep(p) ==
  \/ SendNullPacket(p) \/ AddSta(p) \/ DisconnectSta(p) \/ RemoveSta(p)
  \/ \E b \in BOOLEAN : PmUpdate(p, b) \/ KeyBegin(p, b)
EndStep == DisconnectWait \/ CleanVap \/ \E v \in Vaps : DisconnectAll(v)

\* The actions in groups.
LEMMA Groups ==
  ASSUME [Next]_vars
  PROVE  \/ ScannerStops \/ ScannerStarts
         \/ \E c \in Senders : SenderStep(c)
         \/ Flush
         \/ \E d \in Descs : Confirm(d)
         \/ ConfirmStep
         \/ KeyStep
         \/ \E p \in Stations : StationStep(p)
         \/ EndStep
         \/ UNCHANGED vars
BY DEF Next, Step, SenderStep, StationStep, EndStep

\* What a step that does nothing leaves alone, one by one.
LEMMA StutterKeeps ==
  ASSUME UNCHANGED vars
  PROVE  /\ UNCHANGED <<order, buflist, size, ext>>
         /\ UNCHANGED <<used, limit, filter, listed>>
         /\ UNCHANGED <<free, hw, stops, prohibited, scheduled>>
         /\ UNCHANGED <<fl, cfm, snd, key, disc>>
         /\ UNCHANGED <<is_ap, npackets, nrequests, early, stale>>
BY DEF vars, queVars, peerVars, hwVars, flowVars, procVars, bounds, ghosts

\* What the other user of the flow control leaves alone.
LEMMA ScannerKeeps ==
  ASSUME ScannerStops \/ ScannerStarts
  PROVE  /\ UNCHANGED <<order, buflist, size, ext>>
         /\ UNCHANGED <<used, limit, filter, listed>>
         /\ UNCHANGED <<free, hw>>
         /\ UNCHANGED <<fl, cfm, snd, key, disc>>
         /\ UNCHANGED <<early, stale>>
BY DEF ScannerStops, ScannerStarts, queVars, peerVars, hwVars, procVars, ghosts

\* What a sender leaves alone.
LEMMA SenderKeeps ==
  ASSUME NEW c \in Senders, SenderStep(c)
  PROVE  /\ UNCHANGED order
         /\ UNCHANGED <<used, limit, filter, listed>>
         /\ UNCHANGED <<free, hw, stops, prohibited>>
         /\ UNCHANGED <<fl, cfm, key, disc>>
         /\ UNCHANGED <<nrequests, early, stale>>
BY DEF SenderStep, Transmit, EnqueuePkt, CloneBegin, Clone, CloneEnd, peerVars, hwVars,
       flowVars, bounds, ghosts

\* What the tasklet leaves alone.
LEMMA FlushKeeps ==
  ASSUME Flush
  PROVE  /\ UNCHANGED <<limit, filter, listed>>
         /\ UNCHANGED <<snd, key, disc>>
         /\ UNCHANGED <<npackets, nrequests>>
BY DEF Flush, FlushBegin, FlushRound, FlushProhibited, FlushFiltered, FlushTake,
       FlushGet, FlushRead, FlushStop, FlushSend, FlushCount, peerVars, bounds

\* What the handler of confirmations leaves alone.
LEMMA ConfirmKeeps ==
  ASSUME (\E d \in Descs : Confirm(d)) \/ ConfirmStep
  PROVE  /\ UNCHANGED <<order, buflist, size, ext>>
         /\ UNCHANGED <<limit, filter, listed>>
         /\ UNCHANGED <<fl, snd, key, disc>>
         /\ UNCHANGED <<npackets, nrequests, early, stale>>
BY DEF Confirm, ConfirmStep, ConfirmWake, ConfirmUsed, ConfirmFree, queVars, peerVars,
       bounds, ghosts

\* What the request that sets a key leaves alone.
LEMMA KeyKeeps ==
  ASSUME KeyStep
  PROVE  /\ UNCHANGED order
         /\ UNCHANGED <<used, limit, listed>>
         /\ UNCHANGED <<free, hw, stops, prohibited, scheduled>>
         /\ UNCHANGED <<fl, cfm, snd, disc>>
         /\ UNCHANGED <<npackets, nrequests, early, stale>>
BY DEF KeyStep, KeyMsg4, KeyFilter, KeyCancel, KeyWait, KeySent, queVars, peerVars,
       hwVars, flowVars, bounds, ghosts

\* What the requests about one station leave alone.
LEMMA StationKeeps ==
  ASSUME NEW p \in Stations, StationStep(p)
  PROVE  /\ UNCHANGED <<stops, prohibited>>
         /\ UNCHANGED <<fl, cfm, snd>>
         /\ UNCHANGED <<early, stale>>
         /\ SendNullPacket(p) \/ UNCHANGED <<free, hw>>
         /\ AddSta(p) \/ UNCHANGED used
         /\ AddSta(p) \/ RemoveSta(p) \/ UNCHANGED <<order, listed>>
         /\ RemoveSta(p) \/ UNCHANGED <<buflist, size, ext>>
         /\ (\E b \in BOOLEAN : KeyBegin(p, b)) \/ UNCHANGED key
         /\ DisconnectSta(p) \/ RemoveSta(p) \/ UNCHANGED disc
         /\ AddSta(p) \/ (\E b \in BOOLEAN : KeyBegin(p, b)) \/ UNCHANGED filter
<1>1. CASE SendNullPacket(p)
  BY <1>1 DEF SendNullPacket, queVars, peerVars, flowVars, procVars, ghosts
<1>2. CASE AddSta(p)
  BY <1>2 DEF AddSta, hwVars, flowVars, procVars, ghosts
<1>3. CASE DisconnectSta(p)
  BY <1>3 DEF DisconnectSta, queVars, peerVars, hwVars, flowVars, ghosts
<1>4. CASE RemoveSta(p)
  BY <1>4 DEF RemoveSta, hwVars, flowVars, ghosts
<1>5. ASSUME NEW b \in BOOLEAN, PmUpdate(p, b)
      PROVE  /\ UNCHANGED <<stops, prohibited, fl, cfm, snd, early, stale>>
             /\ UNCHANGED <<free, hw, used, order, listed, buflist, size, ext>>
             /\ UNCHANGED <<key, disc, filter>>
  BY <1>5 DEF PmUpdate, queVars, hwVars, flowVars, procVars, ghosts
<1>6. ASSUME NEW b \in BOOLEAN, KeyBegin(p, b)
      PROVE  /\ UNCHANGED <<stops, prohibited, fl, cfm, snd, early, stale>>
             /\ UNCHANGED <<free, hw, used, order, listed, buflist, size, ext>>
             /\ UNCHANGED disc
  BY <1>6 DEF KeyBegin, queVars, hwVars, flowVars, ghosts
<1> QED
  BY <1>1, <1>2, <1>3, <1>4, <1>5, <1>6 DEF StationStep

\* What the end of a disconnection and the one of an access point leave alone.
LEMMA EndKeeps ==
  ASSUME EndStep
  PROVE  /\ UNCHANGED order
         /\ UNCHANGED <<used, limit, listed>>
         /\ UNCHANGED <<free, hw, stops, prohibited, scheduled>>
         /\ UNCHANGED <<fl, cfm, snd, key>>
         /\ UNCHANGED <<npackets, early, stale>>
BY DEF EndStep, DisconnectAll, DisconnectWait, CleanVap, Request, queVars, peerVars,
       hwVars, flowVars, bounds, ghosts

\* Only the tasklet moves the tasklet.
LEMMA FlFrame ==
  ASSUME [Next]_vars
  PROVE  Flush \/ UNCHANGED fl
BY Groups, StutterKeeps, ScannerKeeps, SenderKeeps, ConfirmKeeps, KeyKeeps, StationKeeps,
   EndKeeps

\* The confirmation in progress changes with its steps, and the tasklet marks
\* the packet it has counted.
LEMMA CfmFrame ==
  ASSUME [Next]_vars
  PROVE  \/ \E d \in Descs : Confirm(d)
         \/ ConfirmStep \/ FlushCount \/ UNCHANGED cfm
<1>1. Flush => FlushCount \/ UNCHANGED cfm
  BY DEF Flush, FlushBegin, FlushRound, FlushProhibited, FlushFiltered, FlushTake,
         FlushGet, FlushRead, FlushStop, FlushSend
<1> QED
  BY <1>1, Groups, StutterKeeps, ScannerKeeps, SenderKeeps, KeyKeeps, StationKeeps,
     EndKeeps

\* Senders move themselves.
LEMMA SndFrame ==
  ASSUME [Next]_vars
  PROVE  (\E c \in Senders : SenderStep(c)) \/ UNCHANGED snd
BY Groups, StutterKeeps, ScannerKeeps, FlushKeeps, ConfirmKeeps, KeyKeeps, StationKeeps,
   EndKeeps

\* Descriptors are taken and given back by the tasklet, the confirmations and
\* the keep-alive packets.
LEMMA HwFrame ==
  ASSUME [Next]_vars
  PROVE  \/ \E d \in Descs : Confirm(d)
         \/ ConfirmFree \/ FlushGet \/ FlushSend \/ FlushCount
         \/ \E p \in Stations : SendNullPacket(p)
         \/ UNCHANGED <<free, hw>>
<1>1. Flush => FlushGet \/ FlushSend \/ FlushCount \/ UNCHANGED <<free, hw>>
  BY DEF Flush, FlushBegin, FlushRound, FlushProhibited, FlushFiltered, FlushTake,
         FlushRead, FlushStop, hwVars
<1>2. ConfirmStep => ConfirmFree \/ UNCHANGED <<free, hw>>
  BY DEF ConfirmStep, ConfirmWake, ConfirmUsed, hwVars
<1> QED
  BY <1>1, <1>2, Groups, StutterKeeps, ScannerKeeps, SenderKeeps, KeyKeeps, StationKeeps,
     EndKeeps

\* Packets of a station in the firmware are counted in three places.
LEMMA UsedFrame ==
  ASSUME [Next]_vars
  PROVE  \/ ConfirmUsed \/ FlushCount
         \/ \E p \in Stations : AddSta(p)
         \/ UNCHANGED used
<1>1. Flush => FlushCount \/ UNCHANGED used
  BY DEF Flush, FlushBegin, FlushRound, FlushProhibited, FlushFiltered, FlushTake,
         FlushGet, FlushRead, FlushStop, FlushSend, peerVars
<1>2. (\E d \in Descs : Confirm(d)) \/ ConfirmStep => ConfirmUsed \/ UNCHANGED used
  BY DEF Confirm, ConfirmStep, ConfirmWake, ConfirmFree, peerVars
<1> QED
  BY <1>1, <1>2, Groups, StutterKeeps, ScannerKeeps, SenderKeeps, KeyKeeps, StationKeeps,
     EndKeeps

\* The request that sets a key moves itself.
LEMMA KeyFrame ==
  ASSUME [Next]_vars
  PROVE  \/ \E p \in Stations : \E b \in BOOLEAN : KeyBegin(p, b)
         \/ KeyStep \/ UNCHANGED key
BY Groups, StutterKeeps, ScannerKeeps, SenderKeeps, FlushKeeps, ConfirmKeeps,
   StationKeeps, EndKeeps

\* So does the one that disconnects.
LEMMA DiscFrame ==
  ASSUME [Next]_vars
  PROVE  \/ \E p \in Stations : DisconnectSta(p) \/ RemoveSta(p)
         \/ EndStep \/ UNCHANGED disc
BY Groups, StutterKeeps, ScannerKeeps, SenderKeeps, FlushKeeps, ConfirmKeeps, KeyKeeps,
   StationKeeps

\* The filter of a station changes with requests.
LEMMA FilterFrame ==
  ASSUME [Next]_vars
  PROVE  \/ \E p \in Stations : AddSta(p) \/ \E b \in BOOLEAN : KeyBegin(p, b)
         \/ KeyStep
         \/ \E v \in Vaps : DisconnectAll(v)
         \/ UNCHANGED filter
<1>1. EndStep => (\E v \in Vaps : DisconnectAll(v)) \/ UNCHANGED filter
  BY DEF EndStep, DisconnectWait, CleanVap, peerVars
<1> QED
  BY <1>1, Groups, StutterKeeps, ScannerKeeps, SenderKeeps, FlushKeeps, ConfirmKeeps,
     StationKeeps

\* The lists of stations change with the stations and at the end of a category.
LEMMA OrderFrame ==
  ASSUME [Next]_vars
  PROVE  \/ \E p \in Stations : AddSta(p) \/ RemoveSta(p)
         \/ FlushRound
         \/ UNCHANGED <<order, listed>>
<1>1. Flush => FlushRound \/ UNCHANGED <<order, listed>>
  BY DEF Flush, FlushBegin, FlushProhibited, FlushFiltered, FlushTake, FlushGet,
         FlushRead, FlushStop, FlushSend, FlushCount, queVars, peerVars
<1> QED
  BY <1>1, Groups, StutterKeeps, ScannerKeeps, SenderKeeps, ConfirmKeeps, KeyKeeps,
     StationKeeps, EndKeeps

-----------------------------------------------------------------------------
(***************************************************************************)
(* Threads.                                                                 *)
(***************************************************************************)

\* The station at which the tasklet looks next is one, and has a packet.
LEMMA AtFacts ==
  ASSUME QueTypeOK, FlTypeOK, FlInv, fl.pc = "peer", Waiting # {}
  PROVE  /\ At \in Nat \ {0} /\ At >= fl.pos /\ At \in 1 .. Len(order[fl.ac])
         /\ PeerAt \in Peers /\ Has(order[fl.ac], PeerAt) /\ fl.ac \in ACs
         /\ buflist[PeerAt][fl.ac] \in Seq(Packets) /\ buflist[PeerAt][fl.ac] # <<>>
         /\ HeadPkt \in Packets
<1>1. fl.ac \in ACs /\ fl.pos \in Nat \ {0}
  BY DEF FlInv
<1>2. order[fl.ac] \in Seq(Peers)
  BY <1>1 DEF QueTypeOK
<1>3. Waiting \in SUBSET Nat
  BY <1>1, <1>2 DEF Waiting
<1>4. \E i \in Waiting : \A j \in Waiting : i <= j
  BY <1>3, LeastNat
<1>5. At \in Waiting
  BY <1>4 DEF At
<1>6. /\ At \in fl.pos .. Len(order[fl.ac])
      /\ buflist[order[fl.ac][At]][fl.ac] # <<>>
  BY <1>5 DEF Waiting
<1>7. At \in Nat \ {0} /\ At \in 1 .. Len(order[fl.ac]) /\ At >= fl.pos
  BY <1>1, <1>2, <1>6
<1>8. PeerAt \in Peers /\ Has(order[fl.ac], PeerAt)
  BY <1>2, <1>7 DEF PeerAt, Has
<1>9. buflist[PeerAt][fl.ac] \in Seq(Packets) /\ buflist[PeerAt][fl.ac] # <<>>
  BY <1>1, <1>6, <1>8 DEF QueTypeOK, PeerAt
<1>10. HeadPkt \in Packets
  BY <1>9 DEF HeadPkt
<1> QED
  BY <1>1, <1>7, <1>8, <1>9, <1>10

\* What the tasklet holds.
LEMMA FlStep ==
  ASSUME QueTypeOK, HwTypeOK, FlTypeOK, FlInv, [Next]_vars
  PROVE  FlTypeOK' /\ FlInv'
<1> USE Constants
<1>1. CASE UNCHANGED fl
  BY <1>1 DEF FlTypeOK, FlInv
<1>2. CASE FlushBegin
  <2>1. fl' = [pc |-> "peer", ac |-> NACs, pos |-> 1, sent |-> FALSE, peer |-> NULL,
               pkt |-> NULL, msg |-> FALSE]
    BY <1>2 DEF FlushBegin, FlIdle
  <2>2. NACs \in 0 .. NACs /\ NACs \in ACs /\ 1 \in Nat \ {0}
    BY DEF ACs
  <2> QED
    BY <2>1, <2>2 DEF FlTypeOK, FlInv, Carrying
<1>3. CASE FlushRound
  <2>1. fl.pc = "peer" /\ fl.ac \in 1 .. NACs
    BY <1>3 DEF FlushRound, FlInv, ACs
  <2>2. \/ fl' = [fl EXCEPT !.pos = 1, !.sent = FALSE]
        \/ fl' = FlIdle
        \/ fl.ac # 1 /\ fl' = [fl EXCEPT !.ac = @ - 1, !.pos = 1]
    BY <1>3 DEF FlushRound
  <2>3. fl.ac # 1 => fl.ac - 1 \in ACs /\ fl.ac - 1 \in 0 .. NACs
    BY <2>1 DEF ACs
  <2>4. 0 \in 0 .. NACs /\ 1 \in Nat \ {0}
    OBVIOUS
  <2>5. CASE fl' = FlIdle
    BY <2>4, <2>5 DEF FlTypeOK, FlInv, FlIdle, Carrying
  <2>6. CASE fl' = [fl EXCEPT !.pos = 1, !.sent = FALSE]
    BY <2>1, <2>4, <2>6 DEF FlTypeOK, FlInv, Carrying
  <2>7. CASE fl.ac # 1 /\ fl' = [fl EXCEPT !.ac = @ - 1, !.pos = 1]
    BY <2>1, <2>3, <2>4, <2>7 DEF FlTypeOK, FlInv, Carrying
  <2> QED
    BY <2>2, <2>5, <2>6, <2>7
<1>4. CASE FlushProhibited
  BY <1>4 DEF FlushProhibited, FlIdle, FlTypeOK, FlInv, Carrying
<1>5. CASE FlushFiltered
  <2>1. fl.pc = "peer" /\ At \in Nat \ {0}
    BY <1>5, AtFacts DEF FlushFiltered, RoundEnds
  <2>2. fl' = [fl EXCEPT !.pos = At + 1, !.sent = TRUE]
    BY <1>5 DEF FlushFiltered
  <2>3. At + 1 \in Nat \ {0}
    BY <2>1
  <2> QED
    BY <2>1, <2>2, <2>3 DEF FlTypeOK, FlInv, Carrying
<1>6. CASE FlushTake
  <2>1. fl.pc = "peer" /\ At \in Nat \ {0} /\ PeerAt \in Peers /\ HeadPkt \in Packets
    BY <1>6, AtFacts DEF FlushTake, RoundEnds
  <2>2. fl' = [fl EXCEPT !.pc = "get", !.pos = At, !.peer = PeerAt, !.pkt = HeadPkt]
    BY <1>6 DEF FlushTake
  <2> QED
    BY <2>1, <2>2 DEF FlTypeOK, FlInv, Carrying
<1>7. CASE FlushGet
  <2>1. fl.pc = "get" /\ (free > 0) \in BOOLEAN
    BY <1>7 DEF FlushGet
  <2>2. fl' = [fl EXCEPT !.pc = "read", !.msg = (free > 0)]
    BY <1>7 DEF FlushGet
  <2> DEFINE m == free > 0
  <2> HIDE DEF m
  <2> QED
    BY <2>1, <2>2 DEF FlTypeOK, FlInv, Carrying
<1>8. CASE FlushRead
  BY <1>8 DEF FlushRead, FlTypeOK, FlInv, Carrying
<1>9. CASE FlushStop
  BY <1>9 DEF FlushStop, FlTypeOK, FlInv, Carrying
<1>10. CASE FlushSend \/ FlushCount
  <2>1. /\ fl.pc \in {"send", "count"} /\ fl.pos \in Nat /\ fl.pos + 1 \in Nat \ {0}
        /\ fl.ac \in ACs
    BY <1>10 DEF FlushSend, FlushCount, FlTypeOK, FlInv
  <2>2. fl' = NextPeer \/ (fl.pc = "send" /\ fl.msg /\ fl' = [fl EXCEPT !.pc = "count"])
    BY <1>10 DEF FlushSend, FlushCount
  <2> QED
    BY <2>1, <2>2 DEF FlTypeOK, FlInv, Carrying, NextPeer
<1> QED
  BY <1>1, <1>2, <1>3, <1>4, <1>5, <1>6, <1>7, <1>8, <1>9, <1>10, FlFrame DEF Flush

\* What a confirmation in progress holds.
LEMMA CfmStep ==
  ASSUME HwTypeOK, CfmTypeOK, CfmInv, [Next]_vars
  PROVE  CfmTypeOK' /\ CfmInv'
<1> USE Constants
<1>1. CASE UNCHANGED cfm
  BY <1>1 DEF CfmTypeOK, CfmInv
<1>2. ASSUME NEW d \in Descs, Confirm(d)
      PROVE  CfmTypeOK' /\ CfmInv'
  <2>1. cfm' = [pc |-> "wake", desc |-> d, res |-> free, flowing |-> (stops = {})]
    BY <1>2 DEF Confirm
  <2>2. free \in 0 .. PoolSize
    BY DEF HwTypeOK
  <2>3. cfm'.pc = "wake" /\ cfm'.desc = d
    BY <2>1
  <2> DEFINE b == stops = {}
  <2>4. b \in BOOLEAN
    OBVIOUS
  <2>5. cfm' = [pc |-> "wake", desc |-> d, res |-> free, flowing |-> b]
    BY <2>1
  <2> HIDE DEF b
  <2> QED
    BY <2>2, <2>3, <2>4, <2>5 DEF CfmTypeOK, CfmInv
<1>3. CASE ConfirmStep
  <2>1. \/ cfm.pc = "wake" /\ cfm' = [cfm EXCEPT !.pc = "used"]
        \/ cfm.pc = "used" /\ cfm' = [cfm EXCEPT !.pc = "free"]
        \/ cfm' = CfmIdle
    BY <1>3 DEF ConfirmStep, ConfirmWake, ConfirmUsed, ConfirmFree
  <2>2. 0 \in 0 .. PoolSize
    OBVIOUS
  <2>3. CASE cfm' = CfmIdle
    BY <2>2, <2>3 DEF CfmIdle, CfmTypeOK, CfmInv
  <2>4. CASE cfm' # CfmIdle
    BY <2>1, <2>4 DEF CfmTypeOK, CfmInv
  <2> QED
    BY <2>3, <2>4
<1>4. CASE FlushCount
  <2>1. cfm.pc # "idle" => [cfm.desc EXCEPT !.cur = FALSE] \in Descs
    BY DEF CfmInv, Descs
  <2>2. cfm' = IF cfm.pc = "idle" THEN cfm
               ELSE [cfm EXCEPT !.desc = [cfm.desc EXCEPT !.cur = FALSE]]
    BY <1>4 DEF FlushCount
  <2> QED
    BY <2>1, <2>2 DEF CfmTypeOK, CfmInv
<1> QED
  BY <1>1, <1>2, <1>3, <1>4, CfmFrame

\* What a sender holds.
LEMMA SndStep ==
  ASSUME PeerTypeOK, SndTypeOK, SndInv, [Next]_vars
  PROVE  SndTypeOK' /\ SndInv'
<1> USE Constants
<1> DEFINE Rec == [pc : {"idle", "queue", "clone"}, peer : Peers \cup {NULL},
                   ac : 0 .. NACs, pkt : Packets \cup {NULL}, left : SUBSET Stations]
           Good(r) == /\ r \in Rec
                      /\ r.pc # "idle" => r.ac \in ACs
                      /\ r.pc = "queue" => r.peer \in Peers /\ r.pkt \in Plain
                      /\ r.pc = "clone" => r.pkt \in Clones
<1>1. CASE UNCHANGED snd
  BY <1>1 DEF SndTypeOK, SndInv
<1>2. ASSUME NEW c \in Senders, NEW r, Good(r), snd' = [snd EXCEPT ![c] = r]
      PROVE  SndTypeOK' /\ SndInv'
  <2> HIDE DEF Rec
  <2>1. snd \in [Senders -> Rec]
    BY DEF SndTypeOK, Rec
  <2>2. snd' \in [Senders -> Rec]
    BY <1>2, <2>1
  <2>3. \A e \in Senders : snd'[e] = IF e = c THEN r ELSE snd[e]
    BY <1>2, <2>1
  <2>4. SndInv'
    BY <1>2, <2>3 DEF SndInv
  <2> QED
    BY <2>2, <2>4 DEF SndTypeOK, Rec
<1>3. Good(SndIdle)
  BY DEF SndIdle
<1>4. ASSUME NEW c \in Senders, NEW p \in listed \cup {Broadcast}, NEW v \in Vaps,
             NEW k \in {"data", "eapol"}, NEW a \in ACs, Transmit(c, p, v, k, a)
      PROVE  SndTypeOK' /\ SndInv'
  <2> DEFINE r == [SndIdle EXCEPT !.pc = "queue", !.peer = p, !.ac = a,
                                  !.pkt = [vap |-> v, kind |-> k]]
  <2>1. p \in Peers /\ [vap |-> v, kind |-> k] \in Plain /\ a \in 0 .. NACs
    BY DEF PeerTypeOK, Peers, Plain, Clones, Packets, Kinds, ACs
  <2>2. Good(r)
    BY <2>1 DEF SndIdle, Plain
  <2>3. snd' = [snd EXCEPT ![c] = r]
    BY <1>4 DEF Transmit
  <2> HIDE DEF r, Good
  <2> QED
    BY <1>2, <2>2, <2>3
<1>5. ASSUME NEW c \in Senders, EnqueuePkt(c) \/ CloneEnd(c)
      PROVE  SndTypeOK' /\ SndInv'
  <2>1. snd' = [snd EXCEPT ![c] = SndIdle]
    BY <1>5 DEF EnqueuePkt, CloneEnd
  <2> HIDE DEF Good
  <2> QED
    BY <1>2, <1>3, <2>1
<1>6. ASSUME NEW c \in Senders, NEW v \in Vaps, NEW a \in ACs, CloneBegin(c, v, a)
      PROVE  SndTypeOK' /\ SndInv'
  <2> DEFINE l == {p \in listed : VapOf[p] = v}
             k == [vap |-> v, kind |-> "clone"]
             r == [SndIdle EXCEPT !.pc = "clone", !.ac = a, !.pkt = k, !.left = l]
  <2>1. k \in Clones /\ k \in Packets /\ a \in 0 .. NACs /\ l \in SUBSET Stations
    BY DEF PeerTypeOK, Clones, Packets, Kinds, ACs
  <2>2. snd' = [snd EXCEPT ![c] = r]
    BY <1>6 DEF CloneBegin
  <2> HIDE DEF l, k
  <2>3. Good(r)
    BY <2>1 DEF SndIdle
  <2> HIDE DEF r, Good
  <2> QED
    BY <1>2, <2>2, <2>3
<1>7. ASSUME NEW c \in Senders, NEW p \in Stations, Clone(c, p)
      PROVE  SndTypeOK' /\ SndInv'
  <2> DEFINE r == [snd[c] EXCEPT !.left = @ \ {p}]
  <2>1. snd[c] \in Rec
    BY DEF SndTypeOK
  <2>2. Good(r)
    BY <2>1 DEF SndInv
  <2>3. snd' = [snd EXCEPT ![c] = r]
    BY <1>7 DEF Clone
  <2> HIDE DEF r, Good
  <2> QED
    BY <1>2, <2>2, <2>3
<1> HIDE DEF Good
<1> QED
  BY <1>1, <1>4, <1>5, <1>6, <1>7, SndFrame DEF SenderStep

\* What the request that disconnects holds.
LEMMA DiscStep ==
  ASSUME PeerTypeOK, DiscTypeOK, DiscInv, [Next]_vars
  PROVE  DiscTypeOK' /\ DiscInv'
<1> USE Constants
<1>1. CASE UNCHANGED disc
  BY <1>1 DEF DiscTypeOK, DiscInv
<1>2. ASSUME NEW p \in Stations, DisconnectSta(p)
      PROVE  DiscTypeOK' /\ DiscInv'
  BY <1>2 DEF DisconnectSta, DiscTypeOK, DiscInv
<1>3. ASSUME NEW p \in Stations, RemoveSta(p)
      PROVE  DiscTypeOK' /\ DiscInv'
  BY <1>3 DEF RemoveSta, DiscTypeOK, DiscInv
<1>4. ASSUME NEW v \in Vaps, DisconnectAll(v)
      PROVE  DiscTypeOK' /\ DiscInv'
  <2> DEFINE l == {p \in listed : VapOf[p] = v}
  <2>1. l \in SUBSET Stations
    BY DEF PeerTypeOK
  <2>2. disc' = [pc |-> "wait", vap |-> v, all |-> TRUE, left |-> l]
    BY <1>4 DEF DisconnectAll
  <2> HIDE DEF l
  <2> QED
    BY <2>1, <2>2 DEF DiscTypeOK, DiscInv
<1>5. CASE DisconnectWait \/ CleanVap
  <2>1. \/ disc.pc = "wait" /\ disc' = [disc EXCEPT !.pc = "clean"]
        \/ disc.pc = "wait" /\ disc' = [disc EXCEPT !.pc = "remove"]
        \/ disc' = DiscIdle
    BY <1>5 DEF DisconnectWait, CleanVap
  <2>2. CASE disc' = DiscIdle
    BY <2>2 DEF DiscIdle, DiscTypeOK, DiscInv
  <2>3. CASE disc' # DiscIdle
    BY <2>1, <2>3 DEF DiscTypeOK, DiscInv
  <2> QED
    BY <2>2, <2>3
<1> QED
  BY <1>1, <1>2, <1>3, <1>4, <1>5, DiscFrame DEF EndStep

-----------------------------------------------------------------------------
(***************************************************************************)
(* Queues.                                                                  *)
(***************************************************************************)

\* The lists keep the stations that are known, whatever their order.
LEMMA OrderStep ==
  ASSUME QueTypeOK, PeerTypeOK, FlTypeOK, FlInv, OrderInv, [Next]_vars
  PROVE  order' \in [ACs -> Seq(Peers)] /\ listed' \subseteq Stations /\ OrderInv'
<1> USE Constants
<1>1. \A a \in ACs : order[a] \in Seq(Peers)
  BY DEF QueTypeOK
<1>2. CASE UNCHANGED <<order, listed>>
  BY <1>2 DEF QueTypeOK, PeerTypeOK, OrderInv
<1>3. ASSUME NEW p \in Stations, AddSta(p)
      PROVE  order' \in [ACs -> Seq(Peers)] /\ listed' \subseteq Stations /\ OrderInv'
  <2>1. /\ order' = [a \in ACs |-> <<p>> \o order[a]]
        /\ listed' = listed \cup {p}
    BY <1>3 DEF AddSta
  <2>2. p \in Peers
    BY DEF Peers
  <2>3. \A a \in ACs : /\ <<p>> \o order[a] \in Seq(Peers)
                       /\ \A c : Has(<<p>> \o order[a], c) <=> Has(order[a], c) \/ c = p
    BY <1>1, <2>2, PushHas
  <2>4. OrderInv'
    BY <2>1, <2>3 DEF OrderInv
  <2> QED
    BY <2>1, <2>3, <2>4 DEF PeerTypeOK
<1>4. ASSUME NEW p \in Stations, RemoveSta(p)
      PROVE  order' \in [ACs -> Seq(Peers)] /\ listed' \subseteq Stations /\ OrderInv'
  <2>1. /\ order' = [a \in ACs |-> Kept(order[a], {p})]
        /\ listed' = listed \ {p}
    BY <1>4 DEF RemoveSta
  <2>2. \A a \in ACs : /\ Kept(order[a], {p}) \in Seq(Peers)
                       /\ \A c : Has(Kept(order[a], {p}), c)
                                   <=> Has(order[a], c) /\ c \notin {p}
    BY <1>1, KeptCount
  <2>3. OrderInv'
    BY <2>1, <2>2 DEF OrderInv
  <2> QED
    BY <2>1, <2>2, <2>3 DEF PeerTypeOK
<1>5. CASE FlushRound
  <2>1. fl.ac \in ACs
    BY <1>5 DEF FlushRound, FlInv
  <2>2. Has(order[fl.ac], Broadcast)
    BY <2>1 DEF OrderInv
  <2>3. order[fl.ac] # <<>>
    BY <2>2 DEF Has
  <2> DEFINE q == order[fl.ac]
             r == Append(Tail(q), Head(q))
  <2>4. r \in Seq(Peers) /\ \A c : Has(r, c) <=> Has(q, c)
    BY <1>1, <2>1, <2>3, RotateHas
  <2>5. /\ UNCHANGED listed
        /\ order' = order \/ order' = [order EXCEPT ![fl.ac] = r]
    BY <1>5 DEF FlushRound, peerVars
  <2> HIDE DEF r
  <2>6. order' \in [ACs -> Seq(Peers)]
    BY <2>1, <2>4, <2>5 DEF QueTypeOK
  <2>7. \A a \in ACs : \A c : Has(order[a], c) => Has(order'[a], c)
    BY <2>1, <2>4, <2>5 DEF QueTypeOK
  <2> QED
    BY <2>5, <2>6, <2>7 DEF OrderInv, PeerTypeOK
<1> QED
  BY <1>2, <1>3, <1>4, <1>5, OrderFrame

\* Releasing packets leaves numbers.
LEMMA ReleaseType ==
  ASSUME QueTypeOK, NEW B \in [ACs -> Seq(Packets)], Release(B)
  PROVE  size' \in [ACs -> Int] /\ ext' \in [refs : Int, ac : ACs] /\ ext'.ac = ext.ac
<1> DEFINE n == Count(B[ext.ac], Clones)
           last == n > 0 /\ ext.refs = n
           m(a) == Count(B[a], Plain)
<1>1. ext \in [refs : Int, ac : ACs] /\ size \in [ACs -> Int]
  BY DEF QueTypeOK
<1>2. n \in Nat /\ \A a \in ACs : m(a) \in Nat
  BY <1>1, CountType
<1>3. ext' = [ext EXCEPT !.refs = @ - n]
  BY DEF Release
<1>4. size' = [a \in ACs |-> size[a] - m(a) - (IF last /\ a = ext.ac THEN 1 ELSE 0)]
  BY DEF Release
<1> HIDE DEF n, m, last
<1>5. ext' \in [refs : Int, ac : ACs] /\ ext'.ac = ext.ac
  BY <1>1, <1>2, <1>3
<1>6. size' \in [ACs -> Int]
  BY <1>1, <1>2, <1>4
<1> QED
  BY <1>5, <1>6

\* So does one.
LEMMA ReleaseOneType ==
  ASSUME QueTypeOK, NEW a \in ACs, NEW k \in Packets, ReleaseOne(a, k)
  PROVE  size' \in [ACs -> Int] /\ ext' \in [refs : Int, ac : ACs] /\ ext'.ac = ext.ac
<1> DEFINE B == [b \in ACs |-> IF b = a THEN <<k>> ELSE <<>>]
<1>1. B \in [ACs -> Seq(Packets)]
  OBVIOUS
<1>2. Release(B)
  BY DEF ReleaseOne
<1> HIDE DEF B
<1> QED
  BY <1>1, <1>2, ReleaseType

\* Cancelling leaves queues and numbers.
LEMMA CancelType ==
  ASSUME QueTypeOK, NEW p \in Peers, NEW S \in SUBSET Packets, Cancel(p, S)
  PROVE  /\ buflist' \in [Peers -> [ACs -> Seq(Packets)]]
         /\ size' \in [ACs -> Int] /\ ext' \in [refs : Int, ac : ACs] /\ ext'.ac = ext.ac
<1> DEFINE B == [a \in ACs |-> Kept(buflist[p][a], Packets \ S)]
           C == [a \in ACs |-> Kept(buflist[p][a], S)]
<1>1. \A a \in ACs : buflist[p][a] \in Seq(Packets)
  BY DEF QueTypeOK
<1>2. B \in [ACs -> Seq(Packets)] /\ C \in [ACs -> Seq(Packets)]
  BY <1>1, KeptType
<1>3. Release(B) /\ buflist' = [buflist EXCEPT ![p] = C]
  BY DEF Cancel
<1> HIDE DEF B, C
<1>4. buflist' \in [Peers -> [ACs -> Seq(Packets)]]
  BY <1>2, <1>3 DEF QueTypeOK
<1> QED
  BY <1>2, <1>3, <1>4, ReleaseType

\* One queue changes.
LEMMA BufUpdate ==
  ASSUME NEW f \in [Peers -> [ACs -> Seq(Packets)]], NEW p \in Peers, NEW a \in ACs,
         NEW r \in Seq(Packets), NEW g, g = [f EXCEPT ![p][a] = r]
  PROVE  /\ g \in [Peers -> [ACs -> Seq(Packets)]]
         /\ \A q \in Peers, c \in ACs :
              g[q][c] = IF q = p /\ c = a THEN r ELSE f[q][c]
OBVIOUS

\* What the queues hold.
LEMMA QueStep ==
  ASSUME TypeOK, ThreadInv, KeyInv, OrderInv, [Next]_vars
  PROVE  QueTypeOK'
<1> DEFINE G == /\ buflist' \in [Peers -> [ACs -> Seq(Packets)]]
                /\ size' \in [ACs -> Int] /\ ext' \in [refs : Int, ac : ACs]
<1>0. QueTypeOK /\ FlTypeOK /\ FlInv /\ SndInv /\ PeerTypeOK
  BY DEF TypeOK, ThreadInv
<1>1. /\ buflist \in [Peers -> [ACs -> Seq(Packets)]]
      /\ size \in [ACs -> Int] /\ ext \in [refs : Int, ac : ACs]
  BY <1>0 DEF QueTypeOK
<1>2. ASSUME NEW c \in Senders, SenderStep(c)
      PROVE  G
  <2>0. snd[c] = snd[c] /\ SndTypeOK
    BY DEF TypeOK
  <2>1. ASSUME NEW p \in listed \cup {Broadcast}, NEW v \in Vaps,
               NEW k \in {"data", "eapol"}, NEW a \in ACs, Transmit(c, p, v, k, a)
        PROVE  G
    BY <1>0, <2>1 DEF Transmit, QueTypeOK
  <2>2. CASE EnqueuePkt(c)
    <3>1. /\ snd[c].pc = "queue" /\ snd[c].peer \in Peers /\ snd[c].ac \in ACs
          /\ snd[c].pkt \in Packets
      BY <1>0, <2>2 DEF EnqueuePkt, SndInv, Plain
    <3> DEFINE q == buflist[snd[c].peer][snd[c].ac]
    <3>2. /\ q \in Seq(Packets) /\ Append(q, snd[c].pkt) \in Seq(Packets)
          /\ <<snd[c].pkt>> \o q \in Seq(Packets)
      BY <1>0, <3>1, PushHas DEF QueTypeOK
    <3>3. \/ buflist' = [buflist EXCEPT ![snd[c].peer][snd[c].ac] = <<snd[c].pkt>> \o q]
          \/ buflist' = [buflist EXCEPT ![snd[c].peer][snd[c].ac] = Append(q, snd[c].pkt)]
          \/ buflist' = buflist
      BY <2>2 DEF EnqueuePkt
    <3>4. size' = size \/ size' = [size EXCEPT ![snd[c].ac] = @ - 1]
      BY <2>2 DEF EnqueuePkt
    <3>5. ext' = ext
      BY <2>2 DEF EnqueuePkt
    <3> HIDE DEF q
    <3>6. buflist' \in [Peers -> [ACs -> Seq(Packets)]]
      <4>1. CASE buflist' = [buflist EXCEPT ![snd[c].peer][snd[c].ac] = <<snd[c].pkt>> \o q]
        BY <1>1, <3>1, <3>2, <4>1, BufUpdate
      <4>2. CASE buflist' = [buflist EXCEPT ![snd[c].peer][snd[c].ac] = Append(q, snd[c].pkt)]
        BY <1>1, <3>1, <3>2, <4>2, BufUpdate
      <4> QED
        BY <1>1, <3>3, <4>1, <4>2
    <3>7. size' \in [ACs -> Int]
      BY <1>1, <3>1, <3>4
    <3> QED
      BY <1>1, <3>5, <3>6, <3>7
  <2>3. ASSUME NEW v \in Vaps, NEW a \in ACs, CloneBegin(c, v, a)
        PROVE  G
    BY <1>0, <2>3 DEF CloneBegin, QueTypeOK
  <2>4. ASSUME NEW p \in Stations, Clone(c, p)
        PROVE  G
    <3>1. /\ snd[c].ac \in ACs /\ snd[c].pkt \in Packets /\ p \in Peers
      BY <1>0, <2>4 DEF Clone, SndInv, Clones, Peers
    <3> DEFINE r == Append(buflist[p][snd[c].ac], snd[c].pkt)
    <3>2. r \in Seq(Packets)
      BY <1>0, <3>1 DEF QueTypeOK
    <3>3. /\ buflist' = buflist \/ buflist' = [buflist EXCEPT ![p][snd[c].ac] = r]
          /\ ext' = ext \/ ext' = [ext EXCEPT !.refs = @ + 1]
          /\ size' = size
      BY <2>4 DEF Clone
    <3> HIDE DEF r
    <3>4. buflist' \in [Peers -> [ACs -> Seq(Packets)]]
      <4>1. CASE buflist' = [buflist EXCEPT ![p][snd[c].ac] = r]
        BY <1>1, <3>1, <3>2, <4>1, BufUpdate
      <4> QED
        BY <1>1, <3>3, <4>1
    <3>5. ext' \in [refs : Int, ac : ACs]
      <4>1. ext' = ext \/ ext' = [ext EXCEPT !.refs = @ + 1]
        BY <3>3
      <4>2. ext \in [refs : Int, ac : ACs]
        BY <1>1
      <4> QED
        BY <4>1, <4>2
    <3> QED
      BY <1>1, <3>3, <3>4, <3>5
  <2>5. CASE CloneEnd(c)
    <3>1. snd[c].ac \in ACs /\ snd[c].pkt \in Packets
      BY <1>0, <2>5 DEF CloneEnd, SndInv, Clones
    <3>2. ReleaseOne(snd[c].ac, snd[c].pkt) /\ UNCHANGED buflist
      BY <2>5 DEF CloneEnd
    <3> QED
      BY <1>0, <1>1, <3>1, <3>2, ReleaseOneType
  <2> QED
    BY <1>2, <2>1, <2>2, <2>3, <2>4, <2>5 DEF SenderStep
<1>3. ASSUME FlushFiltered \/ FlushTake PROVE G
  <2>1. fl.pc = "peer" /\ Waiting # {}
    BY <1>3 DEF FlushFiltered, FlushTake, RoundEnds
  <2>2. /\ fl.ac \in ACs /\ PeerAt \in Peers /\ HeadPkt \in Packets
        /\ buflist[PeerAt][fl.ac] \in Seq(Packets) /\ buflist[PeerAt][fl.ac] # <<>>
    BY <1>0, <2>1, AtFacts
  <2> DEFINE r == Tail(buflist[PeerAt][fl.ac])
  <2>3. r \in Seq(Packets)
    BY <2>2
  <2>4. buflist' = [buflist EXCEPT ![PeerAt][fl.ac] = r]
    BY <1>3 DEF FlushFiltered, FlushTake, Pop
  <2> HIDE DEF r
  <2>5. buflist' \in [Peers -> [ACs -> Seq(Packets)]]
    BY <1>1, <2>2, <2>3, <2>4, BufUpdate
  <2>6. ReleaseOne(fl.ac, HeadPkt) \/ UNCHANGED <<size, ext>>
    BY <1>3 DEF FlushFiltered, FlushTake
  <2> QED
    BY <1>0, <1>1, <2>2, <2>5, <2>6, ReleaseOneType
<1>4. ASSUME FlushSend \/ FlushCount PROVE G
  <2>1. fl.ac \in ACs /\ fl.pkt \in Packets
    BY <1>0, <1>4 DEF FlushSend, FlushCount, FlInv, Carrying
  <2>2. [fl.pkt EXCEPT !.kind = "data"] \in Packets
    BY <2>1 DEF Packets, Kinds
  <2>3. /\ UNCHANGED buflist
        /\ \/ ReleaseOne(fl.ac, fl.pkt) \/ UNCHANGED <<size, ext>>
           \/ ReleaseOne(fl.ac, [fl.pkt EXCEPT !.kind = "data"])
    BY <1>4 DEF FlushSend, FlushCount
  <2> QED
    BY <1>0, <1>1, <2>1, <2>2, <2>3, ReleaseOneType
<1>5. Flush => FlushFiltered \/ FlushTake \/ FlushSend \/ FlushCount
               \/ UNCHANGED <<buflist, size, ext>>
  BY DEF Flush, FlushBegin, FlushRound, FlushProhibited, FlushGet, FlushRead, FlushStop,
         queVars
<1>6. ASSUME KeyStep PROVE G
  <2>1. CASE KeyCancel
    <3>1. key.peer \in Peers /\ Cancel(key.peer, Packets)
      BY <2>1 DEF KeyCancel, KeyInv, Peers
    <3> QED
      BY <1>0, <3>1, CancelType
  <2>2. CASE ~KeyCancel
    <3>1. UNCHANGED <<buflist, size, ext>>
      BY <1>6, <2>2 DEF KeyStep, KeyMsg4, KeyFilter, KeyWait, KeySent, queVars
    <3> QED
      BY <1>1, <3>1
  <2> QED
    BY <2>1, <2>2
<1>7. ASSUME NEW p \in Stations, RemoveSta(p) PROVE G
  <2>1. p \in Peers /\ Cancel(p, Packets)
    BY <1>7 DEF RemoveSta, Peers
  <2> QED
    BY <1>0, <2>1, CancelType
<1>8. ASSUME EndStep PROVE G
  <2>1. \/ Cancel(Broadcast, {k \in Packets : k.vap = disc.vap})
        \/ UNCHANGED <<buflist, size, ext>>
    BY <1>8 DEF EndStep, DisconnectAll, DisconnectWait, CleanVap, queVars
  <2>2. {k \in Packets : k.vap = disc.vap} \in SUBSET Packets
    OBVIOUS
  <2> QED
    BY <1>0, <1>1, <2>1, <2>2, Constants, CancelType
<1>9. G
  <2> HIDE DEF G
  <2>1. UNCHANGED <<buflist, size, ext>> => G
    BY <1>1 DEF G
  <2>2. (\E d \in Descs : Confirm(d)) \/ ConfirmStep => UNCHANGED <<buflist, size, ext>>
    BY ConfirmKeeps
  <2>3. ScannerStops \/ ScannerStarts => UNCHANGED <<buflist, size, ext>>
    BY ScannerKeeps
  <2>4. UNCHANGED vars => UNCHANGED <<buflist, size, ext>>
    BY StutterKeeps
  <2> QED
    BY <1>2, <1>3, <1>4, <1>5, <1>6, <1>7, <1>8, <2>1, <2>2, <2>3, <2>4, Groups,
       StationKeeps
<1>10. order' \in [ACs -> Seq(Peers)]
  BY <1>0, OrderStep
<1> QED
  BY <1>9, <1>10 DEF QueTypeOK

-----------------------------------------------------------------------------
(***************************************************************************)
(* Counts.                                                                  *)
(***************************************************************************)

\* The state's counts in the terms of the lemmas above.
LEMMA BusyIs ==
  /\ Busy = BusyOf(hw) /\ \A p : InHw(p) = Cardinality(Mine(hw, p))
BY DEF Busy, BusyOf, InHw, Mine

\* The same after a step.
LEMMA BusyIsNext ==
  /\ Busy' = BusyOf(hw') /\ \A p : InHw(p)' = Cardinality(Mine(hw', p))
BY DEF Busy, BusyOf, InHw, Mine

\* The descriptor of the packet in hand.
LEMMA CurDescs ==
  ASSUME FlTypeOK, FlInv, fl.pc \in Carrying
  PROVE  /\ CurDesc \in Descs /\ CurDesc.cur = TRUE /\ CurDesc.peer = fl.peer
         /\ [CurDesc EXCEPT !.cur = FALSE] \in Descs
         /\ [CurDesc EXCEPT !.cur = FALSE].peer = fl.peer
         /\ [CurDesc EXCEPT !.cur = FALSE].cur = FALSE
<1>1. fl.peer \in Peers /\ fl.pkt.vap \in Vaps
  BY DEF FlInv, Packets
<1> QED
  BY <1>1 DEF CurDesc, Descs

\* Between the steps at which it takes a descriptor, hands it over and counts,
\* the tasklet has what it had.
LEMMA FlHands ==
  ASSUME FlTypeOK, FlInv, Flush
  PROVE  \/ FlushGet \/ FlushSend \/ FlushCount
         \/ /\ fl.pc # "count" /\ fl'.pc # "count"
            /\ fl'.msg = fl.msg
            /\ UNCHANGED <<hw, free, used, cfm>>
<1>1. CASE FlushBegin
  BY <1>1 DEF FlushBegin, FlInv, FlTypeOK, FlIdle, LockFree, peerVars, hwVars
<1>2. CASE FlushRound
  <2>1. fl.pc = "peer" /\ fl.msg = FALSE
    BY <1>2 DEF FlushRound, FlInv, FlTypeOK
  <2>2. \/ fl' = [fl EXCEPT !.pos = 1, !.sent = FALSE]
        \/ fl' = FlIdle
        \/ fl' = [fl EXCEPT !.ac = @ - 1, !.pos = 1]
    BY <1>2 DEF FlushRound
  <2>3. fl'.pc # "count" /\ fl'.msg = fl.msg
    <3>1. CASE fl' = FlIdle
      BY <2>1, <3>1 DEF FlIdle
    <3>2. CASE fl' # FlIdle
      BY <2>1, <2>2, <3>2 DEF FlTypeOK
    <3> QED
      BY <3>1, <3>2
  <2>4. UNCHANGED <<hw, free, used, cfm>>
    BY <1>2 DEF FlushRound, peerVars, hwVars
  <2> QED
    BY <2>1, <2>3, <2>4
<1>3. CASE FlushProhibited
  BY <1>3 DEF FlushProhibited, FlInv, FlTypeOK, FlIdle, peerVars, hwVars
<1>4. CASE FlushFiltered
  BY <1>4 DEF FlushFiltered, FlInv, FlTypeOK, peerVars, hwVars
<1>5. CASE FlushTake
  BY <1>5 DEF FlushTake, FlInv, FlTypeOK, peerVars, hwVars
<1>6. CASE FlushRead
  BY <1>6 DEF FlushRead, FlInv, FlTypeOK, peerVars, hwVars
<1>7. CASE FlushStop
  BY <1>7 DEF FlushStop, FlInv, FlTypeOK, peerVars, hwVars
<1> QED
  BY <1>1, <1>2, <1>3, <1>4, <1>5, <1>6, <1>7 DEF Flush

\* The steps that move descriptors and counts, and the others.
LEMMA CountGroups ==
  ASSUME FlTypeOK, FlInv, [Next]_vars
  PROVE  \/ \E d \in Descs : Confirm(d)
         \/ ConfirmWake \/ ConfirmUsed \/ ConfirmFree
         \/ FlushGet \/ FlushSend \/ FlushCount
         \/ \E p \in Stations : SendNullPacket(p) \/ AddSta(p)
         \/ /\ UNCHANGED <<hw, free, used, cfm>>
            /\ \/ UNCHANGED fl
               \/ fl.pc # "count" /\ fl'.pc # "count" /\ fl'.msg = fl.msg
<1>1. Flush => \/ FlushGet \/ FlushSend \/ FlushCount
               \/ /\ UNCHANGED <<hw, free, used, cfm>>
                  /\ fl.pc # "count" /\ fl'.pc # "count" /\ fl'.msg = fl.msg
  BY FlHands
<1>2. ConfirmStep => ConfirmWake \/ ConfirmUsed \/ ConfirmFree
  BY DEF ConfirmStep
<1> QED
  BY <1>1, <1>2, Groups, StutterKeeps, ScannerKeeps, SenderKeeps, KeyKeeps, StationKeeps,
     EndKeeps

\* The packet handed over and not counted yet is in one place.
LEMMA CurStep ==
  ASSUME TypeOK, ThreadInv, [Next]_vars
  PROVE  CurInv'
<1>0. FlTypeOK /\ FlInv /\ CfmTypeOK /\ CfmInv /\ CurInv /\ hw \in [Descs -> 0 .. PoolSize]
      /\ PoolSize \in Nat
  BY Constants DEF TypeOK, ThreadInv, HwTypeOK
<1>1. ASSUME NEW d \in Descs, Confirm(d)
      PROVE  CurInv'
  <2>1. /\ UNCHANGED fl /\ hw[d] > 0 /\ cfm.pc = "idle"
        /\ hw' = [hw EXCEPT ![d] = @ - 1]
        /\ cfm'.pc = "wake" /\ cfm'.desc = d
    BY <1>1 DEF Confirm
  <2>2. d.cur \in BOOLEAN
    BY DEF Descs
  <2>3. \A e \in Descs : hw'[e] = IF e = d THEN hw[d] - 1 ELSE hw[e]
    BY <1>0, <2>1
  <2>4. CurDesc' = CurDesc
    BY <2>1 DEF CurDesc
  <2>5. CASE fl.pc # "count"
    <3>1. ~d.cur
      BY <1>0, <2>1, <2>5 DEF CurInv
    <3> QED
      BY <1>0, <2>1, <2>3, <2>5, <3>1 DEF CurInv
  <2>6. CASE fl.pc = "count"
    <3>0. CurDesc \in Descs /\ CurDesc.cur = TRUE
      BY <1>0, <2>6, CurDescs DEF Carrying
    <3>1. d.cur => d = CurDesc
      BY <1>0, <2>1, <2>6 DEF CurInv
    <3>2. hw[CurDesc] \in 0 .. PoolSize /\ hw[CurDesc] <= 1
      BY <1>0, <2>1, <2>6, <3>0 DEF CurInv, One
    <3>3. \A e \in Descs : e.cur /\ e # CurDesc => hw'[e] = 0
      BY <1>0, <2>3, <2>6, <3>1 DEF CurInv
    <3>4. CASE d.cur
      <4>1. hw'[CurDesc] = 0
        BY <2>1, <2>3, <3>0, <3>1, <3>2, <3>4
      <4> QED
        BY <2>1, <2>4, <2>6, <3>1, <3>3, <4>1 DEF CurInv, One
    <3>5. CASE ~d.cur
      <4>1. hw'[CurDesc] = hw[CurDesc]
        BY <2>3, <3>0, <3>5
      <4> QED
        BY <2>1, <2>4, <2>6, <3>2, <3>3, <3>5, <4>1 DEF CurInv, One
    <3> QED
      BY <3>4, <3>5
  <2> QED
    BY <2>5, <2>6
<1>2. CASE ConfirmWake \/ ConfirmUsed
  <2>1. UNCHANGED <<hw, fl>> /\ cfm'.desc = cfm.desc /\ cfm'.pc # "idle" /\ cfm.pc # "idle"
    BY <1>0, <1>2 DEF ConfirmWake, ConfirmUsed, CfmTypeOK, hwVars
  <2>2. CurDesc' = CurDesc
    BY <2>1 DEF CurDesc
  <2> QED
    BY <1>0, <2>1, <2>2 DEF CurInv
<1>3. CASE ConfirmFree
  <2>1. UNCHANGED <<hw, fl>> /\ cfm'.pc = "idle"
    BY <1>3 DEF ConfirmFree, CfmIdle
  <2>2. CurDesc' = CurDesc
    BY <2>1 DEF CurDesc
  <2>3. fl.pc = "count" => hw[CurDesc] \in 0 .. PoolSize
    BY <1>0, CurDescs DEF Carrying
  <2> QED
    BY <1>0, <2>1, <2>2, <2>3 DEF CurInv, One
<1>4. CASE FlushGet
  <2>1. UNCHANGED <<hw, cfm>> /\ fl.pc # "count" /\ fl'.pc # "count"
    BY <1>0, <1>4 DEF FlushGet, FlTypeOK
  <2> QED
    BY <1>0, <2>1 DEF CurInv
<1>5. CASE FlushSend
  <2>1. fl.pc = "send" /\ UNCHANGED cfm
    BY <1>5 DEF FlushSend
  <2>2. CASE fl.msg
    <3>1. /\ hw' = [hw EXCEPT ![CurDesc] = @ + 1] /\ fl'.pc = "count"
          /\ fl'.peer = fl.peer /\ fl'.pkt = fl.pkt
      BY <1>0, <1>5, <2>2 DEF FlushSend, FlTypeOK
    <3>2. CurDesc' = CurDesc
      BY <3>1 DEF CurDesc
    <3>3. CurDesc \in Descs /\ CurDesc.cur = TRUE
      BY <1>0, <2>1, CurDescs DEF Carrying
    <3>4. hw[CurDesc] = 0
      BY <1>0, <2>1, <3>3 DEF CurInv
    <3>5. \A e \in Descs : hw'[e] = IF e = CurDesc THEN 1 ELSE hw[e]
      BY <1>0, <3>1, <3>3, <3>4
    <3> QED
      BY <1>0, <2>1, <3>1, <3>2, <3>3, <3>5 DEF CurInv, One
  <2>3. CASE ~fl.msg
    <3>1. UNCHANGED hw /\ fl'.pc = "peer"
      BY <1>0, <1>5, <2>3 DEF FlushSend, FlTypeOK, NextPeer
    <3> QED
      BY <1>0, <2>1, <3>1 DEF CurInv
  <2> QED
    BY <2>2, <2>3
<1>6. CASE FlushCount
  <2> DEFINE n == [CurDesc EXCEPT !.cur = FALSE]
  <2>1. /\ fl.pc = "count" /\ fl'.pc = "peer"
        /\ hw' = [hw EXCEPT ![CurDesc] = 0, ![n] = @ + hw[CurDesc]]
    BY <1>0, <1>6 DEF FlushCount, FlTypeOK, NextPeer
  <2>2. CurDesc \in Descs /\ n \in Descs /\ n.cur = FALSE
    BY <1>0, <2>1, CurDescs DEF Carrying
  <2>3. cfm'.pc # "idle" => cfm'.desc.cur = FALSE
    <3>1. cfm.pc # "idle" => cfm.desc \in Descs
      BY <1>0 DEF CfmInv
    <3>2. cfm' = IF cfm.pc = "idle" THEN cfm ELSE [cfm EXCEPT !.desc.cur = FALSE]
      BY <1>6 DEF FlushCount
    <3> QED
      BY <1>0, <3>1, <3>2 DEF CfmTypeOK, Descs
  <2> HIDE DEF n
  <2>4. \A e \in Descs : e.cur => hw'[e] = 0
    <3> SUFFICES ASSUME NEW e \in Descs, e.cur PROVE hw'[e] = 0
      OBVIOUS
    <3>1. e # n
      BY <2>2
    <3>2. hw'[e] = IF e = CurDesc THEN 0 ELSE hw[e]
      BY <1>0, <2>1, <2>2, <3>1
    <3> QED
      BY <1>0, <2>1, <3>2 DEF CurInv
  <2> QED
    BY <2>1, <2>3, <2>4 DEF CurInv
<1>7. ASSUME NEW p \in Stations, SendNullPacket(p)
      PROVE  CurInv'
  <2> DEFINE n == [peer |-> NULL, vap |-> VapOf[p], cur |-> FALSE]
  <2>1. UNCHANGED <<fl, cfm>> /\ hw' = [hw EXCEPT ![n] = @ + 1]
    BY <1>7 DEF SendNullPacket, procVars
  <2>2. n.cur = FALSE
    OBVIOUS
  <2> HIDE DEF n
  <2>3. \A e \in Descs : e.cur => hw'[e] = hw[e]
    BY <1>0, <2>1, <2>2
  <2>4. CurDesc' = CurDesc
    BY <2>1 DEF CurDesc
  <2>5. fl.pc = "count" => CurDesc \in Descs /\ CurDesc.cur
    BY <1>0, CurDescs DEF Carrying
  <2> QED
    BY <1>0, <2>1, <2>3, <2>4, <2>5 DEF CurInv
<1>8. ASSUME NEW p \in Stations, AddSta(p)
      PROVE  CurInv'
  <2>1. UNCHANGED <<hw, fl, cfm>>
    BY <1>8 DEF AddSta, hwVars, procVars
  <2>2. CurDesc' = CurDesc
    BY <2>1 DEF CurDesc
  <2> QED
    BY <1>0, <2>1, <2>2 DEF CurInv
<1>9. CASE UNCHANGED <<hw, free, used, cfm>> /\ UNCHANGED fl
  <2>1. CurDesc' = CurDesc
    BY <1>9 DEF CurDesc
  <2> QED
    BY <1>0, <1>9, <2>1 DEF CurInv
<1>10. CASE UNCHANGED <<hw, free, used, cfm>> /\ fl.pc # "count" /\ fl'.pc # "count"
  BY <1>0, <1>10 DEF CurInv
<1> QED
  BY <1>0, <1>1, <1>2, <1>3, <1>4, <1>5, <1>6, <1>7, <1>8, <1>9, <1>10, CountGroups

\* One(b) is a number whatever b is.
LEMMA OneIs ==
  ASSUME NEW b \in BOOLEAN
  PROVE  One(b) \in {0, 1} /\ One(b) \in Nat
BY DEF One

\* The pool, with the tasklet's descriptor and the one that is given back.
Held == One(fl.msg /\ fl.pc # "count")
Given == One(cfm.pc # "idle")

\* Each is one descriptor at most.
LEMMA HeldIs == Held \in Nat /\ Given \in Nat /\ Held <= 1 /\ Given <= 1
BY DEF Held, Given, One

\* Counting the packet that was handed over moves it and nothing else.
LEMMA CountMoves ==
  ASSUME FlTypeOK, FlInv, CurInv, hw \in [Descs -> 0 .. PoolSize], FlushCount,
         Cardinality(BusyOf(hw)) <= PoolSize
  PROVE  /\ hw' \in [Descs -> 0 .. PoolSize]
         /\ Cardinality(BusyOf(hw')) = Cardinality(BusyOf(hw))
         /\ \A p : Cardinality(Mine(hw', p)) = Cardinality(Mine(hw, p))
<1> DEFINE c == CurDesc
           n == [CurDesc EXCEPT !.cur = FALSE]
<1>1. /\ fl.pc = "count"
      /\ hw' = [hw EXCEPT ![c] = 0, ![n] = @ + hw[c]]
  BY DEF FlushCount
<1>2. c \in Descs /\ n \in Descs /\ c # n /\ c.peer = n.peer
  BY <1>1, CurDescs DEF Carrying
<1>3. PoolSize \in Nat /\ hw[c] \in 0 .. PoolSize /\ hw[n] \in 0 .. PoolSize
  BY <1>2, Constants
<1>4. hw[c] <= 1
  BY <1>1, <1>3 DEF CurInv, One
<1> HIDE DEF c, n
<1>5. CASE hw[c] = 0
  <2>1. \A e \in Descs : hw'[e] = hw[e]
    BY <1>1, <1>2, <1>3, <1>5
  <2>2. hw = [e \in Descs |-> hw[e]] /\ hw' = [e \in Descs |-> hw'[e]]
    BY <1>1
  <2>3. hw' = hw
    BY <2>1, <2>2
  <2> QED
    BY <2>3
<1>6. CASE hw[c] = 1
  <2> DEFINE g == [hw EXCEPT ![c] = @ - 1]
             k == [g EXCEPT ![n] = @ + 1]
  <2>0. hw[c] > 0
    BY <1>6
  <2>1. /\ g \in [Descs -> 0 .. PoolSize]
        /\ Cardinality(BusyOf(g)) = Cardinality(BusyOf(hw)) - 1
        /\ \A p : OneMore(hw, g, c, p)
    <3>1. g = [hw EXCEPT ![c] = @ - 1]
      OBVIOUS
    <3> HIDE DEF g
    <3>2. /\ g \in [Descs -> 0 .. PoolSize]
          /\ Cardinality(BusyOf(g)) = Cardinality(BusyOf(hw)) - 1
      BY <1>2, <2>0, <3>1, BusyRemove
    <3>3. ASSUME NEW p
          PROVE  OneMore(hw, g, c, p)
      BY <1>2, <2>0, <3>1, MineRemove
    <3> QED
      BY <3>2, <3>3
  <2>2. g[n] < PoolSize
    <3>1. g[n] <= Cardinality(BusyOf(g)) /\ g[n] \in 0 .. PoolSize
      BY <1>2, <2>1, HwBound
    <3>2. Cardinality(BusyOf(g)) \in Nat /\ Cardinality(BusyOf(hw)) \in Nat
      BY BusyFinite
    <3> QED
      BY <1>3, <2>1, <3>1, <3>2
  <2>3. /\ k \in [Descs -> 0 .. PoolSize]
        /\ Cardinality(BusyOf(k)) = Cardinality(BusyOf(g)) + 1
        /\ \A p : OneMore(k, g, n, p)
    <3>1. k = [g EXCEPT ![n] = @ + 1]
      OBVIOUS
    <3> HIDE DEF g, k
    <3>2. /\ k \in [Descs -> 0 .. PoolSize]
          /\ Cardinality(BusyOf(k)) = Cardinality(BusyOf(g)) + 1
      BY <1>2, <2>1, <2>2, <3>1, BusyAdd
    <3>3. ASSUME NEW p
          PROVE  OneMore(k, g, n, p)
      BY <1>2, <2>1, <2>2, <3>1, MineAdd
    <3> QED
      BY <3>2, <3>3
  <2>4. hw' = k
    <3>1. \A e \in Descs : hw'[e] = k[e]
      BY <1>1, <1>2, <1>3, <1>6
    <3>2. k = [e \in Descs |-> k[e]] /\ hw' = [e \in Descs |-> hw'[e]]
      BY <1>1
    <3> HIDE DEF k
    <3> QED
      BY <3>1, <3>2
  <2> HIDE DEF g, k
  <2>5. Cardinality(BusyOf(hw')) = Cardinality(BusyOf(hw))
    <3>1. Cardinality(BusyOf(g)) \in Nat /\ Cardinality(BusyOf(hw)) \in Nat
      BY BusyFinite
    <3> QED
      BY <2>1, <2>3, <2>4, <3>1
  <2>6. ASSUME NEW p PROVE Cardinality(Mine(hw', p)) = Cardinality(Mine(hw, p))
    <3>1. Of(c, p) = Of(n, p)
      BY <1>2 DEF Of
    <3>2. OneMore(hw, g, c, p) /\ OneMore(k, g, n, p)
      BY <2>1, <2>3
    <3>3. Cardinality(Mine(hw, p)) = Cardinality(Mine(k, p))
      BY <3>1, <3>2 DEF OneMore
    <3> QED
      BY <2>4, <3>3
  <2> QED
    BY <2>3, <2>4, <2>5, <2>6
<1> QED
  BY <1>3, <1>4, <1>5, <1>6

\* No step loses a descriptor or frees one twice, and the counts stay within
\* the pool.
LEMMA PoolStep ==
  ASSUME TypeOK, ThreadInv, PoolMatches, [Next]_vars
  PROVE  /\ free' \in 0 .. PoolSize /\ hw' \in [Descs -> 0 .. PoolSize]
         /\ PoolMatches'
<1> DEFINE n == Cardinality(BusyOf(hw))
           G == /\ free' \in 0 .. PoolSize /\ hw' \in [Descs -> 0 .. PoolSize]
                /\ free' + Cardinality(BusyOf(hw')) + Held' + Given' = PoolSize
<1>0. /\ FlTypeOK /\ FlInv /\ CfmTypeOK /\ CurInv /\ hw \in [Descs -> 0 .. PoolSize]
      /\ free \in 0 .. PoolSize /\ PoolSize \in Nat /\ n \in Nat
  BY Constants, BusyFinite DEF TypeOK, ThreadInv, HwTypeOK
<1>1. free + n + Held + Given = PoolSize
  BY BusyIs DEF PoolMatches, Held, Given
<1>2. \A d \in Descs : hw[d] \in 0 .. PoolSize /\ hw[d] <= n
  BY <1>0, HwBound
<1>3. Held \in Nat /\ Given \in Nat
  BY HeldIs
<1> HIDE DEF n
<1>4. ASSUME NEW d \in Descs, Confirm(d)
      PROVE  G
  <2>1. /\ UNCHANGED <<free, fl>> /\ hw[d] > 0 /\ cfm.pc = "idle"
        /\ hw' = [hw EXCEPT ![d] = @ - 1] /\ cfm'.pc = "wake"
    BY <1>4 DEF Confirm
  <2>2. hw' \in [Descs -> 0 .. PoolSize] /\ Cardinality(BusyOf(hw')) = n - 1
    <3>1. hw' = [hw EXCEPT ![d] = @ - 1] /\ hw[d] > 0
      BY <2>1
    <3>2. Cardinality(BusyOf(hw')) = Cardinality(BusyOf(hw)) - 1
      BY <1>0, <3>1, BusyRemove
    <3>3. hw' \in [Descs -> 0 .. PoolSize]
      BY <1>0, <3>1, BusyRemove
    <3> QED
      BY <3>2, <3>3 DEF n
  <2>3. Held' = Held /\ Given' = 1 /\ Given = 0
    BY <2>1 DEF Held, Given, One
  <2> QED
    BY <1>0, <1>1, <1>3, <2>1, <2>2, <2>3
<1>5. CASE ConfirmWake \/ ConfirmUsed
  <2>1. UNCHANGED <<free, hw, fl>> /\ cfm'.pc # "idle" /\ cfm.pc # "idle"
    BY <1>0, <1>5 DEF ConfirmWake, ConfirmUsed, CfmTypeOK, hwVars
  <2>2. Held' = Held /\ Given' = Given /\ Cardinality(BusyOf(hw')) = n
    BY <2>1 DEF Held, Given, One, n
  <2>3. G
    BY <1>0, <1>1, <2>1, <2>2
  <2> QED
    BY <2>3, BusyIsNext DEF PoolMatches, Held, Given
<1>6. CASE ConfirmFree
  <2>1. UNCHANGED <<hw, fl>> /\ cfm.pc = "free" /\ cfm'.pc = "idle" /\ free' = free + 1
    BY <1>6 DEF ConfirmFree, CfmIdle
  <2>2. Held' = Held /\ Given' = 0 /\ Given = 1 /\ Cardinality(BusyOf(hw')) = n
    BY <2>1 DEF Held, Given, One, n
  <2>3. G
    BY <1>0, <1>1, <1>3, <2>1, <2>2
  <2> QED
    BY <2>3, BusyIsNext DEF PoolMatches, Held, Given
<1>7. CASE FlushGet
  <2>1. /\ UNCHANGED <<hw, cfm>> /\ fl.pc = "get" /\ fl'.pc = "read"
        /\ free' = IF free > 0 THEN free - 1 ELSE free
        /\ fl'.msg <=> free > 0
    BY <1>0, <1>7 DEF FlushGet, FlTypeOK
  <2>2. Held' = (IF free > 0 THEN 1 ELSE 0) /\ Held = 0 /\ Given' = Given
    BY <1>0, <2>1 DEF Held, Given, One, FlInv
  <2>3. Cardinality(BusyOf(hw')) = n
    BY <2>1 DEF n
  <2>4. G
    BY <1>0, <1>1, <1>3, <2>1, <2>2, <2>3
  <2> QED
    BY <2>4, BusyIsNext DEF PoolMatches, Held, Given
<1>8. CASE FlushSend
  <2>1. fl.pc = "send" /\ UNCHANGED <<cfm, free>>
    BY <1>8 DEF FlushSend
  <2>2. Given' = Given
    BY <2>1 DEF Given
  <2>3. CASE fl.msg
    <3>1. hw' = [hw EXCEPT ![CurDesc] = @ + 1] /\ fl'.pc = "count"
      BY <1>0, <1>8, <2>3 DEF FlushSend, FlTypeOK
    <3>2. Held = 1 /\ Held' = 0
      BY <2>1, <2>3, <3>1 DEF Held, One
    <3>3. CurDesc \in Descs
      BY <1>0, <2>1, CurDescs DEF Carrying
    <3>4. hw[CurDesc] < PoolSize
      BY <1>0, <1>1, <1>2, <1>3, <3>2, <3>3
    <3>5. hw' \in [Descs -> 0 .. PoolSize] /\ Cardinality(BusyOf(hw')) = n + 1
      BY <1>0, <3>1, <3>3, <3>4, BusyAdd DEF n
    <3>6. G
      BY <1>0, <1>1, <1>3, <2>1, <2>2, <3>2, <3>5
    <3> QED
      BY <3>6, BusyIsNext DEF PoolMatches, Held, Given
  <2>4. CASE ~fl.msg
    <3>1. UNCHANGED hw /\ fl'.pc = "peer" /\ fl'.msg = FALSE
      BY <1>0, <1>8, <2>4 DEF FlushSend, FlTypeOK, NextPeer
    <3>2. Held = 0 /\ Held' = 0 /\ Cardinality(BusyOf(hw')) = n
      BY <2>4, <3>1 DEF Held, One, n
    <3>3. G
      BY <1>0, <1>1, <2>1, <2>2, <3>1, <3>2
    <3> QED
      BY <3>3, BusyIsNext DEF PoolMatches, Held, Given
  <2> QED
    BY <2>3, <2>4
<1>9. CASE FlushCount
  <2>1. /\ fl.pc = "count" /\ fl'.msg = FALSE /\ UNCHANGED free
        /\ cfm'.pc = cfm.pc
    BY <1>0, <1>9 DEF FlushCount, FlTypeOK, CfmTypeOK, NextPeer
  <2>2. Held = 0 /\ Held' = 0 /\ Given' = Given
    BY <2>1 DEF Held, Given, One
  <2>3. /\ hw' \in [Descs -> 0 .. PoolSize] /\ Cardinality(BusyOf(hw')) = n
    BY <1>0, <1>1, <1>3, <1>9, CountMoves DEF n
  <2>4. G
    BY <1>0, <1>1, <2>1, <2>2, <2>3
  <2> QED
    BY <2>4, BusyIsNext DEF PoolMatches, Held, Given
<1>10. ASSUME NEW p \in Stations, SendNullPacket(p)
       PROVE  G
  <2> DEFINE d == [peer |-> NULL, vap |-> VapOf[p], cur |-> FALSE]
  <2>1. /\ UNCHANGED <<fl, cfm>> /\ free > 0 /\ free' = free - 1
        /\ hw' = [hw EXCEPT ![d] = @ + 1]
    BY <1>10 DEF SendNullPacket, procVars
  <2>2. d \in Descs
    BY Constants DEF Descs
  <2> HIDE DEF d
  <2>3. hw[d] < PoolSize
    BY <1>0, <1>1, <1>2, <1>3, <2>1, <2>2
  <2>4. hw' \in [Descs -> 0 .. PoolSize] /\ Cardinality(BusyOf(hw')) = n + 1
    BY <1>0, <2>1, <2>2, <2>3, BusyAdd DEF n
  <2>5. Held' = Held /\ Given' = Given
    BY <2>1 DEF Held, Given
  <2> QED
    BY <1>0, <1>1, <1>3, <2>1, <2>4, <2>5
<1>11. ASSUME UNCHANGED <<hw, free, cfm>>, Held' = Held
       PROVE  G
  <2>1. Given' = Given /\ Cardinality(BusyOf(hw')) = n
    BY <1>11 DEF Given, n
  <2> QED
    BY <1>0, <1>1, <1>11, <2>1
<1>12. ASSUME NEW p \in Stations, AddSta(p)
       PROVE  UNCHANGED <<hw, free, cfm>> /\ Held' = Held
  <2>1. UNCHANGED <<hw, free, fl, cfm>>
    BY <1>12 DEF AddSta, hwVars, procVars
  <2> QED
    BY <2>1 DEF Held
<1>13. ASSUME UNCHANGED <<hw, free, used, cfm>>,
              UNCHANGED fl \/ (fl.pc # "count" /\ fl'.pc # "count" /\ fl'.msg = fl.msg)
       PROVE  UNCHANGED <<hw, free, cfm>> /\ Held' = Held
  BY <1>13 DEF Held
<1>14. G => PoolMatches'
  BY BusyIsNext DEF PoolMatches, Held, Given
<1> QED
  BY <1>0, <1>4, <1>5, <1>6, <1>7, <1>8, <1>9, <1>10, <1>11, <1>12, <1>13, <1>14,
     CountGroups

\* No more descriptors are busy than there are.
LEMMA PoolBound ==
  ASSUME TypeOK, PoolMatches
  PROVE  Cardinality(BusyOf(hw)) <= PoolSize
<1>1. free + Cardinality(BusyOf(hw)) + Held + Given = PoolSize
  BY BusyIs DEF PoolMatches, Held, Given
<1>2. free \in Nat /\ PoolSize \in Nat /\ Cardinality(BusyOf(hw)) \in Nat
  BY Constants, BusyFinite DEF TypeOK, HwTypeOK
<1> QED
  BY <1>1, <1>2, HeldIs

\* The packet of p that was handed over and is not counted yet, and the one
\* whose confirmation is under way.
Sent(p) == One(fl.pc = "count" /\ fl.peer = p)
Back(p) == One(cfm.pc \in {"wake", "used"} /\ cfm.desc.peer = p)

\* The count of every station is what its packets in the firmware are.
LEMMA UsedStep ==
  ASSUME TypeOK, ThreadInv, UsedMatches, PoolMatches, [Next]_vars
  PROVE  used' \in [Peers -> Int] /\ UsedMatches'
<1> DEFINE G(q) == used'[q] + Sent(q)' = Cardinality(Mine(hw', q)) + Back(q)'
<1>0. /\ FlTypeOK /\ FlInv /\ CfmTypeOK /\ CfmInv /\ CurInv
      /\ hw \in [Descs -> 0 .. PoolSize] /\ used \in [Peers -> Int]
      /\ hw' \in [Descs -> 0 .. PoolSize]
  BY PoolStep DEF TypeOK, ThreadInv, HwTypeOK, PeerTypeOK
<1>1. used' \in [Peers -> Int]
  <2>1. CASE ConfirmUsed
    BY <1>0, <2>1 DEF ConfirmUsed
  <2>2. CASE FlushCount
    <3>1. used' = [used EXCEPT ![fl.peer] = @ + 1]
      BY <2>2 DEF FlushCount
    <3>2. fl.peer \in Peers
      BY <1>0, <2>2 DEF FlushCount, FlInv, Carrying
    <3>3. used \in [Peers -> Int]
      BY <1>0
    <3> QED
      BY <3>1, <3>2, <3>3
  <2>3. ASSUME NEW p \in Stations, AddSta(p)
        PROVE  used' \in [Peers -> Int]
    <3>1. used' = [used EXCEPT ![p] = 0]
      BY <2>3 DEF AddSta
    <3>2. used \in [Peers -> Int] /\ p \in Peers /\ 0 \in Int
      BY <1>0 DEF Peers
    <3> QED
      BY <3>1, <3>2
  <2> QED
    BY <1>0, <2>1, <2>2, <2>3, UsedFrame
<1>2. SUFFICES ASSUME NEW p \in Peers PROVE G(p)
  <2>1. \A p \in Peers : used'[p] + Sent(p)' = InHw(p)' + Back(p)'
    BY <1>2, BusyIsNext
  <2> QED
    BY <1>1, <2>1 DEF UsedMatches, Sent, Back
<1>3. used[p] + Sent(p) = Cardinality(Mine(hw, p)) + Back(p)
  <2>1. used[p] + Sent(p) = InHw(p) + Back(p)
    BY DEF UsedMatches, Sent, Back
  <2> QED
    BY <2>1, BusyIs
<1>4. /\ used[p] \in Int /\ Cardinality(Mine(hw, p)) \in Nat
      /\ Sent(p) \in {0, 1} /\ Back(p) \in {0, 1} /\ p # NULL
  BY <1>0, BusyFinite, Constants DEF Sent, Back, One
<1>5. ASSUME NEW d \in Descs, Confirm(d)
      PROVE  G(p)
  <2>1. /\ UNCHANGED <<used, fl>> /\ hw[d] > 0 /\ cfm.pc = "idle"
        /\ hw' = [hw EXCEPT ![d] = @ - 1] /\ cfm'.pc = "wake" /\ cfm'.desc = d
    BY <1>5 DEF Confirm, peerVars
  <2>2. OneMore(hw, hw', d, p)
    BY <1>0, <2>1, MineRemove
  <2>3. Back(p) = 0 /\ Back(p)' = Of(d, p) /\ Sent(p)' = Sent(p) /\ used'[p] = used[p]
    BY <2>1 DEF Back, Sent, Of, One
  <2>4. Of(d, p) \in {0, 1} /\ Cardinality(Mine(hw', p)) \in Nat
    BY BusyFinite DEF Of, One
  <2> QED
    BY <1>3, <1>4, <2>2, <2>3, <2>4 DEF OneMore
<1>6. CASE ConfirmWake
  <2>1. /\ UNCHANGED <<used, hw, fl>> /\ cfm.pc = "wake" /\ cfm'.pc = "used"
        /\ cfm'.desc = cfm.desc
    BY <1>0, <1>6 DEF ConfirmWake, CfmTypeOK, peerVars, hwVars
  <2>2. Back(p)' = Back(p) /\ Sent(p)' = Sent(p)
    BY <2>1 DEF Back, Sent
  <2> QED
    BY <1>3, <2>1, <2>2
<1>7. CASE ConfirmUsed
  <2>1. /\ UNCHANGED <<hw, fl>> /\ cfm.pc = "used" /\ cfm'.pc = "free"
        /\ used'[p] = IF p = cfm.desc.peer THEN used[p] - 1 ELSE used[p]
    BY <1>0, <1>7 DEF ConfirmUsed, CfmTypeOK, hwVars
  <2>2. /\ Back(p)' = 0 /\ Sent(p)' = Sent(p)
        /\ Back(p) = IF p = cfm.desc.peer THEN 1 ELSE 0
    BY <2>1 DEF Back, Sent, One
  <2> QED
    BY <1>3, <1>4, <2>1, <2>2
<1>8. CASE ConfirmFree
  <2>1. UNCHANGED <<used, hw, fl>> /\ cfm.pc = "free" /\ cfm'.pc = "idle"
    BY <1>8 DEF ConfirmFree, CfmIdle, peerVars
  <2>2. Back(p)' = Back(p) /\ Sent(p)' = Sent(p)
    BY <2>1 DEF Back, Sent, One
  <2> QED
    BY <1>3, <2>1, <2>2
<1>9. CASE FlushGet
  <2>1. UNCHANGED <<used, hw, cfm>> /\ fl.pc = "get" /\ fl'.pc = "read"
    BY <1>0, <1>9 DEF FlushGet, FlTypeOK, peerVars
  <2>2. Back(p)' = Back(p) /\ Sent(p)' = Sent(p)
    BY <2>1 DEF Back, Sent, One
  <2> QED
    BY <1>3, <2>1, <2>2
<1>10. CASE FlushSend
  <2>1. fl.pc = "send" /\ UNCHANGED <<cfm, used>>
    BY <1>10 DEF FlushSend, peerVars
  <2>2. Back(p)' = Back(p) /\ Sent(p) = 0
    BY <2>1 DEF Back, Sent, One
  <2>3. CASE fl.msg
    <3>1. /\ hw' = [hw EXCEPT ![CurDesc] = @ + 1] /\ fl'.pc = "count"
          /\ fl'.peer = fl.peer
      BY <1>0, <1>10, <2>3 DEF FlushSend, FlTypeOK
    <3>2. CurDesc \in Descs /\ CurDesc.peer = fl.peer /\ CurDesc.cur
      BY <1>0, <2>1, CurDescs DEF Carrying
    <3>3. hw[CurDesc] < PoolSize
      BY <1>0, <2>1, <3>2, Constants DEF CurInv
    <3>4. OneMore(hw', hw, CurDesc, p)
      BY <1>0, <3>1, <3>2, <3>3, MineAdd
    <3>5. Of(CurDesc, p) = Sent(p)'
      BY <3>1, <3>2 DEF Of, Sent, One
    <3>6. Sent(p)' \in {0, 1}
      BY DEF Sent, One
    <3> QED
      BY <1>3, <1>4, <2>1, <2>2, <3>4, <3>5, <3>6 DEF OneMore
  <2>4. CASE ~fl.msg
    <3>1. UNCHANGED hw /\ fl'.pc = "peer"
      BY <1>0, <1>10, <2>4 DEF FlushSend, FlTypeOK, NextPeer
    <3>2. Sent(p)' = 0
      BY <3>1 DEF Sent, One
    <3> QED
      BY <1>3, <2>1, <2>2, <3>1, <3>2
  <2> QED
    BY <2>3, <2>4
<1>11. CASE FlushCount
  <2>1. /\ fl.pc = "count" /\ fl'.pc = "peer" /\ used' = [used EXCEPT ![fl.peer] = @ + 1]
        /\ fl.peer \in Peers
    BY <1>0, <1>11 DEF FlushCount, FlTypeOK, NextPeer, FlInv, Carrying
  <2>2. /\ cfm'.pc = cfm.pc
        /\ cfm.pc # "idle" => cfm'.desc.peer = cfm.desc.peer
    <3>1. cfm' = IF cfm.pc = "idle" THEN cfm
                 ELSE [cfm EXCEPT !.desc = [cfm.desc EXCEPT !.cur = FALSE]]
      BY <1>11 DEF FlushCount
    <3>2. cfm.pc # "idle" => cfm.desc \in Descs
      BY <1>0 DEF CfmInv
    <3>3. cfm.pc # "idle" => [cfm.desc EXCEPT !.cur = FALSE].peer = cfm.desc.peer
      BY <3>2 DEF Descs
    <3> DEFINE e == [cfm.desc EXCEPT !.cur = FALSE]
    <3> HIDE DEF e
    <3>4. cfm' = IF cfm.pc = "idle" THEN cfm ELSE [cfm EXCEPT !.desc = e]
      BY <3>1 DEF e
    <3>5. cfm'.pc = cfm.pc /\ (cfm.pc # "idle" => cfm'.desc = e)
      BY <1>0, <3>4 DEF CfmTypeOK
    <3> QED
      BY <3>3, <3>5 DEF e
  <2>3. Back(p)' = Back(p) /\ Sent(p)' = 0
    BY <2>1, <2>2 DEF Back, Sent, One
  <2>4. used'[p] = used[p] + Sent(p)
    BY <1>0, <1>4, <2>1 DEF Sent, One
  <2>5. Cardinality(BusyOf(hw)) <= PoolSize
    BY PoolBound
  <2>6. Cardinality(Mine(hw', p)) = Cardinality(Mine(hw, p))
    BY <1>0, <1>11, <2>5, CountMoves
  <2>7. used'[p] \in Int
    BY <1>4, <2>4
  <2> QED
    BY <1>3, <2>3, <2>4, <2>6, <2>7
<1>12. ASSUME NEW q \in Stations, SendNullPacket(q)
       PROVE  G(p)
  <2> DEFINE d == [peer |-> NULL, vap |-> VapOf[q], cur |-> FALSE]
  <2>1. UNCHANGED <<used, fl, cfm>> /\ hw' = [hw EXCEPT ![d] = @ + 1]
    BY <1>12 DEF SendNullPacket, procVars, peerVars
  <2>2. d \in Descs /\ d.peer = NULL
    BY Constants DEF Descs
  <2> HIDE DEF d
  <2>3. hw[d] < PoolSize
    <3>1. hw'[d] = hw[d] + 1 /\ hw'[d] \in 0 .. PoolSize /\ hw[d] \in 0 .. PoolSize
      BY <1>0, <2>1, <2>2
    <3> QED
      BY <3>1, Constants
  <2>4. OneMore(hw', hw, d, p)
    BY <1>0, <2>1, <2>2, <2>3, MineAdd
  <2>5. Of(d, p) = 0
    BY <1>4, <2>2 DEF Of, One
  <2>6. Back(p)' = Back(p) /\ Sent(p)' = Sent(p)
    BY <2>1 DEF Back, Sent
  <2> QED
    BY <1>3, <1>4, <2>1, <2>4, <2>5, <2>6 DEF OneMore
<1>13. ASSUME NEW q \in Stations, AddSta(q)
       PROVE  G(p)
  <2>1. /\ UNCHANGED <<hw, fl, cfm>> /\ used' = [used EXCEPT ![q] = 0] /\ Unreferenced(q)
    BY <1>13 DEF AddSta, procVars, hwVars
  <2>2. Back(p)' = Back(p) /\ Sent(p)' = Sent(p) /\ Mine(hw', p) = Mine(hw, p)
    BY <2>1 DEF Back, Sent
  <2>3. q = p => Sent(p) = 0 /\ Back(p) = 0 /\ InHw(p) = 0
    BY <2>1 DEF Unreferenced, Sent, Back, One
  <2>4. q = p => used[p] = 0
    <3>1. Cardinality(Mine(hw, p)) = InHw(p)
      BY BusyIs
    <3> QED
      BY <1>3, <1>4, <2>3, <3>1
  <2>5. used'[p] = used[p]
    BY <1>0, <2>1, <2>4
  <2> QED
    BY <1>3, <2>2, <2>5
<1>14. ASSUME UNCHANGED <<hw, free, used, cfm>>,
              UNCHANGED fl \/ (fl.pc # "count" /\ fl'.pc # "count" /\ fl'.msg = fl.msg)
       PROVE  G(p)
  <2>1. Back(p)' = Back(p) /\ Sent(p)' = Sent(p)
    BY <1>14 DEF Back, Sent, One
  <2> QED
    BY <1>3, <1>14, <2>1
<1> HIDE DEF G
<1> QED
  BY <1>0, <1>5, <1>6, <1>7, <1>8, <1>9, <1>10, <1>11, <1>12, <1>13, <1>14, CountGroups

-----------------------------------------------------------------------------
(***************************************************************************)
(* Flow control, bounds, stations.                                          *)
(***************************************************************************)

\* The flow is stopped and started by the scanner, by the tasklet when the
\* descriptors run out, and by a confirmation.
LEMMA FlowFrame ==
  ASSUME [Next]_vars
  PROVE  \/ ScannerStops \/ ScannerStarts \/ FlushStop \/ ConfirmWake
         \/ UNCHANGED <<stops, prohibited>>
<1>1. Flush => FlushStop \/ UNCHANGED <<stops, prohibited>>
  BY DEF Flush, FlushBegin, FlushRound, FlushProhibited, FlushFiltered, FlushTake,
         FlushGet, FlushRead, FlushSend, FlushCount, flowVars
<1>2. (\E d \in Descs : Confirm(d)) \/ ConfirmStep => ConfirmWake \/ UNCHANGED <<stops, prohibited>>
  BY DEF Confirm, ConfirmStep, ConfirmUsed, ConfirmFree, flowVars
<1> QED
  BY <1>1, <1>2, Groups, StutterKeeps, SenderKeeps, KeyKeeps, StationKeeps, EndKeeps

\* The flow is prohibited exactly while somebody holds it.
LEMMA FlowStep ==
  ASSUME TypeOK, ThreadInv, [Next]_vars
  PROVE  stops' \subseteq Vaps \cup {Scanner} /\ prohibited' = (stops' # {})
<1>0. /\ stops \subseteq Vaps \cup {Scanner} /\ prohibited = (stops # {})
      /\ FlInv /\ CfmInv
  BY DEF TypeOK, HwTypeOK, ThreadInv
<1>1. ASSUME NEW id \in Vaps \cup {Scanner}, StopData(id)
      PROVE  stops' \subseteq Vaps \cup {Scanner} /\ prohibited' = (stops' # {})
  BY <1>0, <1>1 DEF StopData
<1>2. ASSUME NEW id, StartData(id)
      PROVE  stops' \subseteq Vaps \cup {Scanner} /\ prohibited' = (stops' # {})
  <2>1. CASE stops' = {}
    BY <1>0, <1>2, <2>1 DEF StartData
  <2>2. CASE stops' # {}
    <3>1. stops' = stops \ {id} /\ prohibited' = prohibited
      BY <1>2, <2>2 DEF StartData
    <3> QED
      BY <1>0, <2>2, <3>1
  <2> QED
    BY <2>1, <2>2
<1>3. CASE FlushStop
  <2>1. fl.pkt \in Packets /\ StopData(fl.pkt.vap)
    BY <1>0, <1>3 DEF FlushStop, FlInv, Carrying
  <2> QED
    BY <1>1, <2>1 DEF Packets
<1>4. CASE ConfirmWake
  <2>1. UNCHANGED <<stops, prohibited>> \/ StartData(cfm.desc.vap)
    BY <1>4 DEF ConfirmWake, flowVars
  <2> QED
    BY <1>0, <1>2, <2>1
<1>5. CASE ScannerStops \/ ScannerStarts
  BY <1>1, <1>2, <1>5 DEF ScannerStops, ScannerStarts
<1> QED
  BY <1>0, <1>3, <1>4, <1>5, FlowFrame

\* Flags stay flags.
LEMMA FlagStep ==
  ASSUME {is_ap, scheduled, early, stale} \subseteq BOOLEAN, [Next]_vars
  PROVE  {is_ap', scheduled', early', stale'} \subseteq BOOLEAN
<1>1. is_ap' = is_ap
  BY DEF Next, vars
<1>2. scheduled' \in BOOLEAN
  <2>1. ScannerStops \/ ScannerStarts => scheduled' \in BOOLEAN
    BY DEF ScannerStops, ScannerStarts, StartData
  <2>2. ASSUME NEW c \in Senders, SenderStep(c)
        PROVE  scheduled' \in BOOLEAN
    BY <2>2 DEF SenderStep, Transmit, EnqueuePkt, CloneBegin, Clone, CloneEnd
  <2>3. Flush => scheduled' \in BOOLEAN
    BY DEF Flush, FlushBegin, FlushRound, FlushProhibited, FlushFiltered, FlushTake,
           FlushGet, FlushRead, FlushStop, FlushSend, FlushCount
  <2>4. (\E d \in Descs : Confirm(d)) \/ ConfirmStep => scheduled' \in BOOLEAN
    BY DEF Confirm, ConfirmStep, ConfirmWake, ConfirmUsed, ConfirmFree, StartData
  <2>5. ASSUME NEW p \in Stations, StationStep(p)
        PROVE  scheduled' \in BOOLEAN
    BY <2>5 DEF StationStep, SendNullPacket, AddSta, DisconnectSta, RemoveSta, PmUpdate,
           KeyBegin
  <2> QED
    BY <2>1, <2>2, <2>3, <2>4, <2>5, Groups, StutterKeeps, KeyKeeps, EndKeeps
<1>3. early' \in BOOLEAN /\ stale' \in BOOLEAN
  <2>1. Flush => early' \in BOOLEAN /\ stale' \in BOOLEAN
    BY DEF Flush, FlushBegin, FlushRound, FlushProhibited, FlushFiltered, FlushTake,
           FlushGet, FlushRead, FlushStop, FlushSend, FlushCount, ghosts
  <2> QED
    BY <2>1, Groups, StutterKeeps, ScannerKeeps, SenderKeeps, ConfirmKeeps, KeyKeeps,
       StationKeeps, EndKeeps
<1> QED
  BY <1>1, <1>2, <1>3

\* The bounds of the model hold.
LEMMA BoundStep ==
  ASSUME npackets \in 0 .. MaxPackets, nrequests \in 0 .. MaxRequests, [Next]_vars
  PROVE  npackets' \in 0 .. MaxPackets /\ nrequests' \in 0 .. MaxRequests
<1>0. MaxPackets \in Nat /\ MaxRequests \in Nat
  BY Constants
<1> DEFINE P == npackets < MaxPackets /\ npackets' = npackets + 1 /\ UNCHANGED nrequests
           U == UNCHANGED <<npackets, nrequests>>
<1>1. P \/ Request \/ U => npackets' \in 0 .. MaxPackets /\ nrequests' \in 0 .. MaxRequests
  BY <1>0 DEF Request
<1>2. ScannerStops \/ ScannerStarts => P \/ Request \/ U
  BY DEF ScannerStops, ScannerStarts, bounds
<1>3. ASSUME NEW c \in Senders, SenderStep(c)
      PROVE  P \/ Request \/ U
  BY <1>3 DEF SenderStep, Transmit, EnqueuePkt, CloneBegin, Clone, CloneEnd, bounds
<1>4. ASSUME NEW p \in Stations, StationStep(p)
      PROVE  P \/ Request \/ U
  BY <1>4 DEF StationStep, SendNullPacket, AddSta, DisconnectSta, RemoveSta, PmUpdate,
         KeyBegin, bounds
<1>5. EndStep => P \/ Request \/ U
  BY DEF EndStep, DisconnectAll, DisconnectWait, CleanVap, bounds
<1>6. UNCHANGED vars \/ Flush \/ KeyStep \/ ConfirmStep \/ (\E d \in Descs : Confirm(d)) => U
  BY StutterKeeps, FlushKeeps, KeyKeeps, ConfirmKeeps
<1> HIDE DEF P, U
<1> QED
  BY <1>1, <1>2, <1>3, <1>4, <1>5, <1>6, Groups

\* Limits and filters of the stations.
LEMMA PeerStep ==
  ASSUME TypeOK, ThreadInv, OrderInv, UsedMatches, PoolMatches, KeyInv, [Next]_vars
  PROVE  PeerTypeOK'
<1> DEFINE L == {LimitCfg, PmLimit}
<1>0. /\ QueTypeOK /\ PeerTypeOK /\ FlTypeOK /\ FlInv
      /\ limit \in [Peers -> L] /\ filter \in [Peers -> Filters]
  BY DEF TypeOK, ThreadInv, PeerTypeOK
<1>1. used' \in [Peers -> Int] /\ listed' \subseteq Stations
  BY <1>0, UsedStep, OrderStep
<1>2. limit' \in [Peers -> L]
  <2>1. ASSUME NEW p \in Stations, StationStep(p)
        PROVE  limit' \in [Peers -> L]
    <3>1. ASSUME NEW l \in L, limit' = [limit EXCEPT ![p] = l]
          PROVE  limit' \in [Peers -> L]
      BY <1>0, <3>1
    <3>2. \/ limit' = [limit EXCEPT ![p] = LimitCfg]
          \/ limit' = [limit EXCEPT ![p] = PmLimit]
          \/ UNCHANGED limit
      BY <2>1 DEF StationStep, SendNullPacket, AddSta, DisconnectSta, RemoveSta, PmUpdate,
             KeyBegin, peerVars
    <3> QED
      BY <1>0, <3>1, <3>2
  <2> QED
    BY <1>0, <2>1, Groups, StutterKeeps, ScannerKeeps, SenderKeeps, FlushKeeps,
       ConfirmKeeps, KeyKeeps, EndKeeps
<1>3. filter' \in [Peers -> Filters]
  <2>1. ASSUME NEW p, NEW f \in Filters, filter' = [filter EXCEPT ![p] = f]
        PROVE  filter' \in [Peers -> Filters]
    BY <1>0, <2>1
  <2>2. "all" \in Filters /\ "none" \in Filters /\ "802_1x" \in Filters
    BY DEF Filters
  <2>3. ASSUME NEW p \in Stations, AddSta(p)
        PROVE  filter' \in [Peers -> Filters]
    BY <2>1, <2>2, <2>3 DEF AddSta
  <2>4. ASSUME NEW p \in Stations, NEW b \in BOOLEAN, KeyBegin(p, b)
        PROVE  filter' \in [Peers -> Filters]
    <3>1. filter' = filter \/ filter' = [filter EXCEPT ![p] = "802_1x"]
      BY <2>4 DEF KeyBegin
    <3> QED
      BY <1>0, <2>1, <2>2, <3>1
  <2>5. CASE KeyStep
    <3>1. \/ UNCHANGED filter
          \/ filter' = [filter EXCEPT ![key.peer] = "none"]
          \/ filter' = [filter EXCEPT ![key.peer] = "all"]
          \/ key.pc = "send" /\ filter' = [filter EXCEPT ![key.peer] = key.stored]
      BY <2>5 DEF KeyStep, KeyMsg4, KeyFilter, KeyCancel, KeyWait, KeySent, peerVars
    <3>2. key.pc = "send" => key.stored \in Filters
      BY DEF KeyInv
    <3> QED
      BY <1>0, <2>1, <2>2, <3>1, <3>2
  <2>6. ASSUME NEW v \in Vaps, DisconnectAll(v)
        PROVE  filter' \in [Peers -> Filters]
    <3>1. filter' = [p \in Peers |-> IF p \in disc'.left THEN "none" ELSE filter[p]]
      BY <2>6 DEF DisconnectAll
    <3> QED
      BY <1>0, <2>2, <3>1
  <2> QED
    BY <1>0, <2>3, <2>4, <2>5, <2>6, FilterFrame
<1> QED
  BY <1>1, <1>2, <1>3 DEF PeerTypeOK

-----------------------------------------------------------------------------
(***************************************************************************)
(* Setting a key.                                                           *)
(***************************************************************************)

\* The packets filter of the station is closed from KeyFilter to the end.
LEMMA KeyShut ==
  ASSUME PeerTypeOK, KeyTypeOK, KeyInv, [Next]_vars
  PROVE  /\ KeyTypeOK'
         /\ key'.pc # "idle" => key'.peer \in Stations
         /\ key'.pc \in {"cancel", "wait", "send"} =>
              filter'[key'.peer] = "none" /\ key'.stored \in Filters
<1> DEFINE Rec == [pc : {"idle", "msg4", "filter", "cancel", "wait", "send"},
                   peer : Stations \cup {NULL}, stored : Filters \cup {NULL},
                   len : BOOLEAN]
           Open == {"cancel", "wait", "send"}
           G == /\ key' \in Rec
                /\ key'.pc # "idle" => key'.peer \in Stations
                /\ key'.pc \in Open => filter'[key'.peer] = "none" /\ key'.stored \in Filters
<1>0. /\ key \in Rec /\ filter \in [Peers -> Filters]
      /\ key.pc # "idle" => key.peer \in Stations
      /\ key.pc \in Open => filter[key.peer] = "none" /\ key.stored \in Filters
  BY DEF KeyTypeOK, KeyInv, PeerTypeOK
<1>1. ASSUME NEW p \in Stations, NEW b \in BOOLEAN, KeyBegin(p, b)
      PROVE  G
  <2>1. \/ key' = [pc |-> "msg4", peer |-> p, stored |-> NULL, len |-> b]
        \/ key' = [pc |-> "filter", peer |-> p, stored |-> NULL, len |-> b]
    BY <1>1 DEF KeyBegin, KeyIdle
  <2> QED
    BY <2>1
<1>2. ASSUME KeyMsg4 PROVE G
  <2>1. key.pc = "msg4" /\ key' = [key EXCEPT !.pc = "filter"]
    BY <1>2 DEF KeyMsg4
  <2> QED
    BY <1>0, <2>1
<1>3. ASSUME KeyFilter PROVE G
  <2>1. /\ key.pc = "filter"
        /\ key' = [key EXCEPT !.pc = "cancel", !.stored = filter[key.peer]]
        /\ filter' = [filter EXCEPT ![key.peer] = "none"]
    BY <1>3 DEF KeyFilter
  <2>2. key.peer \in Stations /\ key.peer \in Peers
    BY <1>0, <2>1 DEF Peers
  <2>3. filter[key.peer] \in Filters /\ filter'[key.peer] = "none"
    BY <1>0, <2>1, <2>2
  <2>4. /\ key' \in Rec /\ key'.pc = "cancel" /\ key'.peer = key.peer
        /\ key'.stored = filter[key.peer]
    BY <1>0, <2>1, <2>3
  <2> QED
    BY <2>2, <2>3, <2>4
<1>4. ASSUME KeyCancel \/ KeyWait PROVE G
  <2>1. /\ key.pc \in {"cancel", "wait"} /\ UNCHANGED filter
        /\ key' = [key EXCEPT !.pc = "wait"] \/ key' = [key EXCEPT !.pc = "send"]
    BY <1>4 DEF KeyCancel, KeyWait, peerVars
  <2>2. key' \in Rec /\ key'.peer = key.peer /\ key'.stored = key.stored
    BY <1>0, <2>1
  <2> QED
    BY <1>0, <2>1, <2>2
<1>5. ASSUME KeySent PROVE G
  <2>1. /\ key.pc = "send"
        /\ key' = [key EXCEPT !.pc = "filter"] \/ key' = KeyIdle
    BY <1>5 DEF KeySent
  <2>2. CASE key' = KeyIdle
    BY <2>2 DEF KeyIdle
  <2>3. CASE key' = [key EXCEPT !.pc = "filter"]
    BY <1>0, <2>1, <2>3
  <2> QED
    BY <2>1, <2>2, <2>3
<1>6. ASSUME UNCHANGED <<key, filter>> PROVE G
  BY <1>0, <1>6
<1>7. ASSUME UNCHANGED key /\ key.pc = "idle" PROVE G
  BY <1>0, <1>7
<1>8. \/ \E p \in Stations : \E b \in BOOLEAN : KeyBegin(p, b)
      \/ KeyStep
      \/ UNCHANGED <<key, filter>>
      \/ UNCHANGED key /\ key.pc = "idle"
  <2>1. ASSUME NEW p \in Stations, AddSta(p)
        PROVE  key.pc = "idle"
    BY <2>1 DEF AddSta, NoRequest
  <2>2. ASSUME NEW v \in Vaps, DisconnectAll(v)
        PROVE  key.pc = "idle"
    BY <2>2 DEF DisconnectAll, NoRequest
  <2> QED
    BY <2>1, <2>2, KeyFrame, FilterFrame
<1>9. G
  <2> HIDE DEF G, Rec, Open
  <2> QED
    BY <1>1, <1>2, <1>3, <1>4, <1>5, <1>6, <1>7, <1>8 DEF KeyStep
<1> QED
  BY <1>9 DEF KeyTypeOK

\* Where the steps of the request lead.
LEMMA KeyPc ==
  ASSUME KeyTypeOK
  PROVE  /\ KeyMsg4 \/ KeyFilter \/ KeySent => key'.pc \notin {"wait", "send"}
         /\ KeyCancel => key'.pc = "wait"
<1>1. KeyMsg4 => key'.pc = "filter"
  BY DEF KeyMsg4, KeyTypeOK
<1>2. KeyFilter => key'.pc = "cancel"
  BY DEF KeyFilter, KeyTypeOK
<1>3. KeySent => key' = [key EXCEPT !.pc = "filter"] \/ key' = KeyIdle
  BY DEF KeySent
<1>4. KeySent => key'.pc \in {"filter", "idle"}
  BY <1>3 DEF KeyIdle, KeyTypeOK
<1>5. KeyCancel => key'.pc = "wait"
  BY DEF KeyCancel, KeyTypeOK
<1> QED
  BY <1>1, <1>2, <1>4, <1>5

\* The station of the request stays while it runs.
LEMMA KeyListed ==
  ASSUME KeyTypeOK, KeyInv, [Next]_vars
  PROVE  key'.pc # "idle" => key'.peer \in listed' /\ disc'.pc = "idle"
<1> SUFFICES ASSUME key'.pc # "idle" PROVE key'.peer \in listed' /\ disc'.pc = "idle"
  OBVIOUS
<1>1. ASSUME NEW p \in Stations, NEW b \in BOOLEAN, KeyBegin(p, b)
      PROVE  key'.peer \in listed' /\ disc'.pc = "idle"
  <2>1. p \in listed /\ disc.pc = "idle" /\ UNCHANGED <<listed, disc>>
    BY <1>1 DEF KeyBegin, NoRequest
  <2>2. \/ key' = [pc |-> "msg4", peer |-> p, stored |-> NULL, len |-> b]
        \/ key' = [pc |-> "filter", peer |-> p, stored |-> NULL, len |-> b]
    BY <1>1 DEF KeyBegin, KeyIdle
  <2> QED
    BY <2>1, <2>2
<1>2. CASE KeyStep
  <2>1. key.pc # "idle" /\ (key'.peer = key.peer \/ key' = KeyIdle)
    <3>1. KeyMsg4 \/ KeyFilter \/ KeyCancel \/ KeyWait => key.pc # "idle" /\ key'.peer = key.peer
      BY DEF KeyMsg4, KeyFilter, KeyCancel, KeyWait, KeyTypeOK
    <3>2. KeySent => key.pc # "idle" /\ (key' = [key EXCEPT !.pc = "filter"] \/ key' = KeyIdle)
      BY DEF KeySent
    <3> QED
      BY <1>2, <3>1, <3>2 DEF KeyStep, KeyTypeOK
  <2>2. key' # KeyIdle
    BY DEF KeyIdle
  <2>3. UNCHANGED <<listed, disc>>
    BY <1>2 DEF KeyStep, KeyMsg4, KeyFilter, KeyCancel, KeyWait, KeySent, peerVars
  <2> QED
    BY <2>1, <2>2, <2>3 DEF KeyInv
<1>3. CASE UNCHANGED key
  <2>1. key.pc # "idle" /\ key.peer \in listed /\ disc.pc = "idle"
    BY <1>3 DEF KeyInv
  <2>2. \A p \in Stations : ~AddSta(p) /\ ~DisconnectSta(p) /\ ~RemoveSta(p)
    BY <2>1 DEF AddSta, DisconnectSta, RemoveSta, NoRequest
  <2>3. ~EndStep
    BY <2>1 DEF EndStep, DisconnectWait, CleanVap, DisconnectAll, NoRequest
  <2>4. UNCHANGED disc
    BY <2>2, <2>3, DiscFrame
  <2>5. UNCHANGED listed
    <3>1. FlushRound => UNCHANGED listed
      BY DEF FlushRound, peerVars
    <3> QED
      BY <2>2, <3>1, OrderFrame
  <2> QED
    BY <1>3, <2>1, <2>4, <2>5
<1> QED
  BY <1>1, <1>2, <1>3, KeyFrame

\* The tasklet has a station from FlushTake on.
LEMMA FlPeer ==
  ASSUME FlTypeOK, Flush
  PROVE  FlushTake \/ fl'.peer = fl.peer \/ fl'.peer = NULL
<1>1. CASE FlushBegin \/ FlushProhibited
  <2>1. FlushProhibited => fl'.peer = NULL
    BY DEF FlushProhibited, FlIdle
  <2>2. FlushBegin => fl'.peer = NULL
    BY DEF FlushBegin, FlIdle
  <2> QED
    BY <1>1, <2>1, <2>2
<1>2. CASE FlushRound
  <2>1. \/ fl' = [fl EXCEPT !.pos = 1, !.sent = FALSE]
        \/ fl' = FlIdle
        \/ fl' = [fl EXCEPT !.ac = @ - 1, !.pos = 1]
    BY <1>2 DEF FlushRound
  <2>2. CASE fl' = FlIdle
    BY <2>2 DEF FlIdle
  <2> QED
    BY <2>1, <2>2 DEF FlTypeOK
<1>3. CASE FlushFiltered \/ FlushGet \/ FlushRead \/ FlushStop
  BY <1>3 DEF FlushFiltered, FlushGet, FlushRead, FlushStop, FlTypeOK
<1>4. CASE FlushSend \/ FlushCount
  <2>1. fl' = NextPeer \/ fl' = [fl EXCEPT !.pc = "count"]
    BY <1>4 DEF FlushSend, FlushCount
  <2> QED
    BY <2>1 DEF FlTypeOK, NextPeer
<1> QED
  BY <1>1, <1>2, <1>3, <1>4 DEF Flush

\* Once the lock was held the tasklet has no packet of the station and, for its
\* filter is closed, takes none.
LEMMA KeyHands ==
  ASSUME QueTypeOK, FlTypeOK, FlInv, KeyTypeOK, KeyInv, [Next]_vars
  PROVE  key'.pc \in {"wait", "send"} =>
           fl'.peer # key'.peer /\ (is_ap' \/ fl'.peer # Broadcast)
<1> SUFFICES ASSUME key'.pc \in {"wait", "send"}
             PROVE  fl'.peer # key'.peer /\ (is_ap' \/ fl'.peer # Broadcast)
  OBVIOUS
<1>0. is_ap' = is_ap
  BY DEF Next, vars
<1>1. CASE UNCHANGED key
  <2>1. /\ key.pc \in {"wait", "send"} /\ key.peer \in Stations /\ key.peer \in listed
        /\ filter[key.peer] = "none" /\ fl.peer # key.peer /\ (is_ap \/ fl.peer # Broadcast)
    BY <1>1 DEF KeyInv
  <2>2. key.peer # NULL /\ Broadcast # NULL /\ Broadcast \notin Stations
    BY <2>1, Constants
  <2>3. CASE FlushTake
    <3>1. Allowed(PeerAt, HeadPkt)
      BY <2>3 DEF FlushTake
    <3>2. key.peer \notin Receivers(PeerAt)
      BY <2>1, <3>1 DEF Allowed
    <3>3. PeerAt # key.peer /\ (is_ap \/ PeerAt # Broadcast)
      BY <2>1, <2>2, <3>2 DEF Receivers
    <3>4. fl'.peer = PeerAt
      BY <2>3 DEF FlushTake, FlTypeOK
    <3> QED
      BY <1>0, <1>1, <3>3, <3>4
  <2> QED
    BY <1>0, <1>1, <2>1, <2>2, <2>3, FlFrame, FlPeer
<1>2. ASSUME NEW p \in Stations, NEW b \in BOOLEAN, KeyBegin(p, b)
      PROVE  FALSE
  BY <1>2 DEF KeyBegin, KeyIdle
<1>3. CASE KeyStep
  <2>1. UNCHANGED fl
    BY <1>3, KeyKeeps
  <2>2. CASE KeyCancel
    <3>1. fl.pc = "idle" /\ key.pc = "cancel" /\ key'.peer = key.peer
      BY <2>2 DEF KeyCancel, Cancel, LockFree, KeyTypeOK
    <3>2. fl.peer = NULL /\ key.peer \in Stations
      BY <3>1 DEF FlInv, KeyInv
    <3> QED
      BY <2>1, <3>1, <3>2, Constants
  <2>3. CASE KeyWait
    <3>1. key.pc = "wait" /\ key'.peer = key.peer
      BY <2>3 DEF KeyWait, KeyTypeOK
    <3> QED
      BY <1>0, <2>1, <3>1 DEF KeyInv
  <2>4. CASE KeyMsg4 \/ KeyFilter \/ KeySent
    BY <2>4, KeyPc
  <2> QED
    BY <1>3, <2>2, <2>3, <2>4 DEF KeyStep
<1> QED
  BY <1>1, <1>2, <1>3, KeyFrame

\* When the wait ends none of its packets is in the firmware, and none comes.
LEMMA KeyDry ==
  ASSUME TypeOK, ThreadInv, UsedMatches, PoolMatches, KeyInv, [Next]_vars
  PROVE  key'.pc = "send" => InHw(key.peer)' = 0
<1> DEFINE p == key.peer
           N == Cardinality(Mine(hw, p))
<1>0. /\ FlTypeOK /\ FlInv /\ CfmTypeOK /\ CfmInv /\ CurInv /\ KeyTypeOK /\ PeerTypeOK
      /\ hw \in [Descs -> 0 .. PoolSize] /\ hw' \in [Descs -> 0 .. PoolSize]
  BY PoolStep DEF TypeOK, ThreadInv, HwTypeOK
<1>1. SUFFICES ASSUME key'.pc = "send" PROVE Cardinality(Mine(hw', key'.peer)) = 0
  BY BusyIsNext
<1>2. CASE KeyStep
  <2>1. key.pc = "wait" /\ used[p] = 0 /\ key'.peer = p /\ UNCHANGED hw
    <3>1. KeyWait \/ key'.pc # "send"
      BY <1>0, <1>2, KeyPc DEF KeyStep
    <3> QED
      BY <1>0, <1>1, <3>1 DEF KeyWait, KeyTypeOK, hwVars
  <2>2. p \in Peers /\ fl.peer # p
    BY <2>1 DEF KeyInv, Peers
  <2>3. used[p] + Sent(p) = InHw(p) + Back(p)
    BY <2>2 DEF UsedMatches, Sent, Back
  <2>4. Sent(p) = 0 /\ Back(p) \in {0, 1}
    BY <2>2 DEF Sent, Back, One
  <2>5. N \in Nat /\ InHw(p) = N
    BY BusyIs, BusyFinite
  <2>6. N = 0
    BY <2>1, <2>3, <2>4, <2>5
  <2> QED
    BY <2>1, <2>6
<1>3. CASE UNCHANGED key
  <2>1. key.pc = "send" /\ key'.peer = p /\ InHw(p) = 0 /\ fl.peer # p /\ p \in Stations
    BY <1>1, <1>3 DEF KeyInv
  <2>2. N = 0 /\ p # NULL
    BY <2>1, BusyIs, Constants
  <2> SUFFICES Cardinality(Mine(hw', p)) = 0
    BY <2>1
  <2> HIDE DEF p
  <2>3. ASSUME NEW d \in Descs, Confirm(d)
        PROVE  Cardinality(Mine(hw', p)) = 0
    <3>1. hw[d] > 0 /\ hw' = [hw EXCEPT ![d] = @ - 1]
      BY <2>3 DEF Confirm
    <3>2. OneMore(hw, hw', d, p)
      BY <1>0, <3>1, MineRemove
    <3>3. Cardinality(Mine(hw', p)) \in Nat /\ Of(d, p) \in {0, 1}
      BY BusyFinite DEF Of, One
    <3> QED
      BY <2>2, <3>2, <3>3 DEF OneMore
  <2>4. CASE FlushSend
    <3>1. CASE fl.msg
      <4>1. fl.pc = "send" /\ hw' = [hw EXCEPT ![CurDesc] = @ + 1]
        BY <2>4, <3>1 DEF FlushSend
      <4>2. CurDesc \in Descs /\ CurDesc.peer = fl.peer /\ CurDesc.cur
        BY <1>0, <4>1, CurDescs DEF Carrying
      <4>3. hw[CurDesc] < PoolSize
        BY <1>0, <4>1, <4>2, Constants DEF CurInv
      <4>4. OneMore(hw', hw, CurDesc, p)
        BY <1>0, <4>1, <4>2, <4>3, MineAdd
      <4>5. Of(CurDesc, p) = 0
        BY <2>1, <4>2 DEF Of, One
      <4> QED
        BY <2>2, <4>4, <4>5 DEF OneMore
    <3>2. CASE ~fl.msg
      <4>1. UNCHANGED hw
        BY <2>4, <3>2 DEF FlushSend
      <4> QED
        BY <2>2, <4>1
    <3> QED
      BY <3>1, <3>2
  <2>5. CASE FlushCount
    <3>1. Cardinality(BusyOf(hw)) <= PoolSize
      BY PoolBound
    <3>2. Cardinality(Mine(hw', p)) = Cardinality(Mine(hw, p))
      BY <1>0, <2>5, <3>1, CountMoves
    <3> QED
      BY <2>2, <3>2
  <2>6. ASSUME NEW q \in Stations, SendNullPacket(q)
        PROVE  Cardinality(Mine(hw', p)) = 0
    <3> DEFINE d == [peer |-> NULL, vap |-> VapOf[q], cur |-> FALSE]
    <3>1. hw' = [hw EXCEPT ![d] = @ + 1]
      BY <2>6 DEF SendNullPacket
    <3>2. d \in Descs /\ d.peer = NULL
      BY Constants DEF Descs
    <3> HIDE DEF d
    <3>3. hw[d] < PoolSize
      <4>1. hw'[d] = hw[d] + 1 /\ hw'[d] \in 0 .. PoolSize /\ hw[d] \in 0 .. PoolSize
        BY <1>0, <3>1, <3>2
      <4> QED
        BY <4>1, Constants
    <3>4. OneMore(hw', hw, d, p)
      BY <1>0, <3>1, <3>2, <3>3, MineAdd
    <3>5. Of(d, p) = 0
      BY <2>2, <3>2 DEF Of, One
    <3> QED
      BY <2>2, <3>4, <3>5 DEF OneMore
  <2>7. CASE UNCHANGED hw
    BY <2>2, <2>7
  <2>8. ConfirmFree \/ FlushGet => UNCHANGED hw
    BY DEF ConfirmFree, FlushGet
  <2> QED
    BY <2>3, <2>4, <2>5, <2>6, <2>7, <2>8, HwFrame
<1>4. ASSUME NEW q \in Stations, NEW b \in BOOLEAN, KeyBegin(q, b)
      PROVE  FALSE
  BY <1>1, <1>4 DEF KeyBegin, KeyIdle
<1> QED
  BY <1>2, <1>3, <1>4, KeyFrame

-----------------------------------------------------------------------------
(***************************************************************************)
(* The invariant holds.                                                     *)
(***************************************************************************)

\* It holds in the initial state.
LEMMA InitInv ==
  ASSUME Init
  PROVE  IInv
<1>0. /\ PoolSize \in Nat /\ PoolSize >= 1 /\ NACs \in Nat /\ NACs >= 1
      /\ MaxPackets \in Nat /\ MaxRequests \in Nat /\ Broadcast \in Peers
  BY Constants
<1>1. QueTypeOK
  BY <1>0 DEF Init, QueTypeOK, ACs
<1>2. PeerTypeOK
  BY DEF Init, PeerTypeOK, Filters
<1>3. HwTypeOK
  <2>1. free \in 0 .. PoolSize /\ hw \in [Descs -> 0 .. PoolSize]
    BY <1>0 DEF Init
  <2>2. npackets \in 0 .. MaxPackets /\ nrequests \in 0 .. MaxRequests
    BY <1>0 DEF Init
  <2>3. stops \subseteq Vaps \cup {Scanner} /\ prohibited = (stops # {})
    BY DEF Init
  <2>4. {is_ap, scheduled, early, stale} \subseteq BOOLEAN
    BY DEF Init
  <2> QED
    BY <2>1, <2>2, <2>3, <2>4 DEF HwTypeOK
<1>4. FlTypeOK /\ FlInv
  BY <1>0 DEF Init, FlIdle, FlTypeOK, FlInv, Carrying
<1>5. CfmTypeOK /\ CfmInv
  BY <1>0 DEF Init, CfmIdle, CfmTypeOK, CfmInv
<1>6. SndTypeOK /\ SndInv
  BY <1>0 DEF Init, SndIdle, SndTypeOK, SndInv
<1>7. KeyTypeOK /\ KeyInv
  BY DEF Init, KeyIdle, KeyTypeOK, KeyInv
<1>8. DiscTypeOK /\ DiscInv
  BY DEF Init, DiscIdle, DiscTypeOK, DiscInv
<1>9. fl.pc = "idle" /\ fl.msg = FALSE /\ cfm.pc = "idle"
  BY DEF Init, FlIdle, CfmIdle
<1>10. CurInv
  BY <1>9 DEF Init, CurInv
<1>11. OrderInv
  <2>1. \A a \in ACs : order[a] = <<Broadcast>> /\ listed = {}
    BY DEF Init
  <2>2. Has(<<Broadcast>>, Broadcast)
    BY DEF Has
  <2> QED
    BY <2>1, <2>2 DEF OrderInv
<1>12. BusyOf(hw) = {}
  <2>1. \A x \in Descs \X (1 .. PoolSize) : x[1] \in Descs /\ x[2] \in 1 .. PoolSize
    OBVIOUS
  <2>2. \A d \in Descs : hw[d] = 0
    BY DEF Init
  <2> QED
    BY <1>0, <2>1, <2>2 DEF BusyOf
<1>13. Cardinality(BusyOf(hw)) = 0 /\ \A p : Cardinality(Mine(hw, p)) = 0
  <2>1. \A p : Mine(hw, p) = {}
    BY <1>12 DEF Mine
  <2> QED
    BY <1>12, <2>1, FS_EmptySet
<1>14. UsedMatches
  <2>1. \A p \in Peers : used[p] = 0 /\ InHw(p) = 0
    BY <1>13, BusyIs DEF Init
  <2> QED
    BY <1>9, <2>1 DEF UsedMatches, One
<1>15. PoolMatches
  <2>1. free = PoolSize /\ Cardinality(Busy) = 0
    BY <1>13, BusyIs DEF Init
  <2> QED
    BY <1>0, <1>9, <2>1 DEF PoolMatches, One
<1> QED
  BY <1>1, <1>2, <1>3, <1>4, <1>5, <1>6, <1>7, <1>8, <1>10, <1>11, <1>14, <1>15
  DEF IInv, TypeOK, ThreadInv

\* Every step keeps it.
LEMMA NextInv ==
  ASSUME IInv, [Next]_vars
  PROVE  IInv'
<1>0. /\ TypeOK /\ ThreadInv /\ OrderInv /\ UsedMatches /\ PoolMatches /\ KeyInv
      /\ QueTypeOK /\ PeerTypeOK /\ HwTypeOK /\ FlTypeOK /\ CfmTypeOK /\ SndTypeOK
      /\ KeyTypeOK /\ DiscTypeOK /\ FlInv /\ CfmInv /\ SndInv /\ DiscInv /\ CurInv
  BY DEF IInv, TypeOK, ThreadInv
<1>1. QueTypeOK' /\ PeerTypeOK'
  BY <1>0, QueStep, PeerStep
<1>2. HwTypeOK'
  <2>1. /\ {is_ap, scheduled, early, stale} \subseteq BOOLEAN
        /\ npackets \in 0 .. MaxPackets /\ nrequests \in 0 .. MaxRequests
    BY <1>0 DEF HwTypeOK
  <2>2. {is_ap', scheduled', early', stale'} \subseteq BOOLEAN
    BY <2>1, FlagStep
  <2>3. npackets' \in 0 .. MaxPackets /\ nrequests' \in 0 .. MaxRequests
    BY <2>1, BoundStep
  <2>4. free' \in 0 .. PoolSize /\ hw' \in [Descs -> 0 .. PoolSize]
    BY <1>0, PoolStep
  <2>5. stops' \subseteq Vaps \cup {Scanner} /\ prohibited' = (stops' # {})
    BY <1>0, FlowStep
  <2> QED
    BY <2>2, <2>3, <2>4, <2>5 DEF HwTypeOK
<1>3. FlTypeOK' /\ FlInv' /\ CfmTypeOK' /\ CfmInv'
  BY <1>0, FlStep, CfmStep
<1>4. SndTypeOK' /\ SndInv' /\ DiscTypeOK' /\ DiscInv'
  BY <1>0, SndStep, DiscStep
<1>5. CurInv' /\ OrderInv'
  BY <1>0, CurStep, OrderStep
<1>6. UsedMatches' /\ PoolMatches'
  BY <1>0, UsedStep, PoolStep
<1>7. KeyTypeOK' /\ KeyInv'
  BY <1>0, KeyShut, KeyListed, KeyHands, KeyDry DEF KeyInv
<1> QED
  BY <1>1, <1>2, <1>3, <1>4, <1>5, <1>6, <1>7 DEF IInv, TypeOK, ThreadInv

\* The invariant of the transmit path.
LEMMA Invariance == Spec => []IInv
<1>1. Init => IInv
  BY InitInv
<1>2. IInv /\ [Next]_vars => IInv'
  BY NextInv
<1> QED
  BY <1>1, <1>2, PTL DEF Spec

\* For any number of stations, access points, senders and descriptors, what the
\* queues and the threads hold has its type, the descriptors stay within the
\* pool, and the flow is prohibited exactly while somebody holds it.
THEOREM TypeCorrect == Spec => []TypeOK
<1>1. IInv => TypeOK
  BY DEF IInv
<1> QED
  BY <1>1, Invariance, PTL

\* No interleaving of senders, tasklet, confirmations and requests loses a
\* descriptor or frees one twice, and the count of every station's packets in
\* the firmware is right.
THEOREM InFlightCorrect == Spec => []InFlight
<1>1. IInv => InFlight
  BY DEF IInv, InFlight
<1> QED
  BY <1>1, Invariance, PTL

\* While a key is being set nothing is handed over to its station, from the queue
\* of broadcasts of a station interface either, and the key is sent to the firmware
\* only when no packet of the station's own queue is there (core.c:11450-11461).
THEOREM KeyAfterConfirmedCorrect == Spec => []KeyAfterConfirmed
<1>1. IInv => KeyAfterConfirmed
  BY DEF IInv, KeyInv, KeyAfterConfirmed
<1> QED
  BY <1>1, Invariance, PTL

-----------------------------------------------------------------------------
(***************************************************************************)
(* No packet is forgotten.  The driver has many descriptors; with a single  *)
(* one a confirmation would always find none free and never wake the queue. *)
(***************************************************************************)
TwoDescriptors == PoolSize >= 2

\* A round that sent nothing started at the first station.
LEMMA RoundStep ==
  ASSUME FlTypeOK, RoundInv, [Next]_vars
  PROVE  RoundInv'
<1>1. CASE UNCHANGED fl
  BY <1>1 DEF RoundInv
<1>2. CASE FlushBegin
  <2>1. fl'.pos = 1
    BY <1>2 DEF FlushBegin, FlIdle
  <2> QED
    BY <2>1 DEF RoundInv
<1>3. CASE FlushRound
  <2>1. \/ fl' = [fl EXCEPT !.pos = 1, !.sent = FALSE]
        \/ fl' = FlIdle
        \/ fl' = [fl EXCEPT !.ac = @ - 1, !.pos = 1]
    BY <1>3 DEF FlushRound
  <2>2. CASE fl' = FlIdle
    BY <2>2 DEF RoundInv, FlIdle
  <2>3. CASE fl' # FlIdle
    <3>1. fl'.pos = 1
      BY <2>1, <2>3 DEF FlTypeOK
    <3> QED
      BY <3>1 DEF RoundInv
  <2> QED
    BY <2>2, <2>3
<1>4. CASE FlushProhibited
  BY <1>4 DEF FlushProhibited, FlIdle, RoundInv
<1>5. CASE FlushFiltered
  <2>1. fl'.sent = TRUE
    BY <1>5 DEF FlushFiltered, FlTypeOK
  <2> QED
    BY <2>1 DEF RoundInv
<1>6. CASE FlushTake \/ FlushGet \/ FlushRead \/ FlushStop
  <2>1. fl'.pc # "peer"
    BY <1>6 DEF FlushTake, FlushGet, FlushRead, FlushStop, FlTypeOK
  <2> QED
    BY <2>1 DEF RoundInv
<1>7. CASE FlushSend \/ FlushCount
  <2>1. fl' = NextPeer \/ fl' = [fl EXCEPT !.pc = "count"]
    BY <1>7 DEF FlushSend, FlushCount
  <2> QED
    BY <2>1 DEF FlTypeOK, NextPeer, RoundInv
<1> QED
  BY <1>1, <1>2, <1>3, <1>4, <1>5, <1>6, <1>7, FlFrame DEF Flush

\* A confirmation that found none free leaves another one behind.
LEMMA LastStep ==
  ASSUME TwoDescriptors, IInv, LastInv, [Next]_vars
  PROVE  LastInv'
<1>0. /\ FlTypeOK /\ FlInv /\ CfmTypeOK /\ free \in Nat /\ PoolSize \in Nat /\ PoolSize >= 2
  BY Constants DEF IInv, TypeOK, ThreadInv, HwTypeOK, TwoDescriptors
<1>1. ASSUME NEW d \in Descs, Confirm(d)
      PROVE  LastInv'
  <2>1. cfm'.res = free /\ UNCHANGED free
    BY <1>1 DEF Confirm
  <2> QED
    BY <1>0, <2>1 DEF LastInv
<1>2. CASE ConfirmWake \/ ConfirmUsed
  <2>1. cfm.pc # "idle" /\ cfm'.res = cfm.res /\ UNCHANGED free
    BY <1>0, <1>2 DEF ConfirmWake, ConfirmUsed, CfmTypeOK, hwVars
  <2> QED
    BY <2>1 DEF LastInv
<1>3. CASE ConfirmFree
  BY <1>3 DEF ConfirmFree, CfmIdle, LastInv
<1>4. CASE FlushGet \/ FlushSend \/ FlushCount
  <2>1. /\ free' = free \/ free' = free - 1
        /\ cfm'.pc = cfm.pc /\ cfm'.res = cfm.res
    BY <1>0, <1>4 DEF FlushGet, FlushSend, FlushCount, CfmTypeOK
  <2> QED
    BY <1>0, <2>1 DEF LastInv
<1>5. ASSUME NEW p \in Stations, SendNullPacket(p) \/ AddSta(p)
      PROVE  LastInv'
  <2>1. (free' = free \/ free' = free - 1) /\ UNCHANGED cfm
    BY <1>5 DEF SendNullPacket, AddSta, hwVars, procVars
  <2> QED
    BY <1>0, <2>1 DEF LastInv
<1>6. CASE UNCHANGED <<hw, free, used, cfm>>
  BY <1>6 DEF LastInv
<1> QED
  BY <1>0, <1>1, <1>2, <1>3, <1>4, <1>5, <1>6, CountGroups

\* The descriptors that will still be confirmed.
Out == Cardinality(BusyOf(hw)) + Held

\* Any such descriptor keeps the queue awake.
LEMMA OutIs ==
  /\ Out \in Nat
  /\ Out > 0 <=> Busy # {} \/ (fl.msg /\ fl.pc # "count")
<1> DEFINE n == Cardinality(BusyOf(hw))
<1>1. n \in Nat /\ (n > 0 <=> Busy # {})
  BY BusyFinite, MineBusy, BusyIs
<1>2. Held \in Nat /\ (Held > 0 <=> (fl.msg /\ fl.pc # "count"))
  BY DEF Held, One
<1>3. Out = n + Held
  BY DEF Out
<1> HIDE DEF n
<1>4. Out \in Nat /\ (Out > 0 <=> n > 0 \/ Held > 0)
  BY <1>1, <1>2, <1>3
<1> QED
  BY <1>1, <1>2, <1>4

\* They are what is neither free nor being given back.
LEMMA OutPool == IInv => free + Out + Given = PoolSize /\ free \in Nat /\ PoolSize \in Nat
<1> SUFFICES ASSUME IInv
             PROVE  free + Out + Given = PoolSize /\ free \in Nat /\ PoolSize \in Nat
  OBVIOUS
<1>1. free + Cardinality(BusyOf(hw)) + Held + Given = PoolSize
  BY BusyIs DEF IInv, PoolMatches, Held, Given
<1>2. free \in Nat /\ PoolSize \in Nat /\ Cardinality(BusyOf(hw)) \in Nat
  BY Constants, BusyFinite DEF IInv, TypeOK, HwTypeOK
<1> QED
  BY <1>1, <1>2, HeldIs DEF Out

\* All this after a step.
LEMMA OutNext ==
  /\ IInv' => free' + Out' + Given' = PoolSize /\ free' \in Nat
  /\ Out' \in Nat /\ Given' \in Nat
  /\ Out' > 0 => Pending'
<1>1. IInv => free + Out + Given = PoolSize /\ free \in Nat
  BY OutPool
<1>2. Out \in Nat /\ Given \in Nat
  BY OutIs, HeldIs
<1>3. Out > 0 => Pending
  BY OutIs DEF Pending
<1>4. (IInv => free + Out + Given = PoolSize /\ free \in Nat)'
  BY <1>1, PTL
<1>5. (Out \in Nat /\ Given \in Nat)'
  BY <1>2, PTL
<1>6. (Out > 0 => Pending)'
  BY <1>3, PTL
<1> QED
  BY <1>4, <1>5, <1>6

\* If no more of the pool are free and as many are given back, no fewer are out.
LEMMA PoolShare ==
  ASSUME NEW f \in Nat, NEW o \in Nat, NEW g \in Nat, NEW f2 \in Nat, NEW o2 \in Nat,
         f + o + g = PoolSize, f2 + o2 + g = PoolSize, f2 <= f
  PROVE  o2 >= o
<1>1. f + o + g = f2 + o2 + g
  OBVIOUS
<1> QED
  BY <1>1

\* Only a confirmation takes one away.
LEMMA OutStep ==
  ASSUME IInv, IInv', Out > 0, [Next]_vars
  PROVE  Out' > 0 \/ \E d \in Descs : Confirm(d)
<1>0. FlTypeOK /\ FlInv /\ CfmTypeOK
  BY DEF IInv, TypeOK, ThreadInv
<1>1. free + Out + Given = PoolSize /\ free \in Nat /\ Out \in Nat /\ Given \in Nat
  BY OutPool, OutIs, HeldIs
<1>2. /\ free' + Out' + Given' = PoolSize
      /\ free' \in Nat /\ PoolSize \in Nat /\ Out' \in Nat /\ Given' \in Nat
  BY OutPool, OutNext
<1>3. ASSUME free' = free \/ free' = free - 1, cfm'.pc = cfm.pc
      PROVE  Out' > 0
  <2>1. Given' = Given
    BY <1>3 DEF Given
  <2>2. free' <= free /\ free' \in Nat
    BY <1>1, <1>2, <1>3
  <2>3. Out' >= Out
    BY <1>1, <1>2, <2>1, <2>2, PoolShare
  <2> QED
    BY <1>1, <1>2, <2>3
<1>4. CASE ConfirmWake \/ ConfirmUsed \/ ConfirmFree
  <2>1. UNCHANGED <<hw, fl>>
    BY <1>4 DEF ConfirmWake, ConfirmUsed, ConfirmFree, hwVars
  <2>2. Out' = Out
    BY <2>1 DEF Out, Held
  <2> QED
    BY <2>2
<1>5. CASE FlushGet \/ FlushSend \/ FlushCount
  BY <1>0, <1>3, <1>5 DEF FlushGet, FlushSend, FlushCount, CfmTypeOK
<1>6. ASSUME NEW p \in Stations, SendNullPacket(p) \/ AddSta(p)
      PROVE  Out' > 0
  BY <1>3, <1>6 DEF SendNullPacket, AddSta, hwVars, procVars
<1>7. CASE UNCHANGED <<hw, free, used, cfm>>
  BY <1>3, <1>7
<1> QED
  BY <1>0, <1>4, <1>5, <1>6, <1>7, CountGroups

\* What keeps the queue awake is followed by something that does, until a flush
\* starts.
LEMMA PendingStep ==
  ASSUME TwoDescriptors, IInv, IInv', LastInv, LastInv', Pending, [Next]_vars
  PROVE  Pending' \/ FlushBegin
<1>0. FlTypeOK /\ FlInv /\ CfmTypeOK /\ CfmInv /\ SndTypeOK
  BY DEF IInv, TypeOK, ThreadInv
<1>1. CASE scheduled
  <2>1. Flush => scheduled' \/ FlushBegin
    BY <1>1 DEF Flush, FlushRound, FlushProhibited, FlushFiltered, FlushTake,
           FlushGet, FlushRead, FlushStop, FlushSend, FlushCount
  <2>2. ASSUME NEW c \in Senders, SenderStep(c)
        PROVE  scheduled'
    BY <1>1, <2>2 DEF SenderStep, Transmit, EnqueuePkt, CloneBegin, Clone, CloneEnd
  <2>3. ScannerStops \/ ScannerStarts => scheduled'
    BY <1>1 DEF ScannerStops, ScannerStarts, StartData
  <2>4. (\E d \in Descs : Confirm(d)) \/ ConfirmStep => scheduled'
    BY <1>1 DEF Confirm, ConfirmStep, ConfirmWake, ConfirmUsed, ConfirmFree, StartData
  <2>5. ASSUME NEW p \in Stations, StationStep(p)
        PROVE  scheduled'
    BY <1>1, <2>5 DEF StationStep, SendNullPacket, AddSta, DisconnectSta, RemoveSta,
           PmUpdate, KeyBegin
  <2>6. scheduled' \/ FlushBegin
    BY <1>1, <2>1, <2>2, <2>3, <2>4, <2>5, Groups, StutterKeeps, KeyKeeps, EndKeeps
  <2> QED
    BY <2>6 DEF Pending
<1>2. ASSUME NEW id, StartData(id)
      PROVE  Pending'
  BY <1>2 DEF StartData, Pending
<1>3. CASE stops # {}
  <2>1. CASE ScannerStops \/ FlushStop
    BY <2>1 DEF ScannerStops, FlushStop, StopData, Pending
  <2>2. CASE ScannerStarts
    BY <1>2, <2>2 DEF ScannerStarts
  <2>3. CASE ConfirmWake
    <3>1. UNCHANGED stops \/ StartData(cfm.desc.vap)
      BY <2>3 DEF ConfirmWake, flowVars
    <3> QED
      BY <1>2, <1>3, <3>1 DEF Pending
  <2>4. CASE UNCHANGED <<stops, prohibited>>
    BY <1>3, <2>4 DEF Pending
  <2> QED
    BY <2>1, <2>2, <2>3, <2>4, FlowFrame
<1>4. CASE early
  <2>1. Flush => early' \/ FlushBegin
    BY <1>4 DEF Flush, FlushRound, FlushProhibited, FlushFiltered, FlushTake,
           FlushGet, FlushRead, FlushStop, FlushSend, FlushCount, ghosts
  <2>2. early' \/ FlushBegin
    BY <1>4, <2>1, Groups, StutterKeeps, ScannerKeeps, SenderKeeps, ConfirmKeeps,
       KeyKeeps, StationKeeps, EndKeeps
  <2> QED
    BY <2>2 DEF Pending
<1>5. Out' > 0 => Pending'
  BY OutNext
<1>6. CASE Out > 0
  <2>1. ASSUME NEW d \in Descs, Confirm(d)
        PROVE  Pending'
    <3>1. cfm'.pc = "wake" /\ cfm'.res = free /\ UNCHANGED free
      BY <2>1 DEF Confirm
    <3>2. CASE free # 0
      BY <3>1, <3>2 DEF Pending
    <3>3. CASE free = 0
      <4>1. Given' = 1
        BY <3>1 DEF Given, One
      <4>2. free' + Out' + Given' = PoolSize /\ Out' \in Nat
        BY OutNext
      <4>3. Out' > 0
        BY <3>1, <3>3, <4>1, <4>2, OutPool DEF LastInv
      <4> QED
        BY <1>5, <4>3
    <3> QED
      BY <3>2, <3>3
  <2> QED
    BY <1>5, <1>6, <2>1, OutStep
<1>7. CASE cfm.pc = "wake" /\ cfm.res # 0
  <2>1. CASE ConfirmStep
    <3>1. ConfirmWake
      BY <1>7, <2>1 DEF ConfirmStep, ConfirmUsed, ConfirmFree
    <3>2. scheduled' \/ StartData(cfm.desc.vap)
      BY <1>7, <3>1 DEF ConfirmWake
    <3> QED
      BY <1>2, <3>2 DEF Pending
  <2>2. CASE FlushCount \/ UNCHANGED cfm
    <3>1. cfm'.pc = cfm.pc /\ cfm'.res = cfm.res
      BY <1>0, <2>2 DEF FlushCount, CfmTypeOK
    <3> QED
      BY <1>7, <3>1 DEF Pending
  <2>3. ASSUME NEW d \in Descs, Confirm(d)
        PROVE  FALSE
    BY <1>7, <2>3 DEF Confirm
  <2> QED
    BY <2>1, <2>2, <2>3, CfmFrame
<1>8. ASSUME NEW c \in Senders, snd[c].pc = "clone"
      PROVE  Pending'
  <2>1. ASSUME NEW e \in Senders, SenderStep(e)
        PROVE  Pending'
    <3>1. CASE e = c
      <4>1. CloneEnd(c) \/ \E p \in Stations : Clone(c, p)
        BY <1>8, <2>1, <3>1 DEF SenderStep, Transmit, EnqueuePkt, CloneBegin
      <4>2. CASE CloneEnd(c)
        BY <4>2 DEF CloneEnd, Pending
      <4>3. ASSUME NEW p \in Stations, Clone(c, p)
            PROVE  Pending'
        <5>1. snd' = [snd EXCEPT ![c].left = @ \ {p}]
          BY <4>3 DEF Clone
        <5>2. snd'[c].pc = "clone"
          BY <1>0, <1>8, <5>1 DEF SndTypeOK
        <5> QED
          BY <5>2 DEF Pending
      <4> QED
        BY <4>1, <4>2, <4>3
    <3>2. CASE e # c
      <4>1. \E r : snd' = [snd EXCEPT ![e] = r]
        BY <2>1 DEF SenderStep, Transmit, EnqueuePkt, CloneBegin, Clone, CloneEnd
      <4>2. snd'[c] = snd[c]
        BY <1>0, <3>2, <4>1 DEF SndTypeOK
      <4> QED
        BY <1>8, <4>2 DEF Pending
    <3> QED
      BY <3>1, <3>2
  <2>2. CASE UNCHANGED snd
    BY <1>8, <2>2 DEF Pending
  <2> QED
    BY <2>1, <2>2, SndFrame
<1> QED
  BY <1>1, <1>3, <1>4, <1>6, <1>7, <1>8, OutIs DEF Pending

\* An empty list stays empty.
LEMMA KeptEmpty ==
  ASSUME NEW D
  PROVE  Kept(<<>>, D) = <<>>
<1>1. <<>> \in Seq({})
  OBVIOUS
<1>2. /\ Kept(<<>>, D) \in Seq({})
      /\ \A c : Has(Kept(<<>>, D), c) <=> Has(<<>>, c) /\ c \notin D
  BY <1>1, KeptCount
<1>3. \A c : ~Has(Kept(<<>>, D), c)
  BY <1>2 DEF Has
<1> QED
  BY <1>2, <1>3 DEF Has

\* Only senders fill a queue, and what they put in will be flushed.
LEMMA EmptyStep ==
  ASSUME IInv, ~Pending, NEW p \in Peers, NEW a \in ACs, buflist[p][a] = <<>>, [Next]_vars
  PROVE  Pending' \/ buflist'[p][a] = <<>>
<1>0. QueTypeOK /\ FlTypeOK /\ FlInv /\ KeyInv /\ SndInv
  BY DEF IInv, TypeOK, ThreadInv
<1>1. buflist \in [Peers -> [ACs -> Seq(Packets)]]
  BY <1>0 DEF QueTypeOK
<1>2. ASSUME NEW c \in Senders, SenderStep(c)
      PROVE  Pending' \/ UNCHANGED buflist
  <2>1. EnqueuePkt(c) => scheduled' \/ UNCHANGED buflist
    BY DEF EnqueuePkt
  <2>2. CloneEnd(c) => scheduled'
    BY DEF CloneEnd
  <2>3. ASSUME NEW q \in Stations, Clone(c, q)
        PROVE  FALSE
    BY <2>3 DEF Clone, Pending
  <2>4. ASSUME NEW v \in Vaps, NEW b \in ACs, CloneBegin(c, v, b)
        PROVE  UNCHANGED buflist
    BY <2>4 DEF CloneBegin
  <2>5. ASSUME NEW q \in listed \cup {Broadcast}, NEW v \in Vaps,
               NEW k \in {"data", "eapol"}, NEW b \in ACs, Transmit(c, q, v, k, b)
        PROVE  UNCHANGED buflist
    BY <2>5 DEF Transmit
  <2>6. scheduled' \/ UNCHANGED buflist
    BY <1>2, <2>1, <2>2, <2>3, <2>4, <2>5 DEF SenderStep
  <2> QED
    BY <2>6 DEF Pending
<1>3. ASSUME NEW q \in Peers, NEW S, Cancel(q, S)
      PROVE  buflist'[p][a] = <<>>
  <2> DEFINE C == [b \in ACs |-> Kept(buflist[q][b], S)]
  <2>1. buflist' = [buflist EXCEPT ![q] = C]
    BY <1>3 DEF Cancel
  <2>2. buflist'[p] = IF p = q THEN C ELSE buflist[p]
    BY <1>1, <2>1
  <2>3. C[a] = Kept(buflist[q][a], S)
    OBVIOUS
  <2> HIDE DEF C
  <2> QED
    BY <2>2, <2>3, KeptEmpty
<1>4. ASSUME FlushFiltered \/ FlushTake
      PROVE  buflist'[p][a] = <<>>
  <2>1. fl.pc = "peer" /\ Waiting # {}
    BY <1>4 DEF FlushFiltered, FlushTake, RoundEnds
  <2>2. /\ fl.ac \in ACs /\ PeerAt \in Peers
        /\ buflist[PeerAt][fl.ac] \in Seq(Packets) /\ buflist[PeerAt][fl.ac] # <<>>
    BY <1>0, <2>1, AtFacts
  <2> DEFINE r == Tail(buflist[PeerAt][fl.ac])
  <2>3. r \in Seq(Packets)
    BY <2>2
  <2>4. buflist' = [buflist EXCEPT ![PeerAt][fl.ac] = r]
    BY <1>4 DEF FlushFiltered, FlushTake, Pop
  <2> HIDE DEF r
  <2>5. buflist'[p][a] = IF p = PeerAt /\ a = fl.ac THEN r ELSE buflist[p][a]
    BY <1>1, <2>2, <2>3, <2>4, BufUpdate
  <2> QED
    BY <2>2, <2>5
<1>5. Flush => FlushFiltered \/ FlushTake \/ UNCHANGED buflist
  BY DEF Flush, FlushBegin, FlushRound, FlushProhibited, FlushGet, FlushRead, FlushStop,
         FlushSend, FlushCount, queVars
<1>6. KeyStep => (\E q \in Peers : \E S : Cancel(q, S)) \/ UNCHANGED buflist
  <2>1. KeyCancel => key.peer \in Peers /\ Cancel(key.peer, Packets)
    BY <1>0 DEF KeyCancel, KeyInv, Peers
  <2>2. KeyMsg4 \/ KeyFilter \/ KeyWait \/ KeySent => UNCHANGED buflist
    BY DEF KeyMsg4, KeyFilter, KeyWait, KeySent, queVars
  <2> QED
    BY <2>1, <2>2 DEF KeyStep
<1>7. ASSUME NEW q \in Stations, RemoveSta(q)
      PROVE  q \in Peers /\ Cancel(q, Packets)
  BY <1>7 DEF RemoveSta, Peers
<1>8. EndStep => (\E q \in Peers : \E S : Cancel(q, S)) \/ UNCHANGED buflist
  <2>1. CleanVap => \/ Cancel(Broadcast, {k \in Packets : k.vap = disc.vap})
                    \/ UNCHANGED buflist
    BY DEF CleanVap
  <2>2. DisconnectWait \/ (\E v \in Vaps : DisconnectAll(v)) => UNCHANGED buflist
    BY DEF DisconnectWait, DisconnectAll, queVars
  <2>3. Broadcast \in Peers
    BY Constants
  <2> QED
    BY <2>1, <2>2, <2>3 DEF EndStep
<1> QED
  BY <1>2, <1>3, <1>4, <1>5, <1>6, <1>7, <1>8, Groups, StutterKeeps, ScannerKeeps,
     ConfirmKeeps, StationKeeps

\* At the end of a category nothing waits in it, or a station is full and a
\* confirmation will wake the queue.
LEMMA RoundClear ==
  ASSUME IInv, LastInv, RoundInv, ~Pending, FlushRound, ~fl.sent
  PROVE  Clear(fl.ac) \/ early'
<1>0. /\ QueTypeOK /\ PeerTypeOK /\ FlTypeOK /\ FlInv /\ CfmTypeOK /\ CfmInv /\ OrderInv
      /\ UsedMatches
  BY DEF IInv, TypeOK, ThreadInv
<1>1. fl.pc = "peer" /\ fl.pos = 1 /\ fl.ac \in ACs /\ RoundEnds
  BY <1>0 DEF FlushRound, RoundInv, FlInv
<1>2. CASE Waiting = {}
  <2> SUFFICES ASSUME NEW p \in listed \cup {Broadcast} PROVE buflist[p][fl.ac] = <<>>
    BY DEF Clear
  <2>1. Has(order[fl.ac], p)
    BY <1>0, <1>1 DEF OrderInv
  <2>2. PICK i \in 1 .. Len(order[fl.ac]) : order[fl.ac][i] = p
    BY <2>1 DEF Has
  <2> QED
    BY <1>1, <1>2, <2>2 DEF Waiting
<1>3. CASE Waiting # {}
  <2> DEFINE p == PeerAt
  <2>1. p \in Peers /\ Full(p)
    BY <1>0, <1>1, <1>3, AtFacts DEF RoundEnds
  <2>2. used[p] \in Int /\ limit[p] \in Nat /\ limit[p] >= 1
    BY <1>0, <2>1, Constants DEF PeerTypeOK
  <2>3. used[p] + Sent(p) = InHw(p) + Back(p)
    BY <1>0, <2>1 DEF UsedMatches, Sent, Back
  <2>4. Sent(p) = 0 /\ InHw(p) = 0
    <3>1. Sent(p) = 0
      BY <1>1 DEF Sent, One
    <3>2. Busy = {}
      BY DEF Pending
    <3>3. Cardinality(Mine(hw, p)) \in Nat /\ ~(Cardinality(Mine(hw, p)) > 0)
      BY <3>2, BusyIs, MineBusy, BusyFinite
    <3>4. InHw(p) = Cardinality(Mine(hw, p))
      BY BusyIs
    <3> QED
      BY <3>1, <3>3, <3>4
  <2>5. Back(p) # 0
    <3>1. Back(p) \in {0, 1}
      BY DEF Back, One
    <3>2. ~(used[p] \in 0 .. limit[p] - 1)
      BY <2>1 DEF Full
    <3> HIDE DEF p
    <3> QED
      BY <2>2, <2>3, <2>4, <3>1, <3>2
  <2>6. cfm.pc \in {"wake", "used"} /\ cfm.desc.peer = p
    BY <2>5 DEF Back, One
  <2>7. cfm.pc # "wake"
    <3>1. SUFFICES ASSUME cfm.pc = "wake" PROVE FALSE
      OBVIOUS
    <3>2. cfm.res = 0
      BY <3>1 DEF Pending
    <3>3. free + 2 <= PoolSize /\ Given = 1
      BY <3>1, <3>2 DEF LastInv, Given, One
    <3>4. Out > 0
      BY <3>3, OutPool, OutIs
    <3> QED
      BY <3>4, OutIs DEF Pending
  <2>8. early'
    BY <1>3, <2>6, <2>7 DEF FlushRound
  <2> QED
    BY <2>8
<1> QED
  BY <1>2, <1>3

\* The categories the tasklet has left stay empty until a sender fills one.
LEMMA ClearStep ==
  ASSUME IInv, LastInv, RoundInv, ~Pending, AllClear, [Next]_vars
  PROVE  Pending' \/ AllClear'
<1>0. /\ QueTypeOK /\ PeerTypeOK /\ FlTypeOK /\ FlInv /\ OrderInv
      /\ prohibited = (stops # {}) /\ Broadcast \in Peers
  BY Constants DEF IInv, TypeOK, ThreadInv, HwTypeOK
<1>1. SUFFICES ASSUME ~Pending', NEW a \in ACs, Done(a)'
               PROVE  Clear(a)'
  BY DEF AllClear
<1>2. Done(a) \/ Clear(a)
  <2>1. CASE UNCHANGED fl
    BY <1>1, <2>1 DEF Done
  <2>2. CASE FlushRound
    <3>1. fl.pc = "peer" /\ fl.ac \in ACs
      BY <1>0, <2>2 DEF FlushRound, FlInv
    <3>2. CASE fl.sent
      <4>1. fl'.pc = "peer" /\ fl'.ac = fl.ac
        BY <1>0, <2>2, <3>1, <3>2 DEF FlushRound, FlTypeOK
      <4> QED
        BY <1>1, <4>1 DEF Done
    <3>3. CASE ~fl.sent
      <4>1. Clear(fl.ac)
        <5>1. ~early'
          BY <1>1 DEF Pending
        <5> QED
          BY <2>2, <3>3, <5>1, RoundClear
      <4>2. a >= fl.ac
        <5>1. CASE fl.ac = 1
          BY <5>1, Constants DEF ACs
        <5>2. CASE fl.ac # 1
          <6>1. fl'.pc = "peer" /\ fl'.ac = fl.ac - 1
            BY <1>0, <2>2, <3>1, <3>3, <5>2 DEF FlushRound, FlTypeOK
          <6>2. a > fl.ac - 1
            BY <1>1, <6>1 DEF Done
          <6> QED
            BY <3>1, <6>2, Constants DEF ACs
        <5> QED
          BY <5>1, <5>2
      <4>3. a = fl.ac \/ a > fl.ac
        BY <3>1, <4>2, Constants DEF ACs
      <4> QED
        BY <4>1, <4>3 DEF Done
    <3> QED
      BY <3>2, <3>3
  <2>3. CASE FlushBegin
    <3>1. fl.pc = "idle"
      BY <2>3 DEF FlushBegin, LockFree
    <3> QED
      BY <3>1 DEF Done
  <2>4. CASE FlushProhibited
    BY <1>0, <2>4 DEF FlushProhibited, Pending
  <2>5. CASE FlushFiltered \/ FlushTake \/ FlushGet \/ FlushRead \/ FlushStop
    <3>1. fl'.pc # "idle" /\ fl'.ac = fl.ac
      BY <1>0, <2>5 DEF FlushFiltered, FlushTake, FlushGet, FlushRead, FlushStop, FlTypeOK
    <3> QED
      BY <1>1, <3>1 DEF Done
  <2>6. CASE FlushSend \/ FlushCount
    <3>1. fl' = NextPeer \/ fl' = [fl EXCEPT !.pc = "count"]
      BY <2>6 DEF FlushSend, FlushCount
    <3>2. fl'.pc # "idle" /\ fl'.ac = fl.ac
      BY <1>0, <3>1 DEF FlTypeOK, NextPeer
    <3> QED
      BY <1>1, <3>2 DEF Done
  <2> QED
    BY <2>1, <2>2, <2>3, <2>4, <2>5, <2>6, FlFrame DEF Flush
<1>3. Clear(a)
  BY <1>2 DEF AllClear
<1>4. ASSUME NEW p \in listed' \cup {Broadcast}
      PROVE  p \in Peers /\ buflist[p][a] = <<>>
  <2>1. CASE p \in listed \cup {Broadcast}
    BY <1>0, <1>3, <2>1 DEF Clear, PeerTypeOK, Peers
  <2>2. CASE p \notin listed \cup {Broadcast}
    <3>1. \E q \in Stations : AddSta(q) \/ RemoveSta(q)
      <4>1. FlushRound => UNCHANGED listed
        BY DEF FlushRound, peerVars
      <4> QED
        BY <1>4, <2>2, <4>1, OrderFrame
    <3>2. ASSUME NEW q \in Stations, RemoveSta(q)
          PROVE  FALSE
      BY <1>4, <2>2, <3>2 DEF RemoveSta
    <3>3. ASSUME NEW q \in Stations, AddSta(q)
          PROVE  p = q /\ \A b \in ACs : buflist[q][b] = <<>>
      BY <1>4, <2>2, <3>3 DEF AddSta, Unreferenced
    <3> QED
      BY <3>1, <3>2, <3>3 DEF Peers
  <2> QED
    BY <2>1, <2>2
<1> SUFFICES ASSUME NEW p \in listed' \cup {Broadcast} PROVE buflist'[p][a] = <<>>
  BY DEF Clear
<1> QED
  BY <1>1, <1>4, EmptyStep

\* Together.
LEMMA ServedStep ==
  ASSUME TwoDescriptors, IInv, IInv', LastInv, LastInv', RoundInv, ServedInv, [Next]_vars
  PROVE  ServedInv'
<1>1. CASE FlushBegin
  <2>1. fl'.pc = "peer" /\ fl'.ac = NACs
    BY <1>1 DEF FlushBegin, FlIdle
  <2>2. \A a \in ACs : ~(a > NACs)
    BY Constants DEF ACs
  <2> QED
    BY <2>1, <2>2 DEF ServedInv, AllClear, Done
<1>2. CASE Pending
  BY <1>1, <1>2, PendingStep DEF ServedInv
<1>3. CASE ~Pending
  BY <1>3, ClearStep DEF ServedInv
<1> QED
  BY <1>2, <1>3

\* When nothing is under way and the flow is not stopped, no packet of a known
\* station is left behind in its queue: whatever the order in which senders,
\* tasklet, confirmations and requests come, somebody has flushed after the last
\* packet was queued (the case of `early` apart).  The driver needs more than one
\* descriptor for this.
THEOREM ServedCorrect == TwoDescriptors => (Spec => []Served)
<1> SUFFICES ASSUME TwoDescriptors PROVE Spec => []Served
  OBVIOUS
<1> DEFINE J == LastInv /\ RoundInv /\ ServedInv
<1>1. Init => J
  <2> SUFFICES ASSUME Init PROVE J
    OBVIOUS
  <2>1. cfm.pc = "idle" /\ fl.pc = "idle"
    BY DEF Init, CfmIdle, FlIdle
  <2>2. \A p \in Peers, a \in ACs : buflist[p][a] = <<>>
    BY DEF Init
  <2>3. listed \cup {Broadcast} \subseteq Peers
    BY DEF Init, Peers
  <2>4. ServedInv
    BY <2>2, <2>3 DEF ServedInv, AllClear, Clear
  <2> QED
    BY <2>1, <2>4 DEF LastInv, RoundInv
<1>2. J /\ IInv /\ IInv' /\ [Next]_vars => J'
  <2> SUFFICES ASSUME J, IInv, IInv', [Next]_vars PROVE J'
    OBVIOUS
  <2>1. FlTypeOK
    BY DEF IInv, TypeOK
  <2>2. LastInv' /\ RoundInv'
    BY <2>1, LastStep, RoundStep
  <2>3. ServedInv'
    BY <2>2, ServedStep
  <2> QED
    BY <2>2, <2>3
<1>3. J /\ IInv => Served
  <2> SUFFICES ASSUME J, IInv, Quiet, stops = {}, ~early,
                      NEW p \in listed \cup {Broadcast}, NEW a \in ACs
               PROVE  buflist[p][a] = <<>>
    BY DEF Served
  <2>1. /\ ~scheduled /\ fl.pc = "idle" /\ cfm.pc = "idle" /\ \A d \in Descs : hw[d] = 0
        /\ \A c \in Senders : snd[c].pc = "idle"
    BY DEF Quiet
  <2>2. ~fl.msg
    BY <2>1 DEF IInv, ThreadInv, FlInv
  <2>3. Busy = {}
    <3>1. \A x \in Descs \X (1 .. PoolSize) : x[1] \in Descs /\ x[2] \in 1 .. PoolSize
      OBVIOUS
    <3> QED
      BY <2>1, <3>1, Constants DEF Busy
  <2>4. ~Pending
    BY <2>1, <2>2, <2>3 DEF Pending
  <2>5. AllClear
    BY <2>4 DEF ServedInv
  <2> QED
    BY <2>1, <2>5 DEF AllClear, Done, Clear
<1> HIDE DEF J
<1> QED
  BY <1>1, <1>2, <1>3, Invariance, PTL DEF Spec

-----------------------------------------------------------------------------
(***************************************************************************)
(* The sizes of the queues.  Fits says of every category what SizeMatches    *)
(* says, in totals that one step changes at one place: each action moves a   *)
(* packet between a sender, one queue and the tasklet, or releases it.       *)
(***************************************************************************)

\* Queues b, the tasklet f and the senders s: the packets of T that wait in the
\* category a, that the tasklet has, and the senders that are at pc.
Bufs == [Peers -> [ACs -> Seq(Packets)]]
WaitOf(b, a, T) ==
  {x \in Peers \X Nat : x[2] \in 1 .. Len(b[x[1]][a]) /\ b[x[1]][a][x[2]] \in T}
Hand(f, a, T) == One(f.pkt \in T /\ f.ac = a)
SendersAt(s, a, pc) == {c \in Senders : s[c].pc = pc /\ s[c].ac = a}

\* Whether the sender with the record r is at pc in a, as a number.
Is(r, a, pc) == One(r.pc = pc /\ r.ac = a)

\* Those of one station.
OfPeer(b, p, a, T) == {x \in WaitOf(b, a, T) : x[1] = p}

\* They are as many as its queue has.
LEMMA OfPeerCount ==
  ASSUME NEW b \in Bufs, NEW p \in Peers, NEW a \in ACs, NEW T
  PROVE  /\ IsFiniteSet(OfPeer(b, p, a, T))
         /\ Cardinality(OfPeer(b, p, a, T)) = Count(b[p][a], T)
         /\ Count(b[p][a], T) \in Nat
<1> DEFINE q == b[p][a]
           I == {i \in 1 .. Len(q) : q[i] \in T}
           O == OfPeer(b, p, a, T)
           f == [i \in I |-> <<p, i>>]
<1>1. q \in Seq(Packets)
  BY DEF Bufs
<1>2. IsFiniteSet(I) /\ Count(q, T) \in Nat /\ Count(q, T) = Cardinality(I)
  BY <1>1, CountType DEF Count
<1>3. \A i \in I : i \in Nat /\ <<p, i>> \in O
  BY <1>1 DEF OfPeer, WaitOf
<1>4. \A x \in O : x[2] \in I /\ x = <<p, x[2]>>
  BY DEF OfPeer, WaitOf
<1> HIDE DEF I, O
<1>5. f \in [I -> O]
  BY <1>3
<1>6. \A x, y \in I : f[x] = f[y] => x = y
  OBVIOUS
<1>7. \A x \in O : \E i \in I : f[i] = x
  BY <1>4
<1> HIDE DEF f
<1>8. IsFiniteSet(O) /\ Cardinality(O) = Cardinality(I)
  BY <1>2, <1>5, <1>6, <1>7, SameSize
<1> QED
  BY <1>2, <1>8 DEF O

\* Finitely many wait: if it were otherwise for some set of stations, it would
\* be for one of the smallest, and for it without one of its stations.
LEMMA WaitFinite ==
  ASSUME NEW b \in Bufs, NEW a \in ACs, NEW T
  PROVE  /\ IsFiniteSet(WaitOf(b, a, T)) /\ Cardinality(WaitOf(b, a, T)) \in Nat
<1> DEFINE W == WaitOf(b, a, T)
           In(Q) == {x \in W : x[1] \in Q}
           Bad == {Q \in SUBSET Peers : ~IsFiniteSet(In(Q))}
           Sizes == {Cardinality(Q) : Q \in Bad}
<1>1. IsFiniteSet(Peers)
  BY StationsAssumption, FS_AddElement DEF Peers
<1>2. \A Q \in SUBSET Peers : IsFiniteSet(Q) /\ Cardinality(Q) \in Nat
  BY <1>1, FS_Subset, FS_CardinalityType
<1>3. Bad = {}
  <2> SUFFICES ASSUME Bad # {} PROVE FALSE
    OBVIOUS
  <2>1. Sizes \in SUBSET Nat /\ Sizes # {}
    BY <1>2
  <2>2. PICK n \in Sizes : \A m \in Sizes : n <= m
    BY <2>1, LeastNat
  <2>3. PICK Q \in Bad : Cardinality(Q) = n
    BY <2>2
  <2>4. Q # {}
    <3>1. In({}) = {}
      OBVIOUS
    <3> HIDE DEF In
    <3> QED
      BY <2>3, <3>1, FS_EmptySet
  <2>5. PICK p \in Q : TRUE
    BY <2>4
  <2> DEFINE R == Q \ {p}
  <2>6. p \in Peers /\ R \in SUBSET Peers /\ Q \in SUBSET Peers
    BY <2>3, <2>5
  <2>7. Cardinality(R) = n - 1 /\ n \in Nat
    BY <1>2, <2>3, <2>5, <2>6, FS_RemoveElement
  <2>8. Cardinality(R) \notin Sizes
    BY <2>2, <2>7
  <2>9. IsFiniteSet(In(R))
    BY <2>6, <2>8
  <2>10. In(Q) = In(R) \cup OfPeer(b, p, a, T)
    BY <2>5 DEF OfPeer
  <2>11. IsFiniteSet(OfPeer(b, p, a, T))
    BY <2>6, OfPeerCount
  <2>12. ~IsFiniteSet(In(Q))
    BY <2>3
  <2> HIDE DEF In, R
  <2> QED
    BY <2>9, <2>10, <2>11, <2>12, FS_Union
<1>4. W = In(Peers)
  BY DEF WaitOf
<1>5. IsFiniteSet(In(Peers))
  BY <1>3
<1> QED
  BY <1>4, <1>5, FS_CardinalityType

\* Two finite sets without a common member.
LEMMA Disjoint ==
  ASSUME NEW S, NEW R, IsFiniteSet(S), IsFiniteSet(R), S \cap R = {}
  PROVE  Cardinality(S \cup R) = Cardinality(S) + Cardinality(R)
<1>1. Cardinality(S) \in Nat /\ Cardinality(R) \in Nat
  BY FS_CardinalityType
<1>2. Cardinality(S \cap R) = 0
  BY FS_EmptySet
<1>3. Cardinality(S \cup R) = Cardinality(S) + Cardinality(R) - Cardinality(S \cap R)
  BY FS_Union
<1> QED
  BY <1>1, <1>2, <1>3

\* One station's queues change.
LEMMA WaitPut ==
  ASSUME NEW b \in Bufs, NEW g \in Bufs, NEW p \in Peers, NEW a \in ACs, NEW T,
         \A q \in Peers : q # p => g[q][a] = b[q][a]
  PROVE  Cardinality(WaitOf(g, a, T)) =
           Cardinality(WaitOf(b, a, T)) + Count(g[p][a], T) - Count(b[p][a], T)
<1> DEFINE R == {x \in WaitOf(b, a, T) : x[1] # p}
<1>1. R = {x \in WaitOf(g, a, T) : x[1] # p}
  BY DEF WaitOf
<1>2. /\ WaitOf(b, a, T) = R \cup OfPeer(b, p, a, T)
      /\ R \cap OfPeer(b, p, a, T) = {}
  BY DEF OfPeer
<1>3. /\ WaitOf(g, a, T) = R \cup OfPeer(g, p, a, T)
      /\ R \cap OfPeer(g, p, a, T) = {}
  BY <1>1 DEF OfPeer
<1>4. IsFiniteSet(R) /\ Cardinality(R) \in Nat
  BY WaitFinite, FS_Subset, FS_CardinalityType
<1>5. /\ IsFiniteSet(OfPeer(b, p, a, T))
      /\ Cardinality(OfPeer(b, p, a, T)) = Count(b[p][a], T)
      /\ Count(b[p][a], T) \in Nat
      /\ IsFiniteSet(OfPeer(g, p, a, T))
      /\ Cardinality(OfPeer(g, p, a, T)) = Count(g[p][a], T)
      /\ Count(g[p][a], T) \in Nat
  BY OfPeerCount
<1> HIDE DEF R
<1>6. Cardinality(WaitOf(b, a, T)) = Cardinality(R) + Count(b[p][a], T)
  BY <1>2, <1>4, <1>5, Disjoint
<1>7. Cardinality(WaitOf(g, a, T)) = Cardinality(R) + Count(g[p][a], T)
  BY <1>3, <1>4, <1>5, Disjoint
<1> QED
  BY <1>4, <1>5, <1>6, <1>7

\* One sender moves.
SenderPut(s, r, c, a, pc) ==
  /\ Cardinality(SendersAt(s, a, pc)) \in Nat /\ Cardinality(SendersAt(r, a, pc)) \in Nat
  /\ Cardinality(SendersAt(r, a, pc)) =
       Cardinality(SendersAt(s, a, pc)) + Is(r[c], a, pc) - Is(s[c], a, pc)

\* What that does to the number of senders at pc.
LEMMA SendersPut ==
  ASSUME NEW s, NEW r, NEW c \in Senders, NEW a, NEW pc,
         \A e \in Senders : e # c => r[e] = s[e]
  PROVE  SenderPut(s, r, c, a, pc)
<1> DEFINE R == SendersAt(s, a, pc) \ {c}
           S == SendersAt(s, a, pc)
           Q == SendersAt(r, a, pc)
<1>1. IsFiniteSet(S) /\ IsFiniteSet(Q) /\ IsFiniteSet(R)
  BY UsersAssumption, FS_Subset DEF SendersAt
<1>2. Cardinality(S) \in Nat /\ Cardinality(Q) \in Nat /\ Cardinality(R) \in Nat
  BY <1>1, FS_CardinalityType
<1>3. R = Q \ {c}
  BY DEF SendersAt
<1>4. /\ c \in S <=> s[c].pc = pc /\ s[c].ac = a
      /\ c \in Q <=> r[c].pc = pc /\ r[c].ac = a
  BY DEF SendersAt
<1> HIDE DEF S, Q
<1>5. Cardinality(R) = IF c \in S THEN Cardinality(S) - 1 ELSE Cardinality(S)
  BY <1>1, FS_RemoveElement DEF S
<1>6. Cardinality(R) = IF c \in Q THEN Cardinality(Q) - 1 ELSE Cardinality(Q)
  BY <1>1, <1>3, FS_RemoveElement
<1>7. Cardinality(Q) = Cardinality(S) + One(c \in Q) - One(c \in S)
  BY <1>2, <1>5, <1>6 DEF One
<1>8. One(c \in S) = Is(s[c], a, pc) /\ One(c \in Q) = Is(r[c], a, pc)
  BY <1>4 DEF One, Is
<1> QED
  BY <1>2, <1>7, <1>8 DEF S, Q, SenderPut

-----------------------------------------------------------------------------
\* All packets of T of each category, with the senders at pc.
Total(b, f, s, T, pc) ==
  [a \in ACs |-> Cardinality(WaitOf(b, a, T)) + Hand(f, a, T) + Cardinality(SendersAt(s, a, pc))]

\* They are numbers.
LEMMA TotalType ==
  ASSUME NEW b \in Bufs, NEW f, NEW s, NEW T, NEW pc
  PROVE  Total(b, f, s, T, pc) \in [ACs -> Nat]
<1>1. \A a \in ACs : Cardinality(WaitOf(b, a, T)) \in Nat
  BY WaitFinite
<1>2. \A a \in ACs : Hand(f, a, T) \in Nat
  BY DEF Hand, One
<1>3. \A a \in ACs : Cardinality(SendersAt(s, a, pc)) \in Nat
  <2> TAKE a \in ACs
  <2>1. IsFiniteSet(SendersAt(s, a, pc))
    BY UsersAssumption, FS_Subset DEF SendersAt
  <2> QED
    BY <2>1, FS_CardinalityType
<1> QED
  BY <1>1, <1>2, <1>3 DEF Total

\* One station's queues and the tasklet change.
FlushMoved(b, g, p, f, h, s, T, pc, a) ==
  Total(g, h, s, T, pc)[a] =
    Total(b, f, s, T, pc)[a] + (Count(g[p][a], T) - Count(b[p][a], T))
      + (Hand(h, a, T) - Hand(f, a, T))

\* What that does to the total.
LEMMA TotalFlush ==
  ASSUME NEW b \in Bufs, NEW g \in Bufs, NEW p \in Peers, NEW f, NEW h, NEW s, NEW T, NEW pc,
         NEW a \in ACs, \A q \in Peers : q # p => g[q][a] = b[q][a]
  PROVE  FlushMoved(b, g, p, f, h, s, T, pc, a)
<1> DEFINE w == Cardinality(WaitOf(b, a, T))
           v == Cardinality(WaitOf(g, a, T))
           i == Hand(f, a, T)
           j == Hand(h, a, T)
           e == Cardinality(SendersAt(s, a, pc))
           x == Count(b[p][a], T)
           y == Count(g[p][a], T)
<1>1. v = w + y - x
  BY WaitPut
<1>2. w \in Nat /\ v \in Nat
  BY WaitFinite
<1>3. i \in Nat /\ j \in Nat
  BY DEF Hand, One
<1>4. x \in Nat /\ y \in Nat
  BY OfPeerCount
<1>5. e \in Nat
  <2>1. IsFiniteSet(SendersAt(s, a, pc))
    BY UsersAssumption, FS_Subset DEF SendersAt
  <2> QED
    BY <2>1, FS_CardinalityType
<1>6. Total(g, h, s, T, pc)[a] = v + j + e /\ Total(b, f, s, T, pc)[a] = w + i + e
  BY DEF Total
<1> HIDE DEF w, v, i, j, e, x, y
<1>7. v + j + e = w + i + e + (y - x) + (j - i)
  BY <1>1, <1>2, <1>3, <1>4, <1>5
<1> QED
  BY <1>6, <1>7 DEF x, y, i, j, FlushMoved

\* One station's queues and a sender change.
SenderMoved(b, g, p, f, s, r, c, T, pc, a) ==
  Total(g, f, r, T, pc)[a] =
    Total(b, f, s, T, pc)[a] + (Count(g[p][a], T) - Count(b[p][a], T))
      + (Is(r[c], a, pc) - Is(s[c], a, pc))

\* What that does to the total.
LEMMA TotalSender ==
  ASSUME NEW b \in Bufs, NEW g \in Bufs, NEW p \in Peers, NEW f, NEW s, NEW r, NEW T, NEW pc,
         NEW a \in ACs, \A q \in Peers : q # p => g[q][a] = b[q][a],
         NEW c \in Senders, \A e \in Senders : e # c => r[e] = s[e]
  PROVE  SenderMoved(b, g, p, f, s, r, c, T, pc, a)
<1> DEFINE w == Cardinality(WaitOf(b, a, T))
           v == Cardinality(WaitOf(g, a, T))
           i == Hand(f, a, T)
           d == Cardinality(SendersAt(s, a, pc))
           e == Cardinality(SendersAt(r, a, pc))
           x == Count(b[p][a], T)
           y == Count(g[p][a], T)
           k == Is(s[c], a, pc)
           l == Is(r[c], a, pc)
<1>1. v = w + y - x
  BY WaitPut
<1>2. w \in Nat /\ v \in Nat
  BY WaitFinite
<1>3. i \in Nat /\ k \in Nat /\ l \in Nat
  BY DEF Hand, One, Is
<1>4. x \in Nat /\ y \in Nat
  BY OfPeerCount
<1>5. d \in Nat /\ e \in Nat /\ e = d + l - k
  <2>1. SenderPut(s, r, c, a, pc)
    BY SendersPut
  <2> QED
    BY <2>1 DEF SenderPut
<1>6. Total(g, f, r, T, pc)[a] = v + i + e /\ Total(b, f, s, T, pc)[a] = w + i + d
  BY DEF Total
<1> HIDE DEF w, v, i, d, e, x, y, k, l
<1>7. v + i + e = w + i + d + (y - x) + (l - k)
  BY <1>1, <1>2, <1>3, <1>4, <1>5
<1> QED
  BY <1>6, <1>7 DEF x, y, k, l, SenderMoved

-----------------------------------------------------------------------------
\* The shared part e of the clones and the sizes z fit the clones n and the
\* other packets m of each category.
MatchOf(e, z, n, m) ==
  /\ e.refs = n[e.ac]
  /\ \A a \in ACs : a # e.ac => n[a] = 0
  /\ \A a \in ACs : z[a] = m[a] + One(e.refs > 0 /\ e.ac = a)

\* The clones of each category with the senders that make them, the other packets
\* with those that are about to be queued, and the invariant.
NumClones == Total(buflist, fl, snd, Clones, "clone")
NumPlain == Total(buflist, fl, snd, Plain, "queue")
SizeInv == stale \/ MatchOf(ext, size, NumClones, NumPlain)

\* If packets are released that were there, they fit afterwards.
LEMMA Released ==
  ASSUME QueTypeOK, NEW B \in [ACs -> Seq(Packets)], Release(B),
         NEW n \in [ACs -> Nat], NEW m \in [ACs -> Nat],
         NEW n1 \in [ACs -> Nat], NEW m1 \in [ACs -> Nat],
         \A a \in ACs : n1[a] = n[a] - Count(B[a], Clones),
         \A a \in ACs : m1[a] = m[a] - Count(B[a], Plain),
         MatchOf(ext, size, n, m)
  PROVE  MatchOf(ext', size', n1, m1)
<1> DEFINE k == Count(B[ext.ac], Clones)
           last == k > 0 /\ ext.refs = k
           x(a) == Count(B[a], Clones)
           y(a) == Count(B[a], Plain)
<1>1. ext \in [refs : Int, ac : ACs] /\ size \in [ACs -> Int]
  BY DEF QueTypeOK
<1>2. k \in Nat /\ \A a \in ACs : x(a) \in Nat /\ y(a) \in Nat
  BY <1>1, CountType
<1>3. ext'.refs = ext.refs - k /\ ext'.ac = ext.ac
  <2>1. ext' = [ext EXCEPT !.refs = @ - k]
    BY DEF Release
  <2> QED
    BY <1>1, <2>1
<1>4. \A a \in ACs : size'[a] = size[a] - y(a) - (IF last /\ a = ext.ac THEN 1 ELSE 0)
  BY DEF Release
<1>5. n1[ext.ac] = n[ext.ac] - k /\ \A a \in ACs : n1[a] = n[a] - x(a) /\ m1[a] = m[a] - y(a)
  BY <1>1
<1> HIDE DEF k, x, y
<1>6. ext.refs = n[ext.ac] /\ n[ext.ac] \in Nat /\ n1[ext.ac] \in Nat
  BY <1>1 DEF MatchOf
<1>7. ext'.refs = n1[ext'.ac]
  BY <1>3, <1>5, <1>6
<1>8. \A a \in ACs : a # ext'.ac => n1[a] = 0
  <2> SUFFICES ASSUME NEW a \in ACs, a # ext.ac PROVE n1[a] = 0
    BY <1>3
  <2>1. n[a] = 0 /\ n1[a] = n[a] - x(a) /\ x(a) \in Nat /\ n1[a] \in Nat
    BY <1>2, <1>5 DEF MatchOf
  <2> QED
    BY <2>1
<1>9. \A a \in ACs : size'[a] = m1[a] + One(ext'.refs > 0 /\ ext'.ac = a)
  <2> SUFFICES ASSUME NEW a \in ACs
               PROVE  size'[a] = m1[a] + One(ext'.refs > 0 /\ ext'.ac = a)
    OBVIOUS
  <2>1. size[a] = m[a] + One(ext.refs > 0 /\ ext.ac = a)
    BY DEF MatchOf
  <2>2. m1[a] = m[a] - y(a) /\ y(a) \in Nat /\ m[a] \in Nat /\ m1[a] \in Nat
    BY <1>2, <1>5
  <2>3. CASE a # ext.ac
    BY <1>3, <1>4, <2>1, <2>2, <2>3 DEF One
  <2>4. CASE a = ext.ac
    <3>1. CASE ext.refs = k
      BY <1>2, <1>3, <1>4, <1>6, <2>1, <2>2, <2>4, <3>1 DEF One
    <3>2. CASE ext.refs # k
      <4>0. ext.refs \in Int /\ ext.refs - k \in Nat /\ k \in Nat
        BY <1>2, <1>5, <1>6
      <4>1. ext.refs > 0 /\ ext'.refs > 0 /\ ~last
        BY <1>3, <3>2, <4>0
      <4> QED
        BY <1>3, <1>4, <2>1, <2>2, <2>4, <4>1 DEF One
    <3> QED
      BY <3>1, <3>2
  <2> QED
    BY <2>3, <2>4
<1> QED
  BY <1>7, <1>8, <1>9 DEF MatchOf

\* The same for one packet.
LEMMA ReleasedOne ==
  ASSUME QueTypeOK, NEW c \in ACs, NEW k \in Packets, ReleaseOne(c, k),
         NEW n \in [ACs -> Nat], NEW m \in [ACs -> Nat],
         NEW n1 \in [ACs -> Nat], NEW m1 \in [ACs -> Nat],
         \A a \in ACs : n1[a] = n[a] - One(k \in Clones /\ c = a),
         \A a \in ACs : m1[a] = m[a] - One(k \in Plain /\ c = a),
         MatchOf(ext, size, n, m)
  PROVE  MatchOf(ext', size', n1, m1)
<1> DEFINE B == [a \in ACs |-> IF a = c THEN <<k>> ELSE <<>>]
<1>1. B \in [ACs -> Seq(Packets)] /\ Release(B)
  BY DEF ReleaseOne
<1>2. \A a \in ACs : /\ Count(B[a], Clones) = One(k \in Clones /\ c = a)
                     /\ Count(B[a], Plain) = One(k \in Plain /\ c = a)
  <2> TAKE a \in ACs
  <2>1. CASE a = c
    <3>1. B[a] = <<k>>
      BY <2>1
    <3> HIDE DEF B
    <3> QED
      BY <2>1, <3>1, CountOne DEF One
  <2>2. CASE a # c
    <3>1. B[a] = <<>>
      BY <2>2
    <3> HIDE DEF B
    <3> QED
      BY <2>2, <3>1, CountOne DEF One
  <2> QED
    BY <2>1, <2>2
<1> HIDE DEF B
<1>3. \A a \in ACs : n1[a] = n[a] - Count(B[a], Clones)
  BY <1>2
<1>4. \A a \in ACs : m1[a] = m[a] - Count(B[a], Plain)
  BY <1>2
<1> QED
  BY <1>1, <1>3, <1>4, Released

\* Nothing changes.
LEMMA MatchKept ==
  ASSUME NEW e, e.ac \in ACs, NEW z, NEW n, NEW m, NEW n1, NEW m1,
         \A a \in ACs : n1[a] = n[a] /\ m1[a] = m[a],
         MatchOf(e, z, n, m)
  PROVE  MatchOf(e, z, n1, m1)
BY DEF MatchOf

\* As many ordinary packets come or go as the size says.
LEMMA MatchMoved ==
  ASSUME NEW e, e.ac \in ACs, NEW z \in [ACs -> Int], NEW z1, NEW n, NEW n1,
         NEW m \in [ACs -> Nat], NEW m1 \in [ACs -> Nat],
         \A a \in ACs : n1[a] = n[a],
         \A a \in ACs : z1[a] = z[a] + (m1[a] - m[a]),
         MatchOf(e, z, n, m)
  PROVE  MatchOf(e, z1, n1, m1)
<1>1. \A a \in ACs : z1[a] = m1[a] + One(e.refs > 0 /\ e.ac = a)
  <2> TAKE a \in ACs
  <2>1. z[a] = m[a] + One(e.refs > 0 /\ e.ac = a)
    BY DEF MatchOf
  <2>2. m[a] \in Nat /\ m1[a] \in Nat /\ z1[a] = z[a] + (m1[a] - m[a])
    OBVIOUS
  <2> QED
    BY <2>1, <2>2 DEF One
<1> QED
  BY <1>1 DEF MatchOf

\* The first sender of a multicast begins, and its category becomes the one of
\* the shared part.
LEMMA MatchBegun ==
  ASSUME NEW e, e.ac \in ACs, e.refs = 0, NEW z \in [ACs -> Int], NEW z1,
         NEW n, NEW n1, NEW m \in [ACs -> Nat], NEW m1, NEW e1, NEW c \in ACs,
         e1.refs = 1, e1.ac = c,
         \A a \in ACs : n1[a] = n[a] + One(c = a),
         \A a \in ACs : m1[a] = m[a],
         \A a \in ACs : z1[a] = z[a] + One(c = a),
         MatchOf(e, z, n, m)
  PROVE  MatchOf(e1, z1, n1, m1)
<1>1. \A a \in ACs : n[a] = 0 /\ z[a] = m[a] /\ m[a] \in Nat
  BY DEF MatchOf, One
<1>2. \A a \in ACs : n1[a] = One(c = a)
  BY <1>1 DEF One
<1>3. \A a \in ACs : z1[a] = m1[a] + One(e1.refs > 0 /\ e1.ac = a)
  BY <1>1 DEF One
<1> QED
  BY <1>2, <1>3 DEF MatchOf, One

\* One more clone of a multicast that has some.
LEMMA MatchCloned ==
  ASSUME NEW e, e.ac \in ACs, NEW z, NEW n \in [ACs -> Nat], NEW n1, NEW m, NEW m1,
         NEW e1, NEW c \in ACs, n[c] > 0,
         e1.refs = e.refs + 1, e1.ac = e.ac,
         \A a \in ACs : n1[a] = n[a] + One(c = a),
         \A a \in ACs : m1[a] = m[a],
         MatchOf(e, z, n, m)
  PROVE  MatchOf(e1, z, n1, m1)
<1>1. c = e.ac /\ e.refs = n[e.ac] /\ n[e.ac] \in Nat /\ e.refs > 0
  BY DEF MatchOf
<1>2. \A a \in ACs : a # e.ac => n[a] = 0 /\ n1[a] = 0
  BY <1>1 DEF MatchOf, One
<1>3. e1.refs = n1[e1.ac] /\ e1.refs > 0
  BY <1>1 DEF One
<1>4. \A a \in ACs : z[a] = m1[a] + One(e1.refs > 0 /\ e1.ac = a)
  BY <1>1, <1>3 DEF MatchOf, One
<1> QED
  BY <1>2, <1>3, <1>4 DEF MatchOf

\* A sender at pc is counted.
LEMMA TotalSome ==
  ASSUME NEW b \in Bufs, NEW f, NEW s, NEW T, NEW pc, NEW c \in Senders,
         s[c].pc = pc, s[c].ac \in ACs
  PROVE  Total(b, f, s, T, pc)[s[c].ac] > 0
<1> DEFINE a == s[c].ac
           A == SendersAt(s, a, pc)
<1>1. c \in A
  BY DEF SendersAt
<1>2. IsFiniteSet(A)
  BY UsersAssumption, FS_Subset DEF SendersAt
<1>3. Cardinality(A) \in Nat /\ Cardinality(A) # 0
  BY <1>1, <1>2, FS_CardinalityType, FS_EmptySet
<1>4. Cardinality(WaitOf(b, a, T)) \in Nat
  BY WaitFinite
<1>5. Hand(f, a, T) \in Nat
  BY DEF Hand, One
<1>6. Total(b, f, s, T, pc)[a] = Cardinality(WaitOf(b, a, T)) + Hand(f, a, T) + Cardinality(A)
  BY DEF Total
<1> HIDE DEF A, a
<1> QED
  BY <1>3, <1>4, <1>5, <1>6 DEF a

\* The totals are numbers, before and after.
LEMMA Numbers ==
  ASSUME QueTypeOK, QueTypeOK'
  PROVE  /\ buflist \in Bufs /\ buflist' \in Bufs /\ ext.ac \in ACs
         /\ NumClones \in [ACs -> Nat] /\ NumPlain \in [ACs -> Nat]
         /\ NumClones' \in [ACs -> Nat] /\ NumPlain' \in [ACs -> Nat]
         /\ size \in [ACs -> Int] /\ ext \in [refs : Int, ac : ACs]
<1>1. /\ buflist \in Bufs /\ buflist' \in Bufs
      /\ size \in [ACs -> Int] /\ ext \in [refs : Int, ac : ACs]
  BY DEF QueTypeOK, Bufs
<1> QED
  BY <1>1, TotalType DEF NumClones, NumPlain

\* What a sender does to the totals, if its station's queues change.
LEMMA SenderMoves ==
  ASSUME QueTypeOK, QueTypeOK', NEW c \in Senders, NEW p \in Peers, fl' = fl,
         \A q \in Peers, a \in ACs : q # p => buflist'[q][a] = buflist[q][a],
         \A e \in Senders : e # c => snd'[e] = snd[e],
         NEW a \in ACs
  PROVE  /\ NumClones'[a] = NumClones[a]
              + (Count(buflist'[p][a], Clones) - Count(buflist[p][a], Clones))
              + (Is(snd'[c], a, "clone") - Is(snd[c], a, "clone"))
         /\ NumPlain'[a] = NumPlain[a]
              + (Count(buflist'[p][a], Plain) - Count(buflist[p][a], Plain))
              + (Is(snd'[c], a, "queue") - Is(snd[c], a, "queue"))
<1>1. buflist \in Bufs /\ buflist' \in Bufs
  BY Numbers
<1>2. \A q \in Peers : q # p => buflist'[q][a] = buflist[q][a]
  OBVIOUS
<1>3. /\ NumClones'[a] = Total(buflist', fl, snd', Clones, "clone")[a]
      /\ NumPlain'[a] = Total(buflist', fl, snd', Plain, "queue")[a]
  BY DEF NumClones, NumPlain
<1>4. SenderMoved(buflist, buflist', p, fl, snd, snd', c, Clones, "clone", a)
  BY <1>1, <1>2, TotalSender
<1>5. SenderMoved(buflist, buflist', p, fl, snd, snd', c, Plain, "queue", a)
  BY <1>1, <1>2, TotalSender
<1> QED
  BY <1>3, <1>4, <1>5 DEF NumClones, NumPlain, SenderMoved

\* What the tasklet or a request does to the totals.
LEMMA FlushMoves ==
  ASSUME QueTypeOK, QueTypeOK', NEW p \in Peers, snd' = snd,
         \A q \in Peers, a \in ACs : q # p => buflist'[q][a] = buflist[q][a],
         NEW a \in ACs
  PROVE  /\ NumClones'[a] = NumClones[a]
              + (Count(buflist'[p][a], Clones) - Count(buflist[p][a], Clones))
              + (Hand(fl', a, Clones) - Hand(fl, a, Clones))
         /\ NumPlain'[a] = NumPlain[a]
              + (Count(buflist'[p][a], Plain) - Count(buflist[p][a], Plain))
              + (Hand(fl', a, Plain) - Hand(fl, a, Plain))
<1>1. buflist \in Bufs /\ buflist' \in Bufs
  BY Numbers
<1>2. \A q \in Peers : q # p => buflist'[q][a] = buflist[q][a]
  OBVIOUS
<1>3. /\ NumClones'[a] = Total(buflist', fl', snd, Clones, "clone")[a]
      /\ NumPlain'[a] = Total(buflist', fl', snd, Plain, "queue")[a]
  BY DEF NumClones, NumPlain
<1>4. FlushMoved(buflist, buflist', p, fl, fl', snd, Clones, "clone", a)
  BY <1>1, <1>2, TotalFlush
<1>5. FlushMoved(buflist, buflist', p, fl, fl', snd, Plain, "queue", a)
  BY <1>1, <1>2, TotalFlush
<1> QED
  BY <1>3, <1>4, <1>5 DEF NumClones, NumPlain, FlushMoved

\* A packet is of one kind.
LEMMA OneKind ==
  ASSUME NEW k \in Packets
  PROVE  k \in Clones <=> k \notin Plain
BY DEF Clones, Plain

\* How many there are more when a packet enters a queue.
LEMMA Entered ==
  ASSUME QueTypeOK, NEW p \in Peers, NEW c \in ACs, NEW k \in Packets,
         LET q == buflist[p][c]
         IN  \/ buflist' = [buflist EXCEPT ![p][c] = <<k>> \o q]
             \/ buflist' = [buflist EXCEPT ![p][c] = Append(q, k)]
  PROVE  /\ \A q \in Peers, a \in ACs : q # p => buflist'[q][a] = buflist[q][a]
         /\ \A a \in ACs : \A T :
              Count(buflist'[p][a], T) - Count(buflist[p][a], T) = One(k \in T /\ c = a)
<1> DEFINE q == buflist[p][c]
<1>1. buflist \in [Peers -> [ACs -> Seq(Packets)]] /\ q \in Seq(Packets)
  BY DEF QueTypeOK
<1>2. PICK r \in {<<k>> \o q, Append(q, k)} : buflist' = [buflist EXCEPT ![p][c] = r]
  OBVIOUS
<1>3. <<k>> \o q \in Seq(Packets) /\ Append(q, k) \in Seq(Packets)
  BY <1>1, CountPush
<1>4. r \in Seq(Packets)
  BY <1>2, <1>3
<1>5. \A T : Count(r, T) = Count(q, T) + (IF k \in T THEN 1 ELSE 0) /\ Count(q, T) \in Nat
  <2> TAKE T
  <2>1. Count(<<k>> \o q, T) = Count(q, T) + IF k \in T THEN 1 ELSE 0
    BY <1>1, CountPush
  <2>2. Count(Append(q, k), T) = Count(q, T) + IF k \in T THEN 1 ELSE 0
    BY <1>1, CountAppend
  <2>3. Count(q, T) \in Nat
    BY <1>1, CountType
  <2>4. r = <<k>> \o q \/ r = Append(q, k)
    BY <1>2
  <2> HIDE DEF q
  <2>5. CASE r = <<k>> \o q
    BY <2>1, <2>3, <2>5
  <2>6. CASE r = Append(q, k)
    BY <2>2, <2>3, <2>6
  <2> QED
    BY <2>4, <2>5, <2>6
<1> HIDE DEF q
<1>6. \A e \in Peers, a \in ACs : buflist'[e][a] = IF e = p /\ a = c THEN r ELSE buflist[e][a]
  BY <1>1, <1>2, <1>4, BufUpdate
<1>7. ASSUME NEW a \in ACs, NEW T
      PROVE  Count(buflist'[p][a], T) - Count(buflist[p][a], T) = One(k \in T /\ c = a)
  <2>1. CASE a = c
    <3>1. buflist'[p][a] = r /\ buflist[p][a] = q
      BY <1>6, <2>1 DEF q
    <3>2. Count(r, T) = Count(q, T) + (IF k \in T THEN 1 ELSE 0) /\ Count(q, T) \in Nat
      BY <1>5
    <3>3. Count(r, T) - Count(q, T) = One(k \in T /\ c = a)
      BY <2>1, <3>2 DEF One
    <3> QED
      BY <3>1, <3>3
  <2>2. CASE a # c
    <3>1. buflist'[p][a] = buflist[p][a]
      BY <1>6, <2>2
    <3>2. Count(buflist[p][a], T) \in Nat
      BY <1>1, CountType
    <3> QED
      BY <2>2, <3>1, <3>2 DEF One
  <2> QED
    BY <2>1, <2>2
<1> QED
  BY <1>6, <1>7

\* How many there are less when the first packet leaves a queue.
LEMMA PopCount ==
  ASSUME QueTypeOK, NEW p \in Peers, NEW c \in ACs, buflist[p][c] # <<>>, Pop(p, c)
  PROVE  /\ \A q \in Peers, a \in ACs : q # p => buflist'[q][a] = buflist[q][a]
         /\ \A a \in ACs : \A T :
              Count(buflist'[p][a], T) - Count(buflist[p][a], T)
                = 0 - One(Head(buflist[p][c]) \in T /\ c = a)
<1> DEFINE q == buflist[p][c]
           r == Tail(q)
           k == Head(q)
<1>1. /\ buflist \in [Peers -> [ACs -> Seq(Packets)]] /\ q \in Seq(Packets) /\ q # <<>>
      /\ r \in Seq(Packets)
  BY DEF QueTypeOK
<1>2. buflist' = [buflist EXCEPT ![p][c] = r]
  BY DEF Pop
<1>3. \A T : Count(r, T) = Count(q, T) - (IF k \in T THEN 1 ELSE 0) /\ Count(q, T) \in Nat
  BY <1>1, CountTail, CountType
<1> HIDE DEF q, r, k
<1>4. \A e \in Peers, a \in ACs : buflist'[e][a] = IF e = p /\ a = c THEN r ELSE buflist[e][a]
  BY <1>1, <1>2, BufUpdate
<1>5. ASSUME NEW a \in ACs, NEW T
      PROVE  Count(buflist'[p][a], T) - Count(buflist[p][a], T) = 0 - One(k \in T /\ c = a)
  <2>1. CASE a = c
    <3>1. buflist'[p][a] = r /\ buflist[p][a] = q
      BY <1>4, <2>1 DEF q
    <3>2. Count(r, T) = Count(q, T) - (IF k \in T THEN 1 ELSE 0) /\ Count(q, T) \in Nat
      BY <1>3
    <3>3. Count(r, T) - Count(q, T) = 0 - One(k \in T /\ c = a)
      BY <2>1, <3>2 DEF One
    <3> QED
      BY <3>1, <3>3
  <2>2. CASE a # c
    <3>1. buflist'[p][a] = buflist[p][a]
      BY <1>4, <2>2
    <3>2. Count(buflist[p][a], T) \in Nat
      BY <1>1, CountType
    <3> QED
      BY <2>2, <3>1, <3>2 DEF One
  <2> QED
    BY <2>1, <2>2
<1> QED
  BY <1>4, <1>5 DEF k, q

\* The counts and the totals fit.
Fits == MatchOf(ext, size, NumClones, NumPlain)

\* A packet is counted before it is queued.
LEMMA TransmitFits ==
  ASSUME QueTypeOK, QueTypeOK', SndTypeOK, Fits, NEW c \in Senders, NEW p, NEW v, NEW kind,
         NEW b \in ACs, Transmit(c, p, v, kind, b)
  PROVE  Fits'
<1>1. snd' = [snd EXCEPT ![c] = [SndIdle EXCEPT !.pc = "queue", !.peer = p, !.ac = b,
                                                !.pkt = [vap |-> v, kind |-> kind]]]
  BY DEF Transmit
<1>2. /\ \A e \in Senders : e # c => snd'[e] = snd[e]
      /\ snd'[c].pc = "queue" /\ snd'[c].ac = b
  BY <1>1 DEF SndTypeOK, SndIdle
<1>3. UNCHANGED <<buflist, ext, fl>> /\ snd[c].pc = "idle"
  BY DEF Transmit
<1>4. Broadcast \in Peers
  BY Constants
<1>5. ASSUME NEW a \in ACs
      PROVE  NumClones'[a] = NumClones[a] /\ NumPlain'[a] = NumPlain[a] + One(b = a)
  <2>1. /\ NumClones'[a] = NumClones[a]
             + (Count(buflist'[Broadcast][a], Clones) - Count(buflist[Broadcast][a], Clones))
             + (Is(snd'[c], a, "clone") - Is(snd[c], a, "clone"))
        /\ NumPlain'[a] = NumPlain[a]
             + (Count(buflist'[Broadcast][a], Plain) - Count(buflist[Broadcast][a], Plain))
             + (Is(snd'[c], a, "queue") - Is(snd[c], a, "queue"))
    BY <1>2, <1>3, <1>4, SenderMoves
  <2>2. /\ Is(snd'[c], a, "clone") = 0 /\ Is(snd[c], a, "clone") = 0
        /\ Is(snd'[c], a, "queue") = One(b = a) /\ Is(snd[c], a, "queue") = 0
    BY <1>2, <1>3 DEF Is, One
  <2>3. /\ Count(buflist[Broadcast][a], Clones) \in Nat
        /\ Count(buflist[Broadcast][a], Plain) \in Nat
    BY <1>4, OfPeerCount, Numbers
  <2>4. NumClones[a] \in Nat /\ NumPlain[a] \in Nat
    BY Numbers
  <2> QED
    BY <1>3, <2>1, <2>2, <2>3, <2>4 DEF One
<1>6. \A a \in ACs : size'[a] = size[a] + One(b = a) /\ size[a] \in Int
  <2>1. size' = [size EXCEPT ![b] = @ + 1] /\ size \in [ACs -> Int]
    BY DEF Transmit, QueTypeOK
  <2> QED
    BY <2>1 DEF One
<1>7. \A a \in ACs : size'[a] = size[a] + (NumPlain'[a] - NumPlain[a])
  <2> TAKE a \in ACs
  <2>1. NumPlain[a] \in Nat
    BY Numbers
  <2> QED
    BY <1>5, <1>6, <2>1 DEF One
<1> QED
  BY <1>3, <1>5, <1>7, Numbers, MatchMoved DEF Fits

\* It enters the queue, or is dropped and no longer counted.
LEMMA EnqueueFits ==
  ASSUME QueTypeOK, QueTypeOK', SndTypeOK, SndInv, Fits, NEW c \in Senders, EnqueuePkt(c)
  PROVE  Fits'
<1> DEFINE s == snd[c]
           p == s.peer
           b == s.ac
           k == s.pkt
<1>1. s.pc = "queue" /\ p \in Peers /\ b \in ACs /\ k \in Plain /\ k \in Packets /\ k \notin Clones
  BY DEF EnqueuePkt, SndInv, Plain
<1>2. snd' = [snd EXCEPT ![c] = SndIdle]
  BY DEF EnqueuePkt
<1>3. /\ \A e \in Senders : e # c => snd'[e] = snd[e]
      /\ snd'[c].pc = "idle"
  BY <1>2 DEF SndTypeOK, SndIdle
<1>4. UNCHANGED <<ext, fl>>
  BY DEF EnqueuePkt
<1>5. \/ /\ \/ buflist' = [buflist EXCEPT ![p][b] = <<k>> \o buflist[p][b]]
            \/ buflist' = [buflist EXCEPT ![p][b] = Append(buflist[p][b], k)]
         /\ UNCHANGED size
      \/ UNCHANGED buflist /\ size' = [size EXCEPT ![b] = @ - 1]
  BY DEF EnqueuePkt
<1>6. \A a \in ACs : /\ Is(snd'[c], a, "clone") = 0 /\ Is(snd[c], a, "clone") = 0
                     /\ Is(snd'[c], a, "queue") = 0 /\ Is(snd[c], a, "queue") = One(b = a)
  BY <1>1, <1>3 DEF Is, One
<1> HIDE DEF s, p, b, k
<1>7. ASSUME NEW n, NEW m, NEW a \in ACs,
             \A q \in Peers, e \in ACs : q # p => buflist'[q][e] = buflist[q][e],
             Count(buflist'[p][a], Clones) - Count(buflist[p][a], Clones) = 0,
             Count(buflist'[p][a], Plain) - Count(buflist[p][a], Plain) = m,
             m \in {0, 1}, n = m - One(b = a)
      PROVE  NumClones'[a] = NumClones[a] /\ NumPlain'[a] = NumPlain[a] + n
  <2>1. /\ NumClones'[a] = NumClones[a]
             + (Count(buflist'[p][a], Clones) - Count(buflist[p][a], Clones))
             + (Is(snd'[c], a, "clone") - Is(snd[c], a, "clone"))
        /\ NumPlain'[a] = NumPlain[a]
             + (Count(buflist'[p][a], Plain) - Count(buflist[p][a], Plain))
             + (Is(snd'[c], a, "queue") - Is(snd[c], a, "queue"))
    BY <1>1, <1>3, <1>4, <1>7, SenderMoves
  <2>2. NumClones[a] \in Nat /\ NumPlain[a] \in Nat
    BY Numbers
  <2> QED
    BY <1>6, <1>7, <2>1, <2>2 DEF One
<1>8. CASE /\ \/ buflist' = [buflist EXCEPT ![p][b] = <<k>> \o buflist[p][b]]
              \/ buflist' = [buflist EXCEPT ![p][b] = Append(buflist[p][b], k)]
           /\ UNCHANGED size
  <2>1. /\ \A q \in Peers, a \in ACs : q # p => buflist'[q][a] = buflist[q][a]
        /\ \A a \in ACs : \A T :
             Count(buflist'[p][a], T) - Count(buflist[p][a], T) = One(k \in T /\ b = a)
    BY <1>1, <1>8, Entered
  <2>2. ASSUME NEW a \in ACs
        PROVE  NumClones'[a] = NumClones[a] /\ NumPlain'[a] = NumPlain[a]
    <3>1. Count(buflist'[p][a], Clones) - Count(buflist[p][a], Clones) = 0
      <4>1. Count(buflist'[p][a], Clones) - Count(buflist[p][a], Clones)
              = One(k \in Clones /\ b = a)
        BY <2>1
      <4> QED
        BY <1>1, <4>1 DEF One
    <3>2. Count(buflist'[p][a], Plain) - Count(buflist[p][a], Plain) = One(b = a)
      <4>1. Count(buflist'[p][a], Plain) - Count(buflist[p][a], Plain)
              = One(k \in Plain /\ b = a)
        BY <2>1
      <4> QED
        BY <1>1, <4>1 DEF One
    <3>3. One(b = a) \in {0, 1} /\ 0 = One(b = a) - One(b = a)
      BY DEF One
    <3>4. NumClones'[a] = NumClones[a] /\ NumPlain'[a] = NumPlain[a] + 0
      BY <1>7, <2>1, <3>1, <3>2, <3>3
    <3>5. NumPlain[a] \in Nat
      BY Numbers
    <3> QED
      BY <3>4, <3>5
  <2> QED
    BY <1>4, <1>8, <2>2, Numbers, MatchKept DEF Fits
<1>9. CASE UNCHANGED buflist /\ size' = [size EXCEPT ![b] = @ - 1]
  <2>1. ASSUME NEW a \in ACs
        PROVE  NumClones'[a] = NumClones[a] /\ NumPlain'[a] = NumPlain[a] + (0 - One(b = a))
    <3>1. /\ Count(buflist'[p][a], Clones) - Count(buflist[p][a], Clones) = 0
          /\ Count(buflist'[p][a], Plain) - Count(buflist[p][a], Plain) = 0
      BY <1>1, <1>9, OfPeerCount, Numbers
    <3> QED
      BY <1>7, <1>9, <3>1
  <2>2. \A a \in ACs : size'[a] = size[a] - One(b = a) /\ size[a] \in Int
    <3>1. size \in [ACs -> Int] /\ size' = [size EXCEPT ![b] = @ - 1]
      BY <1>9, Numbers
    <3>2. b \in ACs
      BY <1>1
    <3> QED
      BY <3>1, <3>2 DEF One
  <2>3. \A a \in ACs : size'[a] = size[a] + (NumPlain'[a] - NumPlain[a])
    <3> TAKE a \in ACs
    <3>1. NumPlain[a] \in Nat
      BY Numbers
    <3> QED
      BY <2>1, <2>2, <3>1 DEF One
  <2> QED
    BY <1>4, <2>1, <2>3, Numbers, MatchMoved DEF Fits
<1> QED
  BY <1>5, <1>8, <1>9 DEF s, p, b, k

\* A multicast begins.
LEMMA CloneBeginFits ==
  ASSUME QueTypeOK, QueTypeOK', SndTypeOK, Fits, NEW c \in Senders, NEW v, NEW b \in ACs,
         CloneBegin(c, v, b)
  PROVE  Fits'
<1>1. snd' = [snd EXCEPT ![c] = [SndIdle EXCEPT !.pc = "clone", !.ac = b,
                                   !.pkt = [vap |-> v, kind |-> "clone"],
                                   !.left = {p \in listed : VapOf[p] = v}]]
  BY DEF CloneBegin
<1>2. /\ \A e \in Senders : e # c => snd'[e] = snd[e]
      /\ snd'[c].pc = "clone" /\ snd'[c].ac = b
  BY <1>1 DEF SndTypeOK, SndIdle
<1>3. UNCHANGED <<buflist, fl>> /\ snd[c].pc = "idle"
  BY DEF CloneBegin
<1>4. Broadcast \in Peers
  BY Constants
<1>5. ASSUME NEW a \in ACs
      PROVE  NumClones'[a] = NumClones[a] + One(b = a) /\ NumPlain'[a] = NumPlain[a]
  <2>1. /\ NumClones'[a] = NumClones[a]
             + (Count(buflist'[Broadcast][a], Clones) - Count(buflist[Broadcast][a], Clones))
             + (Is(snd'[c], a, "clone") - Is(snd[c], a, "clone"))
        /\ NumPlain'[a] = NumPlain[a]
             + (Count(buflist'[Broadcast][a], Plain) - Count(buflist[Broadcast][a], Plain))
             + (Is(snd'[c], a, "queue") - Is(snd[c], a, "queue"))
    BY <1>2, <1>3, <1>4, SenderMoves
  <2>2. /\ Is(snd'[c], a, "clone") = One(b = a) /\ Is(snd[c], a, "clone") = 0
        /\ Is(snd'[c], a, "queue") = 0 /\ Is(snd[c], a, "queue") = 0
    BY <1>2, <1>3 DEF Is, One
  <2>3. /\ Count(buflist[Broadcast][a], Clones) \in Nat
        /\ Count(buflist[Broadcast][a], Plain) \in Nat
    BY <1>4, OfPeerCount, Numbers
  <2>4. NumClones[a] \in Nat /\ NumPlain[a] \in Nat
    BY Numbers
  <2> QED
    BY <1>3, <2>1, <2>2, <2>3, <2>4 DEF One
<1>6. \A a \in ACs : size'[a] = size[a] + One(b = a)
  <2>1. size' = [size EXCEPT ![b] = @ + 1] /\ size \in [ACs -> Int]
    BY DEF CloneBegin, QueTypeOK
  <2> QED
    BY <2>1 DEF One
<1>7. ext.refs = 0 /\ ext'.refs = 1 /\ ext'.ac = b
  BY DEF CloneBegin
<1>8. MatchOf(ext', size', NumClones', NumPlain')
  BY <1>5, <1>6, <1>7, Numbers, MatchBegun DEF Fits
<1> QED
  BY <1>8 DEF Fits

\* A clone enters the queue of a station, or does not.
LEMMA CloneFits ==
  ASSUME QueTypeOK, QueTypeOK', SndTypeOK, SndInv, Fits, NEW c \in Senders,
         NEW p \in Stations, Clone(c, p)
  PROVE  Fits'
<1> DEFINE s == snd[c]
           b == s.ac
           k == s.pkt
<1>1. s.pc = "clone" /\ p \in Peers /\ b \in ACs /\ k \in Clones /\ k \in Packets /\ k \notin Plain
  BY DEF Clone, SndInv, Plain, Clones, Peers
<1>2. /\ \A e \in Senders : e # c => snd'[e] = snd[e]
      /\ snd'[c].pc = s.pc /\ snd'[c].ac = s.ac
  BY DEF Clone, SndTypeOK
<1>3. UNCHANGED <<size, fl>>
  BY DEF Clone
<1>4. \/ /\ buflist' = [buflist EXCEPT ![p][b] = Append(buflist[p][b], k)]
         /\ ext' = [ext EXCEPT !.refs = @ + 1]
      \/ UNCHANGED <<buflist, ext>>
  BY DEF Clone
<1>5. \A a \in ACs : /\ Is(snd'[c], a, "clone") = Is(snd[c], a, "clone")
                     /\ Is(snd'[c], a, "queue") = Is(snd[c], a, "queue")
                     /\ Is(snd[c], a, "clone") \in Nat /\ Is(snd[c], a, "queue") \in Nat
  BY <1>2 DEF Is, One
<1>6. NumClones[b] > 0
  BY <1>1, Numbers, TotalSome DEF NumClones
<1> HIDE DEF s, b, k
<1>7. ASSUME NEW n \in {0, 1}, NEW a \in ACs,
             \A q \in Peers, e \in ACs : q # p => buflist'[q][e] = buflist[q][e],
             Count(buflist'[p][a], Clones) - Count(buflist[p][a], Clones) = n,
             Count(buflist'[p][a], Plain) - Count(buflist[p][a], Plain) = 0
      PROVE  NumClones'[a] = NumClones[a] + n /\ NumPlain'[a] = NumPlain[a]
  <2>1. /\ NumClones'[a] = NumClones[a]
             + (Count(buflist'[p][a], Clones) - Count(buflist[p][a], Clones))
             + (Is(snd'[c], a, "clone") - Is(snd[c], a, "clone"))
        /\ NumPlain'[a] = NumPlain[a]
             + (Count(buflist'[p][a], Plain) - Count(buflist[p][a], Plain))
             + (Is(snd'[c], a, "queue") - Is(snd[c], a, "queue"))
    BY <1>1, <1>2, <1>3, <1>7, SenderMoves
  <2>2. NumClones[a] \in Nat /\ NumPlain[a] \in Nat
    BY Numbers
  <2> QED
    BY <1>5, <1>7, <2>1, <2>2
<1>8. CASE /\ buflist' = [buflist EXCEPT ![p][b] = Append(buflist[p][b], k)]
           /\ ext' = [ext EXCEPT !.refs = @ + 1]
  <2>1. /\ \A q \in Peers, a \in ACs : q # p => buflist'[q][a] = buflist[q][a]
        /\ \A a \in ACs : \A T :
             Count(buflist'[p][a], T) - Count(buflist[p][a], T) = One(k \in T /\ b = a)
    BY <1>1, <1>8, Entered
  <2>2. ASSUME NEW a \in ACs
        PROVE  NumClones'[a] = NumClones[a] + One(b = a) /\ NumPlain'[a] = NumPlain[a]
    <3>1. Count(buflist'[p][a], Clones) - Count(buflist[p][a], Clones) = One(b = a)
      <4>1. Count(buflist'[p][a], Clones) - Count(buflist[p][a], Clones)
              = One(k \in Clones /\ b = a)
        BY <2>1
      <4> QED
        BY <1>1, <4>1 DEF One
    <3>2. Count(buflist'[p][a], Plain) - Count(buflist[p][a], Plain) = 0
      <4>1. Count(buflist'[p][a], Plain) - Count(buflist[p][a], Plain)
              = One(k \in Plain /\ b = a)
        BY <2>1
      <4> QED
        BY <1>1, <4>1 DEF One
    <3>3. One(b = a) \in {0, 1}
      BY DEF One
    <3> QED
      BY <1>7, <2>1, <3>1, <3>2, <3>3
  <2>3. ext'.refs = ext.refs + 1 /\ ext'.ac = ext.ac
    BY <1>8, Numbers
  <2>4. MatchOf(ext', size, NumClones', NumPlain')
    BY <1>1, <1>6, <2>2, <2>3, Numbers, MatchCloned DEF Fits
  <2> QED
    BY <1>3, <2>4 DEF Fits
<1>9. CASE UNCHANGED <<buflist, ext>>
  <2>1. ASSUME NEW a \in ACs
        PROVE  NumClones'[a] = NumClones[a] /\ NumPlain'[a] = NumPlain[a]
    <3>1. /\ Count(buflist'[p][a], Clones) - Count(buflist[p][a], Clones) = 0
          /\ Count(buflist'[p][a], Plain) - Count(buflist[p][a], Plain) = 0
      BY <1>1, <1>9, OfPeerCount, Numbers
    <3>2. NumClones'[a] = NumClones[a] + 0 /\ NumPlain'[a] = NumPlain[a]
      BY <1>7, <1>9, <3>1
    <3>3. NumClones[a] \in Nat
      BY Numbers
    <3> QED
      BY <3>2, <3>3
  <2> QED
    BY <1>3, <1>9, <2>1, Numbers, MatchKept DEF Fits
<1> QED
  BY <1>4, <1>8, <1>9 DEF s, b, k

\* The sender gives up its own reference.
LEMMA CloneEndFits ==
  ASSUME QueTypeOK, QueTypeOK', SndTypeOK, SndInv, Fits, NEW c \in Senders, CloneEnd(c)
  PROVE  Fits'
<1> DEFINE b == snd[c].ac
           k == snd[c].pkt
<1>1. /\ snd[c].pc = "clone" /\ b \in ACs /\ k \in Clones /\ k \in Packets /\ k \notin Plain
      /\ ReleaseOne(b, k) /\ UNCHANGED <<buflist, fl>>
  BY DEF CloneEnd, SndInv, Plain, Clones
<1>2. /\ \A e \in Senders : e # c => snd'[e] = snd[e]
      /\ snd'[c].pc = "idle"
  BY DEF CloneEnd, SndTypeOK, SndIdle
<1>3. Broadcast \in Peers
  BY Constants
<1>4. \A a \in ACs : /\ Is(snd'[c], a, "clone") = 0 /\ Is(snd[c], a, "clone") = One(b = a)
                     /\ Is(snd'[c], a, "queue") = 0 /\ Is(snd[c], a, "queue") = 0
  BY <1>1, <1>2 DEF Is, One
<1> HIDE DEF b, k
<1>5. ASSUME NEW a \in ACs
      PROVE  /\ NumClones'[a] = NumClones[a] - One(k \in Clones /\ b = a)
             /\ NumPlain'[a] = NumPlain[a] - One(k \in Plain /\ b = a)
  <2>1. /\ NumClones'[a] = NumClones[a]
             + (Count(buflist'[Broadcast][a], Clones) - Count(buflist[Broadcast][a], Clones))
             + (Is(snd'[c], a, "clone") - Is(snd[c], a, "clone"))
        /\ NumPlain'[a] = NumPlain[a]
             + (Count(buflist'[Broadcast][a], Plain) - Count(buflist[Broadcast][a], Plain))
             + (Is(snd'[c], a, "queue") - Is(snd[c], a, "queue"))
    BY <1>1, <1>2, <1>3, SenderMoves
  <2>2. /\ Count(buflist[Broadcast][a], Clones) \in Nat
        /\ Count(buflist[Broadcast][a], Plain) \in Nat
    BY <1>3, OfPeerCount, Numbers
  <2>3. NumClones[a] \in Nat /\ NumPlain[a] \in Nat
    BY Numbers
  <2> QED
    BY <1>1, <1>4, <2>1, <2>2, <2>3 DEF One
<1>6. MatchOf(ext', size', NumClones', NumPlain')
  BY <1>1, <1>5, Numbers, ReleasedOne DEF Fits
<1> QED
  BY <1>6 DEF Fits

\* What the tasklet has in its hands is counted with what waits.
LEMMA HandIs ==
  ASSUME NEW f, NEW a, NEW T \in {Clones, Plain}
  PROVE  /\ Hand(f, a, T) \in Nat
         /\ f.pkt = NULL => Hand(f, a, T) = 0
<1>1. NULL \notin T
  BY Constants DEF Clones, Plain
<1> QED
  BY <1>1 DEF Hand, One

\* Steps of the tasklet that neither take nor give up a packet.
LEMMA FlushIdleFits ==
  ASSUME QueTypeOK, QueTypeOK', Fits, UNCHANGED <<buflist, size, ext, snd>>,
         \/ fl'.pkt = fl.pkt /\ fl'.ac = fl.ac
         \/ fl'.pkt = NULL /\ fl.pkt = NULL
  PROVE  Fits'
<1>1. Broadcast \in Peers
  BY Constants
<1>2. ASSUME NEW a \in ACs
      PROVE  NumClones'[a] = NumClones[a] /\ NumPlain'[a] = NumPlain[a]
  <2>1. /\ NumClones'[a] = NumClones[a]
             + (Count(buflist'[Broadcast][a], Clones) - Count(buflist[Broadcast][a], Clones))
             + (Hand(fl', a, Clones) - Hand(fl, a, Clones))
        /\ NumPlain'[a] = NumPlain[a]
             + (Count(buflist'[Broadcast][a], Plain) - Count(buflist[Broadcast][a], Plain))
             + (Hand(fl', a, Plain) - Hand(fl, a, Plain))
    BY <1>1, FlushMoves
  <2>2. /\ Hand(fl', a, Clones) = Hand(fl, a, Clones) /\ Hand(fl, a, Clones) \in Nat
        /\ Hand(fl', a, Plain) = Hand(fl, a, Plain) /\ Hand(fl, a, Plain) \in Nat
    <3>1. CASE fl'.pkt = fl.pkt /\ fl'.ac = fl.ac
      BY <3>1, HandIs DEF Hand
    <3>2. CASE fl'.pkt = NULL /\ fl.pkt = NULL
      BY <3>2, HandIs
    <3> QED
      BY <3>1, <3>2
  <2>3. /\ Count(buflist[Broadcast][a], Clones) \in Nat
        /\ Count(buflist[Broadcast][a], Plain) \in Nat
    BY <1>1, OfPeerCount, Numbers
  <2>4. NumClones[a] \in Nat /\ NumPlain[a] \in Nat
    BY Numbers
  <2> QED
    BY <2>1, <2>2, <2>3, <2>4
<1> QED
  BY <1>2, Numbers, MatchKept DEF Fits

\* The tasklet takes a packet, or takes it and releases it.
LEMMA FlushTakeFits ==
  ASSUME QueTypeOK, QueTypeOK', FlTypeOK, FlInv, Fits, FlushTake \/ FlushFiltered
  PROVE  Fits'
<1> DEFINE p == PeerAt
           b == fl.ac
           k == HeadPkt
<1>1. fl.pc = "peer" /\ Waiting # {} /\ Pop(p, b) /\ snd' = snd
  BY DEF FlushTake, FlushFiltered, RoundEnds
<1>2. /\ p \in Peers /\ b \in ACs /\ k \in Packets /\ buflist[p][b] # <<>>
      /\ k = Head(buflist[p][b])
  BY <1>1, AtFacts DEF HeadPkt
<1>3. fl.pkt = NULL
  BY <1>1 DEF FlInv
<1>4. k \in Clones <=> k \notin Plain
  BY <1>2, OneKind
<1> HIDE DEF p, b, k
<1>5. /\ \A q \in Peers, a \in ACs : q # p => buflist'[q][a] = buflist[q][a]
      /\ \A a \in ACs : \A T :
           Count(buflist'[p][a], T) - Count(buflist[p][a], T) = 0 - One(k \in T /\ b = a)
  BY <1>1, <1>2, PopCount
<1>6. ASSUME NEW a \in ACs
      PROVE  /\ NumClones'[a] = NumClones[a] - One(k \in Clones /\ b = a)
                                  + Hand(fl', a, Clones)
             /\ NumPlain'[a] = NumPlain[a] - One(k \in Plain /\ b = a)
                                 + Hand(fl', a, Plain)
  <2>1. /\ NumClones'[a] = NumClones[a]
             + (Count(buflist'[p][a], Clones) - Count(buflist[p][a], Clones))
             + (Hand(fl', a, Clones) - Hand(fl, a, Clones))
        /\ NumPlain'[a] = NumPlain[a]
             + (Count(buflist'[p][a], Plain) - Count(buflist[p][a], Plain))
             + (Hand(fl', a, Plain) - Hand(fl, a, Plain))
    BY <1>1, <1>2, <1>5, FlushMoves
  <2>2. /\ Hand(fl', a, Clones) \in Nat /\ Hand(fl, a, Clones) = 0
        /\ Hand(fl', a, Plain) \in Nat /\ Hand(fl, a, Plain) = 0
    BY <1>3, HandIs
  <2>3. /\ Count(buflist'[p][a], Clones) - Count(buflist[p][a], Clones)
             = 0 - One(k \in Clones /\ b = a)
        /\ Count(buflist'[p][a], Plain) - Count(buflist[p][a], Plain)
             = 0 - One(k \in Plain /\ b = a)
    BY <1>5
  <2>4. NumClones[a] \in Nat /\ NumPlain[a] \in Nat
    BY Numbers
  <2> QED
    BY <2>1, <2>2, <2>3, <2>4 DEF One
<1>7. CASE FlushTake
  <2>1. fl'.pkt = k /\ fl'.ac = b /\ UNCHANGED <<size, ext>>
    BY <1>7 DEF FlushTake, FlTypeOK, k, b
  <2>2. \A a \in ACs : NumClones'[a] = NumClones[a] /\ NumPlain'[a] = NumPlain[a]
    <3> TAKE a \in ACs
    <3>1. /\ Hand(fl', a, Clones) = One(k \in Clones /\ b = a)
          /\ Hand(fl', a, Plain) = One(k \in Plain /\ b = a)
      BY <2>1 DEF Hand
    <3>2. NumClones[a] \in Nat /\ NumPlain[a] \in Nat
      BY Numbers
    <3> QED
      BY <1>6, <3>1, <3>2 DEF One
  <2> QED
    BY <2>1, <2>2, Numbers, MatchKept DEF Fits
<1>8. CASE FlushFiltered
  <2>1. ReleaseOne(b, k)
    BY <1>8 DEF FlushFiltered, b, k
  <2>2. fl'.pkt = NULL
    BY <1>3, <1>8 DEF FlushFiltered, FlTypeOK
  <2>3. \A a \in ACs : /\ NumClones'[a] = NumClones[a] - One(k \in Clones /\ b = a)
                       /\ NumPlain'[a] = NumPlain[a] - One(k \in Plain /\ b = a)
    <3> TAKE a \in ACs
    <3>1. Hand(fl', a, Clones) = 0 /\ Hand(fl', a, Plain) = 0
      BY <2>2, HandIs
    <3>2. NumClones[a] \in Nat /\ NumPlain[a] \in Nat
      BY Numbers
    <3> QED
      BY <1>6, <3>1, <3>2 DEF One
  <2>4. /\ \A a \in ACs : NumClones'[a] = NumClones[a] - One(k \in Clones /\ b = a)
        /\ \A a \in ACs : NumPlain'[a] = NumPlain[a] - One(k \in Plain /\ b = a)
    BY <2>3
  <2>5. MatchOf(ext', size', NumClones', NumPlain')
    <3>1. MatchOf(ext, size, NumClones, NumPlain)
      BY DEF Fits
    <3>2. /\ NumClones \in [ACs -> Nat] /\ NumPlain \in [ACs -> Nat]
          /\ NumClones' \in [ACs -> Nat] /\ NumPlain' \in [ACs -> Nat]
      BY Numbers
    <3>3. b \in ACs /\ k \in Packets
      BY <1>2
    <3> QED
      BY <2>1, <2>4, <3>1, <3>2, <3>3, ReleasedOne
  <2> QED
    BY <2>5 DEF Fits
<1> QED
  BY <1>7, <1>8

\* The tasklet releases the packet it has.
LEMMA FlushGiveFits ==
  ASSUME QueTypeOK, QueTypeOK', FlTypeOK, FlInv, Fits, fl.pc \in Carrying,
         ReleaseOne(fl.ac, fl.pkt), fl' = NextPeer, UNCHANGED <<buflist, snd>>
  PROVE  Fits'
<1> DEFINE b == fl.ac
           k == fl.pkt
<1>1. b \in ACs /\ k \in Packets /\ ReleaseOne(b, k)
  BY DEF FlInv, Carrying
<1>2. fl'.pkt = NULL
  BY DEF NextPeer, FlTypeOK
<1>3. Broadcast \in Peers
  BY Constants
<1>4. ASSUME NEW a \in ACs
      PROVE  /\ NumClones'[a] = NumClones[a] - One(k \in Clones /\ b = a)
             /\ NumPlain'[a] = NumPlain[a] - One(k \in Plain /\ b = a)
  <2>1. /\ NumClones'[a] = NumClones[a]
             + (Count(buflist'[Broadcast][a], Clones) - Count(buflist[Broadcast][a], Clones))
             + (Hand(fl', a, Clones) - Hand(fl, a, Clones))
        /\ NumPlain'[a] = NumPlain[a]
             + (Count(buflist'[Broadcast][a], Plain) - Count(buflist[Broadcast][a], Plain))
             + (Hand(fl', a, Plain) - Hand(fl, a, Plain))
    BY <1>3, FlushMoves
  <2>2. /\ Hand(fl', a, Clones) = 0 /\ Hand(fl, a, Clones) = One(k \in Clones /\ b = a)
        /\ Hand(fl', a, Plain) = 0 /\ Hand(fl, a, Plain) = One(k \in Plain /\ b = a)
    BY <1>2, HandIs DEF Hand
  <2>3. /\ Count(buflist[Broadcast][a], Clones) \in Nat
        /\ Count(buflist[Broadcast][a], Plain) \in Nat
    BY <1>3, OfPeerCount, Numbers
  <2>4. NumClones[a] \in Nat /\ NumPlain[a] \in Nat
    BY Numbers
  <2> QED
    BY <2>1, <2>2, <2>3, <2>4 DEF One
<1> HIDE DEF b, k
<1>5. MatchOf(ext', size', NumClones', NumPlain')
  BY <1>1, <1>4, Numbers, ReleasedOne DEF Fits
<1> QED
  BY <1>5 DEF Fits

\* Packets of a station are cancelled.
LEMMA CancelFits ==
  ASSUME QueTypeOK, QueTypeOK', Fits, NEW p \in Peers, NEW S \in SUBSET Packets,
         Cancel(p, S), UNCHANGED <<fl, snd>>
  PROVE  Fits'
<1> DEFINE B == [a \in ACs |-> Kept(buflist[p][a], Packets \ S)]
           C == [a \in ACs |-> Kept(buflist[p][a], S)]
<1>1. \A a \in ACs : buflist[p][a] \in Seq(Packets)
  BY DEF QueTypeOK
<1>2. B \in [ACs -> Seq(Packets)] /\ C \in [ACs -> Seq(Packets)]
  BY <1>1, KeptType
<1>3. Release(B) /\ buflist' = [buflist EXCEPT ![p] = C]
  BY DEF Cancel
<1>4. /\ \A q \in Peers, a \in ACs : q # p => buflist'[q][a] = buflist[q][a]
      /\ \A a \in ACs : buflist'[p][a] = Kept(buflist[p][a], S)
  BY <1>3 DEF QueTypeOK
<1>5. \A a \in ACs : B[a] = Kept(buflist[p][a], Packets \ S)
  OBVIOUS
<1> HIDE DEF B, C
<1>6. ASSUME NEW a \in ACs, NEW T \in {Clones, Plain}
      PROVE  /\ Count(buflist'[p][a], T) - Count(buflist[p][a], T) = 0 - Count(B[a], T)
             /\ Count(B[a], T) \in Nat
  <2>1. T \in SUBSET Packets
    BY DEF Clones, Plain
  <2>2. Count(buflist[p][a], T)
          = Count(Kept(buflist[p][a], S), T) + Count(Kept(buflist[p][a], Packets \ S), T)
    BY <1>1, <2>1, KeptSplit
  <2>3. Count(Kept(buflist[p][a], S), T) \in Nat /\ Count(B[a], T) \in Nat
    BY <1>1, <1>2, KeptType, CountType
  <2>4. /\ Count(buflist'[p][a], T) = Count(Kept(buflist[p][a], S), T)
        /\ Count(B[a], T) = Count(Kept(buflist[p][a], Packets \ S), T)
    BY <1>4, <1>5
  <2> DEFINE x == Count(buflist[p][a], T)
             y == Count(buflist'[p][a], T)
             z == Count(B[a], T)
  <2>5. x = y + z /\ y \in Nat /\ z \in Nat
    BY <2>2, <2>3, <2>4
  <2> HIDE DEF x, y, z
  <2>6. y - x = 0 - z
    BY <2>5
  <2> QED
    BY <2>3, <2>6 DEF x, y, z
<1>7. ASSUME NEW a \in ACs
      PROVE  /\ NumClones'[a] = NumClones[a] - Count(B[a], Clones)
             /\ NumPlain'[a] = NumPlain[a] - Count(B[a], Plain)
  <2>1. /\ NumClones'[a] = NumClones[a]
             + (Count(buflist'[p][a], Clones) - Count(buflist[p][a], Clones))
             + (Hand(fl', a, Clones) - Hand(fl, a, Clones))
        /\ NumPlain'[a] = NumPlain[a]
             + (Count(buflist'[p][a], Plain) - Count(buflist[p][a], Plain))
             + (Hand(fl', a, Plain) - Hand(fl, a, Plain))
    BY <1>4, FlushMoves
  <2>2. Hand(fl, a, Clones) \in Nat /\ Hand(fl, a, Plain) \in Nat
    BY HandIs
  <2>3. NumClones[a] \in Nat /\ NumPlain[a] \in Nat
    BY Numbers
  <2>4. /\ Count(buflist'[p][a], Clones) - Count(buflist[p][a], Clones)
             = 0 - Count(B[a], Clones)
        /\ Count(buflist'[p][a], Plain) - Count(buflist[p][a], Plain)
             = 0 - Count(B[a], Plain)
        /\ Count(B[a], Clones) \in Nat /\ Count(B[a], Plain) \in Nat
    BY <1>6
  <2> QED
    BY <2>1, <2>2, <2>3, <2>4
<1>8. /\ \A a \in ACs : NumClones'[a] = NumClones[a] - Count(B[a], Clones)
      /\ \A a \in ACs : NumPlain'[a] = NumPlain[a] - Count(B[a], Plain)
  BY <1>7
<1>9. MatchOf(ext, size, NumClones, NumPlain)
  BY DEF Fits
<1>10. MatchOf(ext', size', NumClones', NumPlain')
  BY <1>2, <1>3, <1>8, <1>9, Numbers, Released
<1> QED
  BY <1>10 DEF Fits

\* What the tasklet does.
LEMMA FlushFits ==
  ASSUME QueTypeOK, QueTypeOK', FlTypeOK, FlInv, FlInv', Fits, Flush
  PROVE  Fits' \/ stale' = TRUE
<1>0. snd' = snd
  BY FlushKeeps
<1>1. CASE FlushBegin \/ FlushRound \/ FlushProhibited
  <2>1. fl.pc \in {"idle", "peer"} /\ fl'.pc \in {"idle", "peer"}
    <3>1. CASE FlushBegin
      BY <3>1 DEF FlushBegin, LockFree, FlIdle
    <3>2. CASE FlushProhibited
      BY <3>2 DEF FlushProhibited, FlIdle
    <3>3. CASE FlushRound
      <4>1. \/ fl' = [fl EXCEPT !.pos = 1, !.sent = FALSE]
            \/ fl' = FlIdle
            \/ fl' = [fl EXCEPT !.ac = @ - 1, !.pos = 1]
        BY <3>3 DEF FlushRound
      <4>2. fl.pc = "peer"
        BY <3>3 DEF FlushRound
      <4>3. CASE fl' = FlIdle
        BY <4>2, <4>3 DEF FlIdle
      <4>4. CASE fl' # FlIdle
        BY <4>1, <4>2, <4>4 DEF FlTypeOK
      <4> QED
        BY <4>3, <4>4
    <3> QED
      BY <1>1, <3>1, <3>2, <3>3
  <2>2. fl.pkt = NULL /\ fl'.pkt = NULL
    BY <2>1 DEF FlInv
  <2>3. UNCHANGED <<buflist, size, ext>>
    BY <1>1 DEF FlushBegin, FlushRound, FlushProhibited, queVars
  <2> QED
    BY <1>0, <2>2, <2>3, FlushIdleFits
<1>2. CASE FlushGet \/ FlushRead \/ FlushStop \/ (FlushSend /\ fl.msg)
  <2>1. fl'.pkt = fl.pkt /\ fl'.ac = fl.ac
    BY <1>2 DEF FlushGet, FlushRead, FlushStop, FlushSend, FlTypeOK
  <2>2. UNCHANGED <<buflist, size, ext>>
    BY <1>2 DEF FlushGet, FlushRead, FlushStop, FlushSend, queVars
  <2> QED
    BY <1>0, <2>1, <2>2, FlushIdleFits
<1>3. CASE FlushTake \/ FlushFiltered
  BY <1>3, FlushTakeFits
<1>4. CASE FlushSend /\ ~fl.msg
  <2>1. ReleaseOne(fl.ac, fl.pkt) /\ fl' = NextPeer /\ UNCHANGED buflist
    BY <1>4 DEF FlushSend
  <2>2. fl.pc \in Carrying
    BY <1>4 DEF FlushSend, Carrying
  <2> QED
    BY <1>0, <2>1, <2>2, FlushGiveFits
<1>5. CASE FlushCount
  <2>1. fl.pc \in Carrying /\ fl' = NextPeer /\ UNCHANGED buflist
    BY <1>5 DEF FlushCount, Carrying
  <2>2. ReleaseOne(fl.ac, fl.pkt) \/ stale' = TRUE
    BY <1>5 DEF FlushCount
  <2> QED
    BY <1>0, <2>1, <2>2, FlushGiveFits
<1> QED
  BY <1>1, <1>2, <1>3, <1>4, <1>5 DEF Flush

\* What a sender does.
LEMMA SenderFits ==
  ASSUME QueTypeOK, QueTypeOK', SndTypeOK, SndInv, Fits, NEW c \in Senders, SenderStep(c)
  PROVE  Fits'
<1>1. ASSUME NEW p \in listed \cup {Broadcast}, NEW v \in Vaps,
             NEW k \in {"data", "eapol"}, NEW a \in ACs, Transmit(c, p, v, k, a)
      PROVE  Fits'
  BY <1>1, TransmitFits
<1>2. CASE EnqueuePkt(c)
  BY <1>2, EnqueueFits
<1>3. ASSUME NEW v \in Vaps, NEW a \in ACs, CloneBegin(c, v, a)
      PROVE  Fits'
  BY <1>3, CloneBeginFits
<1>4. ASSUME NEW p \in Stations, Clone(c, p)
      PROVE  Fits'
  BY <1>4, CloneFits
<1>5. CASE CloneEnd(c)
  BY <1>5, CloneEndFits
<1> QED
  BY <1>1, <1>2, <1>3, <1>4, <1>5 DEF SenderStep

\* What the requests do.
LEMMA RequestFits ==
  ASSUME QueTypeOK, QueTypeOK', KeyInv, Fits, UNCHANGED <<fl, snd>>,
         \/ KeyStep \/ EndStep \/ (\E p \in Stations : StationStep(p))
         \/ UNCHANGED <<buflist, size, ext>>
  PROVE  Fits'
<1>1. CASE UNCHANGED <<buflist, size, ext>>
  BY <1>1, FlushIdleFits
<1>2. CASE KeyCancel
  <2>1. key.peer \in Peers /\ Cancel(key.peer, Packets)
    BY <1>2 DEF KeyCancel, KeyInv, Peers
  <2> QED
    BY <2>1, CancelFits
<1>3. ASSUME NEW p \in Stations, RemoveSta(p) PROVE Fits'
  <2>1. p \in Peers /\ Cancel(p, Packets)
    BY <1>3 DEF RemoveSta, Peers
  <2> QED
    BY <2>1, CancelFits
<1>4. CASE Cancel(Broadcast, {k \in Packets : k.vap = disc.vap})
  <2>1. Broadcast \in Peers /\ {k \in Packets : k.vap = disc.vap} \in SUBSET Packets
    BY Constants
  <2> QED
    BY <1>4, <2>1, CancelFits
<1>5. KeyStep => KeyCancel \/ UNCHANGED <<buflist, size, ext>>
  BY DEF KeyStep, KeyMsg4, KeyFilter, KeyWait, KeySent, queVars
<1>6. EndStep => \/ Cancel(Broadcast, {k \in Packets : k.vap = disc.vap})
                 \/ UNCHANGED <<buflist, size, ext>>
  BY DEF EndStep, DisconnectAll, DisconnectWait, CleanVap, queVars
<1> QED
  BY <1>1, <1>2, <1>3, <1>4, <1>5, <1>6, StationKeeps

\* A freed clone that was misread is not forgotten.
LEMMA StaleStep ==
  ASSUME [Next]_vars
  PROVE  stale' = stale \/ stale' = TRUE
<1>1. Flush => stale' = stale \/ stale' = TRUE
  BY DEF Flush, FlushBegin, FlushRound, FlushProhibited, FlushFiltered, FlushTake,
         FlushGet, FlushRead, FlushStop, FlushSend, FlushCount, ghosts
<1> QED
  BY <1>1, Groups, StutterKeeps, ScannerKeeps, SenderKeeps, ConfirmKeeps, KeyKeeps,
     StationKeeps, EndKeeps

\* Every step keeps the fit.
LEMMA SizeStep ==
  ASSUME IInv, IInv', SizeInv, [Next]_vars
  PROVE  SizeInv'
<1>0. /\ QueTypeOK /\ QueTypeOK' /\ SndTypeOK /\ SndInv /\ KeyInv /\ FlTypeOK /\ FlInv /\ FlInv'
  BY DEF IInv, TypeOK, ThreadInv
<1>1. CASE stale
  BY <1>1, StaleStep DEF SizeInv
<1>2. CASE Fits
  <2>1. Flush => Fits' \/ stale' = TRUE
    BY <1>0, <1>2, FlushFits
  <2>2. (\E c \in Senders : SenderStep(c)) => Fits'
    BY <1>0, <1>2, SenderFits
  <2>3. UNCHANGED <<buflist, size, ext, fl, snd>> => Fits'
    BY <1>0, <1>2, RequestFits
  <2>4. KeyStep \/ EndStep \/ (\E p \in Stations : StationStep(p)) => Fits'
    BY <1>0, <1>2, RequestFits, KeyKeeps, EndKeeps, StationKeeps
  <2>5. Fits' \/ stale' = TRUE
    BY <2>1, <2>2, <2>3, <2>4, Groups, StutterKeeps, ScannerKeeps, ConfirmKeeps
  <2> QED
    BY <2>5 DEF SizeInv, Fits
<1> QED
  BY <1>1, <1>2 DEF SizeInv, Fits

\* Nothing waits at first.
LEMMA InitSize ==
  ASSUME Init
  PROVE  SizeInv
<1>0. IInv
  BY InitInv
<1>1. QueTypeOK
  BY <1>0 DEF IInv, TypeOK
<1>2. ASSUME NEW a \in ACs, NEW T \in {Clones, Plain}, NEW pc \in {"clone", "queue"}
      PROVE  Total(buflist, fl, snd, T, pc)[a] = 0
  <2>1. WaitOf(buflist, a, T) = {}
    <3>1. \A p \in Peers : buflist[p][a] = <<>>
      BY DEF Init
    <3> QED
      BY <3>1 DEF WaitOf
  <2>2. SendersAt(snd, a, pc) = {}
    BY DEF Init, SndIdle, SendersAt
  <2>3. Hand(fl, a, T) = 0
    <3>1. fl.pkt = NULL
      BY DEF Init, FlIdle
    <3> QED
      BY <3>1, HandIs
  <2>4. Cardinality({}) = 0
    BY FS_EmptySet
  <2> QED
    BY <2>1, <2>2, <2>3, <2>4 DEF Total
<1>3. \A a \in ACs : NumClones[a] = 0 /\ NumPlain[a] = 0
  BY <1>2 DEF NumClones, NumPlain
<1>4. ext.refs = 0 /\ ext.ac \in ACs /\ \A a \in ACs : size[a] = 0
  BY <1>1 DEF Init, QueTypeOK
<1> QED
  BY <1>3, <1>4 DEF SizeInv, MatchOf, One

\* The invariant says what the sizes count.
LEMMA SizeMeans ==
  ASSUME IInv, SizeInv
  PROVE  SizeMatches
<1>0. QueTypeOK /\ SndInv /\ buflist \in Bufs /\ ext.ac \in ACs
  BY DEF IInv, TypeOK, ThreadInv, QueTypeOK, Bufs
<1>1. CASE stale
  BY <1>1 DEF SizeMatches
<1>2. CASE MatchOf(ext, size, NumClones, NumPlain)
  <2>1. ASSUME NEW a \in ACs, NEW T
        PROVE  /\ InQueues(a, T) = Cardinality(WaitOf(buflist, a, T)) + Hand(fl, a, T)
               /\ InQueues(a, T) \in Nat
    <3>1. Places(a, T) = WaitOf(buflist, a, T)
      <4>1. ASSUME NEW x \in Places(a, T) PROVE x \in WaitOf(buflist, a, T)
        <5>1. PICK p \in Peers :
                x \in {p} \X {i \in 1 .. Len(buflist[p][a]) : buflist[p][a][i] \in T}
          BY <4>1 DEF Places
        <5>2. x = <<p, x[2]>> /\ x[2] \in 1 .. Len(buflist[p][a]) /\ buflist[p][a][x[2]] \in T
          BY <5>1
        <5>3. x[2] \in Nat
          BY <1>0, <5>2 DEF Bufs
        <5> QED
          BY <5>2, <5>3 DEF WaitOf
      <4>2. ASSUME NEW x \in WaitOf(buflist, a, T) PROVE x \in Places(a, T)
        <5>1. /\ x[1] \in Peers /\ x = <<x[1], x[2]>>
              /\ x[2] \in {i \in 1 .. Len(buflist[x[1]][a]) : buflist[x[1]][a][i] \in T}
          BY <4>2 DEF WaitOf
        <5>2. x \in {x[1]} \X {i \in 1 .. Len(buflist[x[1]][a]) : buflist[x[1]][a][i] \in T}
          BY <5>1
        <5> QED
          BY <5>1, <5>2 DEF Places
      <4> QED
        BY <4>1, <4>2
    <3>2. Cardinality(WaitOf(buflist, a, T)) \in Nat
      BY <1>0, WaitFinite
    <3>3. Hand(fl, a, T) = One(fl.pkt \in T /\ fl.ac = a) /\ Hand(fl, a, T) \in Nat
      BY DEF Hand, One
    <3> QED
      BY <3>1, <3>2, <3>3 DEF InQueues
  <2>2. \A a \in ACs : \A pc :
          IsFiniteSet(SendersAt(snd, a, pc)) /\ Cardinality(SendersAt(snd, a, pc)) \in Nat
    BY UsersAssumption, FS_Subset, FS_CardinalityType DEF SendersAt
  <2>3. \A a \in ACs :
          /\ NumClones[a] = InQueues(a, Clones) + Cardinality(SendersAt(snd, a, "clone"))
          /\ NumPlain[a] = InQueues(a, Plain) + Cardinality(SendersAt(snd, a, "queue"))
    BY <2>1 DEF NumClones, NumPlain, Total
  <2>4. \A a \in ACs \ {ext.ac} : InQueues(a, Clones) = 0 /\ SendersAt(snd, a, "clone") = {}
    <3> TAKE a \in ACs \ {ext.ac}
    <3>1. NumClones[a] = 0
      BY <1>2 DEF MatchOf
    <3>2. InQueues(a, Clones) = 0 /\ Cardinality(SendersAt(snd, a, "clone")) = 0
      BY <2>1, <2>2, <2>3, <3>1
    <3> QED
      BY <2>2, <3>2, FS_EmptySet
  <2>5. \A c \in Senders : snd[c].pc = "clone" => snd[c].ac = ext.ac
    BY <1>0, <2>4 DEF SndInv, SendersAt
  <2>6. SendersAt(snd, ext.ac, "clone") = {c \in Senders : snd[c].pc = "clone"}
    BY <2>5 DEF SendersAt
  <2>7. RefsMatch
    <3>1. ext.refs = InQueues(ext.ac, Clones) + Cardinality({c \in Senders : snd[c].pc = "clone"})
      BY <1>0, <1>2, <2>3, <2>6 DEF MatchOf
    <3> QED
      BY <2>4, <2>5, <3>1 DEF RefsMatch
  <2>8. \A a \in ACs :
          SendersAt(snd, a, "queue") = {c \in Senders : snd[c].pc = "queue" /\ snd[c].ac = a}
    BY DEF SendersAt
  <2>9. \A a \in ACs :
          size[a] = InQueues(a, Plain)
                      + Cardinality({c \in Senders : snd[c].pc = "queue" /\ snd[c].ac = a})
                      + One(ext.refs > 0 /\ ext.ac = a)
    BY <1>2, <2>3, <2>8 DEF MatchOf
  <2> QED
    BY <2>7, <2>9 DEF SizeMatches
<1> QED
  BY <1>1, <1>2 DEF SizeInv

\* Whatever the order in which senders, tasklet and requests queue, clone, drop,
\* send and cancel packets, the size of a category counts what waits in it and
\* the shared part of a multicast counts its clones, unless the tasklet misread a
\* clone that was freed under it.
THEOREM SizeMatchesCorrect == Spec => []SizeMatches
<1>1. Init => SizeInv
  BY InitSize
<1>2. IInv /\ IInv' /\ SizeInv /\ [Next]_vars => SizeInv'
  BY SizeStep
<1>3. IInv /\ SizeInv => SizeMatches
  BY SizeMeans
<1> QED
  BY <1>1, <1>2, <1>3, Invariance, PTL DEF Spec
=============================================================================
