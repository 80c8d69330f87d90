--------------------------------- MODULE Sq ---------------------------------
(* The transmit path: the send queue with its traffic shaper (mtlk_sq.c,      *)
(* mtlk_sq_osdep.c), the flow control (mtlkflctrl.c), the pool of data        *)
(* descriptors of the hardware layer (hw_mmb.c) and what the core does around *)
(* them (core.c): transmission, confirmation, setting of a key, disconnection.*)
(*                                                                            *)
(* Four kinds of threads meet here.  Senders put packets into the queue of    *)
(* their station.  One tasklet flushes the queues to the firmware; Linux      *)
(* never runs it on two CPUs at once and nothing else calls mtlk_sq_flush, so *)
(* flush_in_progress is never found set and the loop of mtlk_sq_flush runs    *)
(* once.  The handler of confirmations runs on any CPU without queue_lock.    *)
(* Requests of the user set keys and remove stations.                         *)
(*                                                                            *)
(* The tasklet holds queue_lock from FlushBegin to its end; every other       *)
(* holder of the lock is one action that needs LockFree.                      *)
EXTENDS Integers, Sequences, FiniteSets, Lists

CONSTANTS
  Stations,      \* entries of the station database
  Broadcast,     \* the pseudo station of packets without a station
  Vaps, VapOf,   \* virtual access points and the one of every station
  Scanner,       \* another user of the flow control (scan, radar)
  Senders,       \* contexts that transmit
  NACs,          \* access categories, the highest is NACs
  PoolSize,      \* data descriptors
  LimitCfg,      \* packets of one station in the firmware
  PmLimit,       \* the same while the station saves power
  GlobalLimit, PeerLimit,  \* packets queued in one category: all, per station
  MaxPackets,    \* bound: packets sent
  MaxRequests,   \* bound: requests, power-save changes and stops by the scanner
  NULL

ASSUME StationsAssumption ==
  Broadcast \notin Stations /\ IsFiniteSet(Stations) /\ VapOf \in [Stations -> Vaps]
ASSUME UsersAssumption ==
  /\ Vaps # {} /\ IsFiniteSet(Vaps) /\ Scanner \notin Vaps
  /\ IsFiniteSet(Senders)
ASSUME NullAssumption ==
  NULL \notin Stations \cup {Broadcast} \cup [vap : Vaps, kind : {"data", "eapol", "clone"}]
ASSUME BoundsAssumption ==
  /\ {NACs, PoolSize, LimitCfg, PmLimit, GlobalLimit, PeerLimit} \subseteq Nat \ {0}
  /\ {MaxPackets, MaxRequests} \subseteq Nat

Peers == Stations \cup {Broadcast}
ACs == 1 .. NACs
Kinds == {"data", "eapol", "clone"}
Packets == [vap : Vaps, kind : Kinds]
\* What a busy descriptor holds; `cur` marks the packet the tasklet is handing
\* over and has not counted yet, peer NULL a keep-alive packet.
Descs == [peer : Peers \cup {NULL}, vap : Vaps, cur : BOOLEAN]

VARIABLES
  is_ap,         \* the interface is an access point; fixed in the initial state
  order,         \* per category: the list of stations
  buflist,       \* per station and category: the packets that wait
  size,          \* per category: peer_queue.size
  ext,           \* the shared part of the multicast clones: references, category
  used, limit,   \* per station: packets in the firmware, how many may be
  filter,        \* per station: the packets filter
  listed,        \* stations of the database
  free,          \* tx_data_nof_free_bds
  hw,            \* how many descriptors of each kind the firmware has
  stops,         \* stop_requests_mask
  prohibited,    \* hw_tx_prohibited
  scheduled,     \* the flush tasklet is scheduled
  fl,            \* the tasklet
  cfm,           \* the handler of confirmations
  snd,           \* the senders
  key,           \* the request that sets a key
  disc,          \* the request that disconnects a virtual access point
  npackets, nrequests,
  early,         \* ghost: the tasklet found a station full whose confirmation
                 \* had scheduled it already
  stale          \* ghost: the flags of a freed clone were read as cleared

queVars == <<order, buflist, size, ext>>
peerVars == <<used, limit, filter, listed>>
hwVars == <<free, hw>>
flowVars == <<stops, prohibited>>
bounds == <<npackets, nrequests>>
ghosts == <<early, stale>>
procVars == <<fl, cfm, snd, key, disc>>
vars == <<is_ap, queVars, peerVars, hwVars, flowVars, scheduled, procVars, bounds,
          ghosts>>

FlIdle == [pc |-> "idle", ac |-> 0, pos |-> 0, sent |-> FALSE, peer |-> NULL,
           pkt |-> NULL, msg |-> FALSE]
CfmIdle == [pc |-> "idle", desc |-> NULL, res |-> 0, flowing |-> FALSE]
SndIdle == [pc |-> "idle", peer |-> NULL, ac |-> 0, pkt |-> NULL, left |-> {}]
KeyIdle == [pc |-> "idle", peer |-> NULL, stored |-> NULL, len |-> FALSE]
DiscIdle == [pc |-> "idle", vap |-> NULL, left |-> {}, all |-> FALSE]

Filters == {"all", "802_1x", "none"}

QueTypeOK ==
  /\ order \in [ACs -> Seq(Peers)]
  /\ buflist \in [Peers -> [ACs -> Seq(Packets)]]
  /\ size \in [ACs -> Int]
  /\ ext \in [refs : Int, ac : ACs]
PeerTypeOK ==
  /\ used \in [Peers -> Int] /\ limit \in [Peers -> {LimitCfg, PmLimit}]
  /\ filter \in [Peers -> Filters] /\ listed \subseteq Stations
HwTypeOK ==
  /\ free \in 0 .. PoolSize /\ hw \in [Descs -> 0 .. PoolSize]
  /\ stops \subseteq Vaps \cup {Scanner} /\ prohibited = (stops # {})
  /\ {is_ap, scheduled, early, stale} \subseteq BOOLEAN
  /\ npackets \in 0 .. MaxPackets /\ nrequests \in 0 .. MaxRequests
FlTypeOK ==
  fl \in [pc : {"idle", "peer", "get", "read", "stop", "send", "count"},
          ac : 0 .. NACs, pos : Nat, sent : BOOLEAN, peer : Peers \cup {NULL},
          pkt : Packets \cup {NULL}, msg : BOOLEAN]
CfmTypeOK ==
  cfm \in [pc : {"idle", "wake", "used", "free"}, desc : Descs \cup {NULL},
           res : 0 .. PoolSize, flowing : BOOLEAN]
SndTypeOK ==
  snd \in [Senders -> [pc : {"idle", "queue", "clone"}, peer : Peers \cup {NULL},
                       ac : 0 .. NACs, pkt : Packets \cup {NULL},
                       left : SUBSET Stations]]
KeyTypeOK ==
  key \in [pc : {"idle", "msg4", "filter", "cancel", "wait", "send"},
           peer : Stations \cup {NULL}, stored : Filters \cup {NULL}, len : BOOLEAN]
DiscTypeOK ==
  disc \in [pc : {"idle", "wait", "remove", "clean"}, vap : Vaps \cup {NULL},
            left : SUBSET Stations, all : BOOLEAN]

\* What the threads and the queues hold; the flow is prohibited exactly while
\* somebody holds it (mtlkflctrl.c).
TypeOK == /\ QueTypeOK /\ PeerTypeOK /\ HwTypeOK
          /\ FlTypeOK /\ CfmTypeOK /\ SndTypeOK /\ KeyTypeOK /\ DiscTypeOK

Init ==
  /\ is_ap \in BOOLEAN
  /\ order = [a \in ACs |-> <<Broadcast>>]
  /\ buflist = [p \in Peers |-> [a \in ACs |-> <<>>]]
  /\ size = [a \in ACs |-> 0]
  /\ ext = [refs |-> 0, ac |-> 1]
  /\ used = [p \in Peers |-> 0] /\ limit = [p \in Peers |-> LimitCfg]
  /\ filter = [p \in Peers |-> "all"] /\ listed = {}
  /\ free = PoolSize /\ hw = [d \in Descs |-> 0]
  /\ stops = {} /\ prohibited = FALSE /\ scheduled = FALSE
  /\ fl = FlIdle /\ cfm = CfmIdle /\ snd = [c \in Senders |-> SndIdle]
  /\ key = KeyIdle /\ disc = DiscIdle
  /\ npackets = 0 /\ nrequests = 0 /\ early = FALSE /\ stale = FALSE

LockFree == fl.pc = "idle"

\* Counts what the bound is about.
Request == nrequests < MaxRequests /\ nrequests' = nrequests + 1 /\ UNCHANGED npackets

-----------------------------------------------------------------------------
(* Flow control.                                                            *)

\* mtlk_flctrl_stop_data; the callback disables the queue.
StopData(id) == stops' = stops \cup {id} /\ prohibited' = TRUE

\* Mutated form: the flow starts although others hold it.
StartDataAlways(id) ==
  stops' = stops \ {id} /\ prohibited' = FALSE /\ scheduled' = TRUE

\* Mutated form: the queue is enabled but not flushed.
StartDataNoFlush(id) ==
  /\ stops' = stops \ {id}
  /\ prohibited' = (stops' # {})
  /\ UNCHANGED scheduled

\* mtlk_flctrl_start_data; the callback enables the queue and schedules a flush.
StartData(id) ==
  /\ stops' = stops \ {id}
  /\ IF stops' = {} THEN prohibited' = FALSE /\ scheduled' = TRUE
     ELSE UNCHANGED <<prohibited, scheduled>>

\* The other user of the flow control stops and starts.
ScannerStops ==
  /\ Scanner \notin stops
  /\ StopData(Scanner)
  /\ Request
  /\ UNCHANGED <<queVars, peerVars, hwVars, scheduled, procVars, ghosts>>

ScannerStarts ==
  /\ Scanner \in stops
  /\ StartData(Scanner)
  /\ UNCHANGED <<queVars, peerVars, hwVars, procVars, bounds, ghosts>>

-----------------------------------------------------------------------------
(* Queues.                                                                  *)

Clones == {k \in Packets : k.kind = "clone"}
Plain == Packets \ Clones

\* Mutated form: every clone is taken off the size.
ReleaseEach(B) ==
  /\ ext' = [ext EXCEPT !.refs = @ - Count(B[ext.ac], Clones)]
  /\ size' = [a \in ACs |-> size[a] - Len(B[a])]

\* _mtlk_sq_release_packet for every packet of B (a sequence per category):
\* a clone gives up its reference, and the last one takes the group off the size.
\* The clones of a multicast are all in the category of their shared part.
Release(B) ==
  LET n == Count(B[ext.ac], Clones)
      last == n > 0 /\ ext.refs = n
  IN /\ ext' = [ext EXCEPT !.refs = @ - n]
     /\ size' = [a \in ACs |-> size[a] - Count(B[a], Plain)
                                 - (IF last /\ a = ext.ac THEN 1 ELSE 0)]

ReleaseOne(ac, k) == Release([a \in ACs |-> IF a = ac THEN <<k>> ELSE <<>>])

\* Neither limit of mtlk_sq_enqueue_pkt is reached; mtlk_osal_atomic_get returns
\* an unsigned number, so that a size below zero is beyond every limit.
HasRoom(p, ac) ==
  size[ac] \in 0 .. GlobalLimit - 1 /\ Len(buflist[p][ac]) < PeerLimit

\* The packets of a station that are in S are released and freed
\* (mtlk_sq_peer_ctx_cleanup, _cancel_all_packets, _cancel_all_packets_for_vap).
Cancel(p, S) ==
  /\ LockFree
  /\ Release([a \in ACs |-> Kept(buflist[p][a], Packets \ S)])
  /\ buflist' = [buflist EXCEPT ![p] = [a \in ACs |-> Kept(buflist[p][a], S)]]

-----------------------------------------------------------------------------
(* Senders.                                                                 *)

\* mtlk_sq_enqueue counts the packet before it has the lock; 802.1X packets are
\* urgent and go to the front of the highest category.
Transmit(c, p, v, kind, a) ==
  /\ snd[c].pc = "idle" /\ npackets < MaxPackets
  /\ p \in listed => v = VapOf[p]
  /\ kind = "eapol" => p \in listed /\ a = NACs
  /\ size' = [size EXCEPT ![a] = @ + 1]
  /\ snd' = [snd EXCEPT ![c] = [SndIdle EXCEPT !.pc = "queue", !.peer = p, !.ac = a,
                                               !.pkt = [vap |-> v, kind |-> kind]]]
  /\ npackets' = npackets + 1 /\ UNCHANGED nrequests
  /\ UNCHANGED <<order, buflist, ext, peerVars, hwVars, flowVars, scheduled,
                 fl, cfm, key, disc, ghosts>>

\* mtlk_sq_enqueue_pkt, and mtlk_sq_schedule_flush if it took the packet.
EnqueuePkt(c) ==
  LET s == snd[c]
      front == s.pkt.kind = "eapol"
  IN /\ s.pc = "queue" /\ LockFree
     /\ IF front \/ HasRoom(s.peer, s.ac)
        THEN /\ buflist' = [buflist EXCEPT ![s.peer][s.ac] =
                              IF front THEN <<s.pkt>> \o @ ELSE Append(@, s.pkt)]
             /\ scheduled' = TRUE
             /\ UNCHANGED size
        ELSE /\ size' = [size EXCEPT ![s.ac] = @ - 1]
             /\ UNCHANGED <<buflist, scheduled>>
     /\ snd' = [snd EXCEPT ![c] = SndIdle]
     /\ UNCHANGED <<order, ext, peerVars, hwVars, flowVars, fl, cfm, key, disc,
                    bounds, ghosts>>

\* mtlk_mc_transmit makes clones on an access point only, and calls
\* mtlk_sq_enqueue_clone_begin; the model has one multicast at a time.
CloneBegin(c, v, a) ==
  /\ is_ap /\ snd[c].pc = "idle" /\ npackets < MaxPackets
  /\ ext.refs = 0
  /\ ext' = [refs |-> 1, ac |-> a]
  /\ size' = [size EXCEPT ![a] = @ + 1]
  /\ snd' = [snd EXCEPT ![c] = [SndIdle EXCEPT !.pc = "clone", !.ac = a,
                                  !.pkt = [vap |-> v, kind |-> "clone"],
                                  !.left = {p \in listed : VapOf[p] = v}]]
  /\ npackets' = npackets + 1 /\ UNCHANGED nrequests
  /\ UNCHANGED <<order, buflist, peerVars, hwVars, flowVars, scheduled, fl, cfm,
                 key, disc, ghosts>>

\* mtlk_sq_enqueue_clone: a clone takes a reference if it can be made and queued.
Clone(c, p) ==
  LET s == snd[c]
  IN /\ s.pc = "clone" /\ p \in s.left /\ LockFree
     /\ \/ /\ HasRoom(p, s.ac)
           /\ buflist' = [buflist EXCEPT ![p][s.ac] = Append(@, s.pkt)]
           /\ ext' = [ext EXCEPT !.refs = @ + 1]
        \/ UNCHANGED <<buflist, ext>>
     /\ snd' = [snd EXCEPT ![c].left = @ \ {p}]
     /\ UNCHANGED <<order, size, peerVars, hwVars, flowVars, scheduled, fl, cfm,
                    key, disc, bounds, ghosts>>

\* mtlk_sq_enqueue_clone_end and mtlk_sq_schedule_flush.
CloneEnd(c) ==
  /\ snd[c].pc = "clone" /\ snd[c].left = {}
  /\ ReleaseOne(snd[c].ac, snd[c].pkt)
  /\ scheduled' = TRUE
  /\ snd' = [snd EXCEPT ![c] = SndIdle]
  /\ UNCHANGED <<order, buflist, peerVars, hwVars, flowVars, fl, cfm, key, disc,
                 bounds, ghosts>>

\* mtlk_send_null_packet: a keep-alive packet bypasses queue and flow control.
SendNullPacket(p) ==
  /\ p \in listed /\ free > 0 /\ npackets < MaxPackets
  /\ free' = free - 1
  /\ hw' = [hw EXCEPT ![[peer |-> NULL, vap |-> VapOf[p], cur |-> FALSE]] = @ + 1]
  /\ npackets' = npackets + 1 /\ UNCHANGED nrequests
  /\ UNCHANGED <<queVars, peerVars, flowVars, scheduled, procVars, ghosts>>

-----------------------------------------------------------------------------
(* The flush tasklet: mtlk_sq_flush, process_packets_by_ac, mtlk_xmit.       *)

FlushBegin ==
  /\ LockFree /\ scheduled
  /\ scheduled' = FALSE
  /\ fl' = [FlIdle EXCEPT !.pc = "peer", !.ac = NACs, !.pos = 1]
  /\ early' = FALSE
  /\ UNCHANGED <<queVars, peerVars, hwVars, flowVars, cfm, snd, key, disc, bounds,
                 stale>>

\* Positions of the stations of the category that still have packets.
Waiting == {i \in fl.pos .. Len(order[fl.ac]) :
              buflist[order[fl.ac][i]][fl.ac] # <<>>}

\* The position of the station at which the loop looks next, and the station.
At == CHOOSE i \in Waiting : \A j \in Waiting : i <= j
PeerAt == order[fl.ac][At]
HeadPkt == Head(buflist[PeerAt][fl.ac])

\* Both are read as unsigned numbers.
Full(p) == used[p] \notin 0 .. limit[p] - 1
RoundEnds == Waiting # {} => Full(PeerAt)

\* The inner loop ends after the last station or at one that is full; the outer
\* loop repeats it until it sends nothing, then the list is shifted and the
\* next category follows.
FlushRound ==
  /\ fl.pc = "peer" /\ RoundEnds
  /\ IF fl.sent
     THEN fl' = [fl EXCEPT !.pos = 1, !.sent = FALSE] /\ UNCHANGED order
     ELSE /\ order' = [order EXCEPT ![fl.ac] = Append(Tail(@), Head(@))]
          /\ fl' = IF fl.ac = 1 THEN FlIdle
                   ELSE [fl EXCEPT !.ac = @ - 1, !.pos = 1]
  /\ early' = (early \/ (Waiting # {} /\ cfm.pc = "used"
                                      /\ cfm.desc.peer = PeerAt))
  /\ UNCHANGED <<buflist, size, ext, peerVars, hwVars, flowVars, scheduled, cfm, snd,
                 key, disc, bounds, stale>>

\* Transmission is prohibited: the packet goes back and the flush ends.
FlushProhibited ==
  /\ fl.pc = "peer" /\ ~RoundEnds
  /\ prohibited
  /\ fl' = FlIdle
  /\ UNCHANGED <<queVars, peerVars, hwVars, flowVars, scheduled, cfm, snd, key, disc,
                 bounds, ghosts>>

\* The stations a packet of the queue of p goes to: on a station interface what
\* is not unicast goes to the access point, if there is one, though it waits in
\* the queue of broadcasts and is counted there.
Receivers(p) == IF p \in Stations THEN {p} ELSE IF is_ap THEN {} ELSE listed

\* mtlk_xmit looks at the packets filter of the station.
Allowed(p, k) == \A q \in Receivers(p) :
                   filter[q] = "all" \/ (filter[q] = "802_1x" /\ k.kind = "eapol")

Pop(p, a) == buflist' = [buflist EXCEPT ![p][a] = Tail(@)]

FlushFiltered ==
  /\ fl.pc = "peer" /\ ~RoundEnds
  /\ ~prohibited /\ ~Allowed(PeerAt, HeadPkt)
  /\ Pop(PeerAt, fl.ac) /\ ReleaseOne(fl.ac, HeadPkt)
  /\ fl' = [fl EXCEPT !.pos = At + 1, !.sent = TRUE]
  /\ UNCHANGED <<order, peerVars, hwVars, flowVars, scheduled, cfm, snd, key, disc,
                 bounds, ghosts>>

FlushTake ==
  /\ fl.pc = "peer" /\ ~RoundEnds
  /\ ~prohibited /\ Allowed(PeerAt, HeadPkt)
  /\ Pop(PeerAt, fl.ac)
  /\ fl' = [fl EXCEPT !.pc = "get", !.pos = At, !.peer = PeerAt, !.pkt = HeadPkt]
  /\ UNCHANGED <<order, size, ext, peerVars, hwVars, flowVars, scheduled, cfm, snd,
                 key, disc, bounds, ghosts>>

\* get_msg_to_send takes a descriptor under the lock of the pool ...
FlushGet ==
  /\ fl.pc = "get"
  /\ free' = IF free > 0 THEN free - 1 ELSE free
  /\ fl' = [fl EXCEPT !.pc = "read", !.msg = (free > 0)]
  /\ UNCHANGED <<queVars, peerVars, hw, flowVars, scheduled, cfm, snd, key, disc,
                 bounds, ghosts>>

\* ... and reads how many are left without it.
FlushRead ==
  /\ fl.pc = "read"
  /\ fl' = [fl EXCEPT !.pc = IF free = 0 THEN "stop" ELSE "send"]
  /\ UNCHANGED <<queVars, peerVars, hwVars, flowVars, scheduled, cfm, snd, key, disc,
                 bounds, ghosts>>

FlushStop ==
  /\ fl.pc = "stop"
  /\ StopData(fl.pkt.vap)
  /\ fl' = [fl EXCEPT !.pc = "send"]
  /\ UNCHANGED <<queVars, peerVars, hwVars, scheduled, cfm, snd, key, disc, bounds,
                 ghosts>>

CurDesc == [peer |-> fl.peer, vap |-> fl.pkt.vap, cur |-> TRUE]

\* The loop goes on behind the station.
NextPeer == [fl EXCEPT !.pc = "peer", !.pos = @ + 1, !.sent = TRUE,
                       !.peer = NULL, !.pkt = NULL, !.msg = FALSE]

\* The packet goes to the firmware; without a descriptor it is dropped.
FlushSend ==
  /\ fl.pc = "send"
  /\ IF fl.msg
     THEN /\ hw' = [hw EXCEPT ![CurDesc] = @ + 1]
          /\ fl' = [fl EXCEPT !.pc = "count"]
          /\ UNCHANGED <<size, ext>>
     ELSE /\ ReleaseOne(fl.ac, fl.pkt)
          /\ fl' = NextPeer
          /\ UNCHANGED hw
  /\ UNCHANGED <<order, buflist, peerVars, free, flowVars, scheduled, cfm, snd, key,
                 disc, bounds, ghosts>>

\* The confirmation has been handled already and has freed the packet.
Freed == hw[CurDesc] = 0 /\ ~(cfm.pc \in {"wake", "used"} /\ cfm.desc.cur)

\* After the packet was handed over it is released and counted.  The flags of a
\* packet that is freed by now are what the memory holds: unchanged, or cleared
\* by its next use, and then a clone is taken for an ordinary packet.
FlushCount ==
  /\ fl.pc = "count"
  /\ \/ ReleaseOne(fl.ac, fl.pkt) /\ UNCHANGED stale
     \/ /\ Freed /\ fl.pkt \in Clones
        /\ ReleaseOne(fl.ac, [fl.pkt EXCEPT !.kind = "data"])
        /\ stale' = TRUE
  /\ used' = [used EXCEPT ![fl.peer] = @ + 1]
  /\ hw' = [hw EXCEPT ![CurDesc] = 0, ![[CurDesc EXCEPT !.cur = FALSE]] = @ + hw[CurDesc]]
  /\ cfm' = IF cfm.pc = "idle" THEN cfm ELSE [cfm EXCEPT !.desc.cur = FALSE]
  /\ fl' = NextPeer
  /\ UNCHANGED <<order, buflist, limit, filter, listed, free, flowVars, scheduled, snd,
                 key, disc, bounds, early>>

Flush == FlushBegin \/ FlushRound \/ FlushProhibited \/ FlushFiltered \/ FlushTake
           \/ FlushGet \/ FlushRead \/ FlushStop \/ FlushSend \/ FlushCount

-----------------------------------------------------------------------------
(* Confirmations: _mtlk_mmb_handle_dat_cfm, _mtlk_core_release_tx_data.      *)

\* The number of free descriptors is read before its own is given back, and
\* both it and the state of the flow control are used after they are read.
Confirm(d) ==
  /\ cfm.pc = "idle" /\ hw[d] > 0
  /\ hw' = [hw EXCEPT ![d] = @ - 1]
  /\ cfm' = [pc |-> "wake", desc |-> d, res |-> free, flowing |-> (stops = {})]
  /\ UNCHANGED <<queVars, peerVars, free, flowVars, scheduled, fl, snd, key, disc,
                 bounds, ghosts>>

ConfirmWake ==
  /\ cfm.pc = "wake"
  /\ IF cfm.res = 0 THEN UNCHANGED <<flowVars, scheduled>>
     ELSE IF cfm.flowing THEN scheduled' = TRUE /\ UNCHANGED flowVars
     ELSE StartData(cfm.desc.vap)
  /\ cfm' = [cfm EXCEPT !.pc = "used"]
  /\ UNCHANGED <<queVars, peerVars, hwVars, fl, snd, key, disc, bounds, ghosts>>

\* Mutated form: only packets of stations are taken off.
ConfirmUsedStations ==
  /\ cfm.pc = "used"
  /\ used' = [p \in Peers |-> IF p = cfm.desc.peer /\ p \in Stations
                              THEN used[p] - 1 ELSE used[p]]
  /\ cfm' = [cfm EXCEPT !.pc = "free"]
  /\ UNCHANGED <<queVars, limit, filter, listed, hwVars, flowVars, scheduled, fl, snd,
                 key, disc, bounds, ghosts>>

\* mtlk_sq_on_tx_cfm, not for keep-alive packets; the packet is freed.
ConfirmUsed ==
  /\ cfm.pc = "used"
  /\ used' = [p \in Peers |-> IF p = cfm.desc.peer THEN used[p] - 1 ELSE used[p]]
  /\ cfm' = [cfm EXCEPT !.pc = "free"]
  /\ UNCHANGED <<queVars, limit, filter, listed, hwVars, flowVars, scheduled, fl, snd,
                 key, disc, bounds, ghosts>>

\* _mtlk_mmb_free_sent_msg_to_data_pool.
ConfirmFree ==
  /\ cfm.pc = "free"
  /\ free' = free + 1
  /\ cfm' = CfmIdle
  /\ UNCHANGED <<queVars, peerVars, hw, flowVars, scheduled, fl, snd, key, disc,
                 bounds, ghosts>>

ConfirmStep == ConfirmWake \/ ConfirmUsed \/ ConfirmFree

-----------------------------------------------------------------------------
(* Requests: they run in the serializer, one at a time.                     *)

NoRequest == key.pc = "idle" /\ disc.pc = "idle"

\* The busy descriptors, those of one kind numbered, and how many belong to p.
Busy == {x \in Descs \X (1 .. PoolSize) : x[2] <= hw[x[1]]}
InHw(p) == Cardinality({x \in Busy : x[1].peer = p})

\* Nothing references the entry of a station any more.
Unreferenced(p) ==
  /\ \A a \in ACs : buflist[p][a] = <<>>
  /\ InHw(p) = 0 /\ fl.peer # p
  /\ cfm.pc \in {"wake", "used"} => cfm.desc.peer # p
  /\ \A c \in Senders : snd[c].peer # p /\ p \notin snd[c].left

\* mtlk_stadb_add_sta with mtlk_sq_peer_ctx_init; the only station a station
\* interface knows is its access point.
AddSta(p) ==
  /\ p \notin listed /\ Unreferenced(p) /\ NoRequest /\ LockFree
  /\ is_ap \/ listed = {}
  /\ listed' = listed \cup {p}
  /\ order' = [a \in ACs |-> <<p>> \o order[a]]
  /\ used' = [used EXCEPT ![p] = 0] /\ limit' = [limit EXCEPT ![p] = LimitCfg]
  /\ filter' = [filter EXCEPT ![p] = "all"]
  /\ UNCHANGED <<buflist, size, ext, hwVars, flowVars, scheduled, procVars, bounds,
                 ghosts>>

\* _handle_pm_update_event with mtlk_sq_set_pm_enabled.
PmUpdate(p, enabled) ==
  /\ p \in listed
  /\ limit' = [limit EXCEPT ![p] = IF enabled /\ PmLimit < LimitCfg THEN PmLimit ELSE LimitCfg]
  /\ scheduled' = (scheduled \/ ~enabled)
  /\ Request
  /\ UNCHANGED <<queVars, used, filter, listed, hwVars, flowVars, procVars, ghosts>>

\* _mtlk_core_set_encext_cfg for the pairwise key of a station; len tells a new
\* key from the removal of one.
KeyBegin(p, len) ==
  /\ NoRequest /\ p \in listed
  /\ filter' = IF len THEN filter ELSE [filter EXCEPT ![p] = "802_1x"]
  /\ key' = [KeyIdle EXCEPT !.pc = IF len /\ ~is_ap THEN "msg4" ELSE "filter",
                            !.peer = p, !.len = len]
  /\ Request
  /\ UNCHANGED <<queVars, used, limit, listed, hwVars, flowVars, scheduled, fl, cfm,
                 snd, disc, ghosts>>

\* "Don't set the key until msg4 is sent to MAC": polls used.
KeyMsg4 ==
  /\ key.pc = "msg4" /\ used[key.peer] = 0
  /\ key' = [key EXCEPT !.pc = "filter"]
  /\ UNCHANGED <<queVars, peerVars, hwVars, flowVars, scheduled, fl, cfm, snd, disc,
                 bounds, ghosts>>

KeyFilter ==
  /\ key.pc = "filter"
  /\ key' = [key EXCEPT !.pc = "cancel", !.stored = filter[key.peer]]
  /\ filter' = [filter EXCEPT ![key.peer] = "none"]
  /\ UNCHANGED <<queVars, used, limit, listed, hwVars, flowVars, scheduled, fl, cfm,
                 snd, disc, bounds, ghosts>>

\* Mutated form: the wait begins without the lock, as in mtlk_stadb_disconnect_all.
KeyCancelUnlocked ==
  /\ key.pc = "cancel"
  /\ key' = [key EXCEPT !.pc = "wait"]
  /\ UNCHANGED <<queVars, peerVars, hwVars, flowVars, scheduled, fl, cfm, snd, disc,
                 bounds, ghosts>>

KeyCancel ==
  /\ key.pc = "cancel"
  /\ Cancel(key.peer, Packets)
  /\ key' = [key EXCEPT !.pc = "wait"]
  /\ UNCHANGED <<order, peerVars, hwVars, flowVars, scheduled, fl, cfm, snd, disc,
                 bounds, ghosts>>

\* mtlk_sq_wait_all_packets_confirmed.
KeyWait ==
  /\ key.pc = "wait" /\ used[key.peer] = 0
  /\ key' = [key EXCEPT !.pc = "send"]
  /\ UNCHANGED <<queVars, peerVars, hwVars, flowVars, scheduled, fl, cfm, snd, disc,
                 bounds, ghosts>>

\* The message to the firmware returns: the filter is restored, and opened if a
\* key was set; a WEP key is followed by the default key.
KeySent ==
  /\ key.pc = "send"
  /\ \/ /\ key' = [key EXCEPT !.pc = "filter"]
        /\ filter' = [filter EXCEPT ![key.peer] = key.stored]
     \/ /\ key' = KeyIdle
        /\ \E ok \in BOOLEAN :
             filter' = [filter EXCEPT ![key.peer] =
                          IF ok /\ key.len THEN "all" ELSE key.stored]
  /\ UNCHANGED <<queVars, used, limit, listed, hwVars, flowVars, scheduled, fl, cfm,
                 snd, disc, bounds, ghosts>>

KeyStep == KeyMsg4 \/ KeyFilter \/ KeyCancel \/ KeyWait \/ KeySent

\* mtlk_stadb_disconnect_all: all stations of an access point.
DisconnectAll(v) ==
  /\ NoRequest /\ is_ap
  /\ disc' = [pc |-> "wait", vap |-> v, all |-> TRUE,
              left |-> {p \in listed : VapOf[p] = v}]
  /\ filter' = [p \in Peers |-> IF p \in disc'.left THEN "none" ELSE filter[p]]
  /\ Request
  /\ UNCHANGED <<queVars, used, limit, listed, hwVars, flowVars, scheduled, fl, cfm,
                 snd, key, ghosts>>

DisconnectWait ==
  /\ disc.pc = "wait"
  /\ \A p \in disc.left : used[p] = 0
  /\ disc' = [disc EXCEPT !.pc = IF disc.left = {} THEN "clean" ELSE "remove"]
  /\ UNCHANGED <<queVars, peerVars, hwVars, flowVars, scheduled, fl, cfm, snd, key,
                 bounds, ghosts>>

\* One station leaves (mtlk_stadb_remove_sta) without a filter or a wait.
DisconnectSta(p) ==
  /\ NoRequest /\ p \in listed
  /\ disc' = [pc |-> "remove", vap |-> VapOf[p], all |-> FALSE, left |-> {p}]
  /\ Request
  /\ UNCHANGED <<queVars, peerVars, hwVars, flowVars, scheduled, fl, cfm, snd, key,
                 ghosts>>

\* _mtlk_sta_stop with mtlk_sq_peer_ctx_cleanup: the queues are emptied and
\* leave the lists; a sender may still know the station.
RemoveSta(p) ==
  /\ disc.pc = "remove" /\ p \in disc.left
  /\ Cancel(p, Packets)
  /\ order' = [a \in ACs |-> Kept(order[a], {p})]
  /\ listed' = listed \ {p}
  /\ disc' = [disc EXCEPT !.left = @ \ {p}, !.pc = IF disc.left = {p} THEN "clean" ELSE @]
  /\ UNCHANGED <<used, limit, filter, hwVars, flowVars, scheduled, fl, cfm, snd, key,
                 bounds, ghosts>>

\* _mtlk_core_clean_vap_tx_on_disconnect, unless stations are left or the
\* message that disconnects a single one fails.
CleanVap ==
  /\ disc.pc = "clean"
  /\ \/ /\ disc.all \/ \A p \in listed : VapOf[p] # disc.vap
        /\ Cancel(Broadcast, {k \in Packets : k.vap = disc.vap})
     \/ ~disc.all /\ UNCHANGED <<buflist, size, ext>>
  /\ disc' = DiscIdle
  /\ UNCHANGED <<order, peerVars, hwVars, flowVars, scheduled, fl, cfm, snd, key,
                 bounds, ghosts>>

-----------------------------------------------------------------------------
Step ==
  \/ ScannerStops \/ ScannerStarts
  \/ \E c \in Senders :
       \/ \E p \in listed \cup {Broadcast}, v \in Vaps, k \in {"data", "eapol"}, a \in ACs :
            Transmit(c, p, v, k, a)
       \/ EnqueuePkt(c)
       \/ \E v \in Vaps, a \in ACs : CloneBegin(c, v, a)
       \/ \E p \in Stations : Clone(c, p)
       \/ CloneEnd(c)
  \/ Flush
  \/ \E d \in Descs : Confirm(d)
  \/ ConfirmStep
  \/ KeyStep
  \/ \E p \in Stations :
       \/ SendNullPacket(p) \/ AddSta(p) \/ DisconnectSta(p) \/ RemoveSta(p)
       \/ \E b \in BOOLEAN : PmUpdate(p, b) \/ KeyBegin(p, b)
  \/ \E v \in Vaps : DisconnectAll(v)
  \/ DisconnectWait \/ CleanVap

Next == Step /\ UNCHANGED is_ap

Spec == Init /\ [][Next]_vars

-----------------------------------------------------------------------------
(* Properties.                                                              *)

One(b) == IF b THEN 1 ELSE 0

\* used of a station (which the shaper and both waits rely on) is the number of
\* its packets in the firmware, up to the packet handed over and not counted
\* yet and the one whose confirmation is under way; it may be -1 in between.
UsedMatches ==
  \A p \in Peers :
    used[p] + One(fl.pc = "count" /\ fl.peer = p)
      = InHw(p) + One(cfm.pc \in {"wake", "used"} /\ cfm.desc.peer = p)

\* Every descriptor is free, with the firmware, in the tasklet's hands or about
\* to be given back: no order of the steps loses one or frees one twice.
PoolMatches ==
  free + Cardinality(Busy)
    + One(fl.msg /\ fl.pc # "count") + One(cfm.pc # "idle") = PoolSize

\* What the driver counts as given to the firmware is there (core.c:9110-9159,
\* hw_mmb.c:991-1039).
InFlight == UsedMatches /\ PoolMatches

\* The places in the queues of a category that packets of T have.
Places(a, T) ==
  UNION {{p} \X {i \in 1 .. Len(buflist[p][a]) : buflist[p][a][i] \in T} : p \in Peers}
\* How many packets of T wait in a category or are in the tasklet's hands.
InQueues(a, T) == Cardinality(Places(a, T)) + One(fl.pkt \in T /\ fl.ac = a)

\* The clones of a multicast and the sender that still makes them share one part;
\* it counts them, and they are all in its category.
RefsMatch ==
  /\ ext.refs = InQueues(ext.ac, Clones) + Cardinality({c \in Senders : snd[c].pc = "clone"})
  /\ \A a \in ACs \ {ext.ac} : InQueues(a, Clones) = 0
  /\ \A c \in Senders : snd[c].pc = "clone" => snd[c].ac = ext.ac

\* size of a category, against which the global limit is checked, counts every
\* packet that waits or is being sent, a multicast once however many clones it
\* has, unless a freed clone was misread (mtlk_sq.c:244, mtlk_sq_osdep.c:332-374).
SizeMatches ==
  \/ stale
  \/ /\ RefsMatch
     /\ \A a \in ACs :
          size[a] = InQueues(a, Plain)
                      + Cardinality({c \in Senders : snd[c].pc = "queue" /\ snd[c].ac = a})
                      + One(ext.refs > 0 /\ ext.ac = a)

\* From the emptying of the queue of a station until its key is set the tasklet
\* hands no packet for the station to the firmware, on a station interface none
\* from the queue of broadcasts either; and when the key is sent, no packet of the
\* station's own queue is there, half under the old and half under the new key.
\* The wait (core.c:11458) does not cover what used of the station does not count:
\* keep-alive packets, and packets of the queue of broadcasts that a station
\* interface gave to the firmware before the filter was closed.
KeyAfterConfirmed ==
  /\ key.pc \in {"wait", "send"} => fl.peer # key.peer /\ (is_ap \/ fl.peer # Broadcast)
  /\ key.pc = "send" => InHw(key.peer) = 0

\* Nothing is under way on the transmit path.
Quiet ==
  /\ ~scheduled /\ fl.pc = "idle" /\ cfm.pc = "idle"
  /\ \A d \in Descs : hw[d] = 0
  /\ \A c \in Senders : snd[c].pc = "idle"

\* If nothing is under way and the flow is not stopped, no packet of a known
\* station waits, unless the last flush came between a confirmation's request
\* for it and the count of that confirmation.
Served ==
  (Quiet /\ stops = {} /\ ~early) =>
    \A p \in listed \cup {Broadcast}, a \in ACs : buflist[p][a] = <<>>
=============================================================================
