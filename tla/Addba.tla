------------------------------- MODULE Addba -------------------------------
(***************************************************************************)
(* Block acknowledgement agreements with one peer: shared/addba.c, with the *)
(* part of shared/stadb.c that owns the peer and drives it.                 *)
(*                                                                         *)
(* For each TID the driver negotiates an aggregation towards the peer (tx)  *)
(* and answers the peer's requests for a reordering (rx).  Every message to *)
(* the firmware goes through the one TXMM message object of that TID and    *)
(* direction, so that a second one is refused while the first is not        *)
(* confirmed.  Aggregations and reorderings are limited by two counters     *)
(* (mtlk_reflim) shared by all peers.                                       *)
(*                                                                         *)
(* The threads are the tasklet, which handles frames of the peer and        *)
(* confirmations of the firmware one at a time; the timer, which looks for  *)
(* negotiations that take too long; and the serializer, which starts        *)
(* negotiations and stops the peer.  A step is a section under addba->lock. *)
(* A frame's handler tests is_active before it takes the lock, and starts   *)
(* or stops the reordering queue after it has released it: three steps.     *)
(* The other call-backs (they restart the packet count of an aggregation or *)
(* schedule its revival) are part of the step they follow.  The timer holds *)
(* stadb->lock, as the thread that stops the peer does.                     *)
(*                                                                         *)
(* The peer (external) answers a request once or not at all, at any time    *)
(* later, and sends requests and DELBA frames as it likes: before or after  *)
(* the firmware has confirmed what the peer reacts to.  TXMM may be out of  *)
(* blocks at any time; a message that was given a block is always sent      *)
(* (_mtlk_txmm_send_ex cannot fail).  A cancel and a call-back that is due  *)
(* do not meet here; Txmm.tla shows what happens when they do.              *)
(***************************************************************************)
EXTENDS Integers, FiniteSets

CONSTANTS
  NumTids,       \* TIDs in use
  UseAggr,       \* the TIDs with cfg.tid[].use_aggr
  PeerTids,      \* the TIDs the peer asks a reordering for
  MaxAggr,       \* aggr_reflim->max
  MaxReord,      \* reord_reflim->max
  MaxRejects,    \* MTLK_ADDBA_MAX_REJECTS
  InvalidTag,    \* INVALID_TAG_ID; dialogue tokens are 0 .. InvalidTag - 1
  MaxEarly,      \* bound: answers that overtake the request's confirmation
  MaxTasks,      \* bound: revival tasks of a TID the serializer can hold
  MaxStarts      \* bound: how often a peer connects

Tids == 0 .. NumTids - 1

ASSUME AddbaAssumption ==
  /\ NumTids \in Nat \ {0}
  /\ UseAggr \subseteq Tids /\ PeerTids \subseteq Tids
  /\ MaxAggr \in Nat \ {0} /\ MaxReord \in Nat \ {0}
  /\ MaxRejects \in Nat \ {0} /\ InvalidTag \in Nat \ {0}
  /\ MaxEarly \in Nat
  /\ MaxTasks \in Nat \ {0} /\ MaxStarts \in Nat \ {0}

VARIABLES
  isActive,       \* peer->is_active
  tx,             \* tid[].tx.state
  dlgt,           \* tid[].tx.addba_req_dlgt
  rejects,        \* tid[].tx.addba_res_rejects
  txMsg,          \* what tid[].tx.man_msg carries
  rx,             \* tid[].rx.state
  rxMsg,          \* what tid[].rx.man_msg carries
  nextDlgt,       \* addba->next_dlg_token
  aggrCur,        \* aggr_reflim->cur
  reordCur,       \* reord_reflim->cur
  aggrInited,     \* sta->aggr_inited
  rodOn,          \* the reordering queue sta->rod_queue[] is in use
  revive,         \* revival tasks in the serializer
  asked,          \* the requests the peer has not answered: the TID by token
  frame,          \* the frame whose handler has found the peer active, or the
                  \* call-back its handler has still to make
  stopper,        \* where mtlk_addba_peer_stop is
  starts,         \* history: how often the peer was started
  raced,          \* history: a frame was handled on a stopped peer
  early,          \* history: requests rejected before they were confirmed
  overtaken       \* history: the TIDs whose last reordering was given up before
                  \* our response was confirmed

txVars   == <<tx, dlgt, rejects, txMsg>>
rxVars   == <<rx, rxMsg>>
limVars  == <<aggrCur, reordCur>>
staVars  == <<aggrInited, rodOn, revive>>
histVars == <<starts, raced, early, overtaken>>
vars == <<isActive, txVars, rxVars, nextDlgt, limVars, staVars, asked, frame,
          stopper, histVars>>

TxStates == {"NONE", "ADDBA_REQ_SENT", "ADDBA_REQ_CFMD", "ADD_AGGR_REQ_SENT",
             "AGGR_OPENED", "DEL_AGGR_REQ_SENT"}
RxStates == {"NONE", "NEGATIVE_RES_SENT", "POSITIVE_RES_SENT",
             "REORD_IN_PROCESS", "DELBA_REQ_SENT"}

NoFrame == [type |-> "none"]
Callbacks == [type : {"callback"}, tid : Tids, start : BOOLEAN]
NoTid   == NumTids
Tokens  == 0 .. InvalidTag - 1
Responses == [type : {"response"}, tid : UseAggr, dlgt : Tokens,
              success : BOOLEAN]
Requests  == [type : {"request"}, tid : PeerTids]
Delbas    == [type : {"delba"}, tid : PeerTids, initiator : {TRUE}]
             \cup [type : {"delba"}, tid : UseAggr, initiator : {FALSE}]

Idle == [pc |-> "idle", tid |-> 0, stop |-> FALSE]

\* The type invariant of the module.
TypeOK ==
  /\ isActive \in BOOLEAN
  /\ tx \in [Tids -> TxStates]
  /\ dlgt \in [Tids -> 0 .. InvalidTag]
  /\ rejects \in [Tids -> 0 .. MaxRejects - 1]
  /\ txMsg \in [Tids -> {"none", "addba", "open", "close"}]
  /\ rx \in [Tids -> RxStates]
  /\ rxMsg \in [Tids -> {"none", "response", "delba"}]
  /\ nextDlgt \in Tokens
  /\ aggrCur \in -MaxEarly .. MaxAggr
  /\ reordCur \in 0 .. MaxReord
  /\ aggrInited \in [Tids -> BOOLEAN]
  /\ rodOn \in [Tids -> BOOLEAN]
  /\ revive \in [Tids -> 0 .. MaxTasks]
  /\ asked \in [Tokens -> UseAggr \cup {NoTid}]
  /\ frame \in Responses \cup Requests \cup Delbas \cup Callbacks \cup {NoFrame}
  /\ stopper \in [pc : {"idle", "tx", "cancelTx", "rx", "cancelRx"},
                  tid : Tids, stop : BOOLEAN]
  /\ starts \in 0 .. MaxStarts
  /\ raced \in BOOLEAN
  /\ early \in 0 .. MaxEarly
  /\ overtaken \subseteq PeerTids

\* mtlk_addba_init and mtlk_addba_peer_init.  The serializer may hold revival
\* tasks of an earlier association of the same address: they find the station by
\* its address (stadb.c:907).
Init ==
  /\ isActive = FALSE
  /\ tx = [t \in Tids |-> "NONE"]
  /\ dlgt = [t \in Tids |-> 0]
  /\ rejects = [t \in Tids |-> 0]
  /\ txMsg = [t \in Tids |-> "none"]
  /\ rx = [t \in Tids |-> "NONE"]
  /\ rxMsg = [t \in Tids |-> "none"]
  /\ nextDlgt = 0
  /\ aggrCur = 0
  /\ reordCur = 0
  /\ aggrInited = [t \in Tids |-> FALSE]
  /\ rodOn = [t \in Tids |-> FALSE]
  /\ revive \in [Tids -> 0 .. MaxTasks]
  /\ asked = [d \in Tokens |-> NoTid]
  /\ frame = NoFrame
  /\ stopper = Idle
  /\ starts = 0
  /\ raced = FALSE
  /\ early = 0
  /\ overtaken = {}

-----------------------------------------------------------------------------
IsAggrOn(t)  == tx[t] \in {"AGGR_OPENED", "DEL_AGGR_REQ_SENT"}
IsReordOn(t) == rx[t] \in {"REORD_IN_PROCESS", "DELBA_REQ_SENT"}

\* mtlk_reflim_try_ref: the counter is an int that is compared as a uint32, so
\* that one more than -1 is within the limit and one more than -2 is not.
CanRef(cur, max) == cur + 1 \in 0 .. max

\* _mtlk_addba_peer_reset_tx_state; what it returns is IsAggrOn(t).
ResetTx(t) ==
  IF tx[t] = "NONE" THEN UNCHANGED <<tx, dlgt, aggrCur>>
  ELSE /\ aggrCur' = aggrCur - 1
       /\ tx' = [tx EXCEPT ![t] = "NONE"]
       /\ dlgt' = [dlgt EXCEPT ![t] = InvalidTag]

\* _mtlk_addba_peer_reset_rx_state: whether it drops a reference.
HoldsReord(t) == rx[t] \notin {"NONE", "NEGATIVE_RES_SENT"}
ReordCurAfterReset(t) == IF HoldsReord(t) THEN reordCur - 1 ELSE reordCur
ResetRx(t) ==
  /\ rx' = [rx EXCEPT ![t] = "NONE"]
  /\ reordCur' = ReordCurAfterReset(t)

\* _mtlk_sta_schedule_aggregation_revival_tid; a full serializer stands for a
\* task that cannot be allocated.
Scheduled(t) == IF revive[t] < MaxTasks THEN [revive EXCEPT ![t] = @ + 1]
                ELSE revive

\* _mtlk_sta_addba_restart_tx_count_tid.
RestartTxCount(t) == aggrInited' = [aggrInited EXCEPT ![t] = FALSE]

(***************************************************************************)
(* The station: its life, and the start of a negotiation once enough        *)
(* packets were sent (mtlk_sta_update_tx).                                  *)
(***************************************************************************)
\* mtlk_stadb_add_sta: a new entry with a new ADDBA peer, all cleared.
Start ==
  /\ ~isActive /\ stopper = Idle /\ frame = NoFrame
  /\ starts < MaxStarts
  /\ isActive' = TRUE
  /\ tx' = [t \in Tids |-> "NONE"]
  /\ dlgt' = [t \in Tids |-> 0]
  /\ rejects' = [t \in Tids |-> 0]
  /\ txMsg' = [t \in Tids |-> "none"]
  /\ rx' = [t \in Tids |-> "NONE"]
  /\ rxMsg' = [t \in Tids |-> "none"]
  /\ aggrInited' = [t \in Tids |-> FALSE]
  /\ rodOn' = [t \in Tids |-> FALSE]
  /\ asked' = [d \in Tokens |-> NoTid]
  /\ starts' = starts + 1
  /\ overtaken' = {}
  /\ UNCHANGED <<nextDlgt, limVars, revive, frame, stopper, raced, early>>

UpdateTx(t) ==
  /\ isActive
  /\ ~aggrInited[t]
  /\ aggrInited' = [aggrInited EXCEPT ![t] = TRUE]
  /\ revive' = Scheduled(t)
  /\ UNCHANGED <<isActive, txVars, rxVars, nextDlgt, limVars, rodOn, asked,
                 frame, stopper, histVars>>

\* ++next_dlg_token == INVALID_TAG_ID is skipped, and a uint8 wraps to 0.
NextToken(d) == IF d + 1 = InvalidTag THEN 0 ELSE d + 1

\* The outcome of a revival in which a request is sent, and whether it may be.
\* A token comes back after 254 other requests in the code: by then the answer
\* to its last use is not expected (asked forgets it) and not in the tasklet's
\* hands, which a small InvalidTag would allow.
CanRequest(t) == /\ t \in UseAggr /\ tx[t] = "NONE"
                 /\ CanRef(aggrCur, MaxAggr) /\ txMsg[t] = "none"
                 /\ frame.type = "response" => frame.dlgt # nextDlgt
SendRequest(t) ==
  /\ CanRequest(t)
  /\ aggrCur' = aggrCur + 1
  /\ txMsg' = [txMsg EXCEPT ![t] = "addba"]
  /\ tx' = [tx EXCEPT ![t] = "ADDBA_REQ_SENT"]
  /\ dlgt' = [dlgt EXCEPT ![t] = nextDlgt]
  /\ nextDlgt' = NextToken(nextDlgt)
  /\ asked' = [asked EXCEPT ![nextDlgt] = t]

\* _mtlk_stadb_on_addba_revive_aggregation_tid, a task of the serializer: it
\* finds the station by address and has _mtlk_addba_peer_tx_addba_req send a
\* request; a TID that is being negotiated, the limit, a busy message or a lack
\* of blocks end it with nothing done.
Revive(t) ==
  /\ revive[t] > 0
  /\ stopper = Idle
  /\ revive' = [revive EXCEPT ![t] = @ - 1]
  /\ \/ isActive /\ SendRequest(t)
     \/ UNCHANGED <<aggrCur, txMsg, tx, dlgt, nextDlgt, asked>>
  /\ UNCHANGED <<isActive, rejects, rxVars, reordCur, aggrInited, rodOn, frame,
                 stopper, histVars>>

(***************************************************************************)
(* Confirmations, handled by the tasklet.                                   *)
(***************************************************************************)
\* _mtlk_addba_peer_on_addba_req_tx_cfm_clb
AddbaReqCfm(t) ==
  /\ txMsg[t] = "addba"
  /\ tx' = [tx EXCEPT ![t] = "ADDBA_REQ_CFMD"]
  /\ UNCHANGED <<dlgt, aggrCur, aggrInited>>

\* _mtlk_addba_peer_on_open_aggr_cfm_clb
OpenAggrCfm(t) ==
  /\ txMsg[t] = "open"
  /\ tx' = [tx EXCEPT ![t] = "AGGR_OPENED"]
  /\ UNCHANGED <<dlgt, aggrCur, aggrInited>>

\* _mtlk_addba_peer_on_close_aggr_cfm_clb
CloseAggrCfm(t) ==
  /\ txMsg[t] = "close"
  /\ ResetTx(t)
  /\ IF IsAggrOn(t) THEN RestartTxCount(t) ELSE UNCHANGED aggrInited

TxCfm(t) ==
  /\ frame = NoFrame
  /\ AddbaReqCfm(t) \/ OpenAggrCfm(t) \/ CloseAggrCfm(t)
  /\ txMsg' = [txMsg EXCEPT ![t] = "none"]
  /\ UNCHANGED <<isActive, rejects, rxVars, nextDlgt, reordCur, rodOn, revive,
                 asked, frame, stopper, histVars>>

\* What is left to do after the unlock: on_stop_reordering if a reordering was
\* in process, on_start_reordering if one was accepted.
Callback(t, start) == [type |-> "callback", tid |-> t, start |-> start]
StopReordering(t) == IF IsReordOn(t) THEN Callback(t, FALSE) ELSE NoFrame

\* _mtlk_addba_peer_on_addba_res_tx_cfm_clb
AddbaResCfm(t) ==
  /\ rxMsg[t] = "response"
  /\ IF rx[t] = "POSITIVE_RES_SENT"
     THEN rx' = [rx EXCEPT ![t] = "REORD_IN_PROCESS"] /\ UNCHANGED reordCur
     ELSE ResetRx(t)
  /\ UNCHANGED frame

\* _mtlk_addba_peer_on_delba_req_tx_cfm_clb
DelbaReqCfm(t) ==
  /\ rxMsg[t] = "delba"
  /\ ResetRx(t)
  /\ frame' = StopReordering(t)

RxCfm(t) ==
  /\ frame = NoFrame
  /\ AddbaResCfm(t) \/ DelbaReqCfm(t)
  /\ rxMsg' = [rxMsg EXCEPT ![t] = "none"]
  /\ UNCHANGED <<isActive, txVars, nextDlgt, aggrCur, staVars, asked, stopper,
                 histVars>>

(***************************************************************************)
(* Frames of the peer.  The tasklet finds the station and tests is_active.  *)
(***************************************************************************)
\* The answer to a request that the firmware has not confirmed yet.
EarlyAnswer(f) == /\ f.type = "response" /\ dlgt[f.tid] = f.dlgt
                  /\ txMsg[f.tid] = "addba"

FrameArrives(f) ==
  /\ frame = NoFrame
  /\ isActive
  /\ f.type = "response" => asked[f.dlgt] = f.tid
  /\ EarlyAnswer(f) => early < MaxEarly
  /\ asked' = IF f.type = "response"
              THEN [asked EXCEPT ![f.dlgt] = NoTid] ELSE asked
  /\ frame' = f
  /\ UNCHANGED <<isActive, txVars, rxVars, nextDlgt, limVars, staVars, stopper,
                 histVars>>

\* mtlk_addba_peer_on_addba_res_rx.
AcceptedByPeer(t) ==
  /\ rejects' = [rejects EXCEPT ![t] = 0]
  /\ \/ /\ tx[t] \in {"ADDBA_REQ_SENT", "ADDBA_REQ_CFMD"}
        /\ txMsg[t] = "none"
        /\ txMsg' = [txMsg EXCEPT ![t] = "open"]
        /\ tx' = [tx EXCEPT ![t] = "ADD_AGGR_REQ_SENT"]
     \/ UNCHANGED <<tx, txMsg>>
  /\ UNCHANGED <<dlgt, aggrCur, revive>>

\* Mutated form: the counter of rejects is not reset at the limit.
RejectedByPeerForever(t) ==
  /\ ResetTx(t)
  /\ rejects' = [rejects EXCEPT ![t] = @ + 1]
  /\ revive' = IF rejects[t] + 1 < MaxRejects THEN Scheduled(t) ELSE revive
  /\ UNCHANGED txMsg

RejectedByPeer(t) ==
  /\ ResetTx(t)
  /\ IF rejects[t] + 1 < MaxRejects
     THEN /\ rejects' = [rejects EXCEPT ![t] = @ + 1]
          /\ revive' = Scheduled(t)
     ELSE /\ rejects' = [rejects EXCEPT ![t] = 0]
          /\ UNCHANGED revive
  /\ UNCHANGED txMsg

\* Mutated form: the dialogue token is not compared.
TokenMatchesAny(f) == TRUE

TokenMatches(f) == dlgt[f.tid] = f.dlgt

OnAddbaRes ==
  /\ frame.type = "response"
  /\ \/ ~TokenMatches(frame) /\ UNCHANGED <<txVars, aggrCur, revive>>
     \/ TokenMatches(frame) /\ frame.success /\ AcceptedByPeer(frame.tid)
     \/ TokenMatches(frame) /\ ~frame.success /\ RejectedByPeer(frame.tid)
  /\ frame' = NoFrame
  /\ raced' = (raced \/ ~isActive)
  /\ early' = IF EarlyAnswer(frame) /\ ~frame.success THEN early + 1 ELSE early
  /\ UNCHANGED <<isActive, rxVars, nextDlgt, reordCur, aggrInited, rodOn, asked,
                 stopper, starts, overtaken>>

\* A reordering, or its refusal, is given up although our response is not yet
\* confirmed: on_stop_reordering is not called for it.
GivenUp(t) == IF rxMsg[t] = "response" THEN overtaken \cup {t} ELSE overtaken

\* mtlk_addba_peer_on_addba_req_rx up to the unlock: an agreement that exists is
\* given up, then the request is accepted, or declined (for its rate or policy,
\* by the configuration or the limit), or not answered for want of a message.
OnAddbaReq ==
  LET t == frame.tid
  IN /\ frame.type = "request"
     /\ \/ /\ rxMsg[t] = "none"
           /\ CanRef(ReordCurAfterReset(t), MaxReord)
           /\ rx' = [rx EXCEPT ![t] = "POSITIVE_RES_SENT"]
           /\ rxMsg' = [rxMsg EXCEPT ![t] = "response"]
           /\ reordCur' = ReordCurAfterReset(t) + 1
           /\ frame' = Callback(t, TRUE)
           /\ overtaken' = overtaken \ {t}
        \/ /\ rxMsg[t] = "none"
           /\ rx' = [rx EXCEPT ![t] = "NEGATIVE_RES_SENT"]
           /\ rxMsg' = [rxMsg EXCEPT ![t] = "response"]
           /\ reordCur' = ReordCurAfterReset(t)
           /\ frame' = StopReordering(t)
           /\ UNCHANGED overtaken
        \/ /\ ResetRx(t)
           /\ frame' = StopReordering(t)
           /\ overtaken' = GivenUp(t)
           /\ UNCHANGED rxMsg
     /\ raced' = (raced \/ ~isActive)
     /\ UNCHANGED <<isActive, txVars, nextDlgt, aggrCur, staVars, asked, stopper,
                    starts, early>>

\* Mutated form: the queue of a reordering that is given up is kept.
ReordCallbackKeepsQueue ==
  /\ frame.type = "callback"
  /\ rodOn' = [rodOn EXCEPT ![frame.tid] = @ \/ frame.start]
  /\ frame' = NoFrame
  /\ raced' = (raced \/ (frame.start /\ ~isActive))
  /\ UNCHANGED <<isActive, txVars, rxVars, nextDlgt, limVars, aggrInited, revive,
                 asked, stopper, starts, early, overtaken>>

\* The call-backs after the unlock; one that starts a queue replaces it.
ReordCallback ==
  /\ frame.type = "callback"
  /\ rodOn' = [rodOn EXCEPT ![frame.tid] = frame.start]
  /\ frame' = NoFrame
  /\ raced' = (raced \/ (frame.start /\ ~isActive))
  /\ UNCHANGED <<isActive, txVars, rxVars, nextDlgt, limVars, aggrInited, revive,
                 asked, stopper, starts, early, overtaken>>

\* _mtlk_addba_peer_close_aggr_req.
CloseAggrReq(t) ==
  \/ /\ tx[t] \in {"ADD_AGGR_REQ_SENT", "AGGR_OPENED"}
     /\ txMsg[t] = "none"
     /\ txMsg' = [txMsg EXCEPT ![t] = "close"]
     /\ tx' = [tx EXCEPT ![t] = "DEL_AGGR_REQ_SENT"]
  \/ UNCHANGED <<tx, txMsg>>

\* mtlk_addba_peer_on_delba_req_rx: sent by the initiator of our reordering, or
\* by the recipient of our aggregation.
OnDelbaReq ==
  LET t == frame.tid
  IN /\ frame.type = "delba"
     /\ \/ /\ frame.initiator
           /\ ResetRx(t)
           /\ frame' = StopReordering(t)
           /\ overtaken' = GivenUp(t)
           /\ UNCHANGED <<tx, txMsg>>
        \/ /\ ~frame.initiator
           /\ CloseAggrReq(t)
           /\ frame' = NoFrame
           /\ UNCHANGED <<rx, reordCur, overtaken>>
     /\ raced' = (raced \/ ~isActive)
     /\ UNCHANGED <<isActive, dlgt, rejects, rxMsg, nextDlgt, aggrCur, staVars,
                    asked, stopper, starts, early>>

(***************************************************************************)
(* The timer: mtlk_addba_peer_iterate.                                      *)
(***************************************************************************)
\* _mtlk_addba_peer_check_addba_res_rx_timeouts
ResponseTimeout(t) ==
  /\ isActive
  /\ tx[t] = "ADDBA_REQ_CFMD"
  /\ ResetTx(t)
  /\ RestartTxCount(t)
  /\ UNCHANGED <<isActive, rejects, txMsg, rxVars, nextDlgt, reordCur, rodOn,
                 revive, asked, frame, stopper, histVars>>

\* _mtlk_addba_peer_send_rx_delba_req, when it gets a message.
SendRxDelbaReq(t) ==
  /\ rxMsg[t] = "none"
  /\ rxMsg' = [rxMsg EXCEPT ![t] = "delba"]
  /\ rx' = [rx EXCEPT ![t] = "DELBA_REQ_SENT"]

\* _mtlk_addba_peer_check_delba_timeouts
DelbaTimeout(t) ==
  /\ isActive
  /\ rx[t] = "REORD_IN_PROCESS"
  /\ SendRxDelbaReq(t)
  /\ UNCHANGED <<isActive, txVars, nextDlgt, limVars, staVars, asked, frame,
                 stopper, histVars>>

(***************************************************************************)
(* mtlk_addba_peer_stop, TID by TID: reset the state, cancel the message,   *)
(* call back; at the end _mtlk_sta_stop destroys the reordering queues.     *)
(***************************************************************************)
StopBegin ==
  /\ isActive
  /\ stopper = Idle
  /\ isActive' = FALSE
  /\ stopper' = [Idle EXCEPT !.pc = "tx"]
  /\ UNCHANGED <<txVars, rxVars, nextDlgt, limVars, staVars, asked, frame,
                 histVars>>

StopTx ==
  /\ stopper.pc = "tx"
  /\ ResetTx(stopper.tid)
  /\ stopper' = [stopper EXCEPT !.pc = "cancelTx",
                                !.stop = IsAggrOn(stopper.tid)]
  /\ UNCHANGED <<isActive, rejects, txMsg, rxVars, nextDlgt, reordCur, staVars,
                 asked, frame, histVars>>

\* Mutated form: the message is not cancelled.
StopCancelTxForgotten ==
  /\ stopper.pc = "cancelTx"
  /\ IF stopper.stop THEN RestartTxCount(stopper.tid) ELSE UNCHANGED aggrInited
  /\ stopper' = [stopper EXCEPT !.pc = "rx", !.stop = FALSE]
  /\ UNCHANGED <<isActive, txVars, rxVars, nextDlgt, limVars, rodOn, revive,
                 asked, frame, histVars>>

StopCancelTx ==
  /\ stopper.pc = "cancelTx"
  /\ txMsg' = [txMsg EXCEPT ![stopper.tid] = "none"]
  /\ IF stopper.stop THEN RestartTxCount(stopper.tid) ELSE UNCHANGED aggrInited
  /\ stopper' = [stopper EXCEPT !.pc = "rx", !.stop = FALSE]
  /\ UNCHANGED <<isActive, tx, dlgt, rejects, rxVars, nextDlgt, limVars, rodOn,
                 revive, asked, frame, histVars>>

StopRx ==
  /\ stopper.pc = "rx"
  /\ ResetRx(stopper.tid)
  /\ stopper' = [stopper EXCEPT !.pc = "cancelRx",
                                !.stop = IsReordOn(stopper.tid)]
  /\ UNCHANGED <<isActive, txVars, rxMsg, nextDlgt, aggrCur, staVars, asked,
                 frame, histVars>>

\* With the memset of the fields before man_msg in tx and rx.
StopCancelRx ==
  LET t == stopper.tid
      last == t = NumTids - 1
  IN /\ stopper.pc = "cancelRx"
     /\ rxMsg' = [rxMsg EXCEPT ![t] = "none"]
     /\ tx' = [tx EXCEPT ![t] = "NONE"]
     /\ dlgt' = [dlgt EXCEPT ![t] = 0]
     /\ rejects' = [rejects EXCEPT ![t] = 0]
     /\ rx' = [rx EXCEPT ![t] = "NONE"]
     /\ rodOn' = [u \in Tids |-> rodOn[u] /\ ~last /\ ~(u = t /\ stopper.stop)]
     /\ stopper' = IF last THEN Idle
                   ELSE [pc |-> "tx", tid |-> t + 1, stop |-> FALSE]
     /\ UNCHANGED <<isActive, txMsg, nextDlgt, limVars, aggrInited, revive,
                    asked, frame, histVars>>

-----------------------------------------------------------------------------
Tasklet == \/ OnAddbaRes \/ OnAddbaReq \/ OnDelbaReq \/ ReordCallback
           \/ \E t \in Tids : TxCfm(t) \/ RxCfm(t)
Stopper == StopTx \/ StopCancelTx \/ StopRx \/ StopCancelRx

Next ==
  \/ Tasklet \/ Start \/ StopBegin \/ Stopper
  \/ \E f \in Responses \cup Requests \cup Delbas : FrameArrives(f)
  \/ \E t \in Tids : \/ UpdateTx(t) \/ Revive(t)
                     \/ ResponseTimeout(t) \/ DelbaTimeout(t)

Spec == Init /\ [][Next]_vars

-----------------------------------------------------------------------------
(***************************************************************************)
(* Properties.                                                              *)
(***************************************************************************)
\* _mtlk_addba_peer_stop has reset this TID's tx state and not yet cleared it.
Resetting(t) == /\ stopper.tid = t
                /\ stopper.pc \in {"cancelTx", "rx", "cancelRx"}

\* The confirmation of a request that the peer has rejected already takes the
\* TID back to "confirmed" (addba.c:276), with no reference and no token.
Orphan(t) == tx[t] = "ADDBA_REQ_CFMD" /\ dlgt[t] = InvalidTag

\* The counter of aggregations is the number of TIDs that are aggregating or
\* negotiating, whatever is rejected, times out, is closed or is stopped, and
\* stays within its limit.  Only the end of an orphan drops a reference that was
\* dropped before: the counter is short by one, at most, for every request that
\* was rejected before it was confirmed.
AggrRefs ==
  LET held == Cardinality({t \in Tids : /\ tx[t] # "NONE" /\ ~Resetting(t)
                                        /\ ~Orphan(t)})
  IN /\ aggrCur <= held /\ held <= aggrCur + early
     /\ aggrCur <= MaxAggr

\* The same for reorderings.  Only a request that is handled on a peer that was
\* stopped meanwhile (raced) may leave a reference behind.
ReordRefs ==
  LET held == Cardinality({t \in Tids : HoldsReord(t)})
  IN /\ reordCur >= held
     /\ ~raced => reordCur = held

\* The state of a TID and the message that is with the firmware agree, which
\* the confirmation call-backs assert or take for granted, except for a peer
\* that is being stopped.  A message whose state is gone is one that a frame of
\* the peer has overtaken.
MessageFitsState(t) ==
  /\ tx[t] = "ADDBA_REQ_SENT" => txMsg[t] = "addba"
  /\ txMsg[t] = "addba" =>
       tx[t] = "ADDBA_REQ_SENT" \/ (tx[t] = "NONE" /\ early > 0)
  /\ txMsg[t] = "open"  <=> tx[t] = "ADD_AGGR_REQ_SENT"
  /\ txMsg[t] = "close" <=> tx[t] = "DEL_AGGR_REQ_SENT"
  /\ rx[t] \in {"POSITIVE_RES_SENT", "NEGATIVE_RES_SENT"} =>
       rxMsg[t] = "response"
  /\ rxMsg[t] = "response" =>
       \/ rx[t] \in {"POSITIVE_RES_SENT", "NEGATIVE_RES_SENT"}
       \/ rx[t] = "NONE" /\ t \in overtaken

\* The reordering queue of a TID, when the call-backs that are due were made, is
\* in use while there is an agreement with the peer, so that no frame is let
\* through out of order; and it is in use without one, so that frames are held
\* back, only if the agreement was given up before our response was confirmed.
QueueFitsAgreement(t) ==
  LET on == IF frame.type = "callback" /\ frame.tid = t
            THEN frame.start ELSE rodOn[t]
  IN /\ HoldsReord(t) => on
     /\ on => HoldsReord(t) \/ t \in overtaken

\* A stopped peer holds nothing that a late confirmation or the timer could
\* act on, although confirmations arrive while it is being stopped.
StoppedHoldsNothing ==
  ~isActive /\ stopper = Idle /\ frame = NoFrame /\ ~raced =>
    /\ reordCur = 0
    /\ \A t \in Tids : /\ tx[t] = "NONE" /\ txMsg[t] = "none"
                       /\ rx[t] = "NONE" /\ rxMsg[t] = "none" /\ ~rodOn[t]

\* The references taken and dropped on the dozen paths of addba.c are those of
\* the agreements there are, also while a peer is being stopped and after it.
References == AggrRefs /\ ReordRefs /\ StoppedHoldsNothing

\* State, message and reordering queue of every TID of an active peer agree
\* (addba.c:237-330, stadb.c:247-263).
Agreement ==
  isActive => \A t \in Tids : MessageFitsState(t) /\ QueueFitsAgreement(t)

\* An aggregation is opened only on the peer's positive answer to the request
\* that is being negotiated, never on a late answer to an earlier one.
OpenedOnAnswer ==
  [][\A t \in Tids :
       tx[t] # "ADD_AGGR_REQ_SENT" /\ tx'[t] = "ADD_AGGR_REQ_SENT" =>
         /\ frame.type = "response" /\ frame.tid = t /\ frame.success
         /\ frame.dlgt = dlgt[t]
         /\ tx[t] = "ADDBA_REQ_CFMD"]_vars

=============================================================================
