---------------------------- MODULE AddbaProofs -----------------------------
(***************************************************************************)
(* Proofs about the block acknowledgement agreements, for any number of     *)
(* TIDs, any limits, any number of dialogue tokens and any number of        *)
(* answers that overtake the confirmation of their request.                 *)
(***************************************************************************)
EXTENDS Addba, FiniteSetTheorems, TLAPS

USE DEF histVars

(***************************************************************************)
(* The inductive invariant.                                                 *)
(***************************************************************************)
\* The types without the bounds of the counters, which follow from what the
\* counters count.
Types ==
  /\ isActive \in BOOLEAN
  /\ tx \in [Tids -> TxStates]
  /\ dlgt \in [Tids -> 0 .. InvalidTag]
  /\ rejects \in [Tids -> 0 .. MaxRejects - 1]
  /\ txMsg \in [Tids -> {"none", "addba", "open", "close"}]
  /\ rx \in [Tids -> RxStates]
  /\ rxMsg \in [Tids -> {"none", "response", "delba"}]
  /\ nextDlgt \in Tokens
  /\ aggrCur \in Int /\ reordCur \in Int
  /\ aggrInited \in [Tids -> BOOLEAN]
  /\ rodOn \in [Tids -> BOOLEAN]
  /\ revive \in [Tids -> 0 .. MaxTasks]
  /\ asked \in [Tokens -> UseAggr \cup {NoTid}]
  /\ frame \in Responses \cup Requests \cup Delbas \cup Callbacks \cup {NoFrame}
  /\ stopper \in [pc : {"idle", "tx", "cancelTx", "rx", "cancelRx"},
                  tid : Tids, stop : BOOLEAN]
  /\ starts \in 0 .. MaxStarts
  /\ raced \in BOOLEAN
  /\ early \in Nat
  /\ overtaken \subseteq PeerTids

\* mtlk_addba_peer_stop has not come to this TID, or is through with it.
Live(t) == \/ isActive
           \/ stopper.pc # "idle" /\ t > stopper.tid
           \/ stopper.pc = "tx" /\ t = stopper.tid
Done(t) == ~isActive /\ (stopper.pc = "idle" \/ t < stopper.tid)

\* A peer is stopped by one thread, which begins after is_active was cleared.
StopInv ==
  /\ isActive => stopper.pc = "idle"
  /\ stopper.pc = "idle" => stopper = Idle

\* State and message of a TID agree until the TID is reset: a request without
\* its state is one that was rejected before it was confirmed.  A confirmation
\* that comes between the reset and the end of the stop finds the state NONE,
\* and no frame is left that could act on what it makes of it.
TxFits(t) ==
  /\ tx[t] = "ADDBA_REQ_SENT" => txMsg[t] = "addba" /\ dlgt[t] # InvalidTag
  /\ txMsg[t] = "addba" =>
       \/ tx[t] = "ADDBA_REQ_SENT"
       \/ tx[t] = "NONE" /\ dlgt[t] = InvalidTag /\ early > 0
  /\ txMsg[t] = "open"  <=> tx[t] = "ADD_AGGR_REQ_SENT"
  /\ txMsg[t] = "close" <=> tx[t] = "DEL_AGGR_REQ_SENT"

TxInv ==
  \A t \in Tids :
    /\ Live(t) => TxFits(t)
    /\ Resetting(t) =>
         /\ txMsg[t] # "none" => tx[t] = "NONE"
         /\ frame.type \in {"response", "request", "delba"} => tx[t] = "NONE"
         /\ stopper.pc # "cancelTx" => txMsg[t] = "none"
    /\ Done(t) => tx[t] = "NONE" /\ txMsg[t] = "none"

\* A request that is still to be answered is one being negotiated or given up,
\* and so is the one that an answer being handled fits.
Asking(t) == tx[t] \in {"NONE", "ADDBA_REQ_SENT", "ADDBA_REQ_CFMD"}
TokenInv ==
  /\ isActive =>
       \A t \in Tids : dlgt[t] \in Tokens /\ asked[dlgt[t]] = t => Asking(t)
  /\ frame.type = "response" =>
       /\ asked[frame.dlgt] = NoTid
       /\ dlgt[frame.tid] = frame.dlgt => Asking(frame.tid)

\* The bound on early answers.
EarlyInv == early <= MaxEarly /\ (EarlyAnswer(frame) => early < MaxEarly)

\* The reorderings of an active peer.
RxFits(t) ==
  /\ rx[t] \in {"POSITIVE_RES_SENT", "NEGATIVE_RES_SENT"} =>
       rxMsg[t] = "response"
  /\ rxMsg[t] = "response" =>
       \/ rx[t] \in {"POSITIVE_RES_SENT", "NEGATIVE_RES_SENT"}
       \/ rx[t] = "NONE" /\ t \in overtaken

RxInv == isActive => \A t \in Tids : RxFits(t) /\ QueueFitsAgreement(t)

\* What mtlk_addba_peer_stop has cleared stays clear unless a frame was handled
\* on the stopped peer.
RxStopInv ==
  ~raced =>
    /\ stopper.pc = "cancelRx" => rx[stopper.tid] = "NONE"
    /\ \A t \in Tids : Done(t) => rx[t] = "NONE" /\ rxMsg[t] = "none"
    /\ ~isActive /\ stopper.pc = "idle" => \A t \in Tids : ~rodOn[t]

\* The TIDs with a reference of aggr_reflim, those whose confirmation or end is
\* still to drop one they do not have, and the TIDs with one of reord_reflim.
AggrHeld == {t \in Tids : /\ tx[t] # "NONE" /\ ~Resetting(t)
                          /\ ~Orphan(t)}
Unpaid == {t \in Tids : /\ ~Resetting(t)
                        /\ \/ txMsg[t] = "addba" /\ tx[t] = "NONE"
                           \/ Orphan(t)}
ReordHeld == {t \in Tids : HoldsReord(t)}

\* An answer that was early is paid for by a reference that the counter lacks,
\* at once or when its orphan ends.
AggrInv == /\ aggrCur <= Cardinality(AggrHeld)
           /\ Cardinality(AggrHeld) + Cardinality(Unpaid) <= aggrCur + early
           /\ aggrCur <= MaxAggr
ReordInv == ReordRefs /\ reordCur <= MaxReord

IInv == /\ StopInv /\ TxInv /\ TokenInv /\ EarlyInv /\ RxInv /\ RxStopInv
        /\ AggrInv /\ ReordInv

-----------------------------------------------------------------------------
(***************************************************************************)
(* Facts about the model's sets.                                            *)
(***************************************************************************)
\* What is known of a frame by its type.
LEMMA FrameShape ==
  ASSUME NEW f \in Responses \cup Requests \cup Delbas
  PROVE  /\ f.tid \in Tids
         /\ f.type \in {"response", "request", "delba"}
         /\ f.type = "response" =>
              f \in Responses /\ f.dlgt \in Tokens /\ f.success \in BOOLEAN
         /\ f.type = "request" => f.tid \in PeerTids
         /\ f.type = "delba" => f.initiator \in BOOLEAN
         /\ f.type = "delba" /\ f.initiator => f.tid \in PeerTids
<1> USE AddbaAssumption DEF Responses, Requests, Delbas
<1>1. CASE f \in Responses
  BY <1>1
<1>2. CASE f \in Requests
  BY <1>2
<1>3. CASE f \in Delbas
  <2>1. f.type = "delba" /\ f.tid \in Tids
    BY <1>3
  <2>2. (f.initiator = TRUE /\ f.tid \in PeerTids) \/ f.initiator = FALSE
    BY <1>3
  <2> QED BY <2>1, <2>2
<1> QED BY <1>1, <1>2, <1>3

\* The same of the frame that is being handled, or of the call-back that is due.
LEMMA FrameFacts ==
  ASSUME Types
  PROVE  /\ frame.type \in {"response", "request", "delba", "callback", "none"}
         /\ frame.type = "none" <=> frame = NoFrame
         /\ frame # NoFrame => frame.tid \in Tids
         /\ frame.type = "response" =>
              frame.dlgt \in Tokens /\ frame.success \in BOOLEAN
         /\ frame.type = "request" => frame.tid \in PeerTids
         /\ frame.type = "delba" => frame.initiator \in BOOLEAN
         /\ frame.type = "delba" /\ frame.initiator => frame.tid \in PeerTids
         /\ frame.type = "callback" => frame.start \in BOOLEAN
         /\ NoFrame.type = "none"
<1>1. NoFrame.type = "none"
  BY DEF NoFrame
<1>2. CASE frame \in Responses \cup Requests \cup Delbas
  BY <1>1, <1>2, FrameShape
<1>3. CASE frame \in Callbacks
  BY <1>1, <1>3 DEF Callbacks
<1>4. CASE frame = NoFrame
  BY <1>1, <1>4
<1> QED BY <1>2, <1>3, <1>4 DEF Types

\* What a handler leaves to be done is a call-back or nothing.
LEMMA CallbackFacts ==
  ASSUME NEW t \in Tids
  PROVE  /\ StopReordering(t) \in Callbacks \cup {NoFrame}
         /\ Callback(t, TRUE) \in Callbacks
         /\ StopReordering(t).type \in {"callback", "none"}
         /\ Callback(t, TRUE).type = "callback"
         /\ Callback(t, TRUE).tid = t /\ Callback(t, TRUE).start = TRUE
         /\ IsReordOn(t) => /\ StopReordering(t).type = "callback"
                            /\ StopReordering(t).tid = t
                            /\ StopReordering(t).start = FALSE
         /\ ~IsReordOn(t) => StopReordering(t).type = "none"
BY DEF Callback, StopReordering, Callbacks, NoFrame

\* The three ends of mtlk_addba_peer_on_addba_req_rx.
Accepted(t) ==
  /\ rxMsg[t] = "none" /\ CanRef(ReordCurAfterReset(t), MaxReord)
  /\ rx' = [rx EXCEPT ![t] = "POSITIVE_RES_SENT"]
  /\ rxMsg' = [rxMsg EXCEPT ![t] = "response"]
  /\ reordCur' = ReordCurAfterReset(t) + 1
  /\ frame' = Callback(t, TRUE) /\ overtaken' = overtaken \ {t}
Declined(t) ==
  /\ rxMsg[t] = "none"
  /\ rx' = [rx EXCEPT ![t] = "NEGATIVE_RES_SENT"]
  /\ rxMsg' = [rxMsg EXCEPT ![t] = "response"]
  /\ reordCur' = ReordCurAfterReset(t)
  /\ frame' = StopReordering(t) /\ UNCHANGED overtaken
Dropped(t) ==
  /\ ResetRx(t)
  /\ frame' = StopReordering(t) /\ overtaken' = GivenUp(t)
  /\ UNCHANGED rxMsg

LEMMA RequestEnds ==
  ASSUME Types, OnAddbaReq
  PROVE  /\ frame.tid \in Tids /\ frame.tid \in PeerTids
         /\ frame.type = "request" /\ frame # NoFrame
         /\ \/ Accepted(frame.tid) \/ Declined(frame.tid) \/ Dropped(frame.tid)
         /\ frame'.type \in {"callback", "none"}
         /\ frame'.type = "callback" => frame'.tid = frame.tid
         /\ frame' \in Callbacks \cup {NoFrame}
<1>1. frame.tid \in Tids /\ frame.tid \in PeerTids /\ frame.type = "request"
  BY FrameFacts DEF OnAddbaReq
<1>2. Accepted(frame.tid) \/ Declined(frame.tid) \/ Dropped(frame.tid)
  BY Zenon DEF OnAddbaReq, Accepted, Declined, Dropped
<1>3. \/ frame' = Callback(frame.tid, TRUE) \/ frame' = StopReordering(frame.tid)
  BY <1>2 DEF Accepted, Declined, Dropped
<1> QED BY <1>1, <1>2, <1>3, CallbackFacts, FrameFacts

\* mtlk_addba_peer_on_delba_req_rx gives up the reordering or closes the
\* aggregation.
LEMMA DelbaEnds ==
  ASSUME Types, OnDelbaReq
  PROVE  /\ frame.tid \in Tids /\ frame.type = "delba" /\ frame # NoFrame
         /\ UNCHANGED rxMsg
         /\ \/ /\ frame.initiator /\ frame.tid \in PeerTids
               /\ Dropped(frame.tid) /\ UNCHANGED <<tx, txMsg>>
            \/ /\ ~frame.initiator /\ frame' = NoFrame
               /\ CloseAggrReq(frame.tid) /\ UNCHANGED <<rx, reordCur, overtaken>>
         /\ frame'.type \in {"callback", "none"}
         /\ frame'.type = "callback" => frame'.tid = frame.tid
         /\ frame' \in Callbacks \cup {NoFrame}
<1>1. /\ frame.tid \in Tids /\ frame.type = "delba"
      /\ frame.initiator => frame.tid \in PeerTids
  BY FrameFacts DEF OnDelbaReq
<1>2. UNCHANGED rxMsg
  BY DEF OnDelbaReq
<1>3. \/ frame.initiator /\ Dropped(frame.tid) /\ UNCHANGED <<tx, txMsg>>
      \/ /\ ~frame.initiator /\ frame' = NoFrame
         /\ CloseAggrReq(frame.tid) /\ UNCHANGED <<rx, reordCur, overtaken>>
  BY <1>2, Zenon DEF OnDelbaReq, Dropped
<1>4. frame' = NoFrame \/ frame' = StopReordering(frame.tid)
  BY <1>3 DEF Dropped
<1> QED BY <1>1, <1>2, <1>3, <1>4, CallbackFacts, FrameFacts

\* The TIDs are finitely many, and so are any of them.
LEMMA TidsFinite ==
  /\ IsFiniteSet(Tids)
  /\ \A S \in SUBSET Tids : IsFiniteSet(S) /\ Cardinality(S) \in Nat
<1>1. IsFiniteSet(Tids)
  BY FS_Interval, AddbaAssumption DEF Tids
<1> QED BY <1>1, FS_Subset, FS_CardinalityType

\* A set of TIDs that gains one.
LEMMA OneMore ==
  ASSUME NEW S \in SUBSET Tids, NEW t \in Tids, t \notin S
  PROVE  Cardinality(S \cup {t}) = Cardinality(S) + 1
BY TidsFinite, FS_AddElement

\* One TID less.
LEMMA OneLess ==
  ASSUME NEW S \in SUBSET Tids, NEW t \in S
  PROVE  Cardinality(S \ {t}) = Cardinality(S) - 1
BY TidsFinite, FS_RemoveElement

-----------------------------------------------------------------------------
(***************************************************************************)
(* Types.                                                                   *)
(***************************************************************************)
\* _mtlk_addba_peer_reset_tx_state keeps the types.
LEMMA ResetTxType ==
  ASSUME Types, NEW t \in Tids, ResetTx(t)
  PROVE  /\ tx' \in [Tids -> TxStates]
         /\ dlgt' \in [Tids -> 0 .. InvalidTag]
         /\ aggrCur' \in Int
BY AddbaAssumption DEF Types, ResetTx, TxStates

\* _mtlk_addba_peer_reset_rx_state keeps the types.
LEMMA ResetRxType ==
  ASSUME Types, NEW t \in Tids, ResetRx(t)
  PROVE  rx' \in [Tids -> RxStates] /\ reordCur' \in Int
BY DEF Types, ResetRx, ReordCurAfterReset, RxStates

\* The revival tasks of a TID stay within the serializer's bound.
LEMMA ScheduledType ==
  ASSUME Types, NEW t \in Tids
  PROVE  Scheduled(t) \in [Tids -> 0 .. MaxTasks]
BY AddbaAssumption DEF Types, Scheduled

\* One step of any thread keeps the types.
LEMMA TypeStep ==
  ASSUME Types, [Next]_vars
  PROVE  Types'
<1> USE AddbaAssumption
<1>1. CASE UNCHANGED vars
  BY <1>1
  DEF Types, vars, txVars, rxVars, limVars, staVars
<1>2. CASE OnAddbaRes
  <2>1. frame.tid \in Tids
    BY <1>2, FrameFacts DEF OnAddbaRes
  <2>2. frame' = NoFrame /\ raced' \in BOOLEAN
    BY <1>2 DEF OnAddbaRes, Types
  <2>3. /\ UNCHANGED <<isActive, rxVars, nextDlgt, reordCur, aggrInited, rodOn,
                      asked, stopper, starts, overtaken>>
        /\ early' \in Nat
    BY <1>2 DEF OnAddbaRes, Types
  <2>4. CASE UNCHANGED <<txVars, aggrCur, revive>>
    BY <2>2, <2>3, <2>4 DEF Types, txVars, rxVars
  <2>5. CASE AcceptedByPeer(frame.tid)
    BY <2>1, <2>2, <2>3, <2>5 DEF Types, AcceptedByPeer, rxVars, TxStates
  <2>6. CASE RejectedByPeer(frame.tid)
    <3>1. /\ tx' \in [Tids -> TxStates]
          /\ dlgt' \in [Tids -> 0 .. InvalidTag]
          /\ aggrCur' \in Int
      BY <2>1, <2>6, ResetTxType DEF RejectedByPeer
    <3>2. /\ rejects' \in [Tids -> 0 .. MaxRejects - 1]
          /\ revive' \in [Tids -> 0 .. MaxTasks]
      <4>1. rejects \in [Tids -> 0 .. MaxRejects - 1]
        BY DEF Types
      <4>2. revive' = Scheduled(frame.tid) \/ revive' = revive
        BY <2>6 DEF RejectedByPeer
      <4>3. revive' \in [Tids -> 0 .. MaxTasks]
        BY <2>1, <4>2, ScheduledType DEF Types
      <4> QED BY <2>1, <2>6, <4>1, <4>3 DEF RejectedByPeer
    <3> QED BY <2>2, <2>3, <2>6, <3>1, <3>2
        DEF Types, RejectedByPeer, rxVars
  <2> QED BY <1>2, <2>4, <2>5, <2>6 DEF OnAddbaRes
<1>3. CASE OnAddbaReq
  <2>1. frame.tid \in Tids /\ frame.tid \in PeerTids
    BY <1>3, RequestEnds
  <2>2. /\ rx' \in [Tids -> RxStates]
        /\ rxMsg' \in [Tids -> {"none", "response", "delba"}]
        /\ reordCur' \in Int /\ overtaken' \subseteq PeerTids
    <3>1. ReordCurAfterReset(frame.tid) \in Int
      BY DEF ReordCurAfterReset, Types
    <3>2. CASE Accepted(frame.tid)
      BY <2>1, <3>1, <3>2 DEF Types, Accepted, RxStates
    <3>3. CASE Declined(frame.tid)
      BY <2>1, <3>1, <3>3 DEF Types, Declined, RxStates
    <3>4. CASE Dropped(frame.tid)
      BY <2>1, <3>1, <3>4 DEF Types, Dropped, ResetRx, GivenUp, RxStates
    <3> QED BY <1>3, <3>2, <3>3, <3>4, RequestEnds
  <2>3. frame' \in Callbacks \cup {NoFrame}
    BY <1>3, RequestEnds
  <2>4. raced' \in BOOLEAN
    BY <1>3 DEF Types, OnAddbaReq
  <2>5. UNCHANGED <<isActive, tx, dlgt, rejects, txMsg, nextDlgt, aggrCur,
                    aggrInited, rodOn, revive, asked, stopper, starts, early>>
    BY <1>3 DEF OnAddbaReq, txVars, staVars
  <2> QED BY <2>2, <2>3, <2>4, <2>5 DEF Types
<1>4. CASE OnDelbaReq
  <2>1. frame.tid \in Tids
    BY <1>4, DelbaEnds
  <2>2. /\ rx' \in [Tids -> RxStates]
        /\ reordCur' \in Int /\ overtaken' \subseteq PeerTids
        /\ tx' \in [Tids -> TxStates]
        /\ txMsg' \in [Tids -> {"none", "addba", "open", "close"}]
    <3>1. CASE /\ frame.tid \in PeerTids /\ Dropped(frame.tid)
               /\ UNCHANGED <<tx, txMsg>>
      BY <2>1, <3>1
      DEF Types, Dropped, ResetRx, ReordCurAfterReset, GivenUp, RxStates
    <3>2. CASE CloseAggrReq(frame.tid) /\ UNCHANGED <<rx, reordCur, overtaken>>
      BY <2>1, <3>2 DEF Types, CloseAggrReq, TxStates
    <3> QED BY <1>4, <3>1, <3>2, DelbaEnds
  <2>3. frame' \in Callbacks \cup {NoFrame}
    BY <1>4, DelbaEnds
  <2>4. raced' \in BOOLEAN
    BY <1>4 DEF Types, OnDelbaReq
  <2>5. UNCHANGED <<isActive, dlgt, rejects, rxMsg, nextDlgt, aggrCur,
                    aggrInited, rodOn, revive, asked, stopper, starts, early>>
    BY <1>4 DEF OnDelbaReq, staVars
  <2> QED BY <2>2, <2>3, <2>4, <2>5 DEF Types
<1>5. ASSUME NEW t \in Tids, TxCfm(t)
      PROVE  Types'
  BY <1>5, ResetTxType
  DEF Types, TxCfm, AddbaReqCfm, OpenAggrCfm, CloseAggrCfm, RestartTxCount,
      TxStates, rxVars
<1>6. ASSUME NEW t \in Tids, RxCfm(t)
      PROVE  Types'
  <2>1. rx' \in [Tids -> RxStates] /\ reordCur' \in Int
    BY <1>6, ResetRxType DEF Types, RxCfm, AddbaResCfm, DelbaReqCfm, RxStates
  <2>2. frame' \in Callbacks \cup {NoFrame}
    BY <1>6, CallbackFacts DEF RxCfm, AddbaResCfm, DelbaReqCfm
  <2>3. rxMsg' \in [Tids -> {"none", "response", "delba"}]
    BY <1>6 DEF Types, RxCfm
  <2> QED BY <1>6, <2>1, <2>2, <2>3 DEF Types, RxCfm, txVars, staVars
<1>7. CASE Start
  BY <1>7
  DEF Types, Start, TxStates, RxStates, NoTid, limVars
<1>8. CASE StopBegin
  BY <1>8
  DEF Types, StopBegin, Idle, Tids, txVars, rxVars, limVars, staVars
<1>9. CASE StopTx
  <2>1. stopper.tid \in Tids
    BY DEF Types
  <2>2. /\ tx' \in [Tids -> TxStates]
        /\ dlgt' \in [Tids -> 0 .. InvalidTag]
        /\ aggrCur' \in Int
    BY <1>9, <2>1, ResetTxType DEF StopTx
  <2>3. stopper' \in [pc : {"idle", "tx", "cancelTx", "rx", "cancelRx"},
                      tid : Tids, stop : BOOLEAN]
    <3>1. IsAggrOn(stopper.tid) \in BOOLEAN
      BY DEF IsAggrOn
    <3> QED BY <1>9, <3>1 DEF Types, StopTx
  <2> QED BY <1>9, <2>2, <2>3
      DEF Types, StopTx, rxVars, staVars
<1>10. CASE StopCancelTx
  BY <1>10
  DEF Types, StopCancelTx, RestartTxCount, rxVars, limVars
<1>11. CASE StopRx
  <2>1. stopper.tid \in Tids
    BY DEF Types
  <2>2. rx' \in [Tids -> RxStates] /\ reordCur' \in Int
    BY <1>11, <2>1, ResetRxType DEF StopRx
  <2>3. stopper' \in [pc : {"idle", "tx", "cancelTx", "rx", "cancelRx"},
                      tid : Tids, stop : BOOLEAN]
    <3>1. IsReordOn(stopper.tid) \in BOOLEAN
      BY DEF IsReordOn
    <3> QED BY <1>11, <3>1 DEF Types, StopRx
  <2> QED BY <1>11, <2>2, <2>3
      DEF Types, StopRx, txVars, staVars
<1>12. CASE StopCancelRx
  <2>1. stopper.tid \in Tids
    BY DEF Types
  <2>2. /\ rxMsg' \in [Tids -> {"none", "response", "delba"}]
        /\ tx' \in [Tids -> TxStates]
        /\ dlgt' \in [Tids -> 0 .. InvalidTag]
        /\ rejects' \in [Tids -> 0 .. MaxRejects - 1]
        /\ rx' \in [Tids -> RxStates]
    BY <1>12, <2>1 DEF Types, StopCancelRx, TxStates, RxStates
  <2>3. rodOn' \in [Tids -> BOOLEAN]
    BY <1>12 DEF StopCancelRx
  <2>4. stopper' \in [pc : {"idle", "tx", "cancelTx", "rx", "cancelRx"},
                      tid : Tids, stop : BOOLEAN]
    <3>1. CASE stopper' = Idle
      BY <3>1 DEF Idle, Tids
    <3>2. CASE /\ stopper.tid # NumTids - 1
               /\ stopper' = [pc |-> "tx", tid |-> stopper.tid + 1,
                              stop |-> FALSE]
      <4>1. stopper.tid + 1 \in Tids
        BY <2>1, <3>2 DEF Tids
      <4> QED BY <3>2, <4>1
    <3> QED BY <1>12, <3>1, <3>2 DEF StopCancelRx
  <2> QED BY <1>12, <2>2, <2>3, <2>4
      DEF Types, StopCancelRx, limVars
<1>13. ASSUME NEW f \in Responses \cup Requests \cup Delbas, FrameArrives(f)
       PROVE  Types'
  <2>1. asked' \in [Tokens -> UseAggr \cup {NoTid}]
    BY <1>13 DEF FrameArrives, Types
  <2> QED BY <1>13, <2>1
      DEF Types, FrameArrives, txVars, rxVars, limVars, staVars
<1>14. ASSUME NEW t \in Tids, UpdateTx(t)
       PROVE  Types'
  BY <1>14, ScheduledType
  DEF Types, UpdateTx, txVars, rxVars, limVars
<1>15. ASSUME NEW t \in Tids, Revive(t)
       PROVE  Types'
  <2>1. revive' \in [Tids -> 0 .. MaxTasks]
    BY <1>15 DEF Types, Revive
  <2>2. CASE SendRequest(t)
    <3>1. nextDlgt' \in Tokens
      BY <2>2 DEF Types, SendRequest, NextToken, Tokens
    <3>2. /\ tx' \in [Tids -> TxStates]
          /\ txMsg' \in [Tids -> {"none", "addba", "open", "close"}]
          /\ aggrCur' \in Int
      BY <2>2 DEF Types, SendRequest, TxStates
    <3>3. dlgt' \in [Tids -> 0 .. InvalidTag]
      BY <2>2 DEF Types, SendRequest, Tokens
    <3>4. asked' \in [Tokens -> UseAggr \cup {NoTid}]
      BY <2>2 DEF Types, SendRequest, CanRequest
    <3> QED BY <1>15, <2>1, <3>1, <3>2, <3>3, <3>4
        DEF Types, Revive, rxVars
  <2>3. CASE UNCHANGED <<aggrCur, txMsg, tx, dlgt, nextDlgt, asked>>
    BY <1>15, <2>1, <2>3 DEF Types, Revive, rxVars
  <2> QED BY <1>15, <2>2, <2>3 DEF Revive
<1>16. ASSUME NEW t \in Tids, ResponseTimeout(t)
       PROVE  Types'
  BY <1>16, ResetTxType
  DEF Types, ResponseTimeout, RestartTxCount, rxVars
<1>17. ASSUME NEW t \in Tids, DelbaTimeout(t)
       PROVE  Types'
  BY <1>17
  DEF Types, DelbaTimeout, SendRxDelbaReq, RxStates, txVars, limVars,
      staVars
<1>18. CASE ReordCallback
  <2>1. rodOn' \in [Tids -> BOOLEAN]
    BY <1>18, FrameFacts DEF ReordCallback, Types
  <2> QED BY <1>18, <2>1
      DEF ReordCallback, Types, txVars, rxVars, limVars
<1> QED
  BY <1>1, <1>2, <1>3, <1>4, <1>5, <1>6, <1>7, <1>8, <1>9, <1>10, <1>11,
     <1>12, <1>13, <1>14, <1>15, <1>16, <1>17, <1>18
  DEF Next, Tasklet, Stopper

\* mtlk_addba_init and mtlk_addba_peer_init set fields of these types.
LEMMA InitType ==
  ASSUME Init
  PROVE  Types
<1> USE AddbaAssumption
<1>1. stopper \in [pc : {"idle", "tx", "cancelTx", "rx", "cancelRx"},
                   tid : Tids, stop : BOOLEAN]
  BY DEF Init, Idle, Tids
<1>2. nextDlgt \in Tokens
  BY DEF Init, Tokens
<1>3. /\ tx \in [Tids -> TxStates]
      /\ txMsg \in [Tids -> {"none", "addba", "open", "close"}]
      /\ rx \in [Tids -> RxStates]
      /\ rxMsg \in [Tids -> {"none", "response", "delba"}]
      /\ rejects \in [Tids -> 0 .. MaxRejects - 1]
      /\ dlgt \in [Tids -> 0 .. InvalidTag]
      /\ revive \in [Tids -> 0 .. MaxTasks]
      /\ asked \in [Tokens -> UseAggr \cup {NoTid}]
  BY DEF Init, TxStates, RxStates
<1>4. /\ aggrInited \in [Tids -> BOOLEAN] /\ rodOn \in [Tids -> BOOLEAN]
      /\ isActive \in BOOLEAN /\ raced \in BOOLEAN
  BY DEF Init
<1>5. /\ aggrCur \in Int /\ reordCur \in Int /\ starts \in 0 .. MaxStarts
      /\ frame = NoFrame /\ early \in Nat /\ overtaken \subseteq PeerTids
  BY DEF Init
<1> QED BY <1>1, <1>2, <1>3, <1>4, <1>5 DEF Types

-----------------------------------------------------------------------------
(***************************************************************************)
(* The inductive invariant is kept, part by part.                           *)
(***************************************************************************)
\* Where the stopping thread is after its first step, and after its last one
\* for a TID.
LEMMA StopperNext ==
  ASSUME Types
  PROVE  /\ StopBegin => stopper'.pc = "tx" /\ stopper'.tid = 0
         /\ StopCancelRx =>
              \/ stopper'.pc = "idle" /\ stopper.tid = NumTids - 1
              \/ /\ stopper'.pc = "tx" /\ stopper'.tid = stopper.tid + 1
                 /\ stopper.tid # NumTids - 1
         /\ stopper.tid \in Tids
BY DEF Types, StopBegin, StopCancelRx, Idle

\* The stopping thread begins once the peer is not active, and ends idle.
LEMMA StopStep ==
  ASSUME Types, StopInv, [Next]_vars
  PROVE  StopInv'
<1>1. CASE UNCHANGED vars
  BY <1>1
  DEF vars, txVars, rxVars, limVars, staVars, StopInv, Types
<1>2. CASE OnAddbaRes
  BY <1>2
  DEF OnAddbaRes, TokenMatches, AcceptedByPeer, RejectedByPeer, ResetTx,
      Scheduled, txVars, rxVars, StopInv, Types
<1>3. CASE OnAddbaReq
  BY <1>3
  DEF OnAddbaReq, ResetRx, ReordCurAfterReset, txVars, StopInv, Types
<1>4. CASE OnDelbaReq
  BY <1>4
  DEF OnDelbaReq, CloseAggrReq, ResetRx, ReordCurAfterReset, StopInv, Types
<1>5. ASSUME NEW t \in Tids, TxCfm(t)
      PROVE  StopInv'
  BY <1>5
  DEF TxCfm, AddbaReqCfm, OpenAggrCfm, CloseAggrCfm, ResetTx, rxVars, StopInv, Types
<1>6. ASSUME NEW t \in Tids, RxCfm(t)
      PROVE  StopInv'
  BY <1>6
  DEF RxCfm, AddbaResCfm, DelbaReqCfm, ResetRx, ReordCurAfterReset, txVars, StopInv, Types
<1>7. CASE Start
  BY <1>7
  DEF Start, limVars, StopInv, Types, Idle
<1>8. CASE StopBegin
  BY <1>8
  DEF StopBegin, txVars, rxVars, limVars, staVars, StopInv, Types,
      Idle
<1>9. CASE StopTx
  BY <1>9
  DEF StopTx, ResetTx, rxVars, staVars, StopInv, Types, Idle
<1>10. CASE StopCancelTx
  BY <1>10
  DEF StopCancelTx, rxVars, limVars, StopInv, Types, Idle
<1>11. CASE StopRx
  BY <1>11
  DEF StopRx, ResetRx, ReordCurAfterReset, txVars, staVars, StopInv,
      Types, Idle
<1>12. CASE StopCancelRx
  BY <1>12
  DEF StopCancelRx, limVars, StopInv, Types, Idle
<1>13. ASSUME NEW f \in Responses \cup Requests \cup Delbas, FrameArrives(f)
       PROVE  StopInv'
  BY <1>13
  DEF FrameArrives, txVars, rxVars, limVars, staVars, StopInv,
      Types
<1>14. ASSUME NEW t \in Tids, UpdateTx(t)
       PROVE  StopInv'
  BY <1>14
  DEF UpdateTx, txVars, rxVars, limVars, StopInv, Types
<1>15. ASSUME NEW t \in Tids, Revive(t)
       PROVE  StopInv'
  BY <1>15
  DEF Revive, SendRequest, CanRequest, rxVars, StopInv, Types
<1>16. ASSUME NEW t \in Tids, ResponseTimeout(t)
       PROVE  StopInv'
  BY <1>16
  DEF ResponseTimeout, ResetTx, rxVars, StopInv, Types
<1>17. ASSUME NEW t \in Tids, DelbaTimeout(t)
       PROVE  StopInv'
  BY <1>17
  DEF DelbaTimeout, SendRxDelbaReq, txVars, limVars, staVars,
      StopInv, Types
<1>18. CASE ReordCallback
  BY <1>18 DEF ReordCallback, StopInv
<1> QED
  BY <1>1, <1>2, <1>3, <1>4, <1>5, <1>6, <1>7, <1>8, <1>9, <1>10, <1>11,
     <1>12, <1>13, <1>14, <1>15, <1>16, <1>17, <1>18
  DEF Next, Tasklet, Stopper

\* State and message of each TID.
LEMMA TxStep ==
  ASSUME Types, StopInv, TxInv, TokenInv, [Next]_vars
  PROVE  TxInv'
<1> USE AddbaAssumption
<1>1. CASE UNCHANGED vars
  BY <1>1
  DEF vars, txVars, rxVars, limVars, staVars, StopInv, TxInv,
      Types, Live, Done, Resetting, TxFits
<1>2. CASE OnAddbaRes
  <2>1. /\ frame.tid \in Tids /\ frame.type = "response"
        /\ frame.dlgt # InvalidTag /\ frame'.type = "none"
        /\ UNCHANGED <<isActive, stopper>>
        /\ early' \in Nat /\ early' >= early
    BY <1>2, FrameFacts DEF OnAddbaRes, Tokens, Types
  <2>2. \A t \in Tids : /\ Live(t)' <=> Live(t)
                        /\ Resetting(t)' <=> Resetting(t)
                        /\ Done(t)' <=> Done(t)
    BY <2>1 DEF Live, Resetting, Done
  <2>3. CASE UNCHANGED txVars
    BY <2>1, <2>2, <2>3 DEF TxInv, TxFits, txVars, Types
  <2>4. CASE TokenMatches(frame) /\ AcceptedByPeer(frame.tid)
    <3>1. CASE UNCHANGED <<tx, txMsg>>
      BY <2>1, <2>2, <2>4, <3>1 DEF TxInv, TxFits, AcceptedByPeer, Types
    <3>2. CASE /\ tx[frame.tid] \in {"ADDBA_REQ_SENT", "ADDBA_REQ_CFMD"}
               /\ txMsg' = [txMsg EXCEPT ![frame.tid] = "open"]
               /\ tx' = [tx EXCEPT ![frame.tid] = "ADD_AGGR_REQ_SENT"]
               /\ UNCHANGED dlgt
      <4>1. ~Resetting(frame.tid) /\ ~Done(frame.tid)
        BY <2>1, <3>2 DEF TxInv
      <4> QED BY <2>1, <2>2, <3>2, <4>1 DEF TxInv, TxFits, Types
    <3> QED BY <2>4, <3>1, <3>2 DEF AcceptedByPeer
  <2>5. CASE /\ TokenMatches(frame) /\ ~frame.success
             /\ RejectedByPeer(frame.tid)
    <3>1. ResetTx(frame.tid) /\ UNCHANGED txMsg /\ Asking(frame.tid)
      BY <2>1, <2>5 DEF RejectedByPeer, TokenInv, TokenMatches
    <3>2. CASE tx[frame.tid] = "NONE"
      BY <2>1, <2>2, <3>1, <3>2 DEF ResetTx, TxInv, TxFits, Types
    <3>3. CASE tx[frame.tid] # "NONE"
      <4>1. ~Resetting(frame.tid) /\ ~Done(frame.tid)
        BY <2>1, <3>3 DEF TxInv
      <4>2. Live(frame.tid)
        BY <2>1, <4>1 DEF Live, Done, Resetting, Types, Tids
      <4>3. TxFits(frame.tid)
        BY <2>1, <4>2 DEF TxInv
      <4>4. txMsg[frame.tid] = "addba" => early' > 0
        BY <1>2, <2>1, <2>5 DEF OnAddbaRes, EarlyAnswer, TokenMatches, Types
      <4>5. /\ tx' = [tx EXCEPT ![frame.tid] = "NONE"]
            /\ dlgt' = [dlgt EXCEPT ![frame.tid] = InvalidTag]
        BY <3>1, <3>3 DEF ResetTx
      <4>6. ASSUME NEW u \in Tids, u = frame.tid
            PROVE  TxFits(u)'
        <5>1. txMsg[frame.tid] \in {"none", "addba"}
          BY <2>1, <3>1, <3>3, <4>3 DEF TxFits, Types, Asking
        <5>2. /\ tx'[frame.tid] = "NONE" /\ dlgt'[frame.tid] = InvalidTag
              /\ txMsg'[frame.tid] = txMsg[frame.tid]
          BY <2>1, <3>1, <4>5 DEF Types
        <5> QED BY <4>4, <4>6, <5>1, <5>2 DEF TxFits
      <4>7. \A u \in Tids \ {frame.tid} : UNCHANGED <<tx[u], dlgt[u], txMsg[u]>>
        BY <2>1, <3>1, <4>5 DEF Types
      <4>8. \A u \in Tids \ {frame.tid} : TxFits(u) => TxFits(u)'
        BY <2>1, <4>7 DEF TxFits, Types
      <4>9. \A u \in Tids \ {frame.tid} :
               /\ Live(u)' => TxFits(u)'
               /\ Resetting(u)' =>
                    /\ txMsg'[u] # "none" => tx'[u] = "NONE"
                    /\ stopper'.pc # "cancelTx" => txMsg'[u] = "none"
               /\ Done(u)' => tx'[u] = "NONE" /\ txMsg'[u] = "none"
        BY <2>1, <2>2, <4>7, <4>8 DEF TxInv
      <4> QED BY <2>1, <2>2, <4>1, <4>6, <4>9 DEF TxInv
    <3> QED BY <3>2, <3>3
  <2> QED BY <1>2, <2>3, <2>4, <2>5 DEF OnAddbaRes
<1>3. CASE OnAddbaReq
  BY <1>3, RequestEnds
  DEF OnAddbaReq, txVars, TxInv, Live, Done, Resetting, TxFits
<1>4. CASE OnDelbaReq
  <2>1. UNCHANGED <<isActive, stopper, dlgt, early>>
    BY <1>4 DEF OnDelbaReq
  <2>2. CASE UNCHANGED <<tx, txMsg>>
    BY <1>4, <2>1, <2>2, DelbaEnds DEF TxInv, Live, Done, Resetting, TxFits
  <2>3. CASE CloseAggrReq(frame.tid)
    BY <1>4, <2>1, <2>3, DelbaEnds
    DEF CloseAggrReq, TxInv, Live, Done, Resetting, TxFits, Types
  <2> QED BY <1>4, <2>2, <2>3, DelbaEnds
<1>5. ASSUME NEW t \in Tids, TxCfm(t)
      PROVE  TxInv'
  <2>1. /\ UNCHANGED <<isActive, stopper, frame, early>>
        /\ txMsg' = [txMsg EXCEPT ![t] = "none"] /\ frame.type = "none"
    BY <1>5, FrameFacts DEF TxCfm
  <2>2. \A u \in Tids : /\ Live(u)' <=> Live(u)
                        /\ Resetting(u)' <=> Resetting(u)
                        /\ Done(u)' <=> Done(u)
    BY <2>1 DEF Live, Resetting, Done
  <2>3. txMsg[t] # "none" => ~Done(t)
    BY DEF TxInv
  <2>4. \A u \in Tids \ {t} : UNCHANGED <<tx[u], dlgt[u], txMsg[u]>>
    BY <1>5, <2>1
    DEF TxCfm, AddbaReqCfm, OpenAggrCfm, CloseAggrCfm, ResetTx, Types
  <2>5. txMsg'[t] = "none" /\ txMsg[t] # "none"
    BY <1>5, <2>1 DEF TxCfm, AddbaReqCfm, OpenAggrCfm, CloseAggrCfm, Types
  <2>6. TxFits(t) => TxFits(t)'
    BY <1>5, <2>1
    DEF TxCfm, AddbaReqCfm, OpenAggrCfm, CloseAggrCfm, ResetTx, Types, TxFits
  <2>7. \A u \in Tids \ {t} : TxFits(u) => TxFits(u)'
    BY <2>1, <2>4 DEF TxFits
  <2> QED BY <2>1, <2>2, <2>3, <2>4, <2>5, <2>6, <2>7 DEF TxInv
<1>6. ASSUME NEW t \in Tids, RxCfm(t)
      PROVE  TxInv'
  <2>1. /\ UNCHANGED <<isActive, stopper, txVars, early>>
        /\ frame'.type \in {"none", "callback"}
    BY <1>6, FrameFacts, CallbackFacts
    DEF RxCfm, AddbaResCfm, DelbaReqCfm
  <2> QED BY <2>1 DEF txVars, TxInv, Live, Done, Resetting, TxFits
<1>7. CASE Start
  BY <1>7
  DEF Start, limVars, StopInv, TxInv, Types, Live, Done, Resetting, TxFits,
      Idle
<1>8. CASE StopBegin
  <2>1. /\ ~isActive' /\ stopper'.pc = "tx" /\ stopper'.tid = 0
        /\ UNCHANGED <<txVars, histVars>> /\ isActive
    BY <1>8, StopperNext DEF StopBegin
  <2> QED BY <2>1 DEF TxInv, Types, Live, Done, Resetting, TxFits, Tids, txVars
<1>9. CASE StopTx
  BY <1>9
  DEF StopTx, ResetTx, rxVars, staVars, StopInv, TxInv, Types,
      Live, Done, Resetting, TxFits, Idle
<1>10. CASE StopCancelTx
  <2>1. /\ UNCHANGED <<isActive, frame, tx, dlgt, early>> /\ ~isActive
        /\ txMsg' = [txMsg EXCEPT ![stopper.tid] = "none"]
        /\ stopper.pc = "cancelTx" /\ stopper'.pc = "rx"
        /\ stopper'.tid = stopper.tid /\ stopper.tid \in Tids
    BY <1>10 DEF StopCancelTx, StopInv, Types
  <2>2. \A t \in Tids \ {stopper.tid} : TxFits(t) => TxFits(t)'
    BY <2>1 DEF TxFits, Types
  <2>3. /\ txMsg'[stopper.tid] = "none"
        /\ \A t \in Tids \ {stopper.tid} : txMsg'[t] = txMsg[t]
    BY <2>1 DEF Types
  <2>4. \A t \in Tids : /\ Live(t)' => Live(t) /\ t # stopper.tid
                        /\ Resetting(t)' => t = stopper.tid /\ Resetting(t)
                        /\ Done(t)' => Done(t) /\ t # stopper.tid
    BY <2>1 DEF Live, Done, Resetting, Tids, Types
  <2> QED BY <2>1, <2>2, <2>3, <2>4 DEF TxInv
<1>11. CASE StopRx
  BY <1>11
  DEF StopRx, ResetRx, ReordCurAfterReset, txVars, staVars, StopInv,
      TxInv, Types, Live, Done, Resetting, TxFits, Idle
<1>12. CASE StopCancelRx
  <2>1. /\ ~isActive /\ UNCHANGED <<isActive, frame, txMsg, early>>
        /\ stopper.pc = "cancelRx" /\ stopper.tid \in Tids
        /\ tx' = [tx EXCEPT ![stopper.tid] = "NONE"]
        /\ dlgt' = [dlgt EXCEPT ![stopper.tid] = 0]
    BY <1>12 DEF StopCancelRx, StopInv, Types
  <2>2. txMsg[stopper.tid] = "none"
    BY <2>1 DEF TxInv, Resetting
  <2>3. CASE stopper'.pc = "idle" /\ stopper.tid = NumTids - 1
    <3>1. \A t \in Tids : /\ ~Live(t)' /\ ~Resetting(t)'
                          /\ Done(t) \/ t = stopper.tid
      BY <2>1, <2>3 DEF Live, Done, Resetting, Tids
    <3> QED BY <2>1, <2>2, <3>1 DEF TxInv, Types
  <2>4. CASE stopper'.pc = "tx" /\ stopper'.tid = stopper.tid + 1
    <3>1. ASSUME NEW t \in Tids
          PROVE  /\ Done(t)' => t < stopper.tid \/ t = stopper.tid
                 /\ Live(t)' => t > stopper.tid
                 /\ ~Resetting(t)'
      BY <2>1, <2>4 DEF Live, Done, Resetting, Tids
    <3> QED BY <2>1, <2>2, <3>1 DEF TxInv, Types, Live, Done, TxFits
  <2> QED BY <1>12, <2>3, <2>4, StopperNext
<1>13. ASSUME NEW f \in Responses \cup Requests \cup Delbas, FrameArrives(f)
       PROVE  TxInv'
  BY <1>13, FrameFacts
  DEF FrameArrives, txVars, StopInv, TxInv, Live, Done, Resetting, TxFits
<1>14. ASSUME NEW t \in Tids, UpdateTx(t)
       PROVE  TxInv'
  BY <1>14
  DEF UpdateTx, txVars, rxVars, limVars, StopInv, TxInv, Types,
      Live, Done, Resetting, TxFits
<1>15. ASSUME NEW t \in Tids, Revive(t)
       PROVE  TxInv'
  <2>1. UNCHANGED <<isActive, frame, stopper, early>>
    BY <1>15 DEF Revive
  <2>2. CASE UNCHANGED <<tx, dlgt, txMsg>>
    BY <2>1, <2>2 DEF TxInv, Live, Done, Resetting, TxFits
  <2>3. CASE isActive /\ SendRequest(t)
    <3>1. \A u \in Tids : Live(u) /\ ~Resetting(u)' /\ ~Done(u)'
      BY <2>1, <2>3 DEF Live, Resetting, Done, StopInv
    <3>2. nextDlgt # InvalidTag
      BY DEF Types, Tokens
    <3>3. \A u \in Tids : TxFits(u)'
      BY <2>1, <2>3, <3>1, <3>2 DEF TxInv, TxFits, SendRequest, Types
    <3> QED BY <3>1, <3>3 DEF TxInv
  <2> QED BY <1>15, <2>2, <2>3 DEF Revive
<1>16. ASSUME NEW t \in Tids, ResponseTimeout(t)
       PROVE  TxInv'
  BY <1>16
  DEF ResponseTimeout, ResetTx, rxVars, StopInv, TxInv, Types,
      Live, Done, Resetting, TxFits
<1>17. ASSUME NEW t \in Tids, DelbaTimeout(t)
       PROVE  TxInv'
  BY <1>17
  DEF DelbaTimeout, SendRxDelbaReq, txVars, limVars, staVars,
      StopInv, TxInv, Types, Live, Done, Resetting, TxFits
<1>18. CASE ReordCallback
  BY <1>18, FrameFacts
  DEF ReordCallback, txVars, TxInv, Live, Done, Resetting, TxFits
<1> QED
  BY <1>1, <1>2, <1>3, <1>4, <1>5, <1>6, <1>7, <1>8, <1>9, <1>10, <1>11,
     <1>12, <1>13, <1>14, <1>15, <1>16, <1>17, <1>18
  DEF Next, Tasklet, Stopper

\* The tokens: those to be answered and the one being handled.
LEMMA TokenStep ==
  ASSUME Types, StopInv, TxInv, TokenInv,
         [Next]_vars
  PROVE  TokenInv'
<1> USE AddbaAssumption DEF Asking
<1>1. CASE UNCHANGED vars
  BY <1>1
  DEF vars, txVars, rxVars, limVars, staVars, Types, TokenInv
<1>2. CASE OnAddbaRes
  <2>1. /\ frame'.type = "none" /\ UNCHANGED <<isActive, asked>>
        /\ frame.tid \in Tids /\ frame.dlgt \in Tokens
        /\ asked[frame.dlgt] = NoTid
    BY <1>2, FrameFacts DEF OnAddbaRes, TokenInv
  <2>2. NoTid \notin Tids
    BY DEF NoTid, Tids
  <2>3. CASE UNCHANGED txVars
    BY <2>1, <2>3 DEF TokenInv, txVars
  <2>4. CASE TokenMatches(frame) /\ AcceptedByPeer(frame.tid)
    BY <2>1, <2>2, <2>4 DEF TokenInv, TokenMatches, AcceptedByPeer, Types
  <2>5. CASE RejectedByPeer(frame.tid)
    BY <2>1, <2>5 DEF TokenInv, RejectedByPeer, ResetTx, Types
  <2> QED BY <1>2, <2>3, <2>4, <2>5 DEF OnAddbaRes
<1>3. CASE OnAddbaReq
  BY <1>3, RequestEnds DEF OnAddbaReq, txVars, TokenInv
<1>4. CASE OnDelbaReq
  <2>1. UNCHANGED <<isActive, asked, dlgt>>
    BY <1>4 DEF OnDelbaReq
  <2>2. \A t \in Tids : Asking(t) => Asking(t)'
    BY <1>4, DelbaEnds DEF CloseAggrReq, Types
  <2> QED BY <1>4, <2>1, <2>2, DelbaEnds DEF TokenInv
<1>5. ASSUME NEW t \in Tids, TxCfm(t)
      PROVE  TokenInv'
  BY <1>5, FrameFacts
  DEF TxCfm, AddbaReqCfm, OpenAggrCfm, CloseAggrCfm, ResetTx, rxVars, Types, TokenInv, StopInv, TxInv, Live, Done, Resetting,
      TxFits, Idle
<1>6. ASSUME NEW t \in Tids, RxCfm(t)
      PROVE  TokenInv'
  BY <1>6, FrameFacts, CallbackFacts
  DEF RxCfm, AddbaResCfm, DelbaReqCfm, txVars, TokenInv
<1>7. CASE Start
  BY <1>7, FrameFacts
  DEF Start, limVars, Types, TokenInv
<1>8. CASE StopBegin
  BY <1>8
  DEF StopBegin, txVars, rxVars, limVars, staVars, Types, TokenInv,
      Idle
<1>9. CASE StopTx
  BY <1>9, FrameFacts
  DEF StopTx, ResetTx, rxVars, staVars, Types, TokenInv, StopInv,
      TxInv, Live, Done, Resetting, TxFits, Idle
<1>10. CASE StopCancelTx
  BY <1>10, FrameFacts
  DEF StopCancelTx, rxVars, limVars, Types, TokenInv, StopInv,
      TxInv, Live, Done, Resetting, TxFits, Idle
<1>11. CASE StopRx
  BY <1>11, FrameFacts
  DEF StopRx, ResetRx, ReordCurAfterReset, txVars, staVars, Types,
      TokenInv, StopInv, TxInv, Live, Done, Resetting, TxFits, Idle
<1>12. CASE StopCancelRx
  BY <1>12, FrameFacts
  DEF StopCancelRx, limVars, Types, TokenInv, StopInv, TxInv, Live,
      Done, Resetting, TxFits, Idle
<1>13. ASSUME NEW f \in Responses \cup Requests \cup Delbas, FrameArrives(f)
       PROVE  TokenInv'
  <2>1. /\ isActive /\ frame' = f /\ UNCHANGED <<isActive, tx, dlgt>>
        /\ f.type = "response" => asked[f.dlgt] = f.tid
        /\ asked' = IF f.type = "response"
                    THEN [asked EXCEPT ![f.dlgt] = NoTid] ELSE asked
    BY <1>13 DEF FrameArrives, txVars
  <2>2. f.tid \in Tids /\ (f.type = "response" => f.dlgt \in Tokens)
    BY FrameShape
  <2>3. f.type = "response" /\ dlgt[f.tid] = f.dlgt => Asking(f.tid)
    BY <2>1, <2>2 DEF TokenInv
  <2>4. NoTid \notin Tids
    BY DEF NoTid, Tids
  <2> QED BY <2>1, <2>2, <2>3, <2>4 DEF TokenInv, Types
<1>14. ASSUME NEW t \in Tids, UpdateTx(t)
       PROVE  TokenInv'
  BY <1>14
  DEF UpdateTx, txVars, rxVars, limVars, Types, TokenInv
<1>15. ASSUME NEW t \in Tids, Revive(t)
       PROVE  TokenInv'
  BY <1>15, FrameFacts
  DEF Revive, SendRequest, CanRequest, rxVars, Types, TokenInv,
      StopInv, TxInv, Live, Done, Resetting, TxFits, Idle
<1>16. ASSUME NEW t \in Tids, ResponseTimeout(t)
       PROVE  TokenInv'
  BY <1>16, FrameFacts
  DEF ResponseTimeout, ResetTx, rxVars, Types, TokenInv, StopInv,
      TxInv, Live, Done, Resetting, TxFits, Idle
<1>17. ASSUME NEW t \in Tids, DelbaTimeout(t)
       PROVE  TokenInv'
  BY <1>17
  DEF DelbaTimeout, SendRxDelbaReq, txVars, limVars, staVars,
      Types, TokenInv
<1>18. CASE ReordCallback
  BY <1>18, FrameFacts DEF ReordCallback, txVars, TokenInv, Asking
<1> QED
  BY <1>1, <1>2, <1>3, <1>4, <1>5, <1>6, <1>7, <1>8, <1>9, <1>10, <1>11,
     <1>12, <1>13, <1>14, <1>15, <1>16, <1>17, <1>18
  DEF Next, Tasklet, Stopper

\* A reordering of an active peer that is given up.
LEMMA DroppedFits ==
  ASSUME Types, NEW t \in Tids, Dropped(t), UNCHANGED rodOn,
         frame.type # "callback", RxFits(t), QueueFitsAgreement(t)
  PROVE  RxFits(t)' /\ QueueFitsAgreement(t)'
<1>1. /\ rx'[t] = "NONE" /\ rxMsg'[t] = rxMsg[t]
      /\ overtaken' = GivenUp(t) /\ frame' = StopReordering(t)
  BY DEF Dropped, ResetRx, Types
<1>2. /\ t \in overtaken => t \in overtaken'
      /\ rxMsg[t] = "response" => t \in overtaken'
  BY <1>1 DEF GivenUp
<1>3. RxFits(t)'
  BY <1>1, <1>2 DEF RxFits
<1>4. CASE IsReordOn(t)
  <2>1. frame'.type = "callback" /\ frame'.tid = t /\ frame'.start = FALSE
    BY <1>1, <1>4, CallbackFacts
  <2> QED BY <1>1, <1>3, <2>1 DEF QueueFitsAgreement, HoldsReord
<1>5. CASE ~IsReordOn(t)
  <2>1. frame'.type = "none"
    BY <1>1, <1>5, CallbackFacts
  <2>2. rodOn[t] => t \in overtaken'
    BY <1>2, <1>5
    DEF QueueFitsAgreement, RxFits, HoldsReord, IsReordOn, Types, RxStates
  <2> QED BY <1>1, <1>3, <2>1, <2>2 DEF QueueFitsAgreement, HoldsReord
<1> QED BY <1>4, <1>5

\* The reorderings of an active peer.
LEMMA RxStep ==
  ASSUME Types, StopInv, RxInv, [Next]_vars
  PROVE  RxInv'
<1>1. CASE UNCHANGED vars
  BY <1>1
  DEF vars, txVars, rxVars, limVars, staVars, StopInv,
      Types, RxInv, RxFits,
      QueueFitsAgreement, HoldsReord, IsReordOn
<1>2. CASE OnAddbaRes
  BY <1>2, FrameFacts
  DEF OnAddbaRes, TokenMatches, AcceptedByPeer, RejectedByPeer, ResetTx,
      Scheduled, txVars, rxVars, StopInv, Types, RxInv,
      RxFits, QueueFitsAgreement, HoldsReord, IsReordOn
<1>3. CASE OnAddbaReq
  <2> SUFFICES ASSUME isActive, NEW u \in Tids
               PROVE  RxFits(u)' /\ QueueFitsAgreement(u)'
    BY <1>3 DEF OnAddbaReq, RxInv
  <2>1. /\ frame.tid \in Tids /\ frame.type = "request" /\ UNCHANGED rodOn
        /\ RxFits(u) /\ QueueFitsAgreement(u)
        /\ frame'.type \in {"callback", "none"}
        /\ frame'.type = "callback" => frame'.tid = frame.tid
    BY <1>3, RequestEnds DEF OnAddbaReq, RxInv, staVars
  <2>2. CASE u # frame.tid
    <3>1. /\ UNCHANGED <<rx[u], rxMsg[u]>>
          /\ u \in overtaken' <=> u \in overtaken
      BY <1>3, <2>1, <2>2, RequestEnds
      DEF Accepted, Declined, Dropped, ResetRx, GivenUp, Types
    <3> QED BY <2>1, <2>2, <3>1 DEF RxFits, QueueFitsAgreement, HoldsReord
  <2>3. CASE u = frame.tid /\ Accepted(u)
    <3>1. /\ rx'[u] = "POSITIVE_RES_SENT" /\ rxMsg'[u] = "response"
          /\ frame'.type = "callback" /\ frame'.tid = u /\ frame'.start = TRUE
      BY <2>3, CallbackFacts DEF Accepted, Types
    <3> QED BY <3>1 DEF RxFits, QueueFitsAgreement, HoldsReord
  <2>4. CASE u = frame.tid /\ Declined(u)
    <3>1. /\ rx'[u] = "NEGATIVE_RES_SENT" /\ rxMsg'[u] = "response"
          /\ rxMsg[u] = "none" /\ UNCHANGED overtaken
      BY <2>4 DEF Declined, Types
    <3>2. CASE IsReordOn(u)
      <4>1. /\ frame'.type = "callback" /\ frame'.tid = u
            /\ frame'.start = FALSE
        BY <2>4, <3>2, CallbackFacts DEF Declined
      <4> QED BY <3>1, <4>1 DEF RxFits, QueueFitsAgreement, HoldsReord
    <3>3. CASE ~IsReordOn(u)
      <4>1. rx[u] = "NONE"
        BY <2>1, <3>1, <3>3 DEF RxFits, IsReordOn, Types, RxStates
      <4>2. frame'.type = "none"
        BY <2>4, <3>3, CallbackFacts DEF Declined
      <4> QED BY <2>1, <3>1, <4>1, <4>2
          DEF RxFits, QueueFitsAgreement, HoldsReord
    <3> QED BY <3>2, <3>3
  <2>5. CASE u = frame.tid /\ Dropped(u)
    BY <2>1, <2>5, DroppedFits
  <2> QED BY <1>3, <2>2, <2>3, <2>4, <2>5, RequestEnds
<1>4. CASE OnDelbaReq
  <2> SUFFICES ASSUME isActive, NEW u \in Tids
               PROVE  RxFits(u)' /\ QueueFitsAgreement(u)'
    BY <1>4 DEF OnDelbaReq, RxInv
  <2>1. /\ frame.tid \in Tids /\ frame.type = "delba"
        /\ UNCHANGED <<rodOn, rxMsg>>
        /\ RxFits(u) /\ QueueFitsAgreement(u)
        /\ frame'.type \in {"callback", "none"}
        /\ frame'.type = "callback" => frame'.tid = frame.tid
    BY <1>4, DelbaEnds DEF OnDelbaReq, RxInv, staVars
  <2>2. CASE UNCHANGED <<rx, overtaken>> /\ frame' = NoFrame
    <3>1. frame'.type = "none"
      BY <2>2, FrameFacts
    <3> QED BY <2>1, <2>2, <3>1 DEF RxFits, QueueFitsAgreement, HoldsReord
  <2>3. CASE Dropped(frame.tid) /\ u # frame.tid
    <3>1. UNCHANGED rx[u] /\ (u \in overtaken' <=> u \in overtaken)
      BY <2>1, <2>3 DEF Dropped, ResetRx, GivenUp, Types
    <3> QED BY <2>1, <2>3, <3>1 DEF RxFits, QueueFitsAgreement, HoldsReord
  <2>4. CASE Dropped(frame.tid) /\ u = frame.tid
    BY <2>1, <2>4, DroppedFits
  <2> QED BY <1>4, <2>2, <2>3, <2>4, DelbaEnds
<1>5. ASSUME NEW t \in Tids, TxCfm(t)
      PROVE  RxInv'
  BY <1>5
  DEF TxCfm, AddbaReqCfm, OpenAggrCfm, CloseAggrCfm, ResetTx, rxVars, StopInv, Types, RxInv, RxFits,
      QueueFitsAgreement, HoldsReord, IsReordOn
<1>6. ASSUME NEW t \in Tids, RxCfm(t)
      PROVE  RxInv'
  <2> SUFFICES ASSUME isActive, NEW u \in Tids
               PROVE  RxFits(u)' /\ QueueFitsAgreement(u)'
    BY <1>6 DEF RxCfm, RxInv
  <2>1. /\ frame.type = "none" /\ UNCHANGED <<rodOn, overtaken>>
        /\ rxMsg' = [rxMsg EXCEPT ![t] = "none"]
        /\ RxFits(u) /\ QueueFitsAgreement(u)
        /\ RxFits(t) /\ QueueFitsAgreement(t)
    BY <1>6, FrameFacts DEF RxCfm, RxInv, staVars
  <2>2. CASE AddbaResCfm(t)
    BY <2>1, <2>2
    DEF AddbaResCfm, ResetRx, Types, RxFits, QueueFitsAgreement, HoldsReord
  <2>3. CASE DelbaReqCfm(t)
    <3>1. /\ rxMsg[t] = "delba" /\ frame' = StopReordering(t)
          /\ rx' = [rx EXCEPT ![t] = "NONE"]
      BY <2>3 DEF DelbaReqCfm, ResetRx
    <3>2. CASE u # t
      <4>1. UNCHANGED <<rx[u], rxMsg[u]>>
        BY <2>1, <3>1, <3>2 DEF Types
      <4>2. frame'.type = "callback" => frame'.tid = t
        BY <3>1, CallbackFacts
      <4> QED BY <2>1, <3>2, <4>1, <4>2
          DEF RxFits, QueueFitsAgreement, HoldsReord
    <3>3. CASE u = t /\ IsReordOn(t)
      <4>1. /\ frame'.type = "callback" /\ frame'.tid = t
            /\ frame'.start = FALSE
        BY <3>1, <3>3, CallbackFacts
      <4>2. rx'[t] = "NONE" /\ rxMsg'[t] = "none"
        BY <2>1, <3>1 DEF Types
      <4> QED BY <3>3, <4>1, <4>2 DEF RxFits, QueueFitsAgreement, HoldsReord
    <3>4. CASE u = t /\ ~IsReordOn(t)
      <4>1. frame'.type = "none"
        BY <3>1, <3>4, CallbackFacts
      <4>2. rx'[t] = "NONE" /\ rxMsg'[t] = "none"
        BY <2>1, <3>1 DEF Types
      <4>3. rx[t] = "NONE"
        BY <2>1, <3>1, <3>4 DEF Types, RxFits, IsReordOn, RxStates
      <4> QED BY <2>1, <3>4, <4>1, <4>2, <4>3 DEF RxFits, QueueFitsAgreement, HoldsReord
    <3> QED BY <3>2, <3>3, <3>4
  <2> QED BY <1>6, <2>2, <2>3 DEF RxCfm
<1>7. CASE Start
  BY <1>7, FrameFacts
  DEF Start, limVars, StopInv, Types, RxInv, RxFits,
      QueueFitsAgreement, HoldsReord, IsReordOn
<1>8. CASE StopBegin
  BY <1>8
  DEF StopBegin, txVars, rxVars, limVars, staVars, StopInv,
      Types, RxInv, RxFits,
      QueueFitsAgreement, HoldsReord, IsReordOn
<1>9. CASE StopTx
  BY <1>9
  DEF StopTx, ResetTx, rxVars, staVars, StopInv, Types,
      RxInv, RxFits,
      QueueFitsAgreement, HoldsReord, IsReordOn
<1>10. CASE StopCancelTx
  BY <1>10
  DEF StopCancelTx, rxVars, limVars, StopInv, Types,
      RxInv, RxFits,
      QueueFitsAgreement, HoldsReord, IsReordOn
<1>11. CASE StopRx
  BY <1>11
  DEF StopRx, ResetRx, ReordCurAfterReset, txVars, staVars, StopInv,
      Types, RxInv, RxFits,
      QueueFitsAgreement, HoldsReord, IsReordOn
<1>12. CASE StopCancelRx
  BY <1>12
  DEF StopCancelRx, limVars, StopInv, Types, RxInv,
      RxFits, QueueFitsAgreement, HoldsReord, IsReordOn
<1>13. ASSUME NEW f \in Responses \cup Requests \cup Delbas, FrameArrives(f)
       PROVE  RxInv'
  BY <1>13, FrameFacts, FrameShape
  DEF FrameArrives, txVars, rxVars, limVars, staVars, StopInv,
      Types, RxInv, RxFits,
      QueueFitsAgreement, HoldsReord, IsReordOn
<1>14. ASSUME NEW t \in Tids, UpdateTx(t)
       PROVE  RxInv'
  BY <1>14
  DEF UpdateTx, txVars, rxVars, limVars, StopInv,
      Types, RxInv, RxFits,
      QueueFitsAgreement, HoldsReord, IsReordOn
<1>15. ASSUME NEW t \in Tids, Revive(t)
       PROVE  RxInv'
  BY <1>15
  DEF Revive, SendRequest, CanRequest, rxVars, StopInv,
      Types, RxInv, RxFits,
      QueueFitsAgreement, HoldsReord, IsReordOn
<1>16. ASSUME NEW t \in Tids, ResponseTimeout(t)
       PROVE  RxInv'
  BY <1>16
  DEF ResponseTimeout, ResetTx, rxVars, StopInv, Types,
      RxInv, RxFits,
      QueueFitsAgreement, HoldsReord, IsReordOn
<1>17. ASSUME NEW t \in Tids, DelbaTimeout(t)
       PROVE  RxInv'
  BY <1>17
  DEF DelbaTimeout, SendRxDelbaReq, txVars, limVars, staVars,
      StopInv, Types, RxInv, RxFits,
      QueueFitsAgreement, HoldsReord, IsReordOn
<1>18. CASE ReordCallback
  BY <1>18, FrameFacts
  DEF ReordCallback, rxVars, Types, RxInv, RxFits, QueueFitsAgreement,
      HoldsReord
<1> QED
  BY <1>1, <1>2, <1>3, <1>4, <1>5, <1>6, <1>7, <1>8, <1>9, <1>10, <1>11,
     <1>12, <1>13, <1>14, <1>15, <1>16, <1>17, <1>18
  DEF Next, Tasklet, Stopper

\* The reorderings of a stopped peer.
LEMMA RxStopStep ==
  ASSUME Types, StopInv, RxStopInv, [Next]_vars
  PROVE  RxStopInv'
<1>1. CASE UNCHANGED vars
  BY <1>1
  DEF vars, txVars, rxVars, limVars, staVars, StopInv, Types,
      RxStopInv, Done
<1>2. CASE OnAddbaRes
  BY <1>2, FrameFacts
  DEF OnAddbaRes, TokenMatches, AcceptedByPeer, RejectedByPeer, ResetTx,
      Scheduled, txVars, rxVars, StopInv, Types, RxStopInv, Done
<1>3. CASE OnAddbaReq
  BY <1>3, FrameFacts
  DEF OnAddbaReq, ResetRx, ReordCurAfterReset, txVars, StopInv, Types,
      RxStopInv, Done
<1>4. CASE OnDelbaReq
  BY <1>4, FrameFacts
  DEF OnDelbaReq, CloseAggrReq, ResetRx, ReordCurAfterReset, StopInv, Types,
      RxStopInv, Done
<1>5. ASSUME NEW t \in Tids, TxCfm(t)
      PROVE  RxStopInv'
  BY <1>5
  DEF TxCfm, AddbaReqCfm, OpenAggrCfm, CloseAggrCfm, ResetTx, rxVars, StopInv, Types, RxStopInv, Done
<1>6. ASSUME NEW t \in Tids, RxCfm(t)
      PROVE  RxStopInv'
  BY <1>6
  DEF RxCfm, AddbaResCfm, DelbaReqCfm, ResetRx, ReordCurAfterReset, txVars, StopInv, Types, RxStopInv, Done
<1>7. CASE Start
  BY <1>7, FrameFacts
  DEF Start, limVars, StopInv, Types, RxStopInv, Done
<1>8. CASE StopBegin
  <2>1. /\ stopper'.pc = "tx" /\ stopper'.tid = 0
        /\ UNCHANGED <<rx, rxMsg, raced>>
    BY <1>8, StopperNext DEF StopBegin, rxVars
  <2>2. \A t \in Tids : ~Done(t)'
    BY <2>1 DEF Done, Tids
  <2> QED BY <2>1, <2>2 DEF RxStopInv
<1>9. CASE StopTx
  BY <1>9
  DEF StopTx, ResetTx, rxVars, staVars, StopInv, Types, RxStopInv,
      Done
<1>10. CASE StopCancelTx
  BY <1>10
  DEF StopCancelTx, rxVars, limVars, StopInv, Types, RxStopInv,
      Done
<1>11. CASE StopRx
  BY <1>11
  DEF StopRx, ResetRx, ReordCurAfterReset, txVars, staVars, StopInv,
      Types, RxStopInv, Done
<1>12. CASE StopCancelRx
  <2> SUFFICES ASSUME ~raced PROVE RxStopInv'
    BY <1>12 DEF StopCancelRx, RxStopInv
  <2>1. /\ ~isActive /\ ~isActive' /\ stopper.pc = "cancelRx"
        /\ stopper.tid \in Tids
        /\ rx' = [rx EXCEPT ![stopper.tid] = "NONE"]
        /\ rxMsg' = [rxMsg EXCEPT ![stopper.tid] = "none"]
    BY <1>12 DEF StopCancelRx, StopInv, Types
  <2>2. stopper'.pc # "cancelRx"
    BY <1>12, StopperNext
  <2>3. \A t \in Tids : Done(t)' => Done(t) \/ t = stopper.tid
    BY <1>12, <2>1, StopperNext DEF Done, Tids
  <2>4. stopper'.pc = "idle" => \A t \in Tids : ~rodOn'[t]
    BY <1>12, StopperNext DEF StopCancelRx
  <2> QED BY <2>1, <2>2, <2>3, <2>4 DEF RxStopInv, Types
<1>13. ASSUME NEW f \in Responses \cup Requests \cup Delbas, FrameArrives(f)
       PROVE  RxStopInv'
  BY <1>13
  DEF FrameArrives, txVars, rxVars, limVars, staVars, StopInv,
      Types, RxStopInv, Done
<1>14. ASSUME NEW t \in Tids, UpdateTx(t)
       PROVE  RxStopInv'
  BY <1>14
  DEF UpdateTx, txVars, rxVars, limVars, StopInv, Types, RxStopInv,
      Done
<1>15. ASSUME NEW t \in Tids, Revive(t)
       PROVE  RxStopInv'
  BY <1>15
  DEF Revive, SendRequest, CanRequest, rxVars, StopInv, Types,
      RxStopInv, Done
<1>16. ASSUME NEW t \in Tids, ResponseTimeout(t)
       PROVE  RxStopInv'
  BY <1>16
  DEF ResponseTimeout, ResetTx, rxVars, StopInv, Types, RxStopInv,
      Done
<1>17. ASSUME NEW t \in Tids, DelbaTimeout(t)
       PROVE  RxStopInv'
  BY <1>17
  DEF DelbaTimeout, SendRxDelbaReq, txVars, limVars, staVars,
      StopInv, Types, RxStopInv, Done
<1>18. CASE ReordCallback
  BY <1>18, FrameFacts
  DEF ReordCallback, rxVars, StopInv, Types, RxStopInv, Done
<1> QED
  BY <1>1, <1>2, <1>3, <1>4, <1>5, <1>6, <1>7, <1>8, <1>9, <1>10, <1>11,
     <1>12, <1>13, <1>14, <1>15, <1>16, <1>17, <1>18
  DEF Next, Tasklet, Stopper

(***************************************************************************)
(* The counters: each step takes or drops the reference of one TID, or none. *)
(***************************************************************************)
AggrSame == /\ AggrHeld' = AggrHeld /\ Unpaid' \subseteq Unpaid
            /\ aggrCur' = aggrCur
            /\ early' \in Int /\ early' >= early
AggrTaken(t) == /\ t \notin AggrHeld /\ AggrHeld' = AggrHeld \cup {t}
                /\ Unpaid' = Unpaid
                /\ aggrCur + 1 <= MaxAggr /\ aggrCur' = aggrCur + 1
                /\ early' = early
AggrDropped(t) == /\ AggrHeld' = AggrHeld \ {t} /\ Unpaid' \subseteq Unpaid
                  /\ aggrCur' = aggrCur - 1 /\ early' = early
AggrDroppedEarly(t) == /\ AggrHeld' = AggrHeld \ {t}
                       /\ Unpaid' \subseteq Unpaid \cup {t}
                       /\ aggrCur' = aggrCur - 1 /\ early' = early + 1
AggrPaid(t) == /\ AggrHeld' = AggrHeld /\ Unpaid' \subseteq Unpaid \ {t}
               /\ aggrCur' = aggrCur - 1 /\ early' = early

\* aggr_reflim, when one TID at most begins or ends to hold a reference, a
\* request is rejected early, or an orphan ends.
LEMMA AggrCounted ==
  ASSUME Types, AggrInv,
         \/ AggrSame
         \/ \E t \in Tids : AggrTaken(t)
         \/ \E t \in AggrHeld : AggrDropped(t)
         \/ \E t \in AggrHeld : AggrDroppedEarly(t)
         \/ \E t \in Unpaid : AggrPaid(t)
  PROVE  AggrInv'
<1> DEFINE Held == Cardinality(AggrHeld)
           Owed == Cardinality(Unpaid)
<1>1. /\ AggrHeld \in SUBSET Tids /\ Unpaid \in SUBSET Tids
      /\ aggrCur \in Int /\ MaxAggr \in Int /\ early \in Int
  BY AddbaAssumption DEF AggrHeld, Unpaid, Types
<1>2. /\ Held \in Nat /\ Owed \in Nat /\ IsFiniteSet(Unpaid)
      /\ aggrCur <= Held /\ Held + Owed <= aggrCur + early
      /\ aggrCur <= MaxAggr
  BY <1>1, TidsFinite DEF AggrInv
<1>3. ASSUME Unpaid' \subseteq Unpaid
      PROVE  Owed' \in Nat /\ Owed' <= Owed
  BY <1>1, <1>2, <1>3, TidsFinite, FS_Subset
<1>4. CASE AggrSame
  <2>1. /\ Held' = Held /\ aggrCur' = aggrCur
        /\ early' \in Int /\ early' >= early
        /\ Owed' \in Nat /\ Owed' <= Owed
    BY <1>3, <1>4 DEF AggrSame
  <2>2. aggrCur' <= Held' /\ Held' + Owed' <= aggrCur' + early'
    BY <1>1, <1>2, <2>1
  <2> QED BY <1>2, <2>1, <2>2 DEF AggrInv
<1>5. ASSUME NEW t \in Tids, AggrTaken(t)
      PROVE  AggrInv'
  <2>1. /\ Held' = Held + 1 /\ aggrCur' = aggrCur + 1 /\ early' = early
        /\ aggrCur + 1 <= MaxAggr /\ Owed' = Owed
    BY <1>1, <1>5, OneMore DEF AggrTaken
  <2>2. aggrCur' <= Held' /\ Held' + Owed' <= aggrCur' + early'
    BY <1>1, <1>2, <2>1
  <2> QED BY <2>1, <2>2 DEF AggrInv
<1>6. ASSUME NEW t \in AggrHeld, AggrDropped(t)
      PROVE  AggrInv'
  <2>1. /\ Held' = Held - 1 /\ aggrCur' = aggrCur - 1 /\ early' = early
        /\ Owed' \in Nat /\ Owed' <= Owed
    BY <1>1, <1>3, <1>6, OneLess DEF AggrDropped
  <2>2. /\ aggrCur' <= Held' /\ Held' + Owed' <= aggrCur' + early'
        /\ aggrCur' <= MaxAggr
    BY <1>1, <1>2, <2>1
  <2> QED BY <2>2 DEF AggrInv
<1>7. ASSUME NEW t \in AggrHeld, AggrDroppedEarly(t)
      PROVE  AggrInv'
  <2>1. t \in Tids /\ Unpaid \cup {t} \in SUBSET Tids
    BY <1>1, <1>7
  <2>2. Cardinality(Unpaid \cup {t}) <= Owed + 1
    <3>1. CASE t \in Unpaid
      <4>1. Cardinality(Unpaid \cup {t}) = Owed
        <5>1. Unpaid \cup {t} = Unpaid
          BY <3>1
        <5> QED BY <5>1
      <4> QED BY <1>2, <4>1
    <3>2. CASE t \notin Unpaid
      <4>1. Cardinality(Unpaid \cup {t}) = Owed + 1
        BY <1>1, <2>1, <3>2, OneMore
      <4> QED BY <1>2, <4>1
    <3> QED BY <3>1, <3>2
  <2>3. Owed' \in Nat /\ Owed' <= Cardinality(Unpaid \cup {t})
    BY <1>7, <2>1, TidsFinite, FS_Subset DEF AggrDroppedEarly
  <2>4. Held' = Held - 1 /\ aggrCur' = aggrCur - 1 /\ early' = early + 1
    BY <1>1, <1>7, OneLess DEF AggrDroppedEarly
  <2>5. Cardinality(Unpaid \cup {t}) \in Nat
    BY <2>1, TidsFinite
  <2>6. /\ aggrCur' <= Held' /\ Held' + Owed' <= aggrCur' + early'
        /\ aggrCur' <= MaxAggr
    BY <1>1, <1>2, <2>2, <2>3, <2>4, <2>5
  <2> QED BY <2>6 DEF AggrInv
<1>8. ASSUME NEW t \in Unpaid, AggrPaid(t)
      PROVE  AggrInv'
  <2>1. Unpaid \ {t} \in SUBSET Tids
    BY <1>1
  <2>2. /\ Cardinality(Unpaid \ {t}) = Owed - 1
        /\ Cardinality(Unpaid \ {t}) \in Nat
    BY <1>1, <1>8, <2>1, OneLess, TidsFinite
  <2>3. Owed' \in Nat /\ Owed' <= Cardinality(Unpaid \ {t})
    BY <1>8, <2>1, TidsFinite, FS_Subset DEF AggrPaid
  <2>4. Held' = Held /\ aggrCur' = aggrCur - 1 /\ early' = early
    BY <1>8 DEF AggrPaid
  <2>5. /\ aggrCur' <= Held' /\ Held' + Owed' <= aggrCur' + early'
        /\ aggrCur' <= MaxAggr
    BY <1>1, <1>2, <2>2, <2>3, <2>4
  <2> QED BY <2>5 DEF AggrInv
<1> QED BY <1>4, <1>5, <1>6, <1>7, <1>8

\* reord_reflim; a frame handled on a stopped peer (raced) may leave the
\* reference of a TID behind.
LEMMA ReordCounted ==
  ASSUME Types, ReordInv, raced => raced',
         \/ ReordHeld' = ReordHeld /\ reordCur' = reordCur
         \/ \E t \in Tids : /\ t \notin ReordHeld
                            /\ ReordHeld' = ReordHeld \cup {t}
                            /\ reordCur' = reordCur + 1
                            /\ reordCur' <= MaxReord
         \/ \E t \in ReordHeld : /\ ReordHeld' = ReordHeld \ {t}
                                /\ reordCur' = reordCur - 1
         \/ raced' /\ ReordHeld' \subseteq ReordHeld /\ reordCur' = reordCur
  PROVE  ReordInv'
<1>1. ReordHeld \in SUBSET Tids /\ reordCur \in Int
  BY DEF ReordHeld, Types
<1>2. /\ reordCur >= Cardinality(ReordHeld)
      /\ ~raced => reordCur = Cardinality(ReordHeld)
  BY DEF ReordInv, ReordRefs, ReordHeld
<1>3. Cardinality(ReordHeld) \in Nat /\ IsFiniteSet(ReordHeld)
  BY <1>1, TidsFinite
<1>4. /\ reordCur' >= Cardinality(ReordHeld')
      /\ ~raced' => reordCur' = Cardinality(ReordHeld')
  <2>1. CASE ReordHeld' = ReordHeld /\ reordCur' = reordCur
    BY <1>2, <2>1
  <2>2. ASSUME NEW t \in Tids, t \notin ReordHeld,
               ReordHeld' = ReordHeld \cup {t}, reordCur' = reordCur + 1
        PROVE  /\ reordCur' >= Cardinality(ReordHeld')
               /\ ~raced' => reordCur' = Cardinality(ReordHeld')
    BY <1>1, <1>2, <1>3, <2>2, OneMore
  <2>3. ASSUME NEW t \in ReordHeld, ReordHeld' = ReordHeld \ {t},
               reordCur' = reordCur - 1
        PROVE  /\ reordCur' >= Cardinality(ReordHeld')
               /\ ~raced' => reordCur' = Cardinality(ReordHeld')
    BY <1>1, <1>2, <1>3, <2>3, OneLess
  <2>4. CASE raced' /\ ReordHeld' \subseteq ReordHeld /\ reordCur' = reordCur
    <3>1. /\ Cardinality(ReordHeld') \in Nat
          /\ Cardinality(ReordHeld') <= Cardinality(ReordHeld)
      BY <1>1, <1>3, <2>4, TidsFinite, FS_Subset
    <3> QED BY <1>1, <1>2, <1>3, <2>4, <3>1
  <2> QED BY <2>1, <2>2, <2>3, <2>4
<1>5. reordCur' <= MaxReord
  BY <1>1, AddbaAssumption DEF ReordInv
<1> QED BY <1>4, <1>5 DEF ReordInv, ReordRefs, ReordHeld

\* _mtlk_addba_peer_reset_tx_state of a TID that is not being stopped.
LEMMA ResetTxCounted ==
  ASSUME Types, AggrInv, NEW t \in Tids, ResetTx(t), UNCHANGED <<stopper, early>>,
         tx[t] # "NONE" => ~Resetting(t) /\ txMsg'[t] # "addba",
         \A u \in Tids : txMsg'[u] = "addba" => txMsg[u] = "addba"
  PROVE  AggrInv'
<1>1. early' \in Int /\ early' >= early
  BY DEF Types
<1>2. CASE tx[t] = "NONE"
  <2>1. AggrSame
    BY <1>1, <1>2 DEF ResetTx, AggrSame, AggrHeld, Unpaid, Orphan, Resetting
  <2> QED BY <2>1, AggrCounted
<1>3. CASE tx[t] # "NONE"
  <2>1. /\ aggrCur' = aggrCur - 1 /\ ~Resetting(t) /\ ~Resetting(t)'
        /\ tx'[t] = "NONE" /\ ~Orphan(t)'
        /\ \A u \in Tids \ {t} : /\ tx'[u] = tx[u] /\ Orphan(u)' = Orphan(u)
                                 /\ Resetting(u)' = Resetting(u)
    BY <1>3 DEF ResetTx, Types, Orphan, Resetting
  <2>2. CASE Orphan(t)
    <3>1. t \in Unpaid
      BY <2>1, <2>2 DEF Unpaid
    <3>2. AggrHeld' = AggrHeld
      BY <2>1, <2>2 DEF AggrHeld
    <3>3. Unpaid' \subseteq Unpaid \ {t}
      BY <1>3, <2>1 DEF Unpaid
    <3> QED BY <2>1, <3>1, <3>2, <3>3, AggrCounted DEF AggrPaid
  <2>3. CASE ~Orphan(t)
    <3>1. t \in AggrHeld
      BY <1>3, <2>1, <2>3 DEF AggrHeld
    <3>2. AggrHeld' = AggrHeld \ {t}
      BY <2>1, <2>3 DEF AggrHeld
    <3>3. Unpaid' \subseteq Unpaid
      BY <1>3, <2>1 DEF Unpaid
    <3> QED BY <2>1, <3>1, <3>2, <3>3, AggrCounted DEF AggrDropped
  <2> QED BY <2>2, <2>3
<1> QED BY <1>2, <1>3

\* The rejection of a request that is not confirmed.
LEMMA EarlyRejection ==
  ASSUME Types, AggrInv, NEW t \in Tids, ResetTx(t), ~Resetting(t),
         tx[t] = "ADDBA_REQ_SENT", early' = early + 1,
         UNCHANGED <<stopper, txMsg>>
  PROVE  AggrInv'
<1>1. /\ aggrCur' = aggrCur - 1 /\ tx'[t] = "NONE" /\ ~Orphan(t)
      /\ ~Orphan(t)'
      /\ \A u \in Tids \ {t} : /\ tx'[u] = tx[u] /\ Orphan(u)' = Orphan(u)
                               /\ Resetting(u)' = Resetting(u)
  BY DEF ResetTx, Types, Orphan, Resetting
<1>2. t \in AggrHeld
  BY <1>1 DEF AggrHeld
<1>3. AggrHeld' = AggrHeld \ {t}
  BY <1>1 DEF AggrHeld
<1>4. Unpaid' \subseteq Unpaid \cup {t}
  BY <1>1 DEF Unpaid
<1> QED BY <1>1, <1>2, <1>3, <1>4, AggrCounted DEF AggrDroppedEarly

\* _mtlk_addba_peer_reset_rx_state.
LEMMA ResetRxCounted ==
  ASSUME Types, ReordInv, NEW t \in Tids, ResetRx(t), raced => raced'
  PROVE  ReordInv'
<1>1. CASE HoldsReord(t)
  <2>1. /\ t \in ReordHeld /\ ReordHeld' = ReordHeld \ {t}
        /\ reordCur' = reordCur - 1
    BY <1>1 DEF ResetRx, ReordCurAfterReset, ReordHeld, HoldsReord, Types
  <2> QED BY <2>1, ReordCounted
<1>2. CASE ~HoldsReord(t)
  <2>1. ReordHeld' = ReordHeld /\ reordCur' = reordCur
    BY <1>2 DEF ResetRx, ReordCurAfterReset, ReordHeld, HoldsReord, Types
  <2> QED BY <2>1, ReordCounted
<1> QED BY <1>1, <1>2

\* A step that does not touch the aggregations.
LEMMA AggrUntouched ==
  ASSUME Types, AggrInv, UNCHANGED <<txVars, aggrCur, stopper, early>>
  PROVE  AggrInv'
<1>1. AggrHeld' = AggrHeld /\ Unpaid' = Unpaid /\ aggrCur' = aggrCur
  BY DEF AggrHeld, Unpaid, Orphan, Resetting, txVars
<1>2. early' \in Int /\ early' >= early
  BY DEF Types
<1> QED BY <1>1, <1>2, AggrCounted DEF AggrSame

\* The limit of aggregations.
LEMMA AggrStep ==
  ASSUME Types, StopInv, TxInv, TokenInv, AggrInv, [Next]_vars
  PROVE  AggrInv'
<1> USE AddbaAssumption
<1>1. CASE UNCHANGED vars
  BY <1>1, AggrUntouched DEF vars, limVars
<1>2. CASE OnAddbaRes
  <2> DEFINE t == frame.tid
  <2>1. /\ frame.tid \in Tids /\ UNCHANGED stopper /\ frame.type = "response"
        /\ frame.dlgt \in Tokens /\ frame.success \in BOOLEAN
    BY <1>2, FrameFacts DEF OnAddbaRes
  <2>2. /\ Resetting(t) => tx[t] = "NONE"
        /\ Done(t) => tx[t] = "NONE"
        /\ Live(t) => TxFits(t)
    BY <2>1 DEF TxInv
  <2>20. Live(t) \/ Done(t) \/ Resetting(t)
    BY <2>1 DEF Live, Done, Resetting, Types, Tids
  <2>3. /\ early' \in Int /\ early' >= early
        /\ EarlyAnswer(frame) /\ ~frame.success => early' = early + 1
        /\ ~EarlyAnswer(frame) \/ frame.success => early' = early
    BY <1>2 DEF OnAddbaRes, Types
  <2>4. CASE UNCHANGED <<txVars, aggrCur>>
    <3>1. AggrHeld' = AggrHeld /\ Unpaid' = Unpaid /\ aggrCur' = aggrCur
      BY <2>1, <2>4 DEF AggrHeld, Unpaid, Orphan, Resetting, txVars
    <3> QED BY <2>3, <3>1, AggrCounted DEF AggrSame
  <2>5. CASE TokenMatches(frame) /\ AcceptedByPeer(frame.tid)
    <3>1. ~Orphan(t) /\ UNCHANGED <<dlgt, aggrCur>>
      BY <2>1, <2>5 DEF TokenMatches, AcceptedByPeer, Orphan, Tokens
    <3>2. \A u \in Tids : /\ Orphan(u)' <=> Orphan(u)
                          /\ Resetting(u)' <=> Resetting(u)
                          /\ tx'[u] = "NONE" <=> tx[u] = "NONE"
                          /\ txMsg'[u] = "addba" => txMsg[u] = "addba"
      BY <2>1, <2>5, <3>1 DEF AcceptedByPeer, Orphan, Resetting, Types
    <3>3. AggrHeld' = AggrHeld /\ Unpaid' \subseteq Unpaid
      BY <3>2 DEF AggrHeld, Unpaid
    <3> QED BY <2>3, <3>1, <3>3, AggrCounted DEF AggrSame
  <2>6. CASE TokenMatches(frame) /\ ~frame.success /\ RejectedByPeer(frame.tid)
    <3>1. ResetTx(frame.tid) /\ UNCHANGED txMsg
      BY <2>6 DEF RejectedByPeer
    <3>2. CASE tx[t] = "NONE"
      <4>1. AggrHeld' = AggrHeld /\ Unpaid' = Unpaid /\ aggrCur' = aggrCur
        BY <2>1, <3>1, <3>2 DEF ResetTx, AggrHeld, Unpaid, Orphan, Resetting
      <4> QED BY <2>3, <4>1, AggrCounted DEF AggrSame
    <3>3. CASE tx[t] = "ADDBA_REQ_SENT"
      <4>1. txMsg[t] = "addba" /\ ~Resetting(t)
        BY <2>2, <2>20, <3>3 DEF TxFits
      <4>2. early' = early + 1
        BY <2>1, <2>3, <2>6, <4>1 DEF EarlyAnswer, TokenMatches
      <4> QED BY <2>1, <3>1, <3>3, <4>1, <4>2, EarlyRejection
    <3>4. CASE tx[t] \notin {"NONE", "ADDBA_REQ_SENT"}
      <4>1. txMsg[t] # "addba" /\ ~Resetting(t)
        BY <2>2, <2>20, <3>4 DEF TxFits
      <4>2. early' = early
        BY <2>3, <4>1 DEF EarlyAnswer
      <4> QED BY <2>1, <3>1, <4>1, <4>2, ResetTxCounted
    <3> QED BY <3>2, <3>3, <3>4
  <2> QED BY <1>2, <2>4, <2>5, <2>6 DEF OnAddbaRes
<1>3. CASE OnAddbaReq
  BY <1>3, AggrUntouched DEF OnAddbaReq
<1>4. CASE OnDelbaReq
  <2>1. frame.tid \in Tids /\ UNCHANGED <<stopper, dlgt, aggrCur, early>>
    BY <1>4, FrameFacts DEF OnDelbaReq
  <2>2. \A u \in Tids : /\ tx'[u] = "NONE" <=> tx[u] = "NONE"
                        /\ txMsg'[u] = "addba" => txMsg[u] = "addba"
                        /\ tx'[u] = "ADDBA_REQ_CFMD" <=> tx[u] = "ADDBA_REQ_CFMD"
    BY <1>4, <2>1 DEF OnDelbaReq, CloseAggrReq, Types
  <2>3. AggrHeld' = AggrHeld /\ Unpaid' \subseteq Unpaid
    BY <2>1, <2>2 DEF AggrHeld, Unpaid, Orphan, Resetting
  <2>4. early' \in Int /\ early' >= early
    BY <2>1 DEF Types
  <2> QED BY <2>1, <2>3, <2>4, AggrCounted DEF AggrSame
<1>5. ASSUME NEW t \in Tids, TxCfm(t)
      PROVE  AggrInv'
  <2>1. /\ UNCHANGED <<stopper, early>>
        /\ txMsg' = [txMsg EXCEPT ![t] = "none"]
        /\ early' \in Int /\ early' >= early
    BY <1>5 DEF TxCfm, Types
  <2>2. txMsg[t] # "none" => Resetting(t) \/ (~Resetting(t) /\ TxFits(t))
    BY DEF TxInv, Live, Done, Resetting, Types, Tids
  <2>3. CASE AddbaReqCfm(t)
    <3>1. /\ UNCHANGED <<dlgt, aggrCur>> /\ txMsg[t] = "addba"
          /\ tx' = [tx EXCEPT ![t] = "ADDBA_REQ_CFMD"]
      BY <2>3 DEF AddbaReqCfm
    <3>2. \A u \in Tids : Resetting(u)' <=> Resetting(u)
      BY <2>1 DEF Resetting
    <3>3. Orphan(t)' <=> dlgt[t] = InvalidTag
      BY <3>1 DEF Orphan, Types
    <3>4. /\ t \in AggrHeld' <=> t \in AggrHeld
          /\ t \in Unpaid' => t \in Unpaid
      BY <2>1, <2>2, <3>1, <3>2, <3>3
      DEF AggrHeld, Unpaid, TxFits, Orphan, Types
    <3>5. \A u \in Tids \ {t} : /\ u \in AggrHeld' <=> u \in AggrHeld
                                /\ u \in Unpaid' => u \in Unpaid
      BY <2>1, <3>1, <3>2 DEF AggrHeld, Unpaid, Orphan, Types
    <3>6. AggrHeld' = AggrHeld /\ Unpaid' \subseteq Unpaid
      BY <3>4, <3>5 DEF AggrHeld, Unpaid
    <3> QED BY <2>1, <3>1, <3>6, AggrCounted DEF AggrSame
  <2>4. CASE OpenAggrCfm(t)
    <3>1. /\ UNCHANGED <<dlgt, aggrCur>> /\ txMsg[t] = "open"
          /\ tx' = [tx EXCEPT ![t] = "AGGR_OPENED"]
      BY <2>4 DEF OpenAggrCfm
    <3>2. \A u \in Tids : Resetting(u)' <=> Resetting(u)
      BY <2>1 DEF Resetting
    <3>3. ~Resetting(t) => tx[t] = "ADD_AGGR_REQ_SENT"
      BY <2>2, <3>1 DEF TxFits
    <3>4. /\ t \in AggrHeld' <=> t \in AggrHeld
          /\ t \in Unpaid' => t \in Unpaid
      BY <2>1, <3>1, <3>2, <3>3 DEF AggrHeld, Unpaid, Orphan, Types
    <3>5. \A u \in Tids \ {t} : /\ u \in AggrHeld' <=> u \in AggrHeld
                                /\ u \in Unpaid' => u \in Unpaid
      BY <2>1, <3>1, <3>2 DEF AggrHeld, Unpaid, Orphan, Types
    <3>6. AggrHeld' = AggrHeld /\ Unpaid' \subseteq Unpaid
      BY <3>4, <3>5 DEF AggrHeld, Unpaid
    <3> QED BY <2>1, <3>1, <3>6, AggrCounted DEF AggrSame
  <2>5. CASE CloseAggrCfm(t)
    <3>1. Resetting(t) => tx[t] = "NONE"
      <4>1. txMsg[t] # "none"
        BY <2>5 DEF CloseAggrCfm
      <4> QED BY <4>1 DEF TxInv
    <3>2. \A u \in Tids : txMsg'[u] = "addba" => txMsg[u] = "addba"
      BY <2>1 DEF Types
    <3>3. txMsg'[t] # "addba"
      BY <2>1 DEF Types
    <3> QED BY <2>1, <2>5, <3>1, <3>2, <3>3, ResetTxCounted DEF CloseAggrCfm
  <2> QED BY <1>5, <2>3, <2>4, <2>5 DEF TxCfm
<1>6. ASSUME NEW t \in Tids, RxCfm(t)
      PROVE  AggrInv'
  BY <1>6, AggrUntouched DEF RxCfm
<1>7. CASE Start
  <2>1. \A t \in Tids : /\ tx[t] = "NONE" /\ tx'[t] = "NONE"
                        /\ txMsg'[t] = "none"
    BY <1>7 DEF Start, TxInv, Done, Idle
  <2>2. AggrHeld' = AggrHeld /\ Unpaid' \subseteq Unpaid
    BY <2>1 DEF AggrHeld, Unpaid, Orphan
  <2>3. aggrCur' = aggrCur /\ early' \in Int /\ early' >= early
    BY <1>7 DEF Start, limVars, Types
  <2> QED BY <2>2, <2>3, AggrCounted DEF AggrSame
<1>8. CASE StopBegin
  <2>1. \A t \in Tids : ~Resetting(t) /\ ~Resetting(t)'
    BY <1>8, StopperNext DEF StopBegin, Resetting, StopInv
  <2>2. /\ UNCHANGED <<tx, txMsg, dlgt, aggrCur>>
        /\ early' \in Int /\ early' >= early
    BY <1>8 DEF StopBegin, txVars, limVars, Types
  <2>3. AggrHeld' = AggrHeld /\ Unpaid' = Unpaid
    BY <2>1, <2>2 DEF AggrHeld, Unpaid, Orphan
  <2> QED BY <2>2, <2>3, AggrCounted DEF AggrSame
<1>9. CASE StopTx
  <2> DEFINE t == stopper.tid
  <2>1. /\ stopper.tid \in Tids /\ stopper'.tid = stopper.tid
        /\ stopper'.pc = "cancelTx" /\ stopper.pc = "tx"
        /\ ResetTx(stopper.tid) /\ UNCHANGED <<txMsg, early>>
        /\ early' \in Int /\ early' >= early
    BY <1>9 DEF StopTx, Types
  <2>2. \A u \in Tids : ~Resetting(u) /\ (Resetting(u)' <=> u = t)
    BY <2>1 DEF Resetting
  <2>3. \A u \in Tids \ {t} : UNCHANGED <<tx[u], dlgt[u], txMsg[u]>>
    BY <2>1 DEF ResetTx, Types
  <2>4. \A u \in Tids \ {t} : /\ u \in AggrHeld' <=> u \in AggrHeld
                              /\ u \in Unpaid' <=> u \in Unpaid
    BY <2>2, <2>3 DEF AggrHeld, Unpaid, Orphan
  <2>5. t \notin AggrHeld' /\ t \notin Unpaid'
    BY <2>1, <2>2 DEF AggrHeld, Unpaid
  <2>6. AggrHeld' = AggrHeld \ {t} /\ Unpaid' = Unpaid \ {t}
    BY <2>4, <2>5 DEF AggrHeld, Unpaid
  <2>7. CASE tx[t] = "NONE"
    <3>1. t \notin AggrHeld /\ aggrCur' = aggrCur
      BY <2>1, <2>7 DEF AggrHeld, ResetTx
    <3> QED BY <2>1, <2>6, <3>1, AggrCounted DEF AggrSame
  <2>8. CASE tx[t] # "NONE" /\ ~Orphan(t)
    <3>1. t \in AggrHeld /\ aggrCur' = aggrCur - 1
      BY <2>1, <2>2, <2>8 DEF AggrHeld, ResetTx
    <3> QED BY <2>1, <2>6, <3>1, AggrCounted DEF AggrDropped
  <2>9. CASE tx[t] # "NONE" /\ Orphan(t)
    <3>1. t \notin AggrHeld /\ t \in Unpaid /\ aggrCur' = aggrCur - 1
      BY <2>1, <2>2, <2>9 DEF AggrHeld, Unpaid, ResetTx
    <3> QED BY <2>1, <2>6, <3>1, AggrCounted DEF AggrPaid
  <2> QED BY <2>7, <2>8, <2>9
<1>10. CASE StopCancelTx
  <2>1. stopper'.tid = stopper.tid /\ stopper'.pc = "rx"
    BY <1>10 DEF StopCancelTx, Types
  <2>2. \A t \in Tids : Resetting(t)' <=> Resetting(t)
    BY <1>10, <2>1 DEF StopCancelTx, Resetting
  <2>3. /\ UNCHANGED <<tx, dlgt, aggrCur>> /\ early' \in Int /\ early' >= early
        /\ \A t \in Tids : txMsg'[t] = "addba" => txMsg[t] = "addba"
    BY <1>10 DEF StopCancelTx, limVars, Types
  <2>4. AggrHeld' = AggrHeld /\ Unpaid' \subseteq Unpaid
    BY <2>2, <2>3 DEF AggrHeld, Unpaid, Orphan
  <2> QED BY <2>3, <2>4, AggrCounted DEF AggrSame
<1>11. CASE StopRx
  <2>1. stopper'.tid = stopper.tid /\ stopper'.pc = "cancelRx"
    BY <1>11 DEF StopRx, Types
  <2>2. \A t \in Tids : Resetting(t)' <=> Resetting(t)
    BY <1>11, <2>1 DEF StopRx, Resetting
  <2>3. /\ UNCHANGED <<tx, dlgt, txMsg, aggrCur>>
        /\ early' \in Int /\ early' >= early
    BY <1>11 DEF StopRx, txVars, Types
  <2>4. AggrHeld' = AggrHeld /\ Unpaid' = Unpaid
    BY <2>2, <2>3 DEF AggrHeld, Unpaid, Orphan
  <2> QED BY <2>3, <2>4, AggrCounted DEF AggrSame
<1>12. CASE StopCancelRx
  <2>1. /\ stopper.pc = "cancelRx" /\ stopper.tid \in Tids
        /\ tx' = [tx EXCEPT ![stopper.tid] = "NONE"]
        /\ dlgt' = [dlgt EXCEPT ![stopper.tid] = 0]
        /\ UNCHANGED <<txMsg, aggrCur>> /\ early' \in Int /\ early' >= early
    BY <1>12 DEF StopCancelRx, limVars, Types
  <2>2. \A t \in Tids : ~Resetting(t)' /\ (Resetting(t) <=> t = stopper.tid)
    BY <1>12, <2>1, StopperNext DEF Resetting
  <2>3. txMsg[stopper.tid] = "none"
    BY <2>1 DEF TxInv, Resetting
  <2>4. stopper.tid \notin AggrHeld' /\ stopper.tid \notin Unpaid'
    BY <2>1, <2>3 DEF AggrHeld, Unpaid, Orphan, Types
  <2>5. \A u \in Tids \ {stopper.tid} : /\ u \in AggrHeld' <=> u \in AggrHeld
                                        /\ u \in Unpaid' <=> u \in Unpaid
    BY <2>1, <2>2 DEF AggrHeld, Unpaid, Orphan, Types
  <2>6. stopper.tid \notin AggrHeld
    BY <2>1, <2>2 DEF AggrHeld
  <2>7. AggrHeld' = AggrHeld /\ Unpaid' \subseteq Unpaid
    BY <2>4, <2>5, <2>6 DEF AggrHeld, Unpaid
  <2> QED BY <2>1, <2>7, AggrCounted DEF AggrSame
<1>13. ASSUME NEW f \in Responses \cup Requests \cup Delbas, FrameArrives(f)
       PROVE  AggrInv'
  BY <1>13, AggrUntouched DEF FrameArrives, limVars
<1>14. ASSUME NEW t \in Tids, UpdateTx(t)
       PROVE  AggrInv'
  BY <1>14, AggrUntouched DEF UpdateTx, limVars
<1>15. ASSUME NEW t \in Tids, Revive(t)
       PROVE  AggrInv'
  <2>1. CASE isActive /\ SendRequest(t)
    <3>1. /\ tx[t] = "NONE" /\ txMsg[t] = "none" /\ UNCHANGED <<stopper, early>>
          /\ aggrCur + 1 <= MaxAggr /\ aggrCur' = aggrCur + 1
          /\ tx' = [tx EXCEPT ![t] = "ADDBA_REQ_SENT"]
          /\ txMsg' = [txMsg EXCEPT ![t] = "addba"]
          /\ dlgt' = [dlgt EXCEPT ![t] = nextDlgt]
      BY <1>15, <2>1
      DEF Revive, SendRequest, CanRequest, CanRef, Types
    <3>2. \A u \in Tids : ~Resetting(u) /\ ~Resetting(u)'
      BY <2>1, <3>1 DEF Resetting, StopInv
    <3>3. t \notin AggrHeld /\ t \in AggrHeld' /\ t \notin Unpaid
      BY <3>1, <3>2 DEF AggrHeld, Unpaid, Orphan, Types
    <3>4. t \notin Unpaid'
      BY <3>1 DEF Unpaid, Orphan, Types
    <3>5. \A u \in Tids \ {t} : /\ u \in AggrHeld' <=> u \in AggrHeld
                                /\ u \in Unpaid' <=> u \in Unpaid
      BY <3>1, <3>2 DEF AggrHeld, Unpaid, Orphan, Types
    <3>6. AggrHeld' = AggrHeld \cup {t} /\ Unpaid' = Unpaid
      BY <3>3, <3>4, <3>5 DEF AggrHeld, Unpaid
    <3> QED BY <3>1, <3>3, <3>6, AggrCounted DEF AggrTaken
  <2>2. CASE UNCHANGED <<aggrCur, txMsg, tx, dlgt>>
    BY <1>15, <2>2, AggrUntouched DEF Revive, txVars
  <2> QED BY <1>15, <2>1, <2>2 DEF Revive
<1>16. ASSUME NEW t \in Tids, ResponseTimeout(t)
       PROVE  AggrInv'
  <2>1. ~Resetting(t) /\ Live(t) /\ tx[t] = "ADDBA_REQ_CFMD"
    BY <1>16 DEF ResponseTimeout, StopInv, Resetting, Live
  <2>2. txMsg[t] # "addba" /\ txMsg' = txMsg /\ UNCHANGED <<stopper, early>>
    BY <1>16, <2>1 DEF TxInv, TxFits, ResponseTimeout
  <2> QED BY <1>16, <2>1, <2>2, ResetTxCounted DEF ResponseTimeout
<1>17. ASSUME NEW t \in Tids, DelbaTimeout(t)
       PROVE  AggrInv'
  BY <1>17, AggrUntouched DEF DelbaTimeout, limVars
<1>18. CASE ReordCallback
  BY <1>18, AggrUntouched DEF ReordCallback, limVars
<1> QED
  BY <1>1, <1>2, <1>3, <1>4, <1>5, <1>6, <1>7, <1>8, <1>9, <1>10, <1>11,
     <1>12, <1>13, <1>14, <1>15, <1>16, <1>17, <1>18
  DEF Next, Tasklet, Stopper

\* An answer in the tasklet's hands does not become early.
LEMMA EarlyStep ==
  ASSUME Types, StopInv, TxInv, EarlyInv, [Next]_vars
  PROVE  EarlyInv'
<1> USE AddbaAssumption
<1>0. ASSUME UNCHANGED early,
             EarlyAnswer(frame)' => EarlyAnswer(frame)
      PROVE  EarlyInv'
  BY <1>0 DEF EarlyInv
<1>1. CASE UNCHANGED <<frame, dlgt, txMsg, early>>
  BY <1>1 DEF EarlyInv, EarlyAnswer
<1>2. CASE OnAddbaRes
  <2>1. ~EarlyAnswer(frame)'
    BY <1>2, FrameFacts DEF OnAddbaRes, EarlyAnswer
  <2>2. early' <= MaxEarly
    BY <1>2 DEF OnAddbaRes, EarlyInv, Types
  <2> QED BY <2>1, <2>2 DEF EarlyInv
<1>3. CASE /\ UNCHANGED early
           /\ frame'.type \in {"request", "delba", "callback", "none"}
  BY <1>3, <1>0 DEF EarlyAnswer
<1>4. CASE OnAddbaReq
  BY <1>3, <1>4, RequestEnds DEF OnAddbaReq
<1>5. CASE OnDelbaReq
  BY <1>3, <1>5, DelbaEnds DEF OnDelbaReq
<1>6. CASE ReordCallback
  BY <1>3, <1>6, FrameFacts DEF ReordCallback
<1>7. ASSUME NEW t \in Tids, TxCfm(t) \/ RxCfm(t)
      PROVE  EarlyInv'
  BY <1>3, <1>7, FrameFacts, CallbackFacts
  DEF TxCfm, RxCfm, AddbaResCfm, DelbaReqCfm
<1>8. CASE Start
  BY <1>3, <1>8, FrameFacts DEF Start
<1>9. CASE StopBegin \/ StopRx
  BY <1>1, <1>9 DEF StopBegin, StopRx, txVars
<1>10. CASE StopTx \/ StopCancelTx
  <2>1. /\ UNCHANGED <<frame, early>>
        /\ dlgt' = dlgt \/ dlgt' = [dlgt EXCEPT ![stopper.tid] = InvalidTag]
        /\ txMsg' = txMsg \/ txMsg' = [txMsg EXCEPT ![stopper.tid] = "none"]
    BY <1>10 DEF StopTx, StopCancelTx, ResetTx
  <2>2. frame.type = "response" => frame.dlgt # InvalidTag /\ frame.tid \in Tids
    BY FrameFacts DEF Tokens
  <2> QED BY <1>0, <2>1, <2>2 DEF EarlyAnswer, Types
<1>11. CASE StopCancelRx
  <2>1. /\ UNCHANGED <<frame, early, txMsg>> /\ stopper.tid \in Tids
        /\ dlgt' = [dlgt EXCEPT ![stopper.tid] = 0]
        /\ txMsg[stopper.tid] = "none"
    BY <1>11 DEF StopCancelRx, TxInv, Resetting, Types
  <2>2. frame.type = "response" => frame.tid \in Tids
    BY FrameFacts
  <2> QED BY <1>0, <2>1, <2>2 DEF EarlyAnswer, Types
<1>12. ASSUME NEW f \in Responses \cup Requests \cup Delbas, FrameArrives(f)
       PROVE  EarlyInv'
  BY <1>12 DEF FrameArrives, EarlyInv, EarlyAnswer, txVars
<1>13. ASSUME NEW t \in Tids, UpdateTx(t) \/ DelbaTimeout(t)
       PROVE  EarlyInv'
  BY <1>1, <1>13 DEF UpdateTx, DelbaTimeout, txVars
<1>14. ASSUME NEW t \in Tids, Revive(t)
       PROVE  EarlyInv'
  <2>1. CASE SendRequest(t)
    <3>1. /\ UNCHANGED <<frame, early>>
          /\ dlgt' = [dlgt EXCEPT ![t] = nextDlgt]
          /\ txMsg' = [txMsg EXCEPT ![t] = "addba"]
          /\ frame.type = "response" => frame.dlgt # nextDlgt
      BY <1>14, <2>1 DEF Revive, SendRequest, CanRequest
    <3> QED BY <1>0, <3>1, FrameFacts DEF EarlyAnswer, Types
  <2>2. CASE UNCHANGED <<dlgt, txMsg>>
    BY <1>1, <1>14, <2>2 DEF Revive
  <2> QED BY <1>14, <2>1, <2>2 DEF Revive
<1>15. ASSUME NEW t \in Tids, ResponseTimeout(t)
       PROVE  EarlyInv'
  <2>1. /\ UNCHANGED <<frame, early, txMsg>>
        /\ dlgt' = dlgt \/ dlgt' = [dlgt EXCEPT ![t] = InvalidTag]
    BY <1>15 DEF ResponseTimeout, ResetTx
  <2>2. frame.type = "response" => frame.dlgt # InvalidTag /\ frame.tid \in Tids
    BY FrameFacts DEF Tokens
  <2> QED BY <1>0, <2>1, <2>2 DEF EarlyAnswer, Types
<1>16. CASE UNCHANGED vars
  BY <1>1, <1>16 DEF vars, txVars
<1> QED
  BY <1>2, <1>4, <1>5, <1>6, <1>7, <1>8, <1>9, <1>10, <1>11, <1>12, <1>13,
     <1>14, <1>15, <1>16
  DEF Next, Tasklet, Stopper

\* The limit of reorderings.
LEMMA ReordStep ==
  ASSUME Types, StopInv, RxStopInv, ReordInv, [Next]_vars
  PROVE  ReordInv'
<1>1. CASE UNCHANGED vars
  <2>1. ReordHeld' = ReordHeld /\ UNCHANGED <<reordCur, raced>>
    BY <1>1 DEF vars, rxVars, limVars, ReordHeld, HoldsReord
  <2> QED BY <2>1, ReordCounted
<1>2. CASE OnAddbaRes
  <2>1. ReordHeld' = ReordHeld /\ reordCur' = reordCur /\ (raced => raced')
    BY <1>2 DEF OnAddbaRes, ReordHeld, HoldsReord, rxVars
  <2> QED BY <2>1, ReordCounted
<1>3. CASE OnAddbaReq
  <2>1. frame.tid \in Tids /\ (raced => raced')
    BY <1>3, FrameFacts DEF OnAddbaReq
  <2>2. CASE /\ rx' = [rx EXCEPT ![frame.tid] = "POSITIVE_RES_SENT"]
             /\ reordCur' = ReordCurAfterReset(frame.tid) + 1
             /\ CanRef(ReordCurAfterReset(frame.tid), MaxReord)
    <3>1. CASE HoldsReord(frame.tid)
      <4>1. ReordHeld' = ReordHeld /\ reordCur' = reordCur
        BY <2>1, <2>2, <3>1 DEF ReordCurAfterReset, ReordHeld, HoldsReord, Types
      <4> QED BY <2>1, <4>1, ReordCounted
    <3>2. CASE ~HoldsReord(frame.tid)
      <4>1. /\ frame.tid \notin ReordHeld /\ reordCur' = reordCur + 1
            /\ reordCur' <= MaxReord
            /\ ReordHeld' = ReordHeld \cup {frame.tid}
        BY <2>1, <2>2, <3>2, AddbaAssumption
        DEF ReordCurAfterReset, ReordHeld, HoldsReord, Types, CanRef
      <4> QED BY <2>1, <4>1, ReordCounted
    <3> QED BY <3>1, <3>2
  <2>3. CASE /\ rx' = [rx EXCEPT ![frame.tid] = "NEGATIVE_RES_SENT"]
             /\ reordCur' = ReordCurAfterReset(frame.tid)
    <3>1. CASE HoldsReord(frame.tid)
      <4>1. /\ frame.tid \in ReordHeld /\ reordCur' = reordCur - 1
            /\ ReordHeld' = ReordHeld \ {frame.tid}
        BY <2>1, <2>3, <3>1 DEF ReordCurAfterReset, ReordHeld, HoldsReord, Types
      <4> QED BY <2>1, <4>1, ReordCounted
    <3>2. CASE ~HoldsReord(frame.tid)
      <4>1. ReordHeld' = ReordHeld /\ reordCur' = reordCur
        BY <2>1, <2>3, <3>2 DEF ReordCurAfterReset, ReordHeld, HoldsReord, Types
      <4> QED BY <2>1, <4>1, ReordCounted
    <3> QED BY <3>1, <3>2
  <2>4. CASE ResetRx(frame.tid)
    BY <2>1, <2>4, ResetRxCounted
  <2> QED BY <1>3, <2>2, <2>3, <2>4 DEF OnAddbaReq
<1>4. CASE OnDelbaReq
  <2>1. frame.tid \in Tids /\ (raced => raced')
    BY <1>4, FrameFacts DEF OnDelbaReq
  <2>2. CASE ResetRx(frame.tid)
    BY <2>1, <2>2, ResetRxCounted
  <2>3. CASE UNCHANGED <<rx, reordCur>>
    <3>1. ReordHeld' = ReordHeld /\ reordCur' = reordCur
      BY <2>3 DEF ReordHeld, HoldsReord
    <3> QED BY <2>1, <3>1, ReordCounted
  <2> QED BY <1>4, <2>2, <2>3 DEF OnDelbaReq
<1>5. ASSUME NEW t \in Tids, TxCfm(t)
      PROVE  ReordInv'
  <2>1. ReordHeld' = ReordHeld /\ UNCHANGED <<reordCur, raced>>
    BY <1>5 DEF TxCfm, rxVars, ReordHeld, HoldsReord
  <2> QED BY <2>1, ReordCounted
<1>6. ASSUME NEW t \in Tids, RxCfm(t)
      PROVE  ReordInv'
  <2>1. raced' = raced
    BY <1>6 DEF RxCfm
  <2>2. CASE ResetRx(t)
    BY <2>1, <2>2, ResetRxCounted
  <2>3. CASE /\ rx[t] = "POSITIVE_RES_SENT" /\ UNCHANGED reordCur
             /\ rx' = [rx EXCEPT ![t] = "REORD_IN_PROCESS"]
    <3>1. ReordHeld' = ReordHeld /\ reordCur' = reordCur
      BY <2>3 DEF ReordHeld, HoldsReord, Types
    <3> QED BY <2>1, <3>1, ReordCounted
  <2> QED BY <1>6, <2>2, <2>3 DEF RxCfm, AddbaResCfm, DelbaReqCfm
<1>7. CASE Start
  <2>1. /\ ReordHeld' = {} /\ reordCur' = reordCur /\ raced' = raced
        /\ \A t \in Tids : Done(t)
    BY <1>7 DEF Start, ReordHeld, HoldsReord, limVars, Done, Idle
  <2>2. ~raced => ReordHeld = {}
    BY <2>1 DEF RxStopInv, ReordHeld, HoldsReord
  <2>3. ReordHeld' = ReordHeld \/ (raced' /\ ReordHeld' \subseteq ReordHeld)
    BY <2>1, <2>2
  <2> QED BY <2>1, <2>3, ReordCounted
<1>8. CASE StopBegin
  <2>1. ReordHeld' = ReordHeld /\ UNCHANGED <<reordCur, raced>>
    BY <1>8 DEF StopBegin, rxVars, limVars, ReordHeld, HoldsReord
  <2> QED BY <2>1, ReordCounted
<1>9. CASE StopTx
  <2>1. ReordHeld' = ReordHeld /\ UNCHANGED <<reordCur, raced>>
    BY <1>9 DEF StopTx, rxVars, ReordHeld, HoldsReord
  <2> QED BY <2>1, ReordCounted
<1>10. CASE StopCancelTx
  <2>1. ReordHeld' = ReordHeld /\ UNCHANGED <<reordCur, raced>>
    BY <1>10 DEF StopCancelTx, rxVars, limVars, ReordHeld, HoldsReord
  <2> QED BY <2>1, ReordCounted
<1>11. CASE StopRx
  <2>1. stopper.tid \in Tids /\ raced' = raced /\ ResetRx(stopper.tid)
    BY <1>11 DEF StopRx, Types
  <2> QED BY <2>1, ResetRxCounted
<1>12. CASE StopCancelRx
  <2>1. /\ stopper.pc = "cancelRx" /\ UNCHANGED <<reordCur, raced>>
        /\ rx' = [rx EXCEPT ![stopper.tid] = "NONE"]
    BY <1>12 DEF StopCancelRx, limVars
  <2>2. CASE raced
    <3>1. ReordHeld' \subseteq ReordHeld
      BY <2>1 DEF ReordHeld, HoldsReord, Types
    <3> QED BY <2>1, <2>2, <3>1, ReordCounted
  <2>3. CASE ~raced
    <3>1. rx[stopper.tid] = "NONE"
      BY <2>1, <2>3 DEF RxStopInv
    <3>2. ReordHeld' = ReordHeld
      BY <2>1, <3>1 DEF ReordHeld, HoldsReord, Types
    <3> QED BY <2>1, <3>2, ReordCounted
  <2> QED BY <2>2, <2>3
<1>13. ASSUME NEW f \in Responses \cup Requests \cup Delbas, FrameArrives(f)
       PROVE  ReordInv'
  <2>1. ReordHeld' = ReordHeld /\ UNCHANGED <<reordCur, raced>>
    BY <1>13 DEF FrameArrives, rxVars, limVars, ReordHeld, HoldsReord
  <2> QED BY <2>1, ReordCounted
<1>14. ASSUME NEW t \in Tids, UpdateTx(t)
       PROVE  ReordInv'
  <2>1. ReordHeld' = ReordHeld /\ UNCHANGED <<reordCur, raced>>
    BY <1>14 DEF UpdateTx, rxVars, limVars, ReordHeld, HoldsReord
  <2> QED BY <2>1, ReordCounted
<1>15. ASSUME NEW t \in Tids, Revive(t)
       PROVE  ReordInv'
  <2>1. ReordHeld' = ReordHeld /\ UNCHANGED <<reordCur, raced>>
    BY <1>15 DEF Revive, rxVars, ReordHeld, HoldsReord
  <2> QED BY <2>1, ReordCounted
<1>16. ASSUME NEW t \in Tids, ResponseTimeout(t)
       PROVE  ReordInv'
  <2>1. ReordHeld' = ReordHeld /\ UNCHANGED <<reordCur, raced>>
    BY <1>16 DEF ResponseTimeout, rxVars, ReordHeld, HoldsReord
  <2> QED BY <2>1, ReordCounted
<1>17. ASSUME NEW t \in Tids, DelbaTimeout(t)
       PROVE  ReordInv'
  <2>1. ReordHeld' = ReordHeld /\ UNCHANGED <<reordCur, raced>>
    BY <1>17
    DEF DelbaTimeout, SendRxDelbaReq, ReordHeld, HoldsReord, limVars, Types
  <2> QED BY <2>1, ReordCounted
<1>18. CASE ReordCallback
  <2>1. ReordHeld' = ReordHeld /\ reordCur' = reordCur /\ (raced => raced')
    BY <1>18 DEF ReordCallback, rxVars, limVars, ReordHeld, HoldsReord
  <2> QED BY <2>1, ReordCounted
<1> QED
  BY <1>1, <1>2, <1>3, <1>4, <1>5, <1>6, <1>7, <1>8, <1>9, <1>10, <1>11,
     <1>12, <1>13, <1>14, <1>15, <1>16, <1>17, <1>18
  DEF Next, Tasklet, Stopper

-----------------------------------------------------------------------------
(***************************************************************************)
(* The theorems.                                                            *)
(***************************************************************************)
\* The inductive invariant holds, with the types.
LEMMA Inductive == Spec => [](Types /\ IInv)
<1>1. Init => Types
  BY InitType
<1>2. Init => IInv
  <2> SUFFICES ASSUME Init PROVE IInv
    OBVIOUS
  <2>1. /\ isActive = FALSE /\ stopper.pc = "idle" /\ stopper = Idle
        /\ frame.type = "none" /\ raced = FALSE /\ early = 0
        /\ \A t \in Tids : /\ tx[t] = "NONE" /\ txMsg[t] = "none"
                           /\ rx[t] = "NONE" /\ rxMsg[t] = "none"
                           /\ ~rodOn[t]
    BY DEF Init, Idle, NoFrame
  <2>2. StopInv /\ TxInv /\ TokenInv /\ RxInv /\ RxStopInv
    BY <2>1
    DEF StopInv, TxInv, TokenInv, RxInv, RxStopInv, Live, Done, Resetting
  <2>3. AggrHeld = {} /\ Unpaid = {} /\ {t \in Tids : HoldsReord(t)} = {}
    BY <2>1 DEF HoldsReord, AggrHeld, Unpaid, Orphan
  <2>4. AggrInv /\ ReordInv
    <3>1. Cardinality({}) = 0
      BY FS_EmptySet
    <3>2. aggrCur = 0 /\ reordCur = 0 /\ MaxAggr \in Nat /\ MaxReord \in Nat
      BY AddbaAssumption DEF Init
    <3> QED BY <2>1, <2>3, <3>1, <3>2 DEF AggrInv, ReordInv, ReordRefs
  <2>5. EarlyInv
    BY <2>1, AddbaAssumption DEF EarlyInv, EarlyAnswer
  <2> QED BY <2>2, <2>4, <2>5 DEF IInv
<1>3. ASSUME Types, IInv, [Next]_vars
      PROVE  (Types /\ IInv)'
  BY <1>3, TypeStep, StopStep, TxStep, TokenStep, EarlyStep, RxStep,
     RxStopStep, AggrStep, ReordStep
  DEF IInv
<1> QED BY <1>1, <1>2, <1>3, PTL DEF Spec

\* What the counters count bounds them.
LEMMA Bounds ==
  ASSUME Types, IInv
  PROVE  TypeOK /\ AggrRefs
<1>1. /\ AggrHeld \in SUBSET Tids /\ Unpaid \in SUBSET Tids
      /\ ReordHeld \in SUBSET Tids
  BY DEF AggrHeld, Unpaid, ReordHeld
<1>2. /\ Cardinality(AggrHeld) \in Nat /\ Cardinality(Unpaid) \in Nat
      /\ Cardinality(ReordHeld) \in Nat
  BY <1>1, TidsFinite
<1>3. early \in 0 .. MaxEarly
  BY AddbaAssumption DEF IInv, EarlyInv, Types
<1>4. AggrRefs
  BY <1>2, <1>3 DEF IInv, AggrInv, AggrRefs, AggrHeld, Types
<1>5. aggrCur \in -MaxEarly .. MaxAggr
  BY <1>2, <1>3, AddbaAssumption DEF IInv, AggrInv, Types
<1>6. reordCur \in 0 .. MaxReord
  BY <1>2, AddbaAssumption DEF IInv, ReordInv, ReordRefs, ReordHeld, Types
<1> QED BY <1>3, <1>4, <1>5, <1>6 DEF Types, TypeOK

\* Every field keeps its type whatever the peer sends.  The counter of rejects
\* stays below its limit, a token is never the invalid one; reord_reflim stays
\* between 0 and its limit, and aggr_reflim, which a rejection that overtakes its
\* confirmation can take below 0, never lacks more than one for each of those.
THEOREM TypeCorrect == Spec => []TypeOK
BY Inductive, Bounds, PTL

\* aggr_reflim and reord_reflim count the agreements there are, on every path of
\* addba.c that takes or drops a reference, for any limits: no aggregation
\* beyond the limit and nothing left when the peer is stopped.  Only a frame
\* handled on a stopped peer leaks a reference, and only a request rejected
\* before it was confirmed has one dropped twice.
THEOREM ReferencesCorrect == Spec => []References
<1>1. Types /\ IInv => References
  <2> SUFFICES ASSUME Types, IInv PROVE References
    OBVIOUS
  <2>1. ASSUME ~isActive, stopper = Idle, ~raced
        PROVE  /\ reordCur = 0
               /\ \A t \in Tids : /\ tx[t] = "NONE" /\ txMsg[t] = "none"
                                  /\ rx[t] = "NONE" /\ rxMsg[t] = "none"
                                  /\ ~rodOn[t]
    <3>1. stopper.pc = "idle" /\ \A t \in Tids : Done(t)
      BY <2>1 DEF Idle, Done
    <3>2. \A t \in Tids : /\ tx[t] = "NONE" /\ txMsg[t] = "none"
                         /\ rx[t] = "NONE" /\ rxMsg[t] = "none" /\ ~rodOn[t]
      BY <2>1, <3>1 DEF IInv, TxInv, RxStopInv
    <3>3. {t \in Tids : HoldsReord(t)} = {}
      BY <3>2 DEF HoldsReord
    <3> QED BY <2>1, <3>2, <3>3, FS_EmptySet DEF IInv, ReordInv, ReordRefs
  <2>2. StoppedHoldsNothing
    BY <2>1 DEF StoppedHoldsNothing
  <2> QED BY <2>2, Bounds DEF IInv, ReordInv, References
<1> QED BY <1>1, Inductive, PTL

\* The state of every TID of an active peer, the message it has with the
\* firmware and its reordering queue agree (what the confirmation call-backs
\* of addba.c assert), for any interleaving of frames, call-backs,
\* confirmations and timer; where they differ, a frame of the peer has
\* overtaken the confirmation of ours.
THEOREM AgreementCorrect == Spec => []Agreement
<1>1. IInv => Agreement
  BY DEF IInv, Agreement, MessageFitsState, TxInv, RxInv, RxFits, Live, TxFits
<1> QED BY <1>1, Inductive, PTL

\* An aggregation is opened only by the peer's positive answer to the request
\* being negotiated, which the firmware has confirmed: an answer to an earlier
\* request, one that timed out or was made before a reconnection, opens none.
THEOREM OpenedOnAnswerCorrect == Spec => OpenedOnAnswer
<1>1. ASSUME Types, IInv, [Next]_vars
      PROVE  [\A t \in Tids :
                tx[t] # "ADD_AGGR_REQ_SENT" /\ tx'[t] = "ADD_AGGR_REQ_SENT" =>
                  /\ frame.type = "response" /\ frame.tid = t /\ frame.success
                  /\ frame.dlgt = dlgt[t]
                  /\ tx[t] = "ADDBA_REQ_CFMD"]_vars
  <2> SUFFICES ASSUME Next, NEW t \in Tids, tx[t] # "ADD_AGGR_REQ_SENT",
                      tx'[t] = "ADD_AGGR_REQ_SENT"
               PROVE  /\ frame.type = "response" /\ frame.tid = t
                      /\ frame.success /\ frame.dlgt = dlgt[t]
                      /\ tx[t] = "ADDBA_REQ_CFMD"
    BY <1>1
  <2>1. OnAddbaRes
    <3>1. ASSUME NEW u \in Tids,
                 \/ TxCfm(u) \/ RxCfm(u) \/ UpdateTx(u) \/ Revive(u)
                 \/ ResponseTimeout(u) \/ DelbaTimeout(u)
          PROVE  FALSE
      BY <1>1, <3>1
      DEF Types, TxCfm, AddbaReqCfm, OpenAggrCfm, CloseAggrCfm, ResetTx,
          RxCfm, UpdateTx, Revive, SendRequest, ResponseTimeout,
          DelbaTimeout, txVars
    <3>2. ~(OnAddbaReq \/ OnDelbaReq \/ ReordCallback \/ Start \/ StopBegin)
      BY <1>1, FrameFacts
      DEF Types, OnAddbaReq, OnDelbaReq, CloseAggrReq, ReordCallback, Start,
          StopBegin, txVars
    <3>3. ~(StopTx \/ StopCancelTx \/ StopRx \/ StopCancelRx)
      BY <1>1
      DEF Types, StopTx, StopCancelTx, StopRx, StopCancelRx, ResetTx, txVars
    <3>4. ~\E f \in Responses \cup Requests \cup Delbas : FrameArrives(f)
      BY DEF FrameArrives, txVars
    <3> QED BY <3>1, <3>2, <3>3, <3>4 DEF Next, Tasklet, Stopper
  <2>2. frame.type = "response" /\ frame.tid \in Tids
    BY <1>1, <2>1, FrameFacts DEF OnAddbaRes
  <2>3. TokenMatches(frame) /\ frame.success /\ AcceptedByPeer(frame.tid)
    BY <1>1, <2>1, <2>2
    DEF OnAddbaRes, RejectedByPeer, ResetTx, Types, txVars
  <2>4. /\ t = frame.tid /\ tx[t] \in {"ADDBA_REQ_SENT", "ADDBA_REQ_CFMD"}
        /\ txMsg[t] = "none"
    BY <1>1, <2>2, <2>3 DEF AcceptedByPeer, Types
  <2>5. ~Resetting(t) /\ ~Done(t) => TxFits(t)
    BY <1>1 DEF IInv, TxInv, Live, Done, Resetting, Types, Tids
  <2>6. tx[t] = "ADDBA_REQ_CFMD"
    BY <1>1, <2>2, <2>4, <2>5 DEF IInv, TxInv, TxFits
  <2> QED BY <2>2, <2>3, <2>4, <2>6 DEF TokenMatches
<1> QED BY <1>1, Inductive, PTL DEF Spec, OpenedOnAnswer

=============================================================================
