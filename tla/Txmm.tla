-------------------------------- MODULE Txmm --------------------------------
(***************************************************************************)
(* TXMM, the manager of the messages the driver sends to the firmware       *)
(* (shared/txmm.c), with its caller in shared/hw_mmb.c.                     *)
(*                                                                         *)
(* A user attaches a block of a fixed pool to its message object and sends  *)
(* it.  A block travels to the firmware in a slot of the hardware ring;     *)
(* when no slot is free it waits in the QUEUED queue.  The confirmation of  *)
(* a slot calls the user's callback and lets the slot carry the next queued *)
(* block; a timer calls the callback of blocks that waited too long.        *)
(*                                                                         *)
(* A step is a section under obj->lock, or one access to a field that the   *)
(* lock does not protect.  The threads are the users of the message         *)
(* objects, the tasklet that handles confirmations, the timer, and the one  *)
(* that halts and cleans up.  The firmware (external) confirms the slots it *)
(* holds in any order, or not at all.                                       *)
(*                                                                         *)
(* The FREE, SENT and TIMED_OUT queues are sets here: TXMM takes some block  *)
(* from the first and the last and searches SENT by slot.  QUEUED keeps its *)
(* order.  TxmmQue.tla models the rings the queues are kept in.             *)
(***************************************************************************)
EXTENDS Integers, Sequences, FiniteSets, Lists

CONSTANTS
  Blocks,       \* obj->storage: cfg.max_msgs blocks
  Slots,        \* message slots of the ring (PMSG_OBJ)
  Async,        \* message objects sent without a timeout
  Timed,        \* message objects sent with a timeout
  BlockedMsgs,  \* message objects of mtlk_txmm_msg_send_blocked
  Resend,       \* those whose callback answers CLBA_SEND to a confirmation
  None          \* NULL

Msgs == Async \cup Timed \cup BlockedMsgs

ASSUME TxmmAssumption ==
  /\ IsFiniteSet(Blocks) /\ IsFiniteSet(Slots) /\ IsFiniteSet(Msgs)
  /\ None \notin Blocks /\ None \notin Slots /\ None \notin Msgs
  /\ Async \cap Timed = {} /\ Async \cap BlockedMsgs = {}
  /\ Timed \cap BlockedMsgs = {}
  /\ Resend \subseteq Async

VARIABLES
  free, sent, timedOut,  \* the FREE, SENT and TIMED_OUT queues
  queued,            \* the QUEUED queue
  bque,              \* block->que
  bmsg,              \* block->msg
  bslot,             \* block->slot
  bclb,              \* block->clb and block->timeout
  expired,           \* block->timeout has passed since block->send_time
  data,              \* msg->data, and whether msg->obj is set
  slotAt,            \* the pool, a thread about to send, the firmware, or the
                     \* tasklet that handles its confirmation
  active,            \* TXMM_FLAGS_ACTIVE
  ust,               \* where the user of each message object is
  evt, mutex,        \* bsend.evt, and who holds bsend.mutex
  refCnt, zeroEvt,   \* bsend.rmlock
  res,               \* what mtlk_txmm_msg_send_blocked returned
  confirmed,         \* history: the send in progress was confirmed
  tasklet,           \* where the confirmation tasklet is, and with what
  timer,             \* where the timer callback is, and with which block
  kpc,               \* where the clean-up is
  lateCfm, lateTmr,  \* history: blocks freed by a cancel after the tasklet, or
                     \* the timer, had decided to call their callback
  corrupt            \* history: such a callback was called

queVars  == <<free, sent, queued, timedOut>>
blkVars  == <<bque, bmsg, bslot, bclb>>
bsndVars == <<evt, mutex, refCnt, zeroEvt, res>>
lateVars == <<lateCfm, lateTmr, corrupt>>
vars == <<queVars, blkVars, expired, data, slotAt, active, ust, bsndVars,
          confirmed, tasklet, timer, kpc, lateVars>>

BlockQues == {"FREE", "QUEUED", "SENT", "TIMED_OUT", "NONE"}
Clbs      == {"none", "async", "timed", "blocked"}
SlotPlaces == {"pool", "hand", "fw", "cfm"}
UserPcs   == {"idle", "attached", "sent", "mutex", "locked", "wait", "fin",
              "returned"}
CleanupPcs == {"up", "signal", "release", "drain", "cleaned"}
TimerPcs  == {"idle", "popSent", "clbSent", "scanQueued", "popQueued",
              "clbQueued"}
TaskletPcs == {"idle", "clb", "pump"}

\* The type invariant of the module.
TypeOK ==
  /\ free \in SUBSET Blocks
  /\ sent \in SUBSET Blocks
  /\ timedOut \in SUBSET Blocks
  /\ queued \in Seq(Blocks)
  /\ bque \in [Blocks -> BlockQues]
  /\ bmsg \in [Blocks -> Msgs \cup {None}]
  /\ bslot \in [Blocks -> Slots \cup {None}]
  /\ bclb \in [Blocks -> Clbs]
  /\ expired \in SUBSET Blocks
  /\ data \in [Msgs -> Blocks \cup {None}]
  /\ slotAt \in [Slots -> SlotPlaces]
  /\ active \in BOOLEAN
  /\ ust \in [Msgs -> UserPcs]
  /\ evt \in BOOLEAN
  /\ mutex \in Msgs \cup {None}
  /\ refCnt \in Nat
  /\ zeroEvt \in BOOLEAN
  /\ res \in [Msgs -> {"none", "OK", "TIMEOUT", "UNKNOWN"}]
  /\ confirmed \in SUBSET Msgs
  /\ tasklet \in [pc : TaskletPcs, block : Blocks \cup {None},
                  slot : Slots \cup {None}]
  /\ timer \in [pc : TimerPcs, block : Blocks \cup {None}]
  /\ kpc \in CleanupPcs
  /\ lateCfm \in SUBSET Blocks
  /\ lateTmr \in SUBSET Blocks
  /\ corrupt \in BOOLEAN

\* After mtlk_txmm_init and mtlk_txmm_start.
Init ==
  /\ free = Blocks
  /\ sent = {}
  /\ queued = <<>>
  /\ timedOut = {}
  /\ bque = [b \in Blocks |-> "FREE"]
  /\ bmsg = [b \in Blocks |-> None]
  /\ bslot = [b \in Blocks |-> None]
  /\ bclb = [b \in Blocks |-> "none"]
  /\ expired = {}
  /\ data = [m \in Msgs |-> None]
  /\ slotAt = [s \in Slots |-> "pool"]
  /\ active = TRUE
  /\ ust = [m \in Msgs |-> "idle"]
  /\ evt = FALSE
  /\ mutex = None
  /\ refCnt = 1
  /\ zeroEvt = FALSE
  /\ res = [m \in Msgs |-> "none"]
  /\ confirmed = {}
  /\ tasklet = [pc |-> "idle", block |-> None, slot |-> None]
  /\ timer = [pc |-> "idle", block |-> None]
  /\ kpc = "up"
  /\ lateCfm = {}
  /\ lateTmr = {}
  /\ corrupt = FALSE

-----------------------------------------------------------------------------
(***************************************************************************)
(* Blocks and slots.                                                        *)
(***************************************************************************)
Pool == {s \in Slots : slotAt[s] = "pool"}

\* Mutated form: preserve_order is ignored.
RemoveAtSwap(s, i) == Tail([s EXCEPT ![i] = s[1]])

RemoveAt(s, i) == SubSeq(s, 1, i - 1) \o SubSeq(s, i + 1, Len(s))
IndexOf(s, b) == CHOOSE i \in 1 .. Len(s) : s[i] = b

\* _mtlk_txmm_zero_block and the put into FREE of _mtlk_txmm_free_buf; the
\* caller says what becomes of the queue the block was in.
FreeBuf(b) ==
  /\ free' = free \cup {b}
  /\ bque' = [bque EXCEPT ![b] = "FREE"]
  /\ bmsg' = [bmsg EXCEPT ![b] = None]
  /\ bslot' = [bslot EXCEPT ![b] = None]
  /\ bclb' = [bclb EXCEPT ![b] = "none"]
  /\ expired' = expired \ {b}

\* Mutated form: a cancelled block is not taken out of QUEUED.
UnlinkSentOnly(b) ==
  /\ sent' = IF bque[b] = "SENT" THEN sent \ {b} ELSE sent
  /\ UNCHANGED queued

\* _mtlk_txmm_free: the queues a block leaves before it is freed.
Unlink(b) ==
  /\ queued' = IF bque[b] = "QUEUED"
               THEN RemoveAt(queued, IndexOf(queued, b)) ELSE queued
  /\ sent' = IF bque[b] = "SENT" THEN sent \ {b} ELSE sent

\* Mutated forms: the confirmed slot is not reused; the slot that is reused is
\* given back as well.
PumpFreesOnly(s, q) ==
  /\ slotAt' = [slotAt EXCEPT ![s] = "pool"]
  /\ queued' = q
  /\ UNCHANGED <<sent, bslot>>
PumpFreesToo(s, q) ==
  /\ slotAt' = [slotAt EXCEPT ![s] = "pool"]
  /\ IF q = <<>>
     THEN queued' = q /\ UNCHANGED <<sent, bslot>>
     ELSE /\ queued' = Tail(q)
          /\ sent' = sent \cup {Head(q)}
          /\ bslot' = [bslot EXCEPT ![Head(q)] = s]

\* _mtlk_txmm_pump with slot s, after which the queue would be q: the slot
\* carries the first queued block, or goes back to the pool.
Pump(s, q) ==
  IF q = <<>>
  THEN /\ slotAt' = [slotAt EXCEPT ![s] = "pool"]
       /\ queued' = q
       /\ UNCHANGED <<sent, bslot>>
  ELSE /\ slotAt' = [slotAt EXCEPT ![s] = "hand"]
       /\ queued' = Tail(q)
       /\ sent' = sent \cup {Head(q)}
       /\ bslot' = [bslot EXCEPT ![Head(q)] = s]

(***************************************************************************)
(* Users.                                                                   *)
(***************************************************************************)
\* mtlk_txmm_msg_get_empty_data and _mtlk_txmm_attach_data.
GetEmptyData(m) ==
  /\ ust[m] = "idle"
  /\ data[m] = None
  /\ active
  /\ \E b \in free :
       /\ free' = free \ {b}
       /\ bmsg' = [bmsg EXCEPT ![b] = m]
       /\ bque' = [bque EXCEPT ![b] = "NONE"]
       /\ data' = [data EXCEPT ![m] = b]
  /\ ust' = [ust EXCEPT ![m] = "attached"]
  /\ UNCHANGED <<sent, queued, timedOut, bslot, bclb, expired, slotAt, active,
                 bsndVars, confirmed, tasklet, timer, kpc, lateVars>>

\* _mtlk_txmm_send_ex: its section under the lock.  The new block goes behind
\* the queued ones; a slot of the pool, if any, takes the first of them (the
\* direct send of the code is the case where that is the new block).
SendEx(m, clb) ==
  LET b == data[m]
      q == Append(queued, b)
  IN /\ bclb' = [bclb EXCEPT ![b] = clb]
     /\ expired' = expired \ {b}
     /\ confirmed' = confirmed \ {m}
     /\ \/ /\ Pool = {}
           /\ queued' = q
           /\ bque' = [bque EXCEPT ![b] = "QUEUED"]
           /\ bslot' = [bslot EXCEPT ![b] = None]
           /\ UNCHANGED <<sent, slotAt>>
        \/ \E s \in Pool :
              /\ Pump(s, q)
              /\ bque' = [[bque EXCEPT ![b] = "QUEUED"]
                            EXCEPT ![Head(q)] = "SENT"]

\* mtlk_txmm_msg_send.
MsgSend(m) ==
  /\ m \in Async \cup Timed
  /\ ust[m] = "attached"
  /\ SendEx(m, IF m \in Timed THEN "timed" ELSE "async")
  /\ ust' = [ust EXCEPT ![m] = "sent"]
  /\ UNCHANGED <<free, timedOut, bmsg, data, active, bsndVars, tasklet, timer,
                 kpc, lateVars>>

\* The call of api.msg_send after the unlock hands the slot to the firmware.
HandToFw(s) ==
  /\ slotAt[s] = "hand"
  /\ slotAt' = [slotAt EXCEPT ![s] = "fw"]
  /\ UNCHANGED <<queVars, blkVars, expired, data, active, ust, bsndVars,
                 confirmed, tasklet, timer, kpc, lateVars>>

\* A callback for block b has been decided on but not called, by the tasklet
\* (txmm.c:553-566) or by the timer (txmm.c:459-486).
CfmCallbackDue(b) == tasklet.pc = "clb" /\ tasklet.block = b
TmrCallbackDue(b) == \/ timer.pc \in {"clbSent", "clbQueued"} /\ timer.block = b
                     \/ b \in timedOut

\* mtlk_txmm_msg_cancel and _mtlk_txmm_free, at any time an asynchronous
\* message has its data, and from mtlk_txmm_msg_cleanup when a blocked send
\* has returned.  A block in TIMED_OUT is freed without leaving that queue.
MsgCancel(m) ==
  LET b == data[m]
  IN /\ ust[m] \in {"attached", "sent", "returned"}
     /\ b # None
     /\ FreeBuf(b)
     /\ Unlink(b)
     /\ data' = [data EXCEPT ![m] = None]
     /\ ust' = [ust EXCEPT ![m] = "idle"]
     /\ lateCfm' = IF CfmCallbackDue(b) THEN lateCfm \cup {b} ELSE lateCfm
     /\ lateTmr' = IF TmrCallbackDue(b) THEN lateTmr \cup {b} ELSE lateTmr
     /\ UNCHANGED <<timedOut, slotAt, active, bsndVars, confirmed, tasklet,
                    timer, kpc, corrupt>>

(***************************************************************************)
(* Blocked send: one sender at a time (bsend.mutex) waits for bsend.evt.    *)
(***************************************************************************)
\* Mutated form: the sender does not take a reference.
BlockedEnterUncounted(m) ==
  /\ m \in BlockedMsgs
  /\ ust[m] = "attached"
  /\ kpc = "up"
  /\ ust' = [ust EXCEPT ![m] = "mutex"]
  /\ UNCHANGED <<queVars, blkVars, expired, data, slotAt, active, bsndVars,
                 confirmed, tasklet, timer, kpc, lateVars>>

\* _mtlk_txmm_send_blocked up to the mutex; nobody calls it after the cleanup.
BlockedEnter(m) ==
  /\ m \in BlockedMsgs
  /\ ust[m] = "attached"
  /\ kpc = "up"
  /\ refCnt' = refCnt + 1
  /\ ust' = [ust EXCEPT ![m] = "mutex"]
  /\ UNCHANGED <<queVars, blkVars, expired, data, slotAt, active, evt, mutex,
                 zeroEvt, res, confirmed, tasklet, timer, kpc, lateVars>>

\* The mutex is acquired; go on if TXMM is active.
BlockedLock(m) ==
  /\ ust[m] = "mutex"
  /\ mutex = None
  /\ mutex' = m
  /\ IF active
     THEN /\ evt' = FALSE
          /\ ust' = [ust EXCEPT ![m] = "locked"]
          /\ res' = [res EXCEPT ![m] = "none"]
     ELSE /\ ust' = [ust EXCEPT ![m] = "fin"]
          /\ res' = [res EXCEPT ![m] = "UNKNOWN"]
          /\ UNCHANGED evt
  /\ UNCHANGED <<queVars, blkVars, expired, data, slotAt, active, refCnt,
                 zeroEvt, confirmed, tasklet, timer, kpc, lateVars>>

BlockedSend(m) ==
  /\ ust[m] = "locked"
  /\ SendEx(m, "blocked")
  /\ ust' = [ust EXCEPT ![m] = "wait"]
  /\ UNCHANGED <<free, timedOut, bmsg, data, active, bsndVars, tasklet, timer,
                 kpc, lateVars>>

\* Mutated form: the wait has no timeout.
BlockedWaitForever(m) ==
  /\ ust[m] = "wait"
  /\ evt
  /\ res' = [res EXCEPT ![m] = "OK"]
  /\ ust' = [ust EXCEPT ![m] = "fin"]
  /\ UNCHANGED <<queVars, blkVars, expired, data, slotAt, active, evt, mutex,
                 refCnt, zeroEvt, confirmed, tasklet, timer, kpc, lateVars>>

\* mtlk_osal_event_wait returns: the event, or the timeout.
BlockedWait(m) ==
  /\ ust[m] = "wait"
  /\ res' = [res EXCEPT ![m] = IF evt THEN "OK" ELSE "TIMEOUT"]
  /\ ust' = [ust EXCEPT ![m] = "fin"]
  /\ UNCHANGED <<queVars, blkVars, expired, data, slotAt, active, evt, mutex,
                 refCnt, zeroEvt, confirmed, tasklet, timer, kpc, lateVars>>

BlockedUnlock(m) ==
  /\ ust[m] = "fin"
  /\ mutex = m
  /\ mutex' = None
  /\ UNCHANGED <<queVars, blkVars, expired, data, slotAt, active, ust, evt,
                 refCnt, zeroEvt, res, confirmed, tasklet, timer, kpc, lateVars>>

\* mtlk_rmlock_release.
RmRelease ==
  /\ refCnt' = refCnt - 1
  /\ zeroEvt' = (zeroEvt \/ refCnt = 1)

BlockedReturn(m) ==
  /\ ust[m] = "fin"
  /\ mutex # m
  /\ RmRelease
  /\ ust' = [ust EXCEPT ![m] = "returned"]
  /\ UNCHANGED <<queVars, blkVars, expired, data, slotAt, active, evt, mutex,
                 res, confirmed, tasklet, timer, kpc, lateVars>>

(***************************************************************************)
(* _mtlk_txmm_call_usr_clb_locked, for a block that still belongs to the    *)
(* message it was sent for.                                                 *)
(***************************************************************************)
CallUsrClb(b, reason) ==
  LET m == bmsg[b]
  IN /\ confirmed' = IF reason = "CONFIRMED" THEN confirmed \cup {m} ELSE confirmed
     /\ CASE bclb[b] = "blocked" ->
                /\ evt' = TRUE
                /\ UNCHANGED <<free, queued, blkVars, expired, data, ust>>
          [] bclb[b] \in {"async", "timed"}
               /\ m \in Resend /\ reason = "CONFIRMED" ->
                /\ queued' = Append(queued, b)
                /\ bque' = [bque EXCEPT ![b] = "QUEUED"]
                /\ expired' = expired \ {b}
                /\ UNCHANGED <<free, bmsg, bslot, bclb, data, ust, evt>>
          [] bclb[b] \in {"async", "timed"}
               /\ ~(m \in Resend /\ reason = "CONFIRMED") ->
                /\ FreeBuf(b)
                /\ data' = [data EXCEPT ![m] = None]
                /\ ust' = [ust EXCEPT ![m] = "idle"]
                /\ UNCHANGED <<queued, evt>>

\* The same for a block that was freed meanwhile: block->msg is NULL, or the
\* message that has taken the block since, which may be in any queue.  What
\* follows (a failed assertion, a call through NULL, the callback of another
\* message) is not modelled: nothing happens after this step.
CallFreedClb ==
  /\ corrupt' = TRUE
  /\ UNCHANGED <<queVars, blkVars, expired, data, slotAt, active, ust, bsndVars,
                 confirmed, tasklet, timer, kpc, lateCfm, lateTmr>>

(***************************************************************************)
(* The confirmation tasklet: txmm_on_cfm of hw_mmb.c, that is               *)
(* mtlk_txmm_on_cfm and then mtlk_txmm_pump with the confirmed slot.        *)
(***************************************************************************)
OnCfm(s) ==
  /\ tasklet.pc = "idle"
  /\ slotAt[s] = "fw"
  /\ slotAt' = [slotAt EXCEPT ![s] = "cfm"]
  /\ \/ \E b \in sent :
          /\ bslot[b] = s
          /\ sent' = sent \ {b}
          /\ bque' = [bque EXCEPT ![b] = "NONE"]
          /\ tasklet' = [pc |-> "clb", block |-> b, slot |-> s]
     \/ /\ \A b \in sent : bslot[b] # s
        /\ tasklet' = [pc |-> "pump", block |-> None, slot |-> s]
        /\ UNCHANGED <<sent, bque>>
  /\ UNCHANGED <<free, queued, timedOut, bmsg, bslot, bclb, expired, data,
                 active, ust, bsndVars, confirmed, timer, kpc, lateVars>>

OnCfmCallback ==
  /\ tasklet.pc = "clb"
  /\ tasklet.block \notin lateCfm
  /\ CallUsrClb(tasklet.block, "CONFIRMED")
  /\ tasklet' = [tasklet EXCEPT !.pc = "pump", !.block = None]
  /\ UNCHANGED <<sent, timedOut, slotAt, active, mutex, refCnt, zeroEvt, res,
                 timer, kpc, lateVars>>

OnCfmFreed ==
  /\ tasklet.pc = "clb"
  /\ tasklet.block \in lateCfm
  /\ CallFreedClb

OnCfmPump ==
  /\ tasklet.pc = "pump"
  /\ Pump(tasklet.slot, queued)
  /\ bque' = IF queued = <<>> THEN bque
             ELSE [bque EXCEPT ![Head(queued)] = "SENT"]
  /\ tasklet' = [pc |-> "idle", block |-> None, slot |-> None]
  /\ UNCHANGED <<free, timedOut, bmsg, bclb, expired, data, active, ust,
                 bsndVars, confirmed, timer, kpc, lateVars>>

(***************************************************************************)
(* The timer: _mtlk_txmm_on_timer, SENT first, then QUEUED.  Each scan      *)
(* moves the blocks that are due to TIMED_OUT in one section under the      *)
(* lock, then takes them out one by one and calls their callbacks.          *)
(***************************************************************************)
Due(b) == bclb[b] = "timed" /\ b \in expired
InQueued(b) == \E i \in 1 .. Len(queued) : queued[i] = b

Expire(b) ==
  /\ bclb[b] = "timed"
  /\ b \notin expired
  /\ expired' = expired \cup {b}
  /\ UNCHANGED <<queVars, blkVars, data, slotAt, active, ust, bsndVars,
                 confirmed, tasklet, timer, kpc, lateVars>>

\* while (i != que->to): a queue that holds every block has from = to, so the
\* scan sees nothing of it.
ScanSees(n) == n < Cardinality(Blocks)

TimerScansSent ==
  LET due == IF ScanSees(Cardinality(sent)) THEN {b \in sent : Due(b)} ELSE {}
  IN /\ timer.pc = "idle"
     /\ kpc = "up"
     /\ sent' = sent \ due
     /\ timedOut' = timedOut \cup due
     /\ bque' = [b \in Blocks |-> IF b \in due THEN "TIMED_OUT" ELSE bque[b]]
     /\ timer' = [pc |-> "popSent", block |-> None]
     /\ UNCHANGED <<free, queued, bmsg, bslot, bclb, expired, data, slotAt,
                    active, ust, bsndVars, confirmed, tasklet, kpc, lateVars>>

TimerScansQueued ==
  LET due == IF ScanSees(Len(queued))
             THEN {b \in Blocks : Due(b) /\ InQueued(b)} ELSE {}
  IN /\ timer.pc = "scanQueued"
     /\ queued' = Kept(queued, due)
     /\ timedOut' = timedOut \cup due
     /\ bque' = [b \in Blocks |-> IF b \in due THEN "TIMED_OUT" ELSE bque[b]]
     /\ timer' = [pc |-> "popQueued", block |-> None]
     /\ UNCHANGED <<free, sent, bmsg, bslot, bclb, expired, data, slotAt,
                    active, ust, bsndVars, confirmed, tasklet, kpc, lateVars>>

TimerPops(b) ==
  /\ timer.pc \in {"popSent", "popQueued"}
  /\ b \in timedOut \ lateTmr
  /\ timer' = [pc |-> IF timer.pc = "popSent" THEN "clbSent" ELSE "clbQueued",
               block |-> b]
  /\ timedOut' = timedOut \ {b}
  /\ bque' = [bque EXCEPT ![b] = "NONE"]
  /\ UNCHANGED <<free, sent, queued, bmsg, bslot, bclb, expired, data, slotAt,
                 active, ust, bsndVars, confirmed, tasklet, kpc, lateVars>>

\* Mutated form: the QUEUED queue is not looked at.
TimerEndsEarly ==
  /\ timer.pc \in {"popSent", "popQueued"}
  /\ timedOut = {}
  /\ timer' = [pc |-> "idle", block |-> None]
  /\ UNCHANGED <<queVars, blkVars, expired, data, slotAt, active, ust,
                 bsndVars, confirmed, tasklet, kpc, lateVars>>

TimerEndsQueue ==
  /\ timer.pc \in {"popSent", "popQueued"}
  /\ timedOut = {}
  /\ timer' = [pc |-> IF timer.pc = "popSent" THEN "scanQueued" ELSE "idle",
               block |-> None]
  /\ UNCHANGED <<queVars, blkVars, expired, data, slotAt, active, ust,
                 bsndVars, confirmed, tasklet, kpc, lateVars>>

TimerCallback ==
  /\ timer.pc \in {"clbSent", "clbQueued"}
  /\ timer.block \notin lateTmr
  /\ CallUsrClb(timer.block, "TIMEOUT")
  /\ timer' = [pc |-> IF timer.pc = "clbSent" THEN "popSent" ELSE "popQueued",
               block |-> None]
  /\ UNCHANGED <<sent, timedOut, slotAt, active, mutex, refCnt, zeroEvt, res,
                 tasklet, kpc, lateVars>>

\* The timer calls back a block freed since it was popped, or pops one that was
\* freed while it waited in TIMED_OUT (block->idx is an index of another queue
\* then, so the block may even stay where it is) and calls it back.
TimerFreed ==
  /\ \/ timer.pc \in {"clbSent", "clbQueued"} /\ timer.block \in lateTmr
     \/ timer.pc \in {"popSent", "popQueued"} /\ timedOut \cap lateTmr # {}
  /\ CallFreedClb

(***************************************************************************)
(* mtlk_txmm_halt, called when the firmware has crashed, and the part of    *)
(* mtlk_txmm_cleanup that waits for the blocked senders.                    *)
(***************************************************************************)
Halt ==
  /\ kpc = "up"
  /\ active
  /\ active' = FALSE
  /\ UNCHANGED <<queVars, blkVars, expired, data, slotAt, ust, bsndVars,
                 confirmed, tasklet, timer, kpc, lateVars>>

\* mtlk_txmm_stop comes first and waits for the timer callback to end.
CleanupBegin ==
  /\ kpc = "up"
  /\ timer.pc = "idle"
  /\ kpc' = IF active THEN "signal" ELSE "cleaned"
  /\ active' = FALSE
  /\ UNCHANGED <<queVars, blkVars, expired, data, slotAt, ust, bsndVars,
                 confirmed, tasklet, timer, lateVars>>

CleanupSignal ==
  /\ kpc = "signal"
  /\ evt' = TRUE
  /\ kpc' = "release"
  /\ UNCHANGED <<queVars, blkVars, expired, data, slotAt, active, ust, mutex,
                 refCnt, zeroEvt, res, confirmed, tasklet, timer, lateVars>>

CleanupRelease ==
  /\ kpc = "release"
  /\ RmRelease
  /\ kpc' = "drain"
  /\ UNCHANGED <<queVars, blkVars, expired, data, slotAt, active, ust, evt,
                 mutex, res, confirmed, tasklet, timer, lateVars>>

CleanupDrained ==
  /\ kpc = "drain"
  /\ zeroEvt
  /\ kpc' = "cleaned"
  /\ UNCHANGED <<queVars, blkVars, expired, data, slotAt, active, ust,
                 bsndVars, confirmed, tasklet, timer, lateVars>>

-----------------------------------------------------------------------------
Running == ~corrupt
Tasklet == OnCfmCallback \/ OnCfmFreed \/ OnCfmPump
Timer == \/ TimerScansSent \/ TimerScansQueued \/ TimerEndsQueue
         \/ TimerCallback \/ TimerFreed \/ \E b \in Blocks : TimerPops(b)
Cleanup == CleanupSignal \/ CleanupRelease \/ CleanupDrained
BlockedProceeds(m) == \/ BlockedLock(m) \/ BlockedSend(m) \/ BlockedWait(m)
                      \/ BlockedUnlock(m) \/ BlockedReturn(m)

Next ==
  /\ Running
  /\ \/ Tasklet \/ Timer \/ Cleanup \/ Halt \/ CleanupBegin
     \/ \E s \in Slots : HandToFw(s) \/ OnCfm(s)
     \/ \E b \in Blocks : Expire(b)
     \/ \E m \in Msgs : \/ GetEmptyData(m) \/ MsgSend(m) \/ MsgCancel(m)
                        \/ BlockedEnter(m) \/ BlockedProceeds(m)

Spec == Init /\ [][Next]_vars

(***************************************************************************)
(* The kernel runs every thread that can run, hands a mutex to those who    *)
(* wait for it in turn, and time passes.  The firmware owes nothing, unless *)
(* it is healthy: then it takes and confirms what it is given.              *)
(***************************************************************************)
Fairness ==
  /\ WF_vars(Running /\ Tasklet)
  /\ WF_vars(Running /\ Timer)
  /\ WF_vars(Running /\ Cleanup)
  /\ \A s \in Slots : WF_vars(Running /\ HandToFw(s))
  /\ \A b \in Blocks : WF_vars(Running /\ Expire(b))
  /\ \A m \in BlockedMsgs : /\ WF_vars(Running /\ BlockedProceeds(m))
                           /\ SF_vars(Running /\ BlockedLock(m))
HealthyFw == \A s \in Slots : SF_vars(Running /\ OnCfm(s))

FairSpec == Spec /\ Fairness

-----------------------------------------------------------------------------
(***************************************************************************)
(* Properties.                                                              *)
(***************************************************************************)
\* A block is in the one queue that block->que names, once, and nowhere else:
\* what _mtlk_txmm_free relies on when it decides from block->que whether the
\* block has to be unlinked first.  Only the TIMED_OUT queue may also hold
\* blocks that were cancelled there.
BlockPlaced ==
  /\ \A b \in Blocks : /\ b \in free <=> bque[b] = "FREE"
                       /\ b \in sent <=> bque[b] = "SENT"
                       /\ b \in timedOut \ lateTmr <=> bque[b] = "TIMED_OUT"
                       /\ InQueued(b) <=> bque[b] = "QUEUED"
  /\ \A i, j \in 1 .. Len(queued) : queued[i] = queued[j] => i = j

\* A message object and the block attached to it name each other, so that a
\* callback reaches the message that was sent and a cancelled message leaves
\* no block behind; blocks are not leaked.
Linked ==
  /\ BlockPlaced
  /\ \A m \in Msgs : data[m] # None => bmsg[data[m]] = m
  /\ \A b \in Blocks : bque[b] # "FREE" => bmsg[b] # None /\ data[bmsg[b]] = b

\* Two blocks never wait for the confirmation of the same slot, and the slot a
\* sent block waits for is on its way, although a slot outlives the message it
\* carried when that message times out or is cancelled.
SlotOwnership ==
  /\ \A b, c \in sent : bslot[b] = bslot[c] => b = c
  /\ \A b \in sent : /\ bslot[b] \in Slots
                     /\ slotAt[bslot[b]] \in {"hand", "fw"}

\* QUEUED keeps the order of sending: of two queued blocks the earlier one
\* leaves first or stays ahead, whatever is cancelled or times out in between.
FifoKept ==
  [][\A b, c \in Blocks :
       Ahead(queued, b, c) => \/ Ahead(queued', b, c)
                              \/ bque'[b] # "QUEUED"
                              \/ bque'[c] # "QUEUED" /\ bque'[c] # "SENT"]_vars

\* mtlk_txmm_cleanup does not go on to free the storage while a blocked sender
\* is inside, unless TXMM was halted before.
CleanupWaits ==
  kpc = "cleaned" /\ zeroEvt =>
    \A m \in BlockedMsgs : ust[m] \notin {"mutex", "locked", "wait", "fin"}

\* A message sent with a timeout is answered, whether the firmware is healthy
\* or not, as long as the timer runs; but not while every block is in one
\* queue, which the timer's walk takes for an empty one (txmm.c:462).
QueueFull == ~ScanSees(Len(queued)) \/ ~ScanSees(Cardinality(sent))
TimedAnswered ==
  \A m \in Timed :
    ust[m] = "sent" ~> (ust[m] # "sent" \/ kpc # "up" \/ QueueFull \/ corrupt)

\* Nobody waits for ever: a blocked send returns, whatever becomes of its
\* message and of the senders before it, and the clean-up, which waits for the
\* senders inside, ends.
WaitsEnd ==
  /\ \A m \in BlockedMsgs : ust[m] = "mutex" ~> (ust[m] = "returned" \/ corrupt)
  /\ kpc = "signal" ~> (kpc = "cleaned" \/ corrupt)

\* With a firmware that confirms what it is given nothing stays queued for ever,
\* with or without a timeout: every confirmation pumps the queue.
QueuedLeaves == HealthyFw => \A b \in Blocks : []<>(bque[b] # "QUEUED" \/ corrupt)

(***************************************************************************)
(* What the documentation says and the code does not keep.                  *)
(***************************************************************************)
\* mtlk_txmm_msg_send_blocked returns OK only "if succeeded (a CFM received
\* within the timeout_ms)".
BlockedOkConfirmed ==
  \A m \in BlockedMsgs :
    ust[m] = "returned" /\ res[m] = "OK" => m \in confirmed

\* mtlk_txmm_msg_cancel "is safe": no callback is called through a block that a
\* cancel has freed.
CancelSafe == ~corrupt
=============================================================================
