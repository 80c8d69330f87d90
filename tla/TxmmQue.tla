------------------------------ MODULE TxmmQue ------------------------------
(***************************************************************************)
(* A queue of TXMM (shared/txmm.c): a ring of max_msgs pointers with the    *)
(* indices from and to and a count; every block knows its place in the ring *)
(* so that it can be unlinked from the middle, either by shifting the       *)
(* blocks ahead of it (order kept) or by moving the first block into its    *)
(* place.  There are as many blocks as places, so the ring may be full, and *)
(* then from = to as when it is empty.                                      *)
(*                                                                         *)
(* All is done under obj->lock; the scan of the timer is one critical       *)
(* section, modelled iteration by iteration, in which nothing else happens. *)
(***************************************************************************)
EXTENDS Integers, Sequences, FiniteSets

CONSTANTS
  Blocks,  \* cfg.max_msgs blocks
  None     \* NULL

ASSUME QueAssumption ==
  /\ IsFiniteSet(Blocks) /\ Blocks # {}
  /\ None \notin Blocks

N == Cardinality(Blocks)
Places == 0 .. N - 1

VARIABLES
  ordered,               \* preserve_order of this queue's deletions, never
                         \* changed: TRUE for QUEUED, FALSE for the others
  ptr, from, to, total,  \* mtlk_txmm_que_t
  idx,                   \* block->idx
  inQue,                 \* the blocks whose block->que is this queue
  due,                   \* the blocks whose timeout has passed
  si,                    \* the index i of the timer's scan, or None
  sawAll                 \* history: the ring was not full when the scan began

queVars == <<ptr, from, to, total, idx, inQue>>
vars == <<ordered, queVars, due, si, sawAll>>

\* The type invariant of the module.
TypeOK ==
  /\ ordered \in BOOLEAN
  /\ ptr \in [Places -> Blocks \cup {None}]
  /\ from \in Places
  /\ to \in Places
  /\ total \in 0 .. N
  /\ idx \in [Blocks -> Places]
  /\ inQue \in SUBSET Blocks
  /\ due \in SUBSET Blocks
  /\ si \in Places \cup {None}
  /\ sawAll \in BOOLEAN

Init ==
  /\ ordered \in BOOLEAN
  /\ ptr = [i \in Places |-> None]
  /\ from = 0
  /\ to = 0
  /\ total = 0
  /\ idx = [b \in Blocks |-> 0]
  /\ inQue = {}
  /\ due = {}
  /\ si = None
  /\ sawAll = TRUE

\* INC_WRAP_IDX, and the step back of _mtlk_txmm_del_buf_from_que.
IncWrap(i) == IF i + 1 = N THEN 0 ELSE i + 1
DecWrap(i) == IF i - 1 < 0 THEN N - 1 ELSE i - 1

\* _mtlk_txmm_put_buf: a block that is in no queue enters this one.
PutBuf(b) ==
  /\ si = None
  /\ b \notin inQue
  /\ idx' = [idx EXCEPT ![b] = to]
  /\ ptr' = [ptr EXCEPT ![to] = b]
  /\ to' = IncWrap(to)
  /\ total' = total + 1
  /\ inQue' = inQue \cup {b}
  /\ due' = due \ {b}
  /\ UNCHANGED <<from, si, sawAll>>

\* _mtlk_txmm_get_buf; the caller gives the block its new block->que.
GetBuf ==
  /\ si = None
  /\ total # 0
  /\ from' = IncWrap(from)
  /\ total' = total - 1
  /\ inQue' = inQue \ {ptr[from]}
  /\ UNCHANGED <<ptr, to, idx, due, si, sawAll>>

\* Mutated form: only from is advanced.
MovedNone(i) == {}

\* The places _mtlk_txmm_del_buf_from_que writes to when the block in place i is
\* deleted: those from i down to the one after from, or i only; and where the
\* block that comes to place j is taken from.
Moved(i) ==
  IF i = from THEN {}
  ELSE IF ordered THEN {j \in Places : (i - j) % N < (i - from) % N}
  ELSE {i}
Source(j) == IF ordered THEN DecWrap(j) ELSE from

\* _mtlk_txmm_del_buf_from_que, for a block of this queue.
DelBuf(b) ==
  LET i == idx[b]
      comesTo(c, j) == j \in Moved(i) /\ ptr[Source(j)] = c
  IN /\ ptr[i] = b
     /\ ptr' = [j \in Places |->
                  IF j \in Moved(i) THEN ptr[Source(j)] ELSE ptr[j]]
     /\ idx' = [c \in Blocks |->
                  IF \E j \in Places : comesTo(c, j)
                  THEN CHOOSE j \in Places : comesTo(c, j) ELSE idx[c]]
     /\ from' = IncWrap(from)
     /\ total' = total - 1
     /\ inQue' = inQue \ {b}
     /\ UNCHANGED to

\* A block is confirmed or cancelled while it is in the queue.
Unlink(b) ==
  /\ si = None
  /\ b \in inQue
  /\ DelBuf(b)
  /\ UNCHANGED <<due, si, sawAll>>

\* Time passes.
Expire(b) ==
  /\ si = None
  /\ b \in inQue \ due
  /\ due' = due \cup {b}
  /\ UNCHANGED <<queVars, si, sawAll>>

\* _mtlk_txmm_on_timer_que: while (i != que->to).
ScanBegin ==
  /\ si = None
  /\ si' = from
  /\ sawAll' = (total < N)
  /\ UNCHANGED <<queVars, due>>

ScanBlock ==
  /\ si # None
  /\ si # to
  /\ IF ptr[si] \in due THEN DelBuf(ptr[si]) ELSE UNCHANGED queVars
  /\ si' = IncWrap(si)
  /\ UNCHANGED <<due, sawAll>>

ScanEnd ==
  /\ si # None
  /\ si = to
  /\ si' = None
  /\ UNCHANGED <<queVars, due, sawAll>>

Next == /\ \/ GetBuf \/ ScanBegin \/ ScanBlock \/ ScanEnd
           \/ \E b \in Blocks : PutBuf(b) \/ Unlink(b) \/ Expire(b)
        /\ UNCHANGED ordered

Spec == Init /\ [][Next]_vars

-----------------------------------------------------------------------------
Content == [k \in 1 .. total |-> ptr[(from + k - 1) % N]]
Abs == INSTANCE TxmmQueSpec WITH list <- Content

\* The ring implements the queue: put, get, deletions from the middle and the
\* deletions of a running scan, wherever the ring wraps.
ImplementsQueue == Abs!Spec

\* The indices, the count and the places the blocks remember agree, so that
\* the test que->ptr[buf->idx] == buf never refuses a block of this queue and
\* the scan for a slot of _mtlk_txmm_on_cfm sees each block once.
RingConsistent ==
  /\ to = (from + total) % N
  /\ inQue = {ptr[(from + k) % N] : k \in 0 .. total - 1}
  /\ \A b \in inQue : ptr[idx[b]] = b

\* Although deletions move blocks while the timer walks over the ring, no block
\* that is due is skipped: behind the scan there is none.  (A full ring is not
\* walked over at all.)
ScanMissesNothing ==
  si # None /\ sawAll =>
    \A k \in 0 .. total - 1 :
      (k < (si - from) % N \/ si = to) => ptr[(from + k) % N] \notin due

\* Every deletion from the middle of a ring (_mtlk_txmm_del_buf_from_que) keeps
\* the ring in order and under the timer's walk, wherever it wraps.
RingSafe == TypeOK /\ RingConsistent /\ ScanMissesNothing
=============================================================================
