-------------------------------- MODULE Rod --------------------------------
(* The reordering queue of one TID of a station (rod.c) with the replay      *)
(* detection its packets pass on their way to the network stack (core.c).    *)
(* Sequence numbers wrap at Limit, the slot of a packet is its number modulo  *)
(* the window size, and head counts on over the wrap inside a loop.           *)
(*                                                                            *)
(* Every operation holds the queue's lock for its whole length, so each is    *)
(* one action; the setting of a key takes two, with the wait for the firmware *)
(* between them.  The window is what the peer asked for: addba.c corrects     *)
(* only a window of 0, so it may be longer than the array of slots, or not    *)
(* divide Limit.  The peer is external: its packets carry unwrapped numbers     *)
(* here (what goes over the air is the number modulo Limit), it repeats and   *)
(* reorders only the last Age of them, and it does not run ahead of the       *)
(* start of the window by more than half of the numbers.                      *)
EXTENDS Integers, Sequences, FiniteSets

CONSTANTS
  Limit,       \* SEQUENCE_NUMBER_LIMIT
  Windows,     \* the window sizes the peer asks for
  BufSize,     \* MAX_REORD_WINDOW
  Age,         \* how far back a packet or a BAR of the peer may be
  FirstSeq,    \* the number the peer begins with
  MaxSent,     \* bound: the last number the peer uses
  NULL         \* an empty slot

\* A packet has its number and its replay counter.
Packets == [seq : 0 .. MaxSent, pn : 1 .. MaxSent + 1]

\* The windows the queue is made for: no longer than nbuf[], and no two numbers
\* of a window share a slot where the numbers wrap.
Fits(w) == w <= BufSize /\ Limit % w = 0

ASSUME LimitAssumption == Limit \in Nat \ {0} /\ Limit % 2 = 0
ASSUME WindowsAssumption == Windows \subseteq Nat \ {0}
ASSUME FitAssumption == \E w \in Windows : Fits(w)
ASSUME BufSizeAssumption == BufSize \in 1 .. Limit \div 2
ASSUME AgeAssumption == Age \in 1 .. Limit \div 2 - 1
ASSUME MaxSentAssumption == MaxSent \in Nat /\ FirstSeq \in 0 .. MaxSent
ASSUME NullAssumption == NULL \notin Packets

VARIABLES
  used, window_size, head, count,
  nbuf,        \* what is in every slot
  rsc,         \* the replay counter of the TID
  cipher,      \* the station has a cipher with replay counters
  sent,        \* the number the peer uses next
  keying,      \* a key is on its way to the firmware
  keySeq,      \* number of the first packet under the present key
  out,         \* packets that left in the last operation, in order
  replayed,    \* those of them that were discarded as replays
  top,         \* ghost: number after the highest that reached the stack
  met,         \* ghost: a packet has moved the counter since it was zeroed for the
               \* key on its way
  mixed,       \* ghost: when the present key came into force, packets of the old one
               \* waited or had moved the new counter
  unfit,       \* ghost: there has been an agreement with an unfit window
  overrun      \* ghost: an index has left nbuf[]

queVars == <<used, window_size, head, count, nbuf>>
envVars == <<cipher, keying, sent, keySeq, mixed>>
badVars == <<unfit, overrun>>
vars == <<queVars, envVars, badVars, rsc, out, replayed, top, met>>

Slots == 0 .. BufSize - 1

\* The replay counter restarts with the key.
Packet(p) == [seq |-> p, pn |-> p - keySeq + 1]

TypeOK ==
  /\ used \in BOOLEAN /\ window_size \in Windows
  /\ cipher \in BOOLEAN /\ keying \in BOOLEAN
  /\ sent \in 0 .. MaxSent /\ keySeq \in 0 .. MaxSent
  /\ met \in BOOLEAN /\ mixed \in BOOLEAN /\ unfit \in BOOLEAN /\ overrun \in BOOLEAN
  /\ ~unfit =>
       /\ head \in 0 .. Limit - 1 /\ count \in 0 .. window_size
       /\ nbuf \in [Slots -> Packets \cup {NULL}]
       /\ rsc \in 0 .. MaxSent + 1 /\ top \in 0 .. MaxSent + 1
       /\ out \in Seq(0 .. MaxSent) /\ replayed \subseteq 0 .. MaxSent

\* The window of a queue that is not in use is not read.
Init ==
  /\ used = FALSE /\ window_size \in {w \in Windows : Fits(w)}
  /\ head = 0 /\ count = 0
  /\ nbuf = [s \in Slots |-> NULL]
  /\ rsc = 0 /\ cipher = FALSE /\ keying = FALSE
  /\ sent = FirstSeq /\ keySeq = FirstSeq
  /\ out = <<>> /\ replayed = {} /\ top = 0 /\ met = FALSE /\ mixed = FALSE
  /\ unfit = FALSE /\ overrun = FALSE

-----------------------------------------------------------------------------
(* The queue as a record, so that the loops are functions of it.            *)

Queue == [head |-> head, win |-> window_size, count |-> count, nbuf |-> nbuf,
          rsc |-> rsc, out |-> <<>>, replayed |-> {}, top |-> top]

\* detect_replay: replay counters have to grow.
IsReplay(q, r) == cipher /\ r.pn <= q.rsc

\* mtlk_detect_replay_or_sendup.
DetectReplayOrSendup(q, r) ==
  [q EXCEPT !.out = Append(@, r.seq),
            !.replayed = IF IsReplay(q, r) THEN @ \cup {r.seq} ELSE @,
            !.rsc = IF cipher /\ ~IsReplay(q, r) THEN r.pn ELSE @,
            !.top = IF ~IsReplay(q, r) /\ r.seq >= @ THEN r.seq + 1 ELSE @]

\* Mutated form: the packet is not taken off the count.
RetireSlotUncounted(q, slot) ==
  LET s == slot % q.win
  IN IF q.nbuf[s] = NULL THEN q
     ELSE [DetectReplayOrSendup(q, q.nbuf[s]) EXCEPT !.nbuf[s] = NULL]

\* retire_slot.
RetireSlot(q, slot) ==
  LET s == slot % q.win
  IN IF q.nbuf[s] = NULL THEN q
     ELSE [DetectReplayOrSendup(q, q.nbuf[s]) EXCEPT
             !.nbuf[s] = NULL, !.count = @ - 1]

\* One turn of a loop over the window.
RetireHead(q) == [RetireSlot(q, q.head) EXCEPT !.head = @ + 1]

\* Mutated form: head is not wrapped.
MoveWindowUnwrapped(q, n) ==
  LET step[i \in 0 .. n] ==
        IF i = 0 THEN q ELSE LET prev == step[i - 1] IN RetireHead(prev)
  IN step[n]

\* rod_move_window: head counts on through the loop and wraps at its end.
MoveWindow(q, n) ==
  LET step[i \in 0 .. n] ==
        IF i = 0 THEN q ELSE LET prev == step[i - 1] IN RetireHead(prev)
  IN LET last == step[n] IN [last EXCEPT !.head = @ % Limit]

\* mtlk_flush_rod_queue: no head needs more than Limit turns to meet every slot.
FlushQueue(q) ==
  LET step[i \in 0 .. Limit] ==
        IF i = 0 THEN q
        ELSE LET prev == step[i - 1]
             IN IF prev.count = 0 THEN prev ELSE MoveWindow(prev, 1)
  IN step[Limit]

\* A queue in use is emptied.
FlushIfUsed == IF used THEN FlushQueue(Queue) ELSE Queue

\* retire_rod_queue: from the head up to the first empty slot.
RetireQueue(q) ==
  LET step[i \in 0 .. q.win] ==
        IF i = 0 THEN q
        ELSE LET prev == step[i - 1]
             IN IF prev.nbuf[prev.head % q.win] = NULL THEN prev ELSE RetireHead(prev)
  IN LET last == step[q.win] IN [last EXCEPT !.head = @ % Limit]

\* SEQ_DISTANCE.
SeqDistance(a, b) == (b - a + Limit) % Limit

\* Mutated form: the window ends one number short of the packet.
MakeRoomShort(q, diff) ==
  IF diff >= q.win THEN MoveWindow(q, diff - q.win) ELSE q

\* A packet beyond the window pulls it along.
MakeRoom(q, diff) ==
  IF diff >= q.win THEN MoveWindow(q, diff - q.win + 1) ELSE q

\* More than half of the numbers ahead is the past.
TooOld(diff) == diff > Limit \div 2

\* Puts a packet into its slot; a packet that is there already is a duplicate.
Insert(q, r) ==
  LET loc == (r.seq % Limit) % q.win
  IN IF q.nbuf[loc] # NULL THEN q
     ELSE RetireQueue([q EXCEPT !.nbuf[loc] = r, !.count = @ + 1])

\* Writes the queue back; out and replayed tell what the operation did.  Queues
\* are followed until an index leaves nbuf[].
Store(q) ==
  /\ ~overrun
  /\ head' = q.head /\ count' = q.count /\ nbuf' = q.nbuf /\ rsc' = q.rsc
  /\ out' = q.out /\ replayed' = q.replayed /\ top' = q.top
  /\ met' = (met \/ (keying /\ q.rsc # rsc))

-----------------------------------------------------------------------------
(* Operations of the driver.                                                *)

\* The slots of the window are entries of nbuf[].
InBuffer == used => window_size <= BufSize

\* mtlk_reorder_packet.
ReorderPacket(p) ==
  LET diff == SeqDistance(head, p % Limit)
  IN /\ InBuffer
     /\ Store(IF ~used THEN DetectReplayOrSendup(Queue, Packet(p))
              ELSE IF TooOld(diff) THEN Queue
              ELSE Insert(MakeRoom(Queue, diff), Packet(p)))
     /\ UNCHANGED <<used, window_size, envVars, badVars>>

\* mtlk_rod_process_bar; without an agreement the BAR is refused.
ProcessBar(s) ==
  LET diff == SeqDistance(head, s % Limit)
  IN /\ InBuffer
     /\ Store(IF ~used \/ TooOld(diff) THEN Queue
              ELSE RetireQueue(MoveWindow(Queue, diff)))
     /\ UNCHANGED <<used, window_size, envVars, badVars>>

\* A packet or a BAR where the window is longer than nbuf[]: the slot may be any
\* word behind the array, and nothing is known of the queue from here on.
Overrun(n) ==
  /\ ~InBuffer
  /\ ~TooOld(SeqDistance(head, n % Limit))
  /\ overrun' = TRUE
  /\ UNCHANGED <<queVars, envVars, unfit, rsc, out, replayed, top, met>>

\* mtlk_handle_rod_queue_timer, called by the timer of the station database;
\* the time since the last packet left may have any length.
HandleRodQueueTimer ==
  /\ used /\ count > 0
  /\ Store(FlushQueue(Queue))
  /\ UNCHANGED <<used, window_size, envVars, badVars>>

\* mtlk_create_rod_queue: a queue in use is flushed even if the statistics of
\* the new one cannot be allocated then.
CreateRodQueue(s, w) ==
  /\ Store([FlushIfUsed EXCEPT !.count = 0, !.head = s % Limit])
  /\ used' = TRUE /\ window_size' = w
  /\ unfit' = (unfit \/ ~Fits(w))
  /\ UNCHANGED <<envVars, overrun>>

CreateFails ==
  /\ Store(FlushIfUsed)
  /\ UNCHANGED <<used, window_size, envVars, badVars>>

\* mtlk_clear_rod_queue.
ClearRodQueue ==
  /\ used
  /\ Store(FlushQueue(Queue))
  /\ used' = FALSE
  /\ UNCHANGED <<window_size, envVars, badVars>>

\* Mutated form: the replay counter goes on.
SetKeyCounterKept(c) ==
  /\ ~keying
  /\ keying' = TRUE /\ cipher' = c /\ met' = FALSE
  /\ out' = <<>> /\ replayed' = {}
  /\ UNCHANGED <<queVars, badVars, rsc, sent, keySeq, top, mixed>>

\* The key of the station is to be set (core.c): its cipher is noted and the
\* counters restart, the queue is left alone.  Packets under the old key still
\* arrive while the driver waits for what it transmits and for the firmware.
SetKey(c) ==
  /\ ~keying
  /\ keying' = TRUE /\ cipher' = c /\ rsc' = 0 /\ met' = FALSE
  /\ out' = <<>> /\ replayed' = {}
  /\ UNCHANGED <<queVars, badVars, sent, keySeq, top, mixed>>

\* The firmware has the key: the next number is the first under it.
KeyInForce ==
  /\ keying
  /\ keying' = FALSE /\ keySeq' = sent
  /\ mixed' = (count > 0 \/ met) /\ met' = FALSE
  /\ out' = <<>> /\ replayed' = {}
  /\ UNCHANGED <<queVars, badVars, rsc, cipher, sent, top>>

\* The firmware refuses the key or does not answer: the old one stays in force,
\* with the cipher and the counters of the new one.
KeyRefused ==
  /\ keying
  /\ keying' = FALSE /\ met' = FALSE
  /\ out' = <<>> /\ replayed' = {}
  /\ UNCHANGED <<queVars, badVars, rsc, cipher, sent, keySeq, top, mixed>>

-----------------------------------------------------------------------------
(* The peer and the clock.                                                   *)

\* The start of the window as an unwrapped number.
WindowStart == sent - SeqDistance(head, sent % Limit)

Send ==
  /\ sent < MaxSent
  /\ used => sent - WindowStart <= Limit \div 2
  /\ sent' = sent + 1
  /\ out' = <<>> /\ replayed' = {}
  /\ UNCHANGED <<queVars, badVars, rsc, cipher, keying, keySeq, top, met, mixed>>

Numbers == {p \in sent - Age .. sent : p >= FirstSeq}

\* Packets under an old key cannot be decrypted any more.
Arriving == {p \in Numbers : p < sent /\ p >= keySeq}

Next ==
  \/ Send
  \/ \E p \in Arriving : ReorderPacket(p)
  \/ \E s \in Numbers : ProcessBar(s) \/ Overrun(s)
  \/ \E s \in Numbers, w \in Windows : CreateRodQueue(s, w)
  \/ CreateFails \/ ClearRodQueue \/ HandleRodQueueTimer
  \/ \E c \in BOOLEAN : SetKey(c)
  \/ KeyInForce \/ KeyRefused

Spec == Init /\ [][Next]_vars

-----------------------------------------------------------------------------
(* Properties.                                                               *)

Held == {nbuf[s].seq : s \in {x \in Slots : nbuf[x] # NULL}}

Abstract ==
  INSTANCE RodSpec WITH open <- used, win <- window_size, held <- Held, void <- unfit,
                        next <- IF used THEN WindowStart ELSE 0

Strict ==
  INSTANCE RodSpec WITH open <- used, win <- window_size, held <- Held, void <- FALSE,
                        next <- IF used THEN WindowStart ELSE 0

\* The queue on wrapped numbers, slots and a running head does what an ideal
\* queue on unbounded numbers does: packets leave in the order they were sent,
\* each at most once, none that was accepted is lost, and the window moves as
\* the numbers demand, over every wrap, until a peer asks for an unfit window.
ImplementsReordering == Abstract!Spec

\* The same with no exception for the window: rod.c:163 promises that packets are
\* retired in order, and addba.c accepts every window but 0.
ImplementsReorderingAlways == Strict!Spec

\* While every window has fitted: no index has left nbuf[]; count (which ends the
\* flush loop) is the number of packets in the slots of the window; and each is
\* in the slot of its number, inside the window.
SlotsConsistent ==
  ~unfit =>
    /\ ~overrun
    /\ count = Cardinality({s \in Slots : nbuf[s] # NULL})
    /\ ~used => count = 0
    /\ \A s \in Slots : nbuf[s] # NULL =>
         /\ s = (nbuf[s].seq % Limit) % window_size
         /\ nbuf[s].seq \in WindowStart + 1 .. WindowStart + window_size - 1

\* While every window has fitted, a packet that follows everything the stack has
\* seen is taken for a replay only if packets of two keys met one counter: those
\* of the old key waited in the queue when the new one came into force, or had
\* passed after the counters were zeroed for it (core.c zeroes them before it
\* waits for the firmware).
ReplayOnlyIfMixed ==
  [][\A p \in replayed' : p < top \/ mixed \/ unfit]_vars
=============================================================================
