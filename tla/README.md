# Verification of the WAVE300 wireless driver

TLA+ models of the parts of the Lantiq/Metalink WAVE300 driver in which several
threads, the firmware and the peer meet, checked with TLC on small instances.
The safety of the serializer, of TXMM and its rings, of the block
acknowledgement agreements, of the reordering queues, of the scanner and of the
transmit path is proved with TLAPS for all instances. Paths below are relative to
`src/driver/wireless/`; `shared/` and `linux/` are in
`src/driver/wireless/driver/`.

## 1. Inventory

### How the driver runs

Four kinds of threads meet in the driver.

- *User context*: ioctl, proc and network stack calls. They turn requests into
  commands of the core.
- *The serializer's kernel thread*, one per card. It runs the commands one
  after the other, so that the core itself is sequential.
- *The tasklet* of the hardware layer. It handles frames, confirmations of
  messages and MAC events, one at a time.
- *Timers*, in soft interrupt context.

The firmware runs beside them and takes messages through a ring of slots; it
confirms in its own time, out of order, or, when it has crashed, not at all.

### Components

| Component | State | Operations | Interacts with | What makes it correct |
|---|---|---|---|---|
| Task serializer (`shared/mtlk_serializer.c`, `linux/mtlk_serializer_osdep.c`) | a list per priority, the current command, running flag, event and stop flag of the worker | start, stop, enqueue, cancel, execute blocked, enumerate, worker loop | core (commands), remove lock | a command is queued once and completed once; stop drains; no wake-up is lost |
| Remove lock (`shared/mtlkrmlock.h`) | counter, event | acquire, release, wait | serializer, TXMM | the wait ends exactly when the last reference is gone |
| TXMM (`shared/txmm.c`) | pool of blocks in four queues, message objects, blocked-send event and mutex | attach, send, send blocked, cancel, confirm, timer, halt, clean-up | hardware layer, every component that talks to the firmware | blocks, messages and slots stay paired; queued messages leave in order; every sender gets an answer |
| TXMM rings (same file) | array, two indices, count | put, get, delete from the middle, scan | TXMM | the ring is a queue, also at the wrap-around and when full |
| ADDBA (`shared/addba.c`) | per TID: tx and rx state, token, rejects, two messages; two shared limits | request, response, DELBA, confirmations, time-outs, stop | station database, TXMM, frames, reordering queues | no reference of a limit is lost or dropped twice; state, message and queue agree |
| Station database (`shared/stadb.c`) | entries by address with reference counts, timers, counters | add, remove, find, iterate, revive aggregation | ADDBA, send queue, reordering, core | an entry lives while referenced; stop leaves nothing behind |
| Reordering (`shared/rod.c`) | window of buffers, head, count; the replay counters behind it | reorder, BAR, flush timer, create, clear | station database, core | packets go up in order and once, also where the numbers wrap; no good packet is taken for a replay |
| Send queue (`shared/mtlk_sq.c`, `linux/mtlk_sq_osdep.c`) | queue per peer and category, counts of queued and of unconfirmed packets, limits | enqueue, clone, flush, cancel, confirm | core, hardware layer, flow control | the counts are right; no packet is left behind; a key is set only when no packet of the station is under way |
| Flow control (`shared/mtlkflctrl.c`) | mask of stop requests, free identifiers | register, stop, start, unregister | core, scan, DFS | data flows exactly when nobody stops it |
| Hardware layer (`shared/hw_mmb.c`) | rings of indices, pools, MAC state | send, bottom half, boot, reset, events | everything | indices are neither lost nor doubled |
| Core (`linux/core.c`) | network state per VAP, slow context | requests, connect, disconnect, activate, scan, key handling | everything | only allowed state changes |
| VAP and abilities managers | VAPs, sets of abilities | create, activate, remove; register, enable | core | order of master and slaves; nothing runs unregistered |
| Scan (`shared/scan.c`, `rflib/shared/mtlk_scan.c`) | running and terminate flags, mode, bands, channel vector, progmodels, events, timer | start, synchronous start, confirm, pause, terminate, clean-up | core, TXMM, serializer, flow control, frames | a scan ends, once, and afterwards data flows on the home band |
| Cache, AOCS, DFS, coexistence | results, channel tables | find, select channel, switch | core, scan | the selected channel is allowed |

`PROJECT.json` lists these and all the other components (parameter database,
MIB, QoS tables, multicast, L2NAT, user interface, bus drivers, RF tables, root
module, tools, hostapd) with the reason why each is or is not modelled. What is
left out for good is conversion of bytes, storage under one lock, register
access, statistics, and third-party code.

### What is hard

The hazards are in `PROJECT.json`, each at its line. They fall into these
groups: events that are reset after the flag they announce was tested; state
decided on under one lock and used after it was released (callbacks, cancelled
messages, `is_active`); answers that come after a time-out and meet the next
request; rings that cannot tell full from empty; references of a shared limit
that must be dropped once on each of many paths; stopping while confirmations
are still on their way; counters and flags read without the lock and acted on
later; numbers that wrap; threads that wait for what only they could do.

## 2. Modules

| Module | Models |
|---|---|
| `Serializer` | serializer, worker thread, remove lock, asynchronous commands of the core |
| `Txmm` | TXMM with its users, the tasklet, the timer, halt and clean-up |
| `TxmmQueSpec`, `TxmmQue` | the queue promised by TXMM's rings, and the rings |
| `Addba` | block acknowledgement agreements with one station |
| `RodSpec`, `Rod` | the reordering promised for a TID, and the reordering queue with the replay counters |
| `Sq` | the transmit path: send queue, flow control, pool of descriptors, transmission and confirmation in the core, setting of a key, disconnection |
| `Scan` | the scanner of a station with the net states of the core, the worker that runs it and the thread that unloads the driver |
| `Lists` | walks over the driver's lists, used by `Txmm` and `Sq` |
| `SerializerProofs`, `TxmmProofs`, `TxmmQueProofs`, `AddbaProofs`, `RodProofs`, `SqProofs`, `ScanProofs` | theorems about the module of that name |
| `ListFacts` | what appending, pushing, removing and filtering do to the members, the order and the counts of a list |
| `MC_*` | the instances for TLC |

The modules are layered as the code is. `Txmm` abstracts the FREE, SENT and
TIMED_OUT queues to sets and QUEUED to a sequence, and `TxmmQue` shows that the
rings behave so. `Addba` sees TXMM through what `Txmm` establishes: a message
object carries one message at a time, each is confirmed at most once, and, if
its cancellation does not meet the callback (`CancelSafe`), none is confirmed
after its cancellation has returned. `Scan` sees the serializer
through what `Serializer` establishes (one task at a time, in the order of
priorities, one that is being stopped refuses new tasks and works off those it
has) and TXMM as something that answers
or times out. `Rod` is the window that `Addba` knows only as in use or not, and
`Sq` has the user of the flow control that `Scan` is.

A step is a section under the component's lock, one access to a field that no
lock protects, or one callback. Variables have the names of the fields they
stand for, with the field in a comment beside them; history variables are
marked. A definition "Mutated form" is a version of the next definition with a
plausible mistake; it is part of no specification and serves to show that the
properties notice the mistake.

### Serializer

State: the lists, `is_in_queue` and `priority` of each command, the remove lock,
`new_event`, `stop`, and where each thread is. Commands are of the two kinds the
driver has: on the heap (freed by their completion, so that an identity returns
as a reused address does) and on the stack of a blocked execution, which alone
cancels. Each section of the code under
`szr->lock` is an action; the worker's loop is split at the wait, the test of
the flag, the reset, each list, the callback, the completion and the clearing.
Start and stop may alternate without end.

### Txmm

State: the queues, per block its queue, message, slot and callback; per message
object its block; where each slot is; the blocked-send event, mutex and remove
lock; where each user, the tasklet, the timer and the clean-up are. The firmware
is external: it confirms the slots it holds in any order or not at all. A user
cancels at any time, also when the tasklet or the timer has decided to call the
callback and has not called it. `lateCfm` and `lateTmr` record the blocks that
were freed so. A callback through one of them meets a zeroed block or one that
another message has taken since; what the code does then depends on that memory,
so it is the last step of a behaviour (`corrupt`). That it can happen is what the
run `Txmm_cancel` shows; all other properties cover every state up to it. The
assertion at the entry of a blocked send and the taking of its reference
(`txmm.c:773-782`) are one step.

### TxmmQue

The ring with `from`, `to`, `total` and each block's `idx`, the two ways of
deleting from the middle (`ordered` stands for `preserve_order` and is fixed in
the initial state), and the timer's walk, step by step. The refinement mapping
reads `total` pointers from `from` on.

### Addba

State of one peer for each TID, the two limits, `aggr_inited`, the reordering
queues in use, the revival tasks in the serializer, and the frame the tasklet
has accepted. The test of `is_active`, the section under the lock and the start
or stop of the reordering queue after the unlock are three steps. The callbacks
that restart the packet count of an aggregation or schedule its revival belong to
the step they follow. The stop of a peer is four steps per TID, between which
confirmations are handled. The limits are compared as the code does, as unsigned
numbers (`CanRef`). Frames of the peer may come before the firmware has confirmed
what they react to; what that does to the code is recorded by history variables
that the properties name: `early` counts requests rejected before they were
confirmed (`addba.c:276`), `overtaken` has the TIDs whose reordering was given up
before our response was confirmed (`addba.c:321`), and `raced` says that a frame
was handled, or its callback made, on a peer that had been stopped
(`addba.c:972`). The peer is external: it answers a request at most once,
at any later time. Tokens are reused only when their last answer is no longer
on its way; in the code 254 requests lie between two uses. The serializer may hold
revival tasks of an earlier association from the beginning. A cancellation and a
callback that is due do not meet here; `Txmm` shows what happens when they do.

### Rod

Every operation holds the queue's lock, so each is one action; the loops over
the window are recursive functions of the queue's fields. The peer's packets
carry unwrapped numbers in the model and numbers modulo `Limit` on the air; the
peer repeats and reorders the last `Age` of them and loses any. `RodSpec` is
written on the unwrapped numbers alone: a start that moves forward, a set of
held numbers, and releases in increasing order. The refinement mapping recovers
the unwrapped start of the window from `head` and what was sent. Behind the
queue packets meet the replay counter. The setting of a key is two steps: the
counter is zeroed (`core.c:11419`), then, after two waits and a blocked send, the
key is in force or was refused; packets of the old key arrive in between. `mixed`
records that such packets met the counter or were still held when the new key
came into force. The replay detection leaves out packets with a bad MIC, what
unencrypted packets carry as a counter, and the fragments that move it by more
than one (`core.c:1512-1594`).

The array has `BufSize` slots (`MAX_REORD_WINDOW`, 64), and the window is what the
peer asked for: `addba.c:52-67` corrects only a window of 0. A window that is
longer than the array, or does not divide the sequence numbers, does not fit
(`Fits`); the ghost `unfit` records that there was one. A packet or a BAR where
the window is longer than the array takes an index out of `nbuf[]` (`Overrun`),
after which nothing is known of the queue.

### Sq

State: per category the list of stations, per station and category the packets,
the counts `size`, `used`, `limit`, the filter, the descriptors free or with the
firmware, the mask of the flow control, and where the tasklet, the handler of
confirmations, the senders and the two requests are. The tasklet is split
wherever another thread can come between without `queue_lock`: the descriptor
is taken, the number of free ones is read, the flow is stopped, the packet is
handed over, it is counted. A packet that was confirmed before it is counted is
freed memory; what its flags read as then is a choice. The scheduling of the
tasklet is a flag, as in the kernel. The kernel never runs a tasklet on two
CPUs and nothing else calls `mtlk_sq_flush`, so the flag `flush_in_progress` of
the code is never found set. Access points send clones of multicasts and
disconnect all stations; stations wait for the last handshake message; which of
the two the interface is (`is_ap`) is chosen in the initial state. The counts
are atomics whose value the code reads as an unsigned number, so that one that is
below zero for a moment is beyond every limit. A station interface sends the
packets of the broadcast queue to its access point and looks at that station's
filter for them (`Receivers`), though they are counted for the broadcast queue. Descriptors with the firmware are
counted by what they hold; `Busy` numbers those of one kind. Simplified are: the
wait of a disconnection, which looks at all stations at once where the code goes
from one to the next and gives up on a halted MAC (`stadb.c:1253-1262`,
`core.c:867`); clones, of one multicast at a time; what freed memory reads as,
which is an ordinary packet in place of a clone and not the other way round; and
the handler of confirmations, which reads the number of free descriptors
(`hw_mmb.c:1119`) and the state of the flow (`core.c:9102`) in one step.

### Scan

State: the fields of `struct mtlk_scan`, the net state, whether the MAC is in
power save, which band's progmodel and whose parameters it has, whether data is
stopped, and where the worker and the unloading thread are. After a chunk of a
background scan the progmodel of the home band is loaded and then the BSS is
looked up in the cache, which `do_scan` has cleared; if it is not there the MAC
keeps the parameters of the scan (`config` is "unknown", `scan.c:148-151`). A
serializer that is being stopped refuses new tasks and works off its queue. The channel vector is the number of
requests it still needs, and a band needs any number up to `MaxChunks` or cannot
be prepared. `do_scan` is split at each access to a field the unloading thread
reads. Requests of the user run on the worker when it is idle; a synchronous
scan keeps the worker until the end. The MAC refuses any request, leaves any
unanswered, and may crash, after which it answers nothing. Beacons with a
country code or on a passively scanned channel extend the scan. Simplified are:
the interface is dual-band with both bands configured, so that a scan on request
takes both (`core.c:10700`, `scan.c:463-473`); the station connects with 20/40
coexistence off and in one step from READY to CONNECTED (`core.c:3183-3219`); a
disconnection by the user finds the station connected (`core.c:7721-7730`); a
beacon adds one request per band for hidden BSSs, not one per channel; the
unloading thread looks at the net state and `is_running` at once
(`core.c:10301-10306`); the allocation of a task does not fail.

## 3. Runs

| Run | Instance | Shows |
|---|---|---|
| `Serializer` | 2 heap commands and a blocked one, 2 priorities, fair threads; 110 thousand states | lists, references, completions, results and priorities are consistent under every interleaving, over any number of starts and stops; no wake-up is lost, blocked execution returns, stop returns unless the worker erases its announcement |
| `Txmm` | 3 blocks, 1 slot, 3 messages, one timed, one resent, cancelled at any time; fair threads; 650 thousand states | pairing of blocks, messages and slots; order; timed messages are answered whatever the firmware does; with a firmware that confirms, queued blocks leave |
| `Txmm_blocked` | 2 blocked senders, 2 blocks, 1 slot, fair threads | blocked senders, clean-up and halt: every wait ends, and the clean-up waits for the senders |
| `Txmm_late_cfm` | two blocked senders | **violated**: a send returns OK without its confirmation |
| `Txmm_cancel` | 2 messages, 1 slot | **violated**: a callback goes through a block that a cancel has freed |
| `TxmmQue` | 4 blocks, both kinds of deletion | the ring implements the queue, consistent while the timer scans |
| `Addba` | 2 TIDs, one aggregation and one reordering allowed, 2 tokens, 2 rejects, one early rejection, one association with tasks of an earlier one; 12.4 million states | references, messages, states and queues agree; nothing survives a stop; aggregations open on the right answer only |
| `Rod` | numbers modulo 8, windows 2, 4 and 8 over 4 slots, packets over the wrap; 279 thousand states | the queue implements `RodSpec` until a window does not fit; slots and count agree; replays are real |
| `Rod_window` | the same with windows 2 and 3 | **violated**: at the wrap packets leave out of order or are dropped |
| `Sq` | one station and the broadcast queue, 2 categories, 2 descriptors, access point or station; 1.6 million states | the counts are right, a key waits for the station's packets, nothing is left behind |
| `Scan` | two bands of a chunk each and one more for a hidden BSS, fair worker; 1 million states | a scan ends once, restores the service and lets the unloading thread go on |
| `Scan_sync` | the same | **violated**: the worker waits for itself |

The violated runs are the findings of `PROJECT.json`, each against a comment of
the code.

Several properties name the one case in which the code does not keep them:
`StopReturns` the erased announcement (`StopForgotten`), `TimedAnswered` the full
ring (`QueueFull`), `CleanupWaits` a halted TXMM, `References` a request rejected
before it was confirmed (`early`) and a frame on a stopped peer (`raced`),
`Agreement` a response overtaken by the peer (`overtaken`), `SlotsConsistent` and
`ImplementsReordering` a window that does not fit (`unfit`), `ReplayOnlyIfMixed`
packets of two keys that met one counter (`mixed`), `KeyAfterConfirmed` what the
wait does not cover (keep-alive packets, and packets of the broadcast queue that
a station interface handed over earlier), `SizeMatches` a freed clone (`stale`),
`Served` a flush in the midst of a confirmation (`early`), `FlowHeld` a request
the MAC did not answer, `ServiceRestored` requests the MAC refused or did not
answer and, for the parameters alone, a BSS missing in the cache that `do_scan`
cleared, `CompletedOnce` the unloading of a driver whose
firmware has crashed, `ScanCompletes` and `PrepareStopEnds` the worker that waits
for itself (`SelfWait`). That they hold otherwise shows there is no second case;
the hazards of `PROJECT.json` describe each.

### Bounds

- `Serializer`: commands and priorities are the only bounds; nothing else grows.
  Two heap commands and a blocked one, each of either priority, give every pair
  of races; the safety theorems hold for any number.
- `Txmm`: more messages than slots, so that blocks queue and pumping matters. The
  order of QUEUED needs three blocks. In `Txmm_blocked` and `Txmm_late_cfm` two
  senders share the event and the mutex.
- `TxmmQue`: four places, so that a deletion can have blocks on both sides of it
  and of the wrap-around.
- `Addba`: one aggregation for two TIDs makes the limit bite. `MaxTasks` and
  `MaxStarts` cap the revival tasks and the associations; that a task of an earlier
  association meets the new one is an initial state, so one association is enough.
  `MaxEarly` caps the answers that overtake a confirmation: with one the counter
  goes below zero. `MaxRejects` is 2 instead of 5.
- `Rod`: `Limit` is 8 for 4096 and `BufSize` 4 for 64. Windows 2 and 4 divide the
  one and fit the other, 8 divides but does not fit (as 128 does), 3 does not
  divide. Packets run over the wrap (`FirstSeq` 5 to `MaxSent` 11) with a queue
  that is opened before it.
- `Sq`: one packet per station and category and two per category and in the
  firmware make every limit bite; `MaxPackets` and `MaxRequests` are two each, so
  that a request meets another packet and another request.
- `Scan`: `MaxChunks` is 1; with the additional request for a hidden BSS a band
  has up to two chunks, and a rescan repeats them. Nothing bounds the number of
  scans, connections and disconnections.

Deadlock is checked for the serializer and for the rings. It is not checked for
the others: TXMM is cleaned up once, a station connects and a peer sends a
bounded number of times, and the driver is unloaded, after which nothing happens.

### Fairness

- Serializer: the worker, the control thread inside start or stop, and a user
  inside a blocked call make progress when they can (the kernel schedules
  runnable threads; a wait with a time-out ends). Nobody is obliged to call.
- TXMM: tasklet, timer, clean-up and a thread that is about to hand a slot over
  make progress, and time passes. The mutex is strongly fair (the kernel's
  waiters are queued). The firmware owes nothing; only `QueuedLeaves` assumes, as
  its hypothesis `HealthyFw`, that it confirms what it holds.
- Scan: the worker and the unloading thread are scheduled, a request is answered
  or TXMM reports its time-out (`TimedAnswered` of `Txmm`), and the pause timer
  expires. The user, the beacons and a crash are not obliged to come.
- `Addba`, `Rod` and `Sq` are checked for safety only. That no packet is left
  behind is an invariant of `Sq` about the states in which nothing is under way.

## 4. Proofs

Every theorem holds for all values of the constants that the named assumptions
of its module allow: any number of commands, blocks, slots, messages, TIDs,
stations, senders, descriptors, categories and requests per band, and any limits.

`SerializerProofs` (`CommandsAssumption`, `PrioritiesAssumption`):

- `TypeCorrect`. Needed by all others. One step per action; unlinking from the
  middle rests on `RemoveAtProperties`.
- `QueuedOnceCorrect`. `QueuedOnce` is inductive together with `TypeOK`. The
  lists change in three ways only (`QueueSteps`): append of a command that is on
  no list, removal, pop; for each a lemma says that the result has the right
  elements, each once.
- `RefCountsCorrect` and `DrainedCorrect`, from
  `LockInv == RefCounts /\ Drained /\ Accepting`. Neither part is inductive:
  that the wait of stop is over says something of the count, that the count is
  right needs that nothing is accepted once stop has begun.
- `StoppedIsQuietCorrect`, from the above and
  `WorkerInv`, which ties the worker's place to `current_command` and to start
  and stop.
- `CompletedOnceCorrect`, from `CompletedInv == CompletedOnce /\ UserInv`: the
  number of callbacks owed is the number of places from which one will be made
  (queued, executing, about to be called by a cancellation). `UserInv` excludes
  cancellations of heap commands, whose owner has no handle.
- `BlockedOutcomeCorrect`, from `BlockedInv`: what a blocked caller is told
  depends on where its command is at each of its steps, also after its time-out.
- `PriorityRespectedCorrect`, from `ScanInv`: while the worker looks for work, the
  commands that were queued when it began are still queued, none of them above
  the list at which it looks.

`TxmmProofs` (`TxmmAssumption`). `IInv` is the conjunction of the types and of

- `PlacedInv` (a block is in the queue it says, once), `DataInv` (messages and
  blocks name each other), `UserInv` (a user with data has a block nobody else
  knows), `HeldInv` (a block taken out by a thread is in no queue, and no two
  threads have the same), `LateInv` (where the blocks of late cancels are),
  `ClbInv`, `SlotInv`, `RefInv` (the count of the remove
  lock is the number of senders inside, plus one).

The actions are first reduced to what they do to one block (sent instead,
sent later, answered, parted, timed out), and each part is then shown to survive
those. Results: `TypeCorrect`, `LinkedCorrect`, `SlotOwnershipCorrect`,
`CleanupWaitsCorrect`, the action property `FifoKeptCorrect`, and
`CallbackSafeCorrect`: a callback that is due finds its block, its message and its
function, unless the message was cancelled since the callback was decided on. Users
cancel at any time in these theorems; the parts of `IInv` about blocks in the hands
of a thread except those in `lateCfm` and `lateTmr`.

`TxmmQueProofs` (`QueAssumption`), for a ring of any size and both ways of
deleting. `RingInv` says that the `total` places from `from` on hold different
blocks which know their places; `WalkInv` says where the timer's walk is relative to them although
deletions move the blocks under it. `RingSafeCorrect` follows. `QueueImplemented`
is the refinement: `Content`, the sequence read off the ring, changes as
`TxmmQueSpec` allows with each step. The case analysis is on places, with
`At(f, k) == (f + k) % N` and a few lemmas about it instead of modular arithmetic.

`AddbaProofs` (`AddbaAssumption`): `TypeCorrect`, with the bounds of both limits,
`ReferencesCorrect`, `AgreementCorrect` and the action property
`OpenedOnAnswerCorrect`, without assumptions on the order of frames and
confirmations. `IInv` adds to `References` which messages may be in the firmware in
which state (`TxInv`, `RxInv`), what a stop has cleared for the TIDs it is through
with (`Done`, `RxStopInv`), that a request still to be answered is one being
negotiated or given up (`TokenInv`), and what the callback that is still to be made
says of the queue. The count of aggregations is inductive only with the orphans
counted apart: an early rejection makes one, and its time-out drops the reference
a second time.

`ScanProofs` (`MaxChunksAssumption`): `TypeCorrect`, `FlowHeldCorrect`,
`ServiceRestoredCorrect`, `CompletedOnceCorrect`. The three properties are
inductive together with `ScanInv` (a scan is at one place: the worker, the MAC,
the pause timer, or on its way from there to the worker, and `is_running`,
`is_synchronous` and the loaded progmodels agree with it), `UnloadInv` (what the
unloading thread has marked and stopped, the serializer that works off its queue
included) and `ModeInv`. `ScanInv` is waived once
the MAC is dead and the driver unloads: then the unloading thread completes the
scan from outside.

`SqProofs` (`StationsAssumption`, `UsersAssumption`, `NullAssumption`,
`BoundsAssumption`):

- `TypeCorrect` and `InFlightCorrect`. The counts are right only together with
  `ThreadInv`, which says what each thread has in its hands at each step, and
  in particular that the one descriptor marked as not counted yet is the
  tasklet's. Adding or removing a descriptor changes `Cardinality(Mine(hw, p))`
  by one for its station and by nothing for others (`MineAdd`, `MineRemove`).
- `KeyAfterConfirmedCorrect`, from `KeyInv`: from the cancellation on, which
  holds the lock, the filter is closed, so the tasklet takes no packet of the
  station, on a station interface none from the broadcast queue either, and the
  wait for `used` to become zero then means that nothing of the station's own
  queue is in the firmware.
- `ServedCorrect`, from `ServedInv`: as long as a packet of a known station
  waits in a category the tasklet is done with, something `Pending` will
  schedule it again. It assumes `TwoDescriptors`: a confirmation that found no
  descriptor free has given none back yet, and only a second descriptor's
  confirmation wakes the flow (`LastInv`). The firmware reports the number of
  descriptors when it is loaded (`shared/hw_mmb.c:2356`); it is many.

- `SizeMatchesCorrect`, from `Fits`, which says the same with one total of clones
  and one of other packets per category. A step changes a total by what it does
  to one queue, one sender and the tasklet's hands (`WaitPut`, `TotalFlush`,
  `TotalSender`); `Released` is the arithmetic of `_mtlk_sq_release_packet` for
  any list of packets. That finitely many packets wait is proved along the
  stations (`WaitFinite`).

`RodProofs` (`LimitAssumption`, `WindowsAssumption`, `FitAssumption`,
`BufSizeAssumption`, `AgeAssumption`, `MaxSentAssumption`, `NullAssumption`), for any set of
windows, one of which fits;
the statements themselves end with the first window that does not fit (`unfit`),
and the run `Rod_window` shows that they fail behind it. `Keyed` says that while a
key is on its way the counter is zero unless a packet has moved it (`met`).
`Rel(H, b, q)` relates a queue in the middle of an operation to the unwrapped numbers: its window starts at `b`, the numbers of `H` from `b` on wait
in their slots, those below `b` have left in increasing order, and the replay
counter is not ahead of the window. One turn of a loop takes `b` to `b + 1`
(`RetireHeadRel`): the packet in the slot of the head can only be number `b`,
because two numbers less than a window apart with the same slot are equal
(`CongNear`), and because slots do not change at the wrap (`CongDivides`). From
this `MoveWindowRel`, `RetireQueueRel` (the loop ends at the first missing number)
and `FlushQueueRel` (it ends right behind the last packet, within `Limit` turns).
The recursive functions of the loops are shown to exist and their turns to
preserve `Rel` by a least counterexample. Between the operations `Inv` adds that
the start of the window is missing, that all held numbers were sent, and that the
peer is at most half of the numbers and one ahead, so that `SEQ_DISTANCE` tells
the past from the future (`DistanceAhead`, `DistanceBehind`). Each operation is
then `Right`: it keeps `Inv`, discards no good packet and is a step of `RodSpec`.
Results: `TypeCorrect`, `SlotsConsistentCorrect`, the action property
`ReplayOnlyIfMixedCorrect` and the refinement `ReorderingImplemented`.

Induction over a list is replaced by a least counterexample: a count is the
cardinality of a set of positions, and if a walk went wrong there would be a
least position at which it does (`LeastNat` of `ListFacts`).

Only model-checked is liveness, since fairness is beyond the prover: the temporal
properties of `Serializer`, `Txmm`, `Txmm_blocked` and `Scan`. Every
invariant, every action property and both refinements that a passing run checks
are theorems.

## 5. Plan

Modules that could follow: `Stadb` (references of entries, timers and removal,
with the peer's own view of an agreement), the index rings and the bottom half of
`hw_mmb.c`, the VAP and abilities managers, radar detection with the channel
switch of an access point.

## 6. Not modelled

Memory allocation failures except where a step's outcome shows them (a revival
task, a lack of blocks, a reordering queue, a channel vector); failure to create
the worker thread; the contents of messages; statistics and logs; the order of
initialisation. Assertions are taken as in a release build: they do not stop the
program, and where one can fail the hazards say so.

Some weak points were seen on the way and are not covered by a property:
`kthread_run` reports failure by an error pointer that
`linux/mtlk_serializer_osdep.c:66` compares with NULL; `aggr_inited`
(`stadb.c:734`) is not cleared when a request is not sent for lack of resources;
a DELBA that meets an unconfirmed open request is forgotten (`addba.c:437`);
`mtlk_stadb_disconnect_all` waits for confirmations without a bound
(`stadb.c:1258`); an A-MSDU passes the replay counter before the packets that wait
in the reordering queue (`core.c:7351`); a disconnection that is not confirmed
leaves the net state DISCONNECTING (`core.c:977`).

The map covers a small part of the repository's lines. Most of them are no
driver logic that could be checked: hostapd and wpa_supplicant (third party),
tables of the radio and the regulatory domains, conversions between requests,
messages and text, user-space tools, and kernel glue. What is modelled is the
code in which threads, firmware and peer meet.
