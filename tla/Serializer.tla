----------------------------- MODULE Serializer -----------------------------
(***************************************************************************)
(* The task serializer of the driver core: a queue of commands per         *)
(* priority, drained by one kernel thread.                                  *)
(*   shared/mtlk_serializer.c         queues, locking, blocked execution    *)
(*   linux/mtlk_serializer_osdep.c    the worker thread and its event       *)
(*   shared/mtlkrmlock.h              the "remove lock" (counter and event) *)
(*   linux/osal_osdep_defs.h          events                                *)
(*   linux/core.c                     asynchronous commands on the heap     *)
(*                                                                         *)
(* A step is the longest stretch of code that no other thread can observe  *)
(* half-way: a section under szr->lock, one test or assignment of a field  *)
(* that is not protected by that lock, or one call of a user callback.     *)
(* The threads are the worker, one control thread that starts and stops    *)
(* the serializer, and the users of the commands, of the two kinds the     *)
(* driver has (mtlk_serializer.h, "usage scenarios"):                       *)
(*   Heap     allocated by _mtlk_core_execute_async_ex and freed by the     *)
(*            completion callback; an identity stands for an address, so a  *)
(*            freed identity may be allocated again;                        *)
(*   Blocked  on the stack of mtlk_serializer_execute_blocked, the only     *)
(*            caller of mtlk_serializer_cancel.                             *)
(* An infinite wait never times out.                                        *)
(***************************************************************************)
EXTENDS Integers, Sequences, FiniteSets

CONSTANTS Heap, Blocked,  \* the commands of each kind
          NumPriorities,  \* szr->num_priorities
          NoCmd           \* NULL

Commands == Heap \cup Blocked
Priorities == 0 .. NumPriorities - 1

ASSUME CommandsAssumption ==
  /\ IsFiniteSet(Commands)
  /\ NoCmd \notin Commands
  /\ Heap \cap Blocked = {}
ASSUME PrioritiesAssumption == NumPriorities \in Nat \ {0}

VARIABLES
  commands,    \* szr->commands: one list per priority
  isInQueue,   \* command->is_in_queue
  prio,        \* command->priority
  isRunning,   \* szr->is_running
  current,     \* szr->current_command
  refCnt,      \* szr->tasks_pending_lock.ref_cnt
  zeroEvt,     \* szr->tasks_pending_lock.evt
  newEvent,    \* osdep->new_event
  stop,        \* osdep->stop
  wpc,         \* where the worker thread is
  wi,          \* the worker's loop index over the priorities
  atScan,      \* history: the commands queued ever since the worker's scan began
  cpc,         \* where the control thread is in start / stop
  cli,         \* where the user of each command is
  done,        \* completion_event and szr_result of a blocked execution
  ran,         \* history: cmd_callback was called since the last enqueue
  ret,         \* the last value returned to the user
  owed         \* history: completion callbacks still owed to the user

szrVars  == <<commands, isInQueue, prio, isRunning, current>>
lockVars == <<refCnt, zeroEvt>>
osVars   == <<newEvent, stop>>
workVars == <<wpc, wi, atScan>>
userVars == <<cli, done, ran, ret, owed>>
vars == <<szrVars, lockVars, osVars, workVars, cpc, userVars>>

WorkerPcs  == {"none", "wait", "check", "reset", "scan", "invoke", "complete",
               "clear", "exited"}
ControlPcs == {"down", "starting", "up", "release", "drain", "osstop",
               "notify", "join"}
UserPcs    == {"idle", "live", "wait", "timedout", "cancelclb", "waitinf"}
Results    == {"none", "OK", "NOT_READY", "BUSY", "TIMEOUT", "CANCELED"}

(***************************************************************************)
(* One type invariant for the module.  The two counters are integers here:   *)
(* that they never fall below zero is what RefCounts and CompletedOnce say.  *)
(***************************************************************************)
TypeOK ==
  /\ commands \in [Priorities -> Seq(Commands)]
  /\ isInQueue \in [Commands -> BOOLEAN]
  /\ prio \in [Commands -> Priorities]
  /\ isRunning \in BOOLEAN
  /\ current \in Commands \cup {NoCmd}
  /\ refCnt \in Int
  /\ zeroEvt \in BOOLEAN
  /\ newEvent \in BOOLEAN
  /\ stop \in BOOLEAN
  /\ wpc \in WorkerPcs
  /\ wi \in Priorities
  /\ atScan \in SUBSET Commands
  /\ cpc \in ControlPcs
  /\ cli \in [Commands -> UserPcs]
  /\ done \in [Commands -> {"no", "EXECUTED", "CANCELED"}]
  /\ ran \in [Commands -> BOOLEAN]
  /\ ret \in [Commands -> Results]
  /\ owed \in [Commands -> Int]

Init ==
  /\ commands = [p \in Priorities |-> <<>>]
  /\ isInQueue = [c \in Commands |-> FALSE]
  /\ prio = [c \in Commands |-> 0]
  /\ isRunning = FALSE
  /\ current = NoCmd
  /\ refCnt = 0
  /\ zeroEvt = FALSE
  /\ newEvent = FALSE
  /\ stop = FALSE
  /\ wpc = "none"
  /\ wi = 0
  /\ atScan = {}
  /\ cpc = "down"
  /\ cli = [c \in Commands |-> "idle"]
  /\ done = [c \in Commands |-> "no"]
  /\ ran = [c \in Commands |-> FALSE]
  /\ ret = [c \in Commands |-> "none"]
  /\ owed = [c \in Commands |-> 0]

Pending == {c \in Commands : isInQueue[c]}

(***************************************************************************)
(* The remove lock.  Releasing the last reference raises its event.         *)
(***************************************************************************)
\* Mutated form: a restarted serializer keeps the raised event of the last stop.
RmInitKeepsEvent == UNCHANGED <<refCnt, zeroEvt>>

RmInit == refCnt' = 0 /\ zeroEvt' = FALSE

RmAcquire == refCnt' = refCnt + 1 /\ UNCHANGED zeroEvt

\* Mutated form: the last release does not raise the event.
RmReleaseSilent == refCnt' = refCnt - 1 /\ UNCHANGED zeroEvt

RmRelease ==
  /\ refCnt' = refCnt - 1
  /\ zeroEvt' = (zeroEvt \/ refCnt = 1)

\* Mutated form: stop does not wait for the queued commands.
RmWaitSkipped == TRUE

RmWait == zeroEvt

(***************************************************************************)
(* mtlk_serializer_enqueue, one section under szr->lock: what it answers,   *)
(* and its effect when it accepts the command.                              *)
(***************************************************************************)
EnqueueAnswer(c) ==
  IF ~isRunning THEN "NOT_READY" ELSE IF isInQueue[c] THEN "BUSY" ELSE "OK"

Enqueue(c, p) ==
  /\ EnqueueAnswer(c) = "OK"
  /\ commands' = [commands EXCEPT ![p] = Append(@, c)]
  /\ isInQueue' = [isInQueue EXCEPT ![c] = TRUE]
  /\ prio' = [prio EXCEPT ![c] = p]
  /\ RmAcquire
  /\ newEvent' = TRUE
  /\ ran' = [ran EXCEPT ![c] = FALSE]
  /\ owed' = [owed EXCEPT ![c] = @ + 1]
  /\ UNCHANGED <<isRunning, current, stop, workVars, cpc>>

(***************************************************************************)
(* mtlk_serializer_cancel, its section under szr->lock, when the command is *)
(* still queued.  The completion callback is called after the unlock.       *)
(***************************************************************************)
RemoveAt(s, i) == SubSeq(s, 1, i - 1) \o SubSeq(s, i + 1, Len(s))

\* Mutated forms: the command stays in the list; its reference is kept.
CancelKeepsEntry(c) ==
  /\ isInQueue[c]
  /\ isInQueue' = [isInQueue EXCEPT ![c] = FALSE]
  /\ RmRelease
  /\ atScan' = atScan \ {c}
  /\ UNCHANGED <<commands, prio, isRunning, current, osVars, wpc, wi, cpc>>
CancelKeepsReference(c) ==
  /\ isInQueue[c]
  /\ \E i \in 1 .. Len(commands[prio[c]]) :
        /\ commands[prio[c]][i] = c
        /\ commands' = [commands EXCEPT ![prio[c]] = RemoveAt(@, i)]
  /\ isInQueue' = [isInQueue EXCEPT ![c] = FALSE]
  /\ atScan' = atScan \ {c}
  /\ UNCHANGED <<prio, isRunning, current, lockVars, osVars, wpc, wi, cpc>>

Cancel(c) ==
  /\ isInQueue[c]
  /\ \E i \in 1 .. Len(commands[prio[c]]) :
        /\ commands[prio[c]][i] = c
        /\ commands' = [commands EXCEPT ![prio[c]] = RemoveAt(@, i)]
  /\ isInQueue' = [isInQueue EXCEPT ![c] = FALSE]
  /\ RmRelease
  /\ atScan' = atScan \ {c}
  /\ UNCHANGED <<prio, isRunning, current, osVars, wpc, wi, cpc>>

(***************************************************************************)
(* Heap commands: _mtlk_core_execute_async_ex allocates, initialises and    *)
(* enqueues; on a refusal it frees the command at once.                     *)
(***************************************************************************)
ExecuteAsync(c, p) ==
  /\ c \in Heap
  /\ cli[c] = "idle"
  /\ Enqueue(c, p)
  /\ cli' = [cli EXCEPT ![c] = "live"]
  /\ ret' = [ret EXCEPT ![c] = "OK"]
  /\ UNCHANGED done

ExecuteAsyncRefused(c) ==
  /\ c \in Heap
  /\ cli[c] = "idle"
  /\ EnqueueAnswer(c) # "OK"
  /\ ret' = [ret EXCEPT ![c] = EnqueueAnswer(c)]
  /\ UNCHANGED <<szrVars, lockVars, osVars, workVars, cpc, cli, done, ran, owed>>

(***************************************************************************)
(* mtlk_serializer_execute_blocked: enqueue, wait for at most ttl, cancel   *)
(* on a timeout, and wait without limit when it is too late to cancel.      *)
(***************************************************************************)
Return(c, result) ==
  /\ cli' = [cli EXCEPT ![c] = "idle"]
  /\ ret' = [ret EXCEPT ![c] = result]

ResultOf(c) == IF done[c] = "EXECUTED" THEN "OK" ELSE "CANCELED"

ExecuteBlocked(c, p) ==
  /\ c \in Blocked
  /\ cli[c] = "idle"
  /\ Enqueue(c, p)
  /\ cli' = [cli EXCEPT ![c] = "wait"]
  /\ done' = [done EXCEPT ![c] = "no"]
  /\ ret' = [ret EXCEPT ![c] = "none"]

ExecuteBlockedRefused(c) ==
  /\ c \in Blocked
  /\ cli[c] = "idle"
  /\ EnqueueAnswer(c) # "OK"
  /\ Return(c, EnqueueAnswer(c))
  /\ UNCHANGED <<szrVars, lockVars, osVars, workVars, cpc, done, ran, owed>>

BlockedWakes(c) ==
  /\ c \in Blocked
  /\ cli[c] \in {"wait", "waitinf"}
  /\ done[c] # "no"
  /\ Return(c, ResultOf(c))
  /\ UNCHANGED <<szrVars, lockVars, osVars, workVars, cpc, done, ran, owed>>

\* Mutated form: a timed out execution does not try to cancel.
BlockedTimesOutForever(c) ==
  /\ c \in Blocked
  /\ cli[c] = "wait"
  /\ done[c] = "no"
  /\ cli' = [cli EXCEPT ![c] = "waitinf"]
  /\ UNCHANGED <<szrVars, lockVars, osVars, workVars, cpc, done, ran, ret, owed>>

BlockedTimesOut(c) ==
  /\ c \in Blocked
  /\ cli[c] = "wait"
  /\ done[c] = "no"
  /\ cli' = [cli EXCEPT ![c] = "timedout"]
  /\ UNCHANGED <<szrVars, lockVars, osVars, workVars, cpc, done, ran, ret, owed>>

BlockedCancels(c) ==
  /\ c \in Blocked
  /\ cli[c] = "timedout"
  /\ Cancel(c)
  /\ cli' = [cli EXCEPT ![c] = "cancelclb"]
  /\ UNCHANGED <<done, ran, ret, owed>>

\* Mutated form: too late to cancel, but no second wait.
BlockedReturnsAnyway(c) ==
  /\ c \in Blocked
  /\ cli[c] = "timedout"
  /\ ~isInQueue[c]
  /\ Return(c, "TIMEOUT")
  /\ UNCHANGED <<szrVars, lockVars, osVars, workVars, cpc, done, ran, owed>>

BlockedCannotCancel(c) ==
  /\ c \in Blocked
  /\ cli[c] = "timedout"
  /\ ~isInQueue[c]
  /\ cli' = [cli EXCEPT ![c] = "waitinf"]
  /\ UNCHANGED <<szrVars, lockVars, osVars, workVars, cpc, done, ran, ret, owed>>

BlockedCancelClb(c) ==
  /\ c \in Blocked
  /\ cli[c] = "cancelclb"
  /\ done' = [done EXCEPT ![c] = "CANCELED"]
  /\ owed' = [owed EXCEPT ![c] = @ - 1]
  /\ Return(c, "TIMEOUT")
  /\ UNCHANGED <<szrVars, lockVars, osVars, workVars, cpc, ran>>

(***************************************************************************)
(* The worker thread: thread() and, from "scan" to "clear",                 *)
(* _mtlk_serializer_process_commands.                                       *)
(***************************************************************************)
WorkerWakes ==
  /\ wpc = "wait"
  /\ newEvent
  /\ wpc' = "check"
  /\ UNCHANGED <<szrVars, lockVars, osVars, wi, atScan, cpc, userVars>>

WorkerChecksStop ==
  /\ wpc = "check"
  /\ wpc' = IF stop THEN "exited" ELSE "reset"
  /\ UNCHANGED <<szrVars, lockVars, osVars, wi, atScan, cpc, userVars>>

\* Mutated form: the scan begins with the lowest priority.
BeginScanLowest == wpc' = "scan" /\ wi' = 0 /\ atScan' = Pending

BeginScan ==
  /\ wpc' = "scan"
  /\ wi' = NumPriorities - 1
  /\ atScan' = Pending

WorkerResets ==
  /\ wpc = "reset"
  /\ newEvent' = FALSE
  /\ BeginScan
  /\ UNCHANGED <<szrVars, lockVars, stop, cpc, userVars>>

WorkerPops ==
  /\ wpc = "scan"
  /\ commands[wi] # <<>>
  /\ current' = Head(commands[wi])
  /\ commands' = [commands EXCEPT ![wi] = Tail(@)]
  /\ isInQueue' = [isInQueue EXCEPT ![Head(commands[wi])] = FALSE]
  /\ RmRelease
  /\ wpc' = "invoke"
  /\ atScan' = atScan \ {Head(commands[wi])}
  /\ UNCHANGED <<prio, isRunning, osVars, wi, cpc, userVars>>

\* Mutated forms: the loop runs past priority 0; the event is reset after the
\* scans as well.
WorkerFindsEmptyPastZero ==
  /\ wpc = "scan"
  /\ commands[wi] = <<>>
  /\ wi' = wi - 1
  /\ UNCHANGED <<wpc, szrVars, lockVars, osVars, atScan, cpc, userVars>>
WorkerFindsEmptyResets ==
  /\ wpc = "scan"
  /\ commands[wi] = <<>>
  /\ IF wi > 0 THEN wi' = wi - 1 /\ UNCHANGED <<wpc, newEvent>>
               ELSE wpc' = "wait" /\ newEvent' = FALSE /\ UNCHANGED wi
  /\ UNCHANGED <<szrVars, lockVars, stop, atScan, cpc, userVars>>

WorkerFindsEmpty ==
  /\ wpc = "scan"
  /\ commands[wi] = <<>>
  /\ IF wi > 0 THEN wi' = wi - 1 /\ UNCHANGED wpc
               ELSE wpc' = "wait" /\ UNCHANGED wi
  /\ UNCHANGED <<szrVars, lockVars, osVars, atScan, cpc, userVars>>

WorkerInvokes ==
  /\ wpc = "invoke"
  /\ ran' = [ran EXCEPT ![current] = TRUE]
  /\ wpc' = "complete"
  /\ UNCHANGED <<szrVars, lockVars, osVars, wi, atScan, cpc, cli, done, ret, owed>>

\* The completion callback: a heap command is freed, the thread of a blocked
\* one is released.
WorkerCompletes ==
  /\ wpc = "complete"
  /\ cli' = IF current \in Heap THEN [cli EXCEPT ![current] = "idle"] ELSE cli
  /\ done' = IF current \in Blocked
             THEN [done EXCEPT ![current] = "EXECUTED"] ELSE done
  /\ owed' = [owed EXCEPT ![current] = @ - 1]
  /\ wpc' = "clear"
  /\ UNCHANGED <<szrVars, lockVars, osVars, wi, atScan, cpc, ran, ret>>

WorkerClears ==
  /\ wpc = "clear"
  /\ current' = NoCmd
  /\ BeginScan
  /\ UNCHANGED <<commands, isInQueue, prio, isRunning, lockVars, osVars, cpc,
                 userVars>>

(***************************************************************************)
(* The control thread: mtlk_serializer_start and mtlk_serializer_stop.      *)
(***************************************************************************)
StartThread ==
  /\ cpc = "down"
  /\ RmInit
  /\ stop' = FALSE
  /\ newEvent' = FALSE
  /\ wpc' = "wait"
  /\ cpc' = "starting"
  /\ UNCHANGED <<szrVars, wi, atScan, userVars>>

StartProcessing ==
  /\ cpc = "starting"
  /\ RmAcquire
  /\ isRunning' = TRUE
  /\ cpc' = "up"
  /\ UNCHANGED <<commands, isInQueue, prio, current, osVars, workVars, userVars>>

StopProcessing ==
  /\ cpc = "up"
  /\ isRunning' = FALSE
  /\ cpc' = "release"
  /\ UNCHANGED <<commands, isInQueue, prio, current, lockVars, osVars, workVars,
                 userVars>>

StopReleases ==
  /\ cpc = "release"
  /\ RmRelease
  /\ cpc' = "drain"
  /\ UNCHANGED <<szrVars, osVars, workVars, userVars>>

StopDrained ==
  /\ cpc = "drain"
  /\ RmWait
  /\ cpc' = "osstop"
  /\ UNCHANGED <<szrVars, lockVars, osVars, workVars, userVars>>

StopFlags ==
  /\ cpc = "osstop"
  /\ stop' = TRUE
  /\ cpc' = "notify"
  /\ UNCHANGED <<szrVars, lockVars, newEvent, workVars, userVars>>

StopNotifies ==
  /\ cpc = "notify"
  /\ newEvent' = TRUE
  /\ cpc' = "join"
  /\ UNCHANGED <<szrVars, lockVars, stop, workVars, userVars>>

\* kthread_stop returns when the thread function has returned.
StopJoins ==
  /\ cpc = "join"
  /\ wpc = "exited"
  /\ wpc' = "none"
  /\ cpc' = "down"
  /\ UNCHANGED <<szrVars, lockVars, osVars, wi, atScan, userVars>>

-----------------------------------------------------------------------------
Worker == \/ WorkerWakes \/ WorkerChecksStop \/ WorkerResets \/ WorkerPops
          \/ WorkerFindsEmpty \/ WorkerInvokes \/ WorkerCompletes
          \/ WorkerClears

Control == \/ StartThread \/ StartProcessing \/ StopProcessing \/ StopReleases
           \/ StopDrained \/ StopFlags \/ StopNotifies \/ StopJoins

\* What a user's thread does on its own once it is inside a call.
UserReturns(c) == \/ BlockedWakes(c) \/ BlockedTimesOut(c)
                  \/ BlockedCancels(c) \/ BlockedCannotCancel(c)
                  \/ BlockedCancelClb(c)

UserCalls(c) == \/ \E p \in Priorities : \/ ExecuteAsync(c, p)
                                         \/ ExecuteBlocked(c, p)
                \/ ExecuteAsyncRefused(c) \/ ExecuteBlockedRefused(c)

Next == \/ Worker \/ Control
        \/ \E c \in Commands : UserReturns(c) \/ UserCalls(c)

\* The control thread inside mtlk_serializer_start or mtlk_serializer_stop.
ControlProceeds == \/ StartProcessing \/ StopReleases \/ StopDrained
                   \/ StopFlags \/ StopNotifies \/ StopJoins

(***************************************************************************)
(* A thread that is not waiting for an event gets to run, and no callback   *)
(* runs for ever.  Nobody is obliged to call: starting, stopping and        *)
(* enqueuing carry no fairness.                                             *)
(***************************************************************************)
Fairness == /\ WF_vars(Worker)
            /\ WF_vars(ControlProceeds)
            /\ \A c \in Commands : WF_vars(UserReturns(c))

Spec == Init /\ [][Next]_vars
FairSpec == Spec /\ Fairness

-----------------------------------------------------------------------------
(***************************************************************************)
(* Properties.                                                              *)
(***************************************************************************)
InList(c, p) == \E i \in 1 .. Len(commands[p]) : commands[p][i] = c

\* A command is on a list exactly while is_in_queue is set, then on the list of
\* command->priority only, and only once: what mtlk_serializer_cancel relies on
\* when it unlinks the command from that list, whatever enqueues, cancels and
\* pops came before.
QueuedOnce ==
  /\ \A c \in Commands, p \in Priorities :
        InList(c, p) <=> isInQueue[c] /\ prio[c] = p
  /\ \A p \in Priorities : \A i, j \in 1 .. Len(commands[p]) :
        commands[p][i] = commands[p][j] => i = j

\* The remove lock counts the queued commands and the serializer's own
\* reference, so its event is raised only when nothing can be queued any more.
OwnReference == IF cpc \in {"up", "release"} THEN 1 ELSE 0
RefCounts ==
  /\ refCnt = Cardinality(Pending) + OwnReference
  /\ zeroEvt => refCnt = 0 /\ cpc \notin {"starting", "up", "release"}

\* Past the wait of _mtlk_serializer_stop_processing no command is queued and
\* none can be: mtlk_serializer_stop has "waited for all pending commands".
Drained ==
  cpc \in {"osstop", "notify", "join", "down"} => Pending = {} /\ ~isRunning

\* When mtlk_serializer_stop has returned the worker is gone, no command is
\* being executed and the lists are empty: no postmortem execution, and the
\* lists may be destroyed (mtlk_serializer_cleanup) or the thread started again.
StoppedIsQuiet ==
  cpc = "down" => /\ wpc = "none"
                  /\ current = NoCmd
                  /\ \A p \in Priorities : commands[p] = <<>>

\* Every accepted enqueue is answered by exactly one completion callback: the
\* callbacks owed to the user of a command are those of the enqueue that is
\* still queued, of the one the worker is executing, and of the one that a
\* canceller has just unlinked.
Executing(c) == wpc \in {"invoke", "complete"} /\ current = c
Count(b) == IF b THEN 1 ELSE 0
CompletedOnce ==
  \A c \in Commands :
    owed[c] = Count(isInQueue[c]) + Count(Executing(c))
                + Count(cli[c] = "cancelclb")

\* What mtlk_serializer_execute_blocked returned tells the truth: OK after the
\* command ran, TIMEOUT only for a command that did not run and never will;
\* and once it has returned its stack frame is on no list.
BlockedOutcome ==
  \A c \in Blocked :
    cli[c] = "idle" => /\ ret[c] = "OK" => ran[c]
                       /\ ret[c] \in {"TIMEOUT", "CANCELED"} => ~ran[c]
                       /\ ~isInQueue[c] /\ ~Executing(c)

\* Commands run "with respect to command priority": a command that was queued
\* when the worker began to look for work is not overtaken by one of a lower
\* priority, although the lists are scanned one lock section at a time.
PriorityRespected ==
  wpc = "invoke" => \A c \in atScan : isInQueue[c] /\ prio[c] <= wi

HigherPending(c) == \E d \in Pending : prio[d] > prio[c]

\* No wakeup is lost between the event, its reset and the scans: a command does
\* not stay queued for ever, unless commands of higher priorities keep coming.
NoLostWakeup ==
  \A c \in Commands : []<>(~isInQueue[c]) \/ []<>HigherPending(c)

\* Blocked execution with a finite ttl returns, whatever else is queued.
BlockedReturns == \A c \in Blocked : cli[c] # "idle" ~> cli[c] = "idle"

\* mtlk_serializer_stop returns (mtlk_serializer.h:143: "Wait for all pending
\* commands completion and stop the serializer object"): its wait for the
\* commands ends and the worker is joined.  The one exception is a stop that
\* falls between the worker's test of the flag and its reset of the event,
\* which erases the announcement (mtlk_serializer_osdep.c:41).
StopForgotten == cpc = "join" /\ wpc = "wait" /\ ~newEvent
StopReturns == cpc = "release" ~> (cpc = "down" \/ StopForgotten)
=============================================================================
