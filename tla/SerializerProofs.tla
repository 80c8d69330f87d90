-------------------------- MODULE SerializerProofs --------------------------
(***************************************************************************)
(* Proofs about the serializer, for any finite sets of commands and any     *)
(* number of priorities.                                                    *)
(***************************************************************************)
EXTENDS Serializer, FiniteSetTheorems, SequenceTheorems, TLAPS

\* What unlinking the i-th command leaves of a list.
LEMMA RemoveAtProperties ==
  ASSUME NEW S, NEW s \in Seq(S), NEW i \in 1 .. Len(s)
  PROVE  /\ RemoveAt(s, i) \in Seq(S)
         /\ Len(RemoveAt(s, i)) = Len(s) - 1
         /\ \A j \in 1 .. Len(s) - 1 :
              RemoveAt(s, i)[j] = IF j < i THEN s[j] ELSE s[j + 1]
<1> DEFINE a == SubSeq(s, 1, i - 1)
           b == SubSeq(s, i + 1, Len(s))
<1>1. Len(s) \in Nat /\ \A j \in 1 .. Len(s) : s[j] \in S
  BY LenProperties, ElementOfSeq
<1>2. /\ a \in Seq(S)
      /\ Len(a) = i - 1
      /\ \A j \in 1 .. i - 1 : a[j] = s[j]
  BY <1>1, SubSeqProperties, i - 1 \in Int, 1 \in Int
<1>3. /\ b \in Seq(S)
      /\ Len(b) = Len(s) - i
      /\ \A j \in 1 .. Len(s) - i : b[j] = s[i + j]
  <2>1. /\ b \in Seq(S)
        /\ Len(b) = IF i + 1 <= Len(s) THEN Len(s) - (i + 1) + 1 ELSE 0
        /\ \A j \in 1 .. Len(s) - (i + 1) + 1 : b[j] = s[i + 1 + j - 1]
    BY <1>1, SubSeqProperties, i + 1 \in Int, Len(s) \in Int
  <2> QED BY <2>1, <1>1
<1> HIDE DEF a, b
<1>4. /\ a \o b \in Seq(S)
      /\ Len(a \o b) = Len(a) + Len(b)
      /\ \A j \in 1 .. Len(a) + Len(b) :
           (a \o b)[j] = IF j <= Len(a) THEN a[j] ELSE b[j - Len(a)]
  BY <1>2, <1>3, ConcatProperties
<1>5. RemoveAt(s, i) = a \o b
  BY DEF RemoveAt, a, b
<1>6. ASSUME NEW j \in 1 .. Len(s) - 1
      PROVE  RemoveAt(s, i)[j] = IF j < i THEN s[j] ELSE s[j + 1]
  <2>1. CASE j < i
    BY <2>1, <1>1, <1>2, <1>3, <1>4, <1>5
  <2>2. CASE ~(j < i)
    <3>1. /\ j - (i - 1) \in 1 .. Len(s) - i
          /\ j \in 1 .. Len(a) + Len(b)
          /\ ~(j <= Len(a))
      BY <2>2, <1>1, <1>2, <1>3
    <3>2. (a \o b)[j] = b[j - (i - 1)]
      BY <3>1, <1>2, <1>4
    <3>3. b[j - (i - 1)] = s[i + (j - (i - 1))]
      BY <3>1, <1>3
    <3>4. i + (j - (i - 1)) = j + 1
      BY <1>1
    <3> QED BY <2>2, <3>2, <3>3, <3>4, <1>5
  <2> QED BY <2>1, <2>2
<1> QED BY <1>1, <1>2, <1>3, <1>4, <1>5, <1>6

-----------------------------------------------------------------------------
(***************************************************************************)
(* Types.                                                                   *)
(***************************************************************************)
\* What mtlk_serializer_enqueue assigns has the right types.
LEMMA EnqueueType ==
  ASSUME TypeOK, NEW c \in Commands, NEW p \in Priorities, Enqueue(c, p)
  PROVE  /\ commands' \in [Priorities -> Seq(Commands)]
         /\ isInQueue' \in [Commands -> BOOLEAN]
         /\ prio' \in [Commands -> Priorities]
         /\ refCnt' \in Int
         /\ newEvent' \in BOOLEAN
         /\ ran' \in [Commands -> BOOLEAN]
         /\ owed' \in [Commands -> Int]
         /\ UNCHANGED <<zeroEvt, isRunning, current, stop, workVars, cpc>>
<1>1. Append(commands[p], c) \in Seq(Commands)
  BY AppendProperties DEF TypeOK
<1> QED BY <1>1 DEF TypeOK, Enqueue, RmAcquire

\* So has what mtlk_serializer_cancel assigns.
LEMMA CancelType ==
  ASSUME TypeOK, NEW c \in Commands, Cancel(c)
  PROVE  /\ commands' \in [Priorities -> Seq(Commands)]
         /\ isInQueue' \in [Commands -> BOOLEAN]
         /\ refCnt' \in Int
         /\ zeroEvt' \in BOOLEAN
         /\ atScan' \in SUBSET Commands
         /\ UNCHANGED <<prio, isRunning, current, osVars, wpc, wi, cpc>>
<1>1. PICK i \in 1 .. Len(commands[prio[c]]) :
        commands' = [commands EXCEPT ![prio[c]] = RemoveAt(@, i)]
  BY DEF Cancel
<1>2. prio[c] \in Priorities /\ commands[prio[c]] \in Seq(Commands)
  BY DEF TypeOK
<1>3. RemoveAt(commands[prio[c]], i) \in Seq(Commands)
  BY <1>2, RemoveAtProperties
<1>4. commands' \in [Priorities -> Seq(Commands)]
  BY <1>1, <1>2, <1>3 DEF TypeOK
<1> QED BY <1>4 DEF TypeOK, Cancel, RmRelease

\* The priorities the worker's loop runs over.
LEMMA PriorityIndices ==
  /\ 0 \in Priorities
  /\ NumPriorities - 1 \in Priorities
  /\ \A p \in Priorities : p > 0 => p - 1 \in Priorities
BY PrioritiesAssumption DEF Priorities

\* The command the worker pops, and the rest of its list.
LEMMA WorkerPopsType ==
  ASSUME TypeOK, WorkerPops
  PROVE  /\ Head(commands[wi]) \in Commands
         /\ Tail(commands[wi]) \in Seq(Commands)
BY HeadTailProperties DEF TypeOK, WorkerPops

(***************************************************************************)
(* Every field keeps its type, whatever the threads do.                     *)
(***************************************************************************)
\* One step of any thread keeps the types.
LEMMA TypeStep ==
  ASSUME TypeOK, [Next]_vars
  PROVE  TypeOK'
<1>1. CASE UNCHANGED vars
  BY <1>1 DEF TypeOK, vars, szrVars, lockVars, osVars, workVars, userVars
<1>2. CASE WorkerWakes
  BY <1>2
  DEF TypeOK, WorkerWakes, WorkerPcs, szrVars, lockVars, osVars, workVars,
      userVars
<1>3. CASE WorkerChecksStop
  BY <1>3
  DEF TypeOK, WorkerChecksStop, WorkerPcs, szrVars, lockVars, osVars,
      workVars, userVars
<1>4. CASE WorkerResets
  BY <1>4, PriorityIndices
  DEF TypeOK, WorkerResets, BeginScan, Pending, WorkerPcs, szrVars, lockVars,
      osVars, workVars, userVars
<1>5. CASE WorkerPops
  BY <1>5, WorkerPopsType
  DEF TypeOK, WorkerPops, RmRelease, WorkerPcs, szrVars, lockVars, osVars,
      workVars, userVars
<1>6. CASE WorkerFindsEmpty
  BY <1>6, PriorityIndices
  DEF TypeOK, WorkerFindsEmpty, WorkerPcs, szrVars, lockVars, osVars,
      workVars, userVars
<1>7. CASE WorkerInvokes
  BY <1>7
  DEF TypeOK, WorkerInvokes, WorkerPcs, szrVars, lockVars, osVars, workVars,
      userVars
<1>8. CASE WorkerCompletes
  <2>1. cli' \in [Commands -> UserPcs]
    <3>1. "idle" \in UserPcs
      BY DEF UserPcs
    <3> QED BY <1>8, <3>1 DEF TypeOK, WorkerCompletes
  <2>2. done' \in [Commands -> {"no", "EXECUTED", "CANCELED"}]
    BY <1>8 DEF TypeOK, WorkerCompletes
  <2>3. owed' \in [Commands -> Int]
    <3>1. CASE current \in Commands
      BY <1>8, <3>1 DEF TypeOK, WorkerCompletes
    <3>2. CASE current \notin Commands
      BY <1>8, <3>2 DEF TypeOK, WorkerCompletes
    <3> QED BY <3>1, <3>2
  <2> QED
    BY <1>8, <2>1, <2>2, <2>3
    DEF TypeOK, WorkerCompletes, WorkerPcs, szrVars, lockVars, osVars
<1>9. CASE WorkerClears
  <2>1. atScan' \in SUBSET Commands
    BY <1>9 DEF WorkerClears, BeginScan, Pending
  <2>2. wi' \in Priorities
    BY <1>9, PriorityIndices DEF WorkerClears, BeginScan
  <2> QED
    BY <1>9, <2>1, <2>2
    DEF TypeOK, WorkerClears, BeginScan, WorkerPcs, lockVars, osVars, userVars
<1>10. CASE StartThread
  <2>1. refCnt' \in Int
    BY <1>10 DEF StartThread, RmInit
  <2>2. wpc' \in WorkerPcs /\ cpc' \in ControlPcs
    BY <1>10 DEF StartThread, WorkerPcs, ControlPcs
  <2>3. stop' \in BOOLEAN /\ newEvent' \in BOOLEAN /\ zeroEvt' \in BOOLEAN
    BY <1>10 DEF StartThread, RmInit
  <2> QED
    BY <1>10, <2>1, <2>2, <2>3 DEF TypeOK, StartThread, szrVars, userVars
<1>11. CASE StartProcessing
  BY <1>11
  DEF TypeOK, StartProcessing, RmAcquire, ControlPcs, WorkerPcs, szrVars,
      lockVars, osVars, workVars, userVars
<1>12. CASE StopProcessing
  BY <1>12
  DEF TypeOK, StopProcessing, ControlPcs, WorkerPcs, szrVars, lockVars,
      osVars, workVars, userVars
<1>13. CASE StopReleases
  BY <1>13
  DEF TypeOK, StopReleases, RmRelease, ControlPcs, WorkerPcs, szrVars,
      lockVars, osVars, workVars, userVars
<1>14. CASE StopDrained
  BY <1>14
  DEF TypeOK, StopDrained, ControlPcs, WorkerPcs, szrVars, lockVars, osVars,
      workVars, userVars
<1>15. CASE StopFlags
  BY <1>15
  DEF TypeOK, StopFlags, ControlPcs, WorkerPcs, szrVars, lockVars, osVars,
      workVars, userVars
<1>16. CASE StopNotifies
  BY <1>16
  DEF TypeOK, StopNotifies, ControlPcs, WorkerPcs, szrVars, lockVars, osVars,
      workVars, userVars
<1>17. CASE StopJoins
  BY <1>17
  DEF TypeOK, StopJoins, ControlPcs, WorkerPcs, szrVars, lockVars, osVars,
      workVars, userVars
<1>18. ASSUME NEW c \in Commands, NEW p \in Priorities, ExecuteAsync(c, p)
      PROVE  TypeOK'
  <2>1. Enqueue(c, p)
    BY <1>18 DEF ExecuteAsync
  <2> QED BY <1>18, <2>1, EnqueueType
          DEF TypeOK, ExecuteAsync, UserPcs, Results, workVars
<1>19. ASSUME NEW c \in Commands, NEW p \in Priorities, ExecuteBlocked(c, p)
      PROVE  TypeOK'
  <2>1. Enqueue(c, p)
    BY <1>19 DEF ExecuteBlocked
  <2> QED BY <1>19, <2>1, EnqueueType
          DEF TypeOK, ExecuteBlocked, UserPcs, Results, workVars
<1>21. ASSUME NEW c \in Commands, ExecuteAsyncRefused(c)
      PROVE  TypeOK'
  BY <1>21
  DEF TypeOK, ExecuteAsyncRefused, EnqueueAnswer, Results, szrVars, lockVars,
      osVars, workVars
<1>22. ASSUME NEW c \in Commands, ExecuteBlockedRefused(c)
      PROVE  TypeOK'
  BY <1>22
  DEF TypeOK, ExecuteBlockedRefused, EnqueueAnswer, Return, Results, UserPcs,
      szrVars, lockVars, osVars, workVars
<1>25. ASSUME NEW c \in Commands, BlockedWakes(c)
      PROVE  TypeOK'
  BY <1>25
  DEF TypeOK, BlockedWakes, Return, ResultOf, Results, UserPcs, szrVars,
      lockVars, osVars, workVars
<1>26. ASSUME NEW c \in Commands, BlockedTimesOut(c)
      PROVE  TypeOK'
  BY <1>26
  DEF TypeOK, BlockedTimesOut, UserPcs, szrVars, lockVars, osVars, workVars
<1>27. ASSUME NEW c \in Commands, BlockedCancels(c)
      PROVE  TypeOK'
  <2>1. Cancel(c)
    BY <1>27 DEF BlockedCancels
  <2> QED BY <1>27, <2>1, CancelType
          DEF TypeOK, BlockedCancels, UserPcs, osVars
<1>28. ASSUME NEW c \in Commands, BlockedCannotCancel(c)
      PROVE  TypeOK'
  BY <1>28
  DEF TypeOK, BlockedCannotCancel, UserPcs, szrVars, lockVars, osVars,
      workVars
<1>29. ASSUME NEW c \in Commands, BlockedCancelClb(c)
      PROVE  TypeOK'
  BY <1>29
  DEF TypeOK, BlockedCancelClb, Return, Results, UserPcs, szrVars, lockVars,
      osVars, workVars
<1> QED
  BY <1>1, <1>2, <1>3, <1>4, <1>5, <1>6, <1>7, <1>8, <1>9, <1>10, <1>11,
     <1>12, <1>13, <1>14, <1>15, <1>16, <1>17, <1>18, <1>19, <1>21,
     <1>22, <1>25, <1>26, <1>27, <1>28, <1>29
  DEF Next, Worker, Control, UserReturns, UserCalls

\* The type invariant holds in every behaviour.
THEOREM TypeCorrect == Spec => []TypeOK
<1>1. Init => TypeOK
  <2> SUFFICES ASSUME Init PROVE TypeOK
    OBVIOUS
  <2>1. commands \in [Priorities -> Seq(Commands)]
    BY EmptySeq DEF Init
  <2>2. owed \in [Commands -> Int] /\ refCnt \in Int
    BY DEF Init
  <2>3. wi \in Priorities /\ prio \in [Commands -> Priorities]
    BY PriorityIndices DEF Init
  <2> QED
    BY <2>1, <2>2, <2>3
    DEF Init, TypeOK, WorkerPcs, ControlPcs, UserPcs, Results
<1>2. TypeOK /\ [Next]_vars => TypeOK'
  BY TypeStep
<1> QED BY <1>1, <1>2, PTL DEF Spec

-----------------------------------------------------------------------------
(***************************************************************************)
(* The lists.  The three operations on a list of distinct commands.         *)
(***************************************************************************)
In(x, s) == \E i \in 1 .. Len(s) : s[i] = x
Distinct(s) == \A i, j \in 1 .. Len(s) : s[i] = s[j] => i = j

\* mtlk_dlist_push_back, of a command that is not on the list.
LEMMA AppendDistinct ==
  ASSUME NEW S, NEW s \in Seq(S), NEW e \in S, Distinct(s), ~In(e, s)
  PROVE  /\ Distinct(Append(s, e))
         /\ \A x : In(x, Append(s, e)) <=> In(x, s) \/ x = e
<1> DEFINE t == Append(s, e)
<1>1. /\ Len(s) \in Nat
      /\ Len(t) = Len(s) + 1
      /\ \A i \in 1 .. Len(s) : t[i] = s[i]
      /\ t[Len(s) + 1] = e
  BY AppendProperties, LenProperties
<1> HIDE DEF t
<1>2. Distinct(t)
  BY <1>1 DEF Distinct, In
<1>3. \A x : In(x, t) <=> In(x, s) \/ x = e
  BY <1>1 DEF In
<1> QED BY <1>2, <1>3 DEF t

\* mtlk_dlist_remove of a command anywhere on the list.
LEMMA RemoveAtDistinct ==
  ASSUME NEW S, NEW s \in Seq(S), NEW i \in 1 .. Len(s), Distinct(s)
  PROVE  /\ Distinct(RemoveAt(s, i))
         /\ \A x : In(x, RemoveAt(s, i)) <=> In(x, s) /\ x # s[i]
<1> DEFINE t == RemoveAt(s, i)
<1>1. /\ Len(s) \in Nat
      /\ Len(t) = Len(s) - 1
      /\ \A j \in 1 .. Len(s) - 1 : t[j] = IF j < i THEN s[j] ELSE s[j + 1]
  BY RemoveAtProperties, LenProperties
<1> HIDE DEF t
<1>2. Distinct(t)
  BY <1>1 DEF Distinct
<1>3. ASSUME NEW x, In(x, t)
      PROVE  In(x, s) /\ x # s[i]
  BY <1>1, <1>3 DEF In, Distinct
<1>4. ASSUME NEW x, In(x, s), x # s[i]
      PROVE  In(x, t)
  <2>1. PICK k \in 1 .. Len(s) : s[k] = x
    BY <1>4 DEF In
  <2>2. CASE k < i
    BY <1>1, <2>1, <2>2 DEF In
  <2>3. CASE k > i
    <3>1. k - 1 \in 1 .. Len(t) /\ ~(k - 1 < i) /\ (k - 1) + 1 = k
      BY <1>1, <2>3
    <3> QED BY <1>1, <2>1, <3>1 DEF In
  <2> QED BY <1>4, <2>1, <2>2, <2>3
<1> QED BY <1>2, <1>3, <1>4 DEF t

\* mtlk_dlist_pop_front.
LEMMA TailDistinct ==
  ASSUME NEW S, NEW s \in Seq(S), s # <<>>, Distinct(s)
  PROVE  /\ In(Head(s), s)
         /\ Distinct(Tail(s))
         /\ \A x : In(x, Tail(s)) <=> In(x, s) /\ x # Head(s)
<1> DEFINE t == Tail(s)
<1>1. /\ Len(s) \in Nat \ {0}
      /\ Head(s) = s[1]
      /\ Len(t) = Len(s) - 1
      /\ \A j \in 1 .. Len(t) : t[j] = s[j + 1]
  BY HeadTailProperties, EmptySeq, LenProperties
<1> HIDE DEF t
<1>2. In(Head(s), s) /\ Distinct(t)
  BY <1>1 DEF Distinct, In
<1>3. ASSUME NEW x, In(x, t)
      PROVE  In(x, s) /\ x # Head(s)
  BY <1>1, <1>3 DEF In, Distinct
<1>4. ASSUME NEW x, In(x, s), x # Head(s)
      PROVE  In(x, t)
  <2>1. PICK k \in 1 .. Len(s) : s[k] = x
    BY <1>4 DEF In
  <2>2. k - 1 \in 1 .. Len(t) /\ (k - 1) + 1 = k
    BY <1>1, <1>4, <2>1
  <2> QED BY <1>1, <2>1, <2>2 DEF In
<1> QED BY <1>2, <1>3, <1>4 DEF t

\* QueuedOnce in the terms of the lemmas above.
LEMMA QueuedOnceLists ==
  QueuedOnce <=>
    /\ \A c \in Commands, p \in Priorities :
         In(c, commands[p]) <=> isInQueue[c] /\ prio[c] = p
    /\ \A p \in Priorities : Distinct(commands[p])
BY DEF QueuedOnce, InList, In, Distinct

\* An accepted command is on no list yet, and goes to the end of one.
LEMMA EnqueueKeepsLists ==
  ASSUME TypeOK, QueuedOnce,
         NEW c \in Commands, NEW p \in Priorities, Enqueue(c, p)
  PROVE  QueuedOnce'
<1>1. /\ ~isInQueue[c]
      /\ commands' = [commands EXCEPT ![p] = Append(@, c)]
      /\ isInQueue' = [isInQueue EXCEPT ![c] = TRUE]
      /\ prio' = [prio EXCEPT ![c] = p]
  BY DEF Enqueue, EnqueueAnswer
<1>2. commands[p] \in Seq(Commands) /\ Distinct(commands[p])
  BY QueuedOnceLists DEF TypeOK
<1>3. ~In(c, commands[p])
  BY <1>1, QueuedOnceLists
<1>4. /\ Distinct(Append(commands[p], c))
      /\ \A x : In(x, Append(commands[p], c)) <=> In(x, commands[p]) \/ x = c
  BY <1>2, <1>3, AppendDistinct
<1>5. /\ commands'[p] = Append(commands[p], c)
      /\ \A q \in Priorities \ {p} : commands'[q] = commands[q]
  BY <1>1 DEF TypeOK
<1>6. ASSUME NEW d \in Commands, NEW q \in Priorities
      PROVE  In(d, commands'[q]) <=> isInQueue'[d] /\ prio'[d] = q
  <2>1. CASE d = c
    <3>1. isInQueue'[d] /\ prio'[d] = p
      BY <1>1, <2>1 DEF TypeOK
    <3>2. q # p => ~In(d, commands[q])
      BY <1>1, <2>1, QueuedOnceLists
    <3> QED BY <1>4, <1>5, <2>1, <3>1, <3>2
  <2>2. CASE d # c
    <3>1. isInQueue'[d] = isInQueue[d] /\ prio'[d] = prio[d]
      BY <1>1, <2>2 DEF TypeOK
    <3>2. In(d, commands'[q]) <=> In(d, commands[q])
      BY <1>4, <1>5, <2>2
    <3> QED BY <3>1, <3>2, QueuedOnceLists
  <2> QED BY <2>1, <2>2
<1>7. \A q \in Priorities : Distinct(commands'[q])
  BY <1>4, <1>5, QueuedOnceLists
<1> QED BY <1>6, <1>7 DEF QueuedOnce, InList, In, Distinct

\* Unlinking command c, wherever it is in its list, when its flag is cleared.
LEMMA UnlinkKeepsLists ==
  ASSUME TypeOK, QueuedOnce, NEW c \in Commands, NEW p \in Priorities,
         NEW s, In(c, commands[p]), Distinct(s),
         \A x : In(x, s) <=> In(x, commands[p]) /\ x # c,
         commands' = [commands EXCEPT ![p] = s],
         isInQueue' = [isInQueue EXCEPT ![c] = FALSE],
         prio' = prio
  PROVE  QueuedOnce'
<1>1. /\ commands'[p] = s
      /\ \A q \in Priorities \ {p} : commands'[q] = commands[q]
  BY DEF TypeOK
<1>2. prio[c] = p
  BY QueuedOnceLists
<1>3. ASSUME NEW d \in Commands, NEW q \in Priorities
      PROVE  In(d, commands'[q]) <=> isInQueue'[d] /\ prio'[d] = q
  <2>1. CASE d = c
    <3>1. ~isInQueue'[d]
      BY <2>1 DEF TypeOK
    <3>2. ~In(d, commands'[q])
      BY <1>1, <1>2, <2>1, QueuedOnceLists
    <3> QED BY <3>1, <3>2
  <2>2. CASE d # c
    <3>1. isInQueue'[d] = isInQueue[d] /\ prio'[d] = prio[d]
      BY <2>2 DEF TypeOK
    <3>2. In(d, commands'[q]) <=> In(d, commands[q])
      BY <1>1, <2>2
    <3> QED BY <3>1, <3>2, QueuedOnceLists
  <2> QED BY <2>1, <2>2
<1>4. \A q \in Priorities : Distinct(commands'[q])
  BY <1>1, QueuedOnceLists
<1> QED BY <1>3, <1>4 DEF QueuedOnce, InList, In, Distinct

\* mtlk_serializer_cancel unlinks the one occurrence of its command.
LEMMA CancelKeepsLists ==
  ASSUME TypeOK, QueuedOnce, NEW c \in Commands, Cancel(c)
  PROVE  QueuedOnce'
<1> DEFINE p == prio[c]
<1>1. p \in Priorities /\ commands[p] \in Seq(Commands)
  BY DEF TypeOK
<1>2. PICK i \in 1 .. Len(commands[p]) :
        /\ commands[p][i] = c
        /\ commands' = [commands EXCEPT ![p] = RemoveAt(@, i)]
  BY DEF Cancel
<1>3. Distinct(commands[p]) /\ In(c, commands[p])
  BY <1>1, <1>2, QueuedOnceLists DEF In
<1>4. /\ Distinct(RemoveAt(commands[p], i))
      /\ \A x : In(x, RemoveAt(commands[p], i))
                 <=> In(x, commands[p]) /\ x # c
  BY <1>1, <1>2, <1>3, RemoveAtDistinct
<1>5. isInQueue' = [isInQueue EXCEPT ![c] = FALSE] /\ prio' = prio
  BY DEF Cancel
<1>6. commands' = [commands EXCEPT ![p] = RemoveAt(commands[p], i)]
  BY <1>2
<1> QED BY <1>1, <1>3, <1>4, <1>5, <1>6, UnlinkKeepsLists

\* The worker's pop takes out the one occurrence of the first command.
LEMMA PopKeepsLists ==
  ASSUME TypeOK, QueuedOnce, WorkerPops
  PROVE  QueuedOnce'
<1> DEFINE c == Head(commands[wi])
<1>1. wi \in Priorities /\ commands[wi] \in Seq(Commands) /\ c \in Commands
  BY WorkerPopsType DEF TypeOK
<1>2. Distinct(commands[wi]) /\ commands[wi] # <<>>
  BY <1>1, QueuedOnceLists DEF WorkerPops
<1>3. /\ In(c, commands[wi])
      /\ Distinct(Tail(commands[wi]))
      /\ \A x : In(x, Tail(commands[wi])) <=> In(x, commands[wi]) /\ x # c
  BY <1>1, <1>2, TailDistinct
<1>4. /\ commands' = [commands EXCEPT ![wi] = Tail(commands[wi])]
      /\ isInQueue' = [isInQueue EXCEPT ![c] = FALSE]
      /\ prio' = prio
  BY DEF WorkerPops
<1> QED BY <1>1, <1>3, <1>4, UnlinkKeepsLists

\* What a step does to the lists and to the remove lock: a command is queued,
\* cancelled or popped; or the control thread moves; or nothing.
LEMMA QueueSteps ==
  ASSUME [Next]_vars
  PROVE  \/ \E c \in Commands, p \in Priorities : Enqueue(c, p)
         \/ \E c \in Commands : Cancel(c)
         \/ WorkerPops
         \/ Control /\ UNCHANGED <<commands, isInQueue, prio>>
         \/ UNCHANGED <<commands, isInQueue, prio, isRunning, lockVars, cpc>>
<1>1. CASE UNCHANGED vars
  BY <1>1 DEF vars, szrVars, lockVars
<1>2. CASE Worker
  BY <1>2 DEF Worker, WorkerWakes, WorkerChecksStop, WorkerResets,
     WorkerFindsEmpty, WorkerInvokes, WorkerCompletes, WorkerClears, szrVars
<1>3. CASE Control
  BY <1>3 DEF Control, StartThread, StartProcessing, StopProcessing,
     StopReleases, StopDrained, StopFlags, StopNotifies, StopJoins, szrVars
<1>4. ASSUME NEW c \in Commands, UserReturns(c)
      PROVE  \/ Cancel(c)
             \/ UNCHANGED <<commands, isInQueue, prio, isRunning, lockVars, cpc>>
  BY <1>4 DEF UserReturns, BlockedWakes, BlockedTimesOut, BlockedCancels,
     BlockedCannotCancel, BlockedCancelClb, szrVars
<1>5. ASSUME NEW c \in Commands, UserCalls(c)
      PROVE  \/ \E p \in Priorities : Enqueue(c, p)
             \/ Cancel(c)
             \/ UNCHANGED <<commands, isInQueue, prio, isRunning, lockVars, cpc>>
  BY <1>5 DEF UserCalls, ExecuteAsync, ExecuteBlocked,
     ExecuteAsyncRefused, ExecuteBlockedRefused, szrVars
<1> QED BY <1>1, <1>2, <1>3, <1>4, <1>5 DEF Next

\* A command is on the list its fields name, once, and on no other, so that
\* mtlk_serializer_cancel and the worker unlink what they mean to.
THEOREM QueuedOnceCorrect == Spec => []QueuedOnce
<1>1. Init => QueuedOnce
  <2> SUFFICES ASSUME Init PROVE QueuedOnce
    OBVIOUS
  <2>1. \A p \in Priorities : commands[p] = <<>> /\ Len(commands[p]) = 0
    BY EmptySeq DEF Init
  <2>2. \A c \in Commands : ~isInQueue[c]
    BY DEF Init
  <2> QED BY <2>1, <2>2 DEF QueuedOnce, InList
<1>2. TypeOK /\ QueuedOnce /\ [Next]_vars => QueuedOnce'
  <2> SUFFICES ASSUME TypeOK, QueuedOnce, [Next]_vars PROVE QueuedOnce'
    OBVIOUS
  <2>1. CASE UNCHANGED <<commands, isInQueue, prio>>
    BY <2>1 DEF QueuedOnce, InList
  <2> QED
    BY <2>1, QueueSteps, EnqueueKeepsLists, CancelKeepsLists, PopKeepsLists
<1> QED BY <1>1, <1>2, TypeCorrect, PTL DEF Spec

-----------------------------------------------------------------------------
(***************************************************************************)
(* The remove lock and the wait of mtlk_serializer_stop.  RefCounts and     *)
(* Drained are not inductive alone: that nothing is queued while the        *)
(* serializer starts, and that it accepts commands only between start and   *)
(* stop, has to be carried along.                                           *)
(***************************************************************************)
Accepting ==
  /\ isRunning <=> cpc = "up"
  /\ cpc = "starting" => Pending = {}

LockInv == RefCounts /\ Drained /\ Accepting

\* The commands that are queued can be counted.
LEMMA PendingFinite ==
  /\ IsFiniteSet(Pending)
  /\ Cardinality(Pending) \in Nat
  /\ Cardinality(Pending) = 0 <=> Pending = {}
BY CommandsAssumption, FS_Subset, FS_CardinalityType, FS_EmptySet DEF Pending

\* Queueing one more command.
LEMMA PendingAdd ==
  ASSUME TypeOK, NEW c \in Commands, ~isInQueue[c],
         isInQueue' = [isInQueue EXCEPT ![c] = TRUE]
  PROVE  Cardinality(Pending') = Cardinality(Pending) + 1
<1>1. Pending' = Pending \cup {c} /\ c \notin Pending
  BY DEF Pending, TypeOK
<1> QED BY <1>1, PendingFinite, FS_AddElement

\* Taking one out.
LEMMA PendingRemove ==
  ASSUME TypeOK, NEW c \in Commands, isInQueue[c],
         isInQueue' = [isInQueue EXCEPT ![c] = FALSE]
  PROVE  /\ Cardinality(Pending') = Cardinality(Pending) - 1
         /\ Pending # {}
<1>1. Pending' = Pending \ {c} /\ c \in Pending
  BY DEF Pending, TypeOK
<1> QED BY <1>1, PendingFinite, FS_RemoveElement

\* mtlk_serializer_enqueue takes a reference for the command it queues.
LEMMA AddKeepsLock ==
  ASSUME TypeOK, LockInv,
         NEW c \in Commands, NEW p \in Priorities, Enqueue(c, p)
  PROVE  LockInv'
<1>1. cpc = "up" /\ cpc' = cpc /\ isRunning' = isRunning /\ ~isInQueue[c]
  BY DEF Enqueue, EnqueueAnswer, LockInv, Accepting
<1>2. refCnt' = refCnt + 1 /\ zeroEvt' = zeroEvt
  BY DEF Enqueue, RmAcquire
<1>3. Cardinality(Pending') = Cardinality(Pending) + 1
  BY <1>1, PendingAdd DEF Enqueue
<1>4. RefCounts'
  BY <1>1, <1>2, <1>3, PendingFinite
  DEF LockInv, RefCounts, OwnReference, TypeOK
<1> QED BY <1>1, <1>4 DEF LockInv, Drained, Accepting

\* Whoever unlinks a command gives its reference back.
LEMMA RemoveKeepsLock ==
  ASSUME TypeOK, LockInv, NEW c \in Commands, isInQueue[c],
         isInQueue' = [isInQueue EXCEPT ![c] = FALSE],
         RmRelease, cpc' = cpc, isRunning' = isRunning
  PROVE  LockInv'
<1>1. Cardinality(Pending') = Cardinality(Pending) - 1 /\ Pending # {}
  BY PendingRemove
<1>2. cpc \in {"up", "release", "drain"}
  BY <1>1 DEF LockInv, Drained, Accepting, TypeOK, ControlPcs
<1>3. RefCounts'
  BY <1>1, <1>2, PendingFinite
  DEF LockInv, RefCounts, OwnReference, RmRelease, TypeOK
<1> QED BY <1>2, <1>3 DEF LockInv, Drained, Accepting

\* mtlk_serializer_start and mtlk_serializer_stop keep the count.
LEMMA ControlKeepsLock ==
  ASSUME TypeOK, LockInv, Control, UNCHANGED <<commands, isInQueue, prio>>
  PROVE  LockInv'
<1>1. Pending' = Pending
  BY DEF Pending
<1>2. CASE StartThread
  <2>1. Pending = {}
    BY <1>2 DEF LockInv, Drained, StartThread
  <2> QED BY <1>1, <1>2, <2>1, PendingFinite
      DEF LockInv, RefCounts, OwnReference, Drained, Accepting, StartThread,
          RmInit, szrVars
<1>3. CASE StartProcessing
  BY <1>1, <1>3, PendingFinite
  DEF LockInv, RefCounts, OwnReference, Drained, Accepting, StartProcessing,
      RmAcquire, TypeOK
<1>4. CASE StopProcessing
  BY <1>1, <1>4, PendingFinite
  DEF LockInv, RefCounts, OwnReference, Drained, Accepting, StopProcessing,
      lockVars
<1>5. CASE StopReleases
  BY <1>1, <1>5, PendingFinite
  DEF LockInv, RefCounts, OwnReference, Drained, Accepting, StopReleases,
      RmRelease, szrVars, TypeOK
<1>6. CASE StopDrained
  BY <1>1, <1>6, PendingFinite
  DEF LockInv, RefCounts, OwnReference, Drained, Accepting, StopDrained,
      RmWait, szrVars, lockVars
<1>7. CASE StopFlags \/ StopNotifies \/ StopJoins
  BY <1>1, <1>7, PendingFinite
  DEF LockInv, RefCounts, OwnReference, Drained, Accepting, StopFlags,
      StopNotifies, StopJoins, szrVars, lockVars
<1> QED BY <1>2, <1>3, <1>4, <1>5, <1>6, <1>7 DEF Control

\* The strengthened invariant of the remove lock.
LEMMA LockCorrect == Spec => []LockInv
<1>1. Init => LockInv
  <2> SUFFICES ASSUME Init PROVE LockInv
    OBVIOUS
  <2>1. Pending = {}
    BY DEF Init, Pending
  <2> QED BY <2>1, PendingFinite
      DEF Init, LockInv, RefCounts, OwnReference, Drained, Accepting
<1>2. TypeOK /\ QueuedOnce /\ LockInv /\ [Next]_vars => LockInv'
  <2> SUFFICES ASSUME TypeOK, QueuedOnce, LockInv, [Next]_vars PROVE LockInv'
    OBVIOUS
  <2>1. ASSUME NEW c \in Commands, Cancel(c)
        PROVE  LockInv'
    BY <2>1, RemoveKeepsLock DEF Cancel
  <2>2. CASE WorkerPops
    <3> DEFINE c == Head(commands[wi])
    <3>1. wi \in Priorities /\ commands[wi] \in Seq(Commands) /\ c \in Commands
      BY <2>2, WorkerPopsType DEF TypeOK
    <3>2. In(c, commands[wi])
      BY <2>2, <3>1, TailDistinct, QueuedOnceLists DEF WorkerPops
    <3>3. isInQueue[c]
      BY <3>1, <3>2, QueuedOnceLists
    <3> QED BY <2>2, <3>1, <3>3, RemoveKeepsLock DEF WorkerPops
  <2>3. CASE UNCHANGED <<commands, isInQueue, prio, isRunning, lockVars, cpc>>
    BY <2>3 DEF LockInv, RefCounts, OwnReference, Drained, Accepting, Pending,
       lockVars
  <2> QED BY <2>1, <2>2, <2>3, QueueSteps, AddKeepsLock, ControlKeepsLock
<1> QED BY <1>1, <1>2, TypeCorrect, QueuedOnceCorrect, PTL DEF Spec

\* The remove lock of mtlk_serializer.c counts the queued commands and the
\* serializer's own reference; its event is raised only when both are gone.
THEOREM RefCountsCorrect == Spec => []RefCounts
<1>1. LockInv => RefCounts
  BY DEF LockInv
<1> QED BY <1>1, LockCorrect, PTL

\* Past the wait of _mtlk_serializer_stop_processing nothing is queued and
\* nothing can be.
THEOREM DrainedCorrect == Spec => []Drained
<1>1. LockInv => Drained
  BY DEF LockInv
<1> QED BY <1>1, LockCorrect, PTL

-----------------------------------------------------------------------------
(***************************************************************************)
(* The worker.  It exists between start and stop, and szr->current_command  *)
(* is set exactly while a command passes through its callbacks.             *)
(***************************************************************************)
WorkerInv ==
  /\ wpc = "none" <=> cpc = "down"
  /\ current # NoCmd <=> wpc \in {"invoke", "complete", "clear"}

\* One step of any thread keeps the worker's invariant.
LEMMA WorkerStep ==
  ASSUME TypeOK, WorkerInv, [Next]_vars
  PROVE  WorkerInv'
<1>1. CASE UNCHANGED <<wpc, cpc, current>>
  BY <1>1 DEF WorkerInv
<1>2. CASE WorkerPops
  <2>1. current' # NoCmd
    BY <1>2, WorkerPopsType, CommandsAssumption DEF WorkerPops
  <2> QED BY <1>2, <2>1 DEF WorkerInv, WorkerPops
<1>3. CASE WorkerWakes \/ WorkerChecksStop \/ WorkerResets \/ WorkerFindsEmpty
  BY <1>3 DEF WorkerInv, WorkerWakes, WorkerChecksStop, WorkerResets, BeginScan,
     WorkerFindsEmpty, szrVars
<1>4. CASE WorkerInvokes \/ WorkerCompletes \/ WorkerClears
  BY <1>4
  DEF WorkerInv, WorkerInvokes, WorkerCompletes, WorkerClears, BeginScan,
     szrVars
<1>5. CASE StartThread \/ StopJoins
  BY <1>5 DEF WorkerInv, StartThread, StopJoins, szrVars
<1>6. CASE StartProcessing \/ StopProcessing \/ StopReleases
           \/ StopDrained \/ StopFlags \/ StopNotifies
  BY <1>6 DEF WorkerInv, StartProcessing, StopProcessing, StopReleases,
     StopDrained, StopFlags, StopNotifies, szrVars, workVars
<1>7. ASSUME NEW c \in Commands, UserReturns(c)
      PROVE  UNCHANGED <<wpc, cpc, current>>
  BY <1>7 DEF UserReturns, BlockedWakes, BlockedTimesOut, BlockedCancels,
     BlockedCannotCancel, BlockedCancelClb, Cancel, szrVars,
     workVars
<1>8. ASSUME NEW c \in Commands, UserCalls(c)
      PROVE  UNCHANGED <<wpc, cpc, current>>
  BY <1>8 DEF UserCalls, ExecuteAsync, ExecuteBlocked, Enqueue,
     ExecuteAsyncRefused, ExecuteBlockedRefused, Cancel, szrVars, workVars
<1>9. CASE UNCHANGED vars
  BY <1>1, <1>9 DEF vars, szrVars, workVars
<1> QED
  BY <1>1, <1>2, <1>3, <1>4, <1>5, <1>6, <1>7, <1>8, <1>9
  DEF Next, Worker, Control

\* The worker's invariant.
LEMMA WorkerCorrect == Spec => []WorkerInv
<1>1. Init => WorkerInv
  BY DEF Init, WorkerInv
<1>2. TypeOK /\ WorkerInv /\ [Next]_vars => WorkerInv'
  BY WorkerStep
<1> QED BY <1>1, <1>2, TypeCorrect, PTL DEF Spec

\* When mtlk_serializer_stop has returned there is no worker, no command is
\* being executed and the lists are empty.
THEOREM StoppedIsQuietCorrect == Spec => []StoppedIsQuiet
<1>1. TypeOK /\ QueuedOnce /\ Drained /\ WorkerInv => StoppedIsQuiet
  <2> SUFFICES ASSUME TypeOK, QueuedOnce, Drained, WorkerInv, cpc = "down"
               PROVE  /\ wpc = "none"
                      /\ current = NoCmd
                      /\ \A p \in Priorities : commands[p] = <<>>
    BY DEF StoppedIsQuiet
  <2>1. \A c \in Commands : ~isInQueue[c]
    BY DEF Drained, Pending
  <2>2. ASSUME NEW p \in Priorities, commands[p] # <<>>
        PROVE  FALSE
    <3>1. commands[p] \in Seq(Commands)
      BY DEF TypeOK
    <3>2. /\ Head(commands[p]) \in Commands
          /\ In(Head(commands[p]), commands[p])
      BY <2>2, <3>1, HeadTailProperties, TailDistinct, QueuedOnceLists
    <3> QED BY <2>1, <3>2, QueuedOnceLists
  <2> QED BY <2>2 DEF WorkerInv
<1> QED
  BY <1>1, TypeCorrect, QueuedOnceCorrect, DrainedCorrect, WorkerCorrect, PTL

-----------------------------------------------------------------------------
(***************************************************************************)
(* Completion callbacks.  A heap command is never in a canceller's hands.   *)
(***************************************************************************)
UserInv == \A c \in Heap : cli[c] # "cancelclb"

CompletedInv == CompletedOnce /\ UserInv

\* The steps that call no callback, queue nothing and cancel nothing.
LEMMA QuietStep ==
  ASSUME CompletedInv, UNCHANGED <<isInQueue, owed>>,
         \A c \in Commands : /\ Executing(c)' <=> Executing(c)
                             /\ cli'[c] = "cancelclb" <=> cli[c] = "cancelclb"
  PROVE  CompletedInv'
<1>1. ASSUME NEW c \in Commands
      PROVE  owed'[c] = Count(isInQueue'[c]) + Count(Executing(c)')
                          + Count(cli'[c] = "cancelclb")
  BY DEF CompletedInv, CompletedOnce, Count
<1>2. UserInv'
  BY DEF CompletedInv, UserInv, Commands
<1> QED BY <1>1, <1>2 DEF CompletedInv, CompletedOnce

\* A command is queued: one more callback is owed.
LEMMA EnqueueOwes ==
  ASSUME TypeOK, CompletedInv, NEW c \in Commands, NEW p \in Priorities,
         Enqueue(c, p),
         \A d \in Commands : cli'[d] = "cancelclb" <=> cli[d] = "cancelclb"
  PROVE  CompletedInv'
<1>1. /\ ~isInQueue[c]
      /\ isInQueue' = [isInQueue EXCEPT ![c] = TRUE]
      /\ owed' = [owed EXCEPT ![c] = @ + 1]
      /\ wpc' = wpc /\ current' = current
  BY DEF Enqueue, EnqueueAnswer, workVars
<1>2. ASSUME NEW d \in Commands
      PROVE  owed'[d] = Count(isInQueue'[d]) + Count(Executing(d)')
                          + Count(cli'[d] = "cancelclb")
  <2>1. owed[d] = Count(isInQueue[d]) + Count(Executing(d))
                    + Count(cli[d] = "cancelclb")
    BY DEF CompletedInv, CompletedOnce
  <2>2. Executing(d)' <=> Executing(d)
    BY <1>1 DEF Executing
  <2>3. CASE d = c
    <3>1. isInQueue'[d] /\ ~isInQueue[d]
      BY <1>1, <2>3 DEF TypeOK
    <3>2. owed'[d] = owed[d] + 1
      BY <1>1, <2>3 DEF TypeOK
    <3> QED BY <2>1, <2>2, <3>1, <3>2 DEF Count
  <2>4. CASE d # c
    <3>1. isInQueue'[d] = isInQueue[d] /\ owed'[d] = owed[d]
      BY <1>1, <2>4 DEF TypeOK
    <3> QED BY <2>1, <2>2, <3>1 DEF Count
  <2> QED BY <2>3, <2>4
<1>3. UserInv'
  BY DEF CompletedInv, UserInv, Commands
<1> QED BY <1>2, <1>3 DEF CompletedInv, CompletedOnce

\* A command is unlinked by a canceller, who owes the callback from now on.
LEMMA CancelOwes ==
  ASSUME TypeOK, CompletedInv, NEW c \in Commands \ Heap, Cancel(c),
         cli[c] # "cancelclb", cli' = [cli EXCEPT ![c] = "cancelclb"],
         owed' = owed
  PROVE  CompletedInv'
<1>1. /\ isInQueue[c]
      /\ isInQueue' = [isInQueue EXCEPT ![c] = FALSE]
      /\ wpc' = wpc /\ current' = current
  BY DEF Cancel
<1>2. ASSUME NEW d \in Commands
      PROVE  owed'[d] = Count(isInQueue'[d]) + Count(Executing(d)')
                          + Count(cli'[d] = "cancelclb")
  <2>1. owed[d] = Count(isInQueue[d]) + Count(Executing(d))
                    + Count(cli[d] = "cancelclb")
    BY DEF CompletedInv, CompletedOnce
  <2>2. Executing(d)' <=> Executing(d)
    BY <1>1 DEF Executing
  <2>3. CASE d = c
    <3>1. ~isInQueue'[d] /\ isInQueue[d]
      BY <1>1, <2>3 DEF TypeOK
    <3>2. cli'[d] = "cancelclb" /\ cli[d] # "cancelclb"
      BY <2>3 DEF TypeOK
    <3> QED BY <2>1, <2>2, <3>1, <3>2 DEF Count
  <2>4. CASE d # c
    <3>1. isInQueue'[d] = isInQueue[d] /\ cli'[d] = cli[d]
      BY <1>1, <2>4 DEF TypeOK
    <3> QED BY <2>1, <2>2, <3>1 DEF Count
  <2> QED BY <2>3, <2>4
<1>3. UserInv'
  BY DEF CompletedInv, UserInv, Commands, TypeOK
<1> QED BY <1>2, <1>3 DEF CompletedInv, CompletedOnce

\* The canceller calls the callback.
LEMMA CancelClbPays ==
  ASSUME TypeOK, CompletedInv, NEW c \in Commands,
         cli[c] = "cancelclb", cli' = [cli EXCEPT ![c] = "idle"],
         owed' = [owed EXCEPT ![c] = @ - 1],
         UNCHANGED <<isInQueue, wpc, current>>
  PROVE  CompletedInv'
<1>1. ASSUME NEW d \in Commands
      PROVE  owed'[d] = Count(isInQueue'[d]) + Count(Executing(d)')
                          + Count(cli'[d] = "cancelclb")
  <2>1. owed[d] = Count(isInQueue[d]) + Count(Executing(d))
                    + Count(cli[d] = "cancelclb")
    BY DEF CompletedInv, CompletedOnce
  <2>2. Executing(d)' <=> Executing(d)
    BY DEF Executing
  <2>3. CASE d = c
    <3>1. owed'[d] = owed[d] - 1
      BY <2>3 DEF TypeOK
    <3>2. cli'[d] # "cancelclb" /\ cli[d] = "cancelclb"
      BY <2>3 DEF TypeOK
    <3> QED BY <2>1, <2>2, <3>1, <3>2 DEF Count
  <2>4. CASE d # c
    <3>1. owed'[d] = owed[d] /\ cli'[d] = cli[d]
      BY <2>4 DEF TypeOK
    <3> QED BY <2>1, <2>2, <3>1 DEF Count
  <2> QED BY <2>3, <2>4
<1>2. UserInv'
  BY DEF CompletedInv, UserInv, Commands, TypeOK
<1> QED BY <1>1, <1>2 DEF CompletedInv, CompletedOnce

\* The worker takes over a queued command.
LEMMA PopOwes ==
  ASSUME TypeOK, QueuedOnce, CompletedInv, WorkerPops
  PROVE  CompletedInv'
<1> DEFINE c == Head(commands[wi])
<1>1. wi \in Priorities /\ commands[wi] \in Seq(Commands) /\ c \in Commands
  BY WorkerPopsType DEF TypeOK
<1>2. In(c, commands[wi])
  BY <1>1, TailDistinct, QueuedOnceLists DEF WorkerPops
<1>3. isInQueue[c]
  BY <1>1, <1>2, QueuedOnceLists
<1>4. /\ isInQueue' = [isInQueue EXCEPT ![c] = FALSE]
      /\ wpc = "scan" /\ wpc' = "invoke" /\ current' = c
      /\ UNCHANGED <<cli, owed>>
  BY DEF WorkerPops, userVars
<1> HIDE DEF c
<1>5. ASSUME NEW d \in Commands
      PROVE  owed'[d] = Count(isInQueue'[d]) + Count(Executing(d)')
                          + Count(cli'[d] = "cancelclb")
  <2>1. owed[d] = Count(isInQueue[d]) + Count(Executing(d))
                    + Count(cli[d] = "cancelclb")
    BY DEF CompletedInv, CompletedOnce
  <2>2. ~Executing(d) /\ (Executing(d)' <=> d = c)
    BY <1>4 DEF Executing
  <2>3. CASE d = c
    <3>1. ~isInQueue'[d] /\ isInQueue[d]
      BY <1>3, <1>4, <2>3 DEF TypeOK
    <3> QED BY <1>4, <2>1, <2>2, <2>3, <3>1 DEF Count
  <2>4. CASE d # c
    <3>1. isInQueue'[d] = isInQueue[d]
      BY <1>4, <2>4 DEF TypeOK
    <3> QED BY <1>4, <2>1, <2>2, <2>4, <3>1 DEF Count
  <2> QED BY <2>3, <2>4
<1>6. UserInv'
  BY <1>4 DEF CompletedInv, UserInv
<1> QED BY <1>5, <1>6 DEF CompletedInv, CompletedOnce

\* The worker calls the callback.
LEMMA CompletePays ==
  ASSUME TypeOK, WorkerInv, CompletedInv, WorkerCompletes
  PROVE  CompletedInv'
<1>1. /\ wpc = "complete" /\ wpc' = "clear" /\ current \in Commands
      /\ owed' = [owed EXCEPT ![current] = @ - 1]
      /\ UNCHANGED isInQueue
  BY DEF WorkerCompletes, WorkerInv, TypeOK, szrVars
<1>2. ASSUME NEW d \in Commands
      PROVE  cli'[d] = "cancelclb" <=> cli[d] = "cancelclb"
  BY DEF WorkerCompletes, CompletedInv, UserInv, TypeOK
<1>3. ASSUME NEW d \in Commands
      PROVE  owed'[d] = Count(isInQueue'[d]) + Count(Executing(d)')
                          + Count(cli'[d] = "cancelclb")
  <2>1. owed[d] = Count(isInQueue[d]) + Count(Executing(d))
                    + Count(cli[d] = "cancelclb")
    BY DEF CompletedInv, CompletedOnce
  <2>2. ~Executing(d)' /\ (Executing(d) <=> d = current)
    BY <1>1 DEF Executing
  <2>3. CASE d = current
    <3>1. owed'[d] = owed[d] - 1
      BY <1>1, <2>3 DEF TypeOK
    <3> QED BY <1>1, <1>2, <2>1, <2>2, <2>3, <3>1 DEF Count
  <2>4. CASE d # current
    <3>1. owed'[d] = owed[d]
      BY <1>1, <2>4 DEF TypeOK
    <3> QED BY <1>1, <1>2, <2>1, <2>2, <2>4, <3>1 DEF Count
  <2> QED BY <2>3, <2>4
<1>4. UserInv'
  BY <1>2 DEF CompletedInv, UserInv, Commands
<1> QED BY <1>3, <1>4 DEF CompletedInv, CompletedOnce

\* One step of any thread keeps the account of callbacks.
LEMMA CompletedStep ==
  ASSUME TypeOK, QueuedOnce, WorkerInv, CompletedInv, [Next]_vars
  PROVE  CompletedInv'
<1>1. CASE UNCHANGED <<isInQueue, owed, cli, wpc, current>>
  BY <1>1, QuietStep DEF Executing
<1>2. CASE WorkerWakes \/ WorkerChecksStop \/ WorkerResets \/ WorkerFindsEmpty
           \/ WorkerInvokes \/ WorkerClears
  <2>1. /\ UNCHANGED <<isInQueue, owed, cli>>
        /\ \/ wpc \in {"invoke", "complete"} /\ wpc' \in {"invoke", "complete"}
              /\ current' = current
           \/ wpc \notin {"invoke", "complete"} /\ wpc' \notin {"invoke", "complete"}
    BY <1>2 DEF WorkerWakes, WorkerChecksStop, WorkerResets, BeginScan,
       WorkerFindsEmpty, WorkerInvokes, WorkerClears, szrVars, userVars
  <2> QED BY <2>1, QuietStep DEF Executing
<1>3. CASE WorkerPops
  BY <1>3, PopOwes
<1>4. CASE WorkerCompletes
  BY <1>4, CompletePays
<1>5. CASE StartThread \/ StopJoins
  <2>1. /\ UNCHANGED <<isInQueue, owed, cli>>
        /\ wpc \notin {"invoke", "complete"} /\ wpc' \notin {"invoke", "complete"}
    BY <1>5 DEF StartThread, StopJoins, WorkerInv, szrVars, userVars
  <2> QED BY <2>1, QuietStep DEF Executing
<1>6. CASE StartProcessing \/ StopProcessing \/ StopReleases
           \/ StopDrained \/ StopFlags \/ StopNotifies
  BY <1>1, <1>6 DEF StartProcessing, StopProcessing, StopReleases, StopDrained,
     StopFlags, StopNotifies, szrVars, workVars, userVars
<1>7. ASSUME NEW c \in Commands, NEW p \in Priorities,
             ExecuteAsync(c, p) \/ ExecuteBlocked(c, p)
      PROVE  CompletedInv'
  <2>1. Enqueue(c, p)
    BY <1>7 DEF ExecuteAsync, ExecuteBlocked
  <2>2. \A d \in Commands : cli'[d] = "cancelclb" <=> cli[d] = "cancelclb"
    BY <1>7 DEF ExecuteAsync, ExecuteBlocked, TypeOK
  <2> QED BY <2>1, <2>2, EnqueueOwes
<1>8. ASSUME NEW c \in Commands,
             ExecuteAsyncRefused(c)
      PROVE  CompletedInv'
  BY <1>1, <1>8 DEF ExecuteAsyncRefused, szrVars, workVars
<1>9. ASSUME NEW c \in Commands,
             \/ ExecuteBlockedRefused(c) \/ BlockedWakes(c)
             \/ BlockedTimesOut(c) \/ BlockedCannotCancel(c)
      PROVE  CompletedInv'
  <2>1. \A d \in Commands : cli'[d] = "cancelclb" <=> cli[d] = "cancelclb"
    BY <1>9 DEF ExecuteBlockedRefused, BlockedWakes, BlockedTimesOut,
       BlockedCannotCancel, Return, TypeOK
  <2>2. UNCHANGED <<isInQueue, owed, wpc, current>>
    BY <1>9 DEF ExecuteBlockedRefused, BlockedWakes, BlockedTimesOut,
       BlockedCannotCancel, szrVars, workVars
  <2> QED BY <2>1, <2>2, QuietStep DEF Executing
<1>10. ASSUME NEW c \in Commands, BlockedCancels(c)
       PROVE  CompletedInv'
  <2>1. /\ c \in Commands \ Heap
        /\ Cancel(c)
        /\ cli[c] # "cancelclb"
        /\ cli' = [cli EXCEPT ![c] = "cancelclb"]
        /\ owed' = owed
    BY <1>10, CommandsAssumption DEF BlockedCancels
  <2> QED BY <2>1, CancelOwes
<1>11. ASSUME NEW c \in Commands, BlockedCancelClb(c)
       PROVE  CompletedInv'
  <2>1. /\ cli[c] = "cancelclb"
        /\ cli' = [cli EXCEPT ![c] = "idle"]
        /\ owed' = [owed EXCEPT ![c] = @ - 1]
        /\ UNCHANGED <<isInQueue, wpc, current>>
    BY <1>11 DEF BlockedCancelClb, Return, szrVars, workVars
  <2> QED BY <2>1, CancelClbPays
<1>12. CASE UNCHANGED vars
  BY <1>1, <1>12 DEF vars, szrVars, workVars, userVars
<1> QED
  BY <1>2, <1>3, <1>4, <1>5, <1>6, <1>7, <1>8, <1>9, <1>10, <1>11, <1>12
  DEF Next, Worker, Control, UserReturns, UserCalls

\* Every accepted enqueue is answered by exactly one completion callback.
THEOREM CompletedOnceCorrect == Spec => []CompletedOnce
<1>1. Init => CompletedInv
  BY DEF Init, CompletedInv, CompletedOnce, UserInv, Executing, Count, Commands
<1>2. TypeOK /\ QueuedOnce /\ WorkerInv /\ CompletedInv /\ [Next]_vars
        => CompletedInv'
  BY CompletedStep
<1>3. CompletedInv => CompletedOnce
  BY DEF CompletedInv
<1> QED
  BY <1>1, <1>2, <1>3, TypeCorrect, QueuedOnceCorrect, WorkerCorrect, PTL
  DEF Spec
-----------------------------------------------------------------------------
(***************************************************************************)
(* Blocked execution.  A command that is queued or runs has a thread that    *)
(* waits for it, and what that thread will return is settled by done and     *)
(* ran together.                                                            *)
(***************************************************************************)
Waits == {"wait", "timedout", "waitinf"}

\* What is known of a blocked command, by where it is: on a list, with the
\* worker, awaited, in its canceller's hands, returned.
BlockedOK(c) ==
  /\ cli[c] # "live"
  /\ isInQueue[c] => cli[c] \in {"wait", "timedout"} /\ ~ran[c]
  /\ isInQueue[c] \/ Executing(c) => done[c] = "no"
  /\ Executing(c) => /\ cli[c] \in Waits
                     /\ ~isInQueue[c]
                     /\ ran[c] <=> wpc = "complete"
  /\ cli[c] \in Waits => /\ done[c] # "CANCELED"
                         /\ done[c] = "EXECUTED" => ran[c]
  /\ cli[c] = "cancelclb" => ~ran[c]
  /\ cli[c] = "idle" => /\ ret[c] = "OK" => ran[c]
                        /\ ret[c] \in {"TIMEOUT", "CANCELED"} => ~ran[c]

BlockedInv == \A c \in Blocked : BlockedOK(c)

\* What concerns one command is left alone.
LEMMA BlockedQuiet ==
  ASSUME NEW c, BlockedOK(c),
         isInQueue'[c] = isInQueue[c], cli'[c] = cli[c], done'[c] = done[c],
         ran'[c] = ran[c], ret'[c] = ret[c],
         Executing(c)' <=> Executing(c),
         Executing(c) => (wpc' = "complete" <=> wpc = "complete")
  PROVE  BlockedOK(c)'
BY DEF BlockedOK

\* The worker's steps.
LEMMA BlockedWorker ==
  ASSUME TypeOK, QueuedOnce, WorkerInv, BlockedInv, Worker, NEW c \in Blocked
  PROVE  BlockedOK(c)'
<1>0. c \in Commands /\ BlockedOK(c) /\ c # NoCmd /\ c \notin Heap
  BY CommandsAssumption DEF Commands, BlockedInv
<1>1. CASE WorkerWakes \/ WorkerChecksStop \/ WorkerResets \/ WorkerFindsEmpty
           \/ WorkerClears
  <2>1. /\ UNCHANGED <<isInQueue, cli, done, ran, ret>>
        /\ wpc \notin {"invoke", "complete"} /\ wpc' \notin {"invoke", "complete"}
    BY <1>1 DEF WorkerWakes, WorkerChecksStop, WorkerResets, BeginScan,
       WorkerFindsEmpty, WorkerClears, szrVars, userVars
  <2>2. ~Executing(c) /\ ~Executing(c)'
    BY <2>1 DEF Executing
  <2> QED BY <1>0, <2>1, <2>2, BlockedQuiet
<1>2. CASE WorkerPops
  <2> DEFINE h == Head(commands[wi])
  <2>1. wi \in Priorities /\ commands[wi] \in Seq(Commands) /\ h \in Commands
    BY <1>2, WorkerPopsType DEF TypeOK
  <2>2. In(h, commands[wi])
    BY <1>2, <2>1, TailDistinct, QueuedOnceLists DEF WorkerPops
  <2>3. isInQueue[h]
    BY <2>1, <2>2, QueuedOnceLists
  <2>4. /\ isInQueue' = [isInQueue EXCEPT ![h] = FALSE]
        /\ wpc = "scan" /\ wpc' = "invoke" /\ current' = h
        /\ UNCHANGED <<cli, done, ran, ret>>
    BY <1>2 DEF WorkerPops, userVars
  <2> HIDE DEF h
  <2>5. CASE c = h
    <3>1. isInQueue[c] /\ ~isInQueue'[c]
      BY <1>0, <2>3, <2>4, <2>5 DEF TypeOK
    <3> QED BY <1>0, <2>4, <3>1 DEF BlockedOK, Executing, Waits
  <2>6. CASE c # h
    <3>1. isInQueue'[c] = isInQueue[c] /\ ~Executing(c) /\ ~Executing(c)'
      BY <1>0, <2>4, <2>6 DEF TypeOK, Executing
    <3> QED BY <1>0, <2>4, <3>1, BlockedQuiet
  <2> QED BY <2>5, <2>6
<1>3. CASE WorkerInvokes
  <2>1. /\ wpc = "invoke" /\ wpc' = "complete"
        /\ ran' = [ran EXCEPT ![current] = TRUE]
        /\ UNCHANGED <<isInQueue, current, cli, done, ret>>
    BY <1>3 DEF WorkerInvokes, szrVars
  <2>2. CASE c = current
    <3>1. ran'[c] /\ Executing(c) /\ Executing(c)'
      BY <1>0, <2>1, <2>2 DEF TypeOK, Executing
    <3> QED BY <1>0, <2>1, <3>1 DEF BlockedOK, Waits
  <2>3. CASE c # current
    <3>1. ran'[c] = ran[c] /\ ~Executing(c) /\ ~Executing(c)'
      BY <1>0, <2>1, <2>3 DEF TypeOK, Executing
    <3> QED BY <1>0, <2>1, <3>1, BlockedQuiet
  <2> QED BY <2>2, <2>3
<1>4. CASE WorkerCompletes
  <2>1. /\ wpc = "complete" /\ wpc' = "clear"
        /\ cli'[c] = cli[c]
        /\ c # current => done'[c] = done[c]
        /\ c = current => done'[c] = "EXECUTED"
        /\ UNCHANGED <<isInQueue, current, ran, ret>>
    BY <1>0, <1>4 DEF WorkerCompletes, szrVars, TypeOK
  <2>2. ~Executing(c)'
    BY <2>1 DEF Executing
  <2>3. CASE c = current
    <3>1. Executing(c)
      BY <2>1, <2>3 DEF Executing
    <3> QED BY <1>0, <2>1, <2>2, <2>3, <3>1 DEF BlockedOK, Waits
  <2>4. CASE c # current
    <3>1. ~Executing(c)
      BY <2>4 DEF Executing
    <3> QED BY <1>0, <2>1, <2>2, <2>4, <3>1, BlockedQuiet
  <2> QED BY <2>3, <2>4
<1> QED BY <1>1, <1>2, <1>3, <1>4 DEF Worker

\* The control thread's steps.
LEMMA BlockedControl ==
  ASSUME WorkerInv, BlockedInv, Control, NEW c \in Blocked
  PROVE  BlockedOK(c)'
<1>1. UNCHANGED <<isInQueue, current, cli, done, ran, ret>>
  BY DEF Control, StartThread, StartProcessing, StopProcessing, StopReleases,
     StopDrained, StopFlags, StopNotifies, StopJoins, szrVars, userVars
<1>2. \/ wpc' = wpc
      \/ wpc \notin {"invoke", "complete"} /\ wpc' \notin {"invoke", "complete"}
  BY DEF Control, StartThread, StartProcessing, StopProcessing, StopReleases,
     StopDrained, StopFlags, StopNotifies, StopJoins, workVars, WorkerInv
<1>3. (Executing(c)' <=> Executing(c))
      /\ (Executing(c) => (wpc' = "complete" <=> wpc = "complete"))
  BY <1>1, <1>2 DEF Executing
<1> QED BY <1>1, <1>3, BlockedQuiet DEF BlockedInv

\* The steps of a user of command d leave other commands alone, and concern a
\* blocked command in one of eight ways.
LEMMA BlockedUser ==
  ASSUME TypeOK, BlockedInv, NEW d \in Commands, UserReturns(d) \/ UserCalls(d),
         NEW c \in Blocked
  PROVE  BlockedOK(c)'
<1>0. c \in Commands /\ BlockedOK(c)
  BY DEF Commands, BlockedInv
<1>1. UNCHANGED <<wpc, current>>
  BY DEF UserReturns, UserCalls, BlockedWakes, BlockedTimesOut, BlockedCancels,
     BlockedCannotCancel, BlockedCancelClb, ExecuteAsync,
     ExecuteBlocked, ExecuteAsyncRefused, ExecuteBlockedRefused, Enqueue, Cancel, szrVars, workVars
<1>2. /\ Executing(c)' <=> Executing(c)
      /\ wpc' = "complete" <=> wpc = "complete"
  BY <1>1 DEF Executing
<1>3. CASE c # d
  <2>1. isInQueue'[c] = isInQueue[c] /\ ran'[c] = ran[c]
    BY <1>0, <1>3
    DEF TypeOK, UserReturns, UserCalls, BlockedWakes, BlockedTimesOut,
     BlockedCancels, BlockedCannotCancel, BlockedCancelClb,
     ExecuteAsync, ExecuteBlocked, ExecuteAsyncRefused,
     ExecuteBlockedRefused, Enqueue, Cancel,
     szrVars
  <2>2. cli'[c] = cli[c] /\ done'[c] = done[c] /\ ret'[c] = ret[c]
    BY <1>0, <1>3
    DEF TypeOK, UserReturns, UserCalls, BlockedWakes, BlockedTimesOut,
     BlockedCancels, BlockedCannotCancel, BlockedCancelClb,
     ExecuteAsync, ExecuteBlocked, ExecuteAsyncRefused,
     ExecuteBlockedRefused, Return
  <2> QED BY <1>0, <1>2, <2>1, <2>2, BlockedQuiet
<1>4. CASE c = d
  <2>0. d \in Blocked /\ d \notin Heap
    BY <1>4, CommandsAssumption
  <2>1. ASSUME NEW p \in Priorities, ExecuteBlocked(d, p)
        PROVE  BlockedOK(c)'
    <3>1. cli[c] = "idle" /\ ~isInQueue[c]
      BY <1>4, <2>1 DEF ExecuteBlocked, Enqueue, EnqueueAnswer
    <3>2. ~Executing(c)
      BY <1>0, <3>1 DEF BlockedOK, Waits
    <3>3. /\ cli'[c] = "wait" /\ done'[c] = "no" /\ ~ran'[c]
      BY <1>0, <1>4, <2>1 DEF ExecuteBlocked, Enqueue, TypeOK
    <3> QED BY <1>2, <3>2, <3>3 DEF BlockedOK, Waits
  <2>2. CASE ExecuteBlockedRefused(d)
    <3>1. /\ cli[c] = "idle" /\ cli'[c] = "idle"
          /\ ret'[c] \in {"NOT_READY", "BUSY"}
          /\ UNCHANGED <<isInQueue, done, ran>>
      BY <1>0, <1>4, <2>2
      DEF ExecuteBlockedRefused, EnqueueAnswer, Return, TypeOK, szrVars
    <3> QED BY <1>0, <1>2, <3>1 DEF BlockedOK, Waits
  <2>3. CASE BlockedWakes(d)
    <3>1. /\ cli[c] \in Waits /\ cli'[c] = "idle" /\ done[c] # "no"
          /\ ret'[c] = ResultOf(c)
          /\ UNCHANGED <<isInQueue, done, ran>>
      BY <1>0, <1>4, <2>3 DEF BlockedWakes, Return, TypeOK, szrVars, Waits
    <3>2. done[c] = "EXECUTED" /\ ran[c] /\ ~isInQueue[c] /\ ~Executing(c)
      BY <1>0, <3>1 DEF BlockedOK, TypeOK
    <3>3. ret'[c] = "OK"
      BY <3>1, <3>2 DEF ResultOf
    <3> QED BY <1>2, <3>1, <3>2, <3>3 DEF BlockedOK, Waits
  <2>4. CASE BlockedTimesOut(d)
    <3>1. /\ cli[c] = "wait" /\ cli'[c] = "timedout"
          /\ UNCHANGED <<isInQueue, done, ran, ret>>
      BY <1>0, <1>4, <2>4 DEF BlockedTimesOut, TypeOK, szrVars
    <3> QED BY <1>0, <1>2, <3>1 DEF BlockedOK, Waits
  <2>5. CASE BlockedCancels(d)
    <3>1. /\ cli'[c] = "cancelclb" /\ isInQueue[c] /\ ~isInQueue'[c]
          /\ UNCHANGED <<done, ran, ret>>
      BY <1>0, <1>4, <2>5 DEF BlockedCancels, Cancel, TypeOK
    <3>2. ~Executing(c) /\ ~ran[c]
      BY <1>0, <3>1 DEF BlockedOK
    <3> QED BY <1>2, <3>1, <3>2 DEF BlockedOK, Waits
  <2>6. CASE BlockedCannotCancel(d)
    <3>1. /\ cli[c] = "timedout" /\ cli'[c] = "waitinf" /\ ~isInQueue[c]
          /\ UNCHANGED <<isInQueue, done, ran, ret>>
      BY <1>0, <1>4, <2>6 DEF BlockedCannotCancel, TypeOK, szrVars
    <3> QED BY <1>0, <1>2, <3>1 DEF BlockedOK, Waits
  <2>7. CASE BlockedCancelClb(d)
    <3>1. /\ cli[c] = "cancelclb" /\ cli'[c] = "idle" /\ ret'[c] = "TIMEOUT"
          /\ UNCHANGED <<isInQueue, ran>>
      BY <1>0, <1>4, <2>7 DEF BlockedCancelClb, Return, TypeOK, szrVars
    <3>2. ~isInQueue[c] /\ ~Executing(c) /\ ~ran[c]
      BY <1>0, <3>1 DEF BlockedOK, Waits
    <3> QED BY <1>2, <3>1, <3>2 DEF BlockedOK, Waits
  <2> QED
    BY <2>0, <2>1, <2>2, <2>3, <2>4, <2>5, <2>6, <2>7
    DEF UserReturns, UserCalls, ExecuteAsync,
     ExecuteAsyncRefused
<1> QED BY <1>3, <1>4

\* What mtlk_serializer_execute_blocked returned tells the truth, and its stack
\* frame is on no list once it has returned, for any number of commands.
THEOREM BlockedOutcomeCorrect == Spec => []BlockedOutcome
<1>1. Init => BlockedInv
  BY DEF Init, BlockedInv, BlockedOK, Executing, Waits, Commands
<1>2. TypeOK /\ QueuedOnce /\ WorkerInv /\ BlockedInv /\ [Next]_vars
        => BlockedInv'
  <2> SUFFICES ASSUME TypeOK, QueuedOnce, WorkerInv, BlockedInv, [Next]_vars,
                      NEW c \in Blocked
               PROVE  BlockedOK(c)'
    BY DEF BlockedInv
  <2>1. CASE UNCHANGED vars
    <3>1. UNCHANGED <<isInQueue, current, wpc, cli, done, ran, ret>>
      BY <2>1 DEF vars, szrVars, workVars, userVars
    <3> QED BY <3>1, BlockedQuiet DEF BlockedInv, Executing
  <2> QED
    BY <2>1, BlockedWorker, BlockedControl, BlockedUser DEF Next
<1>3. BlockedInv => BlockedOutcome
  BY DEF BlockedInv, BlockedOK, BlockedOutcome, Waits
<1> QED
  BY <1>1, <1>2, <1>3, TypeCorrect, QueuedOnceCorrect, WorkerCorrect, PTL
  DEF Spec

-----------------------------------------------------------------------------
(***************************************************************************)
(* Priorities.  While the worker looks for work, the commands that were      *)
(* queued when it began are still queued, none above where it looks now.    *)
(***************************************************************************)
ScanInv ==
  wpc \in {"scan", "invoke"} =>
    \A c \in atScan : isInQueue[c] /\ prio[c] <= wi

\* One step of any thread keeps it.
LEMMA ScanStep ==
  ASSUME TypeOK, QueuedOnce, WorkerInv, ScanInv, [Next]_vars
  PROVE  ScanInv'
<1>1. CASE UNCHANGED <<isInQueue, prio, wpc, wi, atScan>>
  BY <1>1 DEF ScanInv
<1>2. ASSUME NEW c \in Commands, NEW p \in Priorities, Enqueue(c, p)
      PROVE  ScanInv'
  <2>1. /\ ~isInQueue[c] /\ UNCHANGED <<wpc, wi, atScan>>
        /\ isInQueue' = [isInQueue EXCEPT ![c] = TRUE]
        /\ prio' = [prio EXCEPT ![c] = p]
    BY <1>2 DEF Enqueue, EnqueueAnswer, workVars
  <2> QED BY <2>1 DEF ScanInv, TypeOK
<1>3. ASSUME NEW c \in Commands, Cancel(c)
      PROVE  ScanInv'
  <2>1. /\ UNCHANGED <<wpc, wi, prio>> /\ atScan' = atScan \ {c}
        /\ isInQueue' = [isInQueue EXCEPT ![c] = FALSE]
    BY <1>3 DEF Cancel
  <2> QED BY <2>1 DEF ScanInv, TypeOK
<1>4. CASE WorkerPops
  <2> DEFINE h == Head(commands[wi])
  <2>1. /\ wpc = "scan" /\ UNCHANGED <<wi, prio>> /\ atScan' = atScan \ {h}
        /\ isInQueue' = [isInQueue EXCEPT ![h] = FALSE]
    BY <1>4 DEF WorkerPops
  <2> HIDE DEF h
  <2> QED BY <2>1 DEF ScanInv, TypeOK
<1>5. CASE WorkerFindsEmpty
  <2>1. /\ wpc = "scan" /\ commands[wi] = <<>>
        /\ UNCHANGED <<isInQueue, prio, atScan>>
        /\ \/ wpc' = "wait"
           \/ wi' = wi - 1
    BY <1>5 DEF WorkerFindsEmpty, szrVars
  <2>2. wi \in Priorities /\ ~\E c \in Commands : InList(c, wi)
    BY <2>1 DEF TypeOK, InList
  <2>3. ASSUME NEW c \in atScan PROVE isInQueue[c] /\ prio[c] <= wi - 1
    <3>1. c \in Commands /\ isInQueue[c] /\ prio[c] <= wi /\ prio[c] \in Int
      BY <2>1, PrioritiesAssumption DEF ScanInv, TypeOK, Priorities
    <3>2. prio[c] # wi
      BY <2>2, <3>1 DEF QueuedOnce
    <3>3. wi \in Int
      BY <2>2, PrioritiesAssumption DEF Priorities
    <3> QED BY <3>1, <3>2, <3>3
  <2> QED BY <2>1, <2>3 DEF ScanInv
<1>6. CASE WorkerResets \/ WorkerClears
  <2>1. /\ UNCHANGED <<isInQueue, prio>> /\ wi' = NumPriorities - 1
        /\ atScan' = Pending
    BY <1>6 DEF WorkerResets, WorkerClears, BeginScan, szrVars
  <2>2. \A c \in Commands : prio[c] <= NumPriorities - 1
    BY PrioritiesAssumption DEF TypeOK, Priorities
  <2> QED BY <2>1, <2>2 DEF ScanInv, Pending
<1>7. CASE WorkerWakes \/ WorkerChecksStop \/ WorkerInvokes \/ WorkerCompletes
  <2>1. wpc' \notin {"scan", "invoke"}
    BY <1>7 DEF WorkerWakes, WorkerChecksStop, WorkerInvokes, WorkerCompletes
  <2> QED BY <2>1 DEF ScanInv
<1>8. CASE Control
  <2>1. /\ UNCHANGED <<isInQueue, prio, wi, atScan>>
        /\ wpc' = wpc \/ wpc' \in {"wait", "none"}
    BY <1>8 DEF Control, StartThread, StartProcessing, StopProcessing,
       StopReleases, StopDrained, StopFlags, StopNotifies, StopJoins, szrVars,
       workVars
  <2> QED BY <2>1 DEF ScanInv
<1>9. ASSUME NEW c \in Commands, UserReturns(c) \/ UserCalls(c)
      PROVE  \/ \E p \in Priorities : Enqueue(c, p)
             \/ Cancel(c)
             \/ UNCHANGED <<isInQueue, prio, wpc, wi, atScan>>
  BY <1>9 DEF UserReturns, UserCalls, BlockedWakes, BlockedTimesOut,
     BlockedCancels, BlockedCannotCancel, BlockedCancelClb,
     ExecuteAsync, ExecuteBlocked, ExecuteAsyncRefused,
     ExecuteBlockedRefused, szrVars, workVars
<1>10. CASE UNCHANGED vars
  BY <1>1, <1>10 DEF vars, szrVars, workVars
<1> QED
  BY <1>1, <1>2, <1>3, <1>4, <1>5, <1>6, <1>7, <1>8, <1>9, <1>10
  DEF Next, Worker

\* Commands run with respect to their priority: what was queued when the worker
\* began to look is not overtaken by a command of a lower priority, for any
\* number of priorities and commands.
THEOREM PriorityRespectedCorrect == Spec => []PriorityRespected
<1>1. Init => ScanInv
  BY DEF Init, ScanInv
<1>2. TypeOK /\ QueuedOnce /\ WorkerInv /\ ScanInv /\ [Next]_vars => ScanInv'
  BY ScanStep
<1>3. ScanInv => PriorityRespected
  BY DEF ScanInv, PriorityRespected
<1> QED
  BY <1>1, <1>2, <1>3, TypeCorrect, QueuedOnceCorrect, WorkerCorrect, PTL
  DEF Spec
=============================================================================
