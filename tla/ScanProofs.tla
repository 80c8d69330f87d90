----------------------------- MODULE ScanProofs -----------------------------
(***************************************************************************)
(* Proofs about the scanner, for any number of requests a band needs.       *)
(***************************************************************************)
EXTENDS Scan, TLAPS

USE DEF Accepts

(***************************************************************************)
(* The inductive invariant.                                                 *)
(***************************************************************************)
\* The requests a band still needs: one more may come with a hidden BSS, and
\* the worker sends one only when one is left.
LeftInv ==
  /\ hidden => left <= MaxChunks
  /\ wpc = "chunk" /\ Alive => left > 0

\* The scan has its first band once the progmodels are loaded.
Begun ==
  \/ async \/ timer \/ chunk_event \/ "confirm" \in queue \/ "pause" \in queue
  \/ wpc \in {"band", "chunk", "confirmed", "proceed", "elapsed"}

BandInv == Begun => cur_band \in Bands

\* The unloading thread: what it has marked, and what it has stopped.
Stopped == {"cleanup", "mark2", "wait2", "release", "down"}
UnloadInv ==
  /\ rpc # "up" => is_stopping
  /\ rpc \in {"complete", "finish"} => net_state = "HALTED"
  /\ serial <=> rpc \notin Stopped
  /\ ~serial => wpc = "idle"

\* The worker is inside a scan that it began or goes on with.
InScan == wpc \in {"reset", "event", "preload", "band", "chunk", "complete",
                   "confirmed", "proceed", "elapsed"}

\* A scan that runs is in one place: with the worker, with the MAC, in a pause,
\* or on its way from there to the worker.
OnePlace ==
  /\ InScan => ~async /\ ~timer /\ ~chunk_event
  /\ InScan => "confirm" \notin queue /\ "pause" \notin queue
  /\ async => ~timer /\ ~chunk_event
  /\ async => "confirm" \notin queue /\ "pause" \notin queue
  /\ timer => ~chunk_event
  /\ timer => "confirm" \notin queue /\ "pause" \notin queue
  /\ chunk_event => "confirm" \notin queue /\ "pause" \notin queue
  /\ ~("confirm" \in queue /\ "pause" \in queue)

Running ==
  /\ InScan \/ async \/ timer \/ chunk_event => is_running
  /\ "confirm" \in queue \/ "pause" \in queue => is_running
  /\ wpc \in {"check", "xchg", "finish"} => ~is_running
  /\ is_running /\ wpc \notin {"reset", "event"} => ~completed
  /\ wpc = "syncwait" /\ ~completed => is_running

\* A synchronous scan keeps the worker; the tasks belong to the others.
Synchronous ==
  /\ wpc = "idle" <=> task = "none"
  /\ wpc = "syncwait" => task = "sync"
  /\ wpc \in {"event", "preload", "band", "chunk", "complete", "finish",
              "confirmed", "proceed", "elapsed", "syncwait"} =>
       (is_synchronous <=> task = "sync")
  /\ async \/ timer \/ "pause" \in queue =>
       (is_synchronous <=> wpc = "syncwait")
  /\ chunk_event => is_synchronous /\ wpc = "syncwait"
  /\ "confirm" \in queue => ~is_synchronous /\ wpc # "syncwait"

\* The progmodels of both bands, or of the one of a synchronous scan, are there
\* until complete_or_continue.
Progmodels ==
  is_running /\ wpc \notin {"reset", "event", "preload"} =>
    \/ /\ FirstBand \in progmodels
       /\ SecondBand \in progmodels \cup {None}
       /\ cur_band \in progmodels
       /\ next_band \in progmodels \cup {None}
    \/ wpc = "complete" /\ next_band = None

\* The unloading thread completes a scan from outside when the MAC is dead;
\* until then, and until the serializer is stopped, all of this holds.
Dead == net_state = "HALTED" /\ is_stopping
ScanInv ==
  Dead \/ ~serial \/ (OnePlace /\ Running /\ Synchronous /\ Progmodels)

\* The mode of a scan of a connected station.
ModeInv ==
  /\ net_state = "CONNECTED" /\ (is_running \/ wpc \in {"check", "xchg"}) =>
       is_background
  /\ task = "sync" => net_state # "CONNECTED"

IInv == /\ TypeOK /\ LeftInv /\ BandInv /\ UnloadInv /\ ScanInv /\ ModeInv
        /\ FlowHeld /\ ServiceRestored /\ CompletedOnce

-----------------------------------------------------------------------------
(***************************************************************************)
(* The parts of the invariant, each with the actions that write a variable  *)
(* of it.                                                                   *)
(***************************************************************************)
\* Until the unloading thread has completed a scan from outside or the
\* serializer is stopped.
LEMMA Healthy ==
  ASSUME ScanInv, serial, ~Dead
  PROVE  OnePlace /\ Running /\ Synchronous /\ Progmodels
BY DEF ScanInv

\* What the unloading thread has marked and stopped.
LEMMA UnloadStep ==
  ASSUME UnloadInv, [Next]_vars
  PROVE  UnloadInv'
<1>1. CASE UNCHANGED <<rpc, is_stopping, net_state, serial, wpc>>
  BY <1>1 DEF UnloadInv, Stopped
<1>2. CASE StartScanning
  BY <1>2
  DEF StartScanning, Free, coreVars, macVars, UnloadInv, Stopped
<1>3. ASSUME NEW b \in Bands, ConnectSta(b)
      PROVE  UnloadInv'
  BY <1>3
  DEF ConnectSta, Free, Activated, Alive, UnloadInv, Stopped
<1>4. CASE DisconnectStaBlocked
  BY <1>4
  DEF DisconnectStaBlocked, Free, SendDisconnectReq, workVars, UnloadInv,
      Stopped
<1>5. CASE DisconnectSta
  BY <1>5
  DEF DisconnectSta, Alive, Free, SendDisconnectReq, scanVars, UnloadInv,
      Stopped
<1>6. CASE Deactivate
  BY <1>6
  DEF Deactivate, Free, SendDisconnectReq, workVars, UnloadInv, Stopped
<1>7. CASE DoScanCheck
  BY <1>7
  DEF DoScanCheck, Idle, scanVars, coreVars, macVars, UnloadInv, Stopped
<1>8. CASE DoScanXchg
  BY <1>8
  DEF DoScanXchg, Idle, coreVars, macVars, UnloadInv, Stopped
<1>9. CASE DoScanReset
  BY <1>9
  DEF DoScanReset, macVars, UnloadInv, Stopped
<1>10. CASE DoScanEvent
  BY <1>10
  DEF DoScanEvent, coreVars, macVars, UnloadInv, Stopped
<1>11. ASSUME NEW ok \in BOOLEAN, DoScanPreload(ok)
       PROVE  UnloadInv'
  BY <1>11
  DEF DoScanPreload, FirstBand, SecondBand, coreVars, macVars, UnloadInv,
      Stopped
<1>12. ASSUME NEW n \in 0 .. MaxChunks, ScanCurrentBand(n)
       PROVE  UnloadInv'
  BY <1>12
  DEF ScanCurrentBand, Failure, coreVars, macVars, UnloadInv, Stopped
<1>13. CASE ScanNextChunk
  BY <1>13
  DEF ScanNextChunk, Alive, Return, coreVars, Idle, UnloadInv, Stopped
<1>14. ASSUME NEW slept \in BOOLEAN, NEW woken \in BOOLEAN,
              ScanNextChunkFails(slept, woken)
       PROVE  UnloadInv'
  BY <1>14
  DEF ScanNextChunkFails, Alive, Failure, StartDataOnError, coreVars,
      UnloadInv, Stopped
<1>15. CASE CompleteOrContinue
  BY <1>15
  DEF CompleteOrContinue, Complete, coreVars, macVars, UnloadInv, Stopped
<1>16. CASE CompleteFinish
  BY <1>16
  DEF CompleteFinish, Return, SignalCompleted, coreVars, macVars, Idle,
      UnloadInv, Stopped
<1>17. CASE SyncDone
  BY <1>17
  DEF SyncDone, Idle, Activated, scanVars, Alive, UnloadInv, Stopped
<1>18. CASE SyncChunk
  BY <1>18
  DEF SyncChunk, coreVars, macVars, UnloadInv, Stopped
<1>19. CASE ScanUnconfirmed
  BY <1>19
  DEF ScanUnconfirmed, coreVars, macVars, UnloadInv, Stopped
<1>20. ASSUME NEW back \in SwitchResults, NEW woken \in Outcomes,
              ScanConfirmed(back, woken)
       PROVE  UnloadInv'
  BY <1>20
  DEF ScanConfirmed, SwitchBackProgmodel, scanVars, coreVars, UnloadInv,
      Stopped
<1>21. CASE ScanProceed
  BY <1>21
  DEF ScanProceed, Return, coreVars, macVars, Idle, UnloadInv, Stopped
<1>22. CASE PauseElapsed
  BY <1>22
  DEF PauseElapsed, SetupScanSequence, macVars, FirstBand, SecondBand,
      UnloadInv, Stopped
<1>23. ASSUME NEW t \in queue, TakeTask(t)
       PROVE  UnloadInv'
  BY <1>23
  DEF TakeTask, Free, scanVars, coreVars, macVars, UnloadInv, Stopped
<1>24. CASE HandleDisconnectMe
  BY <1>24
  DEF HandleDisconnectMe, Free, SendDisconnectReq, scanVars, UnloadInv,
      Stopped
<1>25. CASE PrepareStopLook
  BY <1>25
  DEF PrepareStopLook, Alive, scanVars, coreVars, macVars, workVars,
      UnloadInv, Stopped
<1>26. CASE StopComplete
  BY <1>26
  DEF StopComplete, Complete, coreVars, macVars, workVars, UnloadInv, Stopped
<1>27. CASE StopFinish
  BY <1>27
  DEF StopFinish, coreVars, macVars, workVars, UnloadInv, Stopped
<1>28. CASE Terminate("mark", "wait")
  BY <1>28
  DEF Terminate, coreVars, macVars, workVars, UnloadInv, Stopped
<1>29. CASE WaitCompletion
  BY <1>29
  DEF WaitCompletion, scanVars, macVars, workVars, UnloadInv, Stopped
<1>30. CASE StopSerializer
  BY <1>30
  DEF StopSerializer, scanVars, coreVars, macVars, UnloadInv, Stopped
<1>31. CASE CleanupLook
  BY <1>31
  DEF CleanupLook, scanVars, coreVars, macVars, workVars, UnloadInv, Stopped
<1>32. CASE Terminate("mark2", "wait2")
  BY <1>32
  DEF Terminate, coreVars, macVars, workVars, UnloadInv, Stopped
<1>33. CASE Cleanup
  BY <1>33
  DEF Cleanup, ScanCfmClb, coreVars, macVars, ScheduleTask, UnloadInv,
      Stopped
<1>34. CASE MacHalts
  BY <1>34
  DEF MacHalts, Alive, scanVars, macVars, workVars, UnloadInv, Stopped
<1>35. CASE PrepareStop
  BY <1>35
  DEF PrepareStop, scanVars, macVars, workVars, UnloadInv, Stopped
<1>36. CASE StopProcessing
  BY <1>36
  DEF StopProcessing, scanVars, coreVars, macVars, workVars, UnloadInv,
      Stopped
<1> QED
  BY <1>1, <1>2, <1>3, <1>4, <1>5, <1>6, <1>7, <1>8, <1>9, <1>10, <1>11,
     <1>12, <1>13, <1>14, <1>15, <1>16, <1>17, <1>18, <1>19, <1>20, <1>21,
     <1>22, <1>23, <1>24, <1>25, <1>26, <1>27, <1>28, <1>29, <1>30, <1>31,
     <1>32, <1>33, <1>34, <1>35, <1>36
  DEF Next, User, Work, Unload, StopProcessing, MacAnswers, PauseTimer,
      BeaconReceived, vars, scanVars, coreVars, macVars, workVars

\* A scan that runs stays in one place.
LEMMA OnePlaceStep ==
  ASSUME TypeOK, UnloadInv, ~Dead, serial, OnePlace,
         Running, Synchronous, [Next]_vars
  PROVE  OnePlace'
<1>1. CASE UNCHANGED <<async, timer, chunk_event, queue, wpc>>
  BY <1>1 DEF OnePlace, InScan
<1>2. CASE StartScanning
  BY <1>2
  DEF StartScanning, Free, coreVars, macVars, OnePlace, InScan, Running,
      Synchronous
<1>3. ASSUME NEW b \in Bands, ConnectSta(b)
      PROVE  OnePlace'
  BY <1>3
  DEF ConnectSta, Free, Activated, Alive, OnePlace, InScan, Running,
      Synchronous
<1>4. CASE DisconnectSta
  BY <1>4
  DEF DisconnectSta, Alive, Free, SendDisconnectReq, scanVars, OnePlace,
      InScan, Running, Synchronous
<1>5. CASE DoScanCheck
  BY <1>5
  DEF DoScanCheck, Idle, scanVars, coreVars, macVars, OnePlace, InScan,
      Running, Synchronous
<1>6. CASE DoScanXchg
  BY <1>6
  DEF DoScanXchg, Idle, coreVars, macVars, OnePlace, InScan, Running,
      Synchronous
<1>7. CASE DoScanReset
  BY <1>7
  DEF DoScanReset, macVars, OnePlace, InScan, Running, Synchronous
<1>8. CASE DoScanEvent
  BY <1>8
  DEF DoScanEvent, coreVars, macVars, OnePlace, InScan, Running, Synchronous
<1>9. ASSUME NEW ok \in BOOLEAN, DoScanPreload(ok)
      PROVE  OnePlace'
  BY <1>9
  DEF DoScanPreload, FirstBand, SecondBand, coreVars, macVars, OnePlace,
      InScan, Running, Synchronous
<1>10. ASSUME NEW n \in 0 .. MaxChunks, ScanCurrentBand(n)
       PROVE  OnePlace'
  BY <1>10
  DEF ScanCurrentBand, Failure, coreVars, macVars, OnePlace, InScan, Running,
      Synchronous
<1>11. CASE ScanNextChunk
  BY <1>11
  DEF ScanNextChunk, Alive, Return, coreVars, Idle, OnePlace, InScan, Running,
      Synchronous
<1>12. ASSUME NEW slept \in BOOLEAN, NEW woken \in BOOLEAN,
              ScanNextChunkFails(slept, woken)
       PROVE  OnePlace'
  BY <1>12
  DEF ScanNextChunkFails, Alive, Failure, StartDataOnError, coreVars,
      OnePlace, InScan, Running, Synchronous
<1>13. CASE CompleteOrContinue
  BY <1>13
  DEF CompleteOrContinue, Complete, coreVars, macVars, OnePlace, InScan,
      Running, Synchronous
<1>14. CASE CompleteFinish
  BY <1>14
  DEF CompleteFinish, Return, SignalCompleted, coreVars, macVars, Idle,
      OnePlace, InScan, Running, Synchronous
<1>15. CASE SyncDone
  BY <1>15
  DEF SyncDone, Idle, Activated, scanVars, Alive, OnePlace, InScan, Running,
      Synchronous
<1>16. CASE SyncChunk
  BY <1>16
  DEF SyncChunk, coreVars, macVars, OnePlace, InScan, Running, Synchronous
<1>17. CASE ScanUnconfirmed
  BY <1>17
  DEF ScanUnconfirmed, coreVars, macVars, OnePlace, InScan, Running,
      Synchronous
<1>18. ASSUME NEW back \in SwitchResults, NEW woken \in Outcomes,
              ScanConfirmed(back, woken)
       PROVE  OnePlace'
  BY <1>18
  DEF ScanConfirmed, SwitchBackProgmodel, scanVars, coreVars, OnePlace,
      InScan, Running, Synchronous
<1>19. CASE ScanProceed
  BY <1>19
  DEF ScanProceed, Return, coreVars, macVars, Idle, OnePlace, InScan, Running,
      Synchronous
<1>20. CASE PauseElapsed
  BY <1>20
  DEF PauseElapsed, SetupScanSequence, macVars, FirstBand, SecondBand,
      OnePlace, InScan, Running, Synchronous
<1>21. ASSUME NEW t \in queue, TakeTask(t)
       PROVE  OnePlace'
  BY <1>21
  DEF TakeTask, Free, scanVars, coreVars, macVars, OnePlace, InScan, Running,
      Synchronous, TypeOK, WorkTypeOK, Tasks
<1>22. CASE HandleDisconnectMe
  BY <1>22
  DEF HandleDisconnectMe, Free, SendDisconnectReq, scanVars, OnePlace, InScan,
      Running, Synchronous
<1>23. CASE StopSerializer
  BY <1>23
  DEF StopSerializer, scanVars, coreVars, macVars, OnePlace, InScan, Running,
      Synchronous
<1>24. CASE Cleanup
  BY <1>24
  DEF Cleanup, ScanCfmClb, coreVars, macVars, ScheduleTask, OnePlace, InScan,
      Running, Synchronous, UnloadInv, Stopped
<1>25. CASE MacAnswers
  BY <1>25
  DEF MacAnswers, Alive, ScanCfmClb, coreVars, macVars, ScheduleTask,
      OnePlace, InScan, Running, Synchronous
<1>26. CASE PauseTimer
  BY <1>26
  DEF PauseTimer, ScheduleTask, coreVars, macVars, OnePlace, InScan, Running,
      Synchronous
<1> QED
  BY <1>1, <1>2, <1>3, <1>4, <1>5, <1>6, <1>7, <1>8, <1>9, <1>10, <1>11,
     <1>12, <1>13, <1>14, <1>15, <1>16, <1>17, <1>18, <1>19, <1>20, <1>21,
     <1>22, <1>23, <1>24, <1>25, <1>26
  DEF Next, User, Work, Unload, StopProcessing, DisconnectStaBlocked,
      Deactivate, PrepareStopLook, StopComplete, StopFinish, Terminate,
      WaitCompletion, CleanupLook, MacHalts, PrepareStop, BeaconReceived,
      vars, scanVars, coreVars, macVars, workVars

\* Wherever a scan is, is_running is set, and its end is not signalled.
LEMMA RunningStep ==
  ASSUME TypeOK, UnloadInv, ~Dead, serial, OnePlace,
         Running, Synchronous, [Next]_vars
  PROVE  Running'
<1>1. CASE UNCHANGED <<async, timer, chunk_event, queue, wpc, is_running,
                        completed>>
  BY <1>1 DEF Running, InScan
<1>2. CASE StartScanning
  BY <1>2
  DEF StartScanning, Free, coreVars, macVars, OnePlace, InScan, Running,
      Synchronous
<1>3. ASSUME NEW b \in Bands, ConnectSta(b)
      PROVE  Running'
  BY <1>3
  DEF ConnectSta, Free, Activated, Alive, OnePlace, InScan, Running,
      Synchronous
<1>4. CASE DisconnectSta
  BY <1>4
  DEF DisconnectSta, Alive, Free, SendDisconnectReq, scanVars, OnePlace,
      InScan, Running, Synchronous
<1>5. CASE DoScanCheck
  BY <1>5
  DEF DoScanCheck, Idle, scanVars, coreVars, macVars, OnePlace, InScan,
      Running, Synchronous
<1>6. CASE DoScanXchg
  BY <1>6
  DEF DoScanXchg, Idle, coreVars, macVars, OnePlace, InScan, Running,
      Synchronous
<1>7. CASE DoScanReset
  BY <1>7
  DEF DoScanReset, macVars, OnePlace, InScan, Running, Synchronous
<1>8. CASE DoScanEvent
  BY <1>8
  DEF DoScanEvent, coreVars, macVars, OnePlace, InScan, Running, Synchronous
<1>9. ASSUME NEW ok \in BOOLEAN, DoScanPreload(ok)
      PROVE  Running'
  BY <1>9
  DEF DoScanPreload, FirstBand, SecondBand, coreVars, macVars, OnePlace,
      InScan, Running, Synchronous
<1>10. ASSUME NEW n \in 0 .. MaxChunks, ScanCurrentBand(n)
       PROVE  Running'
  BY <1>10
  DEF ScanCurrentBand, Failure, coreVars, macVars, OnePlace, InScan, Running,
      Synchronous
<1>11. CASE ScanNextChunk
  BY <1>11
  DEF ScanNextChunk, Alive, Return, coreVars, Idle, OnePlace, InScan, Running,
      Synchronous
<1>12. ASSUME NEW slept \in BOOLEAN, NEW woken \in BOOLEAN,
              ScanNextChunkFails(slept, woken)
       PROVE  Running'
  BY <1>12
  DEF ScanNextChunkFails, Alive, Failure, StartDataOnError, coreVars,
      OnePlace, InScan, Running, Synchronous
<1>13. CASE CompleteOrContinue
  BY <1>13
  DEF CompleteOrContinue, Complete, coreVars, macVars, OnePlace, InScan,
      Running, Synchronous
<1>14. CASE CompleteFinish
  BY <1>14
  DEF CompleteFinish, Return, SignalCompleted, coreVars, macVars, Idle,
      OnePlace, InScan, Running, Synchronous
<1>15. CASE SyncDone
  BY <1>15
  DEF SyncDone, Idle, Activated, scanVars, Alive, OnePlace, InScan, Running,
      Synchronous
<1>16. CASE SyncChunk
  BY <1>16
  DEF SyncChunk, coreVars, macVars, OnePlace, InScan, Running, Synchronous
<1>17. CASE ScanUnconfirmed
  BY <1>17
  DEF ScanUnconfirmed, coreVars, macVars, OnePlace, InScan, Running,
      Synchronous
<1>18. ASSUME NEW back \in SwitchResults, NEW woken \in Outcomes,
              ScanConfirmed(back, woken)
       PROVE  Running'
  BY <1>18
  DEF ScanConfirmed, SwitchBackProgmodel, scanVars, coreVars, OnePlace,
      InScan, Running, Synchronous
<1>19. CASE ScanProceed
  BY <1>19
  DEF ScanProceed, Return, coreVars, macVars, Idle, OnePlace, InScan, Running,
      Synchronous
<1>20. CASE PauseElapsed
  BY <1>20
  DEF PauseElapsed, SetupScanSequence, macVars, FirstBand, SecondBand,
      OnePlace, InScan, Running, Synchronous
<1>21. ASSUME NEW t \in queue, TakeTask(t)
       PROVE  Running'
  BY <1>21
  DEF TakeTask, Free, scanVars, coreVars, macVars, OnePlace, InScan, Running,
      Synchronous, TypeOK, WorkTypeOK, Tasks
<1>22. CASE HandleDisconnectMe
  BY <1>22
  DEF HandleDisconnectMe, Free, SendDisconnectReq, scanVars, OnePlace, InScan,
      Running, Synchronous
<1>23. CASE StopComplete
  BY <1>23
  DEF StopComplete, Complete, coreVars, macVars, workVars, OnePlace, InScan,
      Running, Synchronous, UnloadInv, Dead
<1>24. CASE StopFinish
  BY <1>24
  DEF StopFinish, coreVars, macVars, workVars, OnePlace, InScan, Running,
      Synchronous, UnloadInv, Dead
<1>25. CASE StopSerializer
  BY <1>25
  DEF StopSerializer, scanVars, coreVars, macVars, OnePlace, InScan, Running,
      Synchronous
<1>26. CASE Cleanup
  BY <1>26
  DEF Cleanup, ScanCfmClb, coreVars, macVars, ScheduleTask, OnePlace, InScan,
      Running, Synchronous, UnloadInv, Stopped
<1>27. CASE MacAnswers
  BY <1>27
  DEF MacAnswers, Alive, ScanCfmClb, coreVars, macVars, ScheduleTask,
      OnePlace, InScan, Running, Synchronous
<1>28. CASE PauseTimer
  BY <1>28
  DEF PauseTimer, ScheduleTask, coreVars, macVars, OnePlace, InScan, Running,
      Synchronous
<1> QED
  BY <1>1, <1>2, <1>3, <1>4, <1>5, <1>6, <1>7, <1>8, <1>9, <1>10, <1>11,
     <1>12, <1>13, <1>14, <1>15, <1>16, <1>17, <1>18, <1>19, <1>20, <1>21,
     <1>22, <1>23, <1>24, <1>25, <1>26, <1>27, <1>28
  DEF Next, User, Work, Unload, StopProcessing, DisconnectStaBlocked,
      Deactivate, PrepareStopLook, Terminate, WaitCompletion, CleanupLook,
      MacHalts, PrepareStop, BeaconReceived, vars, scanVars, coreVars,
      macVars, workVars

\* A synchronous scan keeps the worker.
LEMMA SynchronousStep ==
  ASSUME TypeOK, UnloadInv, ~Dead, serial, OnePlace,
         Running, Synchronous, [Next]_vars
  PROVE  Synchronous'
<1>1. CASE UNCHANGED <<async, timer, chunk_event, queue, wpc, task,
                        is_synchronous>>
  BY <1>1 DEF Synchronous
<1>2. CASE StartScanning
  BY <1>2
  DEF StartScanning, Free, coreVars, macVars, OnePlace, InScan, Running,
      Synchronous
<1>3. ASSUME NEW b \in Bands, ConnectSta(b)
      PROVE  Synchronous'
  BY <1>3
  DEF ConnectSta, Free, Activated, Alive, OnePlace, InScan, Running,
      Synchronous
<1>4. CASE DisconnectSta
  BY <1>4
  DEF DisconnectSta, Alive, Free, SendDisconnectReq, scanVars, OnePlace,
      InScan, Running, Synchronous
<1>5. CASE DoScanCheck
  BY <1>5
  DEF DoScanCheck, Idle, scanVars, coreVars, macVars, OnePlace, InScan,
      Running, Synchronous
<1>6. CASE DoScanXchg
  BY <1>6
  DEF DoScanXchg, Idle, coreVars, macVars, OnePlace, InScan, Running,
      Synchronous
<1>7. CASE DoScanReset
  BY <1>7
  DEF DoScanReset, macVars, OnePlace, InScan, Running, Synchronous
<1>8. CASE DoScanEvent
  BY <1>8
  DEF DoScanEvent, coreVars, macVars, OnePlace, InScan, Running, Synchronous
<1>9. ASSUME NEW ok \in BOOLEAN, DoScanPreload(ok)
      PROVE  Synchronous'
  BY <1>9
  DEF DoScanPreload, FirstBand, SecondBand, coreVars, macVars, OnePlace,
      InScan, Running, Synchronous
<1>10. ASSUME NEW n \in 0 .. MaxChunks, ScanCurrentBand(n)
       PROVE  Synchronous'
  BY <1>10
  DEF ScanCurrentBand, Failure, coreVars, macVars, OnePlace, InScan, Running,
      Synchronous
<1>11. CASE ScanNextChunk
  BY <1>11
  DEF ScanNextChunk, Alive, Return, coreVars, Idle, OnePlace, InScan, Running,
      Synchronous
<1>12. ASSUME NEW slept \in BOOLEAN, NEW woken \in BOOLEAN,
              ScanNextChunkFails(slept, woken)
       PROVE  Synchronous'
  BY <1>12
  DEF ScanNextChunkFails, Alive, Failure, StartDataOnError, coreVars,
      OnePlace, InScan, Running, Synchronous
<1>13. CASE CompleteOrContinue
  BY <1>13
  DEF CompleteOrContinue, Complete, coreVars, macVars, OnePlace, InScan,
      Running, Synchronous
<1>14. CASE CompleteFinish
  BY <1>14
  DEF CompleteFinish, Return, SignalCompleted, coreVars, macVars, Idle,
      OnePlace, InScan, Running, Synchronous
<1>15. CASE SyncDone
  BY <1>15
  DEF SyncDone, Idle, Activated, scanVars, Alive, OnePlace, InScan, Running,
      Synchronous
<1>16. CASE SyncChunk
  BY <1>16
  DEF SyncChunk, coreVars, macVars, OnePlace, InScan, Running, Synchronous
<1>17. CASE ScanUnconfirmed
  BY <1>17
  DEF ScanUnconfirmed, coreVars, macVars, OnePlace, InScan, Running,
      Synchronous
<1>18. ASSUME NEW back \in SwitchResults, NEW woken \in Outcomes,
              ScanConfirmed(back, woken)
       PROVE  Synchronous'
  BY <1>18
  DEF ScanConfirmed, SwitchBackProgmodel, scanVars, coreVars, OnePlace,
      InScan, Running, Synchronous
<1>19. CASE ScanProceed
  BY <1>19
  DEF ScanProceed, Return, coreVars, macVars, Idle, OnePlace, InScan, Running,
      Synchronous
<1>20. CASE PauseElapsed
  BY <1>20
  DEF PauseElapsed, SetupScanSequence, macVars, FirstBand, SecondBand,
      OnePlace, InScan, Running, Synchronous
<1>21. ASSUME NEW t \in queue, TakeTask(t)
       PROVE  Synchronous'
  BY <1>21
  DEF TakeTask, Free, scanVars, coreVars, macVars, OnePlace, InScan, Running,
      Synchronous, TypeOK, WorkTypeOK, Tasks
<1>22. CASE HandleDisconnectMe
  BY <1>22
  DEF HandleDisconnectMe, Free, SendDisconnectReq, scanVars, OnePlace, InScan,
      Running, Synchronous
<1>23. CASE StopSerializer
  BY <1>23
  DEF StopSerializer, scanVars, coreVars, macVars, OnePlace, InScan, Running,
      Synchronous
<1>24. CASE Cleanup
  BY <1>24
  DEF Cleanup, ScanCfmClb, coreVars, macVars, ScheduleTask, OnePlace, InScan,
      Running, Synchronous, UnloadInv, Stopped
<1>25. CASE MacAnswers
  BY <1>25
  DEF MacAnswers, Alive, ScanCfmClb, coreVars, macVars, ScheduleTask,
      OnePlace, InScan, Running, Synchronous
<1>26. CASE PauseTimer
  BY <1>26
  DEF PauseTimer, ScheduleTask, coreVars, macVars, OnePlace, InScan, Running,
      Synchronous
<1> QED
  BY <1>1, <1>2, <1>3, <1>4, <1>5, <1>6, <1>7, <1>8, <1>9, <1>10, <1>11,
     <1>12, <1>13, <1>14, <1>15, <1>16, <1>17, <1>18, <1>19, <1>20, <1>21,
     <1>22, <1>23, <1>24, <1>25, <1>26
  DEF Next, User, Work, Unload, StopProcessing, DisconnectStaBlocked,
      Deactivate, PrepareStopLook, StopComplete, StopFinish, Terminate,
      WaitCompletion, CleanupLook, MacHalts, PrepareStop, BeaconReceived,
      vars, scanVars, coreVars, macVars, workVars

\* The progmodels of the bands to scan are there.
LEMMA ProgmodelsStep ==
  ASSUME TypeOK, UnloadInv, ~Dead, serial, OnePlace,
         Running, Synchronous, Progmodels, [Next]_vars
  PROVE  Progmodels'
<1>1. CASE UNCHANGED <<is_running, is_synchronous, home, progmodels,
                        cur_band, next_band, wpc>>
  BY <1>1 DEF Progmodels, FirstBand, SecondBand
<1>2. CASE StartScanning
  BY <1>2
  DEF StartScanning, Free, coreVars, macVars, Running, Synchronous, InScan,
      Progmodels, FirstBand, SecondBand
<1>3. ASSUME NEW b \in Bands, ConnectSta(b)
      PROVE  Progmodels'
  BY <1>3
  DEF ConnectSta, Free, Activated, Alive, Running, Synchronous, InScan,
      Progmodels, FirstBand, SecondBand
<1>4. CASE DoScanCheck
  BY <1>4
  DEF DoScanCheck, Idle, scanVars, coreVars, macVars, Running, Synchronous,
      InScan, Progmodels, FirstBand, SecondBand
<1>5. CASE DoScanXchg
  BY <1>5
  DEF DoScanXchg, Idle, coreVars, macVars, Running, Synchronous, InScan,
      Progmodels, FirstBand, SecondBand
<1>6. CASE DoScanReset
  BY <1>6
  DEF DoScanReset, macVars, Running, Synchronous, InScan, Progmodels,
      FirstBand, SecondBand
<1>7. CASE DoScanEvent
  BY <1>7
  DEF DoScanEvent, coreVars, macVars, Running, Synchronous, InScan,
      Progmodels, FirstBand, SecondBand
<1>8. ASSUME NEW ok \in BOOLEAN, DoScanPreload(ok)
      PROVE  Progmodels'
  BY <1>8
  DEF DoScanPreload, FirstBand, SecondBand, coreVars, macVars, Running,
      Synchronous, InScan, Progmodels, TypeOK, BandTypeOK, Bands, None
<1>9. ASSUME NEW n \in 0 .. MaxChunks, ScanCurrentBand(n)
      PROVE  Progmodels'
  BY <1>9
  DEF ScanCurrentBand, Failure, coreVars, macVars, Running, Synchronous,
      InScan, Progmodels, FirstBand, SecondBand
<1>10. CASE ScanNextChunk
  BY <1>10
  DEF ScanNextChunk, Alive, Return, coreVars, Idle, Running, Synchronous,
      InScan, Progmodels, FirstBand, SecondBand
<1>11. ASSUME NEW slept \in BOOLEAN, NEW woken \in BOOLEAN,
              ScanNextChunkFails(slept, woken)
       PROVE  Progmodels'
  BY <1>11
  DEF ScanNextChunkFails, Alive, Failure, StartDataOnError, coreVars, Running,
      Synchronous, InScan, Progmodels, FirstBand, SecondBand
<1>12. CASE CompleteOrContinue
  BY <1>12
  DEF CompleteOrContinue, Complete, coreVars, macVars, Running, Synchronous,
      InScan, Progmodels, FirstBand, SecondBand, TypeOK, BandTypeOK, Bands,
      None
<1>13. CASE CompleteFinish
  BY <1>13
  DEF CompleteFinish, Return, SignalCompleted, coreVars, macVars, Idle,
      Running, Synchronous, InScan, Progmodels, FirstBand, SecondBand
<1>14. CASE SyncDone
  BY <1>14
  DEF SyncDone, Idle, Activated, scanVars, Alive, Running, Synchronous,
      InScan, Progmodels, FirstBand, SecondBand
<1>15. CASE SyncChunk
  BY <1>15
  DEF SyncChunk, coreVars, macVars, Running, Synchronous, InScan, Progmodels,
      FirstBand, SecondBand
<1>16. CASE ScanUnconfirmed
  BY <1>16
  DEF ScanUnconfirmed, coreVars, macVars, Running, Synchronous, InScan,
      Progmodels, FirstBand, SecondBand
<1>17. ASSUME NEW back \in SwitchResults, NEW woken \in Outcomes,
              ScanConfirmed(back, woken)
       PROVE  Progmodels'
  BY <1>17
  DEF ScanConfirmed, SwitchBackProgmodel, scanVars, coreVars, Running,
      Synchronous, InScan, Progmodels, FirstBand, SecondBand
<1>18. CASE ScanProceed
  BY <1>18
  DEF ScanProceed, Return, coreVars, macVars, Idle, Running, Synchronous,
      InScan, Progmodels, FirstBand, SecondBand
<1>19. CASE PauseElapsed
  BY <1>19
  DEF PauseElapsed, SetupScanSequence, macVars, FirstBand, SecondBand,
      Running, Synchronous, InScan, Progmodels, TypeOK, BandTypeOK, Bands,
      None
<1>20. ASSUME NEW t \in queue, TakeTask(t)
       PROVE  Progmodels'
  BY <1>20
  DEF TakeTask, Free, scanVars, coreVars, macVars, Running, Synchronous,
      InScan, Progmodels, FirstBand, SecondBand, TypeOK, WorkTypeOK, Tasks
<1>21. CASE StopComplete
  BY <1>21
  DEF StopComplete, Complete, coreVars, macVars, workVars, Running,
      Synchronous, InScan, Progmodels, FirstBand, SecondBand, UnloadInv, Dead
<1> QED
  BY <1>1, <1>2, <1>3, <1>4, <1>5, <1>6, <1>7, <1>8, <1>9, <1>10, <1>11,
     <1>12, <1>13, <1>14, <1>15, <1>16, <1>17, <1>18, <1>19, <1>20, <1>21
  DEF Next, User, Work, Unload, StopProcessing, DisconnectStaBlocked,
      DisconnectSta, Deactivate, HandleDisconnectMe, PrepareStopLook,
      StopFinish, Terminate, WaitCompletion, StopSerializer, CleanupLook,
      Cleanup, MacAnswers, PauseTimer, MacHalts, PrepareStop, BeaconReceived,
      vars, scanVars, coreVars, macVars, workVars

\* The four together: what the unloading thread does with a dead MAC, and after
\* the serializer is stopped, is left out.
LEMMA ScanStep ==
  ASSUME TypeOK, UnloadInv, ScanInv, [Next]_vars
  PROVE  ScanInv'
<1>1. CASE Dead
  <2>1. Dead'
    BY <1>1
    DEF Dead, Next, User, Work, Unload, StopProcessing, StartScanning,
        ConnectSta, DisconnectStaBlocked, DisconnectSta, Deactivate,
        DoScanCheck, DoScanXchg, DoScanReset, DoScanEvent, DoScanPreload,
        ScanCurrentBand, ScanNextChunk, ScanNextChunkFails,
        CompleteOrContinue, CompleteFinish, SyncDone, SyncChunk,
        ScanUnconfirmed, ScanConfirmed, ScanProceed, PauseElapsed, TakeTask,
        HandleDisconnectMe, PrepareStopLook, StopComplete, StopFinish,
        Terminate, WaitCompletion, StopSerializer, CleanupLook, Cleanup,
        MacAnswers, PauseTimer, MacHalts, PrepareStop, BeaconReceived, Alive,
        Activated, vars, coreVars
  <2> QED BY <2>1 DEF ScanInv
<1>2. CASE ~serial
  <2>1. ~serial'
    BY <1>2
    DEF Next, User, Work, Unload, StopProcessing, StartScanning, ConnectSta,
        DisconnectStaBlocked, DisconnectSta, Deactivate, DoScanCheck,
        DoScanXchg, DoScanReset, DoScanEvent, DoScanPreload, ScanCurrentBand,
        ScanNextChunk, ScanNextChunkFails, CompleteOrContinue, CompleteFinish,
        SyncDone, SyncChunk, ScanUnconfirmed, ScanConfirmed, ScanProceed,
        PauseElapsed, TakeTask, HandleDisconnectMe, PrepareStopLook,
        StopComplete, StopFinish, Terminate, WaitCompletion, StopSerializer,
        CleanupLook, Cleanup, MacAnswers, PauseTimer, MacHalts, PrepareStop,
        BeaconReceived, vars, workVars
  <2> QED BY <2>1 DEF ScanInv
<1>3. CASE serial /\ ~Dead
  <2>1. OnePlace /\ Running /\ Synchronous /\ Progmodels
    BY <1>3, Healthy
  <2> QED
    BY <1>3, <2>1, OnePlaceStep, RunningStep, SynchronousStep, ProgmodelsStep
    DEF ScanInv
<1> QED BY <1>1, <1>2, <1>3

\* A scan of a connected station is a background scan.
LEMMA ModeStep ==
  ASSUME TypeOK, UnloadInv, ScanInv, ModeInv, [Next]_vars
  PROVE  ModeInv'
<1>1. CASE UNCHANGED <<net_state, is_running, wpc, is_background, task>>
  BY <1>1 DEF ModeInv
<1>2. CASE StartScanning
  BY <1>2
  DEF StartScanning, Free, coreVars, macVars, UnloadInv, ScanInv, Dead,
      Running, Synchronous, ModeInv
<1>3. ASSUME NEW b \in Bands, ConnectSta(b)
      PROVE  ModeInv'
  BY <1>3
  DEF ConnectSta, Free, Activated, Alive, UnloadInv, ScanInv, Dead, Running,
      Synchronous, ModeInv
<1>4. CASE DisconnectStaBlocked
  BY <1>4
  DEF DisconnectStaBlocked, Free, SendDisconnectReq, workVars, UnloadInv,
      ScanInv, Dead, Running, Synchronous, ModeInv
<1>5. CASE DisconnectSta
  BY <1>5
  DEF DisconnectSta, Alive, Free, SendDisconnectReq, scanVars, UnloadInv,
      ScanInv, Dead, Running, Synchronous, ModeInv
<1>6. CASE Deactivate
  BY <1>6
  DEF Deactivate, Free, SendDisconnectReq, workVars, UnloadInv, ScanInv, Dead,
      Running, Synchronous, ModeInv
<1>7. CASE DoScanCheck
  BY <1>7
  DEF DoScanCheck, Idle, scanVars, coreVars, macVars, UnloadInv, ScanInv,
      Dead, Running, Synchronous, ModeInv
<1>8. CASE DoScanXchg
  BY <1>8
  DEF DoScanXchg, Idle, coreVars, macVars, UnloadInv, ScanInv, Dead, Running,
      Synchronous, ModeInv
<1>9. CASE DoScanReset
  BY <1>9
  DEF DoScanReset, macVars, UnloadInv, ScanInv, Dead, Running, Synchronous,
      ModeInv
<1>10. CASE DoScanEvent
  BY <1>10
  DEF DoScanEvent, coreVars, macVars, UnloadInv, ScanInv, Dead, Running,
      Synchronous, ModeInv
<1>11. ASSUME NEW ok \in BOOLEAN, DoScanPreload(ok)
       PROVE  ModeInv'
  BY <1>11
  DEF DoScanPreload, FirstBand, SecondBand, coreVars, macVars, UnloadInv,
      ScanInv, Dead, Running, Synchronous, ModeInv
<1>12. ASSUME NEW n \in 0 .. MaxChunks, ScanCurrentBand(n)
       PROVE  ModeInv'
  BY <1>12
  DEF ScanCurrentBand, Failure, coreVars, macVars, UnloadInv, ScanInv, Dead,
      Running, Synchronous, ModeInv
<1>13. CASE ScanNextChunk
  BY <1>13
  DEF ScanNextChunk, Alive, Return, coreVars, Idle, UnloadInv, ScanInv, Dead,
      Running, Synchronous, ModeInv
<1>14. ASSUME NEW slept \in BOOLEAN, NEW woken \in BOOLEAN,
              ScanNextChunkFails(slept, woken)
       PROVE  ModeInv'
  BY <1>14
  DEF ScanNextChunkFails, Alive, Failure, StartDataOnError, coreVars,
      UnloadInv, ScanInv, Dead, Running, Synchronous, ModeInv
<1>15. CASE CompleteOrContinue
  BY <1>15
  DEF CompleteOrContinue, Complete, coreVars, macVars, UnloadInv, ScanInv,
      Dead, Running, Synchronous, ModeInv
<1>16. CASE CompleteFinish
  BY <1>16
  DEF CompleteFinish, Return, SignalCompleted, coreVars, macVars, Idle,
      UnloadInv, ScanInv, Dead, Running, Synchronous, ModeInv
<1>17. CASE SyncDone
  BY <1>17
  DEF SyncDone, Idle, Activated, scanVars, Alive, UnloadInv, ScanInv, Dead,
      Running, Synchronous, ModeInv
<1>18. CASE SyncChunk
  BY <1>18
  DEF SyncChunk, coreVars, macVars, UnloadInv, ScanInv, Dead, Running,
      Synchronous, ModeInv
<1>19. CASE ScanUnconfirmed
  BY <1>19
  DEF ScanUnconfirmed, coreVars, macVars, UnloadInv, ScanInv, Dead, Running,
      Synchronous, ModeInv
<1>20. ASSUME NEW back \in SwitchResults, NEW woken \in Outcomes,
              ScanConfirmed(back, woken)
       PROVE  ModeInv'
  BY <1>20
  DEF ScanConfirmed, SwitchBackProgmodel, scanVars, coreVars, UnloadInv,
      ScanInv, Dead, Running, Synchronous, ModeInv
<1>21. CASE ScanProceed
  BY <1>21
  DEF ScanProceed, Return, coreVars, macVars, Idle, UnloadInv, ScanInv, Dead,
      Running, Synchronous, ModeInv
<1>22. CASE PauseElapsed
  BY <1>22
  DEF PauseElapsed, SetupScanSequence, macVars, FirstBand, SecondBand,
      UnloadInv, ScanInv, Dead, Running, Synchronous, ModeInv
<1>23. ASSUME NEW t \in queue, TakeTask(t)
       PROVE  ModeInv'
  BY <1>23
  DEF TakeTask, Free, scanVars, coreVars, macVars, UnloadInv, ScanInv, Dead,
      Running, Synchronous, ModeInv, TypeOK, WorkTypeOK, Tasks
<1>24. CASE HandleDisconnectMe
  BY <1>24
  DEF HandleDisconnectMe, Free, SendDisconnectReq, scanVars, UnloadInv,
      ScanInv, Dead, Running, Synchronous, ModeInv
<1>25. CASE StopComplete
  BY <1>25
  DEF StopComplete, Complete, coreVars, macVars, workVars, UnloadInv, ScanInv,
      Dead, Running, Synchronous, ModeInv
<1>26. CASE MacHalts
  BY <1>26
  DEF MacHalts, Alive, scanVars, macVars, workVars, UnloadInv, ScanInv, Dead,
      Running, Synchronous, ModeInv
<1> QED
  BY <1>1, <1>2, <1>3, <1>4, <1>5, <1>6, <1>7, <1>8, <1>9, <1>10, <1>11,
     <1>12, <1>13, <1>14, <1>15, <1>16, <1>17, <1>18, <1>19, <1>20, <1>21,
     <1>22, <1>23, <1>24, <1>25, <1>26
  DEF Next, User, Work, Unload, StopProcessing, PrepareStopLook, StopFinish,
      Terminate, WaitCompletion, StopSerializer, CleanupLook, Cleanup,
      MacAnswers, PauseTimer, PrepareStop, BeaconReceived, vars, scanVars,
      coreVars, macVars, workVars

\* No chunk before the first band is set.
LEMMA BandStep ==
  ASSUME TypeOK, BandInv, [Next]_vars
  PROVE  BandInv'
<1>1. CASE UNCHANGED <<async, timer, chunk_event, queue, wpc, cur_band>>
  BY <1>1 DEF BandInv, Begun
<1>2. CASE StartScanning
  BY <1>2
  DEF StartScanning, Free, coreVars, macVars, BandInv, Begun
<1>3. ASSUME NEW b \in Bands, ConnectSta(b)
      PROVE  BandInv'
  BY <1>3
  DEF ConnectSta, Free, Activated, Alive, BandInv, Begun
<1>4. CASE DisconnectSta
  BY <1>4
  DEF DisconnectSta, Alive, Free, SendDisconnectReq, scanVars, BandInv, Begun
<1>5. CASE DoScanCheck
  BY <1>5
  DEF DoScanCheck, Idle, scanVars, coreVars, macVars, BandInv, Begun
<1>6. CASE DoScanXchg
  BY <1>6
  DEF DoScanXchg, Idle, coreVars, macVars, BandInv, Begun
<1>7. CASE DoScanReset
  BY <1>7
  DEF DoScanReset, macVars, BandInv, Begun
<1>8. CASE DoScanEvent
  BY <1>8
  DEF DoScanEvent, coreVars, macVars, BandInv, Begun
<1>9. ASSUME NEW ok \in BOOLEAN, DoScanPreload(ok)
      PROVE  BandInv'
  BY <1>9
  DEF DoScanPreload, FirstBand, SecondBand, coreVars, macVars, BandInv, Begun,
      TypeOK, BandTypeOK, Bands, None
<1>10. ASSUME NEW n \in 0 .. MaxChunks, ScanCurrentBand(n)
       PROVE  BandInv'
  BY <1>10
  DEF ScanCurrentBand, Failure, coreVars, macVars, BandInv, Begun
<1>11. CASE ScanNextChunk
  BY <1>11
  DEF ScanNextChunk, Alive, Return, coreVars, Idle, BandInv, Begun
<1>12. ASSUME NEW slept \in BOOLEAN, NEW woken \in BOOLEAN,
              ScanNextChunkFails(slept, woken)
       PROVE  BandInv'
  BY <1>12
  DEF ScanNextChunkFails, Alive, Failure, StartDataOnError, coreVars, BandInv,
      Begun
<1>13. CASE CompleteOrContinue
  BY <1>13
  DEF CompleteOrContinue, Complete, coreVars, macVars, BandInv, Begun, TypeOK,
      BandTypeOK, Bands, None, FirstBand, SecondBand
<1>14. CASE CompleteFinish
  BY <1>14
  DEF CompleteFinish, Return, SignalCompleted, coreVars, macVars, Idle,
      BandInv, Begun
<1>15. CASE SyncDone
  BY <1>15
  DEF SyncDone, Idle, Activated, scanVars, Alive, BandInv, Begun
<1>16. CASE SyncChunk
  BY <1>16
  DEF SyncChunk, coreVars, macVars, BandInv, Begun
<1>17. CASE ScanUnconfirmed
  BY <1>17
  DEF ScanUnconfirmed, coreVars, macVars, BandInv, Begun
<1>18. ASSUME NEW back \in SwitchResults, NEW woken \in Outcomes,
              ScanConfirmed(back, woken)
       PROVE  BandInv'
  BY <1>18
  DEF ScanConfirmed, SwitchBackProgmodel, scanVars, coreVars, BandInv, Begun
<1>19. CASE ScanProceed
  BY <1>19
  DEF ScanProceed, Return, coreVars, macVars, Idle, BandInv, Begun
<1>20. CASE PauseElapsed
  BY <1>20
  DEF PauseElapsed, SetupScanSequence, macVars, FirstBand, SecondBand,
      BandInv, Begun, TypeOK, BandTypeOK, Bands, None
<1>21. ASSUME NEW t \in queue, TakeTask(t)
       PROVE  BandInv'
  BY <1>21
  DEF TakeTask, Free, scanVars, coreVars, macVars, BandInv, Begun, TypeOK,
      WorkTypeOK, Tasks
<1>22. CASE HandleDisconnectMe
  BY <1>22
  DEF HandleDisconnectMe, Free, SendDisconnectReq, scanVars, BandInv, Begun
<1>23. CASE StopSerializer
  BY <1>23
  DEF StopSerializer, scanVars, coreVars, macVars, BandInv, Begun
<1>24. CASE Cleanup
  BY <1>24
  DEF Cleanup, ScanCfmClb, coreVars, macVars, ScheduleTask, BandInv, Begun,
      UnloadInv, Stopped
<1>25. CASE MacAnswers
  BY <1>25
  DEF MacAnswers, Alive, ScanCfmClb, coreVars, macVars, ScheduleTask, BandInv,
      Begun
<1>26. CASE PauseTimer
  BY <1>26
  DEF PauseTimer, ScheduleTask, coreVars, macVars, BandInv, Begun
<1> QED
  BY <1>1, <1>2, <1>3, <1>4, <1>5, <1>6, <1>7, <1>8, <1>9, <1>10, <1>11,
     <1>12, <1>13, <1>14, <1>15, <1>16, <1>17, <1>18, <1>19, <1>20, <1>21,
     <1>22, <1>23, <1>24, <1>25, <1>26
  DEF Next, User, Work, Unload, StopProcessing, DisconnectStaBlocked,
      Deactivate, PrepareStopLook, StopComplete, StopFinish, Terminate,
      WaitCompletion, CleanupLook, MacHalts, PrepareStop, BeaconReceived,
      vars, scanVars, coreVars, macVars, workVars

\* The requests that are left.
LEMMA LeftStep ==
  ASSUME TypeOK, UnloadInv, LeftInv, [Next]_vars
  PROVE  LeftInv'
<1>1. CASE UNCHANGED <<hidden, left, wpc, net_state>>
  BY <1>1 DEF LeftInv, Alive
<1>2. CASE StartScanning
  BY <1>2
  DEF StartScanning, Free, coreVars, macVars, LeftInv, Alive
<1>3. ASSUME NEW b \in Bands, ConnectSta(b)
      PROVE  LeftInv'
  BY <1>3
  DEF ConnectSta, Free, Activated, Alive, LeftInv
<1>4. CASE DisconnectStaBlocked
  BY <1>4
  DEF DisconnectStaBlocked, Free, SendDisconnectReq, workVars, LeftInv, Alive
<1>5. CASE DisconnectSta
  BY <1>5
  DEF DisconnectSta, Alive, Free, SendDisconnectReq, scanVars, LeftInv
<1>6. CASE Deactivate
  BY <1>6
  DEF Deactivate, Free, SendDisconnectReq, workVars, LeftInv, Alive
<1>7. CASE DoScanCheck
  BY <1>7
  DEF DoScanCheck, Idle, scanVars, coreVars, macVars, LeftInv, Alive
<1>8. CASE DoScanXchg
  BY <1>8
  DEF DoScanXchg, Idle, coreVars, macVars, LeftInv, Alive
<1>9. CASE DoScanReset
  BY <1>9
  DEF DoScanReset, macVars, LeftInv, Alive
<1>10. CASE DoScanEvent
  BY <1>10
  DEF DoScanEvent, coreVars, macVars, LeftInv, Alive
<1>11. ASSUME NEW ok \in BOOLEAN, DoScanPreload(ok)
       PROVE  LeftInv'
  BY <1>11
  DEF DoScanPreload, FirstBand, SecondBand, coreVars, macVars, LeftInv, Alive
<1>12. ASSUME NEW n \in 0 .. MaxChunks, ScanCurrentBand(n)
       PROVE  LeftInv'
  BY <1>12, MaxChunksAssumption
  DEF ScanCurrentBand, Failure, coreVars, macVars, LeftInv, Alive, TypeOK,
      BandTypeOK
<1>13. CASE ScanNextChunk
  BY <1>13, MaxChunksAssumption
  DEF ScanNextChunk, Alive, Return, coreVars, Idle, LeftInv, TypeOK,
      BandTypeOK
<1>14. ASSUME NEW slept \in BOOLEAN, NEW woken \in BOOLEAN,
              ScanNextChunkFails(slept, woken)
       PROVE  LeftInv'
  BY <1>14
  DEF ScanNextChunkFails, Alive, Failure, StartDataOnError, coreVars, LeftInv
<1>15. CASE CompleteOrContinue
  BY <1>15
  DEF CompleteOrContinue, Complete, coreVars, macVars, LeftInv, Alive
<1>16. CASE CompleteFinish
  BY <1>16
  DEF CompleteFinish, Return, SignalCompleted, coreVars, macVars, Idle,
      LeftInv, Alive
<1>17. CASE SyncDone
  BY <1>17
  DEF SyncDone, Idle, Activated, scanVars, Alive, LeftInv
<1>18. CASE SyncChunk
  BY <1>18
  DEF SyncChunk, coreVars, macVars, LeftInv, Alive
<1>19. CASE ScanUnconfirmed
  BY <1>19
  DEF ScanUnconfirmed, coreVars, macVars, LeftInv, Alive
<1>20. ASSUME NEW back \in SwitchResults, NEW woken \in Outcomes,
              ScanConfirmed(back, woken)
       PROVE  LeftInv'
  BY <1>20
  DEF ScanConfirmed, SwitchBackProgmodel, scanVars, coreVars, LeftInv, Alive
<1>21. CASE ScanProceed
  BY <1>21
  DEF ScanProceed, Return, coreVars, macVars, Idle, LeftInv, Alive
<1>22. CASE PauseElapsed
  BY <1>22
  DEF PauseElapsed, SetupScanSequence, macVars, FirstBand, SecondBand,
      LeftInv, Alive
<1>23. ASSUME NEW t \in queue, TakeTask(t)
       PROVE  LeftInv'
  BY <1>23
  DEF TakeTask, Free, scanVars, coreVars, macVars, LeftInv, Alive, TypeOK,
      WorkTypeOK, Tasks
<1>24. CASE HandleDisconnectMe
  BY <1>24
  DEF HandleDisconnectMe, Free, SendDisconnectReq, scanVars, LeftInv, Alive
<1>25. CASE StopComplete
  BY <1>25
  DEF StopComplete, Complete, coreVars, macVars, workVars, LeftInv, Alive,
      UnloadInv, Dead
<1>26. CASE MacHalts
  BY <1>26
  DEF MacHalts, Alive, scanVars, macVars, workVars, LeftInv
<1>27. ASSUME NEW active \in BOOLEAN, BeaconReceived(active)
       PROVE  LeftInv'
  <2>1. left \in Nat /\ MaxChunks \in Nat /\ UNCHANGED <<wpc, net_state>>
    BY <1>27, MaxChunksAssumption
    DEF TypeOK, BandTypeOK, BeaconReceived, workVars
  <2>2. CASE active
    <3>1. ~hidden'
      BY <1>27, <2>2 DEF BeaconReceived, AddActiveScan
    <3>2. left' = left + 1
      BY <1>27, <2>2 DEF BeaconReceived, AddActiveScan
    <3> QED BY <2>1, <3>1, <3>2 DEF LeftInv, Alive
  <2>3. CASE ~active
    BY <1>27, <2>1, <2>3 DEF BeaconReceived, AddActiveScan, LeftInv, Alive
  <2> QED BY <2>2, <2>3
<1> QED
  BY <1>1, <1>2, <1>3, <1>4, <1>5, <1>6, <1>7, <1>8, <1>9, <1>10, <1>11,
     <1>12, <1>13, <1>14, <1>15, <1>16, <1>17, <1>18, <1>19, <1>20, <1>21,
     <1>22, <1>23, <1>24, <1>25, <1>26, <1>27
  DEF Next, User, Work, Unload, StopProcessing, PrepareStopLook, StopFinish,
      Terminate, WaitCompletion, StopSerializer, CleanupLook, Cleanup,
      MacAnswers, PauseTimer, PrepareStop, vars, scanVars, coreVars, macVars,
      workVars

\* The flow of data: FlowHeld is inductive with the others.
LEMMA FlowStep ==
  ASSUME TypeOK, UnloadInv, ScanInv, FlowHeld, [Next]_vars
  PROVE  FlowHeld'
<1>2. CASE StartScanning
  BY <1>2
  DEF StartScanning, Free, coreVars, macVars, FlowHeld, InChunk, Alive
<1>3. ASSUME NEW b \in Bands, ConnectSta(b)
      PROVE  FlowHeld'
  BY <1>3
  DEF ConnectSta, Free, Activated, Alive, FlowHeld, InChunk
<1>4. CASE DisconnectStaBlocked
  BY <1>4
  DEF DisconnectStaBlocked, Free, SendDisconnectReq, workVars, FlowHeld,
      InChunk, Alive
<1>5. CASE DisconnectSta
  BY <1>5
  DEF DisconnectSta, Alive, Free, SendDisconnectReq, scanVars, FlowHeld,
      InChunk
<1>6. CASE Deactivate
  BY <1>6
  DEF Deactivate, Free, SendDisconnectReq, workVars, FlowHeld, InChunk, Alive
<1>7. CASE DoScanCheck
  BY <1>7
  DEF DoScanCheck, Idle, scanVars, coreVars, macVars, FlowHeld, InChunk,
      Alive
<1>8. CASE DoScanXchg
  BY <1>8
  DEF DoScanXchg, Idle, coreVars, macVars, FlowHeld, InChunk, Alive
<1>9. CASE DoScanReset
  BY <1>9
  DEF DoScanReset, macVars, FlowHeld, InChunk, Alive
<1>10. CASE DoScanEvent
  BY <1>10
  DEF DoScanEvent, coreVars, macVars, FlowHeld, InChunk, Alive
<1>11. ASSUME NEW ok \in BOOLEAN, DoScanPreload(ok)
       PROVE  FlowHeld'
  BY <1>11
  DEF DoScanPreload, FirstBand, SecondBand, coreVars, macVars, FlowHeld,
      InChunk, Alive
<1>12. ASSUME NEW n \in 0 .. MaxChunks, ScanCurrentBand(n)
       PROVE  FlowHeld'
  BY <1>12
  DEF ScanCurrentBand, Failure, coreVars, macVars, FlowHeld, InChunk, Alive
<1>13. CASE ScanNextChunk
  BY <1>13
  DEF ScanNextChunk, Alive, Return, coreVars, Idle, FlowHeld, InChunk
<1>14. ASSUME NEW slept \in BOOLEAN, NEW woken \in BOOLEAN,
              ScanNextChunkFails(slept, woken)
       PROVE  FlowHeld'
  BY <1>14
  DEF ScanNextChunkFails, Alive, Failure, StartDataOnError, coreVars,
      FlowHeld, InChunk
<1>15. CASE CompleteOrContinue
  BY <1>15
  DEF CompleteOrContinue, Complete, coreVars, macVars, FlowHeld, InChunk,
      Alive
<1>16. CASE CompleteFinish
  BY <1>16
  DEF CompleteFinish, Return, SignalCompleted, coreVars, macVars, Idle,
      FlowHeld, InChunk, Alive
<1>17. CASE SyncDone
  BY <1>17, Healthy
  DEF SyncDone, Idle, Activated, scanVars, Alive, FlowHeld, InChunk, Dead,
      Running, Synchronous, InScan, UnloadInv
<1>18. CASE SyncChunk
  BY <1>18
  DEF SyncChunk, coreVars, macVars, FlowHeld, InChunk, Alive
<1>19. CASE ScanUnconfirmed
  BY <1>19
  DEF ScanUnconfirmed, coreVars, macVars, FlowHeld, InChunk, Alive
<1>20. ASSUME NEW back \in SwitchResults, NEW woken \in Outcomes,
              ScanConfirmed(back, woken)
       PROVE  FlowHeld'
  BY <1>20
  DEF ScanConfirmed, SwitchBackProgmodel, scanVars, coreVars, FlowHeld,
      InChunk, Alive
<1>21. CASE ScanProceed
  BY <1>21
  DEF ScanProceed, Return, coreVars, macVars, Idle, FlowHeld, InChunk, Alive
<1>22. CASE PauseElapsed
  BY <1>22
  DEF PauseElapsed, SetupScanSequence, macVars, FirstBand, SecondBand,
      FlowHeld, InChunk, Alive
<1>23. ASSUME NEW t \in queue, TakeTask(t)
       PROVE  FlowHeld'
  BY <1>23
  DEF TakeTask, Free, scanVars, coreVars, macVars, FlowHeld, InChunk, Alive,
      TypeOK, WorkTypeOK, Tasks
<1>24. CASE HandleDisconnectMe
  BY <1>24
  DEF HandleDisconnectMe, Free, SendDisconnectReq, scanVars, FlowHeld,
      InChunk, Alive
<1>25. CASE StopSerializer
  BY <1>25
  DEF StopSerializer, scanVars, coreVars, macVars, FlowHeld, InChunk, Alive
<1>26. CASE Cleanup
  BY <1>26
  DEF Cleanup, ScanCfmClb, coreVars, macVars, ScheduleTask, FlowHeld, InChunk,
      Alive, UnloadInv, Stopped
<1>27. CASE MacAnswers
  BY <1>27, Healthy
  DEF MacAnswers, Alive, ScanCfmClb, coreVars, macVars, ScheduleTask,
      FlowHeld, InChunk, Dead, Running, Synchronous, InScan, UnloadInv
<1>28. CASE PauseTimer
  BY <1>28
  DEF PauseTimer, ScheduleTask, coreVars, macVars, FlowHeld, InChunk, Alive
<1>29. CASE MacHalts
  BY <1>29
  DEF MacHalts, Alive, scanVars, macVars, workVars, FlowHeld, InChunk
<1>30. CASE StopProcessing
  BY <1>30
  DEF StopProcessing, scanVars, coreVars, macVars, workVars, FlowHeld,
      InChunk, Alive
<1>31. CASE PrepareStopLook \/ PrepareStop \/ CleanupLook
  BY <1>31
  DEF PrepareStopLook, PrepareStop, CleanupLook, scanVars, coreVars, macVars,
      workVars, FlowHeld, InChunk, Alive
<1>32. CASE StopComplete \/ StopFinish \/ WaitCompletion
  BY <1>32
  DEF StopComplete, StopFinish, WaitCompletion, Complete, scanVars, coreVars,
      macVars, workVars, FlowHeld, InChunk, Alive
<1>33. CASE Terminate("mark", "wait") \/ Terminate("mark2", "wait2")
  BY <1>33
  DEF Terminate, coreVars, macVars, workVars, FlowHeld, InChunk, Alive
<1>34. ASSUME NEW active \in BOOLEAN, BeaconReceived(active)
       PROVE  FlowHeld'
  BY <1>34
  DEF BeaconReceived, macVars, workVars, FlowHeld, InChunk, Alive
<1>35. CASE UNCHANGED vars
  BY <1>35
  DEF vars, scanVars, coreVars, macVars, workVars, FlowHeld, InChunk, Alive
<1> QED
  BY <1>2, <1>3, <1>4, <1>5, <1>6, <1>7, <1>8, <1>9, <1>10, <1>11, <1>12,
     <1>13, <1>14, <1>15, <1>16, <1>17, <1>18, <1>19, <1>20, <1>21, <1>22,
     <1>23, <1>24, <1>25, <1>26, <1>27, <1>28, <1>29, <1>30, <1>31, <1>32,
     <1>33, <1>34, <1>35
  DEF Next, User, Work, Unload

\* Power save, the home band and the parameters of the BSS.
LEMMA ServiceStep ==
  ASSUME TypeOK, UnloadInv, ScanInv, ModeInv,
         ServiceRestored, [Next]_vars
  PROVE  ServiceRestored'
<1>2. CASE StartScanning
  BY <1>2
  DEF StartScanning, Free, coreVars, macVars, ServiceRestored, InChunk
<1>3. ASSUME NEW b \in Bands, ConnectSta(b)
      PROVE  ServiceRestored'
  BY <1>3
  DEF ConnectSta, Free, Activated, Alive, ServiceRestored, InChunk
<1>4. CASE DisconnectStaBlocked
  BY <1>4
  DEF DisconnectStaBlocked, Free, SendDisconnectReq, workVars,
      ServiceRestored, InChunk
<1>5. CASE DisconnectSta
  BY <1>5
  DEF DisconnectSta, Alive, Free, SendDisconnectReq, scanVars,
      ServiceRestored, InChunk
<1>6. CASE Deactivate
  BY <1>6
  DEF Deactivate, Free, SendDisconnectReq, workVars, ServiceRestored, InChunk
<1>7. CASE DoScanCheck
  BY <1>7
  DEF DoScanCheck, Idle, scanVars, coreVars, macVars, ServiceRestored,
      InChunk
<1>8. CASE DoScanXchg
  BY <1>8
  DEF DoScanXchg, Idle, coreVars, macVars, ServiceRestored, InChunk
<1>9. CASE DoScanReset
  BY <1>9
  DEF DoScanReset, macVars, ServiceRestored, InChunk
<1>10. CASE DoScanEvent
  BY <1>10
  DEF DoScanEvent, coreVars, macVars, ServiceRestored, InChunk
<1>11. ASSUME NEW ok \in BOOLEAN, DoScanPreload(ok)
       PROVE  ServiceRestored'
  BY <1>11
  DEF DoScanPreload, FirstBand, SecondBand, coreVars, macVars,
      ServiceRestored, InChunk
<1>12. ASSUME NEW n \in 0 .. MaxChunks, ScanCurrentBand(n)
       PROVE  ServiceRestored'
  BY <1>12
  DEF ScanCurrentBand, Failure, coreVars, macVars, ServiceRestored, InChunk
<1>13. CASE ScanNextChunk
  BY <1>13
  DEF ScanNextChunk, Alive, Return, coreVars, Idle, ServiceRestored, InChunk
<1>14. ASSUME NEW slept \in BOOLEAN, NEW woken \in BOOLEAN,
              ScanNextChunkFails(slept, woken)
       PROVE  ServiceRestored'
  BY <1>14, Healthy
  DEF ScanNextChunkFails, Alive, Failure, StartDataOnError, coreVars,
      ServiceRestored, InChunk, Dead, Running, InScan, UnloadInv, ModeInv
<1>15. CASE CompleteOrContinue
  BY <1>15
  DEF CompleteOrContinue, Complete, coreVars, macVars, ServiceRestored,
      InChunk
<1>16. CASE CompleteFinish
  BY <1>16
  DEF CompleteFinish, Return, SignalCompleted, coreVars, macVars, Idle,
      ServiceRestored, InChunk
<1>17. CASE SyncDone
  BY <1>17, Healthy
  DEF SyncDone, Idle, Activated, scanVars, Alive, ServiceRestored, InChunk,
      Dead, Running, Synchronous, InScan, UnloadInv
<1>18. CASE SyncChunk
  BY <1>18
  DEF SyncChunk, coreVars, macVars, ServiceRestored, InChunk
<1>19. CASE ScanUnconfirmed
  BY <1>19
  DEF ScanUnconfirmed, coreVars, macVars, ServiceRestored, InChunk
<1>20. ASSUME NEW back \in SwitchResults, NEW woken \in Outcomes,
              ScanConfirmed(back, woken)
       PROVE  ServiceRestored'
  BY <1>20, Healthy
  DEF ScanConfirmed, SwitchBackProgmodel, SwitchResults, scanVars, coreVars,
      ServiceRestored, InChunk, Dead, Running, InScan, UnloadInv, ModeInv
<1>21. CASE ScanProceed
  BY <1>21
  DEF ScanProceed, Return, coreVars, macVars, Idle, ServiceRestored, InChunk
<1>22. CASE PauseElapsed
  BY <1>22
  DEF PauseElapsed, SetupScanSequence, macVars, FirstBand, SecondBand,
      ServiceRestored, InChunk
<1>23. ASSUME NEW t \in queue, TakeTask(t)
       PROVE  ServiceRestored'
  BY <1>23
  DEF TakeTask, Free, scanVars, coreVars, macVars, ServiceRestored, InChunk,
      TypeOK, WorkTypeOK, Tasks
<1>24. CASE HandleDisconnectMe
  BY <1>24
  DEF HandleDisconnectMe, Free, SendDisconnectReq, scanVars, ServiceRestored,
      InChunk
<1>25. CASE StopSerializer
  BY <1>25
  DEF StopSerializer, scanVars, coreVars, macVars, ServiceRestored, InChunk
<1>26. CASE Cleanup
  BY <1>26
  DEF Cleanup, ScanCfmClb, coreVars, macVars, ScheduleTask, ServiceRestored,
      InChunk, UnloadInv, Stopped
<1>27. CASE MacAnswers
  BY <1>27, Healthy
  DEF MacAnswers, Alive, ScanCfmClb, coreVars, macVars, ScheduleTask,
      ServiceRestored, InChunk, Dead, Running, Synchronous, InScan, UnloadInv
<1>28. CASE PauseTimer
  BY <1>28
  DEF PauseTimer, ScheduleTask, coreVars, macVars, ServiceRestored, InChunk
<1>29. CASE MacHalts
  BY <1>29
  DEF MacHalts, Alive, scanVars, macVars, workVars, ServiceRestored, InChunk
<1>30. CASE StopProcessing
  BY <1>30
  DEF StopProcessing, scanVars, coreVars, macVars, workVars, ServiceRestored,
      InChunk
<1>31. CASE PrepareStopLook \/ PrepareStop \/ CleanupLook
  BY <1>31
  DEF PrepareStopLook, PrepareStop, CleanupLook, scanVars, coreVars, macVars,
      workVars, ServiceRestored, InChunk
<1>32. CASE StopComplete \/ StopFinish \/ WaitCompletion
  BY <1>32
  DEF StopComplete, StopFinish, WaitCompletion, Complete, scanVars, coreVars,
      macVars, workVars, ServiceRestored, InChunk
<1>33. CASE Terminate("mark", "wait") \/ Terminate("mark2", "wait2")
  BY <1>33
  DEF Terminate, coreVars, macVars, workVars, ServiceRestored, InChunk
<1>34. ASSUME NEW active \in BOOLEAN, BeaconReceived(active)
       PROVE  ServiceRestored'
  BY <1>34
  DEF BeaconReceived, macVars, workVars, ServiceRestored, InChunk
<1>35. CASE UNCHANGED vars
  BY <1>35
  DEF vars, scanVars, coreVars, macVars, workVars, ServiceRestored, InChunk
<1> QED
  BY <1>2, <1>3, <1>4, <1>5, <1>6, <1>7, <1>8, <1>9, <1>10, <1>11, <1>12,
     <1>13, <1>14, <1>15, <1>16, <1>17, <1>18, <1>19, <1>20, <1>21, <1>22,
     <1>23, <1>24, <1>25, <1>26, <1>27, <1>28, <1>29, <1>30, <1>31, <1>32,
     <1>33, <1>34, <1>35
  DEF Next, User, Work, Unload

\* The assertion of complete_or_continue, and the use of the progmodels.
LEMMA CompletedStep ==
  ASSUME TypeOK, UnloadInv, ScanInv, CompletedOnce,
         [Next]_vars
  PROVE  CompletedOnce'
<1>1. CASE UNCHANGED <<broken, net_state, is_stopping>>
  BY <1>1 DEF CompletedOnce
<1>2. ASSUME NEW b \in Bands, ConnectSta(b)
      PROVE  CompletedOnce'
  BY <1>2
  DEF ConnectSta, Free, Activated, Alive, CompletedOnce
<1>3. CASE DisconnectStaBlocked
  BY <1>3
  DEF DisconnectStaBlocked, Free, SendDisconnectReq, workVars, CompletedOnce
<1>4. CASE DisconnectSta
  BY <1>4
  DEF DisconnectSta, Alive, Free, SendDisconnectReq, scanVars, CompletedOnce
<1>5. CASE Deactivate
  BY <1>5
  DEF Deactivate, Free, SendDisconnectReq, workVars, CompletedOnce
<1>6. CASE ScanNextChunk
  BY <1>6, Healthy
  DEF ScanNextChunk, Alive, Return, coreVars, Idle, CompletedOnce, Dead,
      Running, InScan, Progmodels, UnloadInv
<1>7. CASE CompleteOrContinue
  BY <1>7, Healthy
  DEF CompleteOrContinue, Complete, coreVars, macVars, CompletedOnce, Dead,
      Running, InScan, Progmodels, UnloadInv
<1>8. CASE SyncDone
  BY <1>8
  DEF SyncDone, Idle, Activated, scanVars, Alive, CompletedOnce
<1>9. ASSUME NEW back \in SwitchResults, NEW woken \in Outcomes,
             ScanConfirmed(back, woken)
      PROVE  CompletedOnce'
  <2>1. CASE Dead \/ ~serial
    BY <1>9, <2>1 DEF ScanConfirmed, CompletedOnce, Dead, UnloadInv, coreVars
  <2>2. CASE ~Dead /\ serial
    <3>1. Progmodels /\ Running
      BY <2>2, Healthy
    <3>2. home \in Bands /\ wpc = "confirmed"
      BY <1>9 DEF TypeOK, BandTypeOK, ScanConfirmed
    <3>3. home \in progmodels
      BY <3>1, <3>2
      DEF Progmodels, Running, InScan, FirstBand, SecondBand, Bands, None
    <3> QED BY <1>9, <3>3 DEF ScanConfirmed, CompletedOnce, coreVars
  <2> QED BY <2>1, <2>2
<1>10. CASE HandleDisconnectMe
  BY <1>10
  DEF HandleDisconnectMe, Free, SendDisconnectReq, scanVars, CompletedOnce
<1>11. CASE StopComplete
  BY <1>11
  DEF StopComplete, Complete, coreVars, macVars, workVars, CompletedOnce,
      UnloadInv, Dead
<1>12. CASE MacHalts
  BY <1>12
  DEF MacHalts, Alive, scanVars, macVars, workVars, CompletedOnce
<1>13. CASE PrepareStop
  BY <1>13
  DEF PrepareStop, scanVars, macVars, workVars, CompletedOnce
<1> QED
  BY <1>1, <1>2, <1>3, <1>4, <1>5, <1>6, <1>7, <1>8, <1>9, <1>10, <1>11,
     <1>12, <1>13
  DEF Next, User, Work, Unload, StopProcessing, StartScanning, DoScanCheck,
      DoScanXchg, DoScanReset, DoScanEvent, DoScanPreload, ScanCurrentBand,
      ScanNextChunkFails, CompleteFinish, SyncChunk, ScanUnconfirmed,
      ScanProceed, PauseElapsed, TakeTask, PrepareStopLook, StopFinish,
      Terminate, WaitCompletion, StopSerializer, CleanupLook, Cleanup,
      MacAnswers, PauseTimer, BeaconReceived, vars, scanVars, coreVars,
      macVars, workVars

\* Types of the scanner's flags.
LEMMA ScanTypeStep ==
  ASSUME TypeOK, LeftInv, BandInv, [Next]_vars
  PROVE  ScanTypeOK'
<1> USE MaxChunksAssumption
<1>1. CASE UNCHANGED <<is_running, treminate_scan, is_synchronous, completed,
                        chunk_event, is_background, rescan, is_cfm_timeout,
                        async, status, timer>>
  BY <1>1 DEF ScanTypeOK, TypeOK
<1>2. CASE StartScanning
  BY <1>2
  DEF StartScanning, Free, coreVars, macVars, ScanTypeOK, TypeOK
<1>3. ASSUME NEW b \in Bands, ConnectSta(b)
      PROVE  ScanTypeOK'
  BY <1>3
  DEF ConnectSta, Free, Activated, Alive, ScanTypeOK, TypeOK
<1>4. CASE DisconnectStaBlocked
  BY <1>4
  DEF DisconnectStaBlocked, Free, SendDisconnectReq, workVars, ScanTypeOK,
      TypeOK
<1>5. CASE Deactivate
  BY <1>5
  DEF Deactivate, Free, SendDisconnectReq, workVars, ScanTypeOK, TypeOK
<1>6. CASE DoScanXchg
  BY <1>6
  DEF DoScanXchg, Idle, coreVars, macVars, ScanTypeOK, TypeOK
<1>7. CASE DoScanReset
  BY <1>7
  DEF DoScanReset, macVars, ScanTypeOK, TypeOK
<1>8. CASE DoScanEvent
  BY <1>8
  DEF DoScanEvent, coreVars, macVars, ScanTypeOK, TypeOK
<1>9. CASE ScanNextChunk
  BY <1>9
  DEF ScanNextChunk, Alive, Return, coreVars, Idle, ScanTypeOK, TypeOK
<1>10. CASE CompleteOrContinue
  BY <1>10
  DEF CompleteOrContinue, Complete, coreVars, macVars, ScanTypeOK, TypeOK
<1>11. CASE CompleteFinish
  BY <1>11
  DEF CompleteFinish, Return, SignalCompleted, coreVars, macVars, Idle,
      ScanTypeOK, TypeOK
<1>12. CASE SyncChunk
  BY <1>12
  DEF SyncChunk, coreVars, macVars, ScanTypeOK, TypeOK
<1>13. CASE ScanProceed
  BY <1>13
  DEF ScanProceed, Return, coreVars, macVars, Idle, ScanTypeOK, TypeOK
<1>14. CASE PauseElapsed
  BY <1>14
  DEF PauseElapsed, SetupScanSequence, macVars, FirstBand, SecondBand,
      ScanTypeOK, TypeOK
<1>15. CASE StopComplete
  BY <1>15
  DEF StopComplete, Complete, coreVars, macVars, workVars, ScanTypeOK, TypeOK
<1>16. CASE StopFinish
  BY <1>16
  DEF StopFinish, coreVars, macVars, workVars, ScanTypeOK, TypeOK
<1>17. CASE Terminate("mark", "wait")
  BY <1>17
  DEF Terminate, coreVars, macVars, workVars, ScanTypeOK, TypeOK
<1>18. CASE Terminate("mark2", "wait2")
  BY <1>18
  DEF Terminate, coreVars, macVars, workVars, ScanTypeOK, TypeOK
<1>19. CASE Cleanup
  BY <1>19
  DEF Cleanup, ScanCfmClb, coreVars, macVars, ScheduleTask, ScanTypeOK,
      TypeOK
<1>20. CASE MacAnswers
  BY <1>20
  DEF MacAnswers, Alive, ScanCfmClb, coreVars, macVars, ScheduleTask,
      ScanTypeOK, TypeOK
<1>21. CASE PauseTimer
  BY <1>21
  DEF PauseTimer, ScheduleTask, coreVars, macVars, ScanTypeOK, TypeOK
<1>22. ASSUME NEW active \in BOOLEAN, BeaconReceived(active)
       PROVE  ScanTypeOK'
  BY <1>22
  DEF BeaconReceived, Alive, AddActiveScan, macVars, workVars, ScanTypeOK,
      TypeOK
<1> QED
  BY <1>1, <1>2, <1>3, <1>4, <1>5, <1>6, <1>7, <1>8, <1>9, <1>10, <1>11,
     <1>12, <1>13, <1>14, <1>15, <1>16, <1>17, <1>18, <1>19, <1>20, <1>21,
     <1>22
  DEF Next, User, Work, Unload, StopProcessing, DisconnectSta, DoScanCheck,
      DoScanPreload, ScanCurrentBand, ScanNextChunkFails, SyncDone,
      ScanUnconfirmed, ScanConfirmed, TakeTask, HandleDisconnectMe,
      PrepareStopLook, WaitCompletion, StopSerializer, CleanupLook, MacHalts,
      PrepareStop, vars, scanVars, coreVars, macVars, workVars

\* Types of the bands and of what is left of one.
LEMMA BandTypeStep ==
  ASSUME TypeOK, LeftInv, BandInv, [Next]_vars
  PROVE  BandTypeOK'
<1> USE MaxChunksAssumption
<1>1. CASE UNCHANGED <<cur_band, next_band, progmodels, left, hidden,
                        cb_scanned, home, loaded>>
  BY <1>1 DEF BandTypeOK, Bands, TypeOK
<1>2. ASSUME NEW b \in Bands, ConnectSta(b)
      PROVE  BandTypeOK'
  BY <1>2
  DEF ConnectSta, Free, Activated, Alive, BandTypeOK, Bands, TypeOK
<1>3. ASSUME NEW ok \in BOOLEAN, DoScanPreload(ok)
      PROVE  BandTypeOK'
  BY <1>3
  DEF DoScanPreload, FirstBand, SecondBand, coreVars, macVars, BandTypeOK,
      Bands, TypeOK
<1>4. ASSUME NEW n \in 0 .. MaxChunks, ScanCurrentBand(n)
      PROVE  BandTypeOK'
  BY <1>4
  DEF ScanCurrentBand, Failure, coreVars, macVars, BandTypeOK, Bands, TypeOK
<1>5. CASE ScanNextChunk
  BY <1>5
  DEF ScanNextChunk, Alive, Return, coreVars, Idle, BandTypeOK, Bands, TypeOK,
      LeftInv, BandInv, Begun, None
<1>6. ASSUME NEW slept \in BOOLEAN, NEW woken \in BOOLEAN,
             ScanNextChunkFails(slept, woken)
      PROVE  BandTypeOK'
  BY <1>6
  DEF ScanNextChunkFails, Alive, Failure, StartDataOnError, coreVars,
      BandTypeOK, Bands, TypeOK, LeftInv, BandInv, Begun, None
<1>7. CASE CompleteOrContinue
  <2>1. UNCHANGED <<cb_scanned, home, loaded>>
    BY <1>7 DEF CompleteOrContinue, coreVars, macVars
  <2>2. CASE next_band = None
    <3>1. /\ progmodels' = {} /\ left' = 0 /\ hidden' = FALSE
          /\ UNCHANGED <<cur_band, next_band>>
      BY <1>7, <2>2 DEF CompleteOrContinue, Complete
    <3>2. progmodels' \subseteq Bands
      BY <3>1
    <3>3. left' \in 0 .. MaxChunks + 1
      BY <3>1
    <3> QED BY <2>1, <3>1, <3>2, <3>3 DEF TypeOK, BandTypeOK
  <2>3. CASE next_band # None
    BY <1>7, <2>1, <2>3 DEF CompleteOrContinue, TypeOK, BandTypeOK
  <2> QED BY <2>2, <2>3
<1>8. CASE SyncDone
  <2>1. /\ UNCHANGED <<cur_band, next_band, progmodels, left, hidden, home>>
        /\ loaded' \in {loaded, home}
        /\ cb_scanned' \in {cb_scanned, cb_scanned \cup {home}}
    BY <1>8 DEF SyncDone, Activated, scanVars
  <2>2. loaded' \in Bands /\ cb_scanned' \subseteq Bands
    BY <2>1 DEF TypeOK, BandTypeOK
  <2> QED BY <2>1, <2>2 DEF TypeOK, BandTypeOK
<1>9. CASE ScanUnconfirmed
  BY <1>9
  DEF ScanUnconfirmed, coreVars, macVars, BandTypeOK, Bands, TypeOK
<1>10. ASSUME NEW back \in SwitchResults, NEW woken \in Outcomes,
              ScanConfirmed(back, woken)
       PROVE  BandTypeOK'
  BY <1>10
  DEF ScanConfirmed, SwitchBackProgmodel, scanVars, coreVars, BandTypeOK,
      Bands, TypeOK
<1>11. CASE ScanProceed
  BY <1>11
  DEF ScanProceed, Return, coreVars, macVars, Idle, BandTypeOK, Bands, TypeOK
<1>12. CASE PauseElapsed
  BY <1>12
  DEF PauseElapsed, SetupScanSequence, macVars, FirstBand, SecondBand,
      BandTypeOK, Bands, TypeOK
<1>13. CASE StopComplete
  <2>1. /\ progmodels' = {} /\ left' = 0 /\ hidden' = FALSE
        /\ next_band' = None /\ UNCHANGED <<cur_band, cb_scanned, home, loaded>>
    BY <1>13 DEF StopComplete, Complete, coreVars, macVars
  <2>2. progmodels' \subseteq Bands
    BY <2>1
  <2>3. left' \in 0 .. MaxChunks + 1
    BY <2>1
  <2> QED BY <2>1, <2>2, <2>3 DEF TypeOK, BandTypeOK
<1>14. ASSUME NEW active \in BOOLEAN, BeaconReceived(active)
       PROVE  BandTypeOK'
  BY <1>14
  DEF BeaconReceived, Alive, AddActiveScan, macVars, workVars, BandTypeOK,
      Bands, TypeOK, LeftInv
<1> QED
  BY <1>1, <1>2, <1>3, <1>4, <1>5, <1>6, <1>7, <1>8, <1>9, <1>10, <1>11,
     <1>12, <1>13, <1>14
  DEF Next, User, Work, Unload, StopProcessing, StartScanning,
      DisconnectStaBlocked, DisconnectSta, Deactivate, DoScanCheck,
      DoScanXchg, DoScanReset, DoScanEvent, CompleteFinish, SyncChunk,
      TakeTask, HandleDisconnectMe, PrepareStopLook, StopFinish, Terminate,
      WaitCompletion, StopSerializer, CleanupLook, Cleanup, MacAnswers,
      PauseTimer, MacHalts, PrepareStop, vars, scanVars, coreVars, macVars,
      workVars

\* Types of the core, the MAC and the flow control.
LEMMA CoreTypeStep ==
  ASSUME TypeOK, LeftInv, BandInv, [Next]_vars
  PROVE  CoreTypeOK'
<1> USE MaxChunksAssumption
<1>1. CASE UNCHANGED <<net_state, is_stopping, is_iface_stopping, cache,
                        country, ps, stopped, refused, config, broken>>
  BY <1>1 DEF CoreTypeOK, Configs, NetStates, TypeOK
<1>2. ASSUME NEW b \in Bands, ConnectSta(b)
      PROVE  CoreTypeOK'
  BY <1>2
  DEF ConnectSta, Free, Activated, Alive, CoreTypeOK, Configs, NetStates,
      TypeOK
<1>3. CASE DisconnectStaBlocked
  BY <1>3
  DEF DisconnectStaBlocked, Free, SendDisconnectReq, workVars, CoreTypeOK,
      Configs, NetStates, TypeOK
<1>4. CASE DisconnectSta
  BY <1>4
  DEF DisconnectSta, Alive, Free, SendDisconnectReq, scanVars, CoreTypeOK,
      Configs, NetStates, TypeOK
<1>5. CASE Deactivate
  BY <1>5
  DEF Deactivate, Free, SendDisconnectReq, workVars, CoreTypeOK, Configs,
      NetStates, TypeOK
<1>6. CASE DoScanReset
  BY <1>6
  DEF DoScanReset, macVars, CoreTypeOK, Configs, NetStates, TypeOK
<1>7. CASE ScanNextChunk
  BY <1>7
  DEF ScanNextChunk, Alive, Return, coreVars, Idle, CoreTypeOK, Configs,
      NetStates, TypeOK
<1>8. ASSUME NEW slept \in BOOLEAN, NEW woken \in BOOLEAN,
             ScanNextChunkFails(slept, woken)
      PROVE  CoreTypeOK'
  BY <1>8
  DEF ScanNextChunkFails, Alive, Failure, StartDataOnError, coreVars,
      CoreTypeOK, Configs, NetStates, TypeOK
<1>9. CASE CompleteOrContinue
  BY <1>9
  DEF CompleteOrContinue, Complete, coreVars, macVars, CoreTypeOK, Configs,
      NetStates, TypeOK
<1>10. CASE SyncDone
  BY <1>10
  DEF SyncDone, Idle, Activated, scanVars, Alive, CoreTypeOK, Configs,
      NetStates, TypeOK
<1>11. ASSUME NEW back \in SwitchResults, NEW woken \in Outcomes,
              ScanConfirmed(back, woken)
       PROVE  CoreTypeOK'
  <2>1. config' \in Configs
    BY <1>11
    DEF ScanConfirmed, SwitchBackProgmodel, SwitchResults, Configs,
        CoreTypeOK, TypeOK
  <2> QED
    BY <1>11, <2>1
    DEF ScanConfirmed, SwitchBackProgmodel, scanVars, coreVars, CoreTypeOK,
        NetStates, TypeOK
<1>12. CASE PauseElapsed
  BY <1>12
  DEF PauseElapsed, SetupScanSequence, macVars, FirstBand, SecondBand,
      CoreTypeOK, Configs, NetStates, TypeOK
<1>13. CASE HandleDisconnectMe
  BY <1>13
  DEF HandleDisconnectMe, Free, SendDisconnectReq, scanVars, CoreTypeOK,
      Configs, NetStates, TypeOK
<1>14. CASE StopComplete
  BY <1>14
  DEF StopComplete, Complete, coreVars, macVars, workVars, CoreTypeOK,
      Configs, NetStates, TypeOK
<1>15. CASE WaitCompletion
  BY <1>15
  DEF WaitCompletion, scanVars, macVars, workVars, CoreTypeOK, Configs,
      NetStates, TypeOK
<1>16. CASE MacHalts
  BY <1>16
  DEF MacHalts, Alive, scanVars, macVars, workVars, CoreTypeOK, Configs,
      NetStates, TypeOK
<1>17. CASE PrepareStop
  BY <1>17
  DEF PrepareStop, scanVars, macVars, workVars, CoreTypeOK, Configs,
      NetStates, TypeOK
<1>18. ASSUME NEW active \in BOOLEAN, BeaconReceived(active)
       PROVE  CoreTypeOK'
  BY <1>18
  DEF BeaconReceived, Alive, AddActiveScan, macVars, workVars, CoreTypeOK,
      Configs, NetStates, TypeOK
<1> QED
  BY <1>1, <1>2, <1>3, <1>4, <1>5, <1>6, <1>7, <1>8, <1>9, <1>10, <1>11,
     <1>12, <1>13, <1>14, <1>15, <1>16, <1>17, <1>18
  DEF Next, User, Work, Unload, StopProcessing, StartScanning, DoScanCheck,
      DoScanXchg, DoScanEvent, DoScanPreload, ScanCurrentBand, CompleteFinish,
      SyncChunk, ScanUnconfirmed, ScanProceed, TakeTask, PrepareStopLook,
      StopFinish, Terminate, StopSerializer, CleanupLook, Cleanup, MacAnswers,
      PauseTimer, vars, scanVars, coreVars, macVars, workVars

\* Types of the worker, its queue and the unloading thread.
LEMMA WorkTypeStep ==
  ASSUME TypeOK, LeftInv, BandInv, [Next]_vars
  PROVE  WorkTypeOK'
<1> USE MaxChunksAssumption
<1>1. CASE UNCHANGED <<wpc, task, res, queue, serial, rpc>>
  BY <1>1 DEF WorkTypeOK, WorkSteps, Tasks, StopSteps, TypeOK
<1>2. CASE StartScanning
  BY <1>2
  DEF StartScanning, Free, coreVars, macVars, WorkTypeOK, WorkSteps, Tasks,
      StopSteps, TypeOK
<1>3. ASSUME NEW b \in Bands, ConnectSta(b)
      PROVE  WorkTypeOK'
  BY <1>3
  DEF ConnectSta, Free, Activated, Alive, WorkTypeOK, WorkSteps, Tasks,
      StopSteps, TypeOK
<1>4. CASE DisconnectSta
  BY <1>4
  DEF DisconnectSta, Alive, Free, SendDisconnectReq, scanVars, WorkTypeOK,
      WorkSteps, Tasks, StopSteps, TypeOK
<1>5. CASE DoScanCheck
  BY <1>5
  DEF DoScanCheck, Idle, scanVars, coreVars, macVars, WorkTypeOK, WorkSteps,
      Tasks, StopSteps, TypeOK
<1>6. CASE DoScanXchg
  BY <1>6
  DEF DoScanXchg, Idle, coreVars, macVars, WorkTypeOK, WorkSteps, Tasks,
      StopSteps, TypeOK
<1>7. CASE DoScanReset
  BY <1>7
  DEF DoScanReset, macVars, WorkTypeOK, WorkSteps, Tasks, StopSteps, TypeOK
<1>8. CASE DoScanEvent
  BY <1>8
  DEF DoScanEvent, coreVars, macVars, WorkTypeOK, WorkSteps, Tasks, StopSteps,
      TypeOK
<1>9. ASSUME NEW ok \in BOOLEAN, DoScanPreload(ok)
      PROVE  WorkTypeOK'
  BY <1>9
  DEF DoScanPreload, FirstBand, SecondBand, coreVars, macVars, WorkTypeOK,
      WorkSteps, Tasks, StopSteps, TypeOK
<1>10. ASSUME NEW n \in 0 .. MaxChunks, ScanCurrentBand(n)
       PROVE  WorkTypeOK'
  BY <1>10
  DEF ScanCurrentBand, Failure, coreVars, macVars, WorkTypeOK, WorkSteps,
      Tasks, StopSteps, TypeOK
<1>11. CASE ScanNextChunk
  BY <1>11
  DEF ScanNextChunk, Alive, Return, coreVars, Idle, WorkTypeOK, WorkSteps,
      Tasks, StopSteps, TypeOK
<1>12. ASSUME NEW slept \in BOOLEAN, NEW woken \in BOOLEAN,
              ScanNextChunkFails(slept, woken)
       PROVE  WorkTypeOK'
  BY <1>12
  DEF ScanNextChunkFails, Alive, Failure, StartDataOnError, coreVars,
      WorkTypeOK, WorkSteps, Tasks, StopSteps, TypeOK
<1>13. CASE CompleteOrContinue
  BY <1>13
  DEF CompleteOrContinue, Complete, coreVars, macVars, WorkTypeOK, WorkSteps,
      Tasks, StopSteps, TypeOK
<1>14. CASE CompleteFinish
  BY <1>14
  DEF CompleteFinish, Return, SignalCompleted, coreVars, macVars, Idle,
      WorkTypeOK, WorkSteps, Tasks, StopSteps, TypeOK
<1>15. CASE SyncDone
  BY <1>15
  DEF SyncDone, Idle, Activated, scanVars, Alive, WorkTypeOK, WorkSteps,
      Tasks, StopSteps, TypeOK
<1>16. CASE SyncChunk
  BY <1>16
  DEF SyncChunk, coreVars, macVars, WorkTypeOK, WorkSteps, Tasks, StopSteps,
      TypeOK
<1>17. CASE ScanUnconfirmed
  BY <1>17
  DEF ScanUnconfirmed, coreVars, macVars, WorkTypeOK, WorkSteps, Tasks,
      StopSteps, TypeOK
<1>18. ASSUME NEW back \in SwitchResults, NEW woken \in Outcomes,
              ScanConfirmed(back, woken)
       PROVE  WorkTypeOK'
  BY <1>18
  DEF ScanConfirmed, SwitchBackProgmodel, scanVars, coreVars, WorkTypeOK,
      WorkSteps, Tasks, StopSteps, TypeOK
<1>19. CASE ScanProceed
  BY <1>19
  DEF ScanProceed, Return, coreVars, macVars, Idle, WorkTypeOK, WorkSteps,
      Tasks, StopSteps, TypeOK
<1>20. CASE PauseElapsed
  BY <1>20
  DEF PauseElapsed, SetupScanSequence, macVars, FirstBand, SecondBand,
      WorkTypeOK, WorkSteps, Tasks, StopSteps, TypeOK
<1>21. ASSUME NEW t \in queue, TakeTask(t)
       PROVE  WorkTypeOK'
  BY <1>21
  DEF TakeTask, Free, scanVars, coreVars, macVars, WorkTypeOK, WorkSteps,
      Tasks, StopSteps, TypeOK
<1>22. CASE HandleDisconnectMe
  BY <1>22
  DEF HandleDisconnectMe, Free, SendDisconnectReq, scanVars, WorkTypeOK,
      WorkSteps, Tasks, StopSteps, TypeOK
<1>23. CASE PrepareStopLook
  BY <1>23
  DEF PrepareStopLook, Alive, scanVars, coreVars, macVars, workVars,
      WorkTypeOK, WorkSteps, Tasks, StopSteps, TypeOK
<1>24. CASE StopComplete
  BY <1>24
  DEF StopComplete, Complete, coreVars, macVars, workVars, WorkTypeOK,
      WorkSteps, Tasks, StopSteps, TypeOK
<1>25. CASE StopFinish
  BY <1>25
  DEF StopFinish, coreVars, macVars, workVars, WorkTypeOK, WorkSteps, Tasks,
      StopSteps, TypeOK
<1>26. CASE Terminate("mark", "wait")
  BY <1>26
  DEF Terminate, coreVars, macVars, workVars, WorkTypeOK, WorkSteps, Tasks,
      StopSteps, TypeOK
<1>27. CASE WaitCompletion
  BY <1>27
  DEF WaitCompletion, scanVars, macVars, workVars, WorkTypeOK, WorkSteps,
      Tasks, StopSteps, TypeOK
<1>28. CASE StopSerializer
  BY <1>28
  DEF StopSerializer, scanVars, coreVars, macVars, WorkTypeOK, WorkSteps,
      Tasks, StopSteps, TypeOK
<1>29. CASE CleanupLook
  BY <1>29
  DEF CleanupLook, scanVars, coreVars, macVars, workVars, WorkTypeOK,
      WorkSteps, Tasks, StopSteps, TypeOK
<1>30. CASE Terminate("mark2", "wait2")
  BY <1>30
  DEF Terminate, coreVars, macVars, workVars, WorkTypeOK, WorkSteps, Tasks,
      StopSteps, TypeOK
<1>31. CASE Cleanup
  BY <1>31
  DEF Cleanup, ScanCfmClb, coreVars, macVars, ScheduleTask, WorkTypeOK,
      WorkSteps, Tasks, StopSteps, TypeOK
<1>32. CASE MacAnswers
  BY <1>32
  DEF MacAnswers, Alive, ScanCfmClb, coreVars, macVars, ScheduleTask,
      WorkTypeOK, WorkSteps, Tasks, StopSteps, TypeOK
<1>33. CASE PauseTimer
  BY <1>33
  DEF PauseTimer, ScheduleTask, coreVars, macVars, WorkTypeOK, WorkSteps,
      Tasks, StopSteps, TypeOK
<1>34. CASE PrepareStop
  BY <1>34
  DEF PrepareStop, scanVars, macVars, workVars, WorkTypeOK, WorkSteps, Tasks,
      StopSteps, TypeOK
<1>35. CASE StopProcessing
  BY <1>35
  DEF StopProcessing, scanVars, coreVars, macVars, workVars, WorkTypeOK,
      WorkSteps, Tasks, StopSteps, TypeOK
<1> QED
  BY <1>1, <1>2, <1>3, <1>4, <1>5, <1>6, <1>7, <1>8, <1>9, <1>10, <1>11,
     <1>12, <1>13, <1>14, <1>15, <1>16, <1>17, <1>18, <1>19, <1>20, <1>21,
     <1>22, <1>23, <1>24, <1>25, <1>26, <1>27, <1>28, <1>29, <1>30, <1>31,
     <1>32, <1>33, <1>34, <1>35
  DEF Next, User, Work, Unload, StopProcessing, DisconnectStaBlocked,
      Deactivate, MacHalts, BeaconReceived, vars, scanVars, coreVars, macVars,
      workVars

-----------------------------------------------------------------------------
(***************************************************************************)
(* The theorems.                                                            *)
(***************************************************************************)
\* The inductive invariant holds.
LEMMA Inductive == Spec => []IInv
<1>1. Init => IInv
  <2> SUFFICES ASSUME Init PROVE IInv
    OBVIOUS
  <2>1. ScanTypeOK /\ CoreTypeOK
    BY DEF Init, ScanTypeOK, CoreTypeOK, Configs, NetStates
  <2>2. BandTypeOK
    <3>1. progmodels \subseteq Bands /\ cb_scanned \subseteq Bands
      BY DEF Init
    <3>2. left \in 0 .. MaxChunks + 1
      BY MaxChunksAssumption DEF Init
    <3> QED BY <3>1, <3>2 DEF Init, BandTypeOK
  <2>3. WorkTypeOK
    <3>1. queue \subseteq Tasks
      BY DEF Init
    <3> QED BY <3>1 DEF Init, WorkTypeOK, WorkSteps, StopSteps
  <2>4. LeftInv /\ BandInv /\ UnloadInv
    BY DEF Init, LeftInv, BandInv, Begun, UnloadInv, Stopped
  <2>5. ScanInv
    BY DEF Init, ScanInv, OnePlace, InScan, Running, Synchronous, Progmodels
  <2>6. ModeInv /\ FlowHeld /\ ServiceRestored /\ CompletedOnce
    BY DEF Init, ModeInv, FlowHeld, ServiceRestored, CompletedOnce
  <2> QED BY <2>1, <2>2, <2>3, <2>4, <2>5, <2>6 DEF IInv, TypeOK
<1>2. ASSUME IInv, [Next]_vars
      PROVE  IInv'
  <2> USE <1>2 DEF IInv
  <2>1. TypeOK'
    BY ScanTypeStep, BandTypeStep, CoreTypeStep, WorkTypeStep DEF TypeOK
  <2>2. LeftInv' /\ BandInv' /\ UnloadInv'
    BY LeftStep, BandStep, UnloadStep
  <2>3. ScanInv'
    BY ScanStep
  <2>4. ModeInv' /\ FlowHeld' /\ ServiceRestored' /\ CompletedOnce'
    BY ModeStep, FlowStep, ServiceStep, CompletedStep
  <2> QED BY <2>1, <2>2, <2>3, <2>4
<1> QED BY <1>1, <1>2, PTL DEF Spec

\* Every field of the scanner keeps its type; the requests a band still needs
\* never run below zero nor beyond those prepared and one for a hidden BSS, and
\* no band is scanned that was not set (a chunk is sent for cur_band).
THEOREM TypeCorrect == Spec => []TypeOK
BY Inductive, PTL DEF IInv

\* The scanner holds the flow of data only while a chunk is on its way, on all
\* paths through scan_next_chunk, the confirmation and the error handling.
THEOREM FlowHeldCorrect == Spec => []FlowHeld
BY Inductive, PTL DEF IInv

\* Between the chunks of a background scan and after it, a connected station is
\* out of power save and on its home band again, with the parameters of its BSS
\* unless the BSS is missing in the cache that do_scan cleared, as long as the
\* MAC answers and refuses nothing.
THEOREM ServiceRestoredCorrect == Spec => []ServiceRestored
BY Inductive, PTL DEF IInv

\* complete_or_continue ends a running scan, once, and no progmodel is used
\* after it was given back, as long as the MAC lives or nobody unloads.
THEOREM CompletedOnceCorrect == Spec => []CompletedOnce
BY Inductive, PTL DEF IInv

=============================================================================
