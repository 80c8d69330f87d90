------------------------------- MODULE Scan -------------------------------
(* The scanner of a station interface (scan.c, and the send and confirmation  *)
(* functions of rflib/shared/mtlk_scan.c): a scan goes band by band, a band   *)
(* chunk by chunk.  A chunk is one UM_MAN_SCAN_REQ; a background scan (of a   *)
(* connected station) puts the MAC into power save for every chunk, comes     *)
(* back to the home band afterwards and pauses.                               *)
(*                                                                            *)
(* Threads: the worker of the serializer runs the requests of the user, the   *)
(* confirmations and the ends of pauses, one after the other; a synchronous   *)
(* scan keeps it inside mtlk_scan_sync until the scan is over.  The thread    *)
(* that unloads the driver stops a scan from outside.  Callbacks of TXMM, the *)
(* pause timer and received beacons come between any two steps of them.       *)
EXTENDS Naturals, FiniteSets

CONSTANTS
  MaxChunks    \* bound: scan requests that one preparation of a band needs

ASSUME MaxChunksAssumption == MaxChunks \in Nat \ {0}

Bands == {"5.2", "2.4"}
None == "none"

VARIABLES
  \* struct mtlk_scan
  is_running, treminate_scan, is_synchronous, completed, chunk_event,
  is_background, rescan, is_cfm_timeout, cur_band, next_band, progmodels,
  left,          \* requests the vector of the band still needs (used - ch_offset)
  hidden,        \* a channel of the vector may still get an active scan
  async,         \* the request of the chunk is with the MAC
  status,        \* the status in its confirmation
  timer,         \* pause_timer is set
  \* the core of the interface
  net_state, is_stopping, is_iface_stopping, cb_scanned, home, country,
  cache,         \* some BSS is in the cache
  \* the MAC and the flow control
  ps, loaded, stopped,
  config,        \* whose parameters the MAC has: the BSS's or the scan's
  \* the worker of the serializer
  wpc, task, res, queue, serial,
  rpc,           \* the thread that unloads the driver
  refused,       \* the MAC refused to serve the home band again
  broken         \* ghost: an assertion failed or a missing progmodel was used

scanVars == <<is_running, treminate_scan, is_synchronous, completed,
              chunk_event, is_background, rescan, is_cfm_timeout, cur_band,
              next_band, progmodels, left, hidden, async, status, timer>>
coreVars == <<net_state, is_stopping, is_iface_stopping, cb_scanned, home,
              cache, country>>
macVars == <<ps, loaded, stopped, config, refused>>
workVars == <<wpc, task, res, queue, serial>>
vars == <<scanVars, coreVars, macVars, workVars, rpc, broken>>

NetStates == {"READY", "CONNECTED", "DISCONNECTING", "HALTED"}
WorkSteps == {"idle", "check", "xchg", "reset", "event", "preload", "band",
              "chunk", "complete", "finish", "confirmed", "proceed",
              "elapsed", "syncwait"}
Tasks == {"confirm", "pause", "disconnect"}

(* mtlk_aux_pm_related_params_set_bss_based, or set_defaults for a chunk; the *)
(* latter stay when the BSS is not in the cache after the chunk ("unknown").  *)
Configs == {"bss", "scan", "unknown"}

StopSteps == {"up", "look", "complete", "finish", "mark", "wait", "vaps",
              "drain", "cleanup", "mark2", "wait2", "release", "down"}

\* The type invariant of the module.
ScanTypeOK ==
  /\ is_running \in BOOLEAN /\ treminate_scan \in BOOLEAN
  /\ is_synchronous \in BOOLEAN /\ completed \in BOOLEAN
  /\ chunk_event \in BOOLEAN /\ is_background \in BOOLEAN
  /\ rescan \in BOOLEAN /\ is_cfm_timeout \in BOOLEAN
  /\ async \in BOOLEAN /\ status \in BOOLEAN /\ timer \in BOOLEAN
BandTypeOK ==
  /\ cur_band \in Bands \cup {None} /\ next_band \in Bands \cup {None}
  /\ progmodels \subseteq Bands /\ cb_scanned \subseteq Bands
  /\ home \in Bands /\ loaded \in Bands
  /\ left \in 0 .. MaxChunks + 1 /\ hidden \in BOOLEAN
CoreTypeOK ==
  /\ net_state \in NetStates
  /\ is_stopping \in BOOLEAN /\ is_iface_stopping \in BOOLEAN
  /\ cache \in BOOLEAN /\ country \in BOOLEAN /\ ps \in BOOLEAN
  /\ stopped \in BOOLEAN /\ refused \in BOOLEAN /\ broken \in BOOLEAN
  /\ config \in Configs
WorkTypeOK ==
  /\ wpc \in WorkSteps /\ task \in Tasks \cup {"none", "scan", "sync"}
  /\ res \in {"do_scan", "ok", "failed"}
  /\ queue \subseteq Tasks /\ serial \in BOOLEAN /\ rpc \in StopSteps
TypeOK == ScanTypeOK /\ BandTypeOK /\ CoreTypeOK /\ WorkTypeOK

Init ==
  /\ is_running = FALSE /\ treminate_scan = FALSE /\ is_synchronous = FALSE
  /\ completed = FALSE /\ chunk_event = FALSE /\ is_background = FALSE
  /\ rescan = FALSE /\ is_cfm_timeout = FALSE /\ cur_band = None
  /\ next_band = None /\ progmodels = {} /\ left = 0 /\ hidden = FALSE
  /\ async = FALSE /\ status = TRUE /\ timer = FALSE
  /\ net_state = "READY" /\ is_stopping = FALSE /\ is_iface_stopping = FALSE
  /\ cb_scanned = {} /\ home \in Bands /\ cache = FALSE /\ country \in BOOLEAN
  /\ ps = FALSE /\ loaded = home /\ stopped = FALSE /\ refused = FALSE
  /\ config = "scan"
  /\ wpc = "idle" /\ task = "none" /\ res = "ok" /\ queue = {}
  /\ serial = TRUE /\ rpc = "up" /\ broken = FALSE

(* The MAC answers requests until it crashes.                                 *)
Alive == net_state # "HALTED"

\* What a request to the MAC may end with: TRUE is success.
Outcomes == IF Alive THEN BOOLEAN ELSE {FALSE}

\* The serializer takes commands; one that is stopped works off its queue.
Accepts == serial /\ rpc # "drain"

\* The worker is done with its task.
Idle == wpc' = "idle" /\ task' = "none" /\ res' = "ok"

\* A function of the scanner returns: to the loop of mtlk_scan_sync or out.
Return ==
  IF task = "sync" THEN wpc' = "syncwait" /\ UNCHANGED <<task, res>> ELSE Idle

\* A failure is the result of do_scan; the handlers that go on with a scan
\* keep it to themselves.
Failure == IF res = "do_scan" THEN "failed" ELSE res

(****************************************************************************)
(* The worker: requests of the user.                                        *)
(****************************************************************************)

\* The worker is free for a request of the user, which goes before the rest and
\* may have waited in the queue of the serializer.
Free == serial /\ wpc = "idle"

\* A user asks for a scan: in the background if the station is connected.
StartScanning ==
  /\ Free /\ net_state \in {"READY", "CONNECTED"} /\ ~is_running
  /\ ~is_stopping /\ ~is_iface_stopping
  /\ is_background' = (net_state = "CONNECTED")
  /\ wpc' = "check" /\ task' = "scan"
  /\ UNCHANGED <<is_running, treminate_scan, is_synchronous, completed,
                 chunk_event, rescan, is_cfm_timeout, cur_band, next_band,
                 progmodels, left, hidden, async, status, timer, coreVars,
                 macVars, res, queue, serial, rpc, broken>>

\* mtlk_send_activate and the connection event: the outcome of a connection.
\* The MAC begins an association out of power save (external).
Activated ==
  \/ /\ Alive /\ net_state' = "CONNECTED" /\ loaded' = home'
     /\ config' = "bss" /\ ps' = FALSE /\ refused' = FALSE
  \/ /\ loaded' \in {loaded, home'}
     /\ UNCHANGED <<net_state, config, ps, refused>>

\* A user connects the station to a BSS of the cache.  The first connection
\* in a band begins with a synchronous scan of it.
ConnectSta(band) ==
  /\ Free /\ net_state = "READY" /\ ~is_running
  /\ ~is_stopping /\ ~is_iface_stopping /\ cache
  /\ home' = band
  /\ IF band \in cb_scanned
       THEN Activated /\ UNCHANGED <<wpc, task, chunk_event>>
       ELSE /\ wpc' = "check" /\ task' = "sync" /\ chunk_event' = FALSE
            /\ UNCHANGED <<net_state, loaded, config, ps, refused>>
  /\ UNCHANGED <<is_running, treminate_scan, is_synchronous, completed,
                 is_background, rescan, is_cfm_timeout, cur_band, next_band,
                 progmodels, left, hidden, async, status, timer, is_stopping,
                 is_iface_stopping, cb_scanned, cache, country, stopped, res,
                 queue, serial, rpc, broken>>

\* UM_MAN_DISCONNECT_REQ: the state stays DISCONNECTING when it fails.  The
\* MAC leaves power save with the association (external), and what it has been
\* given or has refused is of no interest any more.
SendDisconnectReq ==
  /\ net_state' \in {"READY", "DISCONNECTING"}
  /\ ps' = FALSE /\ config' = "scan" /\ refused' = FALSE

\* The MAC reports that the station lost its BSS: a background scan is
\* terminated and the scanner goes back to normal mode at once.
DisconnectStaBlocked ==
  /\ Free /\ net_state = "CONNECTED"
  /\ treminate_scan' = (treminate_scan \/ is_running)
  /\ is_background' = FALSE
  /\ SendDisconnectReq
  /\ UNCHANGED <<is_running, is_synchronous, completed, chunk_event, rescan,
                 is_cfm_timeout, cur_band, next_band, progmodels, left, hidden,
                 async, status, timer, is_stopping, is_iface_stopping,
                 cb_scanned, home, cache, country, loaded, stopped, workVars,
                 rpc, broken>>

\* A user disconnects the station, or a supervision does: while a scan runs,
\* the task goes to the back of the queue again.  A halted MAC is sent nothing.
DisconnectSta ==
  /\ Free /\ net_state \in {"CONNECTED", "HALTED"}
  /\ queue' = IF is_running /\ Accepts THEN queue \cup {"disconnect"} ELSE queue
  /\ IF is_running \/ ~Alive THEN UNCHANGED <<net_state, ps, config, refused>>
                             ELSE SendDisconnectReq
  /\ UNCHANGED <<scanVars, is_stopping, is_iface_stopping, cb_scanned, home,
                 cache, country, loaded, stopped, wpc, task, res, serial,
                 rpc, broken>>

\* The task of DisconnectSta once no scan runs (until then it puts itself back
\* into the queue, which a stopped serializer refuses); its priority is the
\* lowest.
HandleDisconnectMe ==
  /\ Free /\ queue = {"disconnect"} /\ (is_running => ~Accepts)
  /\ queue' = {}
  /\ IF net_state = "CONNECTED" /\ ~is_running
       THEN SendDisconnectReq ELSE UNCHANGED <<net_state, ps, config, refused>>
  /\ UNCHANGED <<scanVars, is_stopping, is_iface_stopping, cb_scanned, home,
                 cache, country, loaded, stopped, wpc, task, res, serial,
                 rpc, broken>>

\* The interface is taken down: refused, to be tried again, while a scan runs.
Deactivate ==
  /\ Free
  /\ IF is_running
       THEN /\ treminate_scan' = (treminate_scan \/ ~is_iface_stopping)
            /\ is_iface_stopping' = TRUE
            /\ UNCHANGED <<net_state, ps, config, refused, cache>>
       ELSE /\ is_iface_stopping' = FALSE /\ cache' = FALSE
            /\ UNCHANGED treminate_scan
            /\ IF net_state = "CONNECTED"
                 THEN SendDisconnectReq
                 ELSE UNCHANGED <<net_state, ps, config, refused>>
  /\ UNCHANGED <<is_running, is_synchronous, completed, chunk_event,
                 is_background, rescan, is_cfm_timeout, cur_band, next_band,
                 progmodels, left, hidden, async, status, timer, is_stopping,
                 cb_scanned, home, country, loaded, stopped, workVars,
                 rpc, broken>>

(****************************************************************************)
(* The worker: do_scan.                                                     *)
(****************************************************************************)

\* No scan is begun by a core that stops.
DoScanCheck ==
  /\ wpc = "check"
  /\ IF is_stopping \/ is_iface_stopping
       THEN Idle ELSE wpc' = "xchg" /\ UNCHANGED <<task, res>>
  /\ UNCHANGED <<scanVars, coreVars, macVars, queue, serial, rpc, broken>>

DoScanXchg ==
  /\ wpc = "xchg"
  /\ is_running' = TRUE
  /\ IF is_running THEN Idle ELSE wpc' = "reset" /\ UNCHANGED <<task, res>>
  /\ UNCHANGED <<treminate_scan, is_synchronous, completed, chunk_event,
                 is_background, rescan, is_cfm_timeout, cur_band, next_band,
                 progmodels, left, hidden, async, status, timer, coreVars,
                 macVars, queue, serial, rpc, broken>>

DoScanReset ==
  /\ wpc = "reset" /\ wpc' = "event"
  /\ cache' = FALSE /\ treminate_scan' = FALSE
  /\ is_synchronous' = (task = "sync")
  /\ UNCHANGED <<is_running, completed, chunk_event, is_background, rescan,
                 is_cfm_timeout, cur_band, next_band, progmodels, left, hidden,
                 async, status, timer, net_state, is_stopping,
                 is_iface_stopping, cb_scanned, home, country, macVars, task,
                 res, queue, serial, rpc, broken>>

DoScanEvent ==
  /\ wpc = "event" /\ wpc' = "preload" /\ completed' = FALSE
  /\ UNCHANGED <<is_running, treminate_scan, is_synchronous, chunk_event,
                 is_background, rescan, is_cfm_timeout, cur_band, next_band,
                 progmodels, left, hidden, async, status, timer, coreVars,
                 macVars, task, res, queue, serial, rpc, broken>>

\* The bands in their order: a user's scan takes both, a synchronous scan the
\* band of the connection.
FirstBand == IF is_synchronous THEN home ELSE "5.2"
SecondBand == IF is_synchronous THEN None ELSE "2.4"

\* Mutated form: a synchronous scan that begins again takes both bands.
SetupScanSequenceBoth == cur_band' = "5.2" /\ next_band' = "2.4"

\* setup_scan_sequence.
SetupScanSequence == cur_band' = FirstBand /\ next_band' = SecondBand

DoScanPreload(ok) ==
  /\ wpc = "preload"
  /\ cur_band' = FirstBand
  /\ IF ok
       THEN /\ next_band' = SecondBand
            /\ progmodels' = {FirstBand, SecondBand} \ {None}
            /\ wpc' = "band" /\ res' = "do_scan"
       ELSE /\ next_band' = None /\ progmodels' = {}
            /\ wpc' = "complete" /\ res' = "failed"
  /\ UNCHANGED <<is_running, treminate_scan, is_synchronous, completed,
                 chunk_event, is_background, rescan, is_cfm_timeout, left,
                 hidden, async, status, timer, coreVars, macVars, task, queue,
                 serial, rpc, broken>>

(****************************************************************************)
(* The worker: bands and chunks.                                            *)
(****************************************************************************)

\* scan_current_band: the vector of the band has channels for n requests, or
\* it cannot be prepared (n = 0) and the next band is tried.
ScanCurrentBand(n) ==
  /\ wpc = "band"
  /\ left' = n /\ hidden' = (n > 0)
  /\ wpc' = IF n = 0 THEN "complete" ELSE "chunk"
  /\ res' = IF n = 0 THEN Failure ELSE res
  /\ UNCHANGED <<is_running, treminate_scan, is_synchronous, completed,
                 chunk_event, is_background, rescan, is_cfm_timeout, cur_band,
                 next_band, progmodels, async, status, timer, coreVars,
                 macVars, task, queue, serial, rpc, broken>>

\* scan_next_chunk: the flow of data stops, the MAC goes to power save and to
\* the band, and the request is sent.
ScanNextChunk ==
  /\ wpc = "chunk" /\ Alive
  /\ stopped' = TRUE /\ ps' = (ps \/ is_background) /\ loaded' = cur_band
  /\ config' = "scan"
  /\ broken' = (broken \/ cur_band \notin progmodels)
  /\ async' = TRUE /\ left' = left - 1
  /\ Return
  /\ UNCHANGED <<is_running, treminate_scan, is_synchronous, completed,
                 chunk_event, is_background, rescan, is_cfm_timeout, cur_band,
                 next_band, progmodels, hidden, status, timer, coreVars,
                 refused, queue, serial, rpc>>

\* Mutated form: the error path of scan_next_chunk keeps the flow stopped.
StartDataForgotten == stopped' = TRUE

\* The error path of scan_next_chunk starts the flow of data again.
StartDataOnError == stopped' = FALSE

\* scan_next_chunk fails at the power save request (~slept), or after it at the
\* progmodel or the scan request; power save is left again if the MAC agrees
\* (woken), the band is not.  The caller gives the scan up.
ScanNextChunkFails(slept, woken) ==
  /\ wpc = "chunk"
  /\ slept => Alive /\ is_background
  /\ woken => slept
  /\ StartDataOnError
  /\ ps' = ((ps \/ slept) /\ ~woken)
  /\ refused' = (refused \/ slept)
  /\ IF Alive /\ (is_background => slept)
       THEN loaded' \in {loaded, cur_band} /\ config' \in {config, "scan"}
       ELSE UNCHANGED <<loaded, config>>
  /\ next_band' = None /\ wpc' = "complete" /\ res' = Failure
  /\ UNCHANGED <<is_running, treminate_scan, is_synchronous, completed,
                 chunk_event, is_background, rescan, is_cfm_timeout, cur_band,
                 progmodels, left, hidden, async, status, timer, coreVars,
                 task, queue, serial, rpc, broken>>

(****************************************************************************)
(* complete_or_continue, on the worker or on the unloading thread.          *)
(****************************************************************************)

\* The scan ends: is_running was expected to be set (scan.c:439).
Complete ==
  /\ progmodels' = {} /\ is_running' = FALSE
  /\ left' = 0 /\ hidden' = FALSE
  /\ broken' = (broken \/ ~is_running)

CompleteOrContinue ==
  /\ wpc = "complete"
  /\ IF next_band = None
       THEN /\ Complete /\ wpc' = "finish"
            /\ UNCHANGED <<cur_band, next_band>>
       ELSE /\ cur_band' = next_band /\ next_band' = None /\ wpc' = "band"
            /\ UNCHANGED <<progmodels, is_running, left, hidden, broken>>
  /\ UNCHANGED <<treminate_scan, is_synchronous, completed, chunk_event,
                 is_background, rescan, is_cfm_timeout, async,
                 status, timer, coreVars, macVars, task, res, queue, serial,
                 rpc>>

\* Mutated form: only a synchronous scan signals its end.
SignalCompletedSync == completed' = (completed \/ is_synchronous)

\* The end of complete_or_continue: whoever waits for the scan goes on.
SignalCompleted == completed' = TRUE

CompleteFinish ==
  /\ wpc = "finish" /\ SignalCompleted
  /\ Return
  /\ UNCHANGED <<is_running, treminate_scan, is_synchronous, chunk_event,
                 is_background, rescan, is_cfm_timeout, cur_band, next_band,
                 progmodels, left, hidden, async, status, timer, coreVars,
                 macVars, queue, serial, rpc, broken>>

(****************************************************************************)
(* Confirmations: the callback of TXMM, and the handler.                    *)
(****************************************************************************)

\* Mutated form: a task is refused while another one waits.
ScheduleTaskAlone(t) ==
  queue' = IF Accepts /\ queue = {} THEN {t} ELSE queue

\* mtlk_core_schedule_internal_task: refused by a stopped serializer.
ScheduleTask(t) == queue' = IF Accepts THEN queue \cup {t} ELSE queue

\* What scan_cfm_clb does with an answer or with the lack of one.
ScanCfmClb(timedOut) ==
  /\ async' = FALSE /\ is_cfm_timeout' = timedOut
  /\ IF is_synchronous
       THEN chunk_event' = TRUE /\ UNCHANGED queue
       ELSE ScheduleTask("confirm") /\ UNCHANGED chunk_event

\* The MAC confirms the chunk, or TXMM gives up waiting (external).
MacAnswers ==
  /\ async
  /\ \/ Alive /\ ScanCfmClb(FALSE) /\ status' \in BOOLEAN
     \/ ScanCfmClb(TRUE) /\ UNCHANGED status
  /\ UNCHANGED <<is_running, treminate_scan, is_synchronous, completed,
                 is_background, rescan, cur_band, next_band, progmodels, left,
                 hidden, timer, coreVars, macVars, wpc, task, res, serial, rpc,
                 broken>>

\* The worker takes a task of the scanner from the queue.
TakeTask(t) ==
  /\ Free /\ t \in queue \ {"disconnect"}
  /\ queue' = queue \ {t} /\ task' = t /\ res' = "ok"
  /\ wpc' = IF t = "confirm" THEN "confirmed" ELSE "elapsed"
  /\ UNCHANGED <<scanVars, coreVars, macVars, serial, rpc, broken>>

\* The loop of mtlk_scan_sync: the scan is over, or a chunk is.
SyncDone ==
  /\ wpc = "syncwait" /\ completed
  /\ Idle /\ home' = home
  /\ IF res = "failed"
       THEN UNCHANGED <<net_state, loaded, config, ps, refused, cb_scanned>>
       ELSE Activated /\ cb_scanned' = cb_scanned \cup {home}
  /\ UNCHANGED <<scanVars, is_stopping, is_iface_stopping, cache,
                 country, stopped, queue, serial, rpc, broken>>

SyncChunk ==
  /\ wpc = "syncwait" /\ ~completed /\ chunk_event
  /\ chunk_event' = FALSE /\ wpc' = "confirmed" /\ res' = "ok"
  /\ UNCHANGED <<is_running, treminate_scan, is_synchronous, completed,
                 is_background, rescan, is_cfm_timeout, cur_band, next_band,
                 progmodels, left, hidden, async, status, timer, coreVars,
                 macVars, task, queue, serial, rpc, broken>>

\* No answer: the scan ends at once.
ScanUnconfirmed ==
  /\ wpc = "confirmed" /\ is_cfm_timeout
  /\ next_band' = None /\ wpc' = "complete" /\ res' = "failed"
  /\ UNCHANGED <<is_running, treminate_scan, is_synchronous, completed,
                 chunk_event, is_background, rescan, is_cfm_timeout, cur_band,
                 progmodels, left, hidden, async, status, timer, coreVars,
                 macVars, task, queue, serial, rpc, broken>>

\* What switch_back_progmodel may end with.
SwitchResults == {"bss", "unknown", "refused"}

\* Mutated form: the progmodel of the home band is not loaded again.
SwitchBackProgmodelNot(back) ==
  UNCHANGED loaded /\ config' = IF back = "refused" THEN config ELSE back

\* switch_back_progmodel: the progmodel of the home band, then the parameters
\* of the BSS.  The MAC refuses either ("refused"), or the BSS is not found in
\* the cache between the two ("unknown"): do_scan has cleared it, and it may hold
\* only others since.
SwitchBackProgmodel(back) ==
  /\ back = "bss" => Alive /\ cache
  /\ back = "unknown" => Alive \/ loaded = home
  /\ IF back = "refused"
       THEN loaded' \in (IF Alive THEN {loaded, home} ELSE {loaded})
            /\ UNCHANGED config
       ELSE loaded' = home /\ config' = back

\* After a chunk of a background scan the MAC goes back to the home band and
\* leaves power save; then the flow of data starts.
ScanConfirmed(back, woken) ==
  /\ wpc = "confirmed" /\ ~is_cfm_timeout
  /\ IF is_background
       THEN /\ SwitchBackProgmodel(back)
            /\ ps' = (ps /\ ~woken)
            /\ refused' = (back = "refused" \/ ~woken)
            /\ broken' = (broken \/ home \notin progmodels)
            /\ res' = IF woken THEN "ok" ELSE "failed"
       ELSE refused' = FALSE /\ UNCHANGED <<loaded, config, ps, broken, res>>
  /\ stopped' = FALSE /\ wpc' = "proceed"
  /\ UNCHANGED <<scanVars, coreVars, task, queue, serial, rpc>>

\* An error while the handler of the confirmation went back to the home band.
NotBack == refused \/ config = "unknown"

\* The scan ends when it was terminated or an error came up, pauses in the
\* background if pause_between_chunks is configured, which a user may change at
\* any time, and goes on at once otherwise.
ScanProceed ==
  /\ wpc = "proceed"
  /\ \/ /\ treminate_scan \/ NotBack \/ ~status
        /\ next_band' = None /\ wpc' = "complete"
        /\ res' = IF treminate_scan \/ NotBack THEN res ELSE "failed"
        /\ UNCHANGED <<timer, task>>
     \/ /\ ~treminate_scan /\ ~NotBack /\ status /\ is_background
        /\ timer' = TRUE /\ Return
        /\ UNCHANGED next_band
     \/ /\ ~treminate_scan /\ ~NotBack /\ status
        /\ wpc' = "elapsed"
        /\ UNCHANGED <<timer, next_band, task, res>>
  /\ status' = TRUE
  /\ UNCHANGED <<is_running, treminate_scan, is_synchronous, completed,
                 chunk_event, is_background, rescan, is_cfm_timeout, cur_band,
                 progmodels, left, hidden, async, coreVars, macVars, queue,
                 serial, rpc, broken>>

\* pause_timer_handler: the end of the pause is a task for the worker.
PauseTimer ==
  /\ timer /\ timer' = FALSE
  /\ ScheduleTask("pause")
  /\ UNCHANGED <<is_running, treminate_scan, is_synchronous, completed,
                 chunk_event, is_background, rescan, is_cfm_timeout, cur_band,
                 next_band, progmodels, left, hidden, async, status, coreVars,
                 macVars, wpc, task, res, serial, rpc, broken>>

\* What comes after a chunk: the end, the whole scan again, the rest of the
\* band, or the next band.
PauseElapsed ==
  /\ wpc = "elapsed"
  /\ IF treminate_scan
       THEN /\ next_band' = None /\ wpc' = "complete"
            /\ UNCHANGED <<rescan, cache, cur_band>>
       ELSE IF rescan
         THEN /\ rescan' = FALSE /\ cache' = (cache /\ is_background)
              /\ SetupScanSequence /\ wpc' = "band"
         ELSE /\ wpc' = IF left > 0 THEN "chunk" ELSE "complete"
              /\ UNCHANGED <<rescan, cache, cur_band, next_band>>
  /\ UNCHANGED <<is_running, treminate_scan, is_synchronous, completed,
                 chunk_event, is_background, is_cfm_timeout, progmodels, left,
                 hidden, async, status, timer, net_state, is_stopping,
                 is_iface_stopping, cb_scanned, home, country, macVars, task,
                 res, queue, serial, rpc, broken>>

(****************************************************************************)
(* Beacons and the firmware.                                                *)
(****************************************************************************)

\* Mutated form: a channel is taken for an active scan again and again.
AddActiveScanAgain(active) ==
  left' = (IF active THEN left + 1 ELSE left) /\ UNCHANGED hidden

\* A channel scanned passively is added for an active scan, once.
AddActiveScan(active) ==
  /\ left' = IF active THEN left + 1 ELSE left
  /\ hidden' = (hidden /\ ~active)

\* A beacon with a country code is received, perhaps on a channel of the vector
\* that was scanned passively (active).  The first country code asks for the
\* whole scan again; the channel gets an active scan; the BSS goes to the
\* cache, without a scan only for the 20/40 coexistence.
BeaconReceived(active) ==
  /\ Alive /\ (async \/ net_state = "CONNECTED")
  /\ country' = TRUE /\ rescan' = (rescan \/ ~country)
  /\ active => is_running /\ hidden
  /\ AddActiveScan(active)
  /\ cache' \in IF is_running THEN {TRUE} ELSE {cache, TRUE}
  /\ UNCHANGED <<is_running, treminate_scan, is_synchronous, completed,
                 chunk_event, is_background, is_cfm_timeout, cur_band,
                 next_band, progmodels, async, status, timer, net_state,
                 is_stopping, is_iface_stopping, cb_scanned, home, macVars,
                 workVars, rpc, broken>>

\* The firmware crashes (external).
MacHalts ==
  /\ Alive /\ net_state' = "HALTED"
  /\ UNCHANGED <<scanVars, is_stopping, is_iface_stopping, cb_scanned, home,
                 cache, country, macVars, workVars, rpc, broken>>

(****************************************************************************)
(* The unloading thread: _mtlk_core_prepare_stop, the stop of the           *)
(* serializer, mtlk_scan_cleanup.                                           *)
(****************************************************************************)

PrepareStop ==
  /\ rpc = "up" /\ rpc' = "look" /\ is_stopping' = TRUE
  /\ UNCHANGED <<scanVars, net_state, is_iface_stopping, cb_scanned, home,
                 cache, country, macVars, workVars, broken>>

\* A scan that does not run needs no stop; with a dead MAC this thread
\* completes it, otherwise it asks for its end.
PrepareStopLook ==
  /\ rpc = "look"
  /\ IF is_running
       THEN rpc' = IF Alive THEN "mark" ELSE "complete"
       ELSE rpc' = "vaps"
  /\ UNCHANGED <<scanVars, coreVars, macVars, workVars, broken>>

StopComplete ==
  /\ rpc = "complete" /\ rpc' = "finish"
  /\ Complete /\ next_band' = None
  /\ UNCHANGED <<treminate_scan, is_synchronous, completed, chunk_event,
                 is_background, rescan, is_cfm_timeout, cur_band, async,
                 status, timer, coreVars, macVars, workVars>>

StopFinish ==
  /\ rpc = "finish" /\ rpc' = "vaps" /\ completed' = TRUE
  /\ UNCHANGED <<is_running, treminate_scan, is_synchronous, chunk_event,
                 is_background, rescan, is_cfm_timeout, cur_band, next_band,
                 progmodels, left, hidden, async, status, timer, coreVars,
                 macVars, workVars, broken>>

\* scan_terminate_and_wait_completion after its test of is_running.
Terminate(from, to) ==
  /\ rpc = from /\ rpc' = to /\ treminate_scan' = TRUE
  /\ UNCHANGED <<is_running, is_synchronous, completed, chunk_event,
                 is_background, rescan, is_cfm_timeout, cur_band, next_band,
                 progmodels, left, hidden, async, status, timer, coreVars,
                 macVars, workVars, broken>>

WaitCompletion ==
  /\ rpc = "wait" /\ completed /\ rpc' = "vaps" /\ cache' = FALSE
  /\ UNCHANGED <<scanVars, net_state, is_stopping, is_iface_stopping,
                 cb_scanned, home, country, macVars, workVars, broken>>

\* The serializer takes no more commands, and its worker ends when what waits in
\* the queue is done.
StopProcessing ==
  /\ rpc = "vaps" /\ rpc' = "drain"
  /\ UNCHANGED <<scanVars, coreVars, macVars, workVars, broken>>

StopSerializer ==
  /\ rpc = "drain" /\ queue = {} /\ wpc = "idle" /\ rpc' = "cleanup"
  /\ serial' = FALSE
  /\ UNCHANGED <<scanVars, coreVars, macVars, wpc, task, res, queue, broken>>

CleanupLook ==
  /\ rpc = "cleanup" /\ rpc' = IF is_running THEN "mark2" ELSE "release"
  /\ UNCHANGED <<scanVars, coreVars, macVars, workVars, broken>>

\* The message is cancelled, the timer and the flow control id are given back.
Cleanup ==
  /\ IF rpc = "wait2" THEN completed ELSE rpc = "release"
  /\ rpc' = "down" /\ timer' = FALSE
  /\ IF async THEN ScanCfmClb(TRUE)
              ELSE UNCHANGED <<async, is_cfm_timeout, chunk_event, queue>>
  /\ UNCHANGED <<is_running, treminate_scan, is_synchronous, completed,
                 is_background, rescan, cur_band, next_band, progmodels, left,
                 hidden, status, coreVars, macVars, wpc, task, res, serial,
                 broken>>

(****************************************************************************)
(* The specification.                                                       *)
(****************************************************************************)

User ==
  \/ StartScanning \/ \E b \in Bands : ConnectSta(b)
  \/ DisconnectStaBlocked \/ DisconnectSta \/ Deactivate

Work ==
  \/ DoScanCheck \/ DoScanXchg \/ DoScanReset \/ DoScanEvent
  \/ \E ok \in BOOLEAN : DoScanPreload(ok)
  \/ \E n \in 0 .. MaxChunks : ScanCurrentBand(n)
  \/ ScanNextChunk
  \/ \E slept, woken \in BOOLEAN : ScanNextChunkFails(slept, woken)
  \/ CompleteOrContinue \/ CompleteFinish
  \/ SyncDone \/ SyncChunk
  \/ ScanUnconfirmed
  \/ \E back \in SwitchResults, woken \in Outcomes :
       ScanConfirmed(back, woken)
  \/ ScanProceed \/ PauseElapsed
  \/ \E t \in queue : TakeTask(t)
  \/ HandleDisconnectMe

Unload ==
  \/ PrepareStopLook \/ StopComplete \/ StopFinish
  \/ Terminate("mark", "wait") \/ WaitCompletion
  \/ StopProcessing \/ StopSerializer
  \/ CleanupLook \/ Terminate("mark2", "wait2") \/ Cleanup

Next ==
  \/ User \/ Work \/ Unload
  \/ MacAnswers \/ PauseTimer \/ MacHalts \/ PrepareStop
  \/ \E active \in BOOLEAN : BeaconReceived(active)

Spec == Init /\ [][Next]_vars

\* The worker and the unloading thread are scheduled, a request is answered
\* or times out (TXMM), the pause timer expires.  Nothing else has to happen.
FairSpec ==
  /\ Spec
  /\ WF_vars(Work) /\ WF_vars(Unload) /\ WF_vars(MacAnswers)
  /\ WF_vars(PauseTimer)

(****************************************************************************)
(* Properties.                                                              *)
(****************************************************************************)

\* A chunk is on its way: with the MAC, confirmed and not handled, or at the
\* worker between the two.
InChunk ==
  \/ async \/ "confirm" \in queue \/ wpc = "confirmed"
  \/ chunk_event /\ wpc = "syncwait"

\* The scanner holds the flow of data only while a chunk is on its way; the
\* one exception is a request that was never answered (scan.c:715 leaves
\* before mtlk_flctrl_start_data).
FlowHeld == Accepts /\ Alive /\ stopped /\ ~InChunk => is_cfm_timeout

\* Between the chunks of a background scan and after it, a connected station
\* is out of power save, on its home band and has the parameters of its BSS.
\* Two things are excepted.  The MAC refused a request or did not answer one
\* (scan.c:137-143, 153, 349-371, 733): nothing is promised.  The host does not
\* find its own BSS in the cache that do_scan cleared (scan.c:148-151, 539), with
\* a MAC that answers everything: the station is back on its band and out of
\* power save, but goes on with the parameters of the scan.
ServiceRestored ==
  net_state = "CONNECTED" /\ Accepts /\ ~InChunk /\ ~is_cfm_timeout /\ ~refused
    => ~ps /\ loaded = home /\ config \in {"bss", "unknown"}

\* A scan is completed once, and its progmodels are there as long as it is
\* worked on (the assertion at scan.c:439); only the unloading of a driver
\* with a dead MAC, which completes a scan from outside, breaks this.
CompletedOnce == broken => net_state = "HALTED" /\ is_stopping

\* The worker waits in mtlk_scan_sync for the end of a pause that is itself a
\* task for the worker.
SelfWait == wpc = "syncwait" /\ (timer \/ "pause" \in queue)

\* A scan comes to its end whatever is refused, lost, found on the air or
\* asked for meanwhile (complete_or_continue is reached on every path), but
\* for a synchronous scan in background mode, or a stopped serializer.
ScanCompletes == is_running ~> (~is_running \/ ~Accepts \/ SelfWait)

\* The unloading thread does not wait for ever in _mtlk_core_prepare_stop: the
\* event it waits for is set, even when do_scan has overwritten its request.
PrepareStopEnds == rpc = "wait" ~> (rpc # "wait" \/ SelfWait)

\* "Since we disconnected switch scan mode to normal" (core.c:7745): a scan of
\* a station that is not connected is a normal one, and the worker does not
\* wait for itself.  DisconnectSta leaves the mode as it is.
SyncScanReturns == wpc = "syncwait" ~> wpc # "syncwait"
=============================================================================
