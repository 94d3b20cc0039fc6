--------------------------- MODULE ShutdownManager ---------------------------
(***************************************************************************)
(* The shutdown signal, the startup wait it must be able to interrupt, and *)
(* the manager thread: the program's control plane, from the installation  *)
(* of the handlers to the end of the main thread.                          *)
(*                                                                         *)
(* A shutdown request may come from any thread or from a signal handler,   *)
(* so it only swaps a flag and signals two wake events.  While mpv starts, *)
(* a helper thread turns the first into an mpv wakeup; afterwards the      *)
(* manager, which also folds the window's visibility and the system's      *)
(* sleep into the overlay's hidden flag, waits on the second.  A wake      *)
(* event is level-triggered: a Boolean that `signal` sets, `drain` clears  *)
(* and `wait` waits for.                                                   *)
(***************************************************************************)
EXTENDS Integers, Sequences

CONSTANTS
  Requesters,    \* threads and signal handlers that may ask for shutdown
  Main,          \* the main thread, which asks when ingestion cannot start
  MaxLogs,       \* bound: mpv events that bring the startup no further; a
                 \* behaviour has them, or the reports and browsers below
  MaxReports,    \* bound: visibility and power reports of the platform
  MaxRecreated   \* bound: browsers CEF closes and the client creates again

ASSUME ShutdownConstants ==
  /\ Main \notin Requesters
  /\ MaxReports \in Nat /\ MaxLogs \in Nat /\ MaxRecreated \in Nat

VARIABLES
  requested, handler,        \* ShutdownSignal
  call,                      \* how far each caller is in initiate or install
  boot_wake, wake, queue,    \* Manager
  main,                      \* the main thread's next step
  stop, helper,              \* BootShutdownWake: its flag and its thread
  background, extent,        \* what the startup waits for
  outcome,                   \* how the startup wait ended
  mpv, mpv_wakeup,           \* mpv's event queue and its queued wakeup
  logs,                      \* counts what MaxLogs bounds
  manager, work, state,      \* manager_loop: next step, messages taken, FSM
  browser, ui, recreated,    \* the overlay's browser, its posted tasks
  visible, awake, report, reports,  \* the window and its reporting thread
  parked                     \* MAIN_PARK has not been signalled

signal_vars  == <<requested, handler, call>>
queue_vars   == <<boot_wake, wake, queue>>
boot_vars    == <<stop, helper, outcome>>
mpv_vars     == <<background, extent, mpv, mpv_wakeup, logs>>
manager_vars == <<manager, work, state>>
overlay_vars == <<browser, ui, recreated>>
window_vars  == <<visible, awake, report, reports>>

startup_vars == <<main, boot_vars, mpv_vars>>
run_vars     == <<manager_vars, overlay_vars, window_vars, parked>>
vars         == <<signal_vars, queue_vars, startup_vars, run_vars>>

Callers == Requesters \cup {Main}

BootSteps == {"check", "drain", "progress", "block"}

Messages == {"Visible", "Invisible", "Suspend", "Resume", "Shutdown"}

TypeOK ==
  /\ requested \in BOOLEAN /\ handler \in BOOLEAN
  /\ call \in [Callers -> {"idle", "load", "boot_wake", "wake"}]
  /\ boot_wake \in BOOLEAN /\ wake \in BOOLEAN
  /\ queue \in Seq(Messages)
  /\ main \in BootSteps \cup
       {"install", "replay", "boot", "stop", "signal_stop", "join_helper",
        "prepare", "start", "drop", "activate", "run", "ingest", "park",
        "join_manager", "exited"}
  /\ stop \in BOOLEAN
  /\ helper \in {"off", "wait", "drain", "asked", "gone"}
  /\ outcome \in {"none", "ready", "failed"}
  /\ background \in BOOLEAN
  /\ extent \in {"none", "published", "notified"}
  /\ mpv \in Seq({"log", "background", "fatal"})
  /\ mpv_wakeup \in BOOLEAN
  /\ logs \in 0 .. MaxLogs
  /\ manager \in {"off", "recv", "drain", "take", "apply", "close", "wait",
                  "wake_main", "return", "done"}
  /\ work \in Seq(Messages)
  /\ state \in {"Running", "Hidden", "Suspended", "ShuttingDown"}
  /\ browser \in {"no_client", "none", "shown", "hidden", "closed"}
  /\ ui \in Seq({"hide", "show"})
  /\ recreated \in 0 .. MaxRecreated
  /\ visible \in BOOLEAN /\ awake \in BOOLEAN
  /\ report \in {"idle", "signal"} \cup Messages
  /\ reports \in 0 .. MaxReports
  /\ parked \in BOOLEAN

Init ==
  /\ requested = FALSE /\ handler = FALSE
  /\ call = [c \in Callers |-> "idle"]
  /\ boot_wake = FALSE /\ wake = FALSE /\ queue = <<>>
  /\ main = "install"
  /\ stop = FALSE /\ helper = "off" /\ outcome = "none"
  /\ background = FALSE /\ extent = "none"
  /\ mpv = <<>> /\ mpv_wakeup = FALSE /\ logs = 0
  /\ manager = "off" /\ work = <<>> /\ state = "Running"
  /\ browser = "no_client" /\ ui = <<>> /\ recreated = 0
  /\ visible = TRUE /\ awake = TRUE /\ report = "idle" /\ reports = 0
  /\ parked = TRUE

-----------------------------------------------------------------------------
(* jfn_shutdown_initiate: swap the flag, load the handler, and run it.     *)

(* The swap; only the first caller goes on. *)
Initiated(c) ==
  /\ requested' = TRUE
  /\ call' = IF requested THEN call ELSE [call EXCEPT ![c] = "load"]

Initiate(c) ==
  /\ call[c] = "idle"
  /\ Initiated(c)
  /\ UNCHANGED <<handler, queue_vars, startup_vars, run_vars>>

LoadHandler(c) ==
  /\ call[c] = "load"
  /\ call' = [call EXCEPT ![c] = IF handler THEN "boot_wake" ELSE "idle"]
  /\ UNCHANGED <<requested, handler, queue_vars, startup_vars, run_vars>>

(* jfn_manager_notify_shutdown, the handler. *)
SignalBootWake(c) ==
  /\ call[c] = "boot_wake"
  /\ boot_wake' = TRUE
  /\ call' = [call EXCEPT ![c] = "wake"]
  /\ UNCHANGED <<requested, handler, wake, queue, startup_vars, run_vars>>

SignalWake(c) ==
  /\ call[c] = "wake"
  /\ wake' = TRUE
  /\ call' = [call EXCEPT ![c] = "idle"]
  /\ UNCHANGED <<requested, handler, boot_wake, queue, startup_vars, run_vars>>

Notify(c) == LoadHandler(c) \/ SignalBootWake(c) \/ SignalWake(c)

-----------------------------------------------------------------------------
(* The main thread up to the end of the startup wait.  It takes a step     *)
(* only when it is not inside a call of its own.                           *)

MainAt(step) == main = step /\ call[Main] = "idle"

(* prepare_shutdown: ShutdownSignal::install stores the handler, then      *)
(* replays a request that came first.                                      *)
Install ==
  /\ MainAt("install")
  /\ handler' = TRUE
  /\ main' = "replay"
  /\ UNCHANGED <<requested, call, queue_vars, boot_vars, mpv_vars, run_vars>>

Replay ==
  /\ MainAt("replay")
  /\ call' = IF requested THEN [call EXCEPT ![Main] = "boot_wake"] ELSE call
  /\ main' = "boot"
  /\ UNCHANGED <<requested, handler, queue_vars, boot_vars, mpv_vars,
                 run_vars>>

(* run_app up to the startup wait, which any of its steps may abandon. *)
StartBoot ==
  /\ MainAt("boot")
  /\ \/ main' = "check" /\ helper' = "wait"
     \/ main' = "exited" /\ UNCHANGED helper
  /\ UNCHANGED <<signal_vars, queue_vars, stop, outcome, mpv_vars, run_vars>>

(* Break, with what the wait returns, or one step further in the pump. *)
Break(result) == main' = "stop" /\ outcome' = result
Continue(next) == main' = next /\ UNCHANGED outcome

(* The pump of wait_for_vo_window looks for a request first. *)
CheckRequest ==
  /\ MainAt("check")
  /\ IF requested THEN Break("failed") ELSE Continue("drain")
  /\ UNCHANGED <<signal_vars, queue_vars, stop, helper, mpv_vars, run_vars>>

(* consume_boot_event for the event at the head of mpv's queue. *)
Consume(next) ==
  /\ mpv' = Tail(mpv)
  /\ background' = (background \/ Head(mpv) = "background")
  /\ IF Head(mpv) = "fatal" THEN Break("failed") ELSE Continue(next)

(* wait_event_owned(0.0), which returns an event or none.  Either way mpv  *)
(* forgets a queued wakeup.                                                *)
DrainEvents ==
  /\ MainAt("drain")
  /\ mpv_wakeup' = FALSE
  /\ IF mpv # <<>> THEN Consume("drain")
     ELSE Continue("progress") /\ UNCHANGED <<mpv, background>>
  /\ UNCHANGED <<signal_vars, queue_vars, stop, helper, extent, logs,
                 run_vars>>

(* boot_progress *)
CheckProgress ==
  /\ MainAt("progress")
  /\ IF background /\ extent # "none" THEN Break("ready") ELSE Continue("block")
  /\ UNCHANGED <<signal_vars, queue_vars, stop, helper, mpv_vars, run_vars>>

(* wait_event_owned(-1.0): blocks for an event or a queued wakeup. *)
BlockForEvent ==
  /\ MainAt("block")
  /\ mpv # <<>> \/ mpv_wakeup
  /\ mpv_wakeup' = FALSE
  /\ IF mpv # <<>> THEN Consume("check")
     ELSE Continue("check") /\ UNCHANGED <<mpv, background>>
  /\ UNCHANGED <<signal_vars, queue_vars, stop, helper, extent, logs,
                 run_vars>>

(* BootShutdownWake::drop: store the flag, signal, join. *)
StoreStop ==
  /\ MainAt("stop")
  /\ stop' = TRUE
  /\ main' = "signal_stop"
  /\ UNCHANGED <<signal_vars, queue_vars, helper, outcome, mpv_vars, run_vars>>

SignalStop ==
  /\ MainAt("signal_stop")
  /\ boot_wake' = TRUE
  /\ main' = "join_helper"
  /\ UNCHANGED <<signal_vars, wake, queue, boot_vars, mpv_vars, run_vars>>

JoinHelper ==
  /\ MainAt("join_helper")
  /\ helper = "gone"
  /\ main' = IF outcome = "ready" THEN "prepare" ELSE "exited"
  /\ UNCHANGED <<signal_vars, queue_vars, boot_vars, mpv_vars, run_vars>>

-----------------------------------------------------------------------------
(* BootShutdownWake's thread: boot_wake becomes an mpv wakeup.             *)

HelperDrains ==
  /\ helper = "wait" /\ boot_wake
  /\ boot_wake' = FALSE
  /\ helper' = "drain"
  /\ UNCHANGED <<signal_vars, wake, queue, main, stop, outcome, mpv_vars,
                 run_vars>>

(* Mutation: a helper that was stopped stays in a state no join waits for. *)
HelperStays ==
  /\ helper = "drain"
  /\ helper' = IF stop THEN "stopped" ELSE "asked"
  /\ UNCHANGED <<signal_vars, queue_vars, main, stop, outcome, mpv_vars,
                 run_vars>>

HelperLooksForStop ==
  /\ helper = "drain"
  /\ helper' = IF stop THEN "gone" ELSE "asked"
  /\ UNCHANGED <<signal_vars, queue_vars, main, stop, outcome, mpv_vars,
                 run_vars>>

(* Mutation: the wake event is drained after it was acted upon. *)
HelperDrainsLast ==
  /\ helper = "asked"
  /\ mpv_wakeup' = (mpv_wakeup \/ requested)
  /\ boot_wake' = FALSE
  /\ helper' = "wait"
  /\ UNCHANGED <<signal_vars, wake, queue, main, stop, outcome, background,
                 extent, mpv, logs, run_vars>>

HelperWakesMpv ==
  /\ helper = "asked"
  /\ mpv_wakeup' = (mpv_wakeup \/ requested)
  /\ helper' = "wait"
  /\ UNCHANGED <<signal_vars, queue_vars, main, stop, outcome, background,
                 extent, mpv, logs, run_vars>>

HelperStep == HelperDrains \/ HelperLooksForStop \/ HelperWakesMpv

-----------------------------------------------------------------------------
(* What the startup waits for: mpv's events, and the window's extent, whose *)
(* publication wakes mpv.                                                  *)

(* The reply to the request for the background colour. *)
MpvReplies ==
  /\ main \notin {"install", "replay", "exited"}
  /\ ~background /\ \A i \in DOMAIN mpv : mpv[i] # "background"
  /\ mpv' = Append(mpv, "background")
  /\ UNCHANGED <<signal_vars, queue_vars, main, boot_vars, background, extent,
                 mpv_wakeup, logs, run_vars>>

(* Other events, of which a shutdown or the end of a file is fatal. *)
MpvReports ==
  /\ main \in BootSteps /\ logs < MaxLogs /\ reports = 0 /\ recreated = 0
  /\ logs' = logs + 1
  /\ \E event \in {"log", "fatal"} : mpv' = Append(mpv, event)
  /\ UNCHANGED <<signal_vars, queue_vars, main, boot_vars, background, extent,
                 mpv_wakeup, run_vars>>

PublishExtent ==
  /\ main \notin {"install", "replay", "exited"} /\ extent = "none"
  /\ extent' = "published"
  /\ UNCHANGED <<signal_vars, queue_vars, main, boot_vars, background, mpv,
                 mpv_wakeup, logs, run_vars>>

NotifyExtent ==
  /\ extent = "published"
  /\ extent' = "notified"
  /\ mpv_wakeup' = TRUE
  /\ UNCHANGED <<signal_vars, queue_vars, main, boot_vars, background, mpv,
                 logs, run_vars>>

-----------------------------------------------------------------------------
(* The main thread after the startup wait.                                 *)

(* jfn_manager_prepare spawns the manager; it, or a step before it, may    *)
(* fail, and then the program ends.                                        *)
Prepare ==
  /\ MainAt("prepare")
  /\ \/ main' = "start" /\ manager' = "recv"
     \/ main' = "exited" /\ UNCHANGED manager
  /\ UNCHANGED <<signal_vars, queue_vars, boot_vars, mpv_vars, work, state,
                 overlay_vars, window_vars, parked>>

(* WebOverlay::start; when it fails the prepared manager is dropped. *)
StartOverlay ==
  /\ MainAt("start")
  /\ main' \in {"activate", "drop"}
  /\ UNCHANGED <<signal_vars, queue_vars, boot_vars, mpv_vars, run_vars>>

JoinDropped ==
  /\ MainAt("drop") /\ manager = "done"
  /\ main' = "exited"
  /\ UNCHANGED <<signal_vars, queue_vars, boot_vars, mpv_vars, run_vars>>

(* PreparedManager::activate sends the overlay to the manager. *)
Activate ==
  /\ MainAt("activate")
  /\ main' = "run"
  /\ UNCHANGED <<signal_vars, queue_vars, boot_vars, mpv_vars, run_vars>>

(* RunningRuntime::run starts ingestion unless shutdown was requested. *)
RunRuntime ==
  /\ MainAt("run")
  /\ main' = IF requested THEN "park" ELSE "ingest"
  /\ UNCHANGED <<signal_vars, queue_vars, boot_vars, mpv_vars, run_vars>>

(* When ingestion cannot start, the main thread asks for shutdown itself,  *)
(* by now perhaps not as the first.                                        *)
StartIngestion ==
  /\ MainAt("ingest")
  /\ main' = "park"
  /\ \/ UNCHANGED <<requested, call>>
     \/ Initiated(Main)
  /\ UNCHANGED <<handler, queue_vars, boot_vars, mpv_vars, run_vars>>

(* run_main_loop returns. *)
LeaveMainLoop ==
  /\ MainAt("park") /\ ~parked
  /\ main' = "join_manager"
  /\ UNCHANGED <<signal_vars, queue_vars, boot_vars, mpv_vars, run_vars>>

(* Mutation: the manager is not joined. *)
DetachManager ==
  /\ MainAt("join_manager")
  /\ main' = "exited"
  /\ UNCHANGED <<signal_vars, queue_vars, boot_vars, mpv_vars, run_vars>>

JoinManager ==
  /\ MainAt("join_manager") /\ manager = "done"
  /\ main' = "exited"
  /\ UNCHANGED <<signal_vars, queue_vars, boot_vars, mpv_vars, run_vars>>

MainStep ==
  \/ Install \/ Replay \/ StartBoot \/ CheckRequest \/ DrainEvents \/ CheckProgress
  \/ BlockForEvent \/ StoreStop \/ SignalStop \/ JoinHelper \/ Prepare
  \/ StartOverlay \/ JoinDropped \/ Activate \/ RunRuntime \/ StartIngestion
  \/ LeaveMainLoop \/ JoinManager \/ Notify(Main)

-----------------------------------------------------------------------------
(* The manager thread.                                                     *)

(* The worker waits for the overlay, or for its sender to be dropped. *)
Receive ==
  /\ manager = "recv"
  /\ \/ main \in {"run", "ingest", "park"} /\ manager' = "drain"
     \/ main = "drop" /\ manager' = "done"
  /\ UNCHANGED <<signal_vars, queue_vars, startup_vars, work, state,
                 overlay_vars, window_vars, parked>>

DrainWake ==
  /\ manager = "drain"
  /\ wake' = FALSE
  /\ manager' = "take"
  /\ UNCHANGED <<signal_vars, boot_wake, queue, startup_vars, work, state,
                 overlay_vars, window_vars, parked>>

(* Under the queue's lock: a requested shutdown joins the queued messages. *)
TakeQueue ==
  /\ manager = "take"
  /\ work' = IF requested THEN Append(queue, "Shutdown") ELSE queue
  /\ queue' = <<>>
  /\ manager' = "apply"
  /\ UNCHANGED <<signal_vars, boot_wake, wake, startup_vars, state,
                 overlay_vars, window_vars, parked>>

(* The pairs of `transition` that change the state. *)
Folded(s, message) ==
  CASE s = "Running"   /\ message = "Invisible" -> "Hidden"
    [] s = "Hidden"    /\ message = "Visible"   -> "Running"
    [] s # "Suspended" /\ message = "Suspend"   -> "Suspended"
    [] s = "Suspended" /\ message = "Resume"    -> "Running"
    [] OTHER -> s

(* Mutation: resume leaves the overlay as it is. *)
ResumeKeepsHidden(s, message) ==
  IF s = "Running" /\ message \in {"Invisible", "Suspend"} THEN <<"hide">>
  ELSE IF s = "Hidden" /\ message = "Visible" THEN <<"show">>
  ELSE <<>>

(* The set_hidden calls `transition` makes. *)
HiddenCalls(s, message) ==
  IF s = "Running" /\ message \in {"Invisible", "Suspend"} THEN <<"hide">>
  ELSE IF <<s, message>> \in {<<"Hidden", "Visible">>, <<"Suspended", "Resume">>}
       THEN <<"show">>
  ELSE <<>>

(* WebOverlay::set_hidden posts a task, once the overlay has its client. *)
Post(calls) == ui' = IF browser = "no_client" THEN ui ELSE ui \o calls

Apply ==
  /\ manager = "apply" /\ work # <<>> /\ Head(work) # "Shutdown"
  /\ state' = Folded(state, Head(work))
  /\ Post(HiddenCalls(state, Head(work)))
  /\ work' = Tail(work)
  /\ UNCHANGED <<signal_vars, queue_vars, startup_vars, manager, browser,
                 recreated, window_vars, parked>>

(* run_shutdown wakes the registered threads and closes the overlay, which *)
(* takes until the next step; nothing after the message is applied.        *)
BeginClose ==
  /\ manager = "apply" /\ work # <<>> /\ Head(work) = "Shutdown"
  /\ manager' = "close"
  /\ UNCHANGED <<signal_vars, queue_vars, startup_vars, work, state,
                 overlay_vars, window_vars, parked>>

(* close_blocking returns, with the browser gone or an error. *)
EndClose ==
  /\ manager = "close"
  /\ \/ browser' = "closed" /\ state' = "ShuttingDown"
     \/ UNCHANGED <<browser, state>>
  /\ ui' = <<>>
  /\ manager' = "wake_main"
  /\ UNCHANGED <<signal_vars, queue_vars, startup_vars, work, recreated,
                 window_vars, parked>>

(* run_and_wake releases the main thread whatever the result, and the      *)
(* thread returns.                                                         *)
WakeMain ==
  /\ manager = "wake_main"
  /\ parked' = FALSE
  /\ manager' = "return"
  /\ UNCHANGED <<signal_vars, queue_vars, startup_vars, work, state,
                 overlay_vars, window_vars>>

Return ==
  /\ manager = "return"
  /\ manager' = "done"
  /\ UNCHANGED <<signal_vars, queue_vars, startup_vars, work, state,
                 overlay_vars, window_vars, parked>>

(* Mutation: the wake event is drained after the batch. *)
FinishBatchDraining ==
  /\ manager = "apply" /\ work = <<>>
  /\ manager' = "wait"
  /\ wake' = FALSE
  /\ UNCHANGED <<signal_vars, boot_wake, queue, startup_vars, work, state,
                 overlay_vars, window_vars, parked>>

FinishBatch ==
  /\ manager = "apply" /\ work = <<>>
  /\ manager' = "wait"
  /\ UNCHANGED <<signal_vars, queue_vars, startup_vars, work, state,
                 overlay_vars, window_vars, parked>>

AwaitWake ==
  /\ manager = "wait" /\ wake
  /\ manager' = "drain"
  /\ UNCHANGED <<signal_vars, queue_vars, startup_vars, work, state,
                 overlay_vars, window_vars, parked>>

ManagerStep ==
  \/ Receive \/ DrainWake \/ TakeQueue \/ Apply \/ BeginClose \/ EndClose
  \/ WakeMain \/ Return \/ FinishBatch \/ AwaitWake

-----------------------------------------------------------------------------
(* The overlay's browser, on CEF's UI thread.                              *)

(* Before the manager closes the session, its tasks and callbacks run. *)
SessionActive == manager \notin {"close", "wake_main", "return", "done"}

(* ensure_browser installs the client and asks CEF for a browser. *)
EnsureBrowser ==
  /\ browser = "no_client" /\ main \in {"activate", "run", "ingest", "park"}
  /\ SessionActive
  /\ browser' = "none"
  /\ UNCHANGED <<signal_vars, queue_vars, startup_vars, manager_vars, ui,
                 recreated, window_vars, parked>>

(* handle_on_after_created: a new browser is not hidden. *)
AfterCreated ==
  /\ browser = "none" /\ SessionActive
  /\ browser' = "shown"
  /\ UNCHANGED <<signal_vars, queue_vars, startup_vars, manager_vars, ui,
                 recreated, window_vars, parked>>

(* handle_on_before_close creates the next browser. *)
BeforeClose ==
  /\ browser \in {"shown", "hidden"} /\ SessionActive
  /\ recreated < MaxRecreated /\ logs = 0
  /\ browser' = "none"
  /\ recreated' = recreated + 1
  /\ UNCHANGED <<signal_vars, queue_vars, startup_vars, manager_vars, ui,
                 window_vars, parked>>

(* SetHiddenTask: cef_was_hidden reaches the browser if there is one. *)
RunSetHidden ==
  /\ ui # <<>> /\ SessionActive
  /\ ui' = Tail(ui)
  /\ browser' = IF browser \notin {"shown", "hidden"} THEN browser
                ELSE IF Head(ui) = "hide" THEN "hidden" ELSE "shown"
  /\ UNCHANGED <<signal_vars, queue_vars, startup_vars, manager_vars,
                 recreated, window_vars, parked>>

-----------------------------------------------------------------------------
(* The window's thread.  It reports after prepare_shutdown has installed   *)
(* the lifecycle handlers.                                                 *)

MayReport ==
  /\ report = "idle" /\ reports < MaxReports /\ logs = 0
  /\ main \notin {"install", "replay", "exited"}

(* jfn_lifecycle_set_visible *)
SetVisible(v) ==
  /\ MayReport
  /\ visible' = v
  /\ report' = IF v THEN "Visible" ELSE "Invisible"
  /\ reports' = reports + 1
  /\ UNCHANGED <<signal_vars, queue_vars, startup_vars, manager_vars,
                 overlay_vars, awake, parked>>

(* jfn_lifecycle_suspend, jfn_lifecycle_resume *)
Sleep ==
  /\ MayReport /\ awake
  /\ awake' = FALSE
  /\ report' = "Suspend"
  /\ reports' = reports + 1
  /\ UNCHANGED <<signal_vars, queue_vars, startup_vars, manager_vars,
                 overlay_vars, visible, parked>>

WakeUp ==
  /\ MayReport /\ ~awake
  /\ awake' = TRUE
  /\ report' = "Resume"
  /\ reports' = reports + 1
  /\ UNCHANGED <<signal_vars, queue_vars, startup_vars, manager_vars,
                 overlay_vars, visible, parked>>

(* jfn_manager_send: push, then signal. *)
PushReport ==
  /\ report \in Messages
  /\ queue' = Append(queue, report)
  /\ report' = "signal"
  /\ UNCHANGED <<signal_vars, boot_wake, wake, startup_vars, manager_vars,
                 overlay_vars, visible, awake, reports, parked>>

SignalReport ==
  /\ report = "signal"
  /\ wake' = TRUE
  /\ report' = "idle"
  /\ UNCHANGED <<signal_vars, boot_wake, queue, startup_vars, manager_vars,
                 overlay_vars, visible, awake, reports, parked>>

-----------------------------------------------------------------------------
Next ==
  \/ \E c \in Requesters : Initiate(c) \/ Notify(c)
  \/ MainStep \/ HelperStep \/ ManagerStep
  \/ MpvReplies \/ MpvReports \/ PublishExtent \/ NotifyExtent
  \/ EnsureBrowser \/ AfterCreated \/ BeforeClose \/ RunSetHidden
  \/ \E v \in BOOLEAN : SetVisible(v)
  \/ Sleep \/ WakeUp \/ PushReport \/ SignalReport

Spec == Init /\ [][Next]_vars

(* The program's own threads are scheduled; the manager's close ends, since *)
(* each of its waits has a deadline.                                       *)
ThreadFairness ==
  /\ WF_vars(MainStep) /\ WF_vars(HelperStep) /\ WF_vars(ManagerStep)
  /\ \A c \in Requesters : WF_vars(Notify(c))
  /\ WF_vars(PushReport \/ SignalReport)
  /\ WF_vars(NotifyExtent)

(* mpv answers, and the window gets its first extent. *)
StartupFairness == WF_vars(MpvReplies) /\ WF_vars(PublishExtent)

ThreadSpec == Spec /\ ThreadFairness
FairSpec == ThreadSpec /\ StartupFairness

-----------------------------------------------------------------------------
(* Properties.                                                             *)

(* The manager never sleeps through work: when it waits with its wake      *)
(* event down, the queue is empty unless its sender is about to signal,    *)
(* and a request for shutdown is still on its way to the event.            *)
NoLostWake ==
  manager = "wait" /\ ~wake =>
    /\ queue = <<>> \/ report = "signal"
    /\ requested => \E c \in Callers : call[c] # "idle"

(* No report, message or task about the overlay is under way. *)
Settled ==
  /\ manager = "wait" /\ ~wake /\ queue = <<>> /\ report = "idle" /\ ui = <<>>

(* When everything has settled, a visible window of a system that is awake *)
(* has no hidden browser, however the reports of visibility, sleep and the *)
(* browser's own closing and creation interleaved; and a sleeping system   *)
(* leaves the manager suspended.                                           *)
OverlayFollowsWindow ==
  Settled =>
    /\ awake /\ visible => state = "Running" /\ browser # "hidden"
    /\ ~awake => state = "Suspended"

(* The main thread leaves neither the manager nor the startup helper       *)
(* behind, whichever way startup and shutdown went: both use what the main *)
(* thread destroys next.                                                   *)
NothingOutlivesMain ==
  main = "exited" => manager \in {"off", "done"} /\ helper \in {"off", "gone"}

(* A request for shutdown, at whatever point of startup or of the run it   *)
(* comes, ends the main thread.                                            *)
ShutdownEnds == requested ~> main = "exited"

(* The helper forwards a request into mpv, so that the startup wait ends   *)
(* without waiting for mpv's next event.                                   *)
RequestEndsStartup == requested /\ main \in BootSteps ~> main \notin BootSteps

=============================================================================
