----------------------- MODULE ShutdownManager_proofs -----------------------
(***************************************************************************)
(* Proofs about ShutdownManager for every set of requesters and all        *)
(* bounds: its types, that the manager never sleeps through work, that no  *)
(* thread outlives the main thread, and that the overlay follows the       *)
(* window.                                                                 *)
(*                                                                         *)
(* The inductive invariant says which threads exist at which step of the   *)
(* main thread (Follows), and extends NoLostWake from the moment the       *)
(* manager waits back to the moment it took its queue (Awake).  The        *)
(* overlay's (Tracks) says what its state will be once the reports on      *)
(* their way have arrived.                                                 *)
(***************************************************************************)
EXTENDS ShutdownManager, TLAPS

Before == {"install", "replay", "boot"}
Running == {"run", "ingest", "park", "join_manager"}

(* The handler is installed first; the helper lives during the startup     *)
(* wait, the manager from its preparation to its join.                     *)
Follows ==
  /\ main # "install" => handler
  /\ main \in Before => helper = "off"
  /\ main \in {"prepare", "start", "drop", "activate"} \cup Running =>
       helper = "gone"
  /\ main = "exited" => helper \in {"off", "gone"}
  /\ main \in Before \cup BootSteps \cup
       {"stop", "signal_stop", "join_helper", "prepare"} => manager = "off"
  /\ main \in {"start", "activate"} => manager = "recv"
  /\ main = "drop" => manager \in {"recv", "done"}
  /\ main = "exited" => manager \in {"off", "done"}

Pending == \E c \in Callers : call[c] # "idle"

EndsInShutdown == Len(work) > 0 /\ work[Len(work)] = "Shutdown"

Awake ==
  manager \in {"apply", "wait"} /\ ~wake =>
    /\ queue = <<>> \/ report = "signal"
    /\ requested => Pending \/ (manager = "apply" /\ EndsInShutdown)

IInv == TypeOK /\ Follows /\ Awake

USE DEF Callers, BootSteps, Messages, MainAt, signal_vars, queue_vars, boot_vars,
        mpv_vars, manager_vars, overlay_vars, window_vars, startup_vars, run_vars

-----------------------------------------------------------------------------
(* Types.                                                                  *)

LEMMA TypeInit == Init => TypeOK
  <1> SUFFICES ASSUME Init PROVE TypeOK
    OBVIOUS
  <1>1. /\ requested \in BOOLEAN /\ handler \in BOOLEAN
        /\ boot_wake \in BOOLEAN /\ wake \in BOOLEAN /\ stop \in BOOLEAN
        /\ background \in BOOLEAN /\ mpv_wakeup \in BOOLEAN
        /\ visible \in BOOLEAN /\ awake \in BOOLEAN /\ parked \in BOOLEAN
    BY Zenon DEF Init
  <1>2. call \in [Callers -> {"idle", "load", "boot_wake", "wake"}]
    BY DEF Init
  <1> QED
    BY <1>1, <1>2, ShutdownConstants DEF Init, TypeOK

LEMMA InitiatedType ==
  ASSUME TypeOK, NEW c \in Callers, Initiated(c)
  PROVE  requested' \in BOOLEAN
         /\ call' \in [Callers -> {"idle", "load", "boot_wake", "wake"}]
  <1>1. requested' \in BOOLEAN
    BY Zenon DEF Initiated
  <1>2. call' \in [Callers -> {"idle", "load", "boot_wake", "wake"}]
    BY DEF Initiated, TypeOK
  <1> QED
    BY <1>1, <1>2

LEMMA RequestType ==
  ASSUME TypeOK, NEW c \in Callers, Initiate(c) \/ Notify(c)
  PROVE  TypeOK'
  <1>1. CASE Initiate(c)
    BY <1>1, InitiatedType DEF TypeOK, Initiate
  <1>2. CASE LoadHandler(c)
    BY <1>2 DEF TypeOK, LoadHandler
  <1>3. CASE SignalBootWake(c)
    BY <1>3 DEF TypeOK, SignalBootWake
  <1>4. CASE SignalWake(c)
    BY <1>4 DEF TypeOK, SignalWake
  <1> QED
    BY <1>1, <1>2, <1>3, <1>4 DEF Notify

(* Both ways of consuming an mpv event keep the pump's variables in type. *)
LEMMA ConsumeType ==
  ASSUME TypeOK, mpv # <<>>, NEW next \in {"drain", "check"}, Consume(next)
  PROVE  /\ mpv' \in Seq({"log", "background", "fatal"})
         /\ background' \in BOOLEAN
         /\ main' \in {"stop", next} /\ outcome' \in {"none", "ready", "failed"}
  <1>1. background' \in BOOLEAN
    BY Zenon DEF Consume
  <1> QED
    BY <1>1 DEF TypeOK, Consume, Break, Continue

LEMMA PumpType ==
  ASSUME TypeOK, DrainEvents \/ BlockForEvent
  PROVE  TypeOK'
  <1>1. mpv_wakeup' \in BOOLEAN
    BY Zenon DEF DrainEvents, BlockForEvent
  <1>2. CASE DrainEvents
    <2>1. CASE mpv # <<>>
      <3>1. Consume("drain")
        BY <1>2, <2>1 DEF DrainEvents
      <3> QED
        BY <1>1, <1>2, <2>1, <3>1, ConsumeType DEF TypeOK, DrainEvents
    <2>2. CASE mpv = <<>>
      BY <1>1, <1>2, <2>2 DEF TypeOK, DrainEvents, Continue
    <2> QED
      BY <2>1, <2>2
  <1>3. CASE BlockForEvent
    <2>1. CASE mpv # <<>>
      <3>1. Consume("check")
        BY <1>3, <2>1 DEF BlockForEvent
      <3> QED
        BY <1>1, <1>3, <2>1, <3>1, ConsumeType DEF TypeOK, BlockForEvent
    <2>2. CASE mpv = <<>>
      BY <1>1, <1>3, <2>2 DEF TypeOK, BlockForEvent, Continue
    <2> QED
      BY <2>1, <2>2
  <1> QED
    BY <1>2, <1>3

LEMMA StartupType ==
  ASSUME TypeOK,
         \/ Install \/ Replay \/ StartBoot \/ CheckRequest
         \/ CheckProgress \/ StoreStop \/ SignalStop \/ JoinHelper
  PROVE  TypeOK'
  <1>1. CASE Install
    BY <1>1 DEF TypeOK, Install
  <1>2. CASE Replay
    BY <1>2 DEF TypeOK, Replay
  <1>3. CASE StartBoot
    BY <1>3 DEF TypeOK, StartBoot
  <1>4. CASE CheckRequest
    BY <1>4 DEF TypeOK, CheckRequest, Break, Continue
  <1>5. CASE CheckProgress
    BY <1>5 DEF TypeOK, CheckProgress, Break, Continue
  <1>6. CASE StoreStop
    BY <1>6 DEF TypeOK, StoreStop
  <1>7. CASE SignalStop
    BY <1>7 DEF TypeOK, SignalStop
  <1>8. CASE JoinHelper
    BY <1>8 DEF TypeOK, JoinHelper
  <1> QED
    BY <1>1, <1>2, <1>3, <1>4, <1>5, <1>6, <1>7, <1>8

LEMMA HelperType ==
  ASSUME TypeOK,
         \/ HelperDrains \/ HelperLooksForStop \/ HelperWakesMpv \/ MpvReplies
         \/ MpvReports \/ PublishExtent \/ NotifyExtent
  PROVE  TypeOK'
  <1>1. CASE HelperDrains
    <2>1. boot_wake' \in BOOLEAN
      BY <1>1, Zenon DEF HelperDrains
    <2> QED
      BY <1>1, <2>1 DEF TypeOK, HelperDrains
  <1>2. CASE HelperLooksForStop
    BY <1>2 DEF TypeOK, HelperLooksForStop
  <1>3. CASE HelperWakesMpv
    BY <1>3 DEF TypeOK, HelperWakesMpv
  <1>4. CASE MpvReplies
    BY <1>4 DEF TypeOK, MpvReplies
  <1>5. CASE MpvReports
    BY <1>5, ShutdownConstants DEF TypeOK, MpvReports
  <1>6. CASE PublishExtent
    BY <1>6 DEF TypeOK, PublishExtent
  <1>7. CASE NotifyExtent
    BY <1>7 DEF TypeOK, NotifyExtent
  <1> QED
    BY <1>1, <1>2, <1>3, <1>4, <1>5, <1>6, <1>7

LEMMA RunType ==
  ASSUME TypeOK,
         \/ Prepare \/ StartOverlay \/ JoinDropped \/ Activate
         \/ RunRuntime \/ StartIngestion \/ LeaveMainLoop \/ JoinManager
  PROVE  TypeOK'
  <1>1. CASE Prepare
    BY <1>1 DEF TypeOK, Prepare
  <1>2. CASE StartOverlay
    BY <1>2 DEF TypeOK, StartOverlay
  <1>3. CASE JoinDropped
    BY <1>3 DEF TypeOK, JoinDropped
  <1>4. CASE Activate
    BY <1>4 DEF TypeOK, Activate
  <1>5. CASE RunRuntime
    BY <1>5 DEF TypeOK, RunRuntime
  <1>6. CASE StartIngestion
    BY <1>6, InitiatedType DEF TypeOK, StartIngestion
  <1>7. CASE LeaveMainLoop
    BY <1>7 DEF TypeOK, LeaveMainLoop
  <1>8. CASE JoinManager
    BY <1>8 DEF TypeOK, JoinManager
  <1> QED
    BY <1>1, <1>2, <1>3, <1>4, <1>5, <1>6, <1>7, <1>8

LEMMA OverlayType ==
  ASSUME TypeOK,
         \/ EnsureBrowser \/ AfterCreated \/ BeforeClose \/ RunSetHidden
  PROVE  TypeOK'
  <1>1. CASE EnsureBrowser
    BY <1>1 DEF TypeOK, EnsureBrowser
  <1>2. CASE AfterCreated
    BY <1>2 DEF TypeOK, AfterCreated
  <1>3. CASE BeforeClose
    BY <1>3, ShutdownConstants DEF TypeOK, BeforeClose
  <1>4. CASE RunSetHidden
    BY <1>4 DEF TypeOK, RunSetHidden
  <1> QED
    BY <1>1, <1>2, <1>3, <1>4

LEMMA WindowType ==
  ASSUME TypeOK,
         \/ SetVisible(TRUE) \/ SetVisible(FALSE) \/ Sleep \/ WakeUp
         \/ PushReport \/ SignalReport
  PROVE  TypeOK'
  <1>1. CASE SetVisible(TRUE)
    BY <1>1, ShutdownConstants DEF TypeOK, SetVisible, MayReport
  <1>2. CASE SetVisible(FALSE)
    <2>1. visible' \in BOOLEAN
      BY <1>2, Zenon DEF SetVisible
    <2> QED
      BY <1>2, <2>1, ShutdownConstants DEF TypeOK, SetVisible, MayReport
  <1>3. CASE Sleep
    <2>1. awake' \in BOOLEAN
      BY <1>3, Zenon DEF Sleep
    <2> QED
      BY <1>3, <2>1, ShutdownConstants DEF TypeOK, Sleep, MayReport
  <1>4. CASE WakeUp
    BY <1>4, ShutdownConstants DEF TypeOK, WakeUp, MayReport
  <1>5. CASE PushReport
    BY <1>5 DEF TypeOK, PushReport
  <1>6. CASE SignalReport
    BY <1>6 DEF TypeOK, SignalReport
  <1> QED
    BY <1>1, <1>2, <1>3, <1>4, <1>5, <1>6

LEMMA WorkerType ==
  ASSUME TypeOK,
         \/ Receive \/ DrainWake \/ TakeQueue \/ BeginClose
         \/ EndClose \/ WakeMain \/ Return \/ FinishBatch
         \/ AwaitWake
  PROVE  TypeOK'
  <1>1. CASE Receive
    BY <1>1 DEF TypeOK, Receive
  <1>2. CASE DrainWake
    <2>1. wake' \in BOOLEAN
      BY <1>2, Zenon DEF DrainWake
    <2> QED
      BY <1>2, <2>1 DEF TypeOK, DrainWake
  <1>3. CASE TakeQueue
    BY <1>3 DEF TypeOK, TakeQueue
  <1>4. CASE BeginClose
    BY <1>4 DEF TypeOK, BeginClose
  <1>5. CASE EndClose
    BY <1>5 DEF TypeOK, EndClose
  <1>6. CASE WakeMain
    <2>1. parked' \in BOOLEAN
      BY <1>6, Zenon DEF WakeMain
    <2> QED
      BY <1>6, <2>1 DEF TypeOK, WakeMain
  <1>7. CASE Return
    BY <1>7 DEF TypeOK, Return
  <1>8. CASE FinishBatch
    BY <1>8 DEF TypeOK, FinishBatch
  <1>9. CASE AwaitWake
    BY <1>9 DEF TypeOK, AwaitWake
  <1> QED
    BY <1>1, <1>2, <1>3, <1>4, <1>5, <1>6, <1>7, <1>8, <1>9

LEMMA ApplyType ==
  ASSUME TypeOK, Apply
  PROVE  TypeOK'
  <1>1. Folded(state, Head(work)) \in {"Running", "Hidden", "Suspended", "ShuttingDown"}
    BY DEF TypeOK, Folded
  <1>2. HiddenCalls(state, Head(work)) \in Seq({"hide", "show"})
    <2>1. HiddenCalls(state, Head(work)) \in {<<"hide">>, <<"show">>, <<>>}
      BY Zenon DEF HiddenCalls
    <2>2. /\ <<"hide">> \in Seq({"hide", "show"})
          /\ <<"show">> \in Seq({"hide", "show"})
          /\ <<>> \in Seq({"hide", "show"})
      OBVIOUS
    <2> QED
      BY <2>1, <2>2, Zenon
  <1>3. ui' \in Seq({"hide", "show"})
    BY <1>2 DEF TypeOK, Apply, Post
  <1> QED
    BY <1>1, <1>3 DEF TypeOK, Apply

LEMMA TypeNext == TypeOK /\ [Next]_vars => TypeOK'
  <1> SUFFICES ASSUME TypeOK, [Next]_vars PROVE TypeOK'
    OBVIOUS
  <1>1. CASE UNCHANGED vars
    BY <1>1 DEF vars, TypeOK
  <1>2. ASSUME NEW c \in Requesters, Initiate(c) \/ Notify(c) PROVE TypeOK'
    BY <1>2, RequestType
  <1>3. CASE MainStep
    BY <1>3, RequestType, StartupType, PumpType, RunType DEF MainStep
  <1>4. CASE HelperStep \/ MpvReplies \/ MpvReports \/ PublishExtent \/ NotifyExtent
    BY <1>4, HelperType DEF HelperStep
  <1>5. CASE ManagerStep
    BY <1>5, WorkerType, ApplyType DEF ManagerStep
  <1>6. CASE EnsureBrowser \/ AfterCreated \/ BeforeClose \/ RunSetHidden
    BY <1>6, OverlayType
  <1>7. ASSUME NEW v \in BOOLEAN, SetVisible(v) PROVE TypeOK'
    BY <1>7, WindowType
  <1>8. CASE Sleep \/ WakeUp \/ PushReport \/ SignalReport
    BY <1>8, WindowType
  <1> QED
    BY <1>1, <1>2, <1>3, <1>4, <1>5, <1>6, <1>7, <1>8 DEF Next

-----------------------------------------------------------------------------
(* Which threads exist.                                                    *)

(* Nothing but the main thread, the helper and the manager disturbs it. *)
LEMMA FollowsIdle ==
  ASSUME Follows, UNCHANGED <<main, helper, manager, handler>>
  PROVE  Follows'
  BY DEF Follows

LEMMA FollowsStartup ==
  ASSUME TypeOK, Follows,
         \/ Install \/ Replay \/ StartBoot \/ CheckRequest
         \/ DrainEvents \/ BlockForEvent \/ CheckProgress
         \/ StoreStop \/ SignalStop \/ JoinHelper
  PROVE  Follows'
  <1>1. CASE Install \/ Replay
    BY <1>1 DEF Follows, Before, Running, Install, Replay
  <1>2. CASE StartBoot
    BY <1>2 DEF Follows, Before, Running, StartBoot
  <1>3. CASE CheckRequest \/ CheckProgress
    BY <1>3 DEF Follows, Before, Running, CheckRequest, CheckProgress, Break, Continue
  <1>4. CASE DrainEvents \/ BlockForEvent
    <2>1. main' \in BootSteps \cup {"stop"} /\ main \in BootSteps
      BY <1>4 DEF DrainEvents, BlockForEvent, Consume, Break, Continue
    <2>2. UNCHANGED <<helper, manager, handler>>
      BY <1>4 DEF DrainEvents, BlockForEvent
    <2> QED
      BY <2>1, <2>2 DEF Follows, Before, Running
  <1>5. CASE StoreStop \/ SignalStop
    BY <1>5 DEF Follows, Before, Running, StoreStop, SignalStop
  <1>6. CASE JoinHelper
    BY <1>6 DEF Follows, Before, Running, JoinHelper
  <1> QED
    BY <1>1, <1>2, <1>3, <1>4, <1>5, <1>6

LEMMA FollowsRun ==
  ASSUME TypeOK, Follows,
         \/ Prepare \/ StartOverlay \/ JoinDropped \/ Activate
         \/ RunRuntime \/ StartIngestion \/ LeaveMainLoop \/ JoinManager
  PROVE  Follows'
  <1>1. CASE Prepare
    BY <1>1 DEF Follows, Before, Running, Prepare
  <1>2. CASE StartOverlay
    BY <1>2 DEF Follows, Before, Running, StartOverlay
  <1>3. CASE JoinDropped \/ JoinManager
    BY <1>3 DEF Follows, Before, Running, JoinDropped, JoinManager
  <1>4. CASE Activate \/ RunRuntime
    BY <1>4 DEF Follows, Before, Running, Activate, RunRuntime
  <1>5. CASE StartIngestion \/ LeaveMainLoop
    BY <1>5 DEF Follows, Before, Running, StartIngestion, LeaveMainLoop
  <1> QED
    BY <1>1, <1>2, <1>3, <1>4, <1>5

(* The helper runs only between its start and its join. *)
LEMMA FollowsHelper ==
  ASSUME TypeOK, Follows, HelperStep
  PROVE  Follows'
  BY DEF TypeOK, Follows, Before, Running, HelperStep, HelperDrains,
         HelperLooksForStop, HelperWakesMpv

(* The manager steps only once the main thread has the overlay or dropped  *)
(* the manager, and a returned manager stays returned.                     *)
LEMMA FollowsManager ==
  ASSUME TypeOK, Follows, ManagerStep
  PROVE  Follows'
  <1>1. UNCHANGED <<main, helper, handler>>
    BY DEF ManagerStep, Receive, DrainWake, TakeQueue, Apply, BeginClose, EndClose,
           WakeMain, Return, FinishBatch, AwaitWake
  <1>2. CASE Receive
    BY <1>1, <1>2 DEF Follows, Before, Running, Receive
  <1>3. CASE ~Receive
    <2>1. manager \notin {"off", "recv", "done"}
      BY <1>3 DEF ManagerStep, DrainWake, TakeQueue, Apply, BeginClose, EndClose,
                  WakeMain, Return, FinishBatch, AwaitWake
    <2>2. main \in Running
      BY <2>1 DEF TypeOK, Follows, Before, Running
    <2> QED
      BY <1>1, <2>2 DEF Follows, Before, Running
  <1> QED
    BY <1>2, <1>3

LEMMA FollowsNext == TypeOK /\ Follows /\ [Next]_vars => Follows'
  <1> SUFFICES ASSUME TypeOK, Follows, [Next]_vars PROVE Follows'
    OBVIOUS
  <1>1. CASE UNCHANGED vars
    BY <1>1, FollowsIdle DEF vars
  <1>2. ASSUME NEW c \in Callers, Initiate(c) \/ Notify(c) PROVE Follows'
    BY <1>2, FollowsIdle
       DEF Initiate, Notify, LoadHandler, SignalBootWake, SignalWake
  <1>3. CASE MainStep
    BY <1>2, <1>3, FollowsStartup, FollowsRun DEF MainStep
  <1>4. CASE HelperStep
    BY <1>4, FollowsHelper
  <1>5. CASE ManagerStep
    BY <1>5, FollowsManager
  <1>6. CASE MpvReplies \/ MpvReports \/ PublishExtent \/ NotifyExtent
    BY <1>6, FollowsIdle DEF MpvReplies, MpvReports, PublishExtent, NotifyExtent
  <1>7. CASE EnsureBrowser \/ AfterCreated \/ BeforeClose \/ RunSetHidden
    BY <1>7, FollowsIdle DEF EnsureBrowser, AfterCreated, BeforeClose, RunSetHidden
  <1>8. CASE (\E v \in BOOLEAN : SetVisible(v)) \/ Sleep \/ WakeUp
    BY <1>8, FollowsIdle DEF SetVisible, Sleep, WakeUp
  <1>9. CASE PushReport \/ SignalReport
    BY <1>9, FollowsIdle DEF PushReport, SignalReport
  <1> QED
    BY <1>1, <1>2, <1>3, <1>4, <1>5, <1>6, <1>7, <1>8, <1>9 DEF Next

-----------------------------------------------------------------------------
(* The manager's wake.                                                     *)

LEMMA AwakeIdle ==
  ASSUME Awake,
         UNCHANGED <<manager, work, wake, queue, report, requested, call>>
  PROVE  Awake'
  BY DEF Awake, Pending, EndsInShutdown

(* A caller has a wake to give from the swap until it has given it; the    *)
(* handler is there whenever the manager is.                               *)
LEMMA AwakeRequest ==
  ASSUME TypeOK, Follows, Awake, NEW c \in Callers, Initiate(c) \/ Notify(c)
  PROVE  Awake'
  <1>1. CASE Initiate(c)
    <2>1. requested' /\ (requested => call' = call) /\ (~requested => call'[c] = "load")
      BY <1>1 DEF Initiate, Initiated, TypeOK
    <2>2. UNCHANGED <<manager, work, wake, queue, report>>
      BY <1>1 DEF Initiate
    <2> QED
      BY <2>1, <2>2 DEF Awake, Pending, EndsInShutdown
  <1>2. CASE LoadHandler(c)
    <2>1. manager \in {"apply", "wait"} => call'[c] = "boot_wake"
      BY <1>2 DEF LoadHandler, TypeOK, Follows, Before
    <2> QED
      BY <1>2, <2>1 DEF Awake, Pending, EndsInShutdown, LoadHandler
  <1>3. CASE SignalBootWake(c)
    <2>1. call'[c] = "wake"
      BY <1>3 DEF SignalBootWake, TypeOK
    <2> QED
      BY <1>3, <2>1 DEF Awake, Pending, EndsInShutdown, SignalBootWake
  <1>4. CASE SignalWake(c)
    BY <1>4 DEF Awake, SignalWake
  <1> QED
    BY <1>1, <1>2, <1>3, <1>4 DEF Notify

LEMMA AwakeMain ==
  ASSUME TypeOK, Follows, Awake, MainStep, ~Notify(Main)
  PROVE  Awake'
  <1>1. CASE Replay \/ Prepare
    BY <1>1 DEF Awake, Follows, Before, Replay, Prepare
  <1>2. CASE StartIngestion
    <2>1. UNCHANGED <<manager, work, wake, queue, report>>
      BY <1>2 DEF StartIngestion
    <2>2. CASE UNCHANGED <<requested, call>>
      BY <2>1, <2>2, AwakeIdle
    <2>3. CASE Initiated(Main)
      <3>1. IF requested THEN call' = call ELSE call'[Main] = "load"
        BY <2>3 DEF Initiated, TypeOK
      <3> QED
        BY <2>1, <3>1 DEF Awake, Pending, EndsInShutdown
    <2> QED
      BY <1>2, <2>2, <2>3 DEF StartIngestion
  <1>3. CASE ~(Replay \/ Prepare \/ StartIngestion)
    BY <1>3, AwakeIdle
       DEF MainStep, Install, StartBoot, CheckRequest, DrainEvents, CheckProgress,
           BlockForEvent, StoreStop, SignalStop, JoinHelper, StartOverlay, JoinDropped,
           Activate, RunRuntime, LeaveMainLoop, JoinManager
  <1> QED
    BY <1>1, <1>2, <1>3

LEMMA AwakeManager ==
  ASSUME TypeOK, Awake, ManagerStep
  PROVE  Awake'
  <1>1. CASE TakeQueue
    <2>1. queue' = <<>> /\ UNCHANGED <<wake, requested>>
      BY <1>1 DEF TakeQueue
    <2>2. requested => EndsInShutdown'
      BY <1>1 DEF TakeQueue, EndsInShutdown, TypeOK
    <2>3. manager' = "apply"
      BY <1>1 DEF TakeQueue
    <2> QED
      BY <2>1, <2>2, <2>3 DEF Awake
  <1>2. CASE Apply
    <2>1. ASSUME EndsInShutdown PROVE EndsInShutdown'
      <3>1. /\ work \in Seq(Messages) /\ work # <<>> /\ work' = Tail(work)
            /\ work[1] # "Shutdown" /\ work[Len(work)] = "Shutdown"
        BY <1>2, <2>1 DEF Apply, EndsInShutdown, TypeOK
      <3>2. Len(work) \in Nat /\ Len(work) > 1
        BY <3>1
      <3>3. Len(work') = Len(work) - 1 /\ work'[Len(work')] = work[Len(work)]
        BY <3>1, <3>2
      <3> QED
        BY <3>1, <3>2, <3>3 DEF EndsInShutdown
    <2>2. /\ manager = "apply" /\ manager' = "apply"
          /\ UNCHANGED <<wake, queue, report, requested, call>>
      BY <1>2 DEF Apply
    <2> QED
      BY <2>1, <2>2 DEF Awake, Pending
  <1>3. CASE FinishBatch
    BY <1>3 DEF Awake, Pending, EndsInShutdown, FinishBatch
  <1>4. CASE ~(TakeQueue \/ Apply \/ FinishBatch)
    BY <1>4 DEF Awake, ManagerStep, Receive, DrainWake, BeginClose, EndClose,
                WakeMain, Return, AwaitWake
  <1> QED
    BY <1>1, <1>2, <1>3, <1>4

LEMMA AwakeNext == TypeOK /\ Follows /\ Awake /\ [Next]_vars => Awake'
  <1> SUFFICES ASSUME TypeOK, Follows, Awake, [Next]_vars PROVE Awake'
    OBVIOUS
  <1>1. CASE UNCHANGED vars
    BY <1>1, AwakeIdle DEF vars
  <1>2. ASSUME NEW c \in Callers, Initiate(c) \/ Notify(c) PROVE Awake'
    BY <1>2, AwakeRequest
  <1>3. CASE MainStep
    BY <1>2, <1>3, AwakeMain
  <1>4. CASE HelperStep \/ MpvReplies \/ MpvReports \/ PublishExtent \/ NotifyExtent
    BY <1>4, AwakeIdle
       DEF HelperStep, HelperDrains, HelperLooksForStop, HelperWakesMpv,
           MpvReplies, MpvReports, PublishExtent, NotifyExtent
  <1>5. CASE ManagerStep
    BY <1>5, AwakeManager
  <1>6. CASE EnsureBrowser \/ AfterCreated \/ BeforeClose \/ RunSetHidden
    BY <1>6, AwakeIdle DEF EnsureBrowser, AfterCreated, BeforeClose, RunSetHidden
  <1>7. CASE (\E v \in BOOLEAN : SetVisible(v)) \/ Sleep \/ WakeUp
    <2>1. /\ report # "signal"
          /\ UNCHANGED <<manager, work, wake, queue, requested, call>>
      BY <1>7 DEF SetVisible, Sleep, WakeUp, MayReport
    <2> QED
      BY <2>1 DEF Awake, Pending, EndsInShutdown
  <1>8. CASE PushReport
    BY <1>8 DEF Awake, Pending, EndsInShutdown, PushReport
  <1>9. CASE SignalReport
    BY <1>9 DEF Awake, SignalReport
  <1> QED
    BY <1>1, <1>2, <1>3, <1>4, <1>5, <1>6, <1>7, <1>8, <1>9 DEF Next

-----------------------------------------------------------------------------
(* The theorems.                                                           *)

(* The strengthening of the three invariants is inductive for every set of  *)
(* requesters and every bound.                                             *)
THEOREM Inductive == Spec => []IInv
  <1>1. Init => IInv
    BY TypeInit DEF Init, IInv, Follows, Awake, Before, Running
  <1>2. IInv /\ [Next]_vars => IInv'
    BY TypeNext, FollowsNext, AwakeNext DEF IInv
  <1> QED
    BY <1>1, <1>2, PTL DEF Spec

(* Every variable keeps its type: no step of the program leaves the states *)
(* its threads are written for.                                            *)
THEOREM TypeCorrect == Spec => []TypeOK
  <1>1. IInv => TypeOK
    BY DEF IInv
  <1> QED
    BY <1>1, Inductive, PTL

(* The manager never waits with its wake event down while a message or a   *)
(* request has no wake of its own: draining the event before taking the    *)
(* queue, and pushing before signalling, lose nothing.                     *)
THEOREM NothingIsSleptThrough == Spec => []NoLostWake
  <1>1. IInv => NoLostWake
    BY DEF IInv, Awake, NoLostWake, Pending
  <1> QED
    BY <1>1, Inductive, PTL

(* When the main thread has left, so have the startup helper and the       *)
(* manager: every way out of run_app joins what it started.                *)
THEOREM MainLeavesLast == Spec => []NothingOutlivesMain
  <1>1. IInv => NothingOutlivesMain
    BY DEF IInv, Follows, NothingOutlivesMain
  <1> QED
    BY <1>1, Inductive, PTL

-----------------------------------------------------------------------------
(* The overlay.                                                            *)

(* A report of the window reaches the browser through four stages: the     *)
(* reporting thread, the queue, the manager's batch and the tasks of the   *)
(* UI thread.  What counts is the last report of a kind that is still on   *)
(* its way.  Of two messages that undo one another, `on` is the last in s: *)
LastIs(s, on, off) ==
  \E i \in 1 .. Len(s) :
    s[i] = on /\ \A j \in 1 .. Len(s) : j > i => s[j] # on /\ s[j] # off

(* ... or neither is in s. *)
Silent(s, on, off) == \A i \in 1 .. Len(s) : s[i] # on /\ s[i] # off

(* A flag that is b, and that `on` sets and `off` clears, is set once s has *)
(* been delivered.                                                         *)
After(s, on, off, b) == LastIs(s, on, off) \/ (Silent(s, on, off) /\ b)

(* ... once everything on its way to the manager has been. *)
Arrives(on, off, b) ==
  \/ report = on
  \/ report # off /\ After(queue, on, off, After(work, on, off, b))

(* The window's state is what the manager's state, or the messages on their *)
(* way to it, say; a running overlay is not hidden, or about to be shown.  *)
Tracks ==
  SessionActive =>
    /\ awake   => Arrives("Resume", "Suspend", state # "Suspended")
    /\ ~awake  => Arrives("Suspend", "Resume", state = "Suspended")
    /\ visible => Arrives("Visible", "Invisible", state # "Hidden")
    /\ state = "Running" => After(ui, "show", "hide", browser # "hidden")
    /\ state # "ShuttingDown"
    /\ browser = "no_client" => ui = <<>>
    /\ manager # "apply" => work = <<>>

(* What a message at the end, and the delivery of the first one, change.   *)
LEMMA AppendLast ==
  ASSUME NEW S, NEW s \in Seq(S), NEW x \in S, NEW on, NEW off
  PROVE  /\ LastIs(Append(s, x), on, off) <=> x = on \/ (x # off /\ LastIs(s, on, off))
         /\ Silent(Append(s, x), on, off) <=> Silent(s, on, off) /\ x # on /\ x # off
  <1> DEFINE t == Append(s, x)
  <1>1. /\ Len(t) = Len(s) + 1 /\ Len(s) \in Nat /\ t[Len(s) + 1] = x
        /\ \A i \in 1 .. Len(s) : t[i] = s[i]
    OBVIOUS
  <1> HIDE DEF t
  <1>2. Silent(t, on, off) <=> Silent(s, on, off) /\ x # on /\ x # off
    BY <1>1 DEF Silent
  <1>3. ASSUME LastIs(t, on, off) PROVE x = on \/ (x # off /\ LastIs(s, on, off))
    <2>1. PICK i \in 1 .. Len(t) :
            t[i] = on /\ \A j \in 1 .. Len(t) : j > i => t[j] # on /\ t[j] # off
      BY <1>3 DEF LastIs
    <2>2. CASE i = Len(s) + 1
      BY <1>1, <2>1, <2>2
    <2>3. CASE i # Len(s) + 1
      <3>1. i \in 1 .. Len(s) /\ Len(s) + 1 \in 1 .. Len(t) /\ Len(s) + 1 > i
        BY <1>1, <2>3
      <3>2. x # off /\ s[i] = on /\ \A j \in 1 .. Len(s) : j > i => s[j] # on /\ s[j] # off
        BY <1>1, <2>1, <3>1
      <3> QED BY <3>1, <3>2 DEF LastIs
    <2> QED BY <2>2, <2>3
  <1>4. ASSUME x = on PROVE LastIs(t, on, off)
    <2>1. Len(s) + 1 \in 1 .. Len(t) /\ \A j \in 1 .. Len(t) : ~(j > Len(s) + 1)
      BY <1>1
    <2> QED BY <1>1, <1>4, <2>1 DEF LastIs
  <1>5. ASSUME x # on, x # off, LastIs(s, on, off) PROVE LastIs(t, on, off)
    <2>1. PICK i \in 1 .. Len(s) :
            s[i] = on /\ \A j \in 1 .. Len(s) : j > i => s[j] # on /\ s[j] # off
      BY <1>5 DEF LastIs
    <2>2. ASSUME NEW j \in 1 .. Len(t), j > i PROVE t[j] # on /\ t[j] # off
      <3>1. j = Len(s) + 1 \/ j \in 1 .. Len(s)
        BY <1>1
      <3> QED BY <1>1, <1>5, <2>1, <2>2, <3>1
    <2>3. i \in 1 .. Len(t) /\ t[i] = on
      BY <1>1, <2>1
    <2> QED BY <2>2, <2>3 DEF LastIs
  <1> QED BY <1>2, <1>3, <1>4, <1>5 DEF t

LEMMA TailLast ==
  ASSUME NEW S, NEW s \in Seq(S), s # <<>>, NEW on, NEW off
  PROVE  /\ LastIs(s, on, off) =>
              LastIs(Tail(s), on, off) \/ (Head(s) = on /\ Silent(Tail(s), on, off))
         /\ Silent(s, on, off) => Silent(Tail(s), on, off) /\ Head(s) # on /\ Head(s) # off
  <1> DEFINE t == Tail(s)
             h == Head(s)
  <1>1. /\ Len(s) \in Nat /\ Len(s) > 0 /\ Len(t) = Len(s) - 1 /\ h = s[1]
        /\ \A i \in 1 .. Len(t) : t[i] = s[i + 1]
    OBVIOUS
  <1> HIDE DEF t, h
  <1>2. ASSUME Silent(s, on, off) PROVE Silent(t, on, off) /\ h # on /\ h # off
    <2>1. \A i \in 1 .. Len(t) : i + 1 \in 1 .. Len(s)
      BY <1>1
    <2>2. 1 \in 1 .. Len(s)
      BY <1>1
    <2> QED BY <1>1, <1>2, <2>1, <2>2 DEF Silent
  <1>3. ASSUME LastIs(s, on, off) PROVE LastIs(t, on, off) \/ (h = on /\ Silent(t, on, off))
    <2>1. PICK i \in 1 .. Len(s) :
            s[i] = on /\ \A j \in 1 .. Len(s) : j > i => s[j] # on /\ s[j] # off
      BY <1>3 DEF LastIs
    <2>2. CASE i = 1
      <3>1. \A j \in 1 .. Len(t) : j + 1 \in 1 .. Len(s) /\ j + 1 > i
        BY <1>1, <2>2
      <3>2. Silent(t, on, off)
        BY <1>1, <2>1, <3>1 DEF Silent
      <3> QED BY <1>1, <2>1, <2>2, <3>2
    <2>3. CASE i # 1
      <3>1. i - 1 \in 1 .. Len(t) /\ t[i - 1] = on
        BY <1>1, <2>1, <2>3
      <3>2. ASSUME NEW j \in 1 .. Len(t), j > i - 1 PROVE t[j] # on /\ t[j] # off
        <4>1. j + 1 \in 1 .. Len(s) /\ j + 1 > i
          BY <1>1, <3>2
        <4> QED BY <1>1, <2>1, <4>1
      <3> QED BY <3>1, <3>2 DEF LastIs
    <2> QED BY <2>2, <2>3
  <1> QED BY <1>2, <1>3 DEF t, h

LEMMA EmptyLast ==
  ASSUME NEW on, NEW off
  PROVE  ~LastIs(<<>>, on, off) /\ Silent(<<>>, on, off)
  BY DEF LastIs, Silent

(* A step that leaves the messages and what they are about. *)
LEMMA TracksIdle ==
  ASSUME Tracks, SessionActive' => SessionActive,
         UNCHANGED <<report, queue, work, awake, visible, state, ui, browser>>,
         manager' # "apply" => manager # "apply" \/ work = <<>>
  PROVE  Tracks'
  BY DEF Tracks, Arrives, After, LastIs, Silent

LEMMA TracksInit == Init => Tracks
  <1> SUFFICES ASSUME Init PROVE Tracks
    OBVIOUS
  <1>1. /\ queue = <<>> /\ work = <<>> /\ ui = <<>> /\ report = "idle" /\ awake = TRUE
        /\ visible = TRUE /\ state = "Running" /\ browser = "no_client" /\ manager = "off"
    BY DEF Init
  <1> QED BY <1>1, EmptyLast DEF Tracks, Arrives, After

(* The reporting thread. *)
LEMMA TracksReport ==
  ASSUME Tracks, (\E v \in BOOLEAN : SetVisible(v)) \/ Sleep \/ WakeUp
  PROVE  Tracks'
  <1>1. report = "idle" /\ UNCHANGED <<queue, work, state, ui, browser, manager>>
    BY DEF SetVisible, Sleep, WakeUp, MayReport
  <1>3. CASE SetVisible(TRUE)
    BY <1>1, <1>3 DEF Tracks, Arrives, SetVisible, SessionActive, After, LastIs, Silent
  <1>4. CASE SetVisible(FALSE)
    BY <1>1, <1>4 DEF Tracks, Arrives, SetVisible, SessionActive, After, LastIs, Silent
  <1>5. CASE Sleep
    BY <1>1, <1>5 DEF Tracks, Arrives, Sleep, SessionActive, After, LastIs, Silent
  <1>6. CASE WakeUp
    BY <1>1, <1>6 DEF Tracks, Arrives, WakeUp, SessionActive, After, LastIs, Silent
  <1> QED BY <1>3, <1>4, <1>5, <1>6

LEMMA TracksPush ==
  ASSUME TypeOK, Tracks, PushReport
  PROVE  Tracks'
  <1>1. /\ report \in Messages /\ queue \in Seq(Messages) /\ queue' = Append(queue, report)
        /\ report' = "signal" /\ UNCHANGED <<work, awake, visible, state, ui, browser, manager>>
    BY DEF PushReport, TypeOK
  <1>2. \A on, off : /\ LastIs(queue', on, off) <=>
                          report = on \/ (report # off /\ LastIs(queue, on, off))
                     /\ Silent(queue', on, off) <=>
                          Silent(queue, on, off) /\ report # on /\ report # off
    BY <1>1, AppendLast
  <1>3. \A on, off : /\ LastIs(work', on, off) = LastIs(work, on, off)
                     /\ Silent(work', on, off) = Silent(work, on, off)
                     /\ LastIs(ui', on, off) = LastIs(ui, on, off)
                     /\ Silent(ui', on, off) = Silent(ui, on, off)
    BY <1>1
  <1> QED BY <1>1, <1>2, <1>3 DEF Tracks, Arrives, SessionActive, After

(* The manager takes its queue, perhaps with the shutdown at its end. *)
LEMMA TracksTake ==
  ASSUME TypeOK, Tracks, TakeQueue
  PROVE  Tracks'
  <1>1. /\ queue \in Seq(Messages) /\ queue' = <<>> /\ manager = "take" /\ manager' = "apply"
        /\ UNCHANGED <<report, awake, visible, state, ui, browser>>
        /\ work' = queue \/ work' = Append(queue, "Shutdown")
    BY DEF TakeQueue, TypeOK
  <1>2. SessionActive => work = <<>>
    BY <1>1 DEF Tracks
  <1>3. \A on, off : /\ LastIs(queue, on, off) /\ off # "Shutdown" => LastIs(work', on, off)
                     /\ Silent(queue, on, off) /\ on # "Shutdown" /\ off # "Shutdown"
                          => Silent(work', on, off)
    <2>1. CASE work' = queue
      BY <2>1
    <2>2. CASE work' = Append(queue, "Shutdown")
      BY <1>1, <2>2, AppendLast
    <2> QED BY <1>1, <2>1, <2>2
  <1>4. \A on, off : /\ ~LastIs(<<>>, on, off) /\ Silent(<<>>, on, off)
                     /\ LastIs(ui', on, off) = LastIs(ui, on, off)
                     /\ Silent(ui', on, off) = Silent(ui, on, off)
    BY <1>1, EmptyLast
  <1> QED BY <1>1, <1>2, <1>3, <1>4 DEF Tracks, Arrives, SessionActive, After

(* A message is folded into the state, and its task posted. *)
LEMMA TracksApply ==
  ASSUME TypeOK, Tracks, Apply
  PROVE  Tracks'
  <1> DEFINE m == Head(work)
  <1>1. /\ work \in Seq(Messages) /\ work # <<>> /\ work' = Tail(work) /\ ui \in Seq({"hide", "show"})
        /\ m \in Messages /\ manager = "apply" /\ manager' = "apply" /\ state' = Folded(state, m)
        /\ UNCHANGED <<report, queue, awake, visible, browser>> /\ Post(HiddenCalls(state, m))
        /\ state \in {"Running", "Hidden", "Suspended", "ShuttingDown"}
    BY DEF Apply, TypeOK
  <1> HIDE DEF m
  <1>2. \A on, off : /\ LastIs(work, on, off) =>
                          LastIs(work', on, off) \/ (m = on /\ Silent(work', on, off))
                     /\ Silent(work, on, off) => Silent(work', on, off) /\ m # on /\ m # off
    BY <1>1, TailLast DEF m
  <1>3. SessionActive
    BY <1>1 DEF SessionActive
  <1>4. /\ state # "ShuttingDown" => state' # "ShuttingDown"
        /\ m = "Resume" \/ (m # "Suspend" /\ state # "Suspended") => state' # "Suspended"
        /\ state # "ShuttingDown" /\ (m = "Suspend" \/ (m # "Resume" /\ state = "Suspended"))
             => state' = "Suspended"
        /\ m = "Visible" \/ (m # "Invisible" /\ state # "Hidden") => state' # "Hidden"
    BY <1>1 DEF Folded
  <1>5. \A on, off : /\ LastIs(queue', on, off) = LastIs(queue, on, off)
                     /\ Silent(queue', on, off) = Silent(queue, on, off)
    BY <1>1
  <1>6. state' = "Running" => After(ui', "show", "hide", browser' # "hidden")
    <2> SUFFICES ASSUME state' = "Running" PROVE After(ui', "show", "hide", browser # "hidden")
      BY <1>1
    <2>1. CASE browser = "no_client"
      <3>1. ui' = <<>>
        BY <1>1, <1>3, <2>1 DEF Post, Tracks
      <3> QED BY <2>1, <3>1, EmptyLast DEF After
    <2>2. CASE browser # "no_client" /\ state = "Running"
      <3>1. HiddenCalls(state, m) = <<>>
        BY <1>1, <2>2 DEF HiddenCalls, Folded
      <3>2. ui' = ui
        BY <1>1, <2>2, <3>1 DEF Post
      <3> QED BY <1>3, <2>2, <3>2 DEF Tracks
    <2>3. CASE browser # "no_client" /\ state # "Running"
      <3>1. HiddenCalls(state, m) = <<"show">>
        BY <1>1, <1>3, <2>3 DEF HiddenCalls, Folded
      <3>2. ui' = Append(ui, "show")
        BY <1>1, <2>3, <3>1 DEF Post
      <3> QED BY <1>1, <3>2, AppendLast DEF After
    <2> QED BY <2>1, <2>2, <2>3
  <1>7. browser' = "no_client" => ui' = <<>>
    BY <1>1, <1>3 DEF Post, Tracks
  <1> QED BY <1>1, <1>2, <1>3, <1>4, <1>5, <1>6, <1>7 DEF Tracks, Arrives, After

(* The other steps of the manager; the closing ones end the session. *)
LEMMA TracksManager ==
  ASSUME TypeOK, Tracks, ManagerStep
  PROVE  Tracks'
  <1>1. CASE TakeQueue
    BY <1>1, TracksTake
  <1>2. CASE Apply
    BY <1>2, TracksApply
  <1>3. CASE FinishBatch \/ DrainWake \/ AwaitWake \/ Receive
    BY <1>3, TracksIdle DEF FinishBatch, DrainWake, AwaitWake, Receive, SessionActive
  <1>4. CASE BeginClose \/ EndClose \/ WakeMain \/ Return
    BY <1>4 DEF BeginClose, EndClose, WakeMain, Return, Tracks, SessionActive
  <1> QED BY <1>1, <1>2, <1>3, <1>4 DEF ManagerStep

(* The overlay's browser: a new one is not hidden, and a task hides it or  *)
(* shows it.                                                               *)
LEMMA TracksOverlay ==
  ASSUME TypeOK, Tracks, EnsureBrowser \/ AfterCreated \/ BeforeClose \/ RunSetHidden
  PROVE  Tracks'
  <1>1. /\ SessionActive /\ SessionActive' /\ browser' # "no_client"
        /\ UNCHANGED <<report, queue, work, awake, visible, state, manager>>
    BY DEF EnsureBrowser, AfterCreated, BeforeClose, RunSetHidden, SessionActive, Tracks
  <1>2. state = "Running" => After(ui', "show", "hide", browser' # "hidden")
    <2> SUFFICES ASSUME state = "Running" PROVE After(ui', "show", "hide", browser' # "hidden")
      OBVIOUS
    <2>1. After(ui, "show", "hide", browser # "hidden")
      BY <1>1 DEF Tracks
    <2>2. CASE EnsureBrowser \/ AfterCreated \/ BeforeClose
      <3>1. ui' = ui /\ browser' # "hidden"
        BY <2>2 DEF EnsureBrowser, AfterCreated, BeforeClose
      <3> QED BY <2>1, <3>1 DEF After
    <2>3. CASE RunSetHidden
      <3>1. /\ ui \in Seq({"hide", "show"}) /\ ui # <<>> /\ ui' = Tail(ui)
            /\ Head(ui) = "show" => browser' # "hidden"
            /\ Head(ui) # "hide" /\ browser # "hidden" => browser' # "hidden"
        BY <2>3 DEF RunSetHidden, TypeOK
      <3> QED BY <2>1, <3>1, TailLast DEF After
    <2> QED BY <2>2, <2>3
  <1>3. \A on, off : /\ LastIs(queue', on, off) = LastIs(queue, on, off)
                     /\ Silent(queue', on, off) = Silent(queue, on, off)
                     /\ LastIs(work', on, off) = LastIs(work, on, off)
                     /\ Silent(work', on, off) = Silent(work, on, off)
    BY <1>1
  <1> QED BY <1>1, <1>2, <1>3 DEF Tracks, Arrives, After

LEMMA TracksNext == TypeOK /\ Follows /\ Tracks /\ [Next]_vars => Tracks'
  <1> SUFFICES ASSUME TypeOK, Follows, Tracks, [Next]_vars PROVE Tracks'
    OBVIOUS
  <1>1. CASE UNCHANGED vars
    BY <1>1, TracksIdle DEF vars, SessionActive
  <1>2. ASSUME NEW c \in Callers, Initiate(c) \/ Notify(c) PROVE Tracks'
    BY <1>2, TracksIdle
       DEF Initiate, Notify, LoadHandler, SignalBootWake, SignalWake, SessionActive
  <1>3. CASE MainStep
    <2>1. CASE Prepare
      BY <2>1, TracksIdle DEF Prepare, SessionActive, Follows
    <2>2. CASE ~Prepare /\ ~Notify(Main)
      BY <1>3, <2>2, TracksIdle
         DEF MainStep, Install, Replay, StartBoot, CheckRequest, DrainEvents, CheckProgress,
             BlockForEvent, StoreStop, SignalStop, JoinHelper, StartOverlay, JoinDropped,
             Activate, RunRuntime, StartIngestion, LeaveMainLoop, JoinManager, SessionActive
    <2> QED BY <1>2, <2>1, <2>2
  <1>4. CASE HelperStep \/ MpvReplies \/ MpvReports \/ PublishExtent \/ NotifyExtent
    BY <1>4, TracksIdle
       DEF HelperStep, HelperDrains, HelperLooksForStop, HelperWakesMpv,
           MpvReplies, MpvReports, PublishExtent, NotifyExtent, SessionActive
  <1>5. CASE ManagerStep
    BY <1>5, TracksManager
  <1>6. CASE EnsureBrowser \/ AfterCreated \/ BeforeClose \/ RunSetHidden
    BY <1>6, TracksOverlay
  <1>7. CASE (\E v \in BOOLEAN : SetVisible(v)) \/ Sleep \/ WakeUp
    BY <1>7, TracksReport
  <1>8. CASE PushReport
    BY <1>8, TracksPush
  <1>9. CASE SignalReport
    <2>1. /\ report = "signal" /\ report' = "idle"
          /\ UNCHANGED <<queue, work, awake, visible, state, ui, browser, manager>>
      BY <1>9 DEF SignalReport
    <2> QED BY <2>1 DEF Tracks, Arrives, SessionActive, After, LastIs, Silent
  <1> QED
    BY <1>1, <1>2, <1>3, <1>4, <1>5, <1>6, <1>7, <1>8, <1>9 DEF Next

(* With nothing on its way, a visible window of a system that is awake has *)
(* no hidden browser, and a sleeping system leaves the manager suspended.  *)
THEOREM OverlayFollows == Spec => []OverlayFollowsWindow
  <1>1. TypeOK /\ Tracks => OverlayFollowsWindow
    <2> SUFFICES ASSUME TypeOK, Tracks, Settled
                 PROVE  /\ awake /\ visible => state = "Running" /\ browser # "hidden"
                        /\ ~awake => state = "Suspended"
      BY DEF OverlayFollowsWindow
    <2>1. SessionActive /\ queue = <<>> /\ report = "idle" /\ ui = <<>> /\ work = <<>>
      BY DEF Settled, SessionActive, Tracks
    <2>2. \A on, off : ~LastIs(<<>>, on, off) /\ Silent(<<>>, on, off)
      BY EmptyLast
    <2> QED BY <2>1, <2>2 DEF Tracks, Arrives, After, TypeOK
  <1>2. Spec => []Tracks
    <2>1. Spec => [](TypeOK /\ Follows)
      BY Inductive, PTL DEF IInv
    <2> QED BY <2>1, TracksInit, TracksNext, PTL DEF Spec
  <1> QED BY <1>1, <1>2, TypeCorrect, PTL

=============================================================================
