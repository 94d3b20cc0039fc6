--------------------------- MODULE BrowserSession ---------------------------
(***************************************************************************)
(* The end of the browser's session and of the native platform behind it:  *)
(* the dispatch permits and the phases of runtime.rs, the closing of the   *)
(* web overlay from the manager thread (web_overlay.rs, client/tasks.rs),  *)
(* the CEF UI thread it talks to, and the main thread's cleanup (app.rs)   *)
(* with the platform lease of platform_abi.                                *)
(*                                                                         *)
(* A permit admits work to CEF and a lease to the backend; both are only   *)
(* counts in the code.  Every wait has a deadline, and every post may be   *)
(* rejected; what follows either is one alternative here.  CEF itself, the *)
(* windowing backend and mpv are external.                                 *)
(***************************************************************************)
EXTENDS Naturals, Sequences

CONSTANTS
  Threads,        \* threads that dispatch to CEF and lease the platform
  MaxQueue,       \* bound on what they leave posted to the UI thread
  MaxRecreations  \* bound on browsers that close by themselves

ASSUME SessionConstants == MaxQueue \in Nat /\ MaxRecreations \in Nat

VARIABLES
  session,      \* Session: "Inactive" (active, no overlay), "Active", ...
  permits,      \* the threads inside dispatch
  leased,       \* the threads that hold a platform lease
  published,    \* LIVE_PLATFORM is set
  queue,        \* tasks accepted for the UI thread
  syncing,      \* the UI thread is past sync_on_ui's check
  browser,      \* "none", "creating", "live", "closing", "gone"
  recreations,  \* how many browsers closed by themselves
  kept,         \* the closer, or its CloseTask, holds the client
  slot,         \* PROBE holds a probe
  request,      \* that probe: "none", "posted", "active"
  ending,       \* a cancelled url request is still CEF's
  closer,       \* the next step of close_blocking on the manager thread
  answer,       \* the drain barrier's: "none", "client", "empty"
  delivered,    \* CloseTask has run
  main,         \* the main thread's next step
  retained,     \* the leases of "shell", "overlay" and "cef" not yet dropped
  cef,          \* "up", "down", "abandoned"
  backend,      \* PlatformRuntime is not cleaned up
  ingest,       \* the ingest thread runs
  window,       \* mpv is not terminated
  host          \* the post-window resources are there

threadVars  == <<permits, leased>>
uiVars      == <<queue, syncing, browser, recreations, slot, request, ending>>
closerVars  == <<closer, answer, delivered, kept>>
nativeVars  == <<backend, ingest, window, host>>
mainVars    == <<main, published, retained, cef, nativeVars>>
vars == <<session, threadVars, uiVars, closerVars, mainVars>>

(* Init: a running program, or a startup that got CEF but no overlay. *)
Init ==
  /\ \/ /\ session = "Active" /\ closer = "off" /\ main = "loop"
        /\ queue = <<"sync">> /\ retained = {"shell", "overlay", "cef"}
     \/ /\ session = "Inactive" /\ closer = "done" /\ main = "shell"
        /\ queue = <<>> /\ retained = {"shell", "cef"}
  /\ permits = {} /\ leased = {} /\ published = TRUE
  /\ syncing = FALSE /\ browser = "none" /\ recreations = 0
  /\ kept = FALSE /\ slot = FALSE /\ request = "none" /\ ending = FALSE
  /\ answer = "none" /\ delivered = FALSE
  /\ cef = "up" /\ backend = TRUE /\ ingest = TRUE /\ window = TRUE /\ host = TRUE

Active       == session = "Active"
ClientAlive  == browser \in {"creating", "live", "closing"} \/ kept
StartPosted  == \E i \in DOMAIN queue : queue[i] = "start"
ProducerLeft == slot \/ request # "none" \/ ending \/ StartPosted

(* Everything but the runtime's own lease. *)
Leased == leased \cup retained
          \cup (IF ClientAlive THEN {"surface"} ELSE {})
          \cup (IF syncing THEN {"sync"} ELSE {})

-----------------------------------------------------------------------------
(* Threads of the program: input, the shell actor, ingestion.              *)

(* Session::dispatch around whatever the thread does ... *)
Acquire(t) ==
  /\ t \notin permits /\ Active
  /\ permits' = permits \cup {t}
  /\ UNCHANGED <<session, leased, uiVars, closerVars, mainVars>>

(* ... such as posting a sync or an operation, here a probe ... *)
Post(t) ==
  /\ t \in permits /\ Len(queue) < MaxQueue
  /\ \E task \in {"sync", "probe"} : queue' = Append(queue, task)
  /\ UNCHANGED <<session, threadVars, syncing, browser, recreations, slot, request, ending>>
  /\ UNCHANGED <<closerVars, mainVars>>

Leave(t) ==
  /\ t \in permits
  /\ permits' = permits \ {t}
  /\ UNCHANGED <<session, leased, uiVars, closerVars, mainVars>>

(* try_lease, and the drop of the lease. *)
TryLease(t) ==
  /\ t \notin leased /\ published
  /\ leased' = leased \cup {t}
  /\ UNCHANGED <<session, permits, uiVars, closerVars, mainVars>>

DropLease(t) ==
  /\ t \in leased
  /\ leased' = leased \ {t}
  /\ UNCHANGED <<session, permits, uiVars, closerVars, mainVars>>

-----------------------------------------------------------------------------
(* The CEF UI thread, one task or callback at a time.                      *)

Ui == ~syncing /\ UNCHANGED <<session, threadVars, mainVars>>
Runs(task) == queue # <<>> /\ Head(queue) = task

(* cancel_probe_on_ui: a request that runs is CEF's until it completes. *)
ProbeCancelled == ending' = (ending \/ request = "active")

(* SyncTask, up to sync_on_ui's look at the session ... *)
BeginSync ==
  /\ Ui /\ Runs("sync")
  /\ queue' = Tail(queue) /\ syncing' = Active
  /\ UNCHANGED <<browser, recreations, slot, request, ending, closerVars>>

(* ... and ensure_browser, whose create needs a permit of its own. *)
EnsureBrowser ==
  /\ syncing /\ syncing' = FALSE
  /\ \/ /\ browser = "none" /\ "overlay" \in retained
        /\ browser' \in IF Active THEN {"creating", "gone"} ELSE {"gone"}
     \/ /\ browser # "none" \/ "overlay" \notin retained
        /\ UNCHANGED browser
  /\ UNCHANGED <<session, threadVars, mainVars, queue, recreations, slot, request, ending, closerVars>>

(* A probe operation replaces the probe before it and posts its start. *)
RunProbe ==
  /\ Ui /\ Runs("probe")
  /\ IF Active
       THEN /\ queue' = Append(Tail(queue), "start")
            /\ slot' = TRUE /\ request' = "posted" /\ ProbeCancelled
       ELSE queue' = Tail(queue) /\ UNCHANGED <<slot, request, ending>>
  /\ UNCHANGED <<syncing, browser, recreations, closerVars>>

(* start_on_ui of the last probe; one of an earlier probe was cancelled. *)
RunStart ==
  /\ Ui /\ Runs("start")
  /\ queue' = Tail(queue)
  /\ IF request = "posted" /\ \A i \in DOMAIN queue' : queue'[i] # "start"
       THEN request' = IF Active THEN "active" ELSE "none"
       ELSE UNCHANGED request
  /\ UNCHANGED <<syncing, browser, recreations, slot, ending, closerVars>>

(* DrainBarrierTask: the probe is cancelled, then the client looked up. *)
RunBarrier ==
  /\ Ui /\ Runs("barrier")
  /\ queue' = Tail(queue)
  /\ slot' = FALSE /\ request' = "none" /\ ProbeCancelled
  /\ IF closer = "answer"
       THEN /\ answer' = IF ClientAlive THEN "client" ELSE "empty"
            /\ kept' = ClientAlive
       ELSE UNCHANGED <<answer, kept>>
  /\ UNCHANGED <<syncing, browser, recreations, closer, delivered>>

(* CloseTask; a browser still being created has no host to be told. *)
RunClose ==
  /\ Ui /\ Runs("close")
  /\ queue' = Tail(queue)
  /\ browser' = IF browser = "live" THEN "closing" ELSE browser
  /\ kept' = FALSE /\ delivered' = TRUE
  /\ UNCHANGED <<syncing, recreations, slot, request, ending, closer, answer>>

RunTask == BeginSync \/ EnsureBrowser \/ RunProbe \/ RunStart \/ RunBarrier \/ RunClose

(* Mutant of AfterCreated: a browser made during shutdown stays. *)
AfterCreatedAnyway ==
  /\ Ui /\ browser = "creating"
  /\ browser' = "live"
  /\ UNCHANGED <<queue, syncing, recreations, slot, request, ending, closerVars>>

(* OnAfterCreated *)
AfterCreated ==
  /\ Ui /\ browser = "creating"
  /\ browser' = IF Active THEN "live" ELSE "closing"
  /\ UNCHANGED <<queue, syncing, recreations, slot, request, ending, closerVars>>

(* OnBeforeClose: the browser is made again while the session is active. *)
BeforeClose ==
  /\ Ui /\ browser = "closing"
  /\ browser' = "gone"
  /\ UNCHANGED <<queue, syncing, recreations, slot, request, ending, closerVars>>

ClosesByItself ==
  /\ Ui /\ browser = "live"
  /\ IF Active
       THEN /\ recreations < MaxRecreations
            /\ recreations' = recreations + 1 /\ browser' \in {"creating", "gone"}
       ELSE browser' = "gone" /\ UNCHANGED recreations
  /\ UNCHANGED <<queue, syncing, slot, request, ending, closerVars>>

(* A request completes: that of the probe, or a cancelled one. *)
RequestCompletes ==
  /\ Ui
  /\ \/ request = "active" /\ request' = "none" /\ UNCHANGED ending
     \/ ending /\ ending' = FALSE /\ UNCHANGED request
  /\ UNCHANGED <<queue, syncing, browser, recreations, slot, closerVars>>

CefStep == RunTask \/ AfterCreated \/ BeforeClose \/ RequestCompletes

-----------------------------------------------------------------------------
(* close_blocking, on the manager thread.                                  *)

Revoked == IF session \in {"Inactive", "Drained"} THEN "Drained" ELSE "Closing"

Closer == UNCHANGED <<threadVars, syncing, browser, recreations, slot, request, ending, mainVars>>

BeginClose ==
  /\ closer = "off" /\ closer' = "permits"
  /\ session' = Revoked
  /\ UNCHANGED <<threadVars, uiVars, answer, delivered, kept, mainVars>>

(* Mutant of AwaitPermits: the permits are not waited for. *)
IgnorePermits ==
  /\ closer = "permits" /\ closer' = "barrier"
  /\ Closer /\ UNCHANGED <<session, queue, answer, delivered, kept>>

(* revoke_until, then ready::stop and the end of the subscriptions. *)
AwaitPermits ==
  /\ closer = "permits" /\ permits = {} /\ closer' = "barrier"
  /\ Closer /\ UNCHANGED <<session, queue, answer, delivered, kept>>

PostBarrier ==
  /\ closer = "barrier" /\ closer' = "answer"
  /\ queue' = Append(queue, "barrier")
  /\ Closer /\ UNCHANGED <<session, answer, delivered, kept>>

AwaitBarrier ==
  /\ closer = "answer" /\ answer # "none"
  /\ closer' = IF answer = "client" THEN "post_close" ELSE "producers"
  /\ Closer /\ UNCHANGED <<session, queue, answer, delivered, kept>>

PostClose ==
  /\ closer = "post_close" /\ closer' = "delivery"
  /\ queue' = Append(queue, "close")
  /\ Closer /\ UNCHANGED <<session, answer, delivered, kept>>

AwaitDelivery ==
  /\ closer = "delivery" /\ delivered /\ closer' = "owner"
  /\ Closer /\ UNCHANGED <<session, queue, answer, delivered, kept>>

AwaitOwner ==
  /\ closer = "owner" /\ ~ClientAlive /\ closer' = "producers"
  /\ Closer /\ UNCHANGED <<session, queue, answer, delivered, kept>>

(* wait_for_producers; then the overlay drops its lease and is drained. *)
ConfirmDrain ==
  /\ closer = "producers" /\ ~ProducerLeft /\ closer' = "done"
  /\ retained' = retained \ {"overlay"} /\ session' = "Drained"
  /\ UNCHANGED <<threadVars, uiVars, answer, delivered, kept>>
  /\ UNCHANGED <<main, published, cef, nativeVars>>

CloserStep ==
  \/ BeginClose \/ AwaitPermits \/ PostBarrier \/ AwaitBarrier
  \/ PostClose \/ AwaitDelivery \/ AwaitOwner \/ ConfirmDrain

(* A deadline passes, or a post is rejected: the session stays Closing.    *)
(* What the closer held is dropped, what its task holds is not.            *)
CloseFails ==
  /\ closer \notin {"off", "done", "failed"} /\ closer' = "failed"
  /\ kept' = (kept /\ closer = "delivery")
  /\ Closer /\ UNCHANGED <<session, queue, answer, delivered>>

-----------------------------------------------------------------------------
(* The main thread, from the end of its loop.                              *)

Main(step, next) ==
  /\ main = step /\ main' = next
  /\ UNCHANGED <<threadVars, uiVars, closerVars>>

JoinManager ==
  /\ closer \in {"done", "failed"} /\ Main("loop", "shell")
  /\ UNCHANGED <<session, published, retained, cef, nativeVars>>

(* Shell::shutdown drops its lease, or leaks it when its actor will not end. *)
ShutShell ==
  /\ Main("shell", "revoke")
  /\ retained' \in {retained, retained \ {"shell"}}
  /\ UNCHANGED <<session, published, cef, nativeVars>>

(* InitializedCef::try_shutdown *)
RevokeAgain ==
  /\ Main("revoke", "cef")
  /\ session' = Revoked
  /\ UNCHANGED <<published, retained, cef, nativeVars>>

(* Mutant of ShutCef: a session that is not drained is shut down too. *)
ShutCefAnyway ==
  /\ permits = {} /\ Main("cef", "retire")
  /\ cef' = "down" /\ retained' = retained \ {"cef"}
  /\ UNCHANGED <<session, published, nativeVars>>

ShutCef ==
  /\ permits = {} /\ session = "Drained" /\ Main("cef", "retire")
  /\ cef' = "down" /\ retained' = retained \ {"cef"}
  /\ UNCHANGED <<session, published, nativeVars>>

(* Not drained, or a permit that is not returned: the lease is leaked. *)
AbandonCef ==
  /\ permits # {} \/ session # "Drained"
  /\ Main("cef", "retire")
  /\ cef' = "abandoned"
  /\ UNCHANGED <<session, published, retained, nativeVars>>

(* PlatformRuntime::cleanup *)
Retire ==
  /\ Main("retire", "count")
  /\ published' = FALSE
  /\ UNCHANGED <<session, retained, cef, nativeVars>>

CleanBackend ==
  /\ Leased = {} /\ Main("count", "ingest")
  /\ backend' = FALSE
  /\ UNCHANGED <<session, published, retained, cef, ingest, window, host>>

(* Two seconds have passed: what is left is leaked. *)
Busy ==
  /\ Leased # {} /\ Main("count", "exited")
  /\ UNCHANGED <<session, published, retained, cef, nativeVars>>

(* MpvRuntime::stop: the ingest thread is joined before mpv ends. *)
StopIngest ==
  /\ Main("ingest", "terminate")
  /\ ingest' = FALSE
  /\ UNCHANGED <<session, published, retained, cef, backend, window, host>>

Terminate ==
  /\ Main("terminate", "host")
  /\ window' = FALSE
  /\ UNCHANGED <<session, published, retained, cef, backend, ingest, host>>

(* The backend would not run the termination: mpv and the host stay. *)
TerminationRejected ==
  /\ Main("terminate", "exited")
  /\ UNCHANGED <<session, published, retained, cef, nativeVars>>

ReleaseHost ==
  /\ Main("host", "exited")
  /\ host' = FALSE
  /\ UNCHANGED <<session, published, retained, cef, backend, ingest, window>>

MainStep ==
  \/ JoinManager \/ ShutShell \/ RevokeAgain \/ ShutCef \/ AbandonCef \/ Retire
  \/ CleanBackend \/ Busy \/ StopIngest \/ Terminate \/ TerminationRejected
  \/ ReleaseHost

-----------------------------------------------------------------------------
ThreadStep(t) == Acquire(t) \/ Post(t) \/ Leave(t) \/ TryLease(t) \/ DropLease(t)

Exited == main = "exited" /\ UNCHANGED vars

Next ==
  \/ \E t \in Threads : ThreadStep(t)
  \/ CefStep \/ ClosesByItself \/ CloserStep \/ CloseFails \/ MainStep \/ Exited

Spec == Init /\ [][Next]_vars

(* The program's own threads run and its threads leave what they entered,  *)
(* CEF runs its tasks and answers; no deadline is relied upon.             *)
FairSpec ==
  /\ Spec
  /\ WF_vars(CloserStep) /\ WF_vars(MainStep) /\ WF_vars(CefStep)
  /\ \A t \in Threads : WF_vars(Leave(t)) /\ WF_vars(DropLease(t))

-----------------------------------------------------------------------------
TypeOK ==
  /\ session \in {"Inactive", "Active", "Closing", "Drained"}
  /\ permits \subseteq Threads /\ leased \subseteq Threads
  /\ published \in BOOLEAN
  /\ queue \in Seq({"sync", "probe", "start", "barrier", "close"})
  /\ syncing \in BOOLEAN
  /\ browser \in {"none", "creating", "live", "closing", "gone"}
  /\ recreations \in 0 .. MaxRecreations
  /\ kept \in BOOLEAN /\ slot \in BOOLEAN /\ ending \in BOOLEAN
  /\ request \in {"none", "posted", "active"}
  /\ closer \in {"off", "permits", "barrier", "answer", "post_close", "delivery",
                 "owner", "producers", "done", "failed"}
  /\ answer \in {"none", "client", "empty"} /\ delivered \in BOOLEAN
  /\ main \in {"loop", "shell", "revoke", "cef", "retire", "count", "ingest",
               "terminate", "host", "exited"}
  /\ retained \subseteq {"shell", "overlay", "cef"}
  /\ cef \in {"up", "down", "abandoned"}
  /\ backend \in BOOLEAN /\ ingest \in BOOLEAN /\ window \in BOOLEAN /\ host \in BOOLEAN

(* A drained session has no client, no probe and no dependency left, and   *)
(* nothing that is still posted can bring one back.                        *)
DrainedIsFinal ==
  session = "Drained" =>
    /\ permits = {} /\ ~ClientAlive /\ ~ProducerLeft /\ ~syncing
    /\ "overlay" \notin retained

(* The teardown as its reader may rely on it: browser, CEF, backend, mpv's *)
(* window and its host go in that order, none while it is used, and none   *)
(* is used again.                                                          *)
Ended == INSTANCE Teardown WITH
  Order <- <<"browser", "cef", "backend", "window", "host">>,
  held  <- (IF session = "Drained" THEN {} ELSE {"browser"})
           \cup (IF cef = "down" THEN {} ELSE {"cef"})
           \cup (IF backend THEN {"backend"} ELSE {})
           \cup (IF window THEN {"window"} ELSE {})
           \cup (IF host THEN {"host"} ELSE {}),
  busy  <- (IF ClientAlive \/ syncing THEN {"browser"} ELSE {})
           \cup (IF permits # {} \/ ClientAlive \/ ProducerLeft THEN {"cef"} ELSE {})
           \cup (IF Leased # {} THEN {"backend"} ELSE {})
           \cup (IF ingest THEN {"window"} ELSE {})
ImplementsTeardown == Ended!TeardownSpec

(* The program ends: the closing dance with CEF does not wait for itself,  *)
(* whatever was posted, created or under way when it began.                *)
ShutdownEnds == <>(main = "exited")
=============================================================================
