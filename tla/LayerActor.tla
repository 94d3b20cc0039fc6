----------------------------- MODULE LayerActor -----------------------------
(***************************************************************************)
(* The layer the web page is shown on under Wayland (wl_ops.rs,            *)
(* layer_actor.rs): the CEF UI thread that shows, paints, resizes, hides   *)
(* and frees it, the actor's own thread behind its one-slot mailbox, the   *)
(* root window's thread, which publishes the window's extent, commits the  *)
(* root and dispatches the callbacks, and the compositor.                  *)
(*                                                                         *)
(* The page is a few regions, each at the version it was last changed to;  *)
(* a size stands for a whole geometry.  The ghost "of" of a frame is the   *)
(* page its producer painted, whatever pixels travel with it.              *)
(***************************************************************************)
EXTENDS Naturals, Functions

CONSTANTS
  Regions,        \* parts of the page
  Sizes,          \* window geometries
  MaxChanges,     \* bound on changes of the page
  MaxPublishes,   \* bound on geometries published after the first
  MaxDeferrals,   \* bound on frames the swapchain could not take
  MayDisconnect,  \* the display connection may fail
  PromptDisplay   \* the display may answer, or fail, before the answer is armed

ASSUME LayerConstants ==
  /\ 1 \in Sizes /\ Sizes \subseteq Nat \ {0}
  /\ MaxChanges \in Nat /\ MaxPublishes \in Nat /\ MaxDeferrals \in Nat
  /\ MayDisconnect \in BOOLEAN /\ PromptDisplay \in BOOLEAN

VARIABLES
  shared,      \* CEF shares textures: accelerated frames only
  kind,        \* the layer's backend when it was created: "gpu" or "shm"
  page,        \* version of each region
  changes,
  damage,      \* regions CEF has yet to paint
  view,        \* the size CEF lays the page out in
  syncing,     \* a SyncTask is queued for the UI thread
  ui,          \* where the UI thread is
  visibility,  \* PlatformSurface.visibility
  frame,       \* the frame the UI thread is handing over
  mb,          \* the actor's mailbox
  gpuFailed,   \* LayerActor.gpu_failed
  worker,      \* where the actor's thread is
  shownByWorker, \* the visibility the worker acts on
  wake,        \* what its last take returned
  held,        \* FrameRetry.held
  backend,     \* Runner.backend
  shadow,      \* ShmShadow
  upload,      \* the painter's persistent upload texture
  deferrals,
  lost,        \* history: the last frame taken was neither shown nor held
  destination, \* wp_viewport destination to apply at the next commit
  cached,      \* what the layer's commits amount to
  screen,      \* what the root's commits made of it
  latch,       \* pending_present of the root window
  extent,      \* the published window extent
  root,        \* where the root thread is
  publishes,
  closed,      \* Callbacks.closed
  callback     \* the callback of the last visibility commit

uiVars     == <<page, changes, damage, view, syncing, ui, visibility, frame>>
workerVars == <<worker, shownByWorker, wake, held, backend, shadow, upload,
                deferrals, lost, gpuFailed>>
rootVars   == <<extent, root, publishes, closed, screen>>
setup      == <<shared, kind>>
vars == <<setup, uiVars, mb, workerVars, destination, cached, latch, rootVars, callback>>

Versions == 0 .. MaxChanges + 1     \* of a region, 0 before its first paint
NoSize   == 0
Stale    == NoSize        \* ShadowState: Stale, or Valid with this size
NoFrame  == [via |-> "none"]
NoWake   == [frame |-> NoFrame]
NoAck    == 0
Blank    == [r \in Regions |-> 0]
Nothing  == [via |-> "none", size |-> NoSize, pixels |-> Blank, of |-> Blank]
NoPixels == [size |-> NoSize, pixels |-> Blank]
Unsent   == [sent |-> FALSE, armed |-> FALSE, resolved |-> FALSE]

Init ==
  /\ shared \in BOOLEAN /\ kind \in {"gpu", "shm"}
  /\ shared => kind = "shm"     \* shared frames never ask for the kind
  /\ page = [r \in Regions |-> 1] /\ changes = 0 /\ damage = Regions
  /\ extent = 1 /\ view = extent /\ syncing = FALSE
  /\ ui = "created" /\ visibility = "Hidden" /\ frame = NoFrame
  /\ mb = [pending |-> NoFrame, shadow |-> Stale, viewport |-> extent,
           requested |-> "none", seq |-> 0, acked |-> NoAck,
           dirty |-> FALSE, shutdown |-> FALSE]
  /\ gpuFailed = FALSE
  /\ worker = "idle" /\ shownByWorker = FALSE /\ wake = NoWake
  /\ held = NoFrame /\ backend = kind
  /\ shadow = NoPixels
  /\ upload = NoPixels
  /\ deferrals = 0 /\ lost = FALSE
  /\ destination = NoSize
  /\ cached = [buffer |-> Nothing, destination |-> NoSize]
  /\ screen = cached
  /\ latch = TRUE /\ root = "running" /\ publishes = 0
  /\ closed = FALSE /\ callback = Unsent

-----------------------------------------------------------------------------
(* The mailbox's own operations.                                           *)

(* LayerState::resize: an unchanged viewport is no resize. *)
Resized(m, size) ==
  IF m.viewport = size THEN m
  ELSE [m EXCEPT !.viewport = size, !.dirty = TRUE, !.shadow = Stale]

(* LayerState::request_visibility *)
Requested(m, v) ==
  LET r == [m EXCEPT !.requested = v, !.seq = @ + 1] IN
  IF v = "Shown" THEN r ELSE [r EXCEPT !.pending = NoFrame, !.shadow = Stale]

(* Mutant of NeedsFullCopy: a waiting full frame is no reason to copy all. *)
NeedsFullCopyOfAnotherSize(m, size) == m.shadow # size

(* needs_full_copy and store_shm: a frame is patched onto the shadow, or   *)
(* carries every pixel; patches of one size collect.                       *)
NeedsFullCopy(m, size) ==
  m.shadow # size \/ (m.pending.via = "shm" /\ m.pending.full)

StoreShm(m, f) ==
  LET full   == NeedsFullCopy(m, f.size)
      merges == /\ ~full /\ m.pending.via = "shm" /\ ~m.pending.full
                /\ m.pending.size = f.size
      dirty  == IF merges THEN m.pending.dirty \cup f.dirty ELSE f.dirty
      rects  == [r \in dirty |-> IF r \in f.dirty THEN f.of[r] ELSE m.pending.pixels[r]]
  IN [m EXCEPT !.shadow = IF full THEN f.size ELSE @,
               !.pending = [via |-> "shm", size |-> f.size, full |-> full, dirty |-> dirty,
                            pixels |-> IF full THEN f.of ELSE rects, of |-> f.of]]

(* A frame that carries every pixel takes the slot. *)
Supersede(m, f) ==
  [m EXCEPT !.pending = [via |-> f.via, size |-> f.size, full |-> TRUE,
                         dirty |-> f.dirty, pixels |-> f.of, of |-> f.of],
            !.shadow = IF f.via = "dmabuf" THEN Stale ELSE @]

-----------------------------------------------------------------------------
(* The UI thread.                                                          *)

UiStep == UNCHANGED <<setup, workerVars, cached, rootVars, callback>>

(* set_visibility: the surface's field and the request, under one lock; *)
(* the root is asked to commit; the thread waits for the acknowledgement. *)
SetVisibility(v) ==
  /\ UiStep
  /\ visibility' = v /\ mb' = Requested(mb, v)
  /\ latch' = TRUE /\ ui' = "await"
  /\ UNCHANGED <<page, changes, damage, view, syncing, frame, destination>>

Show == ui = "created" /\ SetVisibility("Shown")

(* CloseTask *)
Hide == ui = "shown" /\ SetVisibility("Hidden")

TakeAck ==
  /\ UiStep /\ ui = "await"
  /\ mb.acked >= mb.seq
  /\ mb' = [mb EXCEPT !.acked = NoAck]
  /\ ui' = "signal"
  /\ UNCHANGED <<page, changes, damage, view, syncing, visibility, frame, destination, latch>>

Acknowledged ==
  /\ UiStep /\ ui = "signal"
  /\ callback.resolved
  /\ ui' = IF visibility = "Shown" THEN "shown" ELSE "hidden"
  /\ UNCHANGED <<page, changes, damage, view, syncing, visibility, frame, mb, destination, latch>>

(* The page changes in its renderer. *)
Change(region) ==
  /\ UiStep
  /\ visibility = "Shown" /\ ~closed /\ changes < MaxChanges
  /\ changes' = changes + 1
  /\ page' = [page EXCEPT ![region] = changes' + 1]
  /\ damage' = damage \cup {region}
  /\ UNCHANGED <<view, syncing, ui, visibility, frame, mb, destination, latch>>

(* accepts: a hidden surface takes nothing, an accelerated frame must have *)
(* the window's size.                                                      *)
Accepts == visibility = "Shown" /\ (shared => view = extent)

(* OnPaint.  A refused frame asks for the next one, which repaints it all. *)
PaintRefused ==
  /\ UiStep
  /\ ui \in {"shown", "hidden"} /\ damage # {} /\ ~Accepts
  /\ damage' = Regions
  /\ UNCHANGED <<page, changes, view, syncing, ui, visibility, frame, mb, destination, latch>>

(* An accepted frame resizes the actor, then finds its route. *)
Paint ==
  /\ UiStep
  /\ ui = "shown" /\ damage # {} /\ Accepts
  /\ frame' = [via |-> IF shared THEN "dmabuf"
                       ELSE IF kind = "gpu" /\ ~gpuFailed THEN "gpu" ELSE "shm",
               size |-> view, dirty |-> damage, of |-> page]
  /\ damage' = {}
  /\ mb' = Resized(mb, extent)
  /\ ui' = "enqueue"
  /\ UNCHANGED <<page, changes, view, syncing, visibility, destination, latch>>

Enqueue ==
  /\ UiStep
  /\ ui = "enqueue"
  /\ mb' = IF frame.via = "shm" THEN StoreShm(mb, frame) ELSE Supersede(mb, frame)
  /\ ui' = "shown" /\ frame' = NoFrame
  /\ UNCHANGED <<page, changes, damage, view, syncing, visibility, destination, latch>>

(* sync_on_ui: a new size is applied to CEF and to the layer. *)
SyncView ==
  /\ UiStep
  /\ ui \in {"shown", "hidden"} /\ syncing
  /\ syncing' = FALSE
  /\ IF view = extent
       THEN UNCHANGED <<view, damage, destination, mb>>
       ELSE /\ view' = extent /\ damage' = Regions
            /\ destination' = extent /\ mb' = Resized(mb, extent)
  /\ UNCHANGED <<page, changes, ui, visibility, frame, latch>>

(* free_surface, after the browser closed or was never made. *)
Free ==
  /\ UiStep
  /\ ui \in {"created", "hidden"}
  /\ mb' = [mb EXCEPT !.shutdown = TRUE, !.pending = NoFrame]
  /\ ui' = "joining"
  /\ UNCHANGED <<page, changes, damage, view, syncing, visibility, frame, destination, latch>>

Joined ==
  /\ UiStep
  /\ ui = "joining" /\ worker = "stopped"
  /\ ui' = "freed"
  /\ UNCHANGED <<page, changes, damage, view, syncing, visibility, frame, mb, destination, latch>>

-----------------------------------------------------------------------------
(* The actor's thread.                                                     *)

WorkerStep == UNCHANGED <<setup, page, changes, view, syncing, ui, visibility, frame, rootVars>>

(* Mutant of Ready: a visibility request wakes nobody. *)
ReadyForFrames == mb.pending # NoFrame \/ mb.shutdown \/ mb.dirty

Ready == \/ mb.pending # NoFrame \/ mb.shutdown
         \/ mb.requested # "none" \/ mb.dirty

(* run's take: a fresh frame supersedes the held one. *)
Take ==
  /\ WorkerStep
  /\ worker = "idle" /\ Ready
  /\ mb' = [mb EXCEPT !.pending = NoFrame, !.requested = "none", !.dirty = FALSE]
  /\ IF mb.shutdown
       THEN /\ worker' = "stopped" /\ held' = NoFrame
            /\ shadow' = NoPixels /\ upload' = NoPixels
            /\ UNCHANGED <<shownByWorker, wake>>
       ELSE /\ worker' = "serve"
            /\ shownByWorker' = IF mb.requested = "none" THEN shownByWorker
                                ELSE mb.requested = "Shown"
            /\ wake' = [frame |-> IF mb.pending # NoFrame THEN mb.pending ELSE held,
                        viewport |-> mb.viewport, dirty |-> mb.dirty,
                        seq |-> IF mb.requested = "none" THEN NoAck ELSE mb.seq]
            /\ held' = NoFrame
            /\ UNCHANGED <<shadow, upload>>
  /\ UNCHANGED <<backend, deferrals, lost, gpuFailed>>
  /\ UNCHANGED <<damage, destination, cached, latch, callback>>

(* Nothing arrived before the held frame came due. *)
Due ==
  /\ WorkerStep
  /\ worker = "idle" /\ ~Ready /\ held # NoFrame
  /\ worker' = "serve" /\ held' = NoFrame
  /\ wake' = [frame |-> held, viewport |-> mb.viewport, dirty |-> FALSE, seq |-> NoAck]
  /\ UNCHANGED <<shownByWorker, backend, shadow, upload, deferrals, lost, gpuFailed>>
  /\ UNCHANGED <<mb, damage, destination, cached, latch, callback>>

(* What follows the frame op: a request is completed by one more commit,   *)
(* any other commit asks the root for its own.                             *)
Afterwards(committed) ==
  IF wake.seq # NoAck THEN worker' = "callback" /\ UNCHANGED <<wake, latch>>
  ELSE worker' = "idle" /\ wake' = NoWake /\ latch' = (latch \/ committed)

Serve ==
  /\ WorkerStep
  /\ worker = "serve"
  /\ UNCHANGED <<shownByWorker, mb, callback>>

(* decide: hiding comes before any frame. *)
ServeHide ==
  /\ Serve
  /\ ~shownByWorker
  /\ cached' = [buffer |-> Nothing, destination |-> destination]
  /\ lost' = FALSE
  /\ Afterwards(TRUE)
  /\ UNCHANGED <<held, backend, shadow, upload, deferrals, gpuFailed, damage, destination>>

(* Mutant of Presents: a frame in hand is presented whatever was asked. *)
PresentsWhatItHolds == wake.frame # NoFrame

Presents == shownByWorker /\ wake.frame # NoFrame

(* The commit of a frame: its buffer, at the wake's viewport. *)
Commit(via, size, pixels) ==
  /\ destination' = wake.viewport
  /\ cached' = [buffer |-> [via |-> via, size |-> size, pixels |-> pixels, of |-> wake.frame.of],
                destination |-> wake.viewport]
  /\ lost' = FALSE
  /\ Afterwards(TRUE)

(* compose_shm_shadow: another size starts from nothing. *)
Composed ==
  LET f == wake.frame
      base == IF shadow.size = f.size THEN shadow.pixels ELSE Blank
  IN [size |-> f.size,
      pixels |-> [r \in Regions |-> IF r \in DOMAIN f.pixels THEN f.pixels[r] ELSE base[r]]]

(* UploadTexture::write: only the damage, unless the texture is new. *)
Uploaded ==
  LET f == wake.frame IN
  [size |-> f.size,
   pixels |-> [r \in Regions |-> IF upload.size # f.size \/ r \in f.dirty
                                   THEN f.pixels[r] ELSE upload.pixels[r]]]

OnGpu == wake.frame.via = "gpu" /\ backend = "gpu"
OnShm == wake.frame.via # "dmabuf" /\ ~OnGpu

PresentGpu ==
  /\ Serve /\ Presents /\ OnGpu
  /\ upload' = Uploaded
  /\ Commit("gpu", wake.frame.size, Uploaded.pixels)
  /\ UNCHANGED <<held, backend, shadow, deferrals, gpuFailed, damage>>

PresentShm ==
  /\ Serve /\ Presents /\ OnShm
  /\ backend' = "shm" /\ gpuFailed' = (gpuFailed \/ backend = "gpu")
  /\ shadow' = Composed
  /\ Commit("shm", wake.frame.size, Composed.pixels)
  /\ UNCHANGED <<held, upload, deferrals, damage>>

PresentDmabuf ==
  /\ Serve /\ Presents /\ wake.frame.via = "dmabuf"
  /\ Commit("dmabuf", wake.frame.size, wake.frame.pixels)
  /\ UNCHANGED <<held, backend, shadow, upload, deferrals, gpuFailed, damage>>

(* The commit that rescales what is shown, when no frame was committed. *)
Reapply ==
  IF wake.dirty
    THEN /\ destination' = wake.viewport
         /\ cached' = [cached EXCEPT !.destination = wake.viewport]
         /\ Afterwards(TRUE)
    ELSE /\ UNCHANGED <<destination, cached>> /\ Afterwards(FALSE)

(* Mutant of Defer: the frame is neither held nor asked for again. *)
DeferForgets ==
  /\ Serve /\ Presents /\ OnGpu
  /\ deferrals < MaxDeferrals /\ deferrals' = deferrals + 1
  /\ upload' = Uploaded
  /\ UNCHANGED <<held, damage>>
  /\ Reapply
  /\ UNCHANGED <<backend, shadow, lost, gpuFailed>>

(* The swapchain had no texture: the frame is held for one refresh         *)
(* interval, or its producer is asked again where none is known.           *)
Defer ==
  /\ Serve /\ Presents /\ OnGpu
  /\ deferrals < MaxDeferrals /\ deferrals' = deferrals + 1
  /\ upload' = Uploaded
  /\ \/ held' = wake.frame /\ damage' = damage
     \/ held' = NoFrame /\ damage' = Regions
  /\ Reapply
  /\ UNCHANGED <<backend, shadow, lost, gpuFailed>>

(* The surface is lost: the frame goes with it and software takes over. *)
Degrade ==
  /\ Serve /\ Presents /\ OnGpu
  /\ backend' = "shm" /\ gpuFailed' = TRUE
  /\ shadow' = NoPixels
  /\ upload' = NoPixels
  /\ lost' = TRUE
  /\ Reapply
  /\ UNCHANGED <<held, deferrals, damage>>

(* No buffer could be made: the frame is gone, the shadow has it. *)
NoBuffer ==
  /\ Serve /\ Presents /\ ~OnGpu
  /\ IF OnShm THEN shadow' = Composed /\ backend' = "shm" /\ gpuFailed' = (gpuFailed \/ backend = "gpu")
              ELSE UNCHANGED <<shadow, backend, gpuFailed>>
  /\ lost' = TRUE
  /\ Reapply
  /\ UNCHANGED <<held, upload, deferrals, damage>>

(* ReapplyViewport and Nop. *)
ServeViewport ==
  /\ Serve
  /\ shownByWorker /\ wake.frame = NoFrame
  /\ Reapply
  /\ UNCHANGED <<held, backend, shadow, upload, deferrals, lost, gpuFailed, damage>>

(* commit_acked without a buffer: the display is asked for a round-trip,   *)
(* and only then is its answer armed.                                      *)
CommitAcked ==
  /\ WorkerStep
  /\ worker = "callback"
  /\ callback' = [Unsent EXCEPT !.sent = TRUE]
  /\ worker' = "arm"
  /\ UNCHANGED <<shownByWorker, wake, held, backend, shadow, upload, deferrals, lost, gpuFailed>>
  /\ UNCHANGED <<mb, damage, destination, cached, latch>>

(* Callbacks::arm looks at closed before it takes the lock to push. *)
ArmChecksClosed ==
  /\ WorkerStep
  /\ worker = "arm"
  /\ IF closed THEN worker' = "publish" /\ callback' = [callback EXCEPT !.resolved = TRUE]
               ELSE worker' = "push" /\ UNCHANGED callback
  /\ UNCHANGED <<shownByWorker, wake, held, backend, shadow, upload, deferrals, lost, gpuFailed>>
  /\ UNCHANGED <<mb, damage, destination, cached, latch>>

Arm ==
  /\ WorkerStep
  /\ worker = "push"
  /\ callback' = [callback EXCEPT !.armed = TRUE]
  /\ worker' = "publish"
  /\ UNCHANGED <<shownByWorker, wake, held, backend, shadow, upload, deferrals, lost, gpuFailed>>
  /\ UNCHANGED <<mb, damage, destination, cached, latch>>

PublishAck ==
  /\ WorkerStep
  /\ worker = "publish"
  /\ mb' = [mb EXCEPT !.acked = wake.seq]
  /\ latch' = TRUE
  /\ worker' = "idle" /\ wake' = NoWake
  /\ UNCHANGED <<shownByWorker, held, backend, shadow, upload, deferrals, lost, gpuFailed>>
  /\ UNCHANGED <<damage, destination, cached, callback>>

-----------------------------------------------------------------------------
(* The root window's thread and the display.                               *)

RootStep == UNCHANGED <<setup, page, changes, damage, view, ui, visibility, frame,
                        workerVars, destination, cached>>

(* A configure publishes an extent, resizes the layers, and tells the      *)
(* listeners; the root is to be committed.                                 *)
Publish(size) ==
  /\ RootStep
  /\ root = "running" /\ size # extent
  /\ publishes < MaxPublishes /\ publishes' = publishes + 1
  /\ extent' = size /\ root' = "publishing"
  /\ UNCHANGED <<mb, syncing, latch, closed, screen, callback>>

OnConfigure ==
  /\ RootStep
  /\ root = "publishing"
  /\ mb' = Resized(mb, extent)
  /\ syncing' = TRUE /\ latch' = TRUE
  /\ root' = "running"
  /\ UNCHANGED <<extent, publishes, closed, screen, callback>>

(* settle drains the latch into the one root commit. *)
RootCommit ==
  /\ RootStep
  /\ root = "running" /\ latch
  /\ latch' = FALSE /\ screen' = cached
  /\ UNCHANGED <<mb, syncing, extent, root, publishes, closed, callback>>

Arming == worker \in {"arm", "push"}

(* The display's answer is dispatched: note_done resolves what is armed. *)
CallbackDone ==
  /\ RootStep
  /\ root = "running" /\ callback.sent
  /\ PromptDisplay \/ ~Arming
  /\ callback' = [callback EXCEPT !.sent = FALSE, !.armed = FALSE,
                                  !.resolved = @ \/ callback.armed]
  /\ UNCHANGED <<mb, syncing, latch, rootVars>>

(* The root loop ends: nothing can be dispatched any more, so every waiter *)
(* is released.  (Bound: it ends while somebody waits.)                    *)
Disconnect ==
  /\ RootStep
  /\ MayDisconnect /\ root = "running" /\ ui \in {"await", "signal"}
  /\ PromptDisplay \/ ~Arming
  /\ closed' = TRUE /\ root' = "closing"
  /\ UNCHANGED <<mb, syncing, latch, extent, publishes, screen, callback>>

ReleaseWaiters ==
  /\ RootStep
  /\ root = "closing"
  /\ callback' = [callback EXCEPT !.armed = FALSE, !.resolved = @ \/ callback.armed]
  /\ root' = "gone"
  /\ UNCHANGED <<mb, syncing, latch, extent, publishes, closed, screen>>

-----------------------------------------------------------------------------
Worker == \/ Take \/ Due \/ ServeHide \/ PresentGpu \/ PresentShm \/ PresentDmabuf
          \/ Defer \/ Degrade \/ NoBuffer \/ ServeViewport
          \/ CommitAcked \/ ArmChecksClosed \/ Arm \/ PublishAck

Ui == \/ TakeAck \/ Acknowledged \/ PaintRefused \/ Paint \/ Enqueue
      \/ SyncView \/ Joined

Root == OnConfigure \/ RootCommit \/ CallbackDone \/ ReleaseWaiters

Freed == ui = "freed" /\ UNCHANGED vars

Next == \/ Show \/ Hide \/ Free \/ Ui \/ Worker \/ Root \/ Disconnect
        \/ \E region \in Regions : Change(region)
        \/ \E size \in Sizes : Publish(size)
        \/ Freed

Spec == Init /\ [][Next]_vars

(* The threads run; the display answers what it is sent.  The user decides *)
(* when the page changes, the window moves and the overlay is closed.      *)
FairSpec == Spec /\ WF_vars(Ui) /\ WF_vars(Worker) /\ WF_vars(Root)

-----------------------------------------------------------------------------
(* Types. *)
TypeOK ==
  /\ shared \in BOOLEAN /\ kind \in {"gpu", "shm"} /\ backend \in {"gpu", "shm"}
  /\ page \in [Regions -> Versions] /\ changes \in 0 .. MaxChanges /\ damage \subseteq Regions
  /\ view \in Sizes /\ extent \in Sizes /\ mb.viewport \in Sizes
  /\ ui \in {"created", "await", "signal", "shown", "enqueue", "hidden", "joining", "freed"}
  /\ visibility \in {"Shown", "Hidden"} /\ mb.requested \in {"none", "Shown", "Hidden"}
  /\ worker \in {"idle", "serve", "callback", "arm", "push", "publish", "stopped"}
  /\ mb.seq \in 0 .. 2 /\ mb.acked \in 0 .. mb.seq
  /\ root \in {"running", "publishing", "closing", "gone"}

(* The software shadow is never patched with a frame it has no base for:   *)
(* what a software or shared-texture commit attaches is exactly the page   *)
(* its producer painted, through every resize, merge, hide and degrade.    *)
PatchesHaveABase ==
  cached.buffer.via \in {"shm", "dmabuf"} => cached.buffer.pixels = cached.buffer.of

(* Once the hide has been acknowledged no buffer is attached again, not    *)
(* even a frame that was held for a retry.                                 *)
HiddenStaysEmpty ==
  ui \in {"hidden", "joining", "freed"} => cached.buffer = Nothing

(* When the window and the page come to rest, the screen shows the page as *)
(* it was last painted, at the window's size: no commit waits for a root   *)
(* commit nobody asked for, and no resize is lost behind a frame that was  *)
(* deferred.  A frame whose buffer could not be made is excepted.          *)
ScreenSettles ==
  <>[](ui = "shown" /\ root = "running" /\ ~lost =>
         /\ screen = cached
         /\ screen.destination = extent
         /\ screen.buffer.of = page /\ screen.buffer.size = extent)

(* A visibility request is acknowledged, and a surface being freed is      *)
(* freed: the UI thread never stays blocked on the layer.                  *)
UiThreadReturns ==
  ui \in {"await", "signal", "joining"} ~> ui \in {"shown", "hidden", "freed"}

(* wl_state.rs on Acked::wait: it blocks until the callback fired or the   *)
(* connection closed.                                                      *)
NoLostAnswer ==
  ui = "signal" /\ ~callback.resolved =>
    /\ callback.sent \/ callback.armed
    /\ root # "gone"

(* gpu_paint's types.rs on Pixels: the damage is what changed since the    *)
(* last frame, so what is shown after it is the whole page.                *)
WholeFrames ==
  cached.buffer.via = "gpu" => cached.buffer.pixels = cached.buffer.of
=============================================================================
