# Formal models of Tchê Flix Desktop

TLA+ specifications of the desktop client in `src/`: what its parts promise,
the TLC runs that check small instances, and TLAPS proofs for every instance.
Each definition names the code it translates in `PROJECT.json` (`map`).

## The system

The program embeds two engines: a Chromium browser (CEF) that shows Jellyfin's
web interface, and mpv, which plays. Everything in between is Rust, in small
actors, each a thread with a queue.

```
 web page --IPC--> business_web ---commands--> mpv core --events--> ingest thread
                        |                                               |
                        +--------------- inputs -------+----------------+
                                                       v
                              PlaybackCoordinator (queue, worker, state machine)
                                                       |
                    +------------------+---------------+-------------+
                    v                  v                             v
           built-in sinks     track-selection action        desktop sinks (queue + thread
   (browser, idle, colour)    (writes back to mpv)    each: MPRIS, SMTC, Now Playing, Discord)
```

Around it: the shell actor with the server connection (probe, navigate), the
CEF session (dispatch permits, overlays, blocking close), the platform lease,
the shutdown signal with its manager thread, and the native backends.

### Inventory

| Part | State | Operations | Hard because | Correct when |
|---|---|---|---|---|
| Playback state machine `playback/state_machine.rs` | phase, presence, spinner, seek, play request, pending load, variant switch, identity | 14 `on_*` handlers | inputs of two engines in any order | phase, request and spinner agree; events tell the state |
| Coordinator `playback/coordinator.rs`, `ffi.rs` | slot, sender, queue, snapshot, registry | post, register, batch, publish, dispatch, shutdown | threads, callbacks that post, two-step stop | in-order, gap-free delivery; shutdown ends |
| Built-in sinks, desktop sinks `sink_core.rs`, Discord `discord/sink.rs` | last level, last word; bounded queue; projected view, link, pacing | `deliver`, `on_event`, consumer thread; fold, connect, push | event next to a later snapshot, queue drops, pushes held back, a Discord that quits | idle inhibition, page, desktop and presence follow the player |
| mpv adapter `mpv/api.rs`, `ingest.rs` | pending selection slot, last reported values | load, stop, apply selection, digest events | asynchronous commands and events of overlapping loads | each file plays with its own tracks |
| Shutdown signal and manager `shutdown.rs`, `manager.rs`, startup wait in `app.rs` | request flag, handler, message queue, wake events, lifecycle state, mpv's queued wakeup | initiate, install, send, transition, pump, join | requests from signal context at any moment, lost wakes, every step of startup may fail | every request ends the main thread, which leaves no thread behind |
| Connection `connection.rs`, `server_probe.rs`, `navigation.rs`, `client/lifecycle.rs`, `client/events.rs` | phase, cycle, outstanding requests, readiness queue, probe slot, deferred navigation, painting | connect, cancel, reset, tick, flush, probe and navigation answers | late answers, refused deliveries, recreated browsers | only the attempt the screen follows counts; screen and browser agree at rest |
| CEF session `runtime.rs`, `web_overlay.rs`, `ready.rs` | permits, phase, overlay, client, producers | dispatch, revoke, drain, close, recreate | a permit in flight at revoke, deadlines, a browser under creation | nothing is released while used; the program ends |
| Platform lease `platform_abi/lib.rs` | live slot, lease count | acquire, release, cleanup, terminate | cleanup while leased | backend, window and host go in order, after the last lease |
| Wayland layer `layer_actor.rs`, `layer.rs`, `wl_ops.rs`, `wl_state.rs` | one-slot mailbox, software shadow, upload texture, held frame, armed acknowledgements | show, hide, paint, resize, present, retry, degrade, free | three threads and the compositor, patches, acknowledged commits | the last page at the last size; a hidden layer stays empty |
| Wayland root window `root_window.rs`, `window_state.rs` | command channel, present latch, ping, mode, sizes, scale, extent | commands, settle, configure, scale, commit, stop | sleep against wake, answers of the compositor in any order | never asleep on work; the window as last configured |
| Paint scheduler, single instance, updater, other native backends, ABI subscriptions, menus, geometry | see `PROJECT.json` | | | |

## Modules

| Module | Models | Checked by |
|---|---|---|
| `PlaybackHandlers` | the handlers of the state machine as functions from a machine to the next one, its events and actions | through its users |
| `PlaybackStateMachine` | the machine under every sequence of inputs, and a consumer that only hears its events | `playback_state_machine` |
| `PlaybackDelivery` | abstract: accepted inputs are one sequence, the snapshot a prefix, every sink hears a gap-free stretch | refined by the next |
| `PlaybackCoordinator` | queue, batches, registry, slot mutex, shutdown | `coordinator` |
| `PlaybackSinks` | machine, batches, the built-in sinks, one desktop sink behind its bounded queue, and the Discord presence worker | `playback_sinks` |
| `TrackSwitch` | page, mpv, ingest, worker and the pending selection over successive loads | `track_switch` |
| `ShutdownManager` | shutdown signal, startup wait with its helper, manager thread, overlay visibility | `shutdown_manager`, `startup_request` |
| `ConnectionAttempt` | abstract: one attempt at a time, moved by verdicts about that attempt only | refined by the next |
| `ServerConnection` | the connection on the actor's thread, the readiness queue, the probe, the browser with its navigation, and the answers | `server_connection` |
| `Teardown` | abstract: ordered resources, none released while used or before its dependents, none used again | refined by the next |
| `BrowserSession` | permits, the closing of the overlay, the CEF UI thread, the main thread's cleanup with the platform lease | `browser_session` |
| `LayerActor` | the web page's layer: CEF UI thread, layer actor, root thread, compositor | `layer_actor`, `lost_ack`, `coalesced_damage` |
| `RootWindow` | the root window's thread, the threads that ask it for something, the compositor | `root_window` |
| `*_proofs` | the theorems about the module of that name; those about `TrackSwitch` are in `PlaybackStateMachine_proofs`, whose lemmas about the handlers they use | TLAPS |

`MC*` modules only give constants their values. `ShutdownManager` takes the
close of the overlay as one step; `BrowserSession` is that step from the inside,
and `ServerConnection` what the session did before. `RootWindow` publishes the
extents and performs the root commits that `LayerActor` receives and asks for.

### Correspondence

*State machine.* `sm` is the record `PlaybackStateMachine` with its snapshot's
fields; one action per handler, the whole handler including the events it
returns, in order. Four handlers that only suppress equal values (`on_speed`,
`on_duration`, `on_buffered_ranges`, `on_display_hz`) are `OnScalar`. Strings
and numbers are members of small sets. `replica` is not program state: it is
folded from the events alone.

*Coordinator.* `slot` and `slot_held` are the mutex-guarded singleton of
`ffi.rs`; `Post` and `Enqueue` are the two halves of a post (clone the handle
under the mutex, send on it later). `Recv` captures the queue's length,
`ApplyNext` applies one input, then `Publish` and `Dispatch`, which clones the
registry; `at` is where the worker is in the nested loops that follow: `Call` is
one callback with one item, `NextSink` and `NextStage` end the inner loops.
Shutdown is three steps: take under the mutex, close, join. Inputs stand for themselves, so the state of the machine
is the sequence of inputs it was given; what they do is `PlaybackHandlers`.

*Sinks.* A batch is applied input by input; `HandOut` gives every event of it
to the built-in sinks and to the desktop queue with the snapshot of the *whole*
batch, as `worker` stamps it; the desktop's own thread takes from a queue that
drops when it is full. For Discord `shown` is the worker's whole state: what it
last projected (`view`, `titled`), the connection (`link`, "broken" until a push
finds out), `pending` and `due` for the pacing, and what Discord shows. `Turn` is
one iteration of its loop, an event folded or the idle tick and then connect and
push; `Forward` is the hook, whose channel is unbounded in the code and bounded
by `QueueCap` here; `IntervalEnds` and `DiscordQuits` are time and Discord.

*Track switch.* `PlayerLoad`, `StashSelection` and `SendLoadfile` are the three
steps of `playerLoad`; `Execute`, `FileOpens` and `FileEnds` are mpv (external:
commands in order, a file loads paused with nothing selected, file-local
options may revert when the file ends, property changes report the value at
the time of the report and may coalesce). `TakeSelection` and `ApplySelection`
are the action sink on the worker. Media is audio, so that no load waits for a
video frame.

*Shutdown.* `call` is how far each caller is between the swap of the flag and
the second wake event; `main` is the main thread's next step from
`prepare_shutdown` to the join of the manager, with a failure alternative
wherever the code returns early; `helper` and `manager` are the steps of the two
threads. A wake event is a Boolean, as the eventfd it stands for is
level-triggered. `mpv_wakeup` is the flag behind `mpv_wakeup`: libmpv forgets it
whenever `mpv_wait_event` returns, also with a timeout of zero. `ui` are the
posted `SetHiddenTask`s and `browser` what the browser, if there is one, was last
told. The wait is the default `run_vo_wait` of Linux and Windows; macOS drains
before it tests.

*Connection.* `phase` is `Connection.phase`, entered through `Enter`, which
asks for what leaving the old phase needs, as `enter` does. A handler ends by
moving `requests` to `taken`; `Deliver` and `Refused` post them one at a time,
as `flush_requests` does, and a refusal raises the failure of what the screen
shows while it drops the rest. `ops` is everything accepted for the CEF UI
thread, in order, held back until `MarkReady`. `probe` is the slot with its HEAD
and GET requests, `deferred` and `painting` are the fields of the client.
`inbox` is the actor's channel. `verdicts` and `orphaned` are history. Network,
pages and CEF's browser are external: a load commits and then ends, or fails; a
browser may close by itself.

*Session.* `permits` and `leased` name the holders of what the code only counts.
`closer` is the next wait of `close_blocking`; a deadline or a rejected post is
the one alternative `CloseFails`, which leaves what was posted in place. The
UI thread runs one task at a time; `syncing` is the moment between
`sync_on_ui`'s look at the session and its use. `main` is the main thread from
the end of its loop; `retained` are the leases of the runtime's own objects.

*Layer.* A page is a few regions with the version each was painted at, a size
stands for a geometry. `mb` is `LayerState` with its mailbox; `StoreShm`,
`Supersede`, `Resized` and `Requested` are its operations. The worker takes
everything at once (`Take`), does one frame op (`ServeHide` ... `ServeViewport`)
and, for a visibility request, one more commit whose answer it arms in two steps,
as `Callbacks::arm` does. `cached` is what the layer has committed, `screen` what
the root's last commit made of it. `of` is history: the page a frame was painted
from.

*Root window.* One action per dispatched event, per serviced command and per
look of `settle` at the present latch; `loop` says which. A thread that asks for
something stores it and rings in two steps. Requests to the toplevel act on
`server` at once and send a configure back; `mode` is what the last dispatched
one said.

## Runs

| Run | Question | Bounds |
|---|---|---|
| `playback_state_machine` | do the machine's fields stay in step under any input order? | 2 items, 2 positions, 1 scalar with 2 values: every handler is enabled in every state, so nothing else is bounded |
| `coordinator` | do queue, batches, registry and shutdown implement `PlaybackDelivery`, does shutdown end, is everything accepted delivered? | 3 producers with 1 post each, a posting external sink, one sink of each kind: batches of several inputs, posts during dispatch, during shutdown and after it |
| `playback_sinks` | do built-in and desktop sinks and the Discord presence follow the player although events carry later snapshots, the queue drops, updates are paced and connections lost? | batches of up to 3 inputs for the built-in sinks, and for a desktop sink and Discord of 2 with a queue of 2: a batch fills and overflows it, and events wait behind a push |
| `track_switch` | do files play with their own tracks and do machine and mpv agree when all is quiet? | 2 loads and 2 stops, resumes or pauses, each at any time: loads overlap, a load is stopped or resumed at every stage, a failed one is replaced |
| `shutdown_manager` | does every request end the main thread and leave no thread behind, is a wake ever lost, does the overlay come back with its window? | 1 requester besides the main thread (a second finds the flag set), and either one event of mpv during startup (perhaps fatal) or reports of visibility, sleep and wake: mpv's events end with startup and reports matter after it, so the two are not combined |
| `server_connection` | does only the attempt on the screen count, do screen and browser agree at rest, does a screen that works end? | 2 servers, 4 probe cycles (an old probe, its replacement and one after), 1 browser that closes by itself, a CEF that may reject a post, a session that may stop at any moment |
| `browser_session` | is every resource released after what uses it, and does the program end? | 2 threads, 2 tasks besides those of the close, 1 recreated browser, every wait may run out |
| `layer_actor` | does the screen end with the last page at the last size, does a hidden layer stay empty, does the UI thread return? | 2 regions, 1 change, 1 resize, 1 deferred frame, every backend, a connection that may fail while somebody waits |
| `root_window` | does the loop never sleep on work, does a sleeping one show the window as configured, does leaving fullscreen restore it? | 1 sender, 3 acts that may be commands, commits, configures nobody asked for or new scales (three commands enter fullscreen twice and leave it), 1 floating size besides the big one, 2 scales (symmetric), the first at any moment |
| `startup_request` | violated: the startup wait ends on a request without waiting for mpv | 1 mpv event |
| `lost_ack` | violated: an acknowledgement is always still to come | a display that may answer, or fail, before the answer is armed |
| `coalesced_damage` | violated: what is shown after a frame is the page it was painted from | 2 regions, 2 changes |

Bounds that are not constants are named in the modules: `LayerActor` lets the
connection fail only while a thread waits for it, `ServerConnection` drops what
is queued for a session that was revoked.

`CHECK_DEADLOCK FALSE` appears in the configurations of `TrackSwitch`, where the
page runs out of loads and presses and the system rests, and of
`ShutdownManager`, where the program ends.

The violated runs are disagreements between the code and what it says of
itself; `PROJECT.json` (`findings`) quotes both sides. `startup_request`: the
pump looks for a request before it drains mpv, so the drain can swallow the
wakeup that a request in between queued, and the blocking wait sleeps until
mpv's next event. `lost_ack`: the request for a callback leaves before the
waiter is registered, so an answer or the end of the connection can pass it by.
`coalesced_damage`: a GPU frame that replaces a waiting one brings only its own
damage.

### What the properties except

Some behaviour of the code is known and would break a simpler property; the
modules say so where they except it.

- *Overlapping loads.* `pending_load` and the selection slot do not know which
  load they belong to. A page that loads a second file while the first is on its
  way gives a file the tracks of another, and the end of the replaced file stops
  the machine. Stops make loads overlap too: one that follows a stopped load
  before the worker took that load's selection shares the slot with it.
- *Early resumption.* mpv is resumed by the worker once the selection is written;
  a `playerPlay` before that resumes a file with nothing selected.
- *Early stops.* A stop before `FILE_LOADED` makes mpv end the load, and
  `pending_load` swallows that end as it would a replaced file's: the machine
  keeps a phase although mpv holds no file. A load whose url is refused is
  announced and never begun, with the same effect. `MachineAgreesWithMpv` excepts
  these two when loads do not overlap; that playing and paused agree it says of
  every page.
- In `TrackSwitch` the page does all this at any time. `page.early` collects the
  calls made while a load was under way, and each property says which of them
  it does not speak about (`Without`). A load after such a call counts as
  early itself until nothing is on its way, since what the call left behind may
  still be.
- *Core idle.* The end of a replaced file is swallowed but withdraws the
  spinner: `LoadStarting`, `CoreIdle(true)`, `EndFile`, `PauseChanged(false)`
  promotes a load although mpv's core is idle. `PromotedWhenReady` speaks of the
  spinner and not of the core.
- *Hidden windows.* `set_hidden` is dropped while the overlay has no client or
  no browser, and the next browser is not told. `Resume` shows the overlay even
  when the window was hidden before the sleep. `OverlayFollowsWindow` speaks of
  the overlay, of visible windows and of sleeping systems.
- *A browser that closes by itself* is created anew and blank while the painting
  goes on naming the lost navigation, and nothing loads it again (`orphaned`).
  A reset while probing clears the saved server, and a probe that then succeeds
  saves it again. Loads are matched by url, not by navigation.
- *Presence.* The worker learns that Discord went away at its next push, and
  until then nothing is shown again (`link`). A held-back push ships the position
  of the event that was folded last, not that of the moment: the progress bar may
  be behind. `PresenceShowsPlayer` speaks of what plays, on a live link.
- *Lost frames.* A frame whose buffer cannot be made, or whose swapchain is lost,
  is not asked for again, though `Wake.source` documents it (`lost`).
- *The first ping.* Between the spawn of the root thread and its publication a
  ping is a no-op; a request stored after the loop's last look then waits for an
  unrelated event (`unheard`), which the comment of `settle` rules out.
- *Fullscreen.* `pre_fs_maximized` outlives a fullscreen that the compositor
  ends, so a later request for a window maximizes it; `FullscreenRestores` speaks
  of windows that are fullscreen. Commands resolve against the mode last
  configured, which is stale while a configure travels: a maximize request
  followed at once by fullscreen remembers the window before it. `MayRestore`
  then admits what the stale modes say, and otherwise only what the window was.

### Fairness

Liveness is checked under weak fairness of plain threads that run without
priorities and wait for one another only where the model says so.
`coordinator`: the worker, each producer that holds a cloned handle, and shutdown
once begun. `shutdown_manager`: main thread, helper, manager, a caller inside
`initiate` and a reporter that has pushed; `FairSpec` adds that mpv answers the
background request and that the window gets a first extent, without which
startup legitimately waits. `startup_request` drops exactly that addition, since
a request must not depend on it. `server_connection`: actor and UI thread run what
they are given, deadlines come due, and requests and loads end (each has a
timeout of CEF's); nothing makes a probe or load succeed. `browser_session`: the
closer, the main thread, CEF's own tasks and callbacks, and threads that leave
what they entered; no deadline is relied upon, so the close ends by itself.
`layer_actor`: the three threads, and a display that answers what it is sent.
Nothing is assumed of how often anyone
posts, reports, paints, or asks for anything.

## Proofs

`PlaybackStateMachine_proofs` proves, for every set of items, positions and
observed values, that the invariants of the run hold. They are not inductive one
by one: a step from a state where the spinner disagrees with its causes, or
where a stopped machine still has a request, breaks `PhaseFollowsRequest`,
`StoppedIsQuiet` and `EventsTellTheState`. `IInv` conjoins the types, `Good`
(the invariants about the machine) and `Agrees` (the consumer that hears only
events); `Inductive` proves it by one lemma per handler, stated on the pure
operator of `PlaybackHandlers`, and the theorems follow. The action property
`PromotedWhenReady` needs only which handlers promote and under which guard.
Assumption: `PlaybackConstants`.

Its second half proves the three properties of `TrackSwitch` for any number of
loads and presses and a page that makes them at any time. `SwitchInv` has three
layers. `Basics` holds whatever the page does: the types, what is queued for mpv
and for the machine, and that the last pause told is the one reported, from
which playing and paused agree. `Flow` holds as long as no load overlaps
another: a load is announced before anything is told of its file, one older file
at most has yet to end and does so before the last one, such an end is expected
by `pending_load`, and a machine with nothing on its way is stopped exactly when
mpv holds no file, but for a stop before the load opened. `Stage` holds if it
was not resumed early either: how far the load issued last has come, and that
until its selection is written mpv holds the file paused with no command on its
way that would resume it. A call that breaks the condition of a layer leaves it,
and a load issued when nothing is on its way enters both again, which `Basics`
must suffice for. The machine's part are lemmas about what `Apply` makes of the
four inputs. Assumptions: `PlaybackConstants`, `TrackSwitchConstants`.

`PlaybackCoordinator_proofs` proves, for any producers, sinks and number of
posts, the types, that an exiting worker has applied and published all that was
accepted, that sinks are called with the published snapshot, that a batch is what
was queued at its capture, and the refinement of `PlaybackDelivery`. The heart of
`IInv` is conservation: what was accepted is what was applied followed by what is
queued; the rest bounds the batch by the queue and ties snapshot and exit to
the worker's step. `DInv` adds the delivery: a strictly increasing map shows
events and actions to be a pick of the batch's inputs (`Picks`), a callback has
one place in the registry and keeps it (`Registered`), and behind what a sink
last heard lies nothing it wants, up to where the batch began, to the item
its loop is at, or to the end of the batch (`Caught`, `Served`). A call is then
the abstract `Hear`, a send its `Accept`. Assumption: `CoordinatorConstants`,
which says that a callback is registered by one function only.

`ShutdownManager_proofs` proves, for any requesters and all bounds,
`NoLostWake` and `NothingOutlivesMain`. `Follows` says which threads exist at
which step of the main thread, so that the handler is installed whenever the
manager runs. `Awake` carries `NoLostWake` back from the wait to the moment the
queue was taken: from then on a request is in the batch, is still being
announced by its caller, or has raised the event. `OverlayFollowsWindow` has an
invariant of its own, `Tracks`: the last word about the window in batch and
queue (or, when there is none, what the manager believes) is what the window is,
likewise for sleep, and a browser is hidden only if the manager believes one of
them. Assumption: `ShutdownConstants`.

`PlaybackSinks_proofs` proves the four invariants of `PlaybackSinks`, one sink
at a time, for every batch size, every capacity and every set of inputs that
carry what their kind does. `IInv` says of each sink that the last event on
its way that concerns it, first through the bounded queue and then in the
batch, tells what the machine does, and that where there is none the sink
shows it already (`WillBe`). A handler keeps that because it reports what it
changes (`Report`: one lemma per handler of `PlaybackHandlers`), an enqueue
because the events it appends are the last ones, a delivery because it takes
the first. The desktop sinks add what a full queue lost, the presence what is
still to be pushed. Assumption: `SinkConstants`.

`BrowserSession_proofs` proves `DrainedIsFinal` and the refinement of `Teardown`
for any threads and tasks. Its `IInv` says which phase of the session belongs to
which wait of the closer (`Phases`), that the barrier is the last task once it
is posted, so that its answer finds nothing of the threads behind it (`Queued`),
who may still hold the client (`Clients`), and what the main thread has already
released (`Native`). The refinement then maps each step to a use, a release or
a stutter: `DrainReleases` for the close, `MainRefines` for the cleanup.
Assumption: `SessionConstants`.

`ServerConnection_proofs` proves, for any servers and bounds, the refinement of
`ConnectionAttempt`, `WitnessShowsServer` and `QuietAgreement`. `IInv` conjoins the types, `Ids`
(whatever travels names a probe or navigation there has been) and `Backing` (what
was told to the actor was judged before): an answer that arrives late is then
either about the attempt the screen follows, or moves nothing. The witness needs
`Shows` besides, which ties the frame to the navigation that painted it.
`QuietAgreement` speaks only of moments when nothing is on its way; `Agreement`
says what makes it come true. What the UI thread holds (the cycle of its probe,
the navigation of its browser), led through the tasks in its queue, the requests
the flush has taken and those that wait (`Leads`), is what the phase waits for:
a new phase appends the requests that undo the old one, a delivery moves one
request between two of the sequences, and a task does to the slots what `After`
says. `Allowed` adds that no task touches the probe after the last one was asked
for, `ProbeStands` that this probe has ended exactly when its answer travels or
was a failure, `PageStands` where a browser that is still being created keeps
its navigation. Assumption: `ConnectionConstants`.

`RootWindow_proofs` proves the three properties of `RootWindow` for any senders,
sizes, scales and bounds. `Heard` says of every look of `settle` what
`NeverSleepsOnWork` says of the sleep alone. The others rest on `Window`: the
last configure on its way, or the mode when there is none, states the mode the
compositor holds (`Latest`); a window with a size is placed where it was last
offered, and what it was not yet committed with is latched in an awake loop
(`Placed`); what fullscreen remembers, and what it may still remember from a
configure on its way, it may restore (`Remembers`). Assumption: `RootConstants`.

`LayerActor_proofs` proves `PatchesHaveABase` and `HiddenStaysEmpty` for any page,
sizes and bounds, also for a display that answers early. Neither is inductive.
`Request` follows a visibility request from the mailbox through the worker to its
acknowledgement, and with it who may still attach a buffer. `Chain` is why a patch
has its base: from the page back over the frame in the UI thread's hands, the
pending one and the one the worker serves to its shadow, each differs from its
predecessor only where it is dirty, as long as the mailbox calls the shadow
valid. `Routes` keeps the other ways out of that chain: with a GPU backend there
is no software frame anywhere, and shared frames never meet a shadow.
Assumption: `LayerConstants`.

Every safety property of a passing run is stated by a theorem, under no other
condition than the named assumption on the constants. Model-checked only are the liveness properties
(`ShutdownCompletes`, `AcceptedIsDelivered`, `ShutdownEnds`, `ConnectingSettles`,
`ScreenSettles`, `UiThreadReturns`), which are beyond the prover, and the
properties the code violates (`WholeFrames`, `NoLostAnswer`,
`RequestEndsStartup`).

## Not modelled

`PROJECT.json` gives the reason component by component. In short: the injected
JavaScript, native windows other than Wayland, GPU painting and the shell's
widgets are calls into systems outside the repository or sequential code over
layout data; the updater and the single-instance socket are one thread
each around I/O whose outcome the model would have to choose freely; geometry,
z-order, menus and the popup machines are pure functions that the unit tests walk
case by case; configuration, logging, parsing and build tooling keep no state
that several actors share. This is most of the repository's lines, and little of
its concurrency. Still worth modelling are the pool of dmabuf buffers with their
releases (`layer_actor.rs`), the X11 overlay actor and the shell actor's mailbox.
