---------------------------- MODULE PlaybackSinks ----------------------------
(***************************************************************************)
(* What the user sees of the player: the state machine driven by the       *)
(* coordinator's worker batch by batch, and one of the sinks it dispatches *)
(* to, which know nothing but the events and the snapshot stamped on them. *)
(* The built-in ones (idle inhibit, the browser's transport) are called in *)
(* place.  The desktop's media controls (MPRIS; Now Playing and SMTC) are  *)
(* fed by sink_core's hook, which copies every event into a bounded queue, *)
(* dropping it when the queue is full; a thread of their own consumes it.  *)
(* Discord's presence has a thread and a channel of its own, without a     *)
(* bound, and a connection that it paces, loses and makes anew.            *)
(*                                                                         *)
(* Every event of a batch carries the snapshot of the whole batch, so a    *)
(* sink may hear of a step whose snapshot already shows a later one.       *)
(* Sinks do not meet: each behaviour watches one of them.                  *)
(***************************************************************************)
EXTENDS PlaybackHandlers, SequencesExt

CONSTANTS
  Inputs,      \* per sink, the inputs posted: records [kind, arg]
  MaxBatch,    \* per sink, the bound on the inputs of one batch
  QueueCap     \* EVENT_QUEUE_CAP, and the bound on Discord's channel

(* MPRIS announces the projection of the snapshot; Now Playing and SMTC    *)
(* ("native") are told a phase derived from the event's kind.              *)
Desktops == {"mpris", "native"}
Builtins == {"inhibit", "browser"}
Sinks    == Builtins \cup Desktops \cup {"discord"}

ASSUME SinkConstants ==
  /\ MaxBatch \in [Sinks -> Nat \ {0}] /\ QueueCap \in Nat \ {0}
  /\ \A s \in Sinks : \A input \in Inputs[s] : input.arg \in Args(input.kind)

VARIABLES
  sm,          \* the coordinator's machine
  size,        \* inputs applied in the batch under way
  batch,       \* the kinds of their events, then those not yet handed out
  dispatching, \* the batch is applied and being handed out
  queue,       \* the sink's channel: events with their snapshot's projection
  missed,      \* the last event that concerned the desktop found the queue full
  watched,     \* the sink watched
  shown        \* the level it last set, the word it last emitted, or what the
               \* desktop was last told; of Discord the presence worker

vars == <<sm, size, batch, dispatching, queue, missed, watched, shown>>

-----------------------------------------------------------------------------
(* The built-in sinks: what they show after an event of a kind.            *)

InhibitLevel(snap) ==
  IF snap.phase # "Playing" THEN "None"
  ELSE IF snap.media_type = "Audio" THEN "System" ELSE "Display"

(* Mutant of InhibitAfter: the level is set on transport events only. *)
InhibitOnTransport(level, kind, snap) ==
  IF kind \in TerminalKinds \cup {"Started", "Paused"} THEN InhibitLevel(snap) ELSE level

InhibitAfter(level, kind, snap) ==
  IF kind \in TerminalKinds \cup {"Started", "Paused", "MediaTypeChanged"}
  THEN InhibitLevel(snap) ELSE level

(* Mutant of BrowserAfter: a variant switch goes by unnoticed. *)
BrowserIgnoresSwitch(word, kind, snap) ==
  CASE kind = "Started" -> "playing"
    [] kind = "Paused" -> "paused"
    [] kind \in TerminalKinds -> "ended"
    [] OTHER -> word

(* A variant switch pauses the page's indicator; 'seeking' and the position *)
(* updates leave it alone.                                                  *)
BrowserAfter(word, kind, snap) ==
  CASE kind = "Started" -> "playing"
    [] kind = "Paused" \/ (kind = "TrackLoaded" /\ snap.variant_switch_pending) -> "paused"
    [] kind \in TerminalKinds -> "ended"
    [] OTHER -> word

-----------------------------------------------------------------------------
(* What the desktop sinks make of one event.                               *)

MapKindToPhase(kind) ==
  CASE kind = "Started"                   -> "Playing"
    [] kind \in {"Paused", "TrackLoaded"} -> "Paused"
    [] OTHER                              -> "Stopped"

Statuses == {"Playing", "Paused", "Stopped"}
Projections == [status : Statuses, can_play : BOOLEAN, rolling : BOOLEAN]

(* project(): what MPRIS answers on one snapshot. *)
Project(snap) ==
  [status   |-> IF snap.phase = "Starting" THEN "Playing" ELSE snap.phase,
   can_play |-> IsActive(snap),
   rolling  |-> snap.phase = "Playing" /\ ~snap.seeking /\ ~snap.buffering]

(* Mutant of Recomputes: a change of the spinner alone is not announced. *)
RecomputesOnTransport == LifecycleKinds \cup {"SeekingChanged"}

(* The kinds on which handle_event recomputes the properties and emits those *)
(* that changed; the metadata and the rate, which two more kinds change, are *)
(* left out.                                                                 *)
Recomputes ==
  LifecycleKinds \cup {"ArtworkChanged", "QueueCapsChanged", "SeekingChanged",
                       "BufferingChanged"}

(* The kinds on which the desktop is told something. *)
Telling(p) == IF p = "mpris" THEN Recomputes ELSE LifecycleKinds

ShownAt(p, snap) == IF p = "mpris" THEN Project(snap) ELSE snap.phase

-----------------------------------------------------------------------------
(* What the presence worker makes of one event.  Titles and the progress   *)
(* bar are left out: a change of theirs alone may ask for a push too.      *)

(* The kinds on which handle_event projects a new view; those that only    *)
(* concern the bar (duration, rate) are left out with it.                  *)
Projecting == LifecycleKinds \cup {"MetadataChanged", "MediaTypeChanged", "Seeked"}

(* project(): nothing at all once playback stopped. *)
View(status, titled) == [status |-> status, titled |-> titled /\ status # "Stopped"]
NoView == View("Stopped", FALSE)
Views  == {View(status, titled) : status \in Statuses, titled \in BOOLEAN}

(* push: a view without a title clears the activity. *)
Pushed(view) == IF view.titled THEN view.status ELSE "Stopped"

(* The worker's state, and the status that Discord shows.  A link is       *)
(* "broken" while the worker has not noticed that Discord went away.       *)
PresenceStates == [view : Views, titled : BOOLEAN, link : {"down", "up", "broken"},
               pending : BOOLEAN, due : BOOLEAN, shows : Statuses]
Unconnected ==
  [view |-> NoView, titled |-> FALSE, link |-> "down", pending |-> FALSE, due |-> TRUE,
   shows |-> "Stopped"]

(* Discord starts with nothing, so what there is is pushed again. *)
Connected(d) == [d EXCEPT !.link = "up", !.due = TRUE, !.pending = d.view # NoView]

(* An event folded into the view.  Metadata of the same item is dropped.   *)
Folded(d, e) ==
  IF e.kind \notin Projecting THEN {d}
  ELSE LET titled == d.titled \/ e.kind = "MetadataChanged"
           view   == View(e.snap.status, titled)
       IN {[d EXCEPT !.view = view, !.titled = titled,
                     !.pending = d.pending \/ view # d.view \/ other] :
             other \in (IF view = NoView THEN {FALSE} ELSE BOOLEAN)}

(* Mutant of Served: an update that comes too soon is dropped. *)
ServedOrDropped(d) ==
  LET tried == IF d.link = "down" THEN {d, Connected(d)} ELSE {d}
      Push(c) == IF c.link = "up" /\ c.pending /\ c.due
                   THEN [c EXCEPT !.pending = FALSE, !.due = FALSE, !.shows = Pushed(c.view)]
                   ELSE [c EXCEPT !.pending = FALSE]
  IN {Push(c) : c \in tried}

(* The rest of the loop: connect when it is time to, push what is due.     *)
Served(d) ==
  LET tried == IF d.link = "down" THEN {d, Connected(d)} ELSE {d}
      Push(c) == IF ~(c.pending /\ c.due) \/ c.link = "down" THEN c
                 ELSE IF c.link = "up"
                 THEN [c EXCEPT !.pending = FALSE, !.due = FALSE, !.shows = Pushed(c.view)]
                 ELSE [c EXCEPT !.link = "down"]
  IN {Push(c) : c \in tried}

-----------------------------------------------------------------------------

Init ==
  /\ sm = Fresh
  /\ size = 0 /\ batch = <<>> /\ dispatching = FALSE
  /\ queue = <<>> /\ missed = FALSE
  /\ watched \in Sinks
  /\ shown = CASE watched = "inhibit" -> "None"
               [] watched = "browser" -> "none"
               [] watched = "discord" -> Unconnected
               [] OTHER               -> ShownAt(watched, Fresh)

(* The worker applies one more input of its batch. *)
ApplyInput(input) ==
  /\ ~dispatching /\ size < MaxBatch[watched]
  /\ LET result == Apply(sm, input)
     IN /\ sm' = result.m
        /\ batch' = batch \o [i \in DOMAIN result.events |-> result.events[i].kind]
  /\ size' = size + 1
  /\ UNCHANGED <<dispatching, queue, missed, watched, shown>>

(* The batch is applied and its dispatch begins; with no event it is over.   *)
Dispatch ==
  /\ ~dispatching /\ size > 0
  /\ dispatching' = (batch # <<>>) /\ size' = 0
  /\ UNCHANGED <<sm, batch, queue, missed, watched, shown>>

(* dispatch hands the events out one by one, each with the snapshot of the *)
(* whole batch.                                                            *)
HandOut ==
  /\ dispatching
  /\ batch' = Tail(batch) /\ dispatching' = (Len(batch) > 1)
  /\ UNCHANGED <<sm, size, watched>>

CallBuiltin ==
  /\ watched \in Builtins /\ HandOut
  /\ shown' = IF watched = "inhibit" THEN InhibitAfter(shown, Head(batch), sm)
              ELSE BrowserAfter(shown, Head(batch), sm)
  /\ UNCHANGED <<queue, missed>>

(* on_event: an event that finds the queue full is lost. *)
Offer ==
  /\ watched \in Desktops /\ HandOut
  /\ LET kind == Head(batch)
     IN /\ queue' = IF Len(queue) < QueueCap
                    THEN Append(queue, [kind |-> kind, snap |-> Project(sm)]) ELSE queue
        /\ missed' = IF kind \in Telling(watched) THEN Len(queue) = QueueCap ELSE missed
  /\ UNCHANGED shown

(* deliver and handle_event, on an event the desktop is told of. *)
Told(e) ==
  IF e.kind \notin Telling(watched) THEN shown
  ELSE IF watched = "mpris" THEN e.snap ELSE MapKindToPhase(e.kind)

(* The consumer thread delivers the oldest event. *)
Deliver ==
  /\ watched \in Desktops /\ queue # <<>>
  /\ shown' = Told(Head(queue))
  /\ queue' = Tail(queue)
  /\ UNCHANGED <<sm, size, batch, dispatching, missed, watched>>

(* Discord's hook: every event goes into its channel. *)
Forward ==
  /\ watched = "discord" /\ HandOut /\ Len(queue) < QueueCap
  /\ queue' = Append(queue, [kind |-> Head(batch), snap |-> Project(sm)])
  /\ UNCHANGED <<missed, shown>>

(* One turn of the presence worker, on an event or on its idle tick. *)
Turn ==
  /\ watched = "discord"
  /\ \/ /\ queue # <<>> /\ queue' = Tail(queue)
        /\ \E d \in Folded(shown, Head(queue)) : shown' \in Served(d)
     \/ UNCHANGED queue /\ shown' \in Served(shown)
  /\ UNCHANGED <<sm, size, batch, dispatching, missed, watched>>

(* MIN_UPDATE_INTERVAL is over. *)
IntervalEnds ==
  /\ watched = "discord" /\ ~shown.due
  /\ shown' = [shown EXCEPT !.due = TRUE]
  /\ UNCHANGED <<sm, size, batch, dispatching, queue, missed, watched>>

(* Discord goes away, and with it what it showed. *)
DiscordQuits ==
  /\ watched = "discord" /\ shown.link = "up"
  /\ shown' = [shown EXCEPT !.link = "broken", !.shows = "Stopped"]
  /\ UNCHANGED <<sm, size, batch, dispatching, queue, missed, watched>>

Next == \/ \E input \in Inputs[watched] : ApplyInput(input)
        \/ Dispatch \/ CallBuiltin \/ Offer \/ Deliver
        \/ Forward \/ Turn \/ IntervalEnds \/ DiscordQuits

Spec == Init /\ [][Next]_vars

-----------------------------------------------------------------------------

(* Every variable stays in its type, the queue within its capacity. *)
TypeOK ==
  /\ sm \in MachineStates /\ watched \in Sinks /\ size \in 0 .. MaxBatch[watched]
  /\ batch \in Seq(EventKinds) /\ dispatching = (size = 0 /\ batch # <<>>)
  /\ queue \in Seq([kind : EventKinds, snap : Projections]) /\ Len(queue) <= QueueCap
  /\ missed \in BOOLEAN
  /\ shown \in CASE watched = "inhibit" -> {"None", "System", "Display"}
                 [] watched = "browser" -> {"none", "playing", "paused", "ended"}
                 [] watched = "mpris"   -> Projections
                 [] watched = "discord" -> PresenceStates
                 [] OTHER               -> Statuses

BetweenBatches == size = 0 /\ ~dispatching

(* Between dispatches the screen is kept awake exactly while a video plays, *)
(* the system while audio plays, and nothing otherwise, however the phase   *)
(* and the media type changed within and across batches.  While a load is   *)
(* starting the previous level may still hold.                              *)
InhibitFollowsPlayback ==
  watched = "inhibit" /\ BetweenBatches /\ sm.phase # "Starting" => shown = InhibitLevel(sm)

(* Between dispatches the browser's transport shows the player's phase, and *)
(* paused while a variant switch waits for its first frame.                 *)
BrowserFollowsPlayback ==
  watched = "browser" /\ BetweenBatches =>
    /\ sm.phase = "Playing" => shown = "playing"
    /\ sm.phase = "Paused" => shown = "paused"
    /\ sm.phase = "Stopped" => shown \in {"none", "ended"}
    /\ sm.variant_switch_pending => shown = "paused"

(* With nothing left to deliver and no load starting, the desktop shows the *)
(* player: MPRIS the projection of its state, the others its phase.  What a *)
(* full queue loses stays wrong only until the next event that tells it.    *)
DesktopShowsPlayer ==
  watched \in Desktops /\ BetweenBatches /\ queue = <<>> /\ sm.phase # "Starting" /\ ~missed
    => shown = ShownAt(watched, sm)

(* With nothing left to fold or to push and no load starting, a Discord    *)
(* that is connected shows what plays, and nothing once playback stopped,  *)
(* however updates were paced and connections lost and made anew.          *)
PresenceShowsPlayer ==
  watched = "discord" /\ BetweenBatches /\ queue = <<>> /\ sm.phase # "Starting"
    /\ shown.link = "up" /\ ~shown.pending
    => shown.shows = Pushed(View(sm.phase, shown.titled))
=============================================================================
