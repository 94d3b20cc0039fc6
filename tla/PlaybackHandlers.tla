--------------------------- MODULE PlaybackHandlers ---------------------------
(***************************************************************************)
(* The playback state machine of jfn-playback as pure functions: each      *)
(* handler `on_*` of state_machine.rs maps a machine state to the next     *)
(* machine state, the events it returns and the actions it queues.  The    *)
(* module has no variables; PlaybackStateMachine makes a transition system *)
(* of it and PlaybackSinks and TrackSwitch run it behind the coordinator.  *)
(***************************************************************************)
EXTENDS Naturals, Sequences

CONSTANTS
  ItemIds,       \* the non-empty Jellyfin item ids a load can name
  NoItem,        \* the empty item id
  Positions,     \* playback positions, 0 (the start of a file) among them
  ScalarProps,   \* observed values with plain change suppression: rate,
                 \*   duration, display rate, buffered ranges
  ScalarValues   \* the values those take, 0 standing for the initial one

ASSUME PlaybackConstants ==
  /\ NoItem \notin ItemIds
  /\ Positions \subseteq Nat /\ 0 \in Positions
  /\ 0 \in ScalarValues

Presences  == {"None", "Present"}
Phases     == {"Starting", "Playing", "Paused", "Stopped"}
MediaTypes == {"Unknown", "Audio", "Video"}
EndReasons == {"Eof", "Error", "Canceled"}
Actions    == {"ApplyPendingTrackSelectionAndPlay"}

TerminalKinds  == {"Finished", "Canceled", "Error"}
LifecycleKinds == TerminalKinds \cup {"TrackLoaded", "Started", "Paused"}
EventKinds ==
  LifecycleKinds \cup
  {"SeekingChanged", "BufferingChanged", "MediaTypeChanged", "PositionChanged",
   "FullscreenChanged", "ScalarChanged", "MetadataChanged", "ArtworkChanged",
   "QueueCapsChanged", "Seeked"}

Events == [kind : EventKinds, flag : BOOLEAN]

(* The fields of PlaybackStateMachine, those of its snapshot `s` first.      *)
(* `pending_actions` is not kept: the worker drains it after every input, so *)
(* a handler returns its actions beside its events.                          *)
MachineStates ==
  [presence : Presences, phase : Phases, seeking : BOOLEAN, buffering : BOOLEAN,
   media_type : MediaTypes, position_us : Positions,
   variant_switch_pending : BOOLEAN, fullscreen : BOOLEAN,
   maximized_before_fullscreen : BOOLEAN,
   scalars : [ScalarProps -> ScalarValues],
   pending_load : BOOLEAN, pause_requested : BOOLEAN, paused_for_cache : BOOLEAN,
   core_idle : BOOLEAN, frame_available : BOOLEAN,
   last_known_item_id : ItemIds \cup {NoItem}]

Fresh ==
  [presence |-> "None", phase |-> "Stopped", seeking |-> FALSE,
   buffering |-> FALSE, media_type |-> "Unknown", position_us |-> 0,
   variant_switch_pending |-> FALSE, fullscreen |-> FALSE,
   maximized_before_fullscreen |-> FALSE,
   scalars |-> [p \in ScalarProps |-> 0],
   pending_load |-> FALSE, pause_requested |-> FALSE,
   paused_for_cache |-> FALSE, core_idle |-> FALSE, frame_available |-> FALSE,
   last_known_item_id |-> NoItem]

-----------------------------------------------------------------------------
(* What a handler returns.                                                 *)

Event(kind)           == [kind |-> kind, flag |-> FALSE]
FlagEvent(kind, flag) == [kind |-> kind, flag |-> flag]

Out(m, events) == [m |-> m, events |-> events, actions |-> <<>>]
Nothing(m)     == Out(m, <<>>)

(* Mutation: a load under way does not count as active. *)
ActiveOnceShown(m) == m.phase \in {"Playing", "Paused"}

IsActive(m) == m.phase \in {"Starting", "Playing", "Paused"}

(* mpv's two stall causes as one level. *)
Combined(m) == m.paused_for_cache \/ m.core_idle

ReadyToPlay(m) == m.media_type # "Video" \/ m.frame_available

(* Mutations: the promotion forgets the play request, or the spinner. *)
PromoteUnasked(m)       == m.phase = "Starting" /\ ~m.buffering /\ ReadyToPlay(m)
PromoteWhileStalled(m)  == m.phase = "Starting" /\ m.pause_requested /\ ReadyToPlay(m)

(* Play was asked for and nothing holds the first frame back. *)
MayPromote(m) ==
  m.phase = "Starting" /\ m.pause_requested /\ ~m.buffering /\ ReadyToPlay(m)

(* Mutation: the first frame leaves the variant switch pending. *)
PromoteKeepingSwitch(m, events) ==
  Out([m EXCEPT !.phase = "Playing"], Append(events, Event("Started")))

(* transition_to_playing appended to events already collected. *)
Promote(m, events) ==
  Out([m EXCEPT !.phase = "Playing", !.variant_switch_pending = FALSE],
      Append(events, Event("Started")))

AppendIf(cond, events, e) == IF cond THEN Append(events, e) ELSE events

PromoteIf(ready, m, events) == IF ready THEN Promote(m, events) ELSE Out(m, events)

-----------------------------------------------------------------------------
(* The handlers.                                                           *)

(* Both load handlers restart the phase with a fresh play request. *)
Restarted(m) ==
  [m EXCEPT !.presence = "Present", !.phase = "Starting", !.seeking = FALSE,
            !.buffering = Combined(m), !.pause_requested = FALSE,
            !.frame_available = FALSE]

OnFileLoaded(m) ==
  [m       |-> [Restarted(m) EXCEPT !.pending_load = FALSE],
   events  |-> <<Event("TrackLoaded")>>,
   actions |-> <<"ApplyPendingTrackSelectionAndPlay">>]

OnLoadStarting(m, id) ==
  Out([Restarted(m) EXCEPT
         !.pending_load = TRUE,
         !.variant_switch_pending = id # NoItem /\ id = m.last_known_item_id,
         !.last_known_item_id = IF id # NoItem THEN id ELSE @],
      <<Event("TrackLoaded")>>)

(* `pause_requested` holds the negation of mpv's pause property. *)
OnPauseChanged(m, paused) ==
  LET idle  == m.presence = "None" \/ m.phase = "Stopped"
      asked == [m EXCEPT !.pause_requested = ~paused]
  IN CASE idle -> Nothing(m)
       [] ~idle /\ paused /\ m.phase = "Paused" -> Nothing(asked)
       [] ~idle /\ paused /\ m.phase # "Paused" ->
            Out([asked EXCEPT !.phase = "Paused"], <<Event("Paused")>>)
       [] OTHER -> PromoteIf(m.phase = "Paused" \/ MayPromote(asked), asked, <<>>)

(* The end of a file first withdraws the seek and the spinner. *)
ClearedEvents(m) ==
  AppendIf(m.buffering,
           AppendIf(m.seeking, <<>>, FlagEvent("SeekingChanged", FALSE)),
           FlagEvent("BufferingChanged", FALSE))

TerminalKind(reason) ==
  CASE reason = "Eof"      -> "Finished"
    [] reason = "Canceled" -> "Canceled"
    [] OTHER               -> "Error"

(* A load under way takes over from the file that ended ... *)
EatenEnd(m) ==
  Out([m EXCEPT !.seeking = FALSE, !.buffering = FALSE, !.pending_load = FALSE,
                !.presence = "Present", !.phase = "Starting"],
      ClearedEvents(m))

(* ... or the player stops. *)
SurfacedEnd(m, reason) ==
  Out([m EXCEPT !.seeking = FALSE, !.buffering = FALSE, !.pending_load = FALSE,
                !.presence = "None", !.phase = "Stopped", !.pause_requested = FALSE,
                !.position_us = 0, !.variant_switch_pending = FALSE,
                !.last_known_item_id = NoItem],
      Append(ClearedEvents(m), Event(TerminalKind(reason))))

(* Mutations: a failed load is taken for the end of the file it replaces; a *)
(* file that plays out while its successor loads stops the machine.         *)
EndFileEatsErrors(m, reason) ==
  IF m.pending_load THEN EatenEnd(m) ELSE SurfacedEnd(m, reason)

EndFileEatsCancelOnly(m, reason) ==
  IF m.pending_load /\ reason = "Canceled" THEN EatenEnd(m) ELSE SurfacedEnd(m, reason)

OnEndFile(m, reason) ==
  IF m.pending_load /\ reason # "Error" THEN EatenEnd(m) ELSE SurfacedEnd(m, reason)

OnSeekingChanged(m, seeking) ==
  IF ~IsActive(m) \/ m.seeking = seeking THEN Nothing(m)
  ELSE Out([m EXCEPT !.seeking = seeking], <<FlagEvent("SeekingChanged", seeking)>>)

(* apply_buffering_change on a machine whose stall causes are up to date. *)
ApplyBufferingChange(m) ==
  LET now == [m EXCEPT !.buffering = Combined(m)]
  IN IF m.buffering = Combined(m) THEN Nothing(m)
     ELSE PromoteIf(MayPromote(now), now,
                    <<FlagEvent("BufferingChanged", now.buffering)>>)

(* Mutation: a stopped machine shows the spinner. *)
StallAlwaysShown(m) == ApplyBufferingChange(m)

(* An inactive machine remembers the stall cause and announces nothing. *)
StallChanged(m) == IF IsActive(m) THEN ApplyBufferingChange(m) ELSE Nothing(m)

OnPausedForCache(m, pfc) ==
  IF m.paused_for_cache = pfc THEN Nothing(m)
  ELSE StallChanged([m EXCEPT !.paused_for_cache = pfc])

OnCoreIdle(m, idle) ==
  IF m.core_idle = idle THEN Nothing(m)
  ELSE StallChanged([m EXCEPT !.core_idle = idle])

(* Mutations: a tick ends the seek without a word; ticks are added up. *)
PositionEndsSeekSilently(m, pos) ==
  IF m.position_us = pos /\ ~m.seeking THEN Nothing(m)
  ELSE Out([m EXCEPT !.position_us = pos, !.seeking = FALSE], <<Event("PositionChanged")>>)

PositionAdded(m, pos) ==
  Out([m EXCEPT !.position_us = @ + pos, !.seeking = FALSE],
      Append(AppendIf(m.seeking, <<>>, FlagEvent("SeekingChanged", FALSE)),
             Event("PositionChanged")))

OnPosition(m, pos) ==
  IF m.position_us = pos /\ ~m.seeking THEN Nothing(m)
  ELSE Out([m EXCEPT !.position_us = pos, !.seeking = FALSE],
           Append(AppendIf(m.seeking, <<>>, FlagEvent("SeekingChanged", FALSE)),
                  Event("PositionChanged")))

OnMediaType(m, ty) ==
  LET now == [m EXCEPT !.media_type = ty]
  IN IF m.media_type = ty THEN Nothing(m)
     ELSE PromoteIf(MayPromote(now), now, <<Event("MediaTypeChanged")>>)

OnVideoFrameAvailable(m, available) ==
  LET now == [m EXCEPT !.frame_available = available]
  IN PromoteIf(available /\ ~m.frame_available /\ MayPromote(now), now, <<>>)

(* on_speed, on_duration, on_buffered_ranges and on_display_hz. *)
OnScalar(m, prop, v) ==
  IF m.scalars[prop] = v THEN Nothing(m)
  ELSE Out([m EXCEPT !.scalars[prop] = v], <<Event("ScalarChanged")>>)

OnFullscreen(m, fullscreen, was_maximized) ==
  IF m.fullscreen = fullscreen THEN Nothing(m)
  ELSE Out([m EXCEPT !.fullscreen = fullscreen,
                     !.maximized_before_fullscreen = fullscreen /\ was_maximized],
           <<Event("FullscreenChanged")>>)

-----------------------------------------------------------------------------
(* `apply`: what one input makes of the machine.                           *)

(* What an input of a kind carries; of one that only raises an event, 0. *)
Args(kind) ==
  CASE kind = "LoadStarting" -> ItemIds \cup {NoItem}
    [] kind = "EndFile"      -> EndReasons
    [] kind \in {"PauseChanged", "SeekingChanged", "PausedForCache", "CoreIdle",
                 "VideoFrameAvailable", "Fullscreen"} -> BOOLEAN
    [] kind \in {"Position", "Seeked"}    -> Positions
    [] kind \in {"MediaType", "Metadata"} -> MediaTypes
    [] kind \in {"FileLoaded", "Artwork", "QueueCaps"} -> {0}
    [] OTHER -> IF kind \in ScalarProps THEN ScalarValues ELSE {}

Then(result, kind) == [result EXCEPT !.events = Append(@, Event(kind))]

Apply(m, input) ==
  LET x == input.arg
  IN CASE input.kind = "FileLoaded"          -> OnFileLoaded(m)
       [] input.kind = "LoadStarting"        -> OnLoadStarting(m, x)
       [] input.kind = "PauseChanged"        -> OnPauseChanged(m, x)
       [] input.kind = "EndFile"             -> OnEndFile(m, x)
       [] input.kind = "SeekingChanged"      -> OnSeekingChanged(m, x)
       [] input.kind = "PausedForCache"      -> OnPausedForCache(m, x)
       [] input.kind = "CoreIdle"            -> OnCoreIdle(m, x)
       [] input.kind = "Position"            -> OnPosition(m, x)
       [] input.kind = "MediaType"           -> OnMediaType(m, x)
       [] input.kind = "VideoFrameAvailable" -> OnVideoFrameAvailable(m, x)
       [] input.kind = "Fullscreen"          -> OnFullscreen(m, x, FALSE)
       [] input.kind = "Metadata"   -> Then(OnMediaType(m, x), "MetadataChanged")
       [] input.kind = "Artwork"    -> Out(m, <<Event("ArtworkChanged")>>)
       [] input.kind = "QueueCaps"  -> Out(m, <<Event("QueueCapsChanged")>>)
       [] input.kind = "Seeked"     -> Then(OnPosition(m, x), "Seeked")
       [] OTHER                     -> OnScalar(m, input.kind, x)

=============================================================================
