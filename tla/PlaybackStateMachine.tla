------------------------- MODULE PlaybackStateMachine -------------------------
(***************************************************************************)
(* PlaybackStateMachine of state_machine.rs under every sequence of        *)
(* inputs: mpv events and web posts reach it in whatever order its queue   *)
(* holds them, so each handler is always enabled.                          *)
(*                                                                         *)
(* `replica` is not program state.  It is a consumer that knows the player *)
(* only from the events the handlers return (as the browser, MPRIS and OS  *)
(* media sinks do), reading nothing else: it is what the properties compare*)
(* the machine with.                                                       *)
(***************************************************************************)
EXTENDS PlaybackHandlers

VARIABLES
  sm,        \* the machine
  replica    \* what the events told a consumer

vars == <<sm, replica>>

Replicas == [phase : Phases, seeking : BOOLEAN, buffering : BOOLEAN]

(* One event as its consumer sees it; `snap` is the snapshot it carries.     *)
Heard(r, e, snap) ==
  CASE e.kind = "TrackLoaded" ->
         [phase |-> "Starting", seeking |-> snap.seeking, buffering |-> snap.buffering]
    [] e.kind = "Started" -> [r EXCEPT !.phase = "Playing"]
    [] e.kind = "Paused"  -> [r EXCEPT !.phase = "Paused"]
    [] e.kind \in TerminalKinds   -> [r EXCEPT !.phase = "Stopped"]
    [] e.kind = "SeekingChanged"   -> [r EXCEPT !.seeking = e.flag]
    [] e.kind = "BufferingChanged" -> [r EXCEPT !.buffering = e.flag]
    [] OTHER -> r

(* A handler returns at most three events. *)
HeardAll(r, es, snap) ==
  LET one == IF Len(es) >= 1 THEN Heard(r, es[1], snap) ELSE r
      two == IF Len(es) >= 2 THEN Heard(one, es[2], snap) ELSE one
  IN IF Len(es) >= 3 THEN Heard(two, es[3], snap) ELSE two

(* The worker applies one input and hands its events on. *)
Take(result) ==
  /\ sm' = result.m
  /\ replica' = HeardAll(replica, result.events, result.m)

Init ==
  /\ sm = Fresh
  /\ replica = [phase |-> "Stopped", seeking |-> FALSE, buffering |-> FALSE]

FileLoaded     == Take(OnFileLoaded(sm))
LoadStarting   == \E id \in ItemIds \cup {NoItem} : Take(OnLoadStarting(sm, id))
PauseChanged   == \E paused \in BOOLEAN : Take(OnPauseChanged(sm, paused))
EndFile        == \E reason \in EndReasons : Take(OnEndFile(sm, reason))
SeekingChanged == \E seeking \in BOOLEAN : Take(OnSeekingChanged(sm, seeking))
PausedForCache == \E pfc \in BOOLEAN : Take(OnPausedForCache(sm, pfc))
CoreIdle       == \E idle \in BOOLEAN : Take(OnCoreIdle(sm, idle))
Position       == \E pos \in Positions : Take(OnPosition(sm, pos))
MediaType      == \E ty \in MediaTypes : Take(OnMediaType(sm, ty))
VideoFrame     == \E available \in BOOLEAN : Take(OnVideoFrameAvailable(sm, available))
Scalar         == \E p \in ScalarProps, v \in ScalarValues : Take(OnScalar(sm, p, v))
Fullscreen     == \E f, max \in BOOLEAN : Take(OnFullscreen(sm, f, max))

Next ==
  \/ FileLoaded \/ LoadStarting \/ PauseChanged \/ EndFile
  \/ SeekingChanged \/ PausedForCache \/ CoreIdle
  \/ Position \/ MediaType \/ VideoFrame \/ Scalar \/ Fullscreen

Spec == Init /\ [][Next]_vars

-----------------------------------------------------------------------------

(* Every field stays in its type. *)
TypeOK == sm \in MachineStates /\ replica \in Replicas

(* on_end_file, the two load handlers and the promotions each write part of *)
(* the presence, the phase, the identity and the stall flags; whatever their*)
(* order, a stopped player is absent, forgets the item and shows neither a  *)
(* spinner nor a seek.                                                      *)
StoppedIsQuiet ==
  /\ sm.presence = "None" <=> sm.phase = "Stopped"
  /\ sm.phase = "Stopped" =>
       /\ ~sm.seeking /\ ~sm.buffering /\ ~sm.pending_load
       /\ sm.last_known_item_id = NoItem

(* A pending variant switch names an item, and lasts at most until the new  *)
(* variant plays: no terminal, promotion or load of another item leaves the *)
(* flag behind for the next track to show.                                  *)
VariantSwitchIsBounded ==
  sm.variant_switch_pending =>
    /\ sm.phase \in {"Starting", "Paused"}
    /\ sm.last_known_item_id # NoItem

(* The spinner is never shown while mpv reports neither stall cause, though *)
(* the causes change while the machine is stopped and while it is loading.  *)
SpinnerHasCause == sm.buffering => Combined(sm)

(* The phase agrees with the last play request the machine accepted: five   *)
(* handlers promote and two demote, none against the request.               *)
PhaseFollowsRequest ==
  /\ sm.phase = "Playing" => sm.pause_requested
  /\ sm.phase \in {"Paused", "Stopped"} => ~sm.pause_requested

(* A consumer that only listens to events tracks the spinner and the seek   *)
(* exactly, and the phase up to one case: the end of the old file that a    *)
(* pending load swallows moves the machine back to Starting without a word, *)
(* so a pause or a promotion heard since LoadStarting is left standing.     *)
EventsTellTheState ==
  /\ replica.seeking = sm.seeking
  /\ replica.buffering = sm.buffering
  /\ \/ replica.phase = sm.phase
     \/ sm.phase = "Starting" /\ replica.phase \in {"Playing", "Paused"}

(* The first frame of a load is announced only when play was asked for, no  *)
(* spinner is up and the media is ready, whichever of the five inputs came  *)
(* last.                                                                    *)
PromotedWhenReady ==
  [][sm.phase = "Starting" /\ sm'.phase = "Playing" =>
       sm'.pause_requested /\ ~sm'.buffering /\ ReadyToPlay(sm')]_vars

=============================================================================
