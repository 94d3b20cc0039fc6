-------------------- MODULE PlaybackStateMachine_proofs --------------------
(***************************************************************************)
(* Proofs about PlaybackStateMachine: its invariants and the promotion     *)
(* property for every set of items, positions and observed scalars.        *)
(*                                                                         *)
(* The invariants are inductive together.  `Good` restates the four that   *)
(* only speak of the machine for an arbitrary machine state, and `Agrees`  *)
(* the fifth for an arbitrary consumer, so that each handler has one lemma *)
(* about what it makes of a good state and one about what it tells.        *)
(*                                                                         *)
(* The second half proves TrackSwitch, where the same handlers run behind  *)
(* the page, mpv and its ingest thread: its three properties for any       *)
(* number of loads and presses.  The invariant has three layers: what      *)
(* holds whatever the page does (`Basics`), what holds of loads that do    *)
(* not overlap (`Flow`), and where the selection of the last one is if no  *)
(* play came early either (`Stage`).                                       *)
(***************************************************************************)
EXTENDS PlaybackStateMachine, TrackSwitch, TLAPS

Good(m) ==
  /\ m.presence = "None" <=> m.phase = "Stopped"
  /\ m.phase = "Stopped" =>
       /\ ~m.seeking /\ ~m.buffering /\ ~m.pending_load
       /\ m.last_known_item_id = NoItem
  /\ m.variant_switch_pending =>
       /\ m.phase \in {"Starting", "Paused"}
       /\ m.last_known_item_id # NoItem
  /\ m.buffering => Combined(m)
  /\ m.phase = "Playing" => m.pause_requested
  /\ m.phase \in {"Paused", "Stopped"} => ~m.pause_requested

Agrees(r, m) ==
  /\ r \in Replicas
  /\ r.seeking = m.seeking
  /\ r.buffering = m.buffering
  /\ \/ r.phase = m.phase
     \/ m.phase = "Starting" /\ r.phase \in {"Playing", "Paused"}

IInv == sm \in MachineStates /\ Good(sm) /\ Agrees(replica, sm)

-----------------------------------------------------------------------------
(* What each handler makes of a good machine state.                        *)

(* What the load handlers' common part makes of the fields they read later. *)
LEMMA RestartedFields ==
  ASSUME NEW m \in MachineStates
  PROVE  /\ Restarted(m).presence = "Present" /\ Restarted(m).phase = "Starting"
         /\ ~Restarted(m).seeking /\ ~Restarted(m).pause_requested
         /\ ~Restarted(m).frame_available
         /\ Restarted(m).buffering = Combined(m) /\ Combined(Restarted(m)) = Combined(m)
         /\ Restarted(m).last_known_item_id = m.last_known_item_id
         /\ Restarted(m).variant_switch_pending = m.variant_switch_pending
         /\ Restarted(m).pending_load = m.pending_load
  BY DEF Restarted, MachineStates, Combined

(* ... and it keeps every field in its type. *)
LEMMA RestartedType ==
  ASSUME NEW m \in MachineStates
  PROVE  Restarted(m) \in MachineStates
  <1>1. /\ "Present" \in Presences /\ "Starting" \in Phases /\ Combined(m) \in BOOLEAN
    BY DEF MachineStates, Combined, Presences, Phases
  <1> QED
    BY <1>1 DEF Restarted, MachineStates

LEMMA FileLoadedGood ==
  ASSUME NEW m \in MachineStates, Good(m)
  PROVE  OnFileLoaded(m).m \in MachineStates /\ Good(OnFileLoaded(m).m)
  <1> DEFINE base == Restarted(m)
             now  == [base EXCEPT !.pending_load = FALSE]
  <1>1. base \in MachineStates
    BY RestartedType
  <1>2. /\ base.presence = "Present" /\ base.phase = "Starting"
        /\ base.buffering = Combined(base)
        /\ base.last_known_item_id = m.last_known_item_id
        /\ base.variant_switch_pending = m.variant_switch_pending
    BY RestartedFields
  <1>3. OnFileLoaded(m).m = now
    BY DEF OnFileLoaded
  <1> HIDE DEF base
  <1>4. now \in MachineStates
    BY <1>1 DEF MachineStates
  <1>5. /\ now.presence = base.presence /\ now.phase = base.phase
        /\ now.buffering = base.buffering /\ Combined(now) = Combined(base)
        /\ now.last_known_item_id = base.last_known_item_id
        /\ now.variant_switch_pending = base.variant_switch_pending
    BY <1>1 DEF MachineStates, Combined
  <1> HIDE DEF now
  <1>6. Good(now)
    BY <1>2, <1>5 DEF Good
  <1> QED
    BY <1>3, <1>4, <1>6

LEMMA LoadStartingGood ==
  ASSUME NEW m \in MachineStates, Good(m), NEW id \in ItemIds \cup {NoItem}
  PROVE  OnLoadStarting(m, id).m \in MachineStates /\ Good(OnLoadStarting(m, id).m)
  <1> DEFINE base     == Restarted(m)
             switched == id # NoItem /\ id = m.last_known_item_id
             item     == IF id # NoItem THEN id ELSE base.last_known_item_id
             now      == [base EXCEPT !.pending_load = TRUE,
                                      !.variant_switch_pending = switched,
                                      !.last_known_item_id = item]
  <1>1. base \in MachineStates
    BY RestartedType
  <1>2. /\ base.presence = "Present" /\ base.phase = "Starting"
        /\ base.buffering = Combined(base)
        /\ base.last_known_item_id = m.last_known_item_id
    BY RestartedFields
  <1>3. OnLoadStarting(m, id).m = now
    <2>1. \A n, told : Out(n, told).m = n
      BY DEF Out
    <2> QED
      BY <2>1 DEF OnLoadStarting
  <1>4. base.last_known_item_id \in ItemIds \cup {NoItem}
    BY <1>1 DEF MachineStates
  <1>5. switched \in BOOLEAN /\ item \in ItemIds \cup {NoItem}
    BY <1>4
  <1>6. switched => item # NoItem
    OBVIOUS
  <1> HIDE DEF base, switched, item
  <1>7. now \in MachineStates
    BY <1>1, <1>5 DEF MachineStates
  <1>8. /\ now.presence = base.presence /\ now.phase = base.phase
        /\ now.buffering = base.buffering /\ Combined(now) = Combined(base)
        /\ now.last_known_item_id = item /\ now.variant_switch_pending = switched
    BY <1>1 DEF MachineStates, Combined
  <1> HIDE DEF now
  <1>9. Good(now)
    BY <1>2, <1>6, <1>8 DEF Good
  <1> QED
    BY <1>3, <1>7, <1>9

LEMMA PauseChangedGood ==
  ASSUME NEW m \in MachineStates, Good(m), NEW paused \in BOOLEAN
  PROVE  OnPauseChanged(m, paused).m \in MachineStates /\ Good(OnPauseChanged(m, paused).m)
  <1> DEFINE asked   == [m EXCEPT !.pause_requested = ~paused]
             halted  == [asked EXCEPT !.phase = "Paused"]
             started == [asked EXCEPT !.phase = "Playing", !.variant_switch_pending = FALSE]
             idle    == m.presence = "None" \/ m.phase = "Stopped"
             ready   == m.phase = "Paused" \/ MayPromote(asked)
             out     == OnPauseChanged(m, paused)
  <1>1. out = CASE idle -> Nothing(m)
                [] ~idle /\ paused /\ m.phase = "Paused" -> Nothing(asked)
                [] ~idle /\ paused /\ m.phase # "Paused" -> Out(halted, <<Event("Paused")>>)
                [] OTHER -> PromoteIf(ready, asked, <<>>)
    BY DEF OnPauseChanged
  <1>2. /\ asked \in MachineStates /\ asked.pause_requested = ~paused
        /\ asked.phase = m.phase /\ asked.presence = m.presence
        /\ asked.buffering = m.buffering /\ Combined(asked) = Combined(m)
        /\ asked.last_known_item_id = m.last_known_item_id
        /\ asked.variant_switch_pending = m.variant_switch_pending
    BY DEF MachineStates, Combined
  <1> HIDE DEF asked, out
  <1>3. /\ Nothing(m).m = m /\ Nothing(asked).m = asked
        /\ \A told : Out(halted, told).m = halted
        /\ PromoteIf(ready, asked, <<>>).m = IF ready THEN started ELSE asked
    BY DEF Nothing, Out, PromoteIf, Promote
  <1>4. /\ halted \in MachineStates /\ halted.phase = "Paused"
        /\ halted.pause_requested = asked.pause_requested
        /\ halted.presence = asked.presence /\ halted.buffering = asked.buffering
        /\ Combined(halted) = Combined(asked)
        /\ halted.last_known_item_id = asked.last_known_item_id
        /\ halted.variant_switch_pending = asked.variant_switch_pending
    BY <1>2 DEF MachineStates, Combined, Phases
  <1>5. /\ started \in MachineStates /\ started.phase = "Playing"
        /\ started.pause_requested = asked.pause_requested
        /\ started.presence = asked.presence /\ started.buffering = asked.buffering
        /\ Combined(started) = Combined(asked) /\ ~started.variant_switch_pending
    BY <1>2 DEF MachineStates, Combined, Phases
  <1> HIDE DEF halted, started
  <1>6. \/ out.m = m
        \/ ~idle /\ (paused <=> m.phase = "Paused") /\ out.m = asked
        \/ ~idle /\ paused /\ out.m = halted
        \/ ~idle /\ ~paused /\ out.m = started
    <2>1. CASE idle
      BY <1>1, <1>3, <2>1
    <2>2. CASE ~idle /\ paused
      BY <1>1, <1>3, <2>2
    <2>3. CASE ~idle /\ ~paused
      BY <1>1, <1>3, <2>3
    <2> QED
      BY <2>1, <2>2, <2>3
  <1>7. ~idle /\ paused => Good(halted)
    BY <1>2, <1>4 DEF Good
  <1>8. ~idle /\ ~paused => Good(started)
    BY <1>2, <1>5 DEF Good
  <1>9. ~idle /\ (paused <=> m.phase = "Paused") => Good(asked)
    BY <1>2 DEF Good
  <1>10. out.m \in MachineStates /\ Good(out.m)
    BY <1>2, <1>4, <1>5, <1>6, <1>7, <1>8, <1>9
  <1> QED
    BY <1>10 DEF out

LEMMA EndFileGood ==
  ASSUME NEW m \in MachineStates, Good(m), NEW reason \in EndReasons
  PROVE  OnEndFile(m, reason).m \in MachineStates /\ Good(OnEndFile(m, reason).m)
  <1> DEFINE eaten == EatenEnd(m).m
             ended == SurfacedEnd(m, reason).m
  <1>1. /\ Presences = {"None", "Present"} /\ {"Starting", "Stopped"} \subseteq Phases
        /\ 0 \in Positions
    BY PlaybackConstants DEF Presences, Phases
  <1>2. eaten \in MachineStates /\ ended \in MachineStates
    <2>1. eaten \in MachineStates
      BY <1>1 DEF EatenEnd, Out, MachineStates
    <2>2. ended \in MachineStates
      BY <1>1 DEF SurfacedEnd, Out, MachineStates
    <2> QED
      BY <2>1, <2>2
  <1>3. /\ eaten.presence = "Present" /\ eaten.phase = "Starting" /\ ~eaten.buffering
        /\ eaten.variant_switch_pending = m.variant_switch_pending
        /\ eaten.last_known_item_id = m.last_known_item_id
    BY DEF EatenEnd, Out, MachineStates
  <1>4. /\ ended.presence = "None" /\ ended.phase = "Stopped" /\ ~ended.seeking
        /\ ~ended.buffering /\ ~ended.pending_load /\ ~ended.pause_requested
        /\ ~ended.variant_switch_pending /\ ended.last_known_item_id = NoItem
    BY DEF SurfacedEnd, Out, MachineStates
  <1>5. OnEndFile(m, reason).m = eaten \/ OnEndFile(m, reason).m = ended
    BY DEF OnEndFile
  <1> HIDE DEF eaten, ended
  <1>6. Good(eaten) /\ Good(ended)
    BY <1>3, <1>4 DEF Good
  <1> QED
    BY <1>2, <1>5, <1>6

LEMMA SeekingChangedGood ==
  ASSUME NEW m \in MachineStates, Good(m), NEW seeking \in BOOLEAN
  PROVE  /\ OnSeekingChanged(m, seeking).m \in MachineStates
         /\ Good(OnSeekingChanged(m, seeking).m)
  BY DEF Good, OnSeekingChanged, Nothing, Out, IsActive, MachineStates, Combined

(* The promotion guard keeps a good machine good. *)
LEMMA PromoteIfGood ==
  ASSUME NEW m \in MachineStates, Good(m), NEW ready \in BOOLEAN, NEW told,
         ready => MayPromote(m)
  PROVE  /\ PromoteIf(ready, m, told).m \in MachineStates
         /\ Good(PromoteIf(ready, m, told).m)
  <1>1. CASE ready
    BY <1>1 DEF PromoteIf, Promote, Out, MayPromote, Good, MachineStates, Combined,
                Presences, Phases
  <1>2. CASE ~ready
    BY <1>2 DEF PromoteIf, Out
  <1> QED
    BY <1>1, <1>2

(* apply_buffering_change, from a state whose spinner may lack its cause. *)
LEMMA BufferingGood ==
  ASSUME NEW m \in MachineStates, IsActive(m),
         Good([m EXCEPT !.buffering = FALSE])
  PROVE  /\ ApplyBufferingChange(m).m \in MachineStates
         /\ Good(ApplyBufferingChange(m).m)
  <1> DEFINE now    == [m EXCEPT !.buffering = Combined(m)]
             told == <<FlagEvent("BufferingChanged", now.buffering)>>
  <1>1. now \in MachineStates /\ Good(now)
    BY DEF Good, MachineStates, Combined, IsActive
  <1>2. CASE m.buffering = Combined(m)
    <2>1. m = now
      BY <1>2 DEF MachineStates
    <2> QED
      BY <1>1, <1>2, <2>1 DEF ApplyBufferingChange, Nothing, Out
  <1>3. CASE m.buffering # Combined(m)
    <2>1. ApplyBufferingChange(m) = PromoteIf(MayPromote(now), now, told)
      BY <1>3 DEF ApplyBufferingChange
    <2>2. MayPromote(now) \in BOOLEAN
      BY DEF MayPromote
    <2> HIDE DEF now, told
    <2> QED
      BY <1>1, <2>1, <2>2, PromoteIfGood
  <1> QED
    BY <1>2, <1>3

LEMMA PausedForCacheGood ==
  ASSUME NEW m \in MachineStates, Good(m), NEW pfc \in BOOLEAN
  PROVE  OnPausedForCache(m, pfc).m \in MachineStates /\ Good(OnPausedForCache(m, pfc).m)
  <1> DEFINE now == [m EXCEPT !.paused_for_cache = pfc]
  <1>1. now \in MachineStates /\ Good([now EXCEPT !.buffering = FALSE])
    BY DEF Good, MachineStates, Combined
  <1>2. CASE m.paused_for_cache = pfc
    BY <1>2 DEF OnPausedForCache, Nothing, Out
  <1>3. CASE m.paused_for_cache # pfc /\ IsActive(now)
    <2>1. OnPausedForCache(m, pfc) = ApplyBufferingChange(now)
      BY <1>3 DEF OnPausedForCache, StallChanged
    <2> QED BY <1>1, <1>3, <2>1, BufferingGood
  <1>4. CASE m.paused_for_cache # pfc /\ ~IsActive(now)
    BY <1>1, <1>4 DEF OnPausedForCache, StallChanged, Nothing, Out, IsActive, Good,
                      MachineStates, Phases, Combined
  <1> QED BY <1>2, <1>3, <1>4

LEMMA CoreIdleGood ==
  ASSUME NEW m \in MachineStates, Good(m), NEW idle \in BOOLEAN
  PROVE  OnCoreIdle(m, idle).m \in MachineStates /\ Good(OnCoreIdle(m, idle).m)
  <1> DEFINE now == [m EXCEPT !.core_idle = idle]
  <1>1. now \in MachineStates /\ Good([now EXCEPT !.buffering = FALSE])
    BY DEF Good, MachineStates, Combined
  <1>2. CASE m.core_idle = idle
    BY <1>2 DEF OnCoreIdle, Nothing, Out
  <1>3. CASE m.core_idle # idle /\ IsActive(now)
    <2>1. OnCoreIdle(m, idle) = ApplyBufferingChange(now)
      BY <1>3 DEF OnCoreIdle, StallChanged
    <2> QED BY <1>1, <1>3, <2>1, BufferingGood
  <1>4. CASE m.core_idle # idle /\ ~IsActive(now)
    BY <1>1, <1>4 DEF OnCoreIdle, StallChanged, Nothing, Out, IsActive, Good,
                      MachineStates, Phases, Combined
  <1> QED BY <1>2, <1>3, <1>4

LEMMA PositionGood ==
  ASSUME NEW m \in MachineStates, Good(m), NEW pos \in Positions
  PROVE  OnPosition(m, pos).m \in MachineStates /\ Good(OnPosition(m, pos).m)
  <1>1. CASE m.position_us = pos /\ ~m.seeking
    BY <1>1 DEF OnPosition, Nothing, Out
  <1>2. CASE ~(m.position_us = pos /\ ~m.seeking)
    <2>1. OnPosition(m, pos).m = [m EXCEPT !.position_us = pos, !.seeking = FALSE]
      BY <1>2 DEF OnPosition, Out
    <2> QED
      BY <2>1 DEF Good, MachineStates, Combined
  <1> QED
    BY <1>1, <1>2

LEMMA MediaTypeGood ==
  ASSUME NEW m \in MachineStates, Good(m), NEW ty \in MediaTypes
  PROVE  OnMediaType(m, ty).m \in MachineStates /\ Good(OnMediaType(m, ty).m)
  <1> DEFINE now    == [m EXCEPT !.media_type = ty]
             told == <<Event("MediaTypeChanged")>>
  <1>1. now \in MachineStates /\ Good(now) /\ MayPromote(now) \in BOOLEAN
    BY DEF Good, MachineStates, Combined, MayPromote
  <1>2. \/ OnMediaType(m, ty) = Nothing(m)
        \/ OnMediaType(m, ty) = PromoteIf(MayPromote(now), now, told)
    BY DEF OnMediaType
  <1> HIDE DEF now, told
  <1> QED
    BY <1>1, <1>2, PromoteIfGood DEF Nothing, Out

LEMMA VideoFrameGood ==
  ASSUME NEW m \in MachineStates, Good(m), NEW available \in BOOLEAN
  PROVE  /\ OnVideoFrameAvailable(m, available).m \in MachineStates
         /\ Good(OnVideoFrameAvailable(m, available).m)
  <1> DEFINE now   == [m EXCEPT !.frame_available = available]
             ready == available /\ ~m.frame_available /\ MayPromote(now)
  <1>1. now \in MachineStates /\ Good(now) /\ ready \in BOOLEAN
    BY DEF Good, MachineStates, Combined, MayPromote
  <1>2. OnVideoFrameAvailable(m, available) = PromoteIf(ready, now, <<>>)
    BY DEF OnVideoFrameAvailable
  <1>3. ready => MayPromote(now)
    OBVIOUS
  <1> HIDE DEF now, ready
  <1> QED
    BY <1>1, <1>2, <1>3, PromoteIfGood

LEMMA ScalarGood ==
  ASSUME NEW m \in MachineStates, Good(m), NEW p \in ScalarProps, NEW v \in ScalarValues
  PROVE  OnScalar(m, p, v).m \in MachineStates /\ Good(OnScalar(m, p, v).m)
  BY DEF Good, OnScalar, Nothing, Out, MachineStates, Combined

LEMMA FullscreenGood ==
  ASSUME NEW m \in MachineStates, Good(m), NEW f \in BOOLEAN, NEW max \in BOOLEAN
  PROVE  OnFullscreen(m, f, max).m \in MachineStates /\ Good(OnFullscreen(m, f, max).m)
  <1>1. CASE m.fullscreen = f
    BY <1>1 DEF OnFullscreen, Nothing, Out
  <1>2. CASE m.fullscreen # f
    <2>1. PICK was \in BOOLEAN :
            OnFullscreen(m, f, max).m =
              [m EXCEPT !.fullscreen = f, !.maximized_before_fullscreen = was]
      BY <1>2 DEF OnFullscreen, Out
    <2> QED
      BY <2>1 DEF Good, MachineStates, Combined
  <1> QED
    BY <1>1, <1>2

-----------------------------------------------------------------------------
(* What a consumer makes of an event, and of a handler's event list.       *)

LEMMA HeardKinds ==
  ASSUME NEW r \in Replicas, NEW snap
  PROVE  /\ Heard(r, Event("Started"), snap) = [r EXCEPT !.phase = "Playing"]
         /\ Heard(r, Event("Paused"), snap) = [r EXCEPT !.phase = "Paused"]
         /\ Heard(r, Event("TrackLoaded"), snap)
              = [phase |-> "Starting", seeking |-> snap.seeking,
                 buffering |-> snap.buffering]
  BY DEF Heard, Event, FlagEvent, TerminalKinds

LEMMA HeardFlags ==
  ASSUME NEW r \in Replicas, NEW snap, NEW flag \in BOOLEAN
  PROVE  /\ Heard(r, FlagEvent("SeekingChanged", flag), snap) = [r EXCEPT !.seeking = flag]
         /\ Heard(r, FlagEvent("BufferingChanged", flag), snap)
              = [r EXCEPT !.buffering = flag]
  BY DEF Heard, FlagEvent, TerminalKinds

LEMMA HeardTerminal ==
  ASSUME NEW r \in Replicas, NEW snap, NEW kind \in TerminalKinds
  PROVE  Heard(r, Event(kind), snap) = [r EXCEPT !.phase = "Stopped"]
  BY DEF Heard, Event, TerminalKinds

LEMMA HeardIgnored ==
  ASSUME NEW r, NEW snap,
         NEW kind \in {"MediaTypeChanged", "PositionChanged", "FullscreenChanged",
                       "ScalarChanged"}
  PROVE  Heard(r, Event(kind), snap) = r
  BY DEF Heard, Event, TerminalKinds

LEMMA EventTypes ==
  /\ \A kind \in EventKinds : Event(kind) \in Events
  /\ \A flag \in BOOLEAN : /\ FlagEvent("SeekingChanged", flag) \in Events
                           /\ FlagEvent("BufferingChanged", flag) \in Events
  BY DEF Event, FlagEvent, Events, EventKinds

LEMMA HeardShort ==
  ASSUME NEW r, NEW snap, NEW e
  PROVE  HeardAll(r, <<>>, snap) = r /\ HeardAll(r, <<e>>, snap) = Heard(r, e, snap)
  BY DEF HeardAll

LEMMA AtMostTwo ==
  ASSUME NEW n \in Nat, n \leq 2
  PROVE  n \in {0, 1, 2}
  OBVIOUS

(* The last event of a list is heard last. *)
LEMMA HeardAppend ==
  ASSUME NEW r, NEW snap, NEW es \in Seq(Events), Len(es) \leq 2, NEW e \in Events
  PROVE  HeardAll(r, Append(es, e), snap) = Heard(HeardAll(r, es, snap), e, snap)
  <1> DEFINE n    == Len(es)
             more == Append(es, e)
  <1>1. /\ Len(more) = n + 1 /\ more[n + 1] = e
        /\ \A i \in 1 .. n : more[i] = es[i]
    OBVIOUS
  <1>2. n \in Nat /\ n \leq 2
    OBVIOUS
  <1> HIDE DEF n, more
  <1>3. n \in {0, 1, 2}
    BY <1>2, AtMostTwo
  <1>4. HeardAll(r, more, snap) = Heard(HeardAll(r, es, snap), e, snap)
    <2>1. CASE n = 0
      BY <1>1, <2>1 DEF HeardAll, n
    <2>2. CASE n = 1
      BY <1>1, <2>2 DEF HeardAll, n
    <2>3. CASE n = 2
      BY <1>1, <2>3 DEF HeardAll, n
    <2> QED
      BY <1>3, <2>1, <2>2, <2>3
  <1> QED
    BY <1>4 DEF more

(* A seek is withdrawn by one event or, when there is none, by silence. *)
LEMMA SeekWithdrawn ==
  ASSUME NEW m \in MachineStates, NEW r \in Replicas, r.seeking = m.seeking, NEW snap,
         NEW es, es = AppendIf(m.seeking, <<>>, FlagEvent("SeekingChanged", FALSE))
  PROVE  /\ es \in Seq(Events) /\ Len(es) \leq 1
         /\ HeardAll(r, es, snap) = [r EXCEPT !.seeking = FALSE]
  <1> DEFINE e == FlagEvent("SeekingChanged", FALSE)
  <1>1. e \in Events
    BY EventTypes
  <1>2. Heard(r, e, snap) = [r EXCEPT !.seeking = FALSE]
    BY HeardFlags
  <1>3. es = IF m.seeking THEN Append(<<>>, e) ELSE <<>>
    BY DEF AppendIf
  <1> HIDE DEF e
  <1>4. /\ Append(<<>>, e) = <<e>> /\ <<e>> \in Seq(Events) /\ Len(<<e>>) \leq 1
        /\ <<>> \in Seq(Events) /\ Len(<<>>) \leq 1
    BY <1>1
  <1>5. m.seeking \in BOOLEAN
    BY DEF MachineStates
  <1>6. CASE m.seeking
    <2>1. es = <<e>>
      BY <1>3, <1>4, <1>6
    <2>2. HeardAll(r, <<e>>, snap) = [r EXCEPT !.seeking = FALSE]
      BY <1>2, HeardShort
    <2>3. es \in Seq(Events) /\ Len(es) \leq 1
      BY <1>4, <2>1
    <2> QED
      BY <2>1, <2>2, <2>3
  <1>7. CASE ~m.seeking
    <2>1. es = <<>> /\ HeardAll(r, <<>>, snap) = r
      BY <1>3, <1>7, HeardShort
    <2>2. r = [r EXCEPT !.seeking = FALSE]
      BY <1>7 DEF Replicas
    <2>3. es \in Seq(Events) /\ Len(es) \leq 1
      BY <1>4, <2>1
    <2>4. HeardAll(r, es, snap) = r
      BY <2>1
    <2> QED
      BY <2>2, <2>3, <2>4
  <1> QED
    BY <1>5, <1>6, <1>7

(* The events on_end_file starts with silence the seek and the spinner. *)
LEMMA ClearedHeard ==
  ASSUME NEW m \in MachineStates, NEW r, Agrees(r, m), NEW snap
  PROVE  /\ ClearedEvents(m) \in Seq(Events) /\ Len(ClearedEvents(m)) \leq 2
         /\ HeardAll(r, ClearedEvents(m), snap)
              = [r EXCEPT !.seeking = FALSE, !.buffering = FALSE]
  <1> DEFINE seek == AppendIf(m.seeking, <<>>, FlagEvent("SeekingChanged", FALSE))
             e    == FlagEvent("BufferingChanged", FALSE)
             mid  == [r EXCEPT !.seeking = FALSE]
  <1>1. e \in Events
    BY EventTypes
  <1>2. seek \in Seq(Events) /\ Len(seek) \leq 1 /\ HeardAll(r, seek, snap) = mid
    BY SeekWithdrawn DEF Agrees
  <1>3. ClearedEvents(m) = IF m.buffering THEN Append(seek, e) ELSE seek
    BY DEF ClearedEvents, AppendIf
  <1>4. m.buffering \in BOOLEAN /\ mid \in Replicas
    BY DEF MachineStates, Agrees, Replicas
  <1>5. Heard(mid, e, snap) = [mid EXCEPT !.buffering = FALSE]
    BY <1>4, HeardFlags
  <1>6. m.buffering \/ mid = [mid EXCEPT !.buffering = FALSE]
    BY DEF Agrees, Replicas
  <1>7. [mid EXCEPT !.buffering = FALSE] = [r EXCEPT !.seeking = FALSE, !.buffering = FALSE]
    BY DEF Agrees, Replicas
  <1> HIDE DEF seek, e, mid
  <1>8. /\ Append(seek, e) \in Seq(Events) /\ Len(Append(seek, e)) \leq 2
        /\ Len(seek) \leq 2
    <2>1. Len(Append(seek, e)) = Len(seek) + 1 /\ Len(seek) \in Nat
      BY <1>1, <1>2
    <2>2. Append(seek, e) \in Seq(Events)
      BY <1>1, <1>2
    <2> QED
      BY <1>2, <2>1, <2>2
  <1>9. HeardAll(r, Append(seek, e), snap) = Heard(mid, e, snap)
    BY <1>1, <1>2, <1>8, HeardAppend
  <1>10. CASE m.buffering
    BY <1>3, <1>5, <1>7, <1>8, <1>9, <1>10
  <1>11. CASE ~m.buffering
    BY <1>2, <1>3, <1>6, <1>7, <1>8, <1>11
  <1> QED
    BY <1>4, <1>10, <1>11

-----------------------------------------------------------------------------
(* What each handler tells a consumer that agreed with the machine.        *)

Told(r, result) == Agrees(HeardAll(r, result.events, result.m), result.m)

(* A handler that returns early tells nothing and changes nothing heard. *)
LEMMA SilenceTold ==
  ASSUME NEW m, NEW r, Agrees(r, m)
  PROVE  Told(r, Nothing(m))
  BY HeardShort DEF Told, Nothing, Out

(* A promotion is heard as one Started after what was heard before it. *)
LEMMA PromoteIfTold ==
  ASSUME NEW m \in MachineStates, NEW r, NEW ready \in BOOLEAN,
         NEW told \in Seq(Events), Len(told) \leq 2,
         Agrees(HeardAll(r, told, PromoteIf(ready, m, told).m), m)
  PROVE  Told(r, PromoteIf(ready, m, told))
  <1> DEFINE result == PromoteIf(ready, m, told)
             h      == HeardAll(r, told, result.m)
             e      == Event("Started")
  <1>1. CASE ready
    <2>1. e \in Events /\ Heard(h, e, result.m) = [h EXCEPT !.phase = "Playing"]
      BY EventTypes, HeardKinds DEF EventKinds, LifecycleKinds, Agrees
    <2>2. HeardAll(r, Append(told, e), result.m) = [h EXCEPT !.phase = "Playing"]
      <3> HIDE DEF e, result
      <3> QED
        BY <2>1, HeardAppend
    <2>3. result.m = [m EXCEPT !.phase = "Playing", !.variant_switch_pending = FALSE]
      BY <1>1 DEF PromoteIf, Promote, Out
    <2>4. result.events = Append(told, e)
      BY <1>1 DEF PromoteIf, Promote, Out
    <2>5. Agrees(h, m)
      OBVIOUS
    <2> HIDE DEF result, h, e
    <2>6. Agrees([h EXCEPT !.phase = "Playing"], result.m)
      BY <2>3, <2>5 DEF Agrees, Replicas, MachineStates, Phases
    <2> QED
      BY <2>2, <2>4, <2>6 DEF Told, result
  <1>2. CASE ~ready
    BY <1>2 DEF PromoteIf, Out, Told
  <1> QED
    BY <1>1, <1>2

LEMMA TrackLoadedHeard ==
  ASSUME NEW r \in Replicas, NEW m \in MachineStates, m.phase = "Starting"
  PROVE  Agrees(HeardAll(r, <<Event("TrackLoaded")>>, m), m)
  <1>1. HeardAll(r, <<Event("TrackLoaded")>>, m)
          = [phase |-> "Starting", seeking |-> m.seeking, buffering |-> m.buffering]
    <2> DEFINE e == Event("TrackLoaded")
    <2>1. Heard(r, e, m)
            = [phase |-> "Starting", seeking |-> m.seeking, buffering |-> m.buffering]
      BY HeardKinds
    <2> HIDE DEF e
    <2>2. HeardAll(r, <<e>>, m) = Heard(r, e, m)
      BY HeardShort
    <2> QED
      BY <2>1, <2>2 DEF e
  <1> QED
    BY <1>1 DEF Agrees, Replicas, MachineStates, Phases

LEMMA FileLoadedTold ==
  ASSUME NEW m \in MachineStates, Good(m), NEW r, Agrees(r, m)
  PROVE  Told(r, OnFileLoaded(m))
  <1> DEFINE result == OnFileLoaded(m)
  <1>1. result.m \in MachineStates
    BY FileLoadedGood
  <1>2. result.events = <<Event("TrackLoaded")>> /\ result.m.phase = "Starting"
    BY DEF OnFileLoaded, Restarted, MachineStates
  <1> HIDE DEF result
  <1>3. Told(r, result)
    BY <1>1, <1>2, TrackLoadedHeard DEF Told, Agrees
  <1> QED
    BY <1>3 DEF result

LEMMA LoadStartingTold ==
  ASSUME NEW m \in MachineStates, Good(m), NEW r, Agrees(r, m),
         NEW id \in ItemIds \cup {NoItem}
  PROVE  Told(r, OnLoadStarting(m, id))
  <1> DEFINE result == OnLoadStarting(m, id)
  <1>1. result.m \in MachineStates
    BY LoadStartingGood
  <1>2. result.events = <<Event("TrackLoaded")>> /\ result.m.phase = "Starting"
    BY DEF OnLoadStarting, Out, Restarted, MachineStates
  <1> HIDE DEF result
  <1>3. Told(r, result)
    BY <1>1, <1>2, TrackLoadedHeard DEF Told, Agrees
  <1> QED
    BY <1>3 DEF result

LEMMA EndFileTold ==
  ASSUME NEW m \in MachineStates, Good(m), NEW r, Agrees(r, m),
         NEW reason \in EndReasons
  PROVE  Told(r, OnEndFile(m, reason))
  <1> DEFINE result == OnEndFile(m, reason)
             es     == ClearedEvents(m)
             mid    == [r EXCEPT !.seeking = FALSE, !.buffering = FALSE]
             e      == Event(TerminalKind(reason))
  <1>1. /\ es \in Seq(Events) /\ Len(es) \leq 2
        /\ HeardAll(r, es, result.m) = mid
    BY ClearedHeard
  <1>2. mid \in Replicas
    BY DEF Agrees, Replicas
  <1>3. CASE m.pending_load /\ reason # "Error"
    <2>1. result.events = es
      BY <1>3 DEF OnEndFile, EatenEnd, SurfacedEnd, Out
    <2>2. /\ result.m.phase = "Starting"
          /\ ~result.m.seeking /\ ~result.m.buffering
          /\ result.m.seeking \in BOOLEAN /\ result.m.buffering \in BOOLEAN
      BY <1>3 DEF OnEndFile, EatenEnd, SurfacedEnd, Out, MachineStates
    <2>3. r.phase \in {"Starting", "Playing", "Paused"}
      BY <1>3 DEF Agrees, Good, MachineStates, Phases, Replicas
    <2>4. Told(r, result) <=> Agrees(mid, result.m)
      BY <1>1, <2>1 DEF Told
    <2>5. Agrees(mid, result.m)
      <3> HIDE DEF result
      <3> QED
        BY <1>2, <2>2, <2>3 DEF Agrees, Replicas
    <2> QED
      BY <2>4, <2>5
  <1>4. CASE ~(m.pending_load /\ reason # "Error")
    <2>1. result.events = Append(es, e)
      BY <1>4 DEF OnEndFile, EatenEnd, SurfacedEnd, Out
    <2>2. /\ result.m.phase = "Stopped"
          /\ ~result.m.seeking /\ ~result.m.buffering
          /\ result.m.seeking \in BOOLEAN /\ result.m.buffering \in BOOLEAN
      BY <1>4 DEF OnEndFile, EatenEnd, SurfacedEnd, Out, MachineStates
    <2>3. TerminalKind(reason) \in TerminalKinds
      BY DEF TerminalKind, EndReasons, TerminalKinds
    <2>4. e \in Events
      BY <2>3, EventTypes DEF EventKinds, LifecycleKinds
    <2> HIDE DEF result, es, mid
    <2>5. Heard(mid, e, result.m) = [mid EXCEPT !.phase = "Stopped"]
      BY <1>2, <2>3, HeardTerminal
    <2> HIDE DEF e
    <2>6. HeardAll(r, Append(es, e), result.m) = [mid EXCEPT !.phase = "Stopped"]
      BY <1>1, <2>4, <2>5, HeardAppend
    <2>7. Agrees([mid EXCEPT !.phase = "Stopped"], result.m)
      BY <1>2, <2>2 DEF Agrees, Replicas, Phases, mid
    <2>8. Told(r, result)
      BY <2>1, <2>6, <2>7 DEF Told
    <2> QED
      BY <2>8 DEF result
  <1> QED
    BY <1>3, <1>4

LEMMA PauseChangedTold ==
  ASSUME NEW m \in MachineStates, Good(m), NEW r, Agrees(r, m), NEW paused \in BOOLEAN
  PROVE  Told(r, OnPauseChanged(m, paused))
  <1> DEFINE result == OnPauseChanged(m, paused)
             idle   == m.presence = "None" \/ m.phase = "Stopped"
             asked  == [m EXCEPT !.pause_requested = ~paused]
             ready  == m.phase = "Paused" \/ MayPromote(asked)
  <1>1. asked \in MachineStates /\ Agrees(r, asked) /\ ready \in BOOLEAN
    BY DEF MachineStates, Agrees, MayPromote
  <1>2. CASE idle
    <2>1. result = Nothing(m)
      BY <1>2 DEF OnPauseChanged
    <2> QED
      BY <2>1, SilenceTold
  <1>3. CASE ~idle /\ paused /\ m.phase = "Paused"
    <2>1. result = Nothing(asked)
      BY <1>3 DEF OnPauseChanged
    <2> QED
      BY <1>1, <2>1, SilenceTold
  <1>4. CASE ~idle /\ paused /\ m.phase # "Paused"
    <2> DEFINE now == [asked EXCEPT !.phase = "Paused"]
    <2>1. result.m = now /\ result.events = <<Event("Paused")>>
      BY <1>4 DEF OnPauseChanged, Out
    <2>2. HeardAll(r, <<Event("Paused")>>, now) = Heard(r, Event("Paused"), now)
      BY HeardShort
    <2>3. Heard(r, Event("Paused"), now) = [r EXCEPT !.phase = "Paused"]
      BY HeardKinds DEF Agrees
    <2>4. Agrees([r EXCEPT !.phase = "Paused"], now)
      BY DEF Agrees, Replicas, Phases, MachineStates
    <2> QED
      BY <2>1, <2>2, <2>3, <2>4 DEF Told
  <1>5. CASE ~idle /\ ~paused
    <2>1. result = PromoteIf(ready, asked, <<>>)
      BY <1>5 DEF OnPauseChanged
    <2>2. HeardAll(r, <<>>, result.m) = r
      BY HeardShort
    <2>3. <<>> \in Seq(Events) /\ Len(<<>>) \leq 2
      OBVIOUS
    <2> HIDE DEF result, asked, ready
    <2>4. Agrees(HeardAll(r, <<>>, PromoteIf(ready, asked, <<>>).m), asked)
      BY <1>1, <2>1, <2>2
    <2>5. Told(r, PromoteIf(ready, asked, <<>>))
      BY <1>1, <2>3, <2>4, PromoteIfTold
    <2> QED
      BY <2>1, <2>5 DEF result
  <1> QED
    BY <1>2, <1>3, <1>4, <1>5

LEMMA SeekingChangedTold ==
  ASSUME NEW m \in MachineStates, Good(m), NEW r, Agrees(r, m), NEW seeking \in BOOLEAN
  PROVE  Told(r, OnSeekingChanged(m, seeking))
  <1> DEFINE now == [m EXCEPT !.seeking = seeking]
             e   == FlagEvent("SeekingChanged", seeking)
  <1>1. \/ OnSeekingChanged(m, seeking) = Nothing(m)
        \/ /\ OnSeekingChanged(m, seeking).m = now
           /\ OnSeekingChanged(m, seeking).events = <<e>>
    BY DEF OnSeekingChanged, Out
  <1>2. HeardAll(r, <<e>>, now) = Heard(r, e, now)
    BY HeardShort
  <1>3. Heard(r, e, now) = [r EXCEPT !.seeking = seeking]
    BY HeardFlags DEF Agrees
  <1>4. Agrees([r EXCEPT !.seeking = seeking], now)
    BY DEF Agrees, Replicas, MachineStates
  <1> QED
    BY <1>1, <1>2, <1>3, <1>4, SilenceTold DEF Told

LEMMA BufferingTold ==
  ASSUME NEW m \in MachineStates, NEW r, Agrees(r, m)
  PROVE  Told(r, ApplyBufferingChange(m))
  <1> DEFINE now    == [m EXCEPT !.buffering = Combined(m)]
             e      == FlagEvent("BufferingChanged", now.buffering)
             ready  == MayPromote(now)
             result == PromoteIf(ready, now, <<e>>)
             mid    == [r EXCEPT !.buffering = now.buffering]
  <1>1. \/ ApplyBufferingChange(m) = Nothing(m)
        \/ ApplyBufferingChange(m) = result
    BY DEF ApplyBufferingChange
  <1>2. /\ now \in MachineStates /\ now.buffering \in BOOLEAN /\ ready \in BOOLEAN
        /\ Agrees(mid, now)
    BY DEF MachineStates, Combined, MayPromote, Agrees, Replicas
  <1>3. e \in Events /\ Heard(r, e, result.m) = mid
    BY <1>2, EventTypes, HeardFlags DEF Agrees
  <1>4. HeardAll(r, <<e>>, result.m) = mid
    <2> HIDE DEF e, mid, result
    <2> QED
      BY <1>3, HeardShort
  <1>5. Told(r, result)
    <2> HIDE DEF e, now, ready, mid
    <2>1. <<e>> \in Seq(Events) /\ Len(<<e>>) \leq 2
      BY <1>3
    <2> QED
      BY <1>2, <1>4, <2>1, PromoteIfTold DEF Told, Agrees
  <1> QED
    BY <1>1, <1>5, SilenceTold

(* The stall causes themselves are not announced. *)
LEMMA PausedForCacheTold ==
  ASSUME NEW m \in MachineStates, Good(m), NEW r, Agrees(r, m), NEW pfc \in BOOLEAN
  PROVE  Told(r, OnPausedForCache(m, pfc))
  <1> DEFINE now == [m EXCEPT !.paused_for_cache = pfc]
  <1>1. now \in MachineStates /\ Agrees(r, now)
    BY DEF MachineStates, Agrees
  <1>2. \/ OnPausedForCache(m, pfc) = Nothing(m)
        \/ OnPausedForCache(m, pfc) = Nothing(now)
        \/ OnPausedForCache(m, pfc) = ApplyBufferingChange(now)
    BY DEF OnPausedForCache, StallChanged
  <1> HIDE DEF now
  <1> QED
    BY <1>1, <1>2, SilenceTold, BufferingTold

LEMMA CoreIdleTold ==
  ASSUME NEW m \in MachineStates, Good(m), NEW r, Agrees(r, m), NEW idle \in BOOLEAN
  PROVE  Told(r, OnCoreIdle(m, idle))
  <1> DEFINE now == [m EXCEPT !.core_idle = idle]
  <1>1. now \in MachineStates /\ Agrees(r, now)
    BY DEF MachineStates, Agrees
  <1>2. \/ OnCoreIdle(m, idle) = Nothing(m)
        \/ OnCoreIdle(m, idle) = Nothing(now)
        \/ OnCoreIdle(m, idle) = ApplyBufferingChange(now)
    BY DEF OnCoreIdle, StallChanged
  <1> HIDE DEF now
  <1> QED
    BY <1>1, <1>2, SilenceTold, BufferingTold

LEMMA PositionTold ==
  ASSUME NEW m \in MachineStates, Good(m), NEW r, Agrees(r, m), NEW pos \in Positions
  PROVE  Told(r, OnPosition(m, pos))
  <1> DEFINE now  == [m EXCEPT !.position_us = pos, !.seeking = FALSE]
             seek == AppendIf(m.seeking, <<>>, FlagEvent("SeekingChanged", FALSE))
             e    == Event("PositionChanged")
             mid  == [r EXCEPT !.seeking = FALSE]
  <1>1. \/ OnPosition(m, pos) = Nothing(m)
        \/ /\ OnPosition(m, pos).m = now
           /\ OnPosition(m, pos).events = Append(seek, e)
    BY DEF OnPosition, Out
  <1>2. seek \in Seq(Events) /\ Len(seek) \leq 1 /\ HeardAll(r, seek, now) = mid
    BY SeekWithdrawn DEF Agrees
  <1>3. e \in Events
    BY EventTypes DEF EventKinds
  <1>4. Heard(mid, e, now) = mid
    BY HeardIgnored
  <1>5. Agrees(mid, now)
    BY DEF Agrees, Replicas, MachineStates
  <1> HIDE DEF seek, e, mid, now
  <1>6. HeardAll(r, Append(seek, e), now) = Heard(mid, e, now)
    <2>1. Len(seek) \leq 2
      BY <1>2
    <2> QED
      BY <1>2, <1>3, <2>1, HeardAppend
  <1> QED
    BY <1>1, <1>4, <1>5, <1>6, SilenceTold DEF Told

LEMMA MediaTypeTold ==
  ASSUME NEW m \in MachineStates, Good(m), NEW r, Agrees(r, m), NEW ty \in MediaTypes
  PROVE  Told(r, OnMediaType(m, ty))
  <1> DEFINE now    == [m EXCEPT !.media_type = ty]
             e      == Event("MediaTypeChanged")
             ready  == MayPromote(now)
             result == PromoteIf(ready, now, <<e>>)
  <1>1. OnMediaType(m, ty) = Nothing(m) \/ OnMediaType(m, ty) = result
    BY DEF OnMediaType
  <1>2. now \in MachineStates /\ ready \in BOOLEAN /\ Agrees(r, now)
    BY DEF MachineStates, MayPromote, Agrees
  <1>3. e \in Events /\ Heard(r, e, result.m) = r
    BY EventTypes, HeardIgnored DEF EventKinds
  <1>4. HeardAll(r, <<e>>, result.m) = r
    <2> HIDE DEF e, result
    <2> QED
      BY <1>3, HeardShort
  <1>5. Told(r, result)
    <2> HIDE DEF e, now, ready
    <2>1. <<e>> \in Seq(Events) /\ Len(<<e>>) \leq 2
      BY <1>3
    <2>2. Agrees(HeardAll(r, <<e>>, result.m), now)
      BY <1>2, <1>4
    <2> QED
      BY <1>2, <2>1, <2>2, PromoteIfTold
  <1> QED
    BY <1>1, <1>5, SilenceTold

LEMMA VideoFrameTold ==
  ASSUME NEW m \in MachineStates, Good(m), NEW r, Agrees(r, m), NEW available \in BOOLEAN
  PROVE  Told(r, OnVideoFrameAvailable(m, available))
  <1> DEFINE now    == [m EXCEPT !.frame_available = available]
             ready  == available /\ ~m.frame_available /\ MayPromote(now)
             result == PromoteIf(ready, now, <<>>)
  <1>1. OnVideoFrameAvailable(m, available) = result
    BY DEF OnVideoFrameAvailable
  <1>2. now \in MachineStates /\ ready \in BOOLEAN /\ Agrees(r, now)
    BY DEF MachineStates, MayPromote, Agrees
  <1>3. HeardAll(r, <<>>, result.m) = r
    BY HeardShort
  <1>4. Told(r, result)
    <2> HIDE DEF now, ready
    <2>1. <<>> \in Seq(Events) /\ Len(<<>>) \leq 2
      OBVIOUS
    <2>2. Agrees(HeardAll(r, <<>>, result.m), now)
      BY <1>2, <1>3
    <2> QED
      BY <1>2, <2>1, <2>2, PromoteIfTold
  <1> QED
    BY <1>1, <1>4

(* One event a consumer of the transport state ignores. *)
LEMMA IgnoredTold ==
  ASSUME NEW r, NEW m, Agrees(r, m),
         NEW kind \in {"MediaTypeChanged", "PositionChanged", "FullscreenChanged",
                       "ScalarChanged"}
  PROVE  Told(r, Out(m, <<Event(kind)>>))
  <1> DEFINE e == Event(kind)
  <1>1. Heard(r, e, m) = r
    BY HeardIgnored
  <1> HIDE DEF e
  <1>2. HeardAll(r, <<e>>, m) = r
    BY <1>1, HeardShort
  <1>3. Told(r, Out(m, <<e>>))
    BY <1>2 DEF Told, Out
  <1> QED
    BY <1>3 DEF e

LEMMA ScalarTold ==
  ASSUME NEW m \in MachineStates, Good(m), NEW r, Agrees(r, m),
         NEW p \in ScalarProps, NEW v \in ScalarValues
  PROVE  Told(r, OnScalar(m, p, v))
  <1> DEFINE now == [m EXCEPT !.scalars[p] = v]
  <1>1. \/ OnScalar(m, p, v) = Nothing(m)
        \/ OnScalar(m, p, v) = Out(now, <<Event("ScalarChanged")>>)
    BY DEF OnScalar
  <1>2. Agrees(r, now)
    BY DEF Agrees, MachineStates
  <1> HIDE DEF now
  <1> QED
    BY <1>1, <1>2, SilenceTold, IgnoredTold

LEMMA FullscreenTold ==
  ASSUME NEW m \in MachineStates, Good(m), NEW r, Agrees(r, m),
         NEW f \in BOOLEAN, NEW max \in BOOLEAN
  PROVE  Told(r, OnFullscreen(m, f, max))
  <1> DEFINE now == [m EXCEPT !.fullscreen = f, !.maximized_before_fullscreen = f /\ max]
  <1>1. \/ OnFullscreen(m, f, max) = Nothing(m)
        \/ OnFullscreen(m, f, max) = Out(now, <<Event("FullscreenChanged")>>)
    BY DEF OnFullscreen
  <1>2. Agrees(r, now)
    BY DEF Agrees, MachineStates
  <1> HIDE DEF now
  <1> QED
    BY <1>1, <1>2, SilenceTold, IgnoredTold

-----------------------------------------------------------------------------
(* The inductive invariant.                                                *)

LEMMA InitIInv == Init => IInv
  BY PlaybackConstants
     DEF Init, IInv, Fresh, Good, Agrees, MachineStates, Replicas, Presences, Phases,
         MediaTypes, Combined

(* One step of the worker, from what the handler it ran makes and tells. *)
LEMMA TakeIInv ==
  ASSUME NEW result, Take(result), result.m \in MachineStates, Good(result.m),
         Told(replica, result)
  PROVE  IInv'
  BY DEF Take, IInv, Told, Good, Agrees, Combined

LEMMA NextIInv == IInv /\ [Next]_vars => IInv'
  <1> SUFFICES ASSUME IInv, [Next]_vars PROVE IInv'
    OBVIOUS
  <1>1. sm \in MachineStates /\ Good(sm) /\ Agrees(replica, sm)
    BY DEF IInv
  <1>2. CASE FileLoaded
    BY <1>1, <1>2, FileLoadedGood, FileLoadedTold, TakeIInv DEF FileLoaded
  <1>3. CASE LoadStarting
    <2>1. PICK id \in ItemIds \cup {NoItem} : Take(OnLoadStarting(sm, id))
      BY <1>3 DEF LoadStarting
    <2> QED
      BY <1>1, <2>1, LoadStartingGood, LoadStartingTold, TakeIInv
  <1>4. CASE PauseChanged
    <2>1. PICK paused \in BOOLEAN : Take(OnPauseChanged(sm, paused))
      BY <1>4 DEF PauseChanged
    <2> QED
      BY <1>1, <2>1, PauseChangedGood, PauseChangedTold, TakeIInv
  <1>5. CASE EndFile
    <2>1. PICK reason \in EndReasons : Take(OnEndFile(sm, reason))
      BY <1>5 DEF EndFile
    <2> QED
      BY <1>1, <2>1, EndFileGood, EndFileTold, TakeIInv
  <1>6. CASE SeekingChanged
    <2>1. PICK seeking \in BOOLEAN : Take(OnSeekingChanged(sm, seeking))
      BY <1>6 DEF SeekingChanged
    <2> QED
      BY <1>1, <2>1, SeekingChangedGood, SeekingChangedTold, TakeIInv
  <1>7. CASE PausedForCache
    <2>1. PICK pfc \in BOOLEAN : Take(OnPausedForCache(sm, pfc))
      BY <1>7 DEF PausedForCache
    <2> QED
      BY <1>1, <2>1, PausedForCacheGood, PausedForCacheTold, TakeIInv
  <1>8. CASE CoreIdle
    <2>1. PICK idle \in BOOLEAN : Take(OnCoreIdle(sm, idle))
      BY <1>8 DEF CoreIdle
    <2> QED
      BY <1>1, <2>1, CoreIdleGood, CoreIdleTold, TakeIInv
  <1>9. CASE Position
    <2>1. PICK pos \in Positions : Take(OnPosition(sm, pos))
      BY <1>9 DEF Position
    <2> QED
      BY <1>1, <2>1, PositionGood, PositionTold, TakeIInv
  <1>10. CASE MediaType
    <2>1. PICK ty \in MediaTypes : Take(OnMediaType(sm, ty))
      BY <1>10 DEF MediaType
    <2> QED
      BY <1>1, <2>1, MediaTypeGood, MediaTypeTold, TakeIInv
  <1>11. CASE VideoFrame
    <2>1. PICK available \in BOOLEAN : Take(OnVideoFrameAvailable(sm, available))
      BY <1>11 DEF VideoFrame
    <2> QED
      BY <1>1, <2>1, VideoFrameGood, VideoFrameTold, TakeIInv
  <1>12. CASE Scalar
    <2>1. PICK p \in ScalarProps, v \in ScalarValues : Take(OnScalar(sm, p, v))
      BY <1>12 DEF Scalar
    <2> QED
      BY <1>1, <2>1, ScalarGood, ScalarTold, TakeIInv
  <1>13. CASE Fullscreen
    <2>1. PICK f \in BOOLEAN, max \in BOOLEAN : Take(OnFullscreen(sm, f, max))
      BY <1>13 DEF Fullscreen
    <2> QED
      BY <1>1, <2>1, FullscreenGood, FullscreenTold, TakeIInv
  <1>14. CASE UNCHANGED vars
    BY <1>1, <1>14 DEF vars, IInv, Good, Agrees, Combined
  <1> QED
    BY <1>2, <1>3, <1>4, <1>5, <1>6, <1>7, <1>8, <1>9, <1>10, <1>11, <1>12, <1>13,
       <1>14 DEF Next

(* Every reachable state is good and agrees with every listening consumer. *)
THEOREM Inductive == Spec => []IInv
  BY InitIInv, NextIInv, PTL DEF Spec

(* The machine and its consumer stay in their types, whatever the order of *)
(* mpv's events and the web client's posts.                                *)
THEOREM TypeCorrect == Spec => []TypeOK
  <1>1. IInv => TypeOK
    BY DEF IInv, TypeOK, Agrees
  <1> QED
    BY <1>1, Inductive, PTL

(* on_end_file and the load handlers leave a stopped player absent, silent *)
(* and without an item.                                                    *)
THEOREM StoppedStaysQuiet == Spec => []StoppedIsQuiet
  <1>1. IInv => StoppedIsQuiet
    BY DEF IInv, StoppedIsQuiet, Good
  <1> QED
    BY <1>1, Inductive, PTL

(* A pending variant switch never outlives the track it is for. *)
THEOREM VariantSwitchBounded == Spec => []VariantSwitchIsBounded
  <1>1. IInv => VariantSwitchIsBounded
    BY DEF IInv, VariantSwitchIsBounded, Good
  <1> QED
    BY <1>1, Inductive, PTL

(* The spinner always has one of mpv's two stall causes behind it. *)
THEOREM SpinnerCaused == Spec => []SpinnerHasCause
  <1>1. IInv => SpinnerHasCause
    BY DEF IInv, SpinnerHasCause, Good
  <1> QED
    BY <1>1, Inductive, PTL

(* The phase never contradicts the last play request that was accepted. *)
THEOREM PhaseFollows == Spec => []PhaseFollowsRequest
  <1>1. IInv => PhaseFollowsRequest
    BY DEF IInv, PhaseFollowsRequest, Good
  <1> QED
    BY <1>1, Inductive, PTL

(* A consumer of the events alone knows the seek, the spinner and, but for *)
(* the swallowed end of an old file, the phase.                            *)
THEOREM EventsTell == Spec => []EventsTellTheState
  <1>1. IInv => EventsTellTheState
    BY DEF IInv, EventsTellTheState, Agrees
  <1> QED
    BY <1>1, Inductive, PTL

-----------------------------------------------------------------------------
(* The promotion of a load.                                                *)

PromotedReady(m, n) ==
  m.phase = "Starting" /\ n.phase = "Playing" =>
    n.pause_requested /\ ~n.buffering /\ ReadyToPlay(n)

(* Whatever follows the guard, promotion happens under it. *)
LEMMA PromoteIfReady ==
  ASSUME NEW m \in MachineStates, NEW n \in MachineStates, NEW ready \in BOOLEAN,
         NEW told, n.phase = m.phase, m.phase = "Starting" /\ ready => MayPromote(n)
  PROVE  PromotedReady(m, PromoteIf(ready, n, told).m)
  BY DEF PromotedReady, PromoteIf, Promote, Out, MayPromote, ReadyToPlay, MachineStates

LEMMA PauseChangedReady ==
  ASSUME NEW m \in MachineStates, NEW paused \in BOOLEAN
  PROVE  PromotedReady(m, OnPauseChanged(m, paused).m)
  <1> DEFINE asked == [m EXCEPT !.pause_requested = ~paused]
             ready == m.phase = "Paused" \/ MayPromote(asked)
             res   == OnPauseChanged(m, paused)
  <1>1. \/ res = Nothing(m)
        \/ res = Nothing(asked)
        \/ res.m = [asked EXCEPT !.phase = "Paused"]
        \/ res = PromoteIf(ready, asked, <<>>)
    BY DEF OnPauseChanged, Out
  <1>2. asked \in MachineStates /\ asked.phase = m.phase /\ ready \in BOOLEAN
    BY DEF MachineStates, MayPromote
  <1>3. PromotedReady(m, PromoteIf(ready, asked, <<>>).m)
    <2>1. m.phase = "Starting" /\ ready => MayPromote(asked)
      OBVIOUS
    <2> HIDE DEF asked, ready
    <2> QED
      BY <1>2, <2>1, PromoteIfReady
  <1>4. PromotedReady(m, Nothing(m).m) /\ PromotedReady(m, Nothing(asked).m)
    BY DEF PromotedReady, Nothing, Out, MachineStates
  <1>5. PromotedReady(m, [asked EXCEPT !.phase = "Paused"])
    BY DEF PromotedReady, MachineStates
  <1> HIDE DEF asked, ready, res
  <1>6. PromotedReady(m, res.m)
    BY <1>1, <1>3, <1>4, <1>5
  <1> QED
    BY <1>6 DEF res

LEMMA BufferingReady ==
  ASSUME NEW m \in MachineStates, NEW n \in MachineStates, n.phase = m.phase
  PROVE  PromotedReady(m, ApplyBufferingChange(n).m)
  <1> DEFINE now    == [n EXCEPT !.buffering = Combined(n)]
             told == <<FlagEvent("BufferingChanged", now.buffering)>>
  <1>1. \/ ApplyBufferingChange(n) = Nothing(n)
        \/ ApplyBufferingChange(n) = PromoteIf(MayPromote(now), now, told)
    BY DEF ApplyBufferingChange
  <1>2. now \in MachineStates /\ now.phase = m.phase /\ MayPromote(now) \in BOOLEAN
    BY DEF MachineStates, Combined, MayPromote
  <1>3. PromotedReady(m, Nothing(n).m)
    BY DEF PromotedReady, Nothing, Out, MachineStates
  <1> HIDE DEF now, told
  <1> QED
    BY <1>1, <1>2, <1>3, PromoteIfReady

(* The remaining handlers do not move a machine to Playing. *)
LEMMA OthersReady ==
  ASSUME NEW m \in MachineStates
  PROVE  /\ PromotedReady(m, OnFileLoaded(m).m)
         /\ \A id \in ItemIds \cup {NoItem} : PromotedReady(m, OnLoadStarting(m, id).m)
         /\ \A reason \in EndReasons : PromotedReady(m, OnEndFile(m, reason).m)
         /\ \A seeking \in BOOLEAN : PromotedReady(m, OnSeekingChanged(m, seeking).m)
         /\ \A pos \in Positions : PromotedReady(m, OnPosition(m, pos).m)
         /\ \A p \in ScalarProps, v \in ScalarValues : PromotedReady(m, OnScalar(m, p, v).m)
         /\ \A f, max \in BOOLEAN : PromotedReady(m, OnFullscreen(m, f, max).m)
  BY DEF PromotedReady, OnFileLoaded, OnLoadStarting, OnEndFile, EatenEnd,
            SurfacedEnd, OnSeekingChanged,
         OnPosition, OnScalar, OnFullscreen, Restarted, Nothing, Out, MachineStates

THEOREM PromotionIsReady == Spec => PromotedWhenReady
  <1>1. ASSUME sm \in MachineStates, Next PROVE PromotedReady(sm, sm')
    <2>1. CASE PauseChanged
      BY <1>1, <2>1, PauseChangedReady DEF PauseChanged, Take
    <2>2. CASE PausedForCache
      <3>1. PICK pfc \in BOOLEAN : sm' = OnPausedForCache(sm, pfc).m
        BY <2>2 DEF PausedForCache, Take
      <3> DEFINE now == [sm EXCEPT !.paused_for_cache = pfc]
      <3>2. now \in MachineStates /\ now.phase = sm.phase
        BY <1>1 DEF MachineStates
      <3>3. \/ sm' = Nothing(sm).m \/ sm' = Nothing(now).m
            \/ sm' = ApplyBufferingChange(now).m
        BY <3>1 DEF OnPausedForCache, StallChanged
      <3> HIDE DEF now
      <3>4. sm'.phase = sm.phase \/ sm' = ApplyBufferingChange(now).m
        BY <3>2, <3>3 DEF Nothing, Out
      <3> QED
        BY <1>1, <3>2, <3>4, BufferingReady DEF PromotedReady
    <2>3. CASE CoreIdle
      <3>1. PICK idle \in BOOLEAN : sm' = OnCoreIdle(sm, idle).m
        BY <2>3 DEF CoreIdle, Take
      <3> DEFINE now == [sm EXCEPT !.core_idle = idle]
      <3>2. now \in MachineStates /\ now.phase = sm.phase
        BY <1>1 DEF MachineStates
      <3>3. \/ sm' = Nothing(sm).m \/ sm' = Nothing(now).m
            \/ sm' = ApplyBufferingChange(now).m
        BY <3>1 DEF OnCoreIdle, StallChanged
      <3> HIDE DEF now
      <3>4. sm'.phase = sm.phase \/ sm' = ApplyBufferingChange(now).m
        BY <3>2, <3>3 DEF Nothing, Out
      <3> QED
        BY <1>1, <3>2, <3>4, BufferingReady DEF PromotedReady
    <2>4. CASE MediaType
      <3>1. PICK ty \in MediaTypes : sm' = OnMediaType(sm, ty).m
        BY <2>4 DEF MediaType, Take
      <3> DEFINE now    == [sm EXCEPT !.media_type = ty]
                 told == <<Event("MediaTypeChanged")>>
      <3>2. now \in MachineStates /\ now.phase = sm.phase /\ MayPromote(now) \in BOOLEAN
        BY <1>1 DEF MachineStates, MayPromote
      <3>3. sm' = Nothing(sm).m \/ sm' = PromoteIf(MayPromote(now), now, told).m
        BY <3>1 DEF OnMediaType
      <3> HIDE DEF now, told
      <3>4. sm'.phase = sm.phase \/ sm' = PromoteIf(MayPromote(now), now, told).m
        BY <3>3 DEF Nothing, Out
      <3> QED
        BY <1>1, <3>2, <3>4, PromoteIfReady DEF PromotedReady
    <2>5. CASE VideoFrame
      <3>1. PICK available \in BOOLEAN : sm' = OnVideoFrameAvailable(sm, available).m
        BY <2>5 DEF VideoFrame, Take
      <3> DEFINE now   == [sm EXCEPT !.frame_available = available]
                 ready == available /\ ~sm.frame_available /\ MayPromote(now)
      <3>2. now \in MachineStates /\ now.phase = sm.phase /\ ready \in BOOLEAN
            /\ (ready => MayPromote(now))
        BY <1>1 DEF MachineStates, MayPromote
      <3>3. sm' = PromoteIf(ready, now, <<>>).m
        BY <3>1 DEF OnVideoFrameAvailable
      <3> HIDE DEF now, ready
      <3> QED
        BY <1>1, <3>2, <3>3, PromoteIfReady
    <2>6. CASE \/ FileLoaded \/ LoadStarting \/ EndFile \/ SeekingChanged
               \/ Position \/ Scalar \/ Fullscreen
      BY <1>1, <2>6, OthersReady
         DEF FileLoaded, LoadStarting, EndFile, SeekingChanged, Position, Scalar,
             Fullscreen, Take
    <2> QED
      BY <1>1, <2>1, <2>2, <2>3, <2>4, <2>5, <2>6 DEF Next
  <1>2. IInv /\ [Next]_vars =>
          [sm.phase = "Starting" /\ sm'.phase = "Playing" =>
             sm'.pause_requested /\ ~sm'.buffering /\ ReadyToPlay(sm')]_vars
    BY <1>1 DEF IInv, PromotedReady, vars
  <1> QED
    BY <1>2, Inductive, PTL DEF Spec, PromotedWhenReady

-----------------------------------------------------------------------------
(* TrackSwitch: what is under way, and in which order.                      *)

FileEvents ==
  [kind : {"FileLoaded"}, arg : {0}, load : Nat]
    \cup [kind : {"EndFile"}, arg : EndReasons, load : Nat]

Posts ==
  FileEvents \cup [kind : {"LoadStarting"}, arg : {NoItem}, load : Nat]
    \cup [kind : {"PauseChanged"}, arg : BOOLEAN, load : {0}]

Commands == [op : {"loadfile", "stop", "play", "pause", "select"}, load : Nat]

Messages(s) == {s[i] : i \in 1 .. Len(s)}

(* The pairs of which the first stands before the second. *)
Order(s) ==
  {p \in Messages(s) \X Messages(s) :
     \E i, j \in 1 .. Len(s) : i < j /\ p = <<s[i], s[j]>>}

(* What mpv told and the worker has not yet applied, and what mpv has yet to *)
(* execute.                                                                  *)
Sent      == Messages(queue) \cup Messages(events)
SentOrder == Order(queue) \cup Order(events) \cup (Messages(queue) \X Messages(events))

Pending      == Messages(cmds)
PendingOrder == Order(cmds)

IsEnd(e)    == e.kind = "EndFile"
IsOpen(e)   == e.kind = "FileLoaded"
IsStart(e)  == e.kind = "LoadStarting"
IsPause(e)  == e.kind = "PauseChanged"
IsLoad(c)   == c.op = "loadfile"
OfFile(e)   == IsOpen(e) \/ IsEnd(e)

Unheard == \A e \in Sent : ~IsOpen(e)

Calls == {"load", "stop", "play", "pause"}

PageTypes ==
  [step : {"idle", "posted", "stashed"}, load : Nat, lost : BOOLEAN, presses : Nat,
   early : SUBSET Calls]

WorkerTypes == [left : Nat, todo : Nat, step : {"idle", "select", "play"}, load : Nat]

MpvTypes ==
  [file : Nat, stage : {"none", "loading", "loaded"}, pause : BOOLEAN, selected : Nat]

SwitchTypes ==
  /\ page \in PageTypes
  /\ slot \in Nat
  /\ cmds \in Seq(Commands)
  /\ mpv \in MpvTypes /\ (mpv.file = 0 <=> mpv.stage = "none")
  /\ events \in Seq(FileEvents)
  /\ reported \in BOOLEAN
  /\ queue \in Seq(Posts)
  /\ worker \in WorkerTypes /\ worker.left <= Len(queue)
  /\ past \in [current : Nat, opened : Nat, settled : Nat]

(* No seek, no stall and no video reach the machine. *)
Plain(m) ==
  /\ m \in MachineStates /\ Good(m)
  /\ m.media_type = "Unknown" /\ ~m.seeking /\ ~m.buffering
  /\ ~m.paused_for_cache /\ ~m.core_idle

-----------------------------------------------------------------------------
(* What holds whatever the page does.                                       *)

Bounds ==
  /\ page.step # "idle" \/ page.lost => page.load > 0
  /\ past.settled <= past.current /\ past.current <= page.load
  /\ past.opened <= page.load /\ mpv.file <= page.load
  /\ \A c \in Pending : IsLoad(c) => c.load > 0 /\ c.load <= page.load
  /\ \A e \in Sent : e.load <= page.load
  /\ \A e \in Sent : IsStart(e) => e.load > past.current

(* A load is announced before anything is told of its file. *)
Announced ==
  /\ past.current < page.load => \E e \in Sent : IsStart(e) /\ e.load = page.load
  /\ \A a, b : <<a, b>> \in SentOrder /\ IsStart(b) => a.load < b.load

(* The last pause told is the one reported, and what the machine shows. *)
LastPause(s, value) ==
  \A i \in 1 .. Len(s) :
    IsPause(s[i]) /\ (\A j \in 1 .. Len(s) : j > i => ~IsPause(s[j])) => s[i].arg = value

PauseTold ==
  /\ LastPause(queue, reported)
  /\ (\A e \in Sent : ~IsPause(e)) =>
       /\ machine.phase = "Playing" => ~reported
       /\ machine.phase = "Paused" => reported

Basics == SwitchTypes /\ Plain(machine) /\ Bounds /\ Announced /\ PauseTold

-----------------------------------------------------------------------------
(* What holds of loads that do not overlap: how far the last one has come,   *)
(* and what of the file before it is still under way.                        *)

Single == "load" \notin page.early

(* mpv knows the load issued last. *)
Reached == page.step = "idle" /\ ~page.lost /\ \A c \in Pending : ~IsLoad(c)

(* One loadfile at a time, and only early stops after it. *)
Sending ==
  /\ page.step # "idle" => ~page.lost
  /\ \A c \in Pending : IsLoad(c) => c.load = page.load /\ page.step = "idle" /\ ~page.lost
  /\ \A c, d : <<c, d>> \in PendingOrder /\ IsLoad(c) =>
       ~IsLoad(d) /\ (d.op = "stop" => "stop" \in page.early)

Unsent ==
  ~Reached =>
    /\ mpv.stage # "loading" /\ mpv.file < page.load
    /\ past.opened < page.load /\ past.settled # page.load
    /\ \A e \in Sent : ~IsOpen(e) /\ (IsEnd(e) => e.load < page.load)

Begun ==
  /\ Reached => mpv.file \in {0, page.load}
  /\ Reached /\ mpv.stage = "loading" =>
       /\ Unheard /\ past.opened < page.load /\ past.settled # page.load
       /\ \A c \in Pending : c.op = "stop" => "stop" \in page.early
  /\ Reached /\ mpv.stage = "loaded" => past.opened = page.load \/ ~Unheard
  /\ \A e \in Sent : IsOpen(e) =>
       e.load = page.load /\ past.opened < page.load /\ past.settled # page.load

(* The end of the file before, the opening of the last, its end. *)
Rank(e) == IF IsOpen(e) THEN 2 ELSE IF e.load = page.load THEN 3 ELSE 1

InTurn ==
  /\ \A a, b : <<a, b>> \in SentOrder /\ OfFile(a) /\ OfFile(b) => Rank(a) < Rank(b)
  /\ mpv.file # 0 =>
       \A e \in Sent : IsEnd(e) => e.load < page.load /\ mpv.file = page.load

Over ==
  /\ past.opened = page.load \/ past.settled = page.load =>
       past.current = page.load /\ \A e \in Sent : IsEnd(e) => e.load = page.load
  /\ past.opened = page.load => Unheard /\ ~machine.pending_load

(* The machine expects the end of a file that the announced load replaces,   *)
(* or is told of a load before it.                                           *)
Expected ==
  /\ mpv.file # 0 /\ mpv.file < past.current =>
       machine.pending_load \/ \E s \in Sent : IsStart(s)
  /\ \A e \in Sent : IsEnd(e) /\ e.load < past.current =>
       machine.pending_load \/ \E s \in Sent : IsStart(s) /\ <<s, e>> \in SentOrder

(* A file that did not fail to open, nor was stopped, ends after it opened. *)
OpenBeforeEnd ==
  \A e \in Sent : IsEnd(e) /\ e.load = page.load /\ e.arg # "Error" =>
    past.opened = page.load \/ ~Unheard \/ "stop" \in page.early

StopShown ==
  machine.phase = "Stopped" \/ ("stop" \in page.early /\ past.opened # page.load)

Shown ==
  /\ past.opened = page.load /\ mpv.file # 0 => machine.phase # "Stopped"
  /\ Reached /\ mpv.file = 0 =>
       \/ \E e \in Sent : IsEnd(e) /\ e.load = page.load
       \/ past.current = page.load /\ (\A e \in Sent : ~OfFile(e)) /\ StopShown

Flow == Sending /\ Unsent /\ Begun /\ InTurn /\ Over /\ Expected /\ OpenBeforeEnd /\ Shown

-----------------------------------------------------------------------------
(* Where the selection of the last load is, if besides no play came early.   *)

Idle == worker.todo = 0 /\ worker.step = "idle"

(* A pause does no harm, nor does an early stop: it ends the file. *)
Hush(c) == c.op = "pause" \/ (c.op = "stop" /\ "stop" \in page.early)
Hushed  == \A c \in Pending : Hush(c)

Resumes(e) == IsPause(e) /\ ~e.arg

Selection == Command("select", page.load)

(* mpv has yet to load its file ... *)
Waiting ==
  /\ Idle /\ ~Reached
  /\ page.step = "stashed" \/ (page.step = "idle" /\ ~page.lost) => slot = page.load
  /\ \A c \in Pending : c.op # "select"
  /\ \A c, d : <<c, d>> \in PendingOrder /\ IsLoad(c) => Hush(d)

(* ... loads it, or opened it and told so ... *)
Held == Reached /\ mpv.file = page.load /\ mpv.file # 0 /\ mpv.pause

Opening ==
  /\ Held /\ mpv.selected = 0 /\ Idle /\ slot = page.load /\ past.opened # page.load /\ Hushed
  /\ \A a, b : <<a, b>> \in SentOrder /\ IsOpen(a) => ~Resumes(b)

(* ... the worker applied that and has yet to take the selection, to write   *)
(* it, to write the play that follows ...                                    *)
Opened ==
  /\ Held /\ mpv.stage = "loaded" /\ past.opened = page.load /\ past.settled # page.load
  /\ \A e \in Sent : ~Resumes(e)

Due ==
  /\ Opened /\ Hushed /\ mpv.selected = 0
  /\ slot = page.load /\ worker.todo = 1 /\ worker.step = "idle"

Taken ==
  /\ Opened /\ Hushed /\ mpv.selected = 0
  /\ worker.todo = 0 /\ worker.step = "select" /\ worker.load = page.load

Written ==
  /\ Opened /\ mpv.selected = 0 /\ worker.todo = 0 /\ worker.step \in {"play", "idle"}
  /\ Selection \in Pending
  /\ \A c \in Pending :
       Hush(c) \/ c = Selection \/ (c.op = "play" /\ worker.step = "idle")
  /\ \A c, d : <<c, d>> \in PendingOrder /\ d.op = "select" => Hush(c)

Selected ==
  /\ Opened /\ Hushed /\ mpv.selected = page.load /\ worker.todo = 0 /\ worker.step = "play"

(* ... the file has its selection, or failed ... *)
Done ==
  /\ Reached /\ Idle /\ Unheard /\ mpv.stage # "loading"
  /\ mpv.file # 0 => mpv.selected = page.load
  /\ \A c \in Pending : c.op # "select"

(* ... or an early stop ended it. *)
Gone == Reached /\ mpv.file = 0 /\ "stop" \in page.early

Stage ==
  Waiting \/ Opening \/ Due \/ Taken \/ Written \/ Selected \/ Done \/ Gone

Clear == "load" \notin page.early /\ "play" \notin page.early

SwitchInv == Basics /\ (Single => Flow) /\ (Clear => Stage)

-----------------------------------------------------------------------------
(* The four inputs of TrackSwitch on a plain machine.                       *)

(* Both load handlers restart a plain machine. *)
LEMMA RestartedPlain ==
  ASSUME NEW m, Plain(m)
  PROVE  /\ Restarted(m) \in MachineStates
         /\ Restarted(m).phase = "Starting" /\ Restarted(m).media_type = "Unknown"
         /\ ~Restarted(m).seeking /\ ~Restarted(m).buffering
         /\ ~Restarted(m).paused_for_cache /\ ~Restarted(m).core_idle
  <1>1. m \in MachineStates /\ Combined(m) = FALSE
    BY DEF Plain, Combined, MachineStates
  <1>2. Restarted(m) \in MachineStates
    BY <1>1, RestartedType
  <1> QED
    BY <1>1, <1>2 DEF Restarted, Plain, MachineStates

LEMMA LoadStartingApplied ==
  ASSUME NEW m, Plain(m), NEW e \in Posts, e.kind = "LoadStarting"
  PROVE  /\ Plain(Apply(m, e).m) /\ Apply(m, e).m.phase = "Starting"
         /\ Apply(m, e).m.pending_load /\ Apply(m, e).actions = <<>>
  <1> DEFINE base == Restarted(m)
             now  == OnLoadStarting(m, NoItem).m
  <1>1. e.arg = NoItem
    BY DEF Posts, FileEvents
  <1>2. Apply(m, e) = OnLoadStarting(m, NoItem)
    BY <1>1 DEF Apply
  <1>3. now \in MachineStates /\ Good(now)
    BY LoadStartingGood DEF Plain
  <1>4. now = [base EXCEPT !.pending_load = TRUE, !.variant_switch_pending = FALSE,
                           !.last_known_item_id = m.last_known_item_id]
    <2>1. base.last_known_item_id = m.last_known_item_id
      BY DEF Plain, Restarted, MachineStates
    <2> QED
      BY <2>1 DEF OnLoadStarting, Out
  <1>5. OnLoadStarting(m, NoItem).actions = <<>>
    BY DEF OnLoadStarting, Out
  <1>6. /\ base \in MachineStates /\ base.phase = "Starting" /\ base.media_type = "Unknown"
        /\ ~base.seeking /\ ~base.buffering /\ ~base.paused_for_cache /\ ~base.core_idle
    BY RestartedPlain
  <1> HIDE DEF base, now
  <1>7. /\ now.phase = "Starting" /\ now.media_type = "Unknown" /\ now.pending_load
        /\ ~now.seeking /\ ~now.buffering /\ ~now.paused_for_cache /\ ~now.core_idle
    BY <1>4, <1>6 DEF MachineStates
  <1> QED
    BY <1>2, <1>3, <1>5, <1>7 DEF Plain, now

LEMMA FileLoadedApplied ==
  ASSUME NEW m, Plain(m), NEW e \in Posts, e.kind = "FileLoaded"
  PROVE  /\ Plain(Apply(m, e).m) /\ Apply(m, e).m.phase = "Starting"
         /\ ~Apply(m, e).m.pending_load /\ Len(Apply(m, e).actions) = 1
  <1> DEFINE base == Restarted(m)
             now  == OnFileLoaded(m).m
  <1>1. Apply(m, e) = OnFileLoaded(m)
    BY DEF Apply
  <1>2. now \in MachineStates /\ Good(now)
    BY FileLoadedGood DEF Plain
  <1>3. now = [base EXCEPT !.pending_load = FALSE] /\ Len(OnFileLoaded(m).actions) = 1
    BY DEF OnFileLoaded
  <1>4. /\ base \in MachineStates /\ base.phase = "Starting" /\ base.media_type = "Unknown"
        /\ ~base.seeking /\ ~base.buffering /\ ~base.paused_for_cache /\ ~base.core_idle
    BY RestartedPlain
  <1> HIDE DEF base, now
  <1>5. /\ now.phase = "Starting" /\ now.media_type = "Unknown" /\ ~now.pending_load
        /\ ~now.seeking /\ ~now.buffering /\ ~now.paused_for_cache /\ ~now.core_idle
    BY <1>3, <1>4 DEF MachineStates
  <1> QED
    BY <1>1, <1>2, <1>3, <1>5 DEF Plain, now

(* A pause is shown at once, and so is its end, for nothing else is awaited. *)
LEMMA PauseAccepted ==
  ASSUME NEW m, Plain(m), NEW paused \in BOOLEAN, NEW r, r = OnPauseChanged(m, paused)
  PROVE  /\ Plain(r.m) /\ r.actions = <<>> /\ r.m.pending_load = m.pending_load
         /\ m.phase = "Stopped" => r.m.phase = "Stopped"
         /\ m.phase # "Stopped" /\ paused => r.m.phase = "Paused"
         /\ m.phase # "Stopped" /\ ~paused => r.m.phase = "Playing"
         /\ ~Announces(r, TerminalKinds)
         /\ paused => ~Announces(r, {"Started"})
  <1> DEFINE asked == [m EXCEPT !.pause_requested = ~paused]
             idle  == m.presence = "None" \/ m.phase = "Stopped"
             ready == m.phase = "Paused" \/ MayPromote(asked)
  <1>1. r.m \in MachineStates /\ Good(r.m)
    BY PauseChangedGood DEF Plain
  <1>2. /\ m \in MachineStates /\ m.phase \in Phases
        /\ m.presence = "None" <=> m.phase = "Stopped"
    BY DEF Plain, Good, MachineStates
  <1>3. /\ asked \in MachineStates /\ asked.phase = m.phase /\ asked.pending_load = m.pending_load
        /\ asked.pause_requested = ~paused
        /\ asked.media_type = "Unknown" /\ ~asked.seeking /\ ~asked.buffering
        /\ ~asked.paused_for_cache /\ ~asked.core_idle
    BY <1>2 DEF Plain, MachineStates
  <1>4. CASE m.phase = "Stopped"
    <2>1. r = Nothing(m)
      BY <1>4 DEF OnPauseChanged
    <2> QED
      BY <1>4, <2>1 DEF Announces, Nothing, Out
  <1>5. CASE m.phase = "Paused" /\ paused
    <2>1. ~idle
      BY <1>2, <1>5
    <2>2. r = Nothing(asked)
      BY <1>5, <2>1 DEF OnPauseChanged
    <2> HIDE DEF asked
    <2>3. r.m = asked /\ r.events = <<>> /\ r.actions = <<>>
      BY <2>2 DEF Nothing, Out
    <2>4. ~Announces(r, TerminalKinds) /\ ~Announces(r, {"Started"})
      BY <2>3 DEF Announces
    <2>5. Plain(r.m) /\ r.m.pending_load = m.pending_load /\ r.m.phase = "Paused"
      BY <1>1, <1>3, <1>5, <2>3 DEF Plain
    <2> QED
      BY <1>5, <2>3, <2>4, <2>5
  <1>6. CASE m.phase \in {"Starting", "Playing"} /\ paused
    <2>1. ~idle /\ m.phase # "Paused"
      BY <1>2, <1>6
    <2>2. /\ r.m = [asked EXCEPT !.phase = "Paused"]
          /\ r.events = <<Event("Paused")>> /\ r.actions = <<>>
      BY <1>6, <2>1 DEF OnPauseChanged, Out
    <2> HIDE DEF asked
    <2>3. /\ r.m.phase = "Paused" /\ r.m.pending_load = m.pending_load
          /\ r.m.media_type = "Unknown" /\ ~r.m.seeking /\ ~r.m.buffering
          /\ ~r.m.paused_for_cache /\ ~r.m.core_idle
      BY <1>3, <2>2 DEF MachineStates
    <2>4. ~Announces(r, TerminalKinds) /\ ~Announces(r, {"Started"})
      BY <2>2 DEF Announces, Event, TerminalKinds
    <2> QED
      BY <1>1, <1>6, <2>2, <2>3, <2>4 DEF Plain
  <1>7. CASE m.phase # "Stopped" /\ ~paused
    <2>1. ~idle
      BY <1>2, <1>7
    <2>2. r = PromoteIf(ready, asked, <<>>)
      BY <1>7, <2>1 DEF OnPauseChanged
    <2>3. m.phase = "Starting" => MayPromote(asked)
      BY <1>3, <1>7 DEF MayPromote, ReadyToPlay
    <2> HIDE DEF asked
    <2>4. CASE m.phase \in {"Paused", "Starting"}
      <3>1. /\ r.m = [asked EXCEPT !.phase = "Playing", !.variant_switch_pending = FALSE]
            /\ r.events = <<Event("Started")>> /\ r.actions = <<>>
        BY <2>2, <2>3, <2>4 DEF PromoteIf, Promote, Out
      <3>2. /\ r.m.phase = "Playing" /\ r.m.pending_load = m.pending_load
            /\ r.m.media_type = "Unknown" /\ ~r.m.seeking /\ ~r.m.buffering
            /\ ~r.m.paused_for_cache /\ ~r.m.core_idle
        BY <1>3, <3>1 DEF MachineStates
      <3>3. ~Announces(r, TerminalKinds)
        BY <3>1 DEF Announces, Event, TerminalKinds
      <3> QED
        BY <1>1, <1>7, <3>1, <3>2, <3>3 DEF Plain
    <2>5. CASE m.phase = "Playing"
      <3>1. r.m = asked /\ r.events = <<>> /\ r.actions = <<>>
        BY <1>3, <2>2, <2>5 DEF PromoteIf, Out, MayPromote
      <3> QED
        BY <1>1, <1>3, <1>7, <2>5, <3>1 DEF Announces, Plain
    <2> QED
      BY <1>2, <1>7, <2>4, <2>5 DEF Phases
  <1> QED
    BY <1>2, <1>4, <1>5, <1>6, <1>7 DEF Phases

LEMMA PauseApplied ==
  ASSUME NEW m, Plain(m), NEW e \in Posts, e.kind = "PauseChanged"
  PROVE  /\ Plain(Apply(m, e).m) /\ Apply(m, e).actions = <<>>
         /\ Apply(m, e).m.pending_load = m.pending_load
         /\ m.phase = "Stopped" => Apply(m, e).m.phase = "Stopped"
         /\ m.phase # "Stopped" /\ e.arg => Apply(m, e).m.phase = "Paused"
         /\ m.phase # "Stopped" /\ ~e.arg => Apply(m, e).m.phase = "Playing"
         /\ ~Announces(Apply(m, e), TerminalKinds)
         /\ e.arg => ~Announces(Apply(m, e), {"Started"})
  <1>1. e.arg \in BOOLEAN
    BY DEF Posts, FileEvents
  <1>2. Apply(m, e) = OnPauseChanged(m, e.arg)
    BY DEF Apply
  <1> QED
    BY <1>1, <1>2, PauseAccepted

LEMMA EndApplied ==
  ASSUME NEW m, Plain(m), NEW e \in Posts, IsEnd(e)
  PROVE  /\ Plain(Apply(m, e).m) /\ Apply(m, e).actions = <<>>
         /\ ~Apply(m, e).m.pending_load
         /\ ~Announces(Apply(m, e), {"Started"})
         /\ IF m.pending_load /\ e.arg # "Error" THEN Apply(m, e).m.phase = "Starting"
            ELSE Apply(m, e).m.phase = "Stopped"
  <1> DEFINE r == OnEndFile(m, e.arg)
  <1>1. e.arg \in EndReasons
    BY DEF Posts, FileEvents, IsEnd
  <1>2. Apply(m, e) = r
    BY DEF Apply, IsEnd
  <1>3. r.m \in MachineStates /\ Good(r.m)
    BY <1>1, EndFileGood DEF Plain
  <1>4. ClearedEvents(m) = <<>>
    BY DEF ClearedEvents, AppendIf, Plain
  <1>5. /\ m \in MachineStates /\ m.media_type = "Unknown"
        /\ ~m.paused_for_cache /\ ~m.core_idle
    BY DEF Plain
  <1>6. CASE m.pending_load /\ e.arg # "Error"
    <2>1. r = EatenEnd(m)
      BY <1>6 DEF OnEndFile
    <2>2. /\ r.m = [m EXCEPT !.seeking = FALSE, !.buffering = FALSE, !.pending_load = FALSE,
                             !.presence = "Present", !.phase = "Starting"]
          /\ r.events = <<>> /\ r.actions = <<>>
      BY <1>4, <2>1 DEF EatenEnd, Out
    <2> HIDE DEF r
    <2>3. /\ r.m.phase = "Starting" /\ ~r.m.pending_load
          /\ r.m.media_type = "Unknown" /\ ~r.m.seeking /\ ~r.m.buffering
          /\ ~r.m.paused_for_cache /\ ~r.m.core_idle
      BY <1>5, <2>2 DEF MachineStates
    <2> QED
      BY <1>2, <1>3, <1>6, <2>2, <2>3 DEF Plain, Announces
  <1>7. CASE ~(m.pending_load /\ e.arg # "Error")
    <2>1. r = SurfacedEnd(m, e.arg)
      BY <1>7 DEF OnEndFile
    <2>2. /\ r.m = [m EXCEPT !.seeking = FALSE, !.buffering = FALSE, !.pending_load = FALSE,
                             !.presence = "None", !.phase = "Stopped", !.pause_requested = FALSE,
                             !.position_us = 0, !.variant_switch_pending = FALSE,
                             !.last_known_item_id = NoItem]
          /\ r.events = <<Event(TerminalKind(e.arg))>> /\ r.actions = <<>>
      BY <1>4, <2>1 DEF SurfacedEnd, Out
    <2> HIDE DEF r
    <2>3. /\ r.m.phase = "Stopped" /\ ~r.m.pending_load
          /\ r.m.media_type = "Unknown" /\ ~r.m.seeking /\ ~r.m.buffering
          /\ ~r.m.paused_for_cache /\ ~r.m.core_idle
      BY <1>5, <2>2 DEF MachineStates
    <2>4. ~Announces(r, {"Started"})
      BY <2>2 DEF Announces, Event, TerminalKind
    <2> QED
      BY <1>2, <1>3, <1>7, <2>2, <2>3, <2>4 DEF Plain
  <1> QED
    BY <1>6, <1>7

-----------------------------------------------------------------------------
(* Sequences.                                                               *)

LEMMA Appended ==
  ASSUME NEW S, NEW s \in Seq(S), NEW e \in S
  PROVE  /\ Append(s, e) \in Seq(S)
         /\ Messages(Append(s, e)) = Messages(s) \cup {e}
         /\ Order(Append(s, e)) = Order(s) \cup (Messages(s) \X {e})
  <1> DEFINE t == Append(s, e)
  <1>1. /\ t \in Seq(S) /\ Len(s) \in Nat /\ Len(t) = Len(s) + 1
        /\ \A i \in 1 .. Len(s) : t[i] = s[i]
        /\ t[Len(s) + 1] = e
    OBVIOUS
  <1> HIDE DEF t
  <1>2. \A i \in 1 .. Len(t) : i \in 1 .. Len(s) \/ i = Len(s) + 1
    BY <1>1
  <1>3. 1 .. Len(s) \subseteq 1 .. Len(t) /\ Len(s) + 1 \in 1 .. Len(t)
    BY <1>1
  <1>4. Messages(t) = Messages(s) \cup {e}
    BY <1>1, <1>2, <1>3 DEF Messages
  <1>5. Order(t) \subseteq Order(s) \cup (Messages(s) \X {e})
    <2> SUFFICES ASSUME NEW i \in 1 .. Len(t), NEW j \in 1 .. Len(t), i < j
                 PROVE  <<t[i], t[j]>> \in Order(s) \cup (Messages(s) \X {e})
      BY DEF Order
    <2>1. i \in 1 .. Len(s) /\ t[i] = s[i] /\ s[i] \in Messages(s)
      BY <1>1, <1>2 DEF Messages
    <2>2. CASE j \in 1 .. Len(s)
      BY <1>1, <2>1, <2>2 DEF Order, Messages
    <2>3. CASE j = Len(s) + 1
      BY <1>1, <2>1, <2>3
    <2> QED
      BY <1>2, <2>2, <2>3
  <1>6. Order(s) \subseteq Order(t)
    BY <1>1, <1>3 DEF Order, Messages
  <1>7. Messages(s) \X {e} \subseteq Order(t)
    <2> SUFFICES ASSUME NEW i \in 1 .. Len(s)
                 PROVE  <<s[i], e>> \in Order(t)
      BY DEF Messages
    <2>1. i < Len(s) + 1 /\ t[i] = s[i] /\ t[Len(s) + 1] = e
      BY <1>1
    <2>2. s[i] \in Messages(t) /\ e \in Messages(t)
      BY <1>4 DEF Messages
    <2> QED
      BY <1>3, <2>1, <2>2 DEF Order
  <1> QED
    BY <1>1, <1>4, <1>5, <1>6, <1>7 DEF t

LEMMA HeadTaken ==
  ASSUME NEW S, NEW s \in Seq(S), s # <<>>
  PROVE  /\ Tail(s) \in Seq(S) /\ Head(s) \in S
         /\ Len(s) \in Nat /\ Len(s) > 0 /\ Len(Tail(s)) = Len(s) - 1
         /\ Messages(s) = {Head(s)} \cup Messages(Tail(s))
         /\ Order(s) = Order(Tail(s)) \cup ({Head(s)} \X Messages(Tail(s)))
  <1> DEFINE t == Tail(s)
             h == Head(s)
  <1>1. /\ t \in Seq(S) /\ Len(s) \in Nat /\ Len(s) > 0 /\ h \in S /\ h = s[1]
        /\ Len(t) = Len(s) - 1
        /\ \A i \in 1 .. Len(t) : i + 1 \in 1 .. Len(s) /\ t[i] = s[i + 1]
    OBVIOUS
  <1> HIDE DEF t, h
  <1>2. \A i \in 1 .. Len(s) : i # 1 => i - 1 \in 1 .. Len(t) /\ s[i] = t[i - 1]
    <2> SUFFICES ASSUME NEW i \in 1 .. Len(s), i # 1
                 PROVE  i - 1 \in 1 .. Len(t) /\ s[i] = t[i - 1]
      OBVIOUS
    <2>1. i - 1 \in 1 .. Len(t) /\ (i - 1) + 1 = i
      BY <1>1
    <2> QED
      BY <1>1, <2>1
  <1>3. Messages(s) \subseteq {h} \cup Messages(t)
    <2> SUFFICES ASSUME NEW i \in 1 .. Len(s)
                 PROVE  s[i] \in {h} \cup Messages(t)
      BY DEF Messages
    <2> QED
      BY <1>1, <1>2 DEF Messages
  <1>4. {h} \cup Messages(t) \subseteq Messages(s)
    <2>1. 1 \in 1 .. Len(s)
      BY <1>1
    <2> QED
      BY <1>1, <2>1 DEF Messages
  <1>5. Order(s) \subseteq Order(t) \cup ({h} \X Messages(t))
    <2> SUFFICES ASSUME NEW i \in 1 .. Len(s), NEW j \in 1 .. Len(s), i < j
                 PROVE  <<s[i], s[j]>> \in Order(t) \cup ({h} \X Messages(t))
      BY DEF Order
    <2>1. j # 1 /\ j - 1 \in 1 .. Len(t) /\ s[j] = t[j - 1] /\ s[j] \in Messages(t)
      BY <1>2 DEF Messages
    <2>2. CASE i = 1
      BY <1>1, <2>1, <2>2
    <2>3. CASE i # 1
      <3>1. i - 1 \in 1 .. Len(t) /\ s[i] = t[i - 1] /\ i - 1 < j - 1
        BY <1>2, <2>3
      <3> QED
        BY <2>1, <3>1 DEF Order, Messages
    <2> QED
      BY <2>2, <2>3
  <1>6. Order(t) \subseteq Order(s)
    <2> SUFFICES ASSUME NEW i \in 1 .. Len(t), NEW j \in 1 .. Len(t), i < j
                 PROVE  <<t[i], t[j]>> \in Order(s)
      BY DEF Order
    <2>1. /\ i + 1 \in 1 .. Len(s) /\ j + 1 \in 1 .. Len(s) /\ i + 1 < j + 1
          /\ t[i] = s[i + 1] /\ t[j] = s[j + 1]
      BY <1>1
    <2> QED
      BY <2>1 DEF Order, Messages
  <1>7. {h} \X Messages(t) \subseteq Order(s)
    <2> SUFFICES ASSUME NEW j \in 1 .. Len(t)
                 PROVE  <<h, t[j]>> \in Order(s)
      BY DEF Messages
    <2>1. /\ 1 \in 1 .. Len(s) /\ j + 1 \in 1 .. Len(s) /\ 1 < j + 1
          /\ h = s[1] /\ t[j] = s[j + 1]
      BY <1>1
    <2> QED
      BY <2>1 DEF Order, Messages
  <1> QED
    BY <1>1, <1>3, <1>4, <1>5, <1>6, <1>7 DEF t, h

(* The last pause told, as the queue grows and is taken from. *)
LEMMA LastPauseAppended ==
  ASSUME NEW S, NEW s \in Seq(S), NEW e \in S, NEW value,
         IF IsPause(e) THEN e.arg = value ELSE LastPause(s, value)
  PROVE  LastPause(Append(s, e), value)
  <1> DEFINE t == Append(s, e)
  <1>1. /\ Len(s) \in Nat /\ Len(t) = Len(s) + 1 /\ t[Len(s) + 1] = e
        /\ \A i \in 1 .. Len(s) : t[i] = s[i]
    OBVIOUS
  <1> HIDE DEF t
  <1>2. \A i \in 1 .. Len(t) : i \in 1 .. Len(s) \/ i = Len(s) + 1
    BY <1>1
  <1> SUFFICES ASSUME NEW i \in 1 .. Len(t), IsPause(t[i]),
                      \A j \in 1 .. Len(t) : j > i => ~IsPause(t[j])
               PROVE  t[i].arg = value
    BY DEF LastPause, t
  <1>3. CASE i = Len(s) + 1
    BY <1>1, <1>3
  <1>4. CASE i \in 1 .. Len(s)
    <2>1. Len(s) + 1 \in 1 .. Len(t) /\ Len(s) + 1 > i
      BY <1>1, <1>4
    <2>2. ~IsPause(e)
      BY <1>1, <2>1
    <2>3. \A j \in 1 .. Len(s) : j \in 1 .. Len(t) /\ t[j] = s[j]
      BY <1>1
    <2> QED
      BY <1>4, <2>2, <2>3 DEF LastPause
  <1> QED
    BY <1>2, <1>3, <1>4

LEMMA LastPauseTaken ==
  ASSUME NEW S, NEW s \in Seq(S), s # <<>>, NEW value, LastPause(s, value)
  PROVE  /\ LastPause(Tail(s), value)
         /\ IsPause(Head(s)) /\ (\A e \in Messages(Tail(s)) : ~IsPause(e)) =>
              Head(s).arg = value
  <1> DEFINE t == Tail(s)
  <1>1. /\ Len(s) \in Nat /\ Len(s) > 0 /\ Head(s) = s[1] /\ Len(t) = Len(s) - 1
        /\ \A i \in 1 .. Len(t) : i + 1 \in 1 .. Len(s) /\ t[i] = s[i + 1]
    OBVIOUS
  <1> HIDE DEF t
  <1>2. \A i \in 1 .. Len(s) : i # 1 => i - 1 \in 1 .. Len(t) /\ s[i] = t[i - 1]
    <2> SUFFICES ASSUME NEW i \in 1 .. Len(s), i # 1
                 PROVE  i - 1 \in 1 .. Len(t) /\ s[i] = t[i - 1]
      OBVIOUS
    <2>1. i - 1 \in 1 .. Len(t) /\ (i - 1) + 1 = i
      BY <1>1
    <2> QED
      BY <1>1, <2>1
  <1>3. LastPause(t, value)
    <2> SUFFICES ASSUME NEW i \in 1 .. Len(t), IsPause(t[i]),
                        \A j \in 1 .. Len(t) : j > i => ~IsPause(t[j])
                 PROVE  t[i].arg = value
      BY DEF LastPause
    <2>1. i + 1 \in 1 .. Len(s) /\ t[i] = s[i + 1]
      BY <1>1
    <2>2. \A j \in 1 .. Len(s) : j > i + 1 => ~IsPause(s[j])
      BY <1>1, <1>2
    <2> QED
      BY <2>1, <2>2 DEF LastPause
  <1>4. ASSUME IsPause(s[1]), \A e \in Messages(t) : ~IsPause(e)
        PROVE  s[1].arg = value
    <2>1. 1 \in 1 .. Len(s)
      BY <1>1
    <2>2. \A j \in 1 .. Len(s) : j > 1 => ~IsPause(s[j])
      BY <1>2, <1>4 DEF Messages
    <2> QED
      BY <1>4, <2>1, <2>2 DEF LastPause
  <1> QED
    BY <1>1, <1>3, <1>4 DEF t

-----------------------------------------------------------------------------
(* The messages and the commands under way.                                 *)

LEMMA FieldsTyped ==
  ASSUME SwitchTypes
  PROVE  /\ page.load \in Nat /\ page.lost \in BOOLEAN
         /\ page.step \in {"idle", "posted", "stashed"}
         /\ page.early \subseteq Calls
         /\ mpv.file \in Nat /\ mpv.pause \in BOOLEAN /\ mpv.selected \in Nat
         /\ mpv.stage \in {"none", "loading", "loaded"}
         /\ (mpv.file = 0 <=> mpv.stage = "none")
         /\ past.current \in Nat /\ past.opened \in Nat /\ past.settled \in Nat
         /\ worker.left \in Nat /\ worker.todo \in Nat /\ worker.load \in Nat
         /\ worker.step \in {"idle", "select", "play"} /\ slot \in Nat
  BY DEF SwitchTypes, PageTypes, MpvTypes, WorkerTypes

(* Typing of one message, and of all that are under way. *)
LEMMA PostsTyped ==
  ASSUME NEW e \in Posts
  PROVE  /\ e.load \in Nat
         /\ e.kind \in {"LoadStarting", "FileLoaded", "PauseChanged", "EndFile"}
         /\ IsPause(e) => e.arg \in BOOLEAN
         /\ IsEnd(e) => e.arg \in EndReasons
         /\ e \in FileEvents <=> OfFile(e)
  BY DEF Posts, FileEvents, IsPause, IsEnd, IsOpen, OfFile

LEMMA SentTyped ==
  ASSUME SwitchTypes
  PROVE  /\ Sent \subseteq Posts /\ Pending \subseteq Commands
         /\ Messages(queue) \subseteq Sent /\ Messages(events) \subseteq Sent
         /\ Messages(events) \subseteq FileEvents
         /\ Len(queue) \in Nat
  <1>1. queue \in Seq(Posts) /\ events \in Seq(FileEvents) /\ cmds \in Seq(Commands)
    BY DEF SwitchTypes
  <1>2. /\ Messages(queue) \subseteq Posts /\ Messages(events) \subseteq FileEvents
        /\ Messages(cmds) \subseteq Commands /\ Len(queue) \in Nat
    BY <1>1 DEF Messages
  <1> QED
    BY <1>2 DEF Sent, Pending, Posts

(* Only what is under way is ordered. *)
LEMMA OrderTyped ==
  /\ \A a, b : <<a, b>> \in SentOrder => a \in Sent /\ b \in Sent
  /\ \A a, b : <<a, b>> \in SentOrder' => a \in Sent' /\ b \in Sent'
  /\ \A c, d : <<c, d>> \in PendingOrder => c \in Pending /\ d \in Pending
  /\ \A c, d : <<c, d>> \in PendingOrder' => c \in Pending' /\ d \in Pending'
  BY DEF SentOrder, PendingOrder, Sent, Pending, Order

(* A message put into the coordinator's queue, and one that mpv raises. *)
LEMMA Posted ==
  ASSUME SwitchTypes, NEW e \in Posts, queue' = Append(queue, e), UNCHANGED events
  PROVE  /\ Sent' = Sent \cup {e} /\ queue' \in Seq(Posts) /\ Len(queue') = Len(queue) + 1
         /\ SentOrder' = SentOrder \cup (Messages(queue) \X {e}) \cup ({e} \X Messages(events))
  <1>1. queue \in Seq(Posts)
    BY DEF SwitchTypes
  <1>2. /\ queue' \in Seq(Posts) /\ Messages(queue') = Messages(queue) \cup {e}
        /\ Order(queue') = Order(queue) \cup (Messages(queue) \X {e})
    BY <1>1, Appended
  <1>3. Len(queue') = Len(queue) + 1
    BY <1>1
  <1>4. Messages(events') = Messages(events) /\ Order(events') = Order(events)
    OBVIOUS
  <1> QED
    BY <1>2, <1>3, <1>4 DEF Sent, SentOrder

LEMMA Raised ==
  ASSUME SwitchTypes, NEW e \in FileEvents, events' = Append(events, e), UNCHANGED queue
  PROVE  /\ Sent' = Sent \cup {e} /\ events' \in Seq(FileEvents)
         /\ SentOrder' = SentOrder \cup (Sent \X {e})
  <1>1. events \in Seq(FileEvents)
    BY DEF SwitchTypes
  <1>2. /\ events' \in Seq(FileEvents) /\ Messages(events') = Messages(events) \cup {e}
        /\ Order(events') = Order(events) \cup (Messages(events) \X {e})
    BY <1>1, Appended
  <1>3. Messages(queue') = Messages(queue) /\ Order(queue') = Order(queue)
    OBVIOUS
  <1> QED
    BY <1>2, <1>3 DEF Sent, SentOrder

(* The ingest thread hands the head of mpv's events on. *)
LEMMA Ingested ==
  ASSUME SwitchTypes, IngestEvent
  PROVE  /\ Sent' = Sent /\ SentOrder' = SentOrder
         /\ queue' = Append(queue, Head(events)) /\ events' \in Seq(FileEvents)
         /\ queue' \in Seq(Posts) /\ Len(queue') = Len(queue) + 1
         /\ Head(events) \in FileEvents /\ Head(events) \in Posts
  <1>1. queue \in Seq(Posts) /\ events \in Seq(FileEvents) /\ events # <<>>
    BY DEF SwitchTypes, IngestEvent
  <1> DEFINE e == Head(events)
  <1>2. queue' = Append(queue, e) /\ events' = Tail(events)
    BY DEF IngestEvent
  <1>3. /\ events' \in Seq(FileEvents) /\ e \in FileEvents
        /\ Messages(events) = {e} \cup Messages(events')
        /\ Order(events) = Order(events') \cup ({e} \X Messages(events'))
    BY <1>1, <1>2, HeadTaken
  <1>4. e \in Posts
    BY <1>3 DEF Posts
  <1> HIDE DEF e
  <1>5. /\ queue' \in Seq(Posts) /\ Messages(queue') = Messages(queue) \cup {e}
        /\ Order(queue') = Order(queue) \cup (Messages(queue) \X {e})
    BY <1>1, <1>2, <1>4, Appended
  <1>6. Len(queue') = Len(queue) + 1
    BY <1>1, <1>2
  <1>7. Sent' = Sent
    BY <1>3, <1>5 DEF Sent
  <1>8. SentOrder' = SentOrder
    BY <1>3, <1>5 DEF SentOrder
  <1> QED
    BY <1>2, <1>3, <1>4, <1>5, <1>6, <1>7, <1>8 DEF e

(* The worker takes the head of its queue. *)
LEMMA Dequeued ==
  ASSUME SwitchTypes, ApplyNext, NEW e, e = Head(queue)
  PROVE  /\ Sent = Sent' \cup {e} /\ e \in Posts
         /\ SentOrder = SentOrder' \cup ({e} \X Sent')
         /\ queue # <<>> /\ queue' = Tail(queue) /\ queue' \in Seq(Posts)
         /\ Len(queue) \in Nat /\ Len(queue') = Len(queue) - 1
  <1>1. queue \in Seq(Posts) /\ worker.left <= Len(queue) /\ worker.left \in Nat
    BY DEF SwitchTypes, WorkerTypes
  <1>2. queue' = Tail(queue) /\ events' = events /\ worker.left > 0
    BY DEF ApplyNext
  <1>3. queue # <<>>
    BY <1>1, <1>2
  <1>4. /\ e \in Posts /\ queue' \in Seq(Posts)
        /\ Len(queue) \in Nat /\ Len(queue') = Len(queue) - 1
        /\ Messages(queue) = {e} \cup Messages(queue')
        /\ Order(queue) = Order(queue') \cup ({e} \X Messages(queue'))
    BY <1>1, <1>2, <1>3, HeadTaken
  <1>5. Messages(events') = Messages(events) /\ Order(events') = Order(events)
    BY <1>2
  <1>6. Sent = Sent' \cup {e}
    BY <1>4, <1>5 DEF Sent
  <1>7. SentOrder = SentOrder' \cup ({e} \X Sent')
    BY <1>4, <1>5 DEF SentOrder, Sent
  <1> QED
    BY <1>2, <1>3, <1>4, <1>6, <1>7

(* mpv's commands leave from the front ... *)
LEMMA Executed ==
  ASSUME SwitchTypes, Execute, NEW c, c = Head(cmds)
  PROVE  /\ Pending = Pending' \cup {c} /\ c \in Commands /\ cmds' \in Seq(Commands)
         /\ PendingOrder = PendingOrder' \cup ({c} \X Pending')
  <1>1. cmds \in Seq(Commands) /\ cmds # <<>> /\ cmds' = Tail(cmds)
    BY DEF SwitchTypes, Execute
  <1>2. /\ c \in Commands /\ cmds' \in Seq(Commands)
        /\ Messages(cmds) = {c} \cup Messages(cmds')
        /\ Order(cmds) = Order(cmds') \cup ({c} \X Messages(cmds'))
    BY <1>1, HeadTaken
  <1> QED
    BY <1>2 DEF Pending, PendingOrder

(* ... and join at the end. *)
LEMMA Commanded ==
  ASSUME SwitchTypes, NEW c \in Commands, cmds' = Append(cmds, c)
  PROVE  /\ cmds' \in Seq(Commands) /\ Pending' = Pending \cup {c}
         /\ PendingOrder' = PendingOrder \cup (Pending \X {c})
  <1>1. cmds \in Seq(Commands)
    BY DEF SwitchTypes
  <1> QED
    BY <1>1, Appended DEF Pending, PendingOrder

(* What Ended tells: the end of the file mpv held, or nothing. *)
LEMMA Ending ==
  ASSUME SwitchTypes, NEW reason \in EndReasons, events' = Ended(reason), UNCHANGED queue
  PROVE  /\ events' \in Seq(FileEvents)
         /\ mpv.file = 0 => Sent' = Sent /\ SentOrder' = SentOrder
         /\ mpv.file # 0 =>
              \E e \in FileEvents :
                /\ IsEnd(e) /\ e.arg = reason /\ e.load = mpv.file
                /\ Sent' = Sent \cup {e} /\ SentOrder' = SentOrder \cup (Sent \X {e})
  <1>1. CASE mpv.file = 0
    <2>1. events' = events
      BY <1>1 DEF Ended
    <2> QED
      BY <1>1, <2>1 DEF Sent, SentOrder, SwitchTypes
  <1>2. CASE mpv.file # 0
    <2> DEFINE e == Input("EndFile", reason, mpv.file)
    <2>1. e \in FileEvents /\ IsEnd(e) /\ e.arg = reason /\ e.load = mpv.file
      BY FieldsTyped DEF Input, FileEvents, IsEnd
    <2>2. events' = Append(events, e)
      BY <1>2 DEF Ended
    <2> HIDE DEF e
    <2>3. /\ Sent' = Sent \cup {e} /\ events' \in Seq(FileEvents)
          /\ SentOrder' = SentOrder \cup (Sent \X {e})
      BY <2>1, <2>2, Raised
    <2> QED
      BY <1>2, <2>1, <2>3
  <1> QED
    BY <1>1, <1>2

-----------------------------------------------------------------------------
(* What each step changes, field by field; the types with it.               *)

SameMessages == UNCHANGED <<Sent, SentOrder>>
SameCommands == UNCHANGED <<Pending, PendingOrder>>

LEMMA SameQueues ==
  /\ UNCHANGED <<queue, events>> => SameMessages
  /\ UNCHANGED cmds => SameCommands
  BY DEF SameMessages, SameCommands, Sent, SentOrder, Pending, PendingOrder

LEMMA PlayerLoadDoes ==
  ASSUME SwitchTypes, PlayerLoad
  PROVE  /\ UNCHANGED <<slot, cmds, mpv, events, reported, worker, machine, past>>
         /\ SameCommands /\ SwitchTypes'
         /\ page.step = "idle" /\ page'.step = "posted" /\ page'.load = page.load + 1
         /\ ~page'.lost /\ page'.early = EarlyAfterLoad
         /\ \E e \in Posts :
              /\ IsStart(e) /\ e.load = page.load + 1
              /\ queue' = Append(queue, e) /\ Sent' = Sent \cup {e}
              /\ SentOrder' =
                   SentOrder \cup (Messages(queue) \X {e}) \cup ({e} \X Messages(events))
  <1> DEFINE e == Input("LoadStarting", NoItem, page.load + 1)
  <1>1. /\ UNCHANGED <<slot, cmds, mpv, events, reported, worker, machine, past>>
        /\ page.step = "idle"
        /\ page' = [page EXCEPT !.step = "posted", !.load = @ + 1, !.lost = FALSE,
                                !.early = EarlyAfterLoad]
        /\ queue' = Append(queue, e)
    BY DEF PlayerLoad
  <1>2. page \in PageTypes /\ page.load \in Nat /\ page.early \subseteq Calls
    BY FieldsTyped DEF SwitchTypes
  <1>3. e \in Posts /\ IsStart(e) /\ e.load = page.load + 1
    BY <1>2 DEF Input, Posts, FileEvents, IsStart
  <1> HIDE DEF e
  <1>4. EarlyAfterLoad \in SUBSET Calls
    BY <1>2 DEF EarlyAfterLoad, Calls
  <1>5. /\ page'.step = "posted" /\ page'.load = page.load + 1
        /\ ~page'.lost /\ page'.early = EarlyAfterLoad /\ page' \in PageTypes
    <2> DEFINE early == EarlyAfterLoad
               load  == page.load + 1
    <2>1. page' = [page EXCEPT !.step = "posted", !.load = load, !.lost = FALSE, !.early = early]
      BY <1>1
    <2>2. early \in SUBSET Calls /\ load \in Nat
      BY <1>2, <1>4
    <2> HIDE DEF early, load
    <2>3. /\ page'.step = "posted" /\ page'.load = load /\ ~page'.lost /\ page'.early = early
          /\ page' \in PageTypes
      BY <1>2, <2>1, <2>2 DEF PageTypes
    <2> QED
      BY <2>3 DEF early, load
  <1>6. /\ Sent' = Sent \cup {e} /\ queue' \in Seq(Posts) /\ Len(queue') = Len(queue) + 1
        /\ SentOrder' = SentOrder \cup (Messages(queue) \X {e}) \cup ({e} \X Messages(events))
    BY <1>1, <1>3, Posted
  <1>7. SameCommands
    BY <1>1, SameQueues
  <1>8. Len(queue) \in Nat /\ worker.left \in Nat /\ worker.left <= Len(queue)
    BY SentTyped, FieldsTyped DEF SwitchTypes
  <1>9. SwitchTypes'
    BY <1>1, <1>5, <1>6, <1>8 DEF SwitchTypes
  <1> QED
    BY <1>1, <1>3, <1>5, <1>6, <1>7, <1>9

LEMMA UrlRefusedDoes ==
  ASSUME SwitchTypes, UrlRefused
  PROVE  /\ UNCHANGED <<slot, cmds, mpv, events, reported, queue, worker, machine, past>>
         /\ SameMessages /\ SameCommands /\ SwitchTypes'
         /\ page.step = "posted" /\ page'.step = "idle" /\ page'.lost
         /\ page'.load = page.load /\ page'.early = page.early
  <1>1. /\ UNCHANGED <<slot, cmds, mpv, events, reported, queue, worker, machine, past>>
        /\ page.step = "posted" /\ page'.step = "idle" /\ page'.lost
        /\ page'.load = page.load /\ page'.early = page.early /\ page' \in PageTypes
    BY DEF UrlRefused, SwitchTypes, PageTypes
  <1> QED
    BY <1>1, SameQueues DEF SwitchTypes

LEMMA StashSelectionDoes ==
  ASSUME SwitchTypes, StashSelection
  PROVE  /\ UNCHANGED <<cmds, mpv, events, reported, queue, worker, machine, past>>
         /\ SameMessages /\ SameCommands /\ SwitchTypes'
         /\ page.step = "posted" /\ page'.step = "stashed" /\ page'.lost = page.lost
         /\ page'.load = page.load /\ page'.early = page.early /\ slot' = page.load
  <1>1. /\ UNCHANGED <<cmds, mpv, events, reported, queue, worker, machine, past>>
        /\ page.step = "posted" /\ page'.step = "stashed" /\ page'.lost = page.lost
        /\ page'.load = page.load /\ page'.early = page.early /\ slot' = page.load
        /\ page' \in PageTypes
    BY DEF StashSelection, SwitchTypes, PageTypes
  <1>2. slot' \in Nat
    BY <1>1, FieldsTyped
  <1> QED
    BY <1>1, <1>2, SameQueues DEF SwitchTypes

LEMMA SendLoadfileDoes ==
  ASSUME SwitchTypes, SendLoadfile
  PROVE  /\ UNCHANGED <<slot, mpv, events, reported, queue, worker, machine, past>>
         /\ SameMessages /\ SwitchTypes'
         /\ page.step = "stashed" /\ page'.step = "idle" /\ page'.lost = page.lost
         /\ page'.load = page.load /\ page'.early = page.early
         /\ \E c \in Commands :
              /\ IsLoad(c) /\ c.load = page.load /\ Pending' = Pending \cup {c}
              /\ PendingOrder' = PendingOrder \cup (Pending \X {c})
  <1> DEFINE c == Command("loadfile", page.load)
  <1>1. /\ UNCHANGED <<slot, mpv, events, reported, queue, worker, machine, past>>
        /\ page.step = "stashed" /\ page'.step = "idle" /\ page'.lost = page.lost
        /\ page'.load = page.load /\ page'.early = page.early
        /\ page' \in PageTypes /\ cmds' = Append(cmds, c)
    BY DEF SendLoadfile, SwitchTypes, PageTypes
  <1>2. c \in Commands /\ IsLoad(c) /\ c.load = page.load
    BY FieldsTyped DEF Command, Commands, IsLoad
  <1> HIDE DEF c
  <1>3. /\ cmds' \in Seq(Commands) /\ Pending' = Pending \cup {c}
        /\ PendingOrder' = PendingOrder \cup (Pending \X {c})
    BY <1>1, <1>2, Commanded
  <1> QED
    BY <1>1, <1>2, <1>3, SameQueues DEF SwitchTypes

LEMMA PressDoes ==
  ASSUME SwitchTypes, NEW op \in {"stop", "play", "pause"}, Press(op)
  PROVE  /\ UNCHANGED <<slot, mpv, events, reported, queue, worker, machine, past>>
         /\ SameMessages /\ SwitchTypes'
         /\ page.step = "idle" /\ page'.step = page.step /\ page'.lost = page.lost
         /\ page'.load = page.load /\ page'.early = EarlyAfter(op)
         /\ \E c \in Commands :
              /\ c.op = op /\ Pending' = Pending \cup {c}
              /\ PendingOrder' = PendingOrder \cup (Pending \X {c})
  <1> DEFINE c == Command(op, 0)
  <1>1. /\ UNCHANGED <<slot, mpv, events, reported, queue, worker, machine, past>>
        /\ page.step = "idle" /\ cmds' = Append(cmds, c)
        /\ page' = [page EXCEPT !.presses = @ + 1, !.early = EarlyAfter(op)]
    BY DEF Press
  <1>2. c \in Commands /\ c.op = op
    BY DEF Command, Commands
  <1> HIDE DEF c
  <1>3. EarlyAfter(op) \in SUBSET Calls
    BY FieldsTyped DEF EarlyAfter, Calls
  <1>4. page \in PageTypes /\ page.presses + 1 \in Nat
    BY DEF SwitchTypes, PageTypes
  <1>5. /\ page'.step = page.step /\ page'.lost = page.lost /\ page'.load = page.load
        /\ page'.early = EarlyAfter(op) /\ page' \in PageTypes
    BY <1>1, <1>3, <1>4 DEF PageTypes
  <1>6. /\ cmds' \in Seq(Commands) /\ Pending' = Pending \cup {c}
        /\ PendingOrder' = PendingOrder \cup (Pending \X {c})
    BY <1>1, <1>2, Commanded
  <1> QED
    BY <1>1, <1>2, <1>5, <1>6, SameQueues DEF SwitchTypes

(* mpv loads a file, ends the one it holds, or only writes a property. *)
LEMMA ExecuteDoes ==
  ASSUME SwitchTypes, Execute, NEW c, c = Head(cmds)
  PROVE  /\ UNCHANGED <<page, slot, reported, queue, worker, machine, past>>
         /\ c \in Commands /\ cmds' \in Seq(Commands) /\ Pending = Pending' \cup {c}
         /\ PendingOrder = PendingOrder' \cup ({c} \X Pending')
         /\ IsLoad(c) => /\ mpv'.file = c.load /\ mpv'.stage = "loading"
                         /\ mpv'.pause /\ mpv'.selected = 0
                         /\ mpv' \in MpvTypes /\ events' = Ended("Canceled")
         /\ c.op = "stop" => /\ mpv'.file = 0 /\ mpv'.stage = "none"
                             /\ mpv' \in MpvTypes /\ events' = Ended("Canceled")
         /\ c.op \in {"select", "play", "pause"} =>
              /\ mpv'.file = mpv.file /\ mpv'.stage = mpv.stage
              /\ mpv'.pause = (IF c.op = "select" THEN mpv.pause ELSE c.op = "pause")
              /\ mpv'.selected =
                   (IF c.op = "select" /\ mpv.stage = "loaded" THEN c.load ELSE mpv.selected)
              /\ mpv' \in MpvTypes /\ UNCHANGED events
  <1>1. /\ UNCHANGED <<page, slot, reported, queue, worker, machine, past>>
        /\ CASE c.op = "loadfile" ->
                  /\ mpv' = [file |-> c.load, stage |-> "loading", pause |-> TRUE, selected |-> 0]
                  /\ events' = Ended("Canceled")
             [] c.op = "stop" ->
                  /\ \E pause \in PauseAfterFile : mpv' = Unloaded(pause)
                  /\ events' = Ended("Canceled")
             [] c.op = "select" ->
                  /\ mpv' = [mpv EXCEPT !.selected = IF mpv.stage = "loaded" THEN c.load ELSE @]
                  /\ UNCHANGED events
             [] OTHER -> mpv' = [mpv EXCEPT !.pause = (c.op = "pause")] /\ UNCHANGED events
    BY DEF Execute
  <1>2. /\ Pending = Pending' \cup {c} /\ c \in Commands /\ cmds' \in Seq(Commands)
        /\ PendingOrder = PendingOrder' \cup ({c} \X Pending')
    BY Executed
  <1>3. mpv \in MpvTypes /\ mpv.pause \in BOOLEAN
    BY FieldsTyped DEF SwitchTypes
  <1>4. c.op \in {"loadfile", "stop", "play", "pause", "select"} /\ c.load \in Nat
    BY <1>2 DEF Commands
  <1>5. CASE IsLoad(c)
    <2>1. /\ mpv' = [file |-> c.load, stage |-> "loading", pause |-> TRUE, selected |-> 0]
          /\ events' = Ended("Canceled")
      BY <1>1, <1>5 DEF IsLoad
    <2> QED
      BY <1>1, <1>2, <1>4, <1>5, <2>1 DEF IsLoad, MpvTypes
  <1>6. CASE c.op = "stop"
    <2>1. PICK pause \in BOOLEAN : mpv' = Unloaded(pause)
      BY <1>1, <1>3, <1>6 DEF PauseAfterFile
    <2> QED
      BY <1>1, <1>2, <1>6, <2>1 DEF IsLoad, MpvTypes, Unloaded
  <1>7. CASE c.op = "select"
    <2>1. mpv' = [mpv EXCEPT !.selected = IF mpv.stage = "loaded" THEN c.load ELSE @]
      BY <1>1, <1>7
    <2> QED
      BY <1>1, <1>2, <1>3, <1>4, <1>7, <2>1 DEF IsLoad, MpvTypes
  <1>8. CASE c.op \in {"play", "pause"}
    <2>1. mpv' = [mpv EXCEPT !.pause = (c.op = "pause")] /\ UNCHANGED events
      BY <1>1, <1>8
    <2>2. (c.op = "pause") \in BOOLEAN
      OBVIOUS
    <2> QED
      BY <1>1, <1>2, <1>3, <1>8, <2>1, <2>2 DEF IsLoad, MpvTypes
  <1> QED
    BY <1>4, <1>5, <1>6, <1>7, <1>8 DEF IsLoad

LEMMA FileOpensDoes ==
  ASSUME SwitchTypes, FileOpens
  PROVE  /\ UNCHANGED <<page, slot, cmds, reported, queue, worker, machine, past>>
         /\ SameCommands /\ SwitchTypes'
         /\ mpv.stage = "loading" /\ mpv.file # 0 /\ mpv'.stage = "loaded" /\ mpv'.file = mpv.file
         /\ mpv'.pause = mpv.pause /\ mpv'.selected = mpv.selected
         /\ \E e \in FileEvents :
              /\ IsOpen(e) /\ e.load = mpv.file
              /\ Sent' = Sent \cup {e} /\ SentOrder' = SentOrder \cup (Sent \X {e})
  <1> DEFINE e == Input("FileLoaded", 0, mpv.file)
  <1>1. /\ UNCHANGED <<page, slot, cmds, reported, queue, worker, machine, past>>
        /\ mpv.stage = "loading" /\ mpv' = [mpv EXCEPT !.stage = "loaded"]
        /\ events' = Append(events, e)
    BY DEF FileOpens
  <1>2. mpv \in MpvTypes /\ (mpv.file = 0 <=> mpv.stage = "none")
    BY DEF SwitchTypes
  <1>3. /\ mpv'.stage = "loaded" /\ mpv'.file = mpv.file /\ mpv.file # 0
        /\ mpv'.pause = mpv.pause /\ mpv'.selected = mpv.selected /\ mpv' \in MpvTypes
    BY <1>1, <1>2 DEF MpvTypes
  <1>4. e \in FileEvents /\ IsOpen(e) /\ e.load = mpv.file
    BY FieldsTyped DEF Input, FileEvents, IsOpen
  <1> HIDE DEF e
  <1>5. /\ Sent' = Sent \cup {e} /\ events' \in Seq(FileEvents)
        /\ SentOrder' = SentOrder \cup (Sent \X {e})
    BY <1>1, <1>4, Raised
  <1>6. SwitchTypes'
    BY <1>1, <1>2, <1>3, <1>5 DEF SwitchTypes
  <1> QED
    BY <1>1, <1>3, <1>4, <1>5, <1>6, SameQueues

LEMMA FileEndsDoes ==
  ASSUME SwitchTypes, FileEnds
  PROVE  /\ UNCHANGED <<page, slot, cmds, reported, queue, worker, machine, past>>
         /\ SameCommands /\ SwitchTypes'
         /\ mpv.stage = "loading" \/ (mpv.stage = "loaded" /\ ~mpv.pause)
         /\ mpv.file # 0 /\ mpv'.file = 0 /\ mpv'.stage = "none"
         /\ \E e \in FileEvents :
              /\ IsEnd(e) /\ e.load = mpv.file
              /\ e.arg = (IF mpv.stage = "loading" THEN "Error" ELSE "Eof")
              /\ Sent' = Sent \cup {e} /\ SentOrder' = SentOrder \cup (Sent \X {e})
  <1> DEFINE reason == IF mpv.stage = "loading" THEN "Error" ELSE "Eof"
  <1>1. /\ UNCHANGED <<page, slot, cmds, reported, queue, worker, machine, past>>
        /\ mpv.stage = "loading" \/ (mpv.stage = "loaded" /\ ~mpv.pause)
        /\ \E pause \in PauseAfterFile : mpv' = Unloaded(pause)
        /\ events' = Ended(reason)
    BY DEF FileEnds
  <1>2. mpv.pause \in BOOLEAN /\ mpv.file # 0 /\ reason \in EndReasons
    BY <1>1, FieldsTyped DEF EndReasons
  <1> HIDE DEF reason
  <1>3. mpv'.file = 0 /\ mpv'.stage = "none" /\ mpv' \in MpvTypes
    <2>1. PICK pause \in BOOLEAN : mpv' = Unloaded(pause)
      BY <1>1, <1>2 DEF PauseAfterFile
    <2> QED
      BY <2>1 DEF Unloaded, MpvTypes
  <1>4. /\ events' \in Seq(FileEvents)
        /\ \E e \in FileEvents :
             /\ IsEnd(e) /\ e.arg = reason /\ e.load = mpv.file
             /\ Sent' = Sent \cup {e} /\ SentOrder' = SentOrder \cup (Sent \X {e})
    BY <1>1, <1>2, Ending
  <1>5. SwitchTypes'
    BY <1>1, <1>3, <1>4 DEF SwitchTypes
  <1> QED
    BY <1>1, <1>2, <1>3, <1>4, <1>5, SameQueues DEF reason

LEMMA IngestEventDoes ==
  ASSUME SwitchTypes, IngestEvent
  PROVE  /\ UNCHANGED <<page, slot, cmds, mpv, reported, worker, machine, past>>
         /\ SameMessages /\ SameCommands /\ SwitchTypes'
         /\ queue' = Append(queue, Head(events))
         /\ Head(events) \in Posts /\ Head(events) \in FileEvents
  <1>1. UNCHANGED <<page, slot, cmds, mpv, reported, worker, machine, past>>
    BY DEF IngestEvent
  <1>2. /\ Sent' = Sent /\ SentOrder' = SentOrder
        /\ queue' = Append(queue, Head(events)) /\ events' \in Seq(FileEvents)
        /\ queue' \in Seq(Posts) /\ Len(queue') = Len(queue) + 1
        /\ Head(events) \in FileEvents /\ Head(events) \in Posts
    BY Ingested
  <1>3. Len(queue) \in Nat /\ worker.left \in Nat /\ worker.left <= Len(queue)
    BY SentTyped, FieldsTyped DEF SwitchTypes
  <1>4. SwitchTypes'
    BY <1>1, <1>2, <1>3 DEF SwitchTypes
  <1> QED
    BY <1>1, <1>2, <1>4, SameQueues DEF SameMessages

LEMMA IngestPauseDoes ==
  ASSUME SwitchTypes, IngestPause
  PROVE  /\ UNCHANGED <<page, slot, cmds, mpv, events, worker, machine, past>>
         /\ SameCommands /\ SwitchTypes' /\ reported' = mpv.pause
         /\ \E e \in Posts :
              /\ IsPause(e) /\ e.arg = mpv.pause /\ e.load = 0
              /\ queue' = Append(queue, e) /\ Sent' = Sent \cup {e}
              /\ SentOrder' =
                   SentOrder \cup (Messages(queue) \X {e}) \cup ({e} \X Messages(events))
  <1> DEFINE e == Input("PauseChanged", mpv.pause, 0)
  <1>1. /\ UNCHANGED <<page, slot, cmds, mpv, events, worker, machine, past>>
        /\ reported' = mpv.pause /\ queue' = Append(queue, e)
    BY DEF IngestPause
  <1>2. mpv.pause \in BOOLEAN
    BY FieldsTyped
  <1>3. e \in Posts /\ IsPause(e) /\ e.arg = mpv.pause /\ e.load = 0
    BY <1>2 DEF Input, Posts, FileEvents, IsPause
  <1> HIDE DEF e
  <1>4. /\ Sent' = Sent \cup {e} /\ queue' \in Seq(Posts) /\ Len(queue') = Len(queue) + 1
        /\ SentOrder' = SentOrder \cup (Messages(queue) \X {e}) \cup ({e} \X Messages(events))
    BY <1>1, <1>3, Posted
  <1>5. Len(queue) \in Nat /\ worker.left \in Nat /\ worker.left <= Len(queue)
    BY SentTyped, FieldsTyped DEF SwitchTypes
  <1>6. SwitchTypes'
    BY <1>1, <1>2, <1>4, <1>5 DEF SwitchTypes
  <1> QED
    BY <1>1, <1>3, <1>4, <1>6, SameQueues

LEMMA RecvDoes ==
  ASSUME SwitchTypes, Recv
  PROVE  /\ UNCHANGED <<page, slot, cmds, mpv, events, reported, queue, machine, past>>
         /\ SameMessages /\ SameCommands /\ SwitchTypes'
         /\ worker'.todo = worker.todo /\ worker'.step = worker.step
         /\ worker'.load = worker.load
  <1>1. /\ UNCHANGED <<page, slot, cmds, mpv, events, reported, queue, machine, past>>
        /\ worker' = [worker EXCEPT !.left = Len(queue)]
    BY DEF Recv
  <1>2. worker \in WorkerTypes /\ Len(queue) \in Nat
    BY SentTyped DEF SwitchTypes
  <1>3. /\ worker'.todo = worker.todo /\ worker'.step = worker.step
        /\ worker'.load = worker.load /\ worker' \in WorkerTypes /\ worker'.left = Len(queue)
    BY <1>1, <1>2 DEF WorkerTypes
  <1> QED
    BY <1>1, <1>2, <1>3, SameQueues DEF SwitchTypes

LEMMA TakeSelectionDoes ==
  ASSUME SwitchTypes, TakeSelection
  PROVE  /\ UNCHANGED <<page, cmds, mpv, events, reported, queue, machine, past>>
         /\ SameMessages /\ SameCommands /\ SwitchTypes'
         /\ worker.step = "idle" /\ worker.todo > 0 /\ worker'.todo = worker.todo - 1
         /\ worker'.step = (IF slot = 0 THEN "idle" ELSE "select")
         /\ worker'.load = slot /\ slot' = 0
  <1>1. /\ UNCHANGED <<page, cmds, mpv, events, reported, queue, machine, past>>
        /\ worker.step = "idle" /\ worker.todo > 0 /\ slot' = 0
        /\ worker' = [worker EXCEPT !.todo = @ - 1,
                                    !.step = IF slot = 0 THEN "idle" ELSE "select",
                                    !.load = slot]
    BY DEF TakeSelection
  <1>2. worker \in WorkerTypes /\ slot \in Nat /\ worker.todo - 1 \in Nat
    BY <1>1, FieldsTyped DEF SwitchTypes
  <1>3. /\ worker'.todo = worker.todo - 1 /\ worker'.load = slot
        /\ worker'.step = (IF slot = 0 THEN "idle" ELSE "select")
        /\ worker' \in WorkerTypes /\ worker'.left = worker.left
    BY <1>1, <1>2 DEF WorkerTypes
  <1> QED
    BY <1>1, <1>3, SameQueues DEF SwitchTypes

LEMMA ApplySelectionDoes ==
  ASSUME SwitchTypes, ApplySelection
  PROVE  /\ UNCHANGED <<page, slot, mpv, events, reported, queue, machine, past>>
         /\ SameMessages /\ SwitchTypes'
         /\ worker.step \in {"select", "play"} /\ worker'.todo = worker.todo
         /\ worker'.step = (IF worker.step = "select" THEN "play" ELSE "idle")
         /\ worker'.load = worker.load
         /\ \E c \in Commands :
              /\ c = (IF worker.step = "select" THEN Command("select", worker.load)
                      ELSE Command("play", 0))
              /\ c.op = (IF worker.step = "select" THEN "select" ELSE "play")
              /\ Pending' = Pending \cup {c}
              /\ PendingOrder' = PendingOrder \cup (Pending \X {c})
  <1> DEFINE c == IF worker.step = "select" THEN Command("select", worker.load)
                  ELSE Command("play", 0)
  <1>1. /\ UNCHANGED <<page, slot, mpv, events, reported, queue, machine, past>>
        /\ worker.step \in {"select", "play"} /\ cmds' = Append(cmds, c)
        /\ worker' = [worker EXCEPT !.step = IF @ = "select" THEN "play" ELSE "idle"]
    BY DEF ApplySelection
  <1>2. worker \in WorkerTypes /\ worker.load \in Nat
    BY FieldsTyped DEF SwitchTypes
  <1>3. c \in Commands /\ c.op = (IF worker.step = "select" THEN "select" ELSE "play")
    BY <1>2 DEF Command, Commands
  <1>4. /\ worker'.todo = worker.todo /\ worker'.load = worker.load
        /\ worker'.step = (IF worker.step = "select" THEN "play" ELSE "idle")
        /\ worker' \in WorkerTypes /\ worker'.left = worker.left
    BY <1>1, <1>2 DEF WorkerTypes
  <1>5. /\ cmds' \in Seq(Commands) /\ Pending' = Pending \cup {c}
        /\ PendingOrder' = PendingOrder \cup (Pending \X {c})
    <2> HIDE DEF c
    <2> QED
      BY <1>1, <1>3, Commanded
  <1>6. SameMessages
    BY <1>1, SameQueues
  <1>7. SwitchTypes'
    <2> HIDE DEF c
    <2> QED
      BY <1>1, <1>4, <1>5 DEF SwitchTypes
  <1> HIDE DEF c
  <1>8. \E d \in Commands :
          /\ d = c /\ d.op = (IF worker.step = "select" THEN "select" ELSE "play")
          /\ Pending' = Pending \cup {d}
          /\ PendingOrder' = PendingOrder \cup (Pending \X {d})
    BY <1>3, <1>5
  <1> QED
    BY <1>1, <1>4, <1>6, <1>7, <1>8 DEF c

(* The worker applies the head of its queue. *)
LEMMA ApplyDoes ==
  ASSUME SwitchTypes, ApplyNext, NEW in, in = Head(queue), NEW r, r = Apply(machine, in)
  PROVE  /\ UNCHANGED <<page, slot, cmds, mpv, events, reported>>
         /\ SameCommands /\ machine' = r.m /\ past' = Remember(in, r)
         /\ worker'.step = worker.step /\ worker'.load = worker.load
         /\ worker'.todo = worker.todo + Len(r.actions)
         /\ Sent = Sent' \cup {in} /\ in \in Posts
         /\ SentOrder = SentOrder' \cup ({in} \X Sent')
         /\ queue # <<>> /\ queue' = Tail(queue)
         /\ worker'.todo \in Nat /\ past' \in [current : Nat, opened : Nat, settled : Nat] =>
              SwitchTypes'
  <1>1. /\ UNCHANGED <<page, slot, cmds, mpv, events, reported>>
        /\ machine' = r.m /\ past' = Remember(in, r) /\ worker.left > 0
        /\ worker' = [worker EXCEPT !.left = @ - 1, !.todo = @ + Len(r.actions)]
    BY DEF ApplyNext
  <1>2. worker \in WorkerTypes /\ worker.left \in Nat /\ worker.left <= Len(queue)
    BY FieldsTyped DEF SwitchTypes
  <1>3. /\ worker'.step = worker.step /\ worker'.load = worker.load
        /\ worker'.todo = worker.todo + Len(r.actions) /\ worker'.left = worker.left - 1
    BY <1>1, <1>2 DEF WorkerTypes
  <1>4. /\ Sent = Sent' \cup {in} /\ in \in Posts
        /\ SentOrder = SentOrder' \cup ({in} \X Sent')
        /\ queue # <<>> /\ queue' = Tail(queue) /\ queue' \in Seq(Posts)
        /\ Len(queue) \in Nat /\ Len(queue') = Len(queue) - 1
    BY Dequeued
  <1>5. ASSUME worker'.todo \in Nat, past' \in [current : Nat, opened : Nat, settled : Nat]
        PROVE  SwitchTypes'
    <2>1. worker.left - 1 \in Nat /\ worker'.left <= Len(queue')
      BY <1>1, <1>2, <1>3, <1>4
    <2> DEFINE todo == worker.todo + Len(r.actions)
    <2>2. worker' = [worker EXCEPT !.left = worker.left - 1, !.todo = todo] /\ todo \in Nat
      BY <1>1, <1>3, <1>5
    <2> HIDE DEF todo
    <2>3. worker' \in WorkerTypes
      BY <1>2, <2>1, <2>2 DEF WorkerTypes
    <2> QED
      BY <1>1, <1>4, <1>5, <2>1, <2>3 DEF SwitchTypes
  <1> QED
    BY <1>1, <1>3, <1>4, <1>5, SameQueues

-----------------------------------------------------------------------------
(* What holds whatever the page does is kept by every step.                 *)

LEMMA FreshPlain == Plain(Fresh) /\ Fresh.phase = "Stopped" /\ ~Fresh.pending_load
  BY PlaybackConstants
     DEF Plain, Fresh, Good, MachineStates, Presences, Phases, MediaTypes, Combined

LEMMA SwitchInitInv == SwitchInit => SwitchInv
  <1> SUFFICES ASSUME SwitchInit
               PROVE  SwitchInv
    OBVIOUS
  <1>1. /\ page = [step |-> "idle", load |-> 0, lost |-> FALSE, presses |-> 0, early |-> {}]
        /\ slot = 0 /\ cmds = <<>>
        /\ mpv = [file |-> 0, stage |-> "none", pause |-> FALSE, selected |-> 0]
        /\ events = <<>> /\ reported = FALSE /\ queue = <<>>
        /\ worker = [left |-> 0, todo |-> 0, step |-> "idle", load |-> 0]
        /\ machine = Fresh /\ past = [current |-> 0, opened |-> 0, settled |-> 0]
    BY DEF SwitchInit
  <1>2. /\ Sent = {} /\ Pending = {} /\ SentOrder = {} /\ PendingOrder = {}
        /\ Len(queue) = 0
    BY <1>1 DEF Sent, Pending, SentOrder, PendingOrder, Messages, Order
  <1>3. SwitchTypes
    <2>1. page \in PageTypes /\ mpv \in MpvTypes /\ worker \in WorkerTypes
      BY <1>1 DEF PageTypes, MpvTypes, WorkerTypes
    <2>2. cmds \in Seq(Commands) /\ events \in Seq(FileEvents) /\ queue \in Seq(Posts)
      BY <1>1
    <2>3. slot \in Nat /\ reported \in BOOLEAN /\ past \in [current : Nat, opened : Nat, settled : Nat]
      BY <1>1
    <2>4. (mpv.file = 0 <=> mpv.stage = "none") /\ worker.left <= Len(queue)
      BY <1>1, <1>2
    <2> QED
      BY <2>1, <2>2, <2>3, <2>4 DEF SwitchTypes
  <1>4. Plain(machine) /\ machine.phase = "Stopped" /\ ~machine.pending_load
    BY <1>1, FreshPlain
  <1>5. Bounds /\ Announced
    BY <1>1, <1>2 DEF Bounds, Announced
  <1>6. PauseTold
    BY <1>1, <1>2, <1>4 DEF PauseTold, LastPause
  <1>7. Sending /\ Unsent /\ Begun /\ InTurn
    BY <1>1, <1>2 DEF Sending, Unsent, Begun, InTurn, Reached, Unheard
  <1>8. Over /\ Expected /\ OpenBeforeEnd /\ Shown
    BY <1>1, <1>2, <1>4 DEF Over, Expected, OpenBeforeEnd, Shown, StopShown, Unheard
  <1>9. Done
    BY <1>1, <1>2 DEF Done, Reached, Idle, Unheard
  <1> QED
    BY <1>3, <1>4, <1>5, <1>6, <1>7, <1>8, <1>9 DEF SwitchInv, Basics, Flow, Stage

(* Steps that tell the worker nothing. *)
LEMMA SilentBasics ==
  ASSUME Basics, SwitchTypes', SameMessages, page'.load = page.load,
         UNCHANGED <<queue, past, machine, reported>>,
         mpv'.file <= page.load, page'.step # "idle" \/ page'.lost => page.load > 0,
         \A c \in Pending' : IsLoad(c) => c.load > 0 /\ c.load <= page.load
  PROVE  Basics'
  <1>1. Sent' = Sent /\ SentOrder' = SentOrder
    BY DEF SameMessages
  <1>2. Bounds' /\ Announced'
    BY <1>1 DEF Basics, Bounds, Announced
  <1>3. PauseTold' /\ Plain(machine')
    BY <1>1 DEF Basics, PauseTold
  <1> QED
    BY <1>2, <1>3 DEF Basics

(* Steps that raise an event of mpv's. *)
LEMMA RaisedBasics ==
  ASSUME Basics, SwitchTypes', UNCHANGED <<page, queue, past, machine, reported>>,
         NEW e \in FileEvents, e.load <= page.load,
         Sent' = Sent \cup {e}, SentOrder' = SentOrder \cup (Sent \X {e}),
         mpv'.file <= page.load, Pending' \subseteq Pending
  PROVE  Basics'
  <1>1. ~IsStart(e) /\ ~IsPause(e)
    BY DEF FileEvents, IsStart, IsPause
  <1>2. Bounds'
    BY <1>1 DEF Basics, Bounds
  <1>3. Announced'
    BY <1>1 DEF Basics, Announced
  <1>4. PauseTold' /\ Plain(machine')
    BY <1>1 DEF Basics, PauseTold
  <1> QED
    BY <1>2, <1>3, <1>4 DEF Basics

LEMMA PageBasics ==
  ASSUME Basics,
         \/ PlayerLoad \/ UrlRefused \/ StashSelection \/ SendLoadfile
         \/ \E op \in {"stop", "play", "pause"} : Press(op)
  PROVE  Basics'
  <1>1. SwitchTypes /\ Bounds /\ Announced /\ PauseTold /\ page.load \in Nat /\ mpv.file \in Nat
    BY FieldsTyped DEF Basics
  <1>2. CASE PlayerLoad
    <2>1. /\ UNCHANGED <<slot, cmds, mpv, events, reported, worker, machine, past>>
          /\ SameCommands /\ SwitchTypes' /\ page'.load = page.load + 1 /\ ~page'.lost
      BY <1>1, <1>2, PlayerLoadDoes
    <2>2. PICK e \in Posts :
            /\ IsStart(e) /\ e.load = page.load + 1
            /\ queue' = Append(queue, e) /\ Sent' = Sent \cup {e}
            /\ SentOrder' =
                 SentOrder \cup (Messages(queue) \X {e}) \cup ({e} \X Messages(events))
      BY <1>1, <1>2, PlayerLoadDoes
    <2>3. /\ Messages(queue) \subseteq Sent /\ \A f \in Messages(events) : ~IsStart(f)
          /\ \A f \in Sent : f.load \in Nat
          /\ past.settled \in Nat /\ past.current \in Nat /\ past.opened \in Nat
      BY <1>1, SentTyped, PostsTyped, FieldsTyped DEF FileEvents, IsStart
    <2>4. Bounds'
      <3>1. /\ Pending' = Pending /\ page'.load > 0
            /\ \A c \in Pending : IsLoad(c) => c.load \in Nat
        BY <1>1, <2>1, SentTyped DEF SameCommands, Commands
      <3>2. past'.settled <= past'.current /\ past'.current <= page'.load
        BY <1>1, <2>1, <2>3 DEF Bounds
      <3>3. past'.opened <= page'.load /\ mpv'.file <= page'.load
        BY <1>1, <2>1, <2>3 DEF Bounds
      <3>4. \A c \in Pending' : IsLoad(c) => c.load > 0 /\ c.load <= page'.load
        BY <1>1, <2>1, <3>1 DEF Bounds
      <3>5. \A f \in Sent' : f.load <= page'.load
        BY <1>1, <2>1, <2>2, <2>3 DEF Bounds
      <3>6. \A f \in Sent' : IsStart(f) => f.load > past'.current
        BY <1>1, <2>1, <2>2, <2>3 DEF Bounds
      <3> QED
        BY <3>1, <3>2, <3>3, <3>4, <3>5, <3>6 DEF Bounds
    <2>5. Announced'
      <3>1. \E f \in Sent' : IsStart(f) /\ f.load = page'.load
        BY <2>1, <2>2
      <3>2. \A a, b : <<a, b>> \in SentOrder' /\ IsStart(b) =>
              (<<a, b>> \in SentOrder) \/ (a \in Sent /\ b = e)
        BY <2>2, <2>3
      <3>3. \A a, b : <<a, b>> \in SentOrder' /\ IsStart(b) => a.load < b.load
        BY <1>1, <2>2, <2>3, <3>2 DEF Announced, Bounds
      <3> QED
        BY <3>1, <3>3 DEF Announced
    <2>6. ~IsPause(e)
      BY <2>2 DEF IsPause, IsStart
    <2>7. LastPause(queue', reported')
      <3>1. queue \in Seq(Posts) /\ LastPause(queue, reported)
        BY <1>1 DEF SwitchTypes, PauseTold
      <3> QED
        BY <2>1, <2>2, <2>6, <3>1, LastPauseAppended
    <2>8. PauseTold'
      BY <1>1, <2>1, <2>2, <2>6, <2>7 DEF PauseTold
    <2>9. Plain(machine')
      BY <2>1 DEF Basics
    <2> QED
      BY <2>1, <2>4, <2>5, <2>8, <2>9 DEF Basics
  <1>3. mpv.file <= page.load /\ \A c \in Pending : IsLoad(c) => c.load > 0 /\ c.load <= page.load
    BY <1>1 DEF Bounds
  <1>4. CASE UrlRefused
    <2>1. page.load > 0
      BY <1>1, <1>4, UrlRefusedDoes DEF Bounds
    <2> QED
      BY <1>1, <1>3, <1>4, <2>1, UrlRefusedDoes, SilentBasics DEF SameCommands
  <1>5. CASE StashSelection
    <2>1. page.load > 0
      BY <1>1, <1>5, StashSelectionDoes DEF Bounds
    <2> QED
      BY <1>1, <1>3, <1>5, <2>1, StashSelectionDoes, SilentBasics DEF SameCommands
  <1>6. CASE SendLoadfile
    <2>1. page.load > 0
      BY <1>1, <1>6, SendLoadfileDoes DEF Bounds
    <2>2. \A c \in Pending' : IsLoad(c) => c.load > 0 /\ c.load <= page.load
      BY <1>1, <1>3, <1>6, <2>1, SendLoadfileDoes
    <2> QED
      BY <1>1, <1>3, <1>6, <2>1, <2>2, SendLoadfileDoes, SilentBasics
  <1>7. ASSUME NEW op \in {"stop", "play", "pause"}, Press(op)
        PROVE  Basics'
    <2>1. \A c \in Pending' : IsLoad(c) => c.load > 0 /\ c.load <= page.load
      BY <1>1, <1>3, <1>7, PressDoes DEF IsLoad
    <2>2. page'.step # "idle" \/ page'.lost => page.load > 0
      BY <1>1, <1>7, PressDoes DEF Bounds
    <2> QED
      BY <1>1, <1>3, <1>7, <2>1, <2>2, PressDoes, SilentBasics
  <1> QED
    BY <1>2, <1>4, <1>5, <1>6, <1>7

LEMMA MpvBasics ==
  ASSUME Basics, Execute \/ FileOpens \/ FileEnds
  PROVE  Basics'
  <1>1. SwitchTypes /\ Bounds /\ page.load \in Nat /\ mpv.file \in Nat /\ mpv.file <= page.load
    BY FieldsTyped DEF Basics, Bounds
  <1>2. CASE Execute
    <2> DEFINE c == Head(cmds)
    <2>1. /\ UNCHANGED <<page, slot, reported, queue, worker, machine, past>>
          /\ c \in Commands /\ cmds' \in Seq(Commands) /\ Pending = Pending' \cup {c}
          /\ IsLoad(c) => /\ mpv'.file = c.load /\ mpv'.stage = "loading"
                          /\ mpv' \in MpvTypes /\ events' = Ended("Canceled")
          /\ c.op = "stop" => /\ mpv'.file = 0 /\ mpv'.stage = "none"
                              /\ mpv' \in MpvTypes /\ events' = Ended("Canceled")
          /\ c.op \in {"select", "play", "pause"} =>
               /\ mpv'.file = mpv.file /\ mpv'.stage = mpv.stage
               /\ mpv' \in MpvTypes /\ UNCHANGED events
      BY <1>1, <1>2, ExecuteDoes
    <2> HIDE DEF c
    <2>2. IsLoad(c) \/ c.op \in {"stop", "select", "play", "pause"}
      BY <2>1 DEF Commands, IsLoad
    <2>3. IsLoad(c) => c.load > 0 /\ c.load <= page.load
      BY <1>1, <2>1 DEF Bounds
    <2>4. page'.step # "idle" \/ page'.lost => page.load > 0
      BY <1>1, <2>1 DEF Bounds
    <2>5. \A d \in Pending' : IsLoad(d) => d.load > 0 /\ d.load <= page.load
      BY <1>1, <2>1 DEF Bounds
    <2>6. c.load \in Nat
      BY <2>1 DEF Commands
    <2>7. CASE c.op \in {"select", "play", "pause"}
      <3>1. SwitchTypes' /\ SameMessages
        BY <1>1, <2>1, <2>7, SameQueues DEF SwitchTypes
      <3> QED
        BY <1>1, <2>1, <2>4, <2>5, <2>7, <3>1, SilentBasics
    <2>8. CASE IsLoad(c) \/ c.op = "stop"
      <3>1. /\ mpv' \in MpvTypes /\ (mpv'.file = 0 <=> mpv'.stage = "none")
            /\ mpv'.file <= page.load /\ events' = Ended("Canceled")
        BY <1>1, <2>1, <2>3, <2>6, <2>8
      <3>2. "Canceled" \in EndReasons
        BY DEF EndReasons
      <3>3. /\ events' \in Seq(FileEvents)
            /\ mpv.file = 0 => Sent' = Sent /\ SentOrder' = SentOrder
            /\ mpv.file # 0 =>
                 \E e \in FileEvents :
                   /\ e.load = mpv.file
                   /\ Sent' = Sent \cup {e} /\ SentOrder' = SentOrder \cup (Sent \X {e})
        BY <1>1, <2>1, <3>1, <3>2, Ending
      <3>4. SwitchTypes'
        BY <1>1, <2>1, <3>1, <3>3 DEF SwitchTypes
      <3>5. CASE mpv.file = 0
        BY <1>1, <2>1, <2>4, <2>5, <3>1, <3>3, <3>4, <3>5, SilentBasics DEF SameMessages
      <3>6. CASE mpv.file # 0
        BY <1>1, <2>1, <3>1, <3>3, <3>4, <3>6, RaisedBasics
      <3> QED
        BY <3>5, <3>6
    <2> QED
      BY <2>2, <2>7, <2>8
  <1>3. CASE FileOpens
    BY <1>1, <1>3, FileOpensDoes, RaisedBasics DEF SameCommands
  <1>4. CASE FileEnds
    BY <1>1, <1>4, FileEndsDoes, RaisedBasics DEF SameCommands
  <1> QED
    BY <1>2, <1>3, <1>4


(* What each input makes of the machine and of the history of the loads. *)
LEMMA InputApplied ==
  ASSUME Basics, ApplyNext, NEW in, in = Head(queue)
  PROVE  /\ UNCHANGED <<page, slot, cmds, mpv, events, reported>>
         /\ SameCommands /\ SwitchTypes' /\ Plain(machine')
         /\ worker'.step = worker.step /\ worker'.load = worker.load
         /\ Sent = Sent' \cup {in} /\ in \in Posts
         /\ SentOrder = SentOrder' \cup ({in} \X Sent')
         /\ queue # <<>> /\ queue' = Tail(queue)
         /\ ~IsOpen(in) => worker'.todo = worker.todo /\ past'.opened = past.opened
         /\ ~IsStart(in) => past'.current = past.current
         /\ ~IsEnd(in) /\ ~IsPause(in) => past'.settled = past.settled
         /\ IsStart(in) =>
              past'.current = in.load /\ machine'.phase = "Starting" /\ machine'.pending_load
         /\ IsOpen(in) =>
              /\ past'.opened = in.load /\ worker'.todo = worker.todo + 1
              /\ machine'.phase = "Starting" /\ ~machine'.pending_load
         /\ IsPause(in) =>
              /\ past'.settled = past.settled
                   \/ (past'.settled = past.current /\ ~in.arg /\ past.opened = past.current)
              /\ machine'.pending_load = machine.pending_load
              /\ machine.phase = "Stopped" => machine'.phase = "Stopped"
              /\ machine.phase # "Stopped" =>
                   machine'.phase = (IF in.arg THEN "Paused" ELSE "Playing")
         /\ IsEnd(in) =>
              /\ past'.settled = past.settled
                   \/ (past'.settled = past.current /\ in.load = past.current)
              /\ ~machine'.pending_load
              /\ machine'.phase = (IF machine.pending_load /\ in.arg # "Error" THEN "Starting"
                                   ELSE "Stopped")
  <1> DEFINE r == Apply(machine, in)
  <1>1. SwitchTypes /\ Plain(machine) /\ worker.todo \in Nat
    BY FieldsTyped DEF Basics
  <1>2. past \in [current : Nat, opened : Nat, settled : Nat]
    BY <1>1 DEF SwitchTypes
  <1>3. /\ UNCHANGED <<page, slot, cmds, mpv, events, reported>>
        /\ SameCommands /\ machine' = r.m /\ past' = Remember(in, r)
        /\ worker'.step = worker.step /\ worker'.load = worker.load
        /\ worker'.todo = worker.todo + Len(r.actions)
        /\ Sent = Sent' \cup {in} /\ in \in Posts
        /\ SentOrder = SentOrder' \cup ({in} \X Sent')
        /\ queue # <<>> /\ queue' = Tail(queue)
        /\ worker'.todo \in Nat /\ past' \in [current : Nat, opened : Nat, settled : Nat] =>
             SwitchTypes'
    BY <1>1, ApplyDoes
  <1>9. past' = Remember(in, r)
    BY <1>3
  <1>4. /\ in.load \in Nat /\ in.kind \in {"LoadStarting", "FileLoaded", "PauseChanged", "EndFile"}
        /\ IsPause(in) => in.arg \in BOOLEAN
    BY <1>3, PostsTyped
  <1>5. CASE IsStart(in)
    <2>1. in.kind = "LoadStarting"
      BY <1>5 DEF IsStart
    <2>2. Plain(r.m) /\ r.m.phase = "Starting" /\ r.m.pending_load /\ r.actions = <<>>
      BY <1>1, <1>3, <2>1, LoadStartingApplied
    <2> HIDE DEF r
    <2>3. past' = [past EXCEPT !.current = in.load]
      <3>1. ~Settles(in, r)
        BY <2>1 DEF Settles
      <3>2. Remember(in, r) = [past EXCEPT !.current = in.load]
        BY <2>1, <3>1 DEF Remember
      <3> QED
        BY <1>9, <3>2, Zenon
    <2>4. /\ past'.current = in.load /\ past'.opened = past.opened
          /\ past'.settled = past.settled
          /\ past' \in [current : Nat, opened : Nat, settled : Nat]
      BY <1>2, <1>4, <2>3
    <2>5. worker'.todo = worker.todo
      BY <1>1, <1>3, <2>2
    <2>6. ~IsOpen(in) /\ ~IsPause(in) /\ ~IsEnd(in)
      BY <2>1 DEF IsOpen, IsPause, IsEnd
    <2>7. SwitchTypes'
      BY <1>1, <1>3, <2>4, <2>5
    <2>8. Plain(machine') /\ machine'.phase = "Starting" /\ machine'.pending_load
      BY <1>3, <2>2
    <2> QED
      BY <1>3, <1>5, <2>4, <2>5, <2>6, <2>7, <2>8
  <1>6. CASE IsOpen(in)
    <2>1. in.kind = "FileLoaded"
      BY <1>6 DEF IsOpen
    <2>2. Plain(r.m) /\ r.m.phase = "Starting" /\ ~r.m.pending_load /\ Len(r.actions) = 1
      BY <1>1, <1>3, <2>1, FileLoadedApplied
    <2> HIDE DEF r
    <2>3. past' = [past EXCEPT !.opened = in.load]
      <3>1. ~Settles(in, r)
        BY <2>1 DEF Settles
      <3>2. Remember(in, r) = [past EXCEPT !.opened = in.load]
        BY <2>1, <3>1 DEF Remember
      <3> QED
        BY <1>9, <3>2, Zenon
    <2>4. /\ past'.opened = in.load /\ past'.current = past.current
          /\ past'.settled = past.settled
          /\ past' \in [current : Nat, opened : Nat, settled : Nat]
      BY <1>2, <1>4, <2>3
    <2>5. worker'.todo = worker.todo + 1 /\ worker'.todo \in Nat
      BY <1>1, <1>3, <2>2
    <2>6. ~IsStart(in) /\ ~IsPause(in) /\ ~IsEnd(in)
      BY <2>1 DEF IsStart, IsPause, IsEnd
    <2>7. SwitchTypes'
      BY <1>3, <2>4, <2>5
    <2>8. Plain(machine') /\ machine'.phase = "Starting" /\ ~machine'.pending_load
      BY <1>3, <2>2
    <2> QED
      BY <1>3, <1>6, <2>4, <2>5, <2>6, <2>7, <2>8
  <1>7. CASE IsPause(in)
    <2>1. in.kind = "PauseChanged"
      BY <1>7 DEF IsPause
    <2>2. /\ Plain(r.m) /\ r.actions = <<>> /\ r.m.pending_load = machine.pending_load
          /\ machine.phase = "Stopped" => r.m.phase = "Stopped"
          /\ machine.phase # "Stopped" /\ in.arg => r.m.phase = "Paused"
          /\ machine.phase # "Stopped" /\ ~in.arg => r.m.phase = "Playing"
          /\ ~Announces(r, TerminalKinds)
          /\ in.arg => ~Announces(r, {"Started"})
      BY <1>1, <1>3, <2>1, PauseApplied
    <2> HIDE DEF r
    <2>3. past' = (IF Settles(in, r) THEN [past EXCEPT !.settled = past.current] ELSE past)
      <3>1. Remember(in, r) = (IF Settles(in, r) THEN [past EXCEPT !.settled = past.current] ELSE past)
        BY <2>1 DEF Remember
      <3> QED
        BY <1>9, <3>1, Zenon
    <2>4. Settles(in, r) => ~in.arg /\ past.opened = past.current
      BY <2>1, <2>2 DEF Settles
    <2>5. /\ past'.opened = past.opened /\ past'.current = past.current
          /\ past'.settled = (IF Settles(in, r) THEN past.current ELSE past.settled)
          /\ past' \in [current : Nat, opened : Nat, settled : Nat]
      BY <1>2, <2>3
    <2>6. worker'.todo = worker.todo
      BY <1>1, <1>3, <2>2
    <2>7. ~IsStart(in) /\ ~IsOpen(in) /\ ~IsEnd(in)
      BY <2>1 DEF IsStart, IsOpen, IsEnd
    <2> QED
      BY <1>1, <1>3, <1>4, <1>7, <2>2, <2>4, <2>5, <2>6, <2>7
  <1>8. CASE IsEnd(in)
    <2>1. in.kind = "EndFile"
      BY <1>8 DEF IsEnd
    <2>2. /\ Plain(r.m) /\ r.actions = <<>> /\ ~r.m.pending_load
          /\ ~Announces(r, {"Started"})
          /\ IF machine.pending_load /\ in.arg # "Error" THEN r.m.phase = "Starting"
             ELSE r.m.phase = "Stopped"
      BY <1>1, <1>3, <1>8, EndApplied
    <2> HIDE DEF r
    <2>3. past' = (IF Settles(in, r) THEN [past EXCEPT !.settled = past.current] ELSE past)
      <3>1. Remember(in, r) = (IF Settles(in, r) THEN [past EXCEPT !.settled = past.current] ELSE past)
        BY <2>1 DEF Remember
      <3> QED
        BY <1>9, <3>1, Zenon
    <2>4. Settles(in, r) => in.load = past.current
      BY <2>1, <2>2 DEF Settles
    <2>5. /\ past'.opened = past.opened /\ past'.current = past.current
          /\ past'.settled = (IF Settles(in, r) THEN past.current ELSE past.settled)
          /\ past' \in [current : Nat, opened : Nat, settled : Nat]
      BY <1>2, <2>3
    <2>6. worker'.todo = worker.todo
      BY <1>1, <1>3, <2>2
    <2>7. ~IsStart(in) /\ ~IsOpen(in) /\ ~IsPause(in)
      BY <2>1 DEF IsStart, IsOpen, IsPause
    <2> QED
      BY <1>1, <1>3, <1>8, <2>2, <2>4, <2>5, <2>6, <2>7
  <1> QED
    BY <1>4, <1>5, <1>6, <1>7, <1>8 DEF IsStart, IsOpen, IsPause, IsEnd

LEMMA WorkerBasics ==
  ASSUME Basics,
         IngestEvent \/ IngestPause \/ Recv \/ TakeSelection \/ ApplySelection \/ ApplyNext
  PROVE  Basics'
  <1>1. /\ SwitchTypes /\ Bounds /\ Announced /\ PauseTold
        /\ page.load \in Nat /\ mpv.file \in Nat /\ mpv.file <= page.load
        /\ page.step # "idle" \/ page.lost => page.load > 0
        /\ \A c \in Pending : IsLoad(c) => c.load > 0 /\ c.load <= page.load
    BY FieldsTyped DEF Basics, Bounds
  <1>2. queue \in Seq(Posts) /\ LastPause(queue, reported)
    BY <1>1 DEF SwitchTypes, PauseTold
  <1>3. CASE IngestEvent
    <2>1. /\ UNCHANGED <<page, mpv, reported, machine, past>>
          /\ SameMessages /\ SameCommands /\ SwitchTypes'
          /\ queue' = Append(queue, Head(events))
          /\ Head(events) \in Posts /\ Head(events) \in FileEvents
      BY <1>1, <1>3, IngestEventDoes
    <2>2. ~IsPause(Head(events))
      BY <2>1 DEF FileEvents, IsPause
    <2>3. LastPause(queue', reported)
      BY <1>2, <2>1, <2>2, LastPauseAppended
    <2>4. Sent' = Sent /\ SentOrder' = SentOrder /\ Pending' = Pending
      BY <2>1 DEF SameMessages, SameCommands
    <2>5. Bounds' /\ Announced'
      BY <1>1, <2>1, <2>4 DEF Bounds, Announced
    <2>6. PauseTold'
      BY <1>1, <2>1, <2>3, <2>4 DEF PauseTold
    <2> QED
      BY <2>1, <2>5, <2>6 DEF Basics
  <1>4. CASE IngestPause
    <2>1. /\ UNCHANGED <<page, cmds, mpv, machine, past>>
          /\ SameCommands /\ SwitchTypes' /\ reported' = mpv.pause
      BY <1>1, <1>4, IngestPauseDoes
    <2>2. PICK e \in Posts :
            /\ IsPause(e) /\ e.arg = mpv.pause /\ e.load = 0
            /\ queue' = Append(queue, e) /\ Sent' = Sent \cup {e}
            /\ SentOrder' =
                 SentOrder \cup (Messages(queue) \X {e}) \cup ({e} \X Messages(events))
      BY <1>1, <1>4, IngestPauseDoes
    <2>3. /\ \A f \in Messages(events) : f \in Sent /\ ~IsStart(f)
          /\ Messages(queue) \subseteq Sent /\ ~IsStart(e)
      BY <1>1, <2>2, SentTyped DEF FileEvents, IsStart, IsPause
    <2>4. Bounds'
      <3>1. \A f \in Sent' : f.load <= page.load /\ (IsStart(f) => f.load > past.current)
        BY <1>1, <2>2, <2>3 DEF Bounds
      <3> QED
        BY <1>1, <2>1, <3>1 DEF Bounds, SameCommands
    <2>5. Announced'
      BY <1>1, <2>1, <2>2, <2>3 DEF Announced
    <2>6. LastPause(queue', reported')
      BY <1>2, <2>1, <2>2, LastPauseAppended
    <2>7. PauseTold'
      BY <2>2, <2>6 DEF PauseTold
    <2> QED
      BY <2>1, <2>4, <2>5, <2>7 DEF Basics
  <1>5. CASE Recv
    BY <1>1, <1>5, RecvDoes, SilentBasics DEF SameCommands
  <1>6. CASE TakeSelection
    BY <1>1, <1>6, TakeSelectionDoes, SilentBasics DEF SameCommands
  <1>7. CASE ApplySelection
    <2>1. \A c \in Pending' : IsLoad(c) => c.load > 0 /\ c.load <= page.load
      BY <1>1, <1>7, ApplySelectionDoes DEF IsLoad
    <2> QED
      BY <1>1, <1>7, <2>1, ApplySelectionDoes, SilentBasics
  <1>8. CASE ApplyNext
    <2> DEFINE in == Head(queue)
    <2>1. /\ UNCHANGED <<page, slot, cmds, mpv, events, reported>>
          /\ SameCommands /\ SwitchTypes' /\ Plain(machine')
          /\ Sent = Sent' \cup {in} /\ in \in Posts
          /\ SentOrder = SentOrder' \cup ({in} \X Sent')
          /\ queue # <<>> /\ queue' = Tail(queue)
      BY <1>8, InputApplied
    <2>2. /\ ~IsOpen(in) => past'.opened = past.opened
          /\ ~IsStart(in) => past'.current = past.current
          /\ ~IsEnd(in) /\ ~IsPause(in) => past'.settled = past.settled
          /\ IsStart(in) => past'.current = in.load /\ machine'.phase = "Starting"
          /\ IsOpen(in) => past'.opened = in.load /\ machine'.phase = "Starting"
          /\ IsPause(in) \/ IsEnd(in) => past'.settled \in {past.settled, past.current}
          /\ IsPause(in) =>
               /\ machine.phase = "Stopped" => machine'.phase = "Stopped"
               /\ machine.phase # "Stopped" =>
                    machine'.phase = (IF in.arg THEN "Paused" ELSE "Playing")
          /\ IsEnd(in) => machine'.phase \in {"Starting", "Stopped"}
      BY <1>8, InputApplied
    <2>3. IsPause(in) /\ (\A e \in Messages(queue') : ~IsPause(e)) => in.arg = reported
      BY <1>2, <2>1, LastPauseTaken
    <2>4. LastPause(queue', reported)
      BY <1>2, <2>1, LastPauseTaken
    <2> HIDE DEF in
    <2>5. /\ in.load \in Nat /\ past.settled \in Nat /\ past.current \in Nat
          /\ IsStart(in) \/ IsOpen(in) \/ IsPause(in) \/ IsEnd(in)
          /\ \A e \in Sent : e.load \in Nat
      BY <1>1, <2>1, PostsTyped, FieldsTyped, SentTyped DEF IsStart, IsOpen, IsPause, IsEnd
    <2>6. /\ \A e \in Sent' : e \in Sent /\ <<in, e>> \in SentOrder
          /\ in \in Sent
      BY <2>1
    <2>7. Bounds'
      <3>1. past'.settled <= past'.current /\ past'.current <= page.load
        <4>1. /\ past.settled <= past.current /\ past.current <= page.load
              /\ in.load <= page.load /\ (IsStart(in) => in.load > past.current)
          BY <1>1, <2>6 DEF Bounds
        <4>2. ~(IsStart(in) /\ (IsPause(in) \/ IsEnd(in)))
          BY DEF IsStart, IsPause, IsEnd
        <4> QED
          BY <1>1, <2>2, <2>5, <4>1, <4>2
      <3>2. past'.opened <= page.load
        BY <1>1, <2>2, <2>6 DEF Bounds
      <3>3. \A e \in Sent' : IsStart(e) => e.load > past'.current
        BY <1>1, <2>2, <2>5, <2>6 DEF Bounds, Announced
      <3> QED
        BY <1>1, <2>1, <2>6, <3>1, <3>2, <3>3 DEF Bounds, SameCommands
    <2>8. Announced'
      <3>1. past'.current < page.load => \E e \in Sent' : IsStart(e) /\ e.load = page.load
        <4> SUFFICES ASSUME past'.current < page.load
                     PROVE  \E e \in Sent' : IsStart(e) /\ e.load = page.load
          OBVIOUS
        <4>1. past.current < page.load
          BY <1>1, <2>2, <2>5, <2>6 DEF Bounds
        <4>2. PICK e \in Sent : IsStart(e) /\ e.load = page.load
          BY <1>1, <4>1 DEF Announced
        <4>3. e # in
          BY <1>1, <2>2, <2>5, <4>2
        <4> QED
          BY <2>1, <4>2, <4>3
      <3>2. \A a, b : <<a, b>> \in SentOrder' => <<a, b>> \in SentOrder
        BY <2>1
      <3>3. \A a, b : <<a, b>> \in SentOrder' /\ IsStart(b) => a.load < b.load
        BY <1>1, <3>2 DEF Announced
      <3> QED
        BY <2>1, <3>1, <3>3 DEF Announced
    <2>9. PauseTold'
      <3> SUFFICES ASSUME \A e \in Sent' : ~IsPause(e)
                   PROVE  /\ machine'.phase = "Playing" => ~reported
                          /\ machine'.phase = "Paused" => reported
        BY <2>1, <2>4 DEF PauseTold
      <3>1. CASE IsPause(in)
        <4>1. \A e \in Messages(queue') : ~IsPause(e)
          BY DEF Sent
        <4>2. in.arg = reported /\ in.arg \in BOOLEAN
          BY <2>1, <2>3, <3>1, <4>1, PostsTyped
        <4> QED
          BY <2>2, <3>1, <4>2
      <3>2. CASE ~IsPause(in)
        BY <2>2, <2>5, <3>2
      <3> QED
        BY <3>1, <3>2
    <2> QED
      BY <2>1, <2>7, <2>8, <2>9 DEF Basics
  <1> QED
    BY <1>3, <1>4, <1>5, <1>6, <1>7, <1>8

LEMMA BasicsNext == Basics /\ SwitchNext => Basics'
  BY PageBasics, MpvBasics, WorkerBasics DEF SwitchNext

-----------------------------------------------------------------------------
(* Loads that do not overlap: each step keeps Flow.                         *)

(* Steps that leave the messages and the file alone. *)
LEMMA FlowSame ==
  ASSUME Flow, SameMessages, UNCHANGED <<past, machine>>,
         page'.load = page.load, page.early \subseteq page'.early,
         mpv'.file = mpv.file, mpv'.stage = mpv.stage,
         Reached' <=> Reached, Sending',
         Reached' /\ mpv.stage = "loading" =>
           \A c \in Pending' : c.op = "stop" => "stop" \in page'.early
  PROVE  Flow'
  <1>1. Sent' = Sent /\ SentOrder' = SentOrder /\ (Unheard' <=> Unheard)
    BY DEF SameMessages, Unheard
  <1>2. Unsent'
    BY <1>1 DEF Flow, Unsent
  <1>3. Begun'
    <2>1. Unheard' <=> Unheard
      BY <1>1
    <2>2. \A e \in Sent' : IsOpen(e) =>
            e.load = page'.load /\ past'.opened < page'.load /\ past'.settled # page'.load
      BY <1>1 DEF Flow, Begun
    <2> QED
      BY <2>1, <2>2 DEF Flow, Begun
  <1>4. InTurn'
    <2>1. \A e : Rank(e)' = Rank(e)
      BY DEF Rank
    <2> QED
      BY <1>1, <2>1 DEF Flow, InTurn
  <1>5. Over'
    BY <1>1 DEF Flow, Over
  <1>6. Expected'
    BY <1>1 DEF Flow, Expected
  <1>7. OpenBeforeEnd'
    BY <1>1 DEF Flow, OpenBeforeEnd
  <1>8. Shown'
    BY <1>1 DEF Flow, Shown, StopShown
  <1> QED
    BY <1>2, <1>3, <1>4, <1>5, <1>6, <1>7, <1>8 DEF Flow

(* Steps that tell something that is neither of a file nor of a load. *)
LEMMA FlowPause ==
  ASSUME Flow, NEW e, IsPause(e), Sent' = Sent \cup {e}, SentOrder \subseteq SentOrder',
         \A a, b : <<a, b>> \in SentOrder' => <<a, b>> \in SentOrder \/ a = e \/ b = e,
         UNCHANGED <<page, mpv, past, machine>>, SameCommands
  PROVE  Flow'
  <1>1. ~IsOpen(e) /\ ~IsEnd(e) /\ ~IsStart(e) /\ ~OfFile(e)
    BY DEF IsPause, IsOpen, IsEnd, IsStart, OfFile
  <1>2. (Unheard' <=> Unheard) /\ (Reached' <=> Reached)
    BY <1>1 DEF Unheard, Reached, SameCommands
  <1>3. Sending'
    BY DEF Flow, Sending, SameCommands
  <1>4. Unsent'
    BY <1>1, <1>2 DEF Flow, Unsent
  <1>5. Begun'
    BY <1>1, <1>2 DEF Flow, Begun, SameCommands
  <1>6. InTurn'
    <2>1. \A x : Rank(x)' = Rank(x)
      BY DEF Rank
    <2> QED
      BY <1>1, <2>1 DEF Flow, InTurn
  <1>7. Over'
    BY <1>1, <1>2 DEF Flow, Over
  <1>8. Expected'
    BY <1>1 DEF Flow, Expected
  <1>9. OpenBeforeEnd'
    BY <1>1, <1>2 DEF Flow, OpenBeforeEnd
  <1>10. Shown'
    BY <1>1, <1>2 DEF Flow, Shown, StopShown
  <1> QED
    BY <1>3, <1>4, <1>5, <1>6, <1>7, <1>8, <1>9, <1>10 DEF Flow

(* The page's next load, when the one before it has settled undisturbed. *)
LEMMA LoadFlow ==
  ASSUME Basics, PlayerLoad, Quiet \/ (Settled /\ Flow)
  PROVE  Flow'
  <1>1. SwitchTypes /\ Bounds
    BY DEF Basics
  <1>2. /\ UNCHANGED <<slot, cmds, mpv, events, reported, worker, machine, past>>
        /\ SameCommands /\ SwitchTypes'
        /\ page.step = "idle" /\ page'.step = "posted" /\ page'.load = page.load + 1
        /\ ~page'.lost
    BY <1>1, PlayerLoadDoes
  <1>3. PICK s \in Posts :
          /\ IsStart(s) /\ s.load = page.load + 1 /\ Sent' = Sent \cup {s}
          /\ SentOrder' =
               SentOrder \cup (Messages(queue) \X {s}) \cup ({s} \X Messages(events))
    BY <1>1, PlayerLoadDoes
  <1>4. /\ page.load \in Nat /\ mpv.file \in Nat
        /\ past.current \in Nat /\ past.opened \in Nat /\ past.settled \in Nat
        /\ \A e \in Sent : e.load \in Nat
    BY <1>1, FieldsTyped, SentTyped, PostsTyped
  <1>5. /\ mpv.file < page'.load /\ past.opened < page'.load /\ past.settled < page'.load
        /\ \A e \in Sent : e.load < page'.load
    BY <1>1, <1>2, <1>4 DEF Bounds
  <1>6. /\ \A c \in Pending : ~IsLoad(c)
        /\ mpv.stage # "loading" /\ Unheard
        /\ \A a, b : <<a, b>> \in SentOrder => ~(IsEnd(a) /\ IsEnd(b))
        /\ mpv.file # 0 => \A e \in Sent : ~IsEnd(e)
        /\ \A e \in Sent : IsEnd(e) /\ e.load < past.current =>
             machine.pending_load \/ \E t \in Sent : IsStart(t) /\ <<t, e>> \in SentOrder
    <2>1. CASE Quiet
      <3>1. Pending = {} /\ Sent = {} /\ SentOrder = {} /\ mpv.stage # "loading"
        BY <2>1 DEF Quiet, Pending, Sent, SentOrder, Messages, Order
      <3> QED
        BY <3>1 DEF Unheard
    <2>2. CASE Flow /\ page.lost
      <3>1. ~Reached /\ \A c \in Pending : ~IsLoad(c)
        BY <2>2 DEF Reached, Flow, Sending
      <3>2. /\ mpv.stage # "loading" /\ mpv.file < page.load
            /\ \A e \in Sent : ~IsOpen(e) /\ (IsEnd(e) => e.load < page.load)
        BY <2>2, <3>1 DEF Flow, Unsent
      <3>3. \A e \in Sent : IsEnd(e) => Rank(e) = 1 /\ OfFile(e)
        BY <1>4, <3>2 DEF Rank, OfFile, IsEnd, IsOpen
      <3>4. \A a, b : <<a, b>> \in SentOrder => ~(IsEnd(a) /\ IsEnd(b))
        BY <2>2, <3>3, OrderTyped DEF Flow, InTurn
      <3>5. mpv.file # 0 => \A e \in Sent : ~IsEnd(e)
        BY <1>4, <2>2, <3>2 DEF Flow, InTurn
      <3> QED
        BY <2>2, <3>1, <3>2, <3>4, <3>5 DEF Unheard, Flow, Expected
    <2>3. CASE Flow /\ ~page.lost /\ past.settled = page.load
      <3>1. Reached /\ \A c \in Pending : ~IsLoad(c)
        BY <1>2, <2>3 DEF Reached, Flow, Unsent
      <3>2. mpv.stage # "loading" /\ Unheard
        BY <2>3, <3>1 DEF Flow, Begun, Unheard
      <3>3. \A e \in Sent : IsEnd(e) => e.load = page.load
        BY <2>3 DEF Flow, Over
      <3>4. \A e \in Sent : IsEnd(e) => Rank(e) = 3 /\ OfFile(e)
        BY <3>3 DEF Rank, OfFile, IsEnd, IsOpen
      <3>5. \A a, b : <<a, b>> \in SentOrder => ~(IsEnd(a) /\ IsEnd(b))
        BY <2>3, <3>4, OrderTyped DEF Flow, InTurn
      <3>6. mpv.file # 0 => \A e \in Sent : ~IsEnd(e)
        BY <1>4, <2>3, <3>3 DEF Flow, InTurn
      <3> QED
        BY <2>3, <3>1, <3>2, <3>5, <3>6 DEF Flow, Expected
    <2> QED
      BY <2>1, <2>2, <2>3 DEF Settled
  <1>7. /\ ~IsOpen(s) /\ ~IsEnd(s) /\ ~OfFile(s)
        /\ \A a, b : <<a, b>> \in SentOrder' => <<a, b>> \in SentOrder \/ a = s \/ b = s
    BY <1>3 DEF IsStart, IsOpen, IsEnd, OfFile
  <1>8. ~Reached' /\ Unheard' /\ Pending' = Pending /\ PendingOrder' = PendingOrder
    BY <1>2, <1>3, <1>6, <1>7 DEF Reached, Unheard, SameCommands
  <1>9. Sending'
    <2>1. \A c, d : <<c, d>> \in PendingOrder' => ~IsLoad(c)
      BY <1>6, <1>8, OrderTyped
    <2> QED
      BY <1>2, <1>6, <1>8, <2>1 DEF Sending
  <1>10. Unsent'
    BY <1>2, <1>3, <1>4, <1>5, <1>6, <1>7 DEF Unsent, Unheard
  <1>11. Begun'
    BY <1>8 DEF Begun, Unheard
  <1>12. InTurn'
    <2>1. \A a, b : <<a, b>> \in SentOrder' => ~(OfFile(a) /\ OfFile(b))
      BY <1>6, <1>7, OrderTyped DEF OfFile, Unheard
    <2>2. mpv'.file # 0 => \A e \in Sent' : ~IsEnd(e)
      BY <1>2, <1>3, <1>6, <1>7
    <2> QED
      BY <2>1, <2>2 DEF InTurn
  <1>13. Over'
    BY <1>2, <1>4, <1>5 DEF Over
  <1>14. Expected'
    BY <1>2, <1>3, <1>6, <1>7 DEF Expected
  <1>15. OpenBeforeEnd'
    <2>1. \A e \in Sent' : IsEnd(e) => e.load < page'.load
      BY <1>3, <1>5, <1>7
    <2> QED
      BY <1>2, <1>3, <1>4, <1>7, <2>1 DEF OpenBeforeEnd
  <1>16. Shown'
    BY <1>2, <1>4, <1>5, <1>8 DEF Shown
  <1> QED
    BY <1>9, <1>10, <1>11, <1>12, <1>13, <1>14, <1>15, <1>16 DEF Flow

(* The page's other steps. *)
LEMMA PageFlow ==
  ASSUME Basics, Flow,
         \/ UrlRefused \/ StashSelection \/ SendLoadfile
         \/ \E op \in {"stop", "play", "pause"} : Press(op)
  PROVE  Flow'
  <1>1. SwitchTypes /\ Sending
    BY DEF Basics, Flow
  <1>2. CASE UrlRefused \/ StashSelection
    <2>1. /\ UNCHANGED <<mpv, past, machine>> /\ SameMessages /\ SameCommands
          /\ page.step = "posted" /\ page'.load = page.load /\ page'.early = page.early
          /\ page'.lost \/ page'.step = "stashed"
      <3>1. CASE UrlRefused
        BY <1>1, <3>1, UrlRefusedDoes
      <3>2. CASE StashSelection
        BY <1>1, <3>2, StashSelectionDoes
      <3> QED
        BY <1>2, <3>1, <3>2
    <2>2. \A c \in Pending : ~IsLoad(c)
      BY <1>1, <2>1 DEF Sending
    <2>3. ~Reached /\ ~Reached' /\ Pending' = Pending /\ PendingOrder' = PendingOrder
      BY <2>1 DEF Reached, SameCommands
    <2>4. Sending'
      <3>1. \A c, d : <<c, d>> \in PendingOrder' => ~IsLoad(c)
        BY <2>2, <2>3, OrderTyped
      <3>2. page'.step # "idle" => ~page'.lost
        BY <1>1, <1>2, <2>1, UrlRefusedDoes, StashSelectionDoes DEF Sending
      <3> QED
        BY <2>2, <2>3, <3>1, <3>2 DEF Sending
    <2> QED
      BY <2>1, <2>3, <2>4, FlowSame
  <1>3. CASE SendLoadfile
    <2>1. /\ UNCHANGED <<mpv, past, machine>> /\ SameMessages
          /\ page.step = "stashed" /\ page'.step = "idle" /\ page'.lost = page.lost
          /\ page'.load = page.load /\ page'.early = page.early
      BY <1>1, <1>3, SendLoadfileDoes
    <2>2. PICK c \in Commands :
            /\ IsLoad(c) /\ c.load = page.load /\ Pending' = Pending \cup {c}
            /\ PendingOrder' = PendingOrder \cup (Pending \X {c})
      BY <1>1, <1>3, SendLoadfileDoes
    <2>3. (\A d \in Pending : ~IsLoad(d)) /\ ~page.lost
      BY <1>1, <2>1 DEF Sending
    <2>4. ~Reached /\ ~Reached'
      BY <2>1, <2>2 DEF Reached
    <2>5. Sending'
      <3>1. \A d \in Pending' : IsLoad(d) => d.load = page.load
        BY <2>2, <2>3
      <3>2. \A d, f : <<d, f>> \in PendingOrder' => ~IsLoad(d)
        BY <2>2, <2>3, OrderTyped
      <3> QED
        BY <2>1, <2>3, <3>1, <3>2 DEF Sending
    <2> QED
      BY <2>1, <2>4, <2>5, FlowSame
  <1>4. ASSUME NEW op \in {"stop", "play", "pause"}, Press(op)
        PROVE  Flow'
    <2>1. /\ UNCHANGED <<mpv, past, machine>> /\ SameMessages
          /\ page.step = "idle" /\ page'.step = page.step /\ page'.lost = page.lost
          /\ page'.load = page.load /\ page'.early = EarlyAfter(op)
      BY <1>1, <1>4, PressDoes
    <2>2. PICK c \in Commands :
            /\ c.op = op /\ ~IsLoad(c) /\ Pending' = Pending \cup {c}
            /\ PendingOrder' = PendingOrder \cup (Pending \X {c})
      BY <1>1, <1>4, PressDoes DEF IsLoad
    <2>3. /\ page.early \subseteq page'.early
          /\ c.op = "stop" /\ ~Settled => "stop" \in page'.early
      BY <2>1, <2>2 DEF EarlyAfter
    <2>4. Reached' <=> Reached
      BY <2>1, <2>2 DEF Reached
    <2>5. Sending'
      <3>1. ASSUME NEW d \in Pending, IsLoad(d)
            PROVE  ~Settled /\ d.load = page.load /\ ~page.lost
        <4>1. ~Reached /\ ~page.lost /\ d.load = page.load
          BY <1>1, <3>1 DEF Reached, Sending
        <4> QED
          BY <4>1 DEF Flow, Unsent, Settled
      <3>2. \A d, f : <<d, f>> \in PendingOrder' /\ IsLoad(d) =>
              ~IsLoad(f) /\ (f.op = "stop" => "stop" \in page'.early)
        BY <1>1, <2>2, <2>3, <3>1, OrderTyped DEF Sending
      <3>3. \A d \in Pending' : IsLoad(d) => d.load = page'.load /\ ~page'.lost
        BY <2>1, <2>2, <3>1
      <3> QED
        BY <2>1, <3>2, <3>3 DEF Sending
    <2>6. Reached' /\ mpv.stage = "loading" =>
            \A d \in Pending' : d.op = "stop" => "stop" \in page'.early
      <3> SUFFICES ASSUME Reached, mpv.stage = "loading",
                          NEW d \in Pending', d.op = "stop"
                   PROVE  "stop" \in page'.early
        BY <2>4
      <3>1. ~Settled /\ (d \in Pending => "stop" \in page.early)
        BY DEF Flow, Begun, Settled, Reached
      <3> QED
        BY <2>2, <2>3, <3>1
    <2> QED
      BY <2>1, <2>3, <2>4, <2>5, <2>6, FlowSame
  <1> QED
    BY <1>2, <1>3, <1>4

(* mpv loads the file of the load issued last. *)
LEMMA LoadedFlow ==
  ASSUME Basics, Flow, Execute, IsLoad(Head(cmds))
  PROVE  Flow'
  <1> DEFINE c == Head(cmds)
  <1>1. SwitchTypes /\ Bounds
    BY DEF Basics
  <1>2. /\ UNCHANGED <<page, slot, reported, queue, worker, machine, past>>
        /\ c \in Commands /\ Pending = Pending' \cup {c}
        /\ PendingOrder = PendingOrder' \cup ({c} \X Pending')
        /\ IsLoad(c) /\ mpv'.file = c.load /\ mpv'.stage = "loading"
        /\ events' = Ended("Canceled")
    BY <1>1, ExecuteDoes
  <1> HIDE DEF c
  <1>3. /\ c.load = page.load /\ page.load > 0 /\ page.step = "idle" /\ ~page.lost
        /\ \A d \in Pending' : ~IsLoad(d) /\ (d.op = "stop" => "stop" \in page.early)
    <2>1. c \in Pending /\ \A d \in Pending' : <<c, d>> \in PendingOrder
      BY <1>2
    <2> QED
      BY <1>1, <1>2, <2>1 DEF Flow, Sending, Bounds
  <1>4. ~Reached /\ Reached'
    BY <1>2, <1>3 DEF Reached
  <1>5. /\ mpv.stage # "loading" /\ mpv.file < page.load
        /\ past.opened < page.load /\ past.settled # page.load
        /\ \A e \in Sent : ~IsOpen(e) /\ (IsEnd(e) => e.load < page.load)
    BY <1>4 DEF Flow, Unsent
  <1>6. /\ page.load \in Nat /\ mpv.file \in Nat /\ past.current \in Nat /\ past.opened \in Nat
        /\ \A e \in Sent : e.load \in Nat
    BY <1>1, FieldsTyped, SentTyped, PostsTyped
  <1>7. mpv.file # 0 => \A e \in Sent : ~OfFile(e)
    BY <1>5, <1>6 DEF Flow, InTurn, OfFile
  <1>8. /\ \A e \in Sent' : e \in Sent \/ (IsEnd(e) /\ e.load = mpv.file /\ mpv.file # 0)
        /\ Sent \subseteq Sent' /\ SentOrder \subseteq SentOrder'
        /\ \A a, b : <<a, b>> \in SentOrder' => <<a, b>> \in SentOrder \/ (mpv.file # 0 /\ a \in Sent)
        /\ \A a, b : a \in Sent /\ b \in Sent' /\ b \notin Sent => <<a, b>> \in SentOrder'
    <2>1. "Canceled" \in EndReasons
      BY DEF EndReasons
    <2>2. /\ mpv.file = 0 => Sent' = Sent /\ SentOrder' = SentOrder
          /\ mpv.file # 0 =>
               \E e \in FileEvents :
                 /\ IsEnd(e) /\ e.load = mpv.file
                 /\ Sent' = Sent \cup {e} /\ SentOrder' = SentOrder \cup (Sent \X {e})
      BY <1>1, <1>2, <2>1, Ending
    <2>3. CASE mpv.file = 0
      BY <2>2, <2>3
    <2>4. CASE mpv.file # 0
      <3>1. PICK e \in FileEvents :
              /\ IsEnd(e) /\ e.load = mpv.file
              /\ Sent' = Sent \cup {e} /\ SentOrder' = SentOrder \cup (Sent \X {e})
        BY <2>2, <2>4
      <3> QED
        BY <2>4, <3>1
    <2> QED
      BY <2>3, <2>4
  <1>9. /\ \A e \in Sent' : ~IsOpen(e) /\ (IsEnd(e) => e.load < page.load)
    BY <1>5, <1>8 DEF IsEnd, IsOpen
  <1>10. Sending'
    <2>1. \A d, f : <<d, f>> \in PendingOrder' => ~IsLoad(d)
      BY <1>3, OrderTyped
    <2> QED
      BY <1>2, <1>3, <2>1 DEF Sending
  <1>11. Unsent'
    BY <1>4 DEF Unsent
  <1>12. Begun'
    BY <1>2, <1>3, <1>5, <1>9 DEF Begun, Unheard
  <1>13. InTurn'
    <2>1. \A a, b : <<a, b>> \in SentOrder' /\ OfFile(a) /\ OfFile(b) => <<a, b>> \in SentOrder
      BY <1>7, <1>8
    <2>2. \A x : Rank(x)' = Rank(x)
      BY <1>2 DEF Rank
    <2> QED
      BY <1>2, <1>3, <1>9, <2>1, <2>2 DEF Flow, InTurn
  <1>14. Over'
    BY <1>2, <1>5, <1>6 DEF Over
  <1>15. Expected'
    <2>1. ~(mpv'.file < past'.current)
      BY <1>1, <1>2, <1>3, <1>6 DEF Bounds
    <2>2. ASSUME NEW e \in Sent', IsEnd(e), e.load < past.current
          PROVE  machine.pending_load \/ \E t \in Sent' : IsStart(t) /\ <<t, e>> \in SentOrder'
      <3>1. CASE e \in Sent
        BY <1>8, <2>2, <3>1 DEF Flow, Expected
      <3>2. CASE e \notin Sent
        BY <1>8, <2>2, <3>2 DEF Flow, Expected
      <3> QED
        BY <3>1, <3>2
    <2> QED
      BY <1>2, <2>1, <2>2 DEF Expected
  <1>16. OpenBeforeEnd'
    BY <1>2, <1>6, <1>8, <1>9 DEF OpenBeforeEnd
  <1>17. Shown'
    BY <1>2, <1>3, <1>5, <1>6 DEF Shown
  <1> QED
    BY <1>10, <1>11, <1>12, <1>13, <1>14, <1>15, <1>16, <1>17 DEF Flow

(* The file mpv holds comes to its end. *)
LEMMA OverFlow ==
  ASSUME Basics, Flow, UNCHANGED <<page, past, machine>>,
         mpv.file # 0, mpv'.file = 0, mpv'.stage = "none",
         Pending' \subseteq Pending, PendingOrder' \subseteq PendingOrder,
         Reached' <=> Reached,
         NEW e \in FileEvents, IsEnd(e), e.load = mpv.file,
         Sent' = Sent \cup {e}, SentOrder' = SentOrder \cup (Sent \X {e}),
         Reached /\ mpv.stage = "loading" => e.arg = "Error" \/ "stop" \in page.early,
         mpv.stage = "loaded" \/ mpv.stage = "loading"
  PROVE  Flow'
  <1>1. SwitchTypes /\ Bounds
    BY DEF Basics
  <1>2. /\ page.load \in Nat /\ mpv.file \in Nat /\ past.current \in Nat /\ past.opened \in Nat
        /\ \A f \in Sent : f.load \in Nat
        /\ past.current <= page.load
    BY <1>1, FieldsTyped, SentTyped, PostsTyped DEF Bounds
  <1>3. ~IsOpen(e) /\ ~IsStart(e) /\ OfFile(e) /\ (Unheard' <=> Unheard)
    BY DEF IsEnd, IsOpen, IsStart, OfFile, Unheard
  <1>4. \A f \in Sent : IsEnd(f) => f.load < page.load /\ mpv.file = page.load
    BY DEF Flow, InTurn
  <1>5. ~Reached => mpv.file < page.load
    BY DEF Flow, Unsent
  <1>6. Reached => mpv.file = page.load
    BY DEF Flow, Begun
  <1>7. Sending'
    BY DEF Flow, Sending
  <1>8. Unsent'
    BY <1>2, <1>3, <1>5 DEF Flow, Unsent
  <1>9. Begun'
    <2>1. \A f \in Sent' : IsOpen(f) =>
            f.load = page.load /\ past.opened < page.load /\ past.settled # page.load
      BY <1>3 DEF Flow, Begun
    <2> QED
      BY <2>1 DEF Begun
  <1>10. InTurn'
    <2>1. \A x : Rank(x)' = Rank(x)
      BY DEF Rank
    <2>2. ASSUME NEW a \in Sent, OfFile(a)
          PROVE  Rank(a) < Rank(e)
      <3>1. CASE Reached
        BY <1>2, <1>3, <1>4, <1>6, <2>2, <3>1 DEF Rank, OfFile
      <3>2. CASE ~Reached
        <4>1. ~IsOpen(a) /\ ~IsEnd(a)
          BY <1>2, <1>4, <1>5, <3>2 DEF Flow, Unsent
        <4> QED
          BY <2>2, <4>1 DEF OfFile
      <3> QED
        BY <3>1, <3>2
    <2> QED
      BY <2>1, <2>2 DEF Flow, InTurn
  <1>11. Over'
    <2>1. past.opened = page.load \/ past.settled = page.load => e.load = page.load
      BY <1>2, <1>6 DEF Flow, Unsent
    <2> QED
      BY <1>3, <2>1 DEF Flow, Over
  <1>12. Expected'
    <2>1. ASSUME e.load < past.current
          PROVE  machine.pending_load \/ \E t \in Sent : IsStart(t)
      BY <2>1 DEF Flow, Expected
    <2>2. \A t \in Sent : <<t, e>> \in SentOrder' /\ t \in Sent'
      OBVIOUS
    <2>3. ASSUME NEW f \in Sent', IsEnd(f), f.load < past.current
          PROVE  machine.pending_load \/ \E t \in Sent' : IsStart(t) /\ <<t, f>> \in SentOrder'
      <3>1. CASE f = e
        BY <2>1, <2>2, <2>3, <3>1
      <3>2. CASE f \in Sent
        BY <2>3, <3>2 DEF Flow, Expected
      <3> QED
        BY <3>1, <3>2
    <2> QED
      BY <2>3 DEF Expected
  <1>13. OpenBeforeEnd'
    <2>1. e.load = page.load /\ e.arg # "Error" =>
            past.opened = page.load \/ ~Unheard \/ "stop" \in page.early
      BY <1>2, <1>5 DEF Flow, Begun
    <2> QED
      BY <1>3, <2>1 DEF Flow, OpenBeforeEnd
  <1>14. Shown'
    BY <1>6 DEF Shown
  <1> QED
    BY <1>7, <1>8, <1>9, <1>10, <1>11, <1>12, <1>13, <1>14 DEF Flow

LEMMA MpvFlow ==
  ASSUME Basics, Flow, Execute \/ FileOpens \/ FileEnds
  PROVE  Flow'
  <1>1. SwitchTypes
    BY DEF Basics
  <1>2. mpv.file # 0 => mpv.stage \in {"loading", "loaded"}
    BY <1>1, FieldsTyped
  <1>3. CASE Execute
    <2> DEFINE c == Head(cmds)
    <2>1. /\ UNCHANGED <<page, slot, reported, queue, worker, machine, past>>
          /\ c \in Commands /\ Pending = Pending' \cup {c}
          /\ PendingOrder = PendingOrder' \cup ({c} \X Pending')
          /\ c.op = "stop" => mpv'.file = 0 /\ mpv'.stage = "none" /\ events' = Ended("Canceled")
          /\ c.op \in {"select", "play", "pause"} =>
               mpv'.file = mpv.file /\ mpv'.stage = mpv.stage /\ UNCHANGED events
      BY <1>1, <1>3, ExecuteDoes
    <2>2. CASE IsLoad(c)
      BY <1>3, <2>2, LoadedFlow
    <2> HIDE DEF c
    <2>3. IsLoad(c) \/ c.op \in {"stop", "select", "play", "pause"}
      BY <2>1 DEF Commands, IsLoad
    <2>4. ASSUME ~IsLoad(c)
          PROVE  (Reached' <=> Reached) /\ Sending'
      <3>1. Reached' <=> Reached
        BY <2>1, <2>4 DEF Reached
      <3>2. Sending'
        BY <2>1 DEF Flow, Sending
      <3> QED
        BY <3>1, <3>2
    <2>5. Reached /\ mpv.stage = "loading" => \A d \in Pending : d.op = "stop" => "stop" \in page.early
      BY DEF Flow, Begun
    <2>6. CASE c.op \in {"select", "play", "pause"}
      <3>1. ~IsLoad(c) /\ SameMessages
        BY <2>1, <2>6, SameQueues DEF IsLoad
      <3> QED
        BY <2>1, <2>4, <2>5, <2>6, <3>1, FlowSame
    <2>7. CASE c.op = "stop" /\ mpv.file = 0
      <3>1. ~IsLoad(c) /\ events' = events
        BY <2>1, <2>7 DEF IsLoad, Ended
      <3>2. SameMessages
        BY <2>1, <3>1, SameQueues
      <3>3. mpv.stage = "none"
        BY <1>1, <2>7, FieldsTyped
      <3> QED
        BY <2>1, <2>4, <2>5, <2>7, <3>1, <3>2, <3>3, FlowSame
    <2>8. CASE c.op = "stop" /\ mpv.file # 0
      <3>1. ~IsLoad(c) /\ "Canceled" \in EndReasons
        BY <2>8 DEF IsLoad, EndReasons
      <3>2. PICK e \in FileEvents :
              /\ IsEnd(e) /\ e.load = mpv.file
              /\ Sent' = Sent \cup {e} /\ SentOrder' = SentOrder \cup (Sent \X {e})
        BY <1>1, <2>1, <2>8, <3>1, Ending
      <3>3. Reached /\ mpv.stage = "loading" => "stop" \in page.early
        BY <2>1, <2>5, <2>8
      <3>4. Pending' \subseteq Pending /\ PendingOrder' \subseteq PendingOrder
        BY <2>1
      <3> QED
        BY <1>2, <2>1, <2>4, <2>8, <3>1, <3>2, <3>3, <3>4, OverFlow
    <2> QED
      BY <2>2, <2>3, <2>6, <2>7, <2>8
  <1>4. CASE FileEnds
    <2>1. /\ UNCHANGED <<page, slot, cmds, reported, queue, worker, machine, past>>
          /\ SameCommands /\ mpv.file # 0 /\ mpv'.file = 0 /\ mpv'.stage = "none"
      BY <1>1, <1>4, FileEndsDoes
    <2>2. PICK e \in FileEvents :
            /\ IsEnd(e) /\ e.load = mpv.file
            /\ e.arg = (IF mpv.stage = "loading" THEN "Error" ELSE "Eof")
            /\ Sent' = Sent \cup {e} /\ SentOrder' = SentOrder \cup (Sent \X {e})
      BY <1>1, <1>4, FileEndsDoes
    <2>3. Pending' = Pending /\ PendingOrder' = PendingOrder
      BY <2>1 DEF SameCommands
    <2>4. Reached' <=> Reached
      BY <2>1, <2>3 DEF Reached
    <2> QED
      BY <1>2, <2>1, <2>2, <2>3, <2>4, OverFlow
  <1>5. CASE FileOpens
    <2>1. /\ UNCHANGED <<page, slot, cmds, reported, queue, worker, machine, past>>
          /\ SameCommands /\ mpv.stage = "loading" /\ mpv.file # 0
          /\ mpv'.stage = "loaded" /\ mpv'.file = mpv.file
      BY <1>1, <1>5, FileOpensDoes
    <2>2. PICK e \in FileEvents :
            /\ IsOpen(e) /\ e.load = mpv.file
            /\ Sent' = Sent \cup {e} /\ SentOrder' = SentOrder \cup (Sent \X {e})
      BY <1>1, <1>5, FileOpensDoes
    <2>3. Pending' = Pending /\ PendingOrder' = PendingOrder
      BY <2>1 DEF SameCommands
    <2>4. Reached' /\ Reached /\ mpv.file = page.load
      BY <2>1, <2>3 DEF Reached, Flow, Unsent, Begun
    <2>5. Unheard /\ past.opened < page.load /\ past.settled # page.load
      BY <2>1, <2>4 DEF Flow, Begun
    <2>6. /\ ~IsEnd(e) /\ ~IsStart(e) /\ OfFile(e) /\ ~Unheard'
          /\ page.load \in Nat /\ past.opened \in Nat /\ \A f \in Sent : f.load \in Nat
      BY <1>1, <2>2, FieldsTyped, SentTyped, PostsTyped DEF IsEnd, IsOpen, IsStart, OfFile, Unheard
    <2>7. Sending' /\ Unsent'
      BY <2>1, <2>3, <2>4 DEF Flow, Sending, Unsent
    <2>8. Begun'
      BY <2>1, <2>2, <2>4, <2>5, <2>6 DEF Begun, Unheard
    <2>9. InTurn'
      <3>1. \A x : Rank(x)' = Rank(x)
        BY <2>1 DEF Rank
      <3>2. \A a \in Sent : OfFile(a) => IsEnd(a) /\ a.load < page.load
        BY <2>1, <2>5 DEF OfFile, Unheard, Flow, InTurn
      <3>3. \A a \in Sent : OfFile(a) => Rank(a) < Rank(e)
        BY <2>2, <2>5, <2>6, <3>2 DEF Rank, Unheard
      <3>4. \A a, b : <<a, b>> \in SentOrder' => <<a, b>> \in SentOrder \/ (a \in Sent /\ b = e)
        BY <2>2
      <3>5. \A a, b : <<a, b>> \in SentOrder' /\ OfFile(a) /\ OfFile(b) => Rank(a)' < Rank(b)'
        BY <3>1, <3>3, <3>4 DEF Flow, InTurn
      <3>6. \A f \in Sent' : IsEnd(f) => f.load < page.load /\ mpv.file = page.load
        BY <2>1, <2>2, <2>6 DEF Flow, InTurn
      <3> QED
        BY <2>1, <3>5, <3>6 DEF InTurn
    <2>10. Over'
      BY <2>1, <2>5, <2>6 DEF Over
    <2>11. Expected'
      BY <2>1, <2>2, <2>6 DEF Flow, Expected
    <2>12. OpenBeforeEnd'
      BY <2>6 DEF OpenBeforeEnd
    <2>13. Shown'
      BY <2>1, <2>5, <2>6 DEF Shown
    <2> QED
      BY <2>7, <2>8, <2>9, <2>10, <2>11, <2>12, <2>13 DEF Flow
  <1> QED
    BY <1>3, <1>4, <1>5

(* The worker applies the announcement of a load ... *)
LEMMA StartFlow ==
  ASSUME Basics, Flow, ApplyNext, NEW in, in = Head(queue), IsStart(in)
  PROVE  Flow'
  <1>1. /\ UNCHANGED <<page, slot, cmds, mpv, events, reported>> /\ SameCommands
        /\ Sent = Sent' \cup {in} /\ in \in Posts
        /\ SentOrder = SentOrder' \cup ({in} \X Sent')
        /\ past'.current = in.load /\ past'.opened = past.opened
        /\ past'.settled = past.settled /\ machine'.pending_load
    BY InputApplied DEF IsStart, IsOpen, IsEnd, IsPause
  <1>2. /\ ~IsOpen(in) /\ ~IsEnd(in) /\ ~OfFile(in)
        /\ page.load \in Nat /\ past.current \in Nat /\ in.load \in Nat
    BY <1>1, FieldsTyped, PostsTyped DEF IsStart, IsOpen, IsEnd, OfFile, Basics
  <1>3. past.current < page.load
    BY <1>1, <1>2 DEF Basics, Bounds
  <1>4. past.opened # page.load /\ past.settled # page.load
    BY <1>2, <1>3 DEF Flow, Over
  <1>5. /\ Reached' <=> Reached
        /\ Unheard' <=> Unheard
        /\ Pending' = Pending /\ PendingOrder' = PendingOrder
    BY <1>1, <1>2 DEF Reached, Unheard, SameCommands
  <1>6. Sending' /\ Unsent'
    BY <1>1, <1>5 DEF Flow, Sending, Unsent
  <1>7. Begun'
    BY <1>1, <1>5 DEF Flow, Begun
  <1>8. InTurn'
    <2>1. \A x : Rank(x)' = Rank(x)
      BY <1>1 DEF Rank
    <2> QED
      BY <1>1, <2>1 DEF Flow, InTurn
  <1>9. Over' /\ Expected'
    BY <1>1, <1>4 DEF Over, Expected
  <1>10. OpenBeforeEnd'
    BY <1>1, <1>5 DEF Flow, OpenBeforeEnd
  <1>11. Shown'
    BY <1>1, <1>2, <1>3, <1>4, <1>5 DEF Flow, Shown
  <1> QED
    BY <1>6, <1>7, <1>8, <1>9, <1>10, <1>11 DEF Flow

(* ... that its file opened ... *)
LEMMA OpenFlow ==
  ASSUME Basics, Flow, ApplyNext, NEW in, in = Head(queue), IsOpen(in)
  PROVE  Flow'
  <1>1. /\ UNCHANGED <<page, slot, cmds, mpv, events, reported>> /\ SameCommands
        /\ Sent = Sent' \cup {in} /\ in \in Posts
        /\ SentOrder = SentOrder' \cup ({in} \X Sent')
        /\ past'.current = past.current /\ past'.opened = in.load
        /\ past'.settled = past.settled /\ ~machine'.pending_load
        /\ machine'.phase = "Starting"
    BY InputApplied DEF IsStart, IsOpen, IsEnd, IsPause
  <1>2. /\ ~IsStart(in) /\ ~IsEnd(in) /\ OfFile(in)
        /\ page.load \in Nat /\ past.current \in Nat
    BY <1>1, FieldsTyped DEF IsStart, IsOpen, IsEnd, OfFile, Basics
  <1>3. /\ in \in Sent /\ \A e \in Sent' : e \in Sent /\ <<in, e>> \in SentOrder
        /\ SentOrder' \subseteq SentOrder
    BY <1>1
  <1>4. in.load = page.load /\ past.opened < page.load /\ past.settled # page.load
    BY <1>3 DEF Flow, Begun
  <1>5. Reached
    BY <1>3 DEF Flow, Unsent
  <1>6. Pending' = Pending /\ PendingOrder' = PendingOrder /\ Reached'
    BY <1>1, <1>5 DEF Reached, SameCommands
  <1>7. mpv.stage # "loading" /\ mpv.file \in {0, page.load}
    BY <1>3, <1>5 DEF Flow, Begun, Unheard
  <1>8. past.current = page.load
    <2> SUFFICES ASSUME past.current < page.load
                 PROVE  FALSE
      BY <1>2 DEF Basics, Bounds
    <2>1. PICK s \in Sent : IsStart(s) /\ s.load = page.load
      BY DEF Basics, Announced
    <2>2. <<in, s>> \in SentOrder
      BY <1>1, <1>2, <2>1
    <2> QED
      BY <1>2, <1>4, <2>1, <2>2 DEF Basics, Announced
  <1>9. \A e \in Sent' : ~IsOpen(e) /\ (IsEnd(e) => e.load = page.load)
    <2> SUFFICES ASSUME NEW e \in Sent', OfFile(e)
                 PROVE  ~IsOpen(e) /\ e.load = page.load
      BY DEF OfFile
    <2>1. Rank(in) < Rank(e)
      BY <1>2, <1>3 DEF Flow, InTurn
    <2> QED
      BY <2>1 DEF Rank
  <1>10. Sending' /\ Unsent'
    BY <1>1, <1>6 DEF Flow, Sending, Unsent
  <1>11. Begun'
    BY <1>1, <1>4, <1>7, <1>9 DEF Begun
  <1>12. InTurn'
    <2>1. \A x : Rank(x)' = Rank(x)
      BY <1>1 DEF Rank
    <2> QED
      BY <1>1, <1>3, <2>1 DEF Flow, InTurn
  <1>13. Over'
    BY <1>1, <1>8, <1>9 DEF Over, Unheard
  <1>14. Expected'
    BY <1>1, <1>2, <1>7, <1>8, <1>9 DEF Expected
  <1>15. OpenBeforeEnd'
    BY <1>1, <1>4 DEF OpenBeforeEnd
  <1>16. Shown'
    <2>1. Reached /\ mpv.file = 0 => \E e \in Sent' : IsEnd(e) /\ e.load = page.load
      BY <1>1, <1>2 DEF Flow, Shown
    <2> QED
      BY <1>1, <1>5, <2>1 DEF Shown
  <1> QED
    BY <1>10, <1>11, <1>12, <1>13, <1>14, <1>15, <1>16 DEF Flow

(* ... a pause or a resumption ... *)
LEMMA PauseFlow ==
  ASSUME Basics, Flow, ApplyNext, NEW in, in = Head(queue), IsPause(in)
  PROVE  Flow'
  <1>1. /\ UNCHANGED <<page, slot, cmds, mpv, events, reported>> /\ SameCommands
        /\ Sent = Sent' \cup {in} /\ in \in Posts
        /\ SentOrder = SentOrder' \cup ({in} \X Sent')
        /\ past'.current = past.current /\ past'.opened = past.opened
        /\ past'.settled = past.settled
             \/ (past'.settled = past.current /\ past.opened = past.current)
        /\ machine'.pending_load = machine.pending_load
        /\ machine.phase = "Stopped" => machine'.phase = "Stopped"
        /\ machine.phase # "Stopped" => machine'.phase # "Stopped"
    BY InputApplied DEF IsStart, IsOpen, IsEnd, IsPause
  <1>2. ~IsStart(in) /\ ~IsOpen(in) /\ ~IsEnd(in) /\ ~OfFile(in)
    BY DEF IsStart, IsOpen, IsEnd, IsPause, OfFile
  <1>3. /\ Reached' <=> Reached
        /\ Unheard' <=> Unheard
        /\ Pending' = Pending /\ PendingOrder' = PendingOrder
    BY <1>1, <1>2 DEF Reached, Unheard, SameCommands
  <1>4. past'.settled = page.load => past.settled = page.load \/ past.opened = page.load
    BY <1>1
  <1>5. page.load \in Nat /\ past.opened \in Nat
    BY FieldsTyped DEF Basics
  <1>6. Sending'
    BY <1>1, <1>3 DEF Flow, Sending
  <1>7. Unsent'
    BY <1>1, <1>3, <1>4, <1>5 DEF Flow, Unsent
  <1>8. Begun'
    BY <1>1, <1>3, <1>4, <1>5 DEF Flow, Begun
  <1>9. InTurn'
    <2>1. \A x : Rank(x)' = Rank(x)
      BY <1>1 DEF Rank
    <2> QED
      BY <1>1, <2>1 DEF Flow, InTurn
  <1>10. Over'
    BY <1>1, <1>3, <1>4 DEF Flow, Over
  <1>11. Expected'
    BY <1>1, <1>2 DEF Flow, Expected
  <1>12. OpenBeforeEnd'
    BY <1>1, <1>3 DEF Flow, OpenBeforeEnd
  <1>13. Shown'
    <2>1. StopShown => StopShown'
      BY <1>1 DEF StopShown
    <2> QED
      BY <1>1, <1>2, <1>3, <2>1 DEF Flow, Shown
  <1> QED
    BY <1>6, <1>7, <1>8, <1>9, <1>10, <1>11, <1>12, <1>13 DEF Flow

(* ... or that a file ended. *)
LEMMA EndFlow ==
  ASSUME Basics, Flow, ApplyNext, NEW in, in = Head(queue), IsEnd(in)
  PROVE  Flow'
  <1>1. /\ UNCHANGED <<page, slot, cmds, mpv, events, reported>> /\ SameCommands
        /\ Sent = Sent' \cup {in} /\ in \in Posts
        /\ SentOrder = SentOrder' \cup ({in} \X Sent')
        /\ past'.current = past.current /\ past'.opened = past.opened
        /\ past'.settled = past.settled
             \/ (past'.settled = past.current /\ in.load = past.current)
        /\ ~machine'.pending_load
        /\ machine'.phase = (IF machine.pending_load /\ in.arg # "Error" THEN "Starting"
                             ELSE "Stopped")
    BY InputApplied DEF IsStart, IsOpen, IsEnd, IsPause
  <1>2. /\ ~IsStart(in) /\ ~IsOpen(in) /\ OfFile(in)
        /\ in.load \in Nat /\ page.load \in Nat /\ past.opened \in Nat /\ past.current \in Nat
        /\ \A e \in Sent : e.load \in Nat
    BY <1>1, PostsTyped, FieldsTyped, SentTyped
       DEF IsStart, IsOpen, IsEnd, IsPause, OfFile, Basics
  <1>3. /\ in \in Sent /\ \A e \in Sent' : e \in Sent /\ <<in, e>> \in SentOrder
        /\ SentOrder' \subseteq SentOrder
    BY <1>1
  <1>4. /\ Reached' <=> Reached
        /\ Unheard' <=> Unheard
        /\ Pending' = Pending /\ PendingOrder' = PendingOrder
    BY <1>1, <1>2 DEF Reached, Unheard, SameCommands
  <1>5. mpv.file # 0 => in.load < page.load /\ mpv.file = page.load
    BY <1>3 DEF Flow, InTurn
  <1>6. \A e \in Sent' : OfFile(e) => Rank(in) < Rank(e)
    BY <1>2, <1>3 DEF Flow, InTurn
  <1>7. in.load = page.load => \A e \in Sent' : ~OfFile(e)
    BY <1>2, <1>6 DEF Rank
  <1>8. \A e \in Sent' : IsEnd(e) => e.load = page.load
    BY <1>2, <1>6 DEF Rank, OfFile, IsOpen, IsEnd
  <1>9. past'.settled = page.load => past.settled = page.load \/ in.load = page.load
    BY <1>1
  <1>10. Sending'
    BY <1>1, <1>4 DEF Flow, Sending
  <1>11. Unsent'
    <2>1. ~Reached => in.load < page.load
      BY <1>3 DEF Flow, Unsent
    <2> QED
      BY <1>1, <1>2, <1>3, <1>4, <1>9, <2>1 DEF Flow, Unsent
  <1>12. Begun'
    <2>1. \A e \in Sent' : IsOpen(e) =>
            e.load = page.load /\ past'.opened < page.load /\ past'.settled # page.load
      BY <1>1, <1>3, <1>7, <1>9 DEF Flow, Begun, OfFile
    <2>2. mpv.stage = "loading" => mpv.file # 0
      BY FieldsTyped DEF Basics
    <2>3. Reached /\ mpv.stage = "loading" => past'.settled # page.load
      BY <1>2, <1>5, <1>9, <2>2 DEF Flow, Begun
    <2> QED
      BY <1>1, <1>4, <2>1, <2>3 DEF Flow, Begun
  <1>13. InTurn'
    <2>1. \A x : Rank(x)' = Rank(x)
      BY <1>1 DEF Rank
    <2> QED
      BY <1>1, <1>3, <2>1 DEF Flow, InTurn
  <1>14. Over'
    <2>1. past'.opened = page.load \/ past'.settled = page.load => past.current = page.load
      BY <1>1 DEF Flow, Over
    <2> QED
      BY <1>1, <1>4, <1>8, <2>1 DEF Flow, Over
  <1>15. Expected'
    <2>1. past.current <= page.load
      BY DEF Basics, Bounds
    <2>2. ~(mpv.file # 0 /\ mpv.file < past.current)
      BY <1>2, <1>5, <2>1
    <2>3. \A e \in Sent' : IsEnd(e) => ~(e.load < past.current)
      BY <1>2, <1>8, <2>1
    <2> QED
      BY <1>1, <2>2, <2>3 DEF Expected
  <1>16. OpenBeforeEnd'
    BY <1>1, <1>3, <1>4 DEF Flow, OpenBeforeEnd
  <1>17. Shown'
    <2>1. ~(past.opened = page.load /\ mpv.file # 0)
      BY <1>2, <1>3, <1>5 DEF Flow, Over
    <2>2. ASSUME Reached, mpv.file = 0, in.load # page.load
          PROVE  \E e \in Sent' : IsEnd(e) /\ e.load = page.load
      BY <1>1, <1>2, <1>3, <2>2 DEF Flow, Shown
    <2>3. ASSUME in.load = page.load
          PROVE  past.current = page.load /\ (\A e \in Sent' : ~OfFile(e)) /\ StopShown'
      <3>1. past.current = page.load
        <4> SUFFICES ASSUME past.current < page.load
                     PROVE  FALSE
          BY <1>2 DEF Basics, Bounds
        <4>1. PICK s \in Sent : IsStart(s) /\ s.load = page.load
          BY DEF Basics, Announced
        <4>2. <<in, s>> \in SentOrder
          BY <1>1, <1>2, <4>1
        <4> QED
          BY <1>2, <2>3, <4>1, <4>2 DEF Basics, Announced
      <3>2. \A e \in Sent' : ~OfFile(e)
        BY <1>7, <2>3
      <3>3. Unheard
        BY <1>1, <1>2, <3>2 DEF Unheard, OfFile
      <3>4. ASSUME machine.pending_load, in.arg # "Error"
            PROVE  "stop" \in page.early /\ past.opened # page.load
        <4>1. past.opened # page.load
          BY <3>4 DEF Flow, Over
        <4> QED
          BY <1>3, <2>3, <3>3, <3>4, <4>1 DEF Flow, OpenBeforeEnd
      <3>5. StopShown'
        BY <1>1, <3>4 DEF StopShown
      <3> QED
        BY <3>1, <3>2, <3>5
    <2> QED
      BY <1>1, <1>4, <2>1, <2>2, <2>3 DEF Shown
  <1> QED
    BY <1>10, <1>11, <1>12, <1>13, <1>14, <1>15, <1>16, <1>17 DEF Flow

LEMMA WorkerFlow ==
  ASSUME Basics, Flow,
         IngestEvent \/ IngestPause \/ Recv \/ TakeSelection \/ ApplySelection \/ ApplyNext
  PROVE  Flow'
  <1>1. SwitchTypes
    BY DEF Basics
  <1>2. Reached /\ mpv.stage = "loading" => \A c \in Pending : c.op = "stop" => "stop" \in page.early
    BY DEF Flow, Begun
  <1>3. CASE IngestEvent \/ Recv \/ TakeSelection
    <2>1. UNCHANGED <<page, mpv, past, machine>> /\ SameMessages /\ SameCommands
      BY <1>1, <1>3, IngestEventDoes, RecvDoes, TakeSelectionDoes
    <2>2. Pending' = Pending /\ PendingOrder' = PendingOrder
      BY <2>1 DEF SameCommands
    <2>3. (Reached' <=> Reached) /\ Sending'
      BY <2>1, <2>2 DEF Reached, Flow, Sending
    <2> QED
      BY <1>2, <2>1, <2>2, <2>3, FlowSame
  <1>4. CASE IngestPause
    <2>1. UNCHANGED <<page, mpv, past, machine>> /\ SameCommands
      BY <1>1, <1>4, IngestPauseDoes
    <2>2. PICK e \in Posts :
            /\ IsPause(e) /\ Sent' = Sent \cup {e}
            /\ SentOrder' =
                 SentOrder \cup (Messages(queue) \X {e}) \cup ({e} \X Messages(events))
      BY <1>1, <1>4, IngestPauseDoes
    <2>3. /\ SentOrder \subseteq SentOrder'
          /\ \A a, b : <<a, b>> \in SentOrder' => <<a, b>> \in SentOrder \/ a = e \/ b = e
      BY <2>2
    <2> QED
      BY <2>1, <2>2, <2>3, FlowPause
  <1>5. CASE ApplySelection
    <2>1. UNCHANGED <<page, mpv, past, machine>> /\ SameMessages
      BY <1>1, <1>5, ApplySelectionDoes
    <2>2. PICK c \in Commands :
            /\ c.op \in {"select", "play"} /\ Pending' = Pending \cup {c}
            /\ PendingOrder' = PendingOrder \cup (Pending \X {c})
      BY <1>1, <1>5, ApplySelectionDoes
    <2>3. ~IsLoad(c) /\ c.op # "stop"
      BY <2>2 DEF IsLoad
    <2>4. Reached' <=> Reached
      BY <2>1, <2>2, <2>3 DEF Reached
    <2>5. Sending'
      <3>1. \A d, f : <<d, f>> \in PendingOrder' /\ IsLoad(d) =>
              ~IsLoad(f) /\ (f.op = "stop" => "stop" \in page.early)
        BY <2>2, <2>3 DEF Flow, Sending
      <3> QED
        BY <2>1, <2>2, <2>3, <3>1 DEF Flow, Sending
    <2> QED
      BY <1>2, <2>1, <2>2, <2>3, <2>4, <2>5, FlowSame
  <1>6. CASE ApplyNext
    <2>1. Head(queue) \in Posts
      BY <1>6, InputApplied
    <2>2. \/ IsStart(Head(queue)) \/ IsOpen(Head(queue))
          \/ IsPause(Head(queue)) \/ IsEnd(Head(queue))
      BY <2>1, PostsTyped DEF IsStart, IsOpen, IsPause, IsEnd
    <2> QED
      BY <1>6, <2>2, StartFlow, OpenFlow, PauseFlow, EndFlow
  <1> QED
    BY <1>3, <1>4, <1>5, <1>6

(* The history only grows between loads, and a load keeps it only if empty   *)
(* or starts it anew.                                                       *)
LEMMA FlowNext ==
  ASSUME Basics, Single => Flow, SwitchNext, Single'
  PROVE  Flow'
  <1>1. SwitchTypes
    BY DEF Basics
  <1>2. CASE PlayerLoad
    <2>1. page'.early = EarlyAfterLoad
      BY <1>1, <1>2, PlayerLoadDoes
    <2>2. Quiet \/ (Settled /\ page.early = {})
      BY <2>1 DEF Single, EarlyAfterLoad
    <2>3. page.early = {} => Single
      BY DEF Single
    <2> QED
      BY <1>2, <2>2, <2>3, LoadFlow
  <1>3. CASE UrlRefused \/ StashSelection \/ SendLoadfile
    <2>1. page'.early = page.early
      BY <1>1, <1>3, UrlRefusedDoes, StashSelectionDoes, SendLoadfileDoes
    <2> QED
      BY <1>3, <2>1, PageFlow DEF Single
  <1>4. ASSUME NEW op \in {"stop", "play", "pause"}, Press(op)
        PROVE  Flow'
    <2>1. page'.early = EarlyAfter(op)
      BY <1>1, <1>4, PressDoes
    <2>2. Single
      BY <2>1 DEF Single, EarlyAfter
    <2> QED
      BY <1>4, <2>2, PageFlow
  <1>5. CASE Execute \/ FileOpens \/ FileEnds
    <2>1. page' = page
      BY <1>5 DEF Execute, FileOpens, FileEnds
    <2> QED
      BY <1>5, <2>1, MpvFlow DEF Single
  <1>6. CASE IngestEvent \/ IngestPause \/ Recv \/ TakeSelection \/ ApplySelection \/ ApplyNext
    <2>1. page' = page
      BY <1>6 DEF IngestEvent, IngestPause, Recv, TakeSelection, ApplySelection, ApplyNext
    <2> QED
      BY <1>6, <2>1, WorkerFlow DEF Single
  <1> QED
    BY <1>2, <1>3, <1>4, <1>5, <1>6 DEF SwitchNext

-----------------------------------------------------------------------------
(* The selection of the last load, if no play came early either.            *)

(* A stage is left only by what it speaks of. *)
LEMMA StageSame ==
  ASSUME Stage, SameMessages, SameCommands,
         page'.load = page.load, page'.step = page.step, page'.lost = page.lost,
         page'.early = page.early, UNCHANGED <<slot, mpv, past>>,
         worker'.todo = worker.todo, worker'.step = worker.step, worker'.load = worker.load
  PROVE  Stage'
  <1>1. /\ Reached' <=> Reached
        /\ Unheard' <=> Unheard
        /\ Hushed' <=> Hushed
        /\ \A c : Hush(c)' <=> Hush(c)
        /\ Idle' <=> Idle
        /\ Selection' = Selection
        /\ Sent' = Sent /\ SentOrder' = SentOrder /\ Pending' = Pending
        /\ PendingOrder' = PendingOrder
    BY DEF Reached, Unheard, Hushed, Hush, Idle, Selection, SameMessages, SameCommands
  <1>2. (Held' <=> Held) /\ (Opened' <=> Opened)
    BY <1>1 DEF Held, Opened
  <1>3. (Waiting => Waiting') /\ (Opening => Opening')
    BY <1>1, <1>2 DEF Waiting, Opening
  <1>4. (Due => Due') /\ (Taken => Taken') /\ (Selected => Selected')
    BY <1>1, <1>2 DEF Due, Taken, Selected
  <1>5. Written => Written'
    BY <1>1, <1>2 DEF Written
  <1>6. (Done => Done') /\ (Gone => Gone')
    BY <1>1 DEF Done, Gone
  <1> QED
    BY <1>3, <1>4, <1>5, <1>6 DEF Stage

(* Before mpv knows the load, it waits; while a load waits, mpv does not. *)
LEMMA Unreached == ASSUME Stage, ~Reached PROVE Waiting
  BY DEF Stage, Opening, Due, Taken, Written, Selected, Opened, Held, Done, Gone

(* A load whose selection is still due has not settled. *)
LEMMA Unsettled ==
  ASSUME SwitchTypes, Flow, Opening \/ Opened
  PROVE  ~Settled /\ Reached
  <1>1. Reached /\ mpv.file # 0 /\ ~page.lost
    BY DEF Opening, Opened, Held, Reached
  <1>2. CASE Opened
    BY <1>1, <1>2 DEF Opened, Settled
  <1>3. CASE Opening
    <2>1. past.opened # page.load /\ mpv.stage \in {"loading", "loaded"}
      BY <1>1, <1>3, FieldsTyped DEF Opening
    <2>2. past.settled # page.load
      BY <1>1, <2>1 DEF Flow, Begun, Unheard
    <2> QED
      BY <1>1, <2>2 DEF Settled
  <1> QED
    BY <1>2, <1>3

(* A load whose file opened was told of. *)
LEMMA OpenedQuiet == ASSUME Flow, Opened PROVE Unheard
  BY DEF Flow, Over, Opened

LEMMA LoadStage ==
  ASSUME Basics, PlayerLoad, Flow', Quiet \/ (Settled /\ page.early = {} /\ Flow /\ Stage)
  PROVE  Stage'
  <1>1. SwitchTypes
    BY DEF Basics
  <1>2. /\ UNCHANGED <<slot, cmds, mpv, worker>> /\ SameCommands
        /\ page'.step = "posted"
    BY <1>1, PlayerLoadDoes
  <1>3. Idle /\ \A c \in Pending : c.op # "select"
    <2>1. CASE Quiet
      <3>1. Pending = {} /\ Idle
        BY <2>1 DEF Quiet, Pending, Messages, Idle
      <3> QED
        BY <3>1
    <2>2. CASE Settled /\ page.early = {} /\ Flow /\ Stage
      <3>1. ~Opening /\ ~Opened /\ ~Gone
        BY <1>1, <2>2, Unsettled DEF Gone
      <3>2. Waiting \/ Done
        BY <2>2, <3>1 DEF Stage, Due, Taken, Written, Selected
      <3> QED
        BY <3>2 DEF Waiting, Done
    <2> QED
      BY <2>1, <2>2
  <1>4. ~Reached'
    BY <1>2 DEF Reached
  <1>5. \A c, d : <<c, d>> \in PendingOrder' => ~IsLoad(c)
    BY <1>2, OrderTyped DEF Flow, Sending
  <1> QED
    BY <1>2, <1>3, <1>4, <1>5 DEF Stage, Waiting, Idle, SameCommands

(* The url is refused, or the selection is stashed and the file requested. *)
LEMMA RequestStage ==
  ASSUME Basics, Flow, Flow', Stage, UrlRefused \/ StashSelection \/ SendLoadfile
  PROVE  Stage'
  <1>1. SwitchTypes
    BY DEF Basics
  <1>2. page.step # "idle"
    BY DEF UrlRefused, StashSelection, SendLoadfile
  <1>3. Waiting
    BY <1>2, Unreached DEF Reached
  <1>4. worker' = worker
    BY DEF UrlRefused, StashSelection, SendLoadfile
  <1>5. Idle'
    BY <1>3, <1>4 DEF Waiting, Idle
  <1>6. \A c \in Pending : ~IsLoad(c)
    BY <1>2 DEF Flow, Sending
  <1>7. CASE UrlRefused \/ StashSelection
    <2>1. /\ SameCommands /\ (page'.lost \/ (page'.step = "stashed" /\ slot' = page.load))
          /\ page'.load = page.load
      BY <1>1, <1>7, UrlRefusedDoes, StashSelectionDoes
    <2>2. ~Reached'
      BY <2>1 DEF Reached
    <2>3. page'.step = "stashed" \/ (page'.step = "idle" /\ ~page'.lost) => slot' = page'.load
      <3>1. CASE UrlRefused
        <4>1. page'.step = "idle" /\ page'.lost
          BY <1>1, <3>1, UrlRefusedDoes
        <4> QED
          BY <4>1
      <3>2. CASE StashSelection
        BY <1>1, <3>2, StashSelectionDoes
      <3> QED
        BY <1>7, <3>1, <3>2
    <2>4. \A c, d : <<c, d>> \in PendingOrder' => ~IsLoad(c)
      BY <1>6, <2>1, OrderTyped DEF SameCommands
    <2> QED
      BY <1>3, <1>5, <2>1, <2>2, <2>3, <2>4 DEF Stage, Waiting, SameCommands
  <1>8. CASE SendLoadfile
    <2>1. /\ slot' = slot /\ page.step = "stashed" /\ page'.load = page.load
      BY <1>1, <1>8, SendLoadfileDoes
    <2>2. PICK c \in Commands :
            /\ IsLoad(c) /\ Pending' = Pending \cup {c}
            /\ PendingOrder' = PendingOrder \cup (Pending \X {c})
      BY <1>1, <1>8, SendLoadfileDoes
    <2>3. ~Reached' /\ c.op # "select"
      BY <2>2 DEF Reached, IsLoad
    <2>4. \A d, f : <<d, f>> \in PendingOrder' => ~IsLoad(d)
      BY <1>6, <2>2, OrderTyped
    <2>5. slot' = page'.load
      BY <1>3, <2>1 DEF Waiting
    <2> QED
      BY <1>3, <1>5, <2>2, <2>3, <2>4, <2>5 DEF Stage, Waiting
  <1> QED
    BY <1>7, <1>8

(* The page stops, pauses, or resumes what has settled. *)
LEMMA PressStage ==
  ASSUME Basics, Flow, Stage, NEW op \in {"stop", "play", "pause"}, Press(op),
         "play" \notin page'.early
  PROVE  Stage'
  <1>1. SwitchTypes
    BY DEF Basics
  <1>2. /\ UNCHANGED <<slot, mpv, worker, past>> /\ SameMessages
        /\ page'.step = page.step /\ page'.lost = page.lost
        /\ page'.load = page.load /\ page'.early = EarlyAfter(op)
    BY <1>1, PressDoes
  <1>3. PICK c \in Commands :
          /\ c.op = op /\ Pending' = Pending \cup {c}
          /\ PendingOrder' = PendingOrder \cup (Pending \X {c})
    BY <1>1, PressDoes
  <1>4. /\ page.early \subseteq page'.early /\ c.op # "select" /\ ~IsLoad(c)
        /\ \A d : Hush(d) => Hush(d)'
    BY <1>2, <1>3 DEF EarlyAfter, Hush, IsLoad
  <1>5. ~Settled => Hush(c)'
    BY <1>2, <1>3 DEF EarlyAfter, Hush
  <1>6. /\ Reached' <=> Reached
        /\ Unheard' <=> Unheard
        /\ Idle' <=> Idle
        /\ Held' <=> Held
        /\ Selection' = Selection
        /\ Sent' = Sent /\ SentOrder' = SentOrder
    BY <1>2, <1>3, <1>4 DEF Reached, Unheard, Idle, Held, Selection, SameMessages
  <1>7. (Opened' <=> Opened) /\ (~Settled /\ Hushed => Hushed')
    BY <1>2, <1>3, <1>4, <1>5, <1>6 DEF Opened, Hushed
  <1>8. Opening \/ Opened => ~Settled
    BY <1>1, Unsettled
  <1>9. CASE Waiting
    <2>1. \A d \in Pending : IsLoad(d) => ~Settled
      BY <1>9 DEF Flow, Sending, Unsent, Settled, Waiting
    <2>2. \A d, f : <<d, f>> \in PendingOrder' /\ IsLoad(d) => Hush(f)'
      BY <1>3, <1>4, <1>5, <1>9, <2>1 DEF Waiting
    <2> QED
      BY <1>2, <1>3, <1>4, <1>6, <1>9, <2>2 DEF Stage, Waiting
  <1>10. CASE Opening
    BY <1>2, <1>6, <1>7, <1>8, <1>10 DEF Stage, Opening
  <1>11. CASE Due \/ Taken \/ Selected
    BY <1>2, <1>6, <1>7, <1>8, <1>11 DEF Stage, Due, Taken, Selected
  <1>12. CASE Written
    <2>1. \A d, f : <<d, f>> \in PendingOrder' /\ f.op = "select" => Hush(d)'
      BY <1>3, <1>4, <1>12 DEF Written
    <2>2. Opened' /\ Hush(c)'
      BY <1>5, <1>7, <1>8, <1>12 DEF Written
    <2>3. \A d \in Pending' :
            Hush(d)' \/ d = Selection' \/ (d.op = "play" /\ worker'.step = "idle")
      BY <1>2, <1>3, <1>4, <1>6, <1>12, <2>2 DEF Written
    <2>4. Written'
      BY <1>2, <1>3, <1>6, <1>12, <2>1, <2>2, <2>3 DEF Written
    <2> QED
      BY <2>4 DEF Stage
  <1>13. CASE Done
    BY <1>2, <1>3, <1>4, <1>6, <1>13 DEF Stage, Done
  <1>14. CASE Gone
    BY <1>2, <1>4, <1>6, <1>14 DEF Stage, Gone
  <1> QED
    BY <1>9, <1>10, <1>11, <1>12, <1>13, <1>14 DEF Stage

(* mpv executes the page's command or the worker's. *)
LEMMA ExecuteStage ==
  ASSUME Basics, Flow, Flow', Stage, Execute
  PROVE  Stage'
  <1> DEFINE c == Head(cmds)
  <1>1. SwitchTypes
    BY DEF Basics
  <1>2. /\ UNCHANGED <<page, slot, reported, queue, worker, machine, past>>
        /\ c \in Commands /\ Pending = Pending' \cup {c}
        /\ PendingOrder = PendingOrder' \cup ({c} \X Pending')
        /\ IsLoad(c) => /\ mpv'.file = c.load /\ mpv'.stage = "loading"
                        /\ mpv'.pause /\ mpv'.selected = 0
        /\ c.op = "stop" => mpv'.file = 0 /\ mpv'.stage = "none"
        /\ c.op \in {"select", "play", "pause"} =>
             /\ mpv'.file = mpv.file /\ mpv'.stage = mpv.stage
             /\ mpv'.pause = (IF c.op = "select" THEN mpv.pause ELSE c.op = "pause")
             /\ mpv'.selected =
                  (IF c.op = "select" /\ mpv.stage = "loaded" THEN c.load ELSE mpv.selected)
             /\ UNCHANGED events
    BY <1>1, ExecuteDoes
  <1>3. IsLoad(c) \/ c.op \in {"stop", "select", "play", "pause"}
    BY <1>2 DEF Commands, IsLoad
  <1>4. \A e \in Sent' : IsOpen(e) \/ IsPause(e) => e \in Sent
    <2>1. events' = events \/ events' = Ended("Canceled")
      BY <1>3, <1>2, <1>1, ExecuteDoes
    <2>2. "Canceled" \in EndReasons
      BY DEF EndReasons
    <2>3. events' = Ended("Canceled") =>
            \A e \in Sent' : e \in Sent \/ IsEnd(e)
      BY <1>1, <1>2, <2>2, Ending
    <2>4. events' = events => Sent' = Sent
      BY <1>2 DEF Sent
    <2> QED
      BY <2>1, <2>3, <2>4 DEF IsEnd, IsOpen, IsPause
  <1> HIDE DEF c
  <1>5. /\ c \in Pending /\ Pending' \subseteq Pending /\ PendingOrder' \subseteq PendingOrder
        /\ \A d \in Pending' : <<c, d>> \in PendingOrder
    BY <1>2
  <1>6. /\ Idle' <=> Idle
        /\ Selection' = Selection
        /\ \A d : Hush(d)' <=> Hush(d)
        /\ Unheard => Unheard'
        /\ ~IsLoad(c) => (Reached' <=> Reached)
    BY <1>2, <1>4 DEF Idle, Selection, Hush, Unheard, Reached
  <1>7. CASE IsLoad(c)
    <2>1. /\ c.load = page.load /\ page.load > 0 /\ page.step = "idle" /\ ~page.lost
          /\ ~Reached
      BY <1>1, <1>5, <1>7 DEF Flow, Sending, Basics, Bounds, Reached
    <2>2. \A d \in Pending' : ~IsLoad(d)
      BY <1>5, <1>7 DEF Flow, Sending
    <2>3. Waiting
      BY <2>1, Unreached
    <2>4. Hushed'
      BY <1>5, <1>6, <1>7, <2>3 DEF Waiting, Hushed
    <2>5. Held' /\ mpv'.selected = 0
      BY <1>1, <1>2, <1>7, <2>1, <2>2, FieldsTyped DEF Held, Reached
    <2>6. /\ past.opened < page.load /\ past.opened \in Nat /\ page.load \in Nat
          /\ \A e \in Sent : ~IsOpen(e)
      BY <1>1, <2>1, FieldsTyped DEF Flow, Unsent
    <2>7. \A a, b : <<a, b>> \in SentOrder' => ~IsOpen(a)
      BY <1>4, <2>6, OrderTyped
    <2>8. Idle' /\ slot' = page'.load /\ past'.opened # page'.load
      BY <1>2, <1>6, <2>1, <2>3, <2>6 DEF Waiting
    <2> QED
      BY <2>4, <2>5, <2>7, <2>8 DEF Stage, Opening
  <1>8. CASE Waiting /\ ~IsLoad(c)
    BY <1>2, <1>5, <1>6, <1>8 DEF Stage, Waiting
  <1>9. CASE Done /\ ~IsLoad(c)
    <2>1. c.op \in {"stop", "play", "pause"}
      BY <1>3, <1>5, <1>9 DEF Done
    <2> QED
      BY <1>2, <1>5, <1>6, <1>9, <2>1 DEF Stage, Done
  <1>10. CASE Gone /\ ~IsLoad(c)
    BY <1>2, <1>3, <1>6, <1>10 DEF Stage, Gone
  <1>11. ASSUME Reached, "stop" \in page.early, c.op = "stop"
         PROVE  Stage'
    <2>1. ~IsLoad(c)
      BY <1>11 DEF IsLoad
    <2> QED
      BY <1>2, <1>6, <1>11, <2>1 DEF Stage, Gone
  <1>12. CASE Hushed /\ (Opening \/ Due \/ Taken \/ Selected)
    <2>1. Hush(c) /\ Reached /\ Held
      BY <1>5, <1>12 DEF Hushed, Opening, Due, Taken, Selected, Opened, Held
    <2>2. CASE c.op = "stop"
      BY <1>11, <2>1, <2>2 DEF Hush
    <2>3. CASE c.op = "pause"
      <3>1. /\ ~IsLoad(c) /\ mpv'.file = mpv.file /\ mpv'.stage = mpv.stage
            /\ mpv'.pause /\ mpv'.selected = mpv.selected /\ events' = events
        BY <1>2, <2>3 DEF IsLoad
      <3>2. SameMessages
        BY <1>2, <3>1, SameQueues
      <3>3. Held' /\ Hushed' /\ Sent' = Sent /\ SentOrder' = SentOrder
        BY <1>2, <1>5, <1>6, <1>12, <2>1, <3>1, <3>2 DEF Held, Hushed, SameMessages
      <3>4. Opened => Opened'
        BY <1>2, <3>1, <3>3 DEF Opened
      <3>5. CASE Opening
        BY <1>2, <1>6, <3>1, <3>3, <3>5 DEF Stage, Opening
      <3>6. CASE Due \/ Taken \/ Selected
        BY <1>2, <3>1, <3>3, <3>4, <3>6 DEF Stage, Due, Taken, Selected
      <3> QED
        BY <1>12, <3>5, <3>6
    <2> QED
      BY <2>1, <2>2, <2>3 DEF Hush
  <1>13. CASE Written
    <2>1. Reached /\ Held /\ mpv.stage = "loaded" /\ Unheard
      BY <1>13, OpenedQuiet DEF Written, Opened, Held
    <2>2. Hush(c) \/ c = Selection \/ c.op = "play"
      BY <1>5, <1>13 DEF Written
    <2>3. Selection.op = "select" /\ Selection.load = page.load
      BY DEF Selection, Command
    <2>4. c # Selection => Hush(c)
      <3> SUFFICES ASSUME c # Selection
                   PROVE  Hush(c)
        OBVIOUS
      <3>1. Selection \in Pending'
        BY <1>2, <1>13 DEF Written
      <3> QED
        BY <1>5, <1>13, <2>3, <3>1 DEF Written
    <2>5. CASE c = Selection
      <3>1. /\ ~IsLoad(c) /\ mpv'.file = mpv.file /\ mpv'.stage = mpv.stage
            /\ mpv'.pause = mpv.pause /\ mpv'.selected = page.load /\ events' = events
        BY <1>2, <2>1, <2>3, <2>5 DEF IsLoad
      <3>2. Sent' = Sent
        BY <1>2, <3>1 DEF Sent
      <3>3. \A d \in Pending' : d.op # "select" /\ (Hush(d) \/ worker.step = "idle")
        <4>1. ~Hush(c)
          BY <2>3, <2>5 DEF Hush
        <4>2. \A d \in Pending' : d.op # "select"
          BY <1>5, <1>13, <4>1 DEF Written
        <4> QED
          BY <1>5, <1>13, <2>3, <4>2 DEF Written
      <3>4. Held'
        BY <1>2, <1>6, <2>1, <3>1 DEF Held
      <3>5. CASE worker.step = "play"
        <4>1. Opened'
          BY <1>2, <1>13, <3>1, <3>2, <3>4 DEF Written, Opened
        <4>2. Hushed'
          BY <1>6, <3>3, <3>5 DEF Hushed
        <4> QED
          BY <1>2, <1>13, <3>1, <3>5, <4>1, <4>2 DEF Stage, Selected, Written
      <3>6. CASE worker.step = "idle"
        BY <1>2, <1>6, <1>13, <2>1, <3>1, <3>3, <3>6 DEF Stage, Done, Idle, Written
      <3> QED
        BY <1>13, <3>5, <3>6 DEF Written
    <2>6. CASE c.op = "stop"
      BY <1>11, <2>1, <2>3, <2>4, <2>6 DEF Hush
    <2>7. CASE c.op = "pause"
      <3>1. /\ ~IsLoad(c) /\ mpv'.file = mpv.file /\ mpv'.stage = mpv.stage
            /\ mpv'.pause /\ mpv'.selected = mpv.selected /\ events' = events
        BY <1>2, <2>7 DEF IsLoad
      <3>2. Sent' = Sent
        BY <1>2, <3>1 DEF Sent
      <3>3. Opened'
        BY <1>2, <1>6, <1>13, <2>1, <3>1, <3>2 DEF Held, Opened, Written
      <3>4. Selection' \in Pending'
        BY <1>2, <1>6, <1>13, <2>3, <2>7 DEF Written
      <3>5. \A d \in Pending' :
              Hush(d)' \/ d = Selection' \/ (d.op = "play" /\ worker'.step = "idle")
        BY <1>2, <1>5, <1>6, <1>13 DEF Written
      <3>6. \A d, f : <<d, f>> \in PendingOrder' /\ f.op = "select" => Hush(d)'
        BY <1>5, <1>6, <1>13 DEF Written
      <3> QED
        BY <1>2, <1>13, <3>1, <3>3, <3>4, <3>5, <3>6 DEF Stage, Written
    <2> QED
      BY <2>4, <2>5, <2>6, <2>7 DEF Hush
  <1>14. (Opening \/ Due \/ Taken \/ Selected) => Hushed
    BY DEF Opening, Due, Taken, Selected
  <1> QED
    BY <1>7, <1>8, <1>9, <1>10, <1>12, <1>13, <1>14 DEF Stage

(* The file opens. *)
LEMMA OpensStage ==
  ASSUME Basics, Flow, Stage, FileOpens
  PROVE  Stage'
  <1>1. SwitchTypes
    BY DEF Basics
  <1>2. /\ UNCHANGED <<page, slot, cmds, reported, queue, worker, machine, past>>
        /\ SameCommands /\ mpv.stage = "loading" /\ mpv.file # 0
        /\ mpv'.stage = "loaded" /\ mpv'.file = mpv.file
        /\ mpv'.pause = mpv.pause /\ mpv'.selected = mpv.selected
    BY <1>1, FileOpensDoes
  <1>3. PICK e \in FileEvents :
          /\ IsOpen(e) /\ Sent' = Sent \cup {e} /\ SentOrder' = SentOrder \cup (Sent \X {e})
    BY <1>1, FileOpensDoes
  <1>4. Reached /\ Unheard
    BY <1>2 DEF Flow, Unsent, Begun
  <1>5. Opening
    BY <1>2, <1>4 DEF Stage, Waiting, Due, Taken, Written, Selected, Opened, Done, Gone
  <1>6. Held' /\ Hushed' /\ Idle'
    BY <1>2, <1>5 DEF Opening, Held, Hushed, Hush, Idle, Reached, SameCommands
  <1>7. \A a, b : <<a, b>> \in SentOrder' => ~(IsOpen(a) /\ Resumes(b))
    <2>1. \A a, b : <<a, b>> \in SentOrder' => a \in Sent
      BY <1>3, OrderTyped
    <2> QED
      BY <1>4, <2>1 DEF Unheard
  <1> QED
    BY <1>2, <1>5, <1>6, <1>7 DEF Stage, Opening

(* It fails to, or plays to its end. *)
LEMMA EndsStage ==
  ASSUME Basics, Flow, Stage, FileEnds
  PROVE  Stage'
  <1>1. SwitchTypes
    BY DEF Basics
  <1>2. /\ UNCHANGED <<page, slot, cmds, reported, queue, worker, machine, past>>
        /\ SameCommands /\ mpv'.file = 0 /\ mpv'.stage = "none" /\ mpv.file # 0
        /\ mpv.stage = "loading" \/ (mpv.stage = "loaded" /\ ~mpv.pause)
    BY <1>1, FileEndsDoes
  <1>3. PICK e \in FileEvents : IsEnd(e) /\ Sent' = Sent \cup {e}
    BY <1>1, FileEndsDoes
  <1>4. /\ Reached' <=> Reached
        /\ Unheard => Unheard'
        /\ Idle' <=> Idle
        /\ \A c : Hush(c)' <=> Hush(c)
        /\ Pending' = Pending /\ PendingOrder' = PendingOrder
    BY <1>2, <1>3 DEF Reached, Unheard, Idle, Hush, SameCommands, IsEnd, IsOpen
  <1>5. CASE Waiting
    BY <1>2, <1>4, <1>5 DEF Stage, Waiting
  <1>6. CASE Opening
    <2>1. Reached /\ mpv.stage = "loading"
      BY <1>2, <1>6 DEF Opening, Held
    <2>2. Unheard
      BY <2>1 DEF Flow, Begun
    <2>3. \A c \in Pending : c.op # "select"
      BY <1>6 DEF Opening, Hushed, Hush
    <2> QED
      BY <1>2, <1>4, <1>6, <2>1, <2>2, <2>3 DEF Stage, Done, Opening
  <1>7. ~Opened
    BY <1>2 DEF Opened, Held
  <1>8. CASE Done
    BY <1>2, <1>4, <1>8 DEF Stage, Done
  <1>9. CASE Gone
    BY <1>2, <1>9 DEF Gone
  <1> QED
    BY <1>5, <1>6, <1>7, <1>8, <1>9 DEF Stage, Due, Taken, Written, Selected

(* A pause change is reported: while the selection is due, none resumes. *)
LEMMA ReportStage ==
  ASSUME Basics, Flow, Stage, IngestPause
  PROVE  Stage'
  <1>1. SwitchTypes
    BY DEF Basics
  <1>2. UNCHANGED <<page, slot, cmds, mpv, worker, past>> /\ SameCommands
    BY <1>1, IngestPauseDoes
  <1>3. PICK e \in Posts :
          /\ IsPause(e) /\ e.arg = mpv.pause /\ Sent' = Sent \cup {e}
          /\ SentOrder' =
               SentOrder \cup (Messages(queue) \X {e}) \cup ({e} \X Messages(events))
    BY <1>1, IngestPauseDoes
  <1>4. /\ Reached' <=> Reached
        /\ Unheard => Unheard'
        /\ Hushed' <=> Hushed
        /\ \A c : Hush(c)' <=> Hush(c)
        /\ Idle' <=> Idle
        /\ Held' <=> Held
        /\ Selection' = Selection
        /\ Pending' = Pending /\ PendingOrder' = PendingOrder
    BY <1>2, <1>3
       DEF Reached, Unheard, Hushed, Hush, Idle, Held, Selection, SameCommands, IsPause, IsOpen
  <1>5. Held => ~Resumes(e) /\ ~IsOpen(e)
    BY <1>3 DEF Held, Resumes, IsPause, IsOpen
  <1>6. Opened => Opened'
    BY <1>2, <1>3, <1>4, <1>5 DEF Opened
  <1>7. CASE Waiting
    BY <1>2, <1>4, <1>7 DEF Stage, Waiting
  <1>8. CASE Opening
    <2>1. \A a, b : <<a, b>> \in SentOrder' /\ IsOpen(a) => ~Resumes(b)
      BY <1>3, <1>5, <1>8 DEF Opening
    <2> QED
      BY <1>2, <1>4, <1>8, <2>1 DEF Stage, Opening
  <1>9. CASE Due \/ Taken \/ Selected
    BY <1>2, <1>4, <1>6, <1>9 DEF Stage, Due, Taken, Selected
  <1>10. CASE Written
    BY <1>2, <1>4, <1>6, <1>10 DEF Stage, Written
  <1>11. CASE Done \/ Gone
    BY <1>2, <1>4, <1>11 DEF Stage, Done, Gone
  <1> QED
    BY <1>7, <1>8, <1>9, <1>10, <1>11 DEF Stage

(* The worker takes the selection and queues its write and the play. *)
LEMMA SelectionStage ==
  ASSUME Basics, Flow, Stage, TakeSelection \/ ApplySelection
  PROVE  Stage'
  <1>1. SwitchTypes
    BY DEF Basics
  <1>2. CASE TakeSelection
    <2>1. /\ UNCHANGED <<page, cmds, mpv, past>> /\ SameMessages /\ SameCommands
          /\ worker.todo > 0 /\ worker'.todo = worker.todo - 1
          /\ worker'.step = (IF slot = 0 THEN "idle" ELSE "select") /\ worker'.load = slot
      BY <1>1, <1>2, TakeSelectionDoes
    <2>2. /\ Reached' <=> Reached
          /\ Hushed' <=> Hushed
          /\ Held' <=> Held
          /\ Opened' <=> Opened
      BY <2>1 DEF Reached, Hushed, Hush, Held, Opened, SameMessages, SameCommands
    <2>3. Due \/ Gone
      BY <1>1, <2>1, FieldsTyped DEF Stage, Waiting, Opening, Taken, Written, Selected, Done, Idle
    <2>4. CASE Due
      <3>1. slot = page.load /\ slot # 0 /\ worker.todo = 1
        BY <2>4 DEF Due, Opened, Held
      <3> QED
        BY <2>1, <2>2, <2>4, <3>1 DEF Stage, Due, Taken
    <2>5. CASE Gone
      BY <2>1, <2>2, <2>5 DEF Stage, Gone
    <2> QED
      BY <2>3, <2>4, <2>5
  <1>3. CASE ApplySelection
    <2>1. /\ UNCHANGED <<page, slot, mpv, past>> /\ SameMessages
          /\ worker.step \in {"select", "play"} /\ worker'.todo = worker.todo
          /\ worker'.step = (IF worker.step = "select" THEN "play" ELSE "idle")
      BY <1>1, <1>3, ApplySelectionDoes
    <2>2. PICK c \in Commands :
            /\ c = (IF worker.step = "select" THEN Command("select", worker.load)
                    ELSE Command("play", 0))
            /\ c.op = (IF worker.step = "select" THEN "select" ELSE "play")
            /\ Pending' = Pending \cup {c}
            /\ PendingOrder' = PendingOrder \cup (Pending \X {c})
      BY <1>1, <1>3, ApplySelectionDoes
    <2>3. /\ Reached' <=> Reached
          /\ Held' <=> Held
          /\ Opened' <=> Opened
          /\ \A d : Hush(d)' <=> Hush(d)
          /\ Selection' = Selection /\ (Unheard' <=> Unheard)
      BY <2>1, <2>2 DEF Reached, Held, Opened, Hush, Selection, IsLoad, SameMessages, Unheard
    <2>4. Taken \/ Written \/ Selected \/ Gone
      BY <2>1 DEF Stage, Waiting, Opening, Due, Done, Idle
    <2>5. CASE Taken
      <3>1. c = Selection /\ worker'.step = "play" /\ Opened'
        BY <2>1, <2>2, <2>3, <2>5 DEF Taken, Selection
      <3>2. \A d \in Pending : Hush(d) /\ d.op # "select"
        BY <2>5 DEF Taken, Hushed, Hush
      <3>3. \A d \in Pending' : Hush(d)' \/ d = Selection'
        BY <2>2, <2>3, <3>1, <3>2
      <3>4. \A d, f : <<d, f>> \in PendingOrder' /\ f.op = "select" => Hush(d)'
        BY <2>2, <2>3, <3>2, OrderTyped
      <3>5. Written'
        BY <2>1, <2>2, <2>3, <2>5, <3>1, <3>3, <3>4 DEF Written, Taken
      <3> QED
        BY <3>5 DEF Stage
    <2>6. CASE Written
      <3>1. /\ worker.step = "play" /\ c.op = "play" /\ worker'.step = "idle" /\ Opened'
        BY <2>1, <2>2, <2>3, <2>6 DEF Written
      <3>2. \A d \in Pending' : Hush(d)' \/ d = Selection' \/ d.op = "play"
        BY <2>2, <2>3, <2>6, <3>1 DEF Written
      <3>3. \A d, f : <<d, f>> \in PendingOrder' /\ f.op = "select" => Hush(d)'
        BY <2>2, <2>3, <2>6, <3>1 DEF Written
      <3>4. Written'
        BY <2>1, <2>2, <2>3, <2>6, <3>1, <3>2, <3>3 DEF Written
      <3> QED
        BY <3>4 DEF Stage
    <2>7. CASE Selected
      <3>1. /\ c.op = "play" /\ worker'.step = "idle" /\ Reached' /\ Unheard'
        BY <2>1, <2>2, <2>3, <2>7, OpenedQuiet DEF Selected, Opened, Held
      <3>2. \A d \in Pending' : d.op # "select"
        BY <2>2, <2>7, <3>1 DEF Selected, Hushed, Hush
      <3> QED
        BY <2>1, <2>7, <3>1, <3>2 DEF Stage, Done, Idle, Selected, Opened
    <2>8. CASE Gone
      BY <2>1, <2>3, <2>8 DEF Stage, Gone
    <2> QED
      BY <2>4, <2>5, <2>6, <2>7, <2>8
  <1> QED
    BY <1>2, <1>3

(* The worker applies an input. *)
LEMMA ApplyStage ==
  ASSUME Basics, Flow, Flow', Stage, ApplyNext
  PROVE  Stage'
  <1> DEFINE in == Head(queue)
  <1>1. /\ UNCHANGED <<page, slot, cmds, mpv, events, reported>> /\ SameCommands
        /\ worker'.step = worker.step /\ worker'.load = worker.load
        /\ Sent = Sent' \cup {in} /\ SentOrder = SentOrder' \cup ({in} \X Sent')
        /\ in \in Posts
        /\ ~IsOpen(in) => worker'.todo = worker.todo /\ past'.opened = past.opened
        /\ IsOpen(in) => past'.opened = in.load /\ worker'.todo = worker.todo + 1
        /\ ~IsEnd(in) /\ ~IsPause(in) => past'.settled = past.settled
        /\ IsPause(in) => past'.settled = past.settled \/ ~in.arg
        /\ IsEnd(in) => past'.settled = past.settled
                          \/ (past'.settled = past.current /\ in.load = past.current)
    BY InputApplied
  <1> HIDE DEF in
  <1>2. /\ in \in Sent /\ \A e \in Sent' : e \in Sent /\ <<in, e>> \in SentOrder
        /\ SentOrder' \subseteq SentOrder
    BY <1>1
  <1>3. /\ Reached' <=> Reached
        /\ Unheard => Unheard'
        /\ Hushed' <=> Hushed
        /\ \A c : Hush(c)' <=> Hush(c)
        /\ Held' <=> Held
        /\ Selection' = Selection
        /\ Pending' = Pending /\ PendingOrder' = PendingOrder
    BY <1>1, <1>2 DEF Reached, Unheard, Hushed, Hush, Held, Selection, SameCommands
  <1>4. ~IsOpen(in) => (Idle' <=> Idle)
    BY <1>1 DEF Idle
  <1>5. CASE IsOpen(in)
    <2>1. ~Unheard /\ Reached /\ in.load = page.load /\ past.settled # page.load
      BY <1>2, <1>5 DEF Unheard, Flow, Unsent, Begun
    <2>2. CASE Opening
      <3>1. Held /\ mpv.stage # "loading" /\ mpv.file # 0
        BY <2>1, <2>2 DEF Opening, Held, Flow, Begun
      <3>2. mpv.stage = "loaded"
        BY <3>1, FieldsTyped DEF Basics
      <3>3. \A e \in Sent' : ~Resumes(e)
        BY <1>2, <1>5, <2>2 DEF Opening
      <3>4. ~IsEnd(in) /\ ~IsPause(in)
        BY <1>5 DEF IsOpen, IsEnd, IsPause
      <3>5. Opened'
        BY <1>1, <1>3, <1>5, <2>1, <3>1, <3>2, <3>3, <3>4 DEF Opened
      <3> QED
        BY <1>1, <1>3, <1>5, <2>2, <3>5 DEF Stage, Due, Opening, Idle
    <2>3. CASE Gone
      BY <1>1, <1>3, <2>3 DEF Stage, Gone
    <2>4. ~Opened /\ ~Waiting /\ ~Done
      BY <2>1, OpenedQuiet DEF Waiting, Done
    <2> QED
      BY <2>2, <2>3, <2>4 DEF Stage, Due, Taken, Written, Selected
  <1>6. CASE ~IsOpen(in)
    <2>1. Opened => Opened'
      <3> SUFFICES ASSUME Opened
                   PROVE  Opened'
        OBVIOUS
      <3>1. \A e \in Sent' : ~Resumes(e)
        BY <1>2 DEF Opened
      <3>2. ~(IsPause(in) /\ ~in.arg)
        BY <1>2 DEF Opened, Resumes
      <3>3. IsEnd(in) => in.load < page.load
        BY <1>2 DEF Opened, Held, Flow, InTurn
      <3>4. past.current = page.load /\ page.load \in Nat /\ in.load \in Nat
        BY <1>1, FieldsTyped, PostsTyped DEF Opened, Flow, Over, Basics
      <3>5. past'.settled = past.settled
        BY <1>1, <3>2, <3>3, <3>4
      <3> QED
        BY <1>1, <1>3, <1>6, <3>1, <3>5 DEF Opened
    <2>2. CASE Waiting
      BY <1>1, <1>3, <1>4, <1>6, <2>2 DEF Stage, Waiting
    <2>3. CASE Opening
      <3>1. \A a, b : <<a, b>> \in SentOrder' /\ IsOpen(a) => ~Resumes(b)
        BY <1>2, <2>3 DEF Opening
      <3> QED
        BY <1>1, <1>3, <1>4, <1>6, <2>3, <3>1 DEF Stage, Opening
    <2>4. CASE Due \/ Taken \/ Selected
      BY <1>1, <1>3, <1>6, <2>1, <2>4 DEF Stage, Due, Taken, Selected
    <2>5. CASE Written
      BY <1>1, <1>3, <1>6, <2>1, <2>5 DEF Stage, Written
    <2>6. CASE Done \/ Gone
      BY <1>1, <1>3, <1>4, <1>6, <2>6 DEF Stage, Done, Gone
    <2> QED
      BY <2>2, <2>3, <2>4, <2>5, <2>6 DEF Stage
  <1> QED
    BY <1>5, <1>6

LEMMA StageNext ==
  ASSUME Basics, Single => Flow, Clear => Stage, SwitchNext, Flow', Clear'
  PROVE  Stage'
  <1>1. SwitchTypes
    BY DEF Basics
  <1>2. CASE PlayerLoad
    <2>1. page'.early = EarlyAfterLoad
      BY <1>1, <1>2, PlayerLoadDoes
    <2>2. Quiet \/ (Settled /\ page.early = {})
      BY <2>1 DEF Clear, EarlyAfterLoad
    <2>3. page.early = {} => Single /\ Clear
      BY DEF Single, Clear
    <2> QED
      BY <1>2, <2>2, <2>3, LoadStage
  <1>3. CASE UrlRefused \/ StashSelection \/ SendLoadfile
    <2>1. page'.early = page.early
      BY <1>1, <1>3, UrlRefusedDoes, StashSelectionDoes, SendLoadfileDoes
    <2>2. Single /\ Clear
      BY <2>1 DEF Clear, Single
    <2> QED
      BY <1>3, <2>2, RequestStage
  <1>4. ASSUME NEW op \in {"stop", "play", "pause"}, Press(op)
        PROVE  Stage'
    <2>1. page'.early = EarlyAfter(op)
      BY <1>1, <1>4, PressDoes
    <2>2. Single /\ Clear /\ "play" \notin page'.early
      BY <2>1 DEF Clear, Single, EarlyAfter
    <2> QED
      BY <1>4, <2>2, PressStage
  <1>5. ASSUME page' = page
        PROVE  Single /\ Clear
    BY <1>5 DEF Clear, Single
  <1>6. CASE Execute \/ FileOpens \/ FileEnds
    <2>1. page' = page
      BY <1>6 DEF Execute, FileOpens, FileEnds
    <2> QED
      BY <1>5, <1>6, <2>1, ExecuteStage, OpensStage, EndsStage
  <1>7. CASE IngestEvent \/ Recv
    <2>1. /\ UNCHANGED <<page, slot, mpv, past>> /\ SameMessages /\ SameCommands
          /\ worker'.todo = worker.todo /\ worker'.step = worker.step
          /\ worker'.load = worker.load
      BY <1>1, <1>7, IngestEventDoes, RecvDoes
    <2> QED
      BY <1>5, <2>1, StageSame
  <1>8. CASE IngestPause \/ TakeSelection \/ ApplySelection \/ ApplyNext
    <2>1. page' = page
      BY <1>8 DEF IngestPause, TakeSelection, ApplySelection, ApplyNext
    <2> QED
      BY <1>5, <1>8, <2>1, ReportStage, SelectionStage, ApplyStage
  <1> QED
    BY <1>2, <1>3, <1>4, <1>6, <1>7, <1>8 DEF SwitchNext

-----------------------------------------------------------------------------
(* The theorems about TrackSwitch.                                          *)

LEMMA WithoutMeans ==
  /\ Without({"load"}) <=> Single
  /\ Without({"load", "play"}) <=> Clear
  BY DEF Without, Single, Clear

LEMMA SwitchNextInv ==
  ASSUME SwitchInv, [SwitchNext]_switchVars
  PROVE  SwitchInv'
  <1>1. CASE SwitchNext
    <2>1. Basics /\ (Single => Flow) /\ (Clear => Stage)
      BY DEF SwitchInv
    <2>2. Basics'
      BY <1>1, <2>1, BasicsNext
    <2>3. Single' => Flow'
      BY <1>1, <2>1, FlowNext
    <2>4. Clear' => Single'
      BY DEF Clear, Single
    <2>5. Clear' => Stage'
      BY <1>1, <2>1, <2>3, <2>4, StageNext
    <2> QED
      BY <2>2, <2>3, <2>5 DEF SwitchInv
  <1>2. CASE UNCHANGED switchVars
    <2>1. /\ UNCHANGED <<page, slot, cmds, mpv, events>>
          /\ UNCHANGED <<reported, queue, worker, machine, past>>
      BY <1>2 DEF switchVars
    <2>2. SameMessages /\ SameCommands
      BY <2>1, SameQueues
    <2>3. Basics'
      BY <2>1, <2>2
         DEF SwitchInv, Basics, SwitchTypes, Bounds, Announced, PauseTold, SameMessages,
             SameCommands
    <2>4. (Reached' <=> Reached) /\ (Flow => Sending')
      BY <2>1, <2>2 DEF Reached, SameCommands, Flow, Sending
    <2>5. Flow => Flow'
      BY <2>1, <2>2, <2>4, FlowSame DEF Flow, Begun, SameCommands
    <2>6. Stage => Stage'
      BY <2>1, <2>2, StageSame
    <2> QED
      BY <2>1, <2>3, <2>5, <2>6 DEF SwitchInv, Single, Clear
  <1> QED
    BY <1>1, <1>2

(* Whatever the page calls, and when: what is told is in order, what is told *)
(* of loads that do not overlap is of at most two files, and the selection   *)
(* of the last is where its stage says, unless a play overtook it.           *)
THEOREM SwitchInvariant == SwitchSpec => []SwitchInv
  BY SwitchInitInv, SwitchNextInv, PTL DEF SwitchSpec

(* The file of the load issued last plays with its own selection, however    *)
(* early the page stops and pauses it and whatever fails: business_web.rs,   *)
(* api.rs and the worker hand it over in order.                              *)
THEOREM SelectionBeforePlay == SwitchSpec => []PlaysOwnSelection
  <1>1. ASSUME SwitchInv, Clear, mpv.file = page.load, mpv.stage = "loaded", ~mpv.pause
        PROVE  mpv.selected = mpv.file
    <2>1. Flow /\ Stage /\ SwitchTypes
      BY <1>1 DEF SwitchInv, Clear, Single, Basics
    <2>2. mpv.file # 0 /\ page.load \in Nat
      BY <1>1, <2>1, FieldsTyped
    <2>3. Reached
      BY <1>1, <2>1, <2>2 DEF Flow, Unsent
    <2>4. ~Held
      BY <1>1 DEF Held
    <2> QED
      BY <1>1, <2>1, <2>2, <2>3, <2>4
         DEF Stage, Waiting, Opening, Due, Taken, Written, Selected, Opened, Done, Gone
  <1>2. SwitchInv => PlaysOwnSelection
    BY <1>1, WithoutMeans DEF PlaysOwnSelection
  <1> QED
    BY <1>2, SwitchInvariant, PTL

(* Once nothing is on its way the machine shows what mpv does: its pause     *)
(* after any calls, its having a file after loads that did not overlap, but  *)
(* for the stop that comes before the file opened.                           *)
THEOREM QuietAgreement == SwitchSpec => []MachineAgreesWithMpv
  <1>1. ASSUME SwitchInv, Quiet
        PROVE  Sent = {} /\ Pending = {} /\ SwitchTypes /\ PauseTold
    BY <1>1 DEF Quiet, Sent, Pending, Messages, SwitchInv, Basics
  <1>2. ASSUME SwitchInv, Quiet
        PROVE  /\ machine.phase = "Playing" => ~mpv.pause
               /\ machine.phase = "Paused" => mpv.pause
    BY <1>1, <1>2 DEF Quiet, PauseTold
  <1>3. ASSUME SwitchInv, Quiet, ~page.lost, Single
        PROVE  /\ machine.phase = "Stopped" => mpv.file = 0
               /\ mpv.file = 0 =>
                    machine.phase = "Stopped" \/ ("stop" \in page.early /\ past.opened # page.load)
    <2>1. Flow /\ Sent = {} /\ Pending = {} /\ SwitchTypes
      BY <1>1, <1>3 DEF SwitchInv
    <2>2. Reached
      BY <1>3, <2>1 DEF Reached, Quiet
    <2>3. mpv.file = 0 => StopShown
      BY <2>1, <2>2 DEF Flow, Shown
    <2>4. mpv.file # 0 => machine.phase # "Stopped"
      <3> SUFFICES ASSUME mpv.file # 0
                   PROVE  machine.phase # "Stopped"
        OBVIOUS
      <3>1. mpv.stage = "loaded"
        BY <1>3, <2>1, FieldsTyped DEF Quiet
      <3>2. past.opened = page.load
        BY <2>1, <2>2, <3>1 DEF Flow, Begun, Unheard
      <3> QED
        BY <2>1, <3>2 DEF Flow, Shown
    <2> QED
      BY <2>3, <2>4 DEF StopShown
  <1>4. SwitchInv => MachineAgreesWithMpv
    BY <1>2, <1>3, WithoutMeans DEF MachineAgreesWithMpv
  <1> QED
    BY <1>4, SwitchInvariant, PTL

(* The end of a file that a newer load replaces never stops the machine, as  *)
(* long as loads do not overlap.                                             *)
THEOREM EndsEaten == SwitchSpec => ReplacedEndIsEaten
  <1>1. ASSUME SwitchInv, SwitchNext, Single,
               worker'.left < worker.left, Head(queue).kind = "EndFile",
               Head(queue).arg # "Error", Head(queue).load < past.current
        PROVE  machine'.phase # "Stopped"
    <2> DEFINE in == Head(queue)
    <2>1. Basics /\ SwitchTypes /\ Flow
      BY <1>1 DEF SwitchInv, Basics
    <2>2. worker.left \in Nat /\ IsEnd(in) /\ ~IsStart(in)
      BY <1>1, <2>1, FieldsTyped DEF IsEnd, IsStart
    <2>3. ApplyNext
      <3>1. Recv => worker.left = 0 /\ worker'.left = Len(queue) /\ Len(queue) \in Nat
        BY <2>1, SentTyped DEF Recv, SwitchTypes, WorkerTypes
      <3>2. TakeSelection \/ ApplySelection => worker'.left = worker.left
        BY <2>1 DEF TakeSelection, ApplySelection, SwitchTypes, WorkerTypes
      <3>3. (\E op \in {"stop", "play", "pause"} : Press(op)) => worker' = worker
        BY DEF Press
      <3> QED
        BY <1>1, <2>2, <3>1, <3>2, <3>3
           DEF SwitchNext, PlayerLoad, UrlRefused, StashSelection, SendLoadfile, Execute,
               FileOpens, FileEnds, IngestEvent, IngestPause
    <2>4. /\ Sent = Sent' \cup {in} /\ SentOrder = SentOrder' \cup ({in} \X Sent')
          /\ machine'.phase = (IF machine.pending_load /\ in.arg # "Error" THEN "Starting"
                               ELSE "Stopped")
      BY <2>1, <2>2, <2>3, InputApplied
    <2> HIDE DEF in
    <2>5. machine.pending_load
      <3> SUFFICES ASSUME NEW s \in Sent, IsStart(s), <<s, in>> \in SentOrder
                   PROVE  FALSE
        BY <1>1, <2>1, <2>2, <2>4 DEF Flow, Expected, in
      <3>1. in \in Sent'
        BY <2>2, <2>4, OrderTyped
      <3>2. <<in, in>> \in SentOrder
        BY <2>4, <3>1
      <3> QED
        BY <2>1, <2>2, <3>2 DEF Flow, InTurn, OfFile, Rank
    <2> QED
      BY <1>1, <2>4, <2>5 DEF in
  <1>2. SwitchInv /\ [SwitchNext]_switchVars =>
          [Without({"load"}) /\ worker'.left < worker.left /\ Head(queue).kind = "EndFile"
             /\ Head(queue).arg # "Error" /\ Head(queue).load < past.current
           => machine'.phase # "Stopped"]_switchVars
    BY <1>1, WithoutMeans
  <1> QED
    BY <1>2, SwitchInvariant, PTL DEF SwitchSpec, ReplacedEndIsEaten
=============================================================================
