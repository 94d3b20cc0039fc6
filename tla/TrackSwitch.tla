----------------------------- MODULE TrackSwitch ------------------------------
(***************************************************************************)
(* From playerLoad to playback.  Four parties and the queues between them: *)
(* the page's calls run on the browser's thread (business_web.rs); the     *)
(* selection waits in a single slot (api.rs); mpv executes commands in     *)
(* order on its core thread (external) and answers with events; the ingest *)
(* thread posts those to the coordinator, whose worker runs the state      *)
(* machine and applies the pending selection on FILE_LOADED.               *)
(*                                                                         *)
(* Loads are numbered 1, 2, ... in the order the page issues them.  Media  *)
(* is audio, so no load waits for a first video frame; positions, metadata *)
(* and the stall causes are left out.                                      *)
(***************************************************************************)
EXTENDS PlaybackHandlers

CONSTANTS
  MaxLoads,    \* bound on the page's playerLoad calls
  MaxPresses   \* bound on its playerStop, playerPlay and playerPause calls

ASSUME TrackSwitchConstants ==
  MaxLoads \in Nat /\ MaxPresses \in Nat

VARIABLES
  page,      \* the browser thread: step of handle_player_load, loads, presses;
             \*   early is a history: the calls made while a load was under way
  slot,      \* PendingTrack: the load whose selection waits, 0 when not valid
  cmds,      \* mpv's command queue
  mpv,       \* mpv's core: the file, its stage, pause, the selection in effect
  events,    \* mpv's event queue
  reported,  \* the pause value mpv last reported
  queue,     \* the coordinator's queue
  worker,    \* the worker: inputs left of its batch, actions to dispatch, step
  machine,   \* the state machine
  past       \* history of the loads applied: the last announced, the last
             \*   opened, the last to play or end after that

switchVars == <<page, slot, cmds, mpv, events, reported, queue, worker, machine, past>>

Loads   == 1 .. MaxLoads
Input(kind, arg, load) == [kind |-> kind, arg |-> arg, load |-> load]
Command(op, load)      == [op |-> op, load |-> load]

SwitchInit ==
  /\ page = [step |-> "idle", load |-> 0, lost |-> FALSE, presses |-> 0, early |-> {}]
  /\ slot = 0
  /\ cmds = <<>>
  /\ mpv = [file |-> 0, stage |-> "none", pause |-> FALSE, selected |-> 0]
  /\ events = <<>> /\ reported = FALSE
  /\ queue = <<>>
  /\ worker = [left |-> 0, todo |-> 0, step |-> "idle", load |-> 0]
  /\ machine = Fresh
  /\ past = [current |-> 0, opened |-> 0, settled |-> 0]

-----------------------------------------------------------------------------
(* The page calls at any time; only a call that is being handled holds up   *)
(* the next.                                                                *)

(* Nothing is on its way between the parties. *)
Quiet ==
  /\ page.step = "idle" /\ cmds = <<>> /\ events = <<>> /\ queue = <<>>
  /\ mpv.stage # "loading" /\ reported = mpv.pause
  /\ worker.step = "idle" /\ worker.left = 0 /\ worker.todo = 0

(* The load issued last played or ended, or was refused. *)
Settled == past.settled = page.load \/ page.lost

(* What the history adds for a call.  A load starts it anew when nothing is *)
(* on its way, or when the one before it settled undisturbed; one that      *)
(* follows an early call sooner counts as early too, for what that call     *)
(* left behind (a selection not yet taken) is still under way.              *)
EarlyAfterLoad  == IF Quiet \/ (Settled /\ page.early = {}) THEN {}
                   ELSE page.early \cup {"load"}
EarlyAfter(op)  == IF Settled THEN page.early ELSE page.early \cup {op}

(* handle_player_load posts LoadStarting before it looks at the url. *)
PlayerLoad ==
  /\ page.step = "idle" /\ page.load < MaxLoads
  /\ page' = [page EXCEPT !.step = "posted", !.load = @ + 1, !.lost = FALSE,
                          !.early = EarlyAfterLoad]
  /\ queue' = Append(queue, Input("LoadStarting", NoItem, page.load + 1))
  /\ UNCHANGED <<slot, cmds, mpv, events, reported, worker, machine, past>>

(* A url with a NUL in it is refused, after the announcement. *)
UrlRefused ==
  /\ page.step = "posted"
  /\ page' = [page EXCEPT !.step = "idle", !.lost = TRUE]
  /\ UNCHANGED <<slot, cmds, mpv, events, reported, queue, worker, machine, past>>

(* jfn_mpv_load_file: the slot is written under its lock, then the command  *)
(* is queued.                                                               *)
StashSelection ==
  /\ page.step = "posted"
  /\ page' = [page EXCEPT !.step = "stashed"]
  /\ slot' = page.load
  /\ UNCHANGED <<cmds, mpv, events, reported, queue, worker, machine, past>>

SendLoadfile ==
  /\ page.step = "stashed"
  /\ page' = [page EXCEPT !.step = "idle"]
  /\ cmds' = Append(cmds, Command("loadfile", page.load))
  /\ UNCHANGED <<slot, mpv, events, reported, queue, worker, machine, past>>

(* playerStop, playerPlay and playerPause. *)
Press(op) ==
  /\ page.step = "idle" /\ page.load > 0 /\ page.presses < MaxPresses
  /\ page' = [page EXCEPT !.presses = @ + 1, !.early = EarlyAfter(op)]
  /\ cmds' = Append(cmds, Command(op, 0))
  /\ UNCHANGED <<slot, mpv, events, reported, queue, worker, machine, past>>

-----------------------------------------------------------------------------
(* mpv's core.                                                             *)

(* Pausing was an option of the file's own: with the file it may revert.     *)
Unloaded(pause) == [file |-> 0, stage |-> "none", pause |-> pause, selected |-> 0]

PauseAfterFile == {mpv.pause, FALSE}

(* The end of the file mpv holds, if it holds one. *)
Ended(reason) ==
  IF mpv.file = 0 THEN events
  ELSE Append(events, Input("EndFile", reason, mpv.file))

(* A file is loaded paused and with nothing selected; what is selected      *)
(* while no file is loaded is dropped.                                      *)
Execute ==
  /\ cmds # <<>>
  /\ cmds' = Tail(cmds)
  /\ LET c == Head(cmds)
     IN CASE c.op = "loadfile" ->
               /\ mpv' = [file |-> c.load, stage |-> "loading", pause |-> TRUE, selected |-> 0]
               /\ events' = Ended("Canceled")
          [] c.op = "stop" ->
               /\ \E pause \in PauseAfterFile : mpv' = Unloaded(pause)
               /\ events' = Ended("Canceled")
          [] c.op = "select" ->
               /\ mpv' = [mpv EXCEPT !.selected = IF mpv.stage = "loaded" THEN c.load ELSE @]
               /\ UNCHANGED events
          [] OTHER -> mpv' = [mpv EXCEPT !.pause = (c.op = "pause")] /\ UNCHANGED events
  /\ UNCHANGED <<page, slot, reported, queue, worker, machine, past>>

FileOpens ==
  /\ mpv.stage = "loading"
  /\ mpv' = [mpv EXCEPT !.stage = "loaded"]
  /\ events' = Append(events, Input("FileLoaded", 0, mpv.file))
  /\ UNCHANGED <<page, slot, cmds, reported, queue, worker, machine, past>>

(* A load fails; a file that plays comes to its end. *)
FileEnds ==
  /\ mpv.stage = "loading" \/ (mpv.stage = "loaded" /\ ~mpv.pause)
  /\ \E pause \in PauseAfterFile : mpv' = Unloaded(pause)
  /\ events' = Ended(IF mpv.stage = "loading" THEN "Error" ELSE "Eof")
  /\ UNCHANGED <<page, slot, cmds, reported, queue, worker, machine, past>>

-----------------------------------------------------------------------------
(* The ingest thread.                                                      *)

IngestEvent ==
  /\ events # <<>>
  /\ queue' = Append(queue, Head(events))
  /\ events' = Tail(events)
  /\ UNCHANGED <<page, slot, cmds, mpv, reported, worker, machine, past>>

(* A property change is reported at its value at that time; two changes may *)
(* cancel out unseen.                                                       *)
IngestPause ==
  /\ reported # mpv.pause
  /\ reported' = mpv.pause
  /\ queue' = Append(queue, Input("PauseChanged", mpv.pause, 0))
  /\ UNCHANGED <<page, slot, cmds, mpv, events, worker, machine, past>>

-----------------------------------------------------------------------------
(* The coordinator's worker.                                               *)

Recv ==
  /\ worker.step = "idle" /\ worker.left = 0 /\ worker.todo = 0 /\ queue # <<>>
  /\ worker' = [worker EXCEPT !.left = Len(queue)]
  /\ UNCHANGED <<page, slot, cmds, mpv, events, reported, queue, machine, past>>

Announces(result, kinds) == \E i \in DOMAIN result.events : result.events[i].kind \in kinds

(* A load settles when it plays after it opened, or when it ends. *)
Settles(in, result) ==
  /\ in.kind \in {"PauseChanged", "EndFile"}
  /\ \/ Announces(result, {"Started"}) /\ past.opened = past.current
     \/ Announces(result, TerminalKinds) /\ in.load = past.current

Remember(in, result) ==
  CASE in.kind = "LoadStarting" -> [past EXCEPT !.current = in.load]
    [] in.kind = "FileLoaded"   -> [past EXCEPT !.opened = in.load]
    [] Settles(in, result)      -> [past EXCEPT !.settled = past.current]
    [] OTHER                    -> past

ApplyNext ==
  /\ worker.left > 0
  /\ LET in     == Head(queue)
         result == Apply(machine, in)
     IN /\ machine' = result.m
        /\ worker' = [worker EXCEPT !.left = @ - 1, !.todo = @ + Len(result.actions)]
        /\ past' = Remember(in, result)
  /\ queue' = Tail(queue)
  /\ UNCHANGED <<page, slot, cmds, mpv, events, reported>>

(* jfn_mpv_apply_pending_track_selection_and_play takes the slot under its  *)
(* lock and returns when it is not valid ...                                *)
TakeSelection ==
  /\ worker.step = "idle" /\ worker.left = 0 /\ worker.todo > 0
  /\ worker' = [worker EXCEPT !.todo = @ - 1, !.step = IF slot = 0 THEN "idle" ELSE "select",
                              !.load = slot]
  /\ slot' = 0
  /\ UNCHANGED <<page, cmds, mpv, events, reported, queue, machine, past>>

(* Mutation: playback is resumed before the selection is written. *)
ApplySelectionLast ==
  /\ worker.step \in {"select", "play"}
  /\ cmds' = Append(cmds, IF worker.step = "select" THEN Command("play", 0)
                          ELSE Command("select", worker.load))
  /\ worker' = [worker EXCEPT !.step = IF @ = "select" THEN "play" ELSE "idle"]
  /\ UNCHANGED <<page, slot, mpv, events, reported, queue, machine, past>>

(* ... else queues the selection's writes, then the one that resumes. *)
ApplySelection ==
  /\ worker.step \in {"select", "play"}
  /\ cmds' = Append(cmds, IF worker.step = "select" THEN Command("select", worker.load)
                          ELSE Command("play", 0))
  /\ worker' = [worker EXCEPT !.step = IF @ = "select" THEN "play" ELSE "idle"]
  /\ UNCHANGED <<page, slot, mpv, events, reported, queue, machine, past>>

-----------------------------------------------------------------------------

SwitchNext ==
  \/ PlayerLoad \/ UrlRefused \/ StashSelection \/ SendLoadfile
  \/ \E op \in {"stop", "play", "pause"} : Press(op)
  \/ Execute \/ FileOpens \/ FileEnds \/ IngestEvent \/ IngestPause
  \/ Recv \/ ApplyNext \/ TakeSelection \/ ApplySelection

SwitchSpec == SwitchInit /\ [][SwitchNext]_switchVars

-----------------------------------------------------------------------------

(* None of these calls came while a load was under way. *)
Without(ops) == page.early \cap ops = {}

(* "Playback only begins after track-switch reinits land" (api.rs): the file *)
(* of the load issued last plays with its own selection, however the page's  *)
(* stops and pauses, failures and ends fall in between.  Two kinds of calls  *)
(* are excepted: a load that overlaps what came before it, for the slot      *)
(* holds one selection, and a play that resumes mpv before the worker does.  *)
PlaysOwnSelection ==
  Without({"load", "play"}) =>
    (mpv.file = page.load /\ mpv.stage = "loaded" /\ ~mpv.pause => mpv.selected = mpv.file)

(* "Eat the EOF/cancel so consumers don't see a Stopped flicker between      *)
(* tracks" (state_machine.rs): the end of a file that a newer load replaces  *)
(* never stops the machine, unless that load overlaps another: one flag      *)
(* eats one end.                                                             *)
ReplacedEndIsEaten ==
  [][Without({"load"}) /\ worker'.left < worker.left /\ Head(queue).kind = "EndFile"
       /\ Head(queue).arg # "Error" /\ Head(queue).load < past.current
     => machine'.phase # "Stopped"]_switchVars

(* Once nothing is on its way, the machine shows neither playback mpv has    *)
(* paused nor the reverse, whatever the page did.  Unless loads overlapped,  *)
(* or the last one was refused, announced and never begun, it is stopped     *)
(* exactly when mpv holds no file; a stop of a load that has not opened is   *)
(* the one exception, for its end is eaten as that of a replaced file.       *)
MachineAgreesWithMpv ==
  Quiet =>
    /\ machine.phase = "Playing" => ~mpv.pause
    /\ machine.phase = "Paused" => mpv.pause
    /\ ~page.lost /\ Without({"load"}) =>
         /\ machine.phase = "Stopped" => mpv.file = 0
         /\ mpv.file = 0 =>
              machine.phase = "Stopped" \/ ("stop" \in page.early /\ past.opened # page.load)
=============================================================================
