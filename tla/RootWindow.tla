----------------------------- MODULE RootWindow -----------------------------
(***************************************************************************)
(* The root window under Wayland (root_window.rs, window_state.rs): its    *)
(* thread, which alone talks to the toplevel and commits the root surface, *)
(* the threads that queue commands or ask for a commit and ring its bell,  *)
(* and the compositor that configures it.                                  *)
(*                                                                         *)
(* The toplevel's requests act on the compositor at once; its answers      *)
(* travel, so the window's mode is what the last dispatched configure      *)
(* said.  A size stands for a width and a height.                          *)
(***************************************************************************)
EXTENDS Naturals, Sequences

CONSTANTS
  Senders,       \* threads that queue commands and ask for commits
  FloatSizes,    \* sizes of the floating window, 1 being the one at boot
  BigSize,       \* the size the compositor dictates
  Scales,        \* scales the compositor states
  MaxActs        \* bound on what others do: commands, commits asked for,
                 \*   configures nobody asked for, scales stated anew

ASSUME RootConstants ==
  /\ 1 \in FloatSizes /\ FloatSizes \cup {BigSize} \subseteq Nat \ {0}
  /\ 0 \notin Scales /\ MaxActs \in Nat

VARIABLES
  started,   \* ensure_started: "no", "failed", "running"
  published, \* RootThread is published: the bell can ring
  sending,   \* senders between their store and their ping
  commands,  \* the command channel
  latch,     \* pending_present
  bell,      \* the ping
  loop,      \* where the root thread is
  progressed,\* settle's flag
  stop,      \* cleanup has asked the loop to end
  pending,   \* pending_w and pending_h
  mode, current, floating,   \* RootState
  configured,  \* pending_configure
  present,     \* the capability minted by the first ack
  preFs,       \* pre_fs_maximized
  scale,       \* WindowState: the stated scale
  extent,      \* and the published extent
  shown,       \* the size the root was last committed with
  server,      \* the toplevel as the compositor holds it
  events,      \* events on their way to the root thread
  acts,        \* counts towards MaxActs
  offered,     \* history: the size the last configure offered
  restore,     \* history: what leaving fullscreen may restore, maximized or not
  unheard      \* history: a ping to a running loop without a bell, until it wakes

requestVars == <<sending, commands, latch, bell, unheard>>
loopVars    == <<loop, progressed, stop>>
windowVars  == <<pending, mode, current, floating, configured, present, preFs, extent, shown>>
serverVars  == <<server, events, offered, restore>>
startVars   == <<started, published>>
vars == <<startVars, requestVars, loopVars, windowVars, scale, serverVars, acts>>

NoSize   == 0
NoScale  == 0
NoExtent == [size |-> NoSize, mode |-> "none", scale |-> NoScale]
Sizes    == FloatSizes \cup {BigSize, NoSize}
Modes    == {"Floating", "Tiled", "Maximized", "Fullscreen"}

ModeCommands == {"Fullscreen", "Windowed", "ToggleFullscreen", "ToggleMaximize"}
Commands     == ModeCommands \cup {"Background"}

(* The mode a configure states, fullscreen first. *)
ModeOf(s) == IF s.fullscreen THEN "Fullscreen"
             ELSE IF s.maximized THEN "Maximized"
             ELSE IF s.tiled THEN "Tiled" ELSE "Floating"

Init ==
  /\ started = "no" /\ published = FALSE
  /\ sending = {} /\ commands = <<>> /\ latch = FALSE /\ bell = FALSE
  /\ loop = "none" /\ progressed = FALSE /\ stop = FALSE
  /\ pending = NoSize /\ mode = "Floating" /\ current = NoSize /\ floating = 1
  /\ configured = FALSE /\ present = FALSE /\ preFs = FALSE
  /\ scale = NoScale /\ extent = NoExtent /\ shown = NoSize
  /\ server \in [fullscreen : {FALSE}, maximized : BOOLEAN, tiled : {FALSE}]
  /\ events = <<>> /\ acts = 0
  /\ offered = NoSize /\ restore = {} /\ unheard = FALSE

(* One of the acts that are bounded. *)
Act == acts < MaxActs /\ acts' = acts + 1

-----------------------------------------------------------------------------
(* The compositor.                                                         *)

(* A floating window may be left to choose; so may any other, once. *)
Offers(s) == {NoSize} \cup (IF ModeOf(s) = "Floating" THEN FloatSizes ELSE {BigSize})

(* The toplevel becomes s and is configured. *)
Configures(s) ==
  /\ server' = s
  /\ \E size \in Offers(s) :
       events' = Append(events, [kind |-> "configure", mode |-> ModeOf(s), size |-> size])

(* The user moves the window with the compositor's own means. *)
CompositorActs ==
  /\ started = "running" /\ Act
  /\ \E fs \in {FALSE, server.fullscreen}, max \in BOOLEAN, tiled \in BOOLEAN :
       /\ fs => max = server.maximized
       /\ tiled => ~fs /\ ~max
       /\ Configures([fullscreen |-> fs, maximized |-> max, tiled |-> tiled])
  /\ UNCHANGED <<startVars, requestVars, loopVars, windowVars, scale, offered, restore>>

(* preferred_scale; where the probe found none, the first one always comes. *)
StateScale ==
  /\ started = "running"
  /\ IF scale = NoScale /\ \A i \in DOMAIN events : events[i].kind # "scale"
       THEN UNCHANGED acts ELSE Act
  /\ \E value \in Scales : events' = Append(events, [kind |-> "scale", value |-> value])
  /\ UNCHANGED <<startVars, requestVars, loopVars, windowVars, scale, server, offered, restore>>

-----------------------------------------------------------------------------
(* Bring-up.                                                               *)

(* ensure_started: the toplevel, perhaps maximized, with a commit that     *)
(* elicits the first configure; a scale from the output probe, or none;    *)
(* and the thread, which runs before it is published.                      *)
Start ==
  /\ started = "no"
  /\ started' = "running"
  /\ Configures(server)
  /\ scale' \in {NoScale} \cup Scales
  /\ loop' = "commands" /\ progressed' = FALSE
  /\ UNCHANGED <<published, requestVars, stop, windowVars, offered, restore, acts>>

(* A global is missing, or the thread cannot be made: never tried again. *)
StartFails ==
  /\ started = "no"
  /\ started' = "failed"
  /\ UNCHANGED <<published, requestVars, loopVars, windowVars, scale, serverVars, acts>>

PublishThread ==
  /\ started = "running" /\ ~published
  /\ published' = TRUE
  /\ UNCHANGED <<started, requestVars, loopVars, windowVars, scale, serverVars, acts>>

-----------------------------------------------------------------------------
(* The other threads: a store, then the bell.                              *)

Send(t, command) ==
  /\ t \notin sending /\ Act
  /\ commands' = Append(commands, command)
  /\ sending' = sending \cup {t}
  /\ UNCHANGED <<startVars, latch, bell, unheard, loopVars, windowVars, scale, serverVars>>

RequestPresent(t) ==
  /\ t \notin sending /\ Act
  /\ latch' = TRUE
  /\ sending' = sending \cup {t}
  /\ UNCHANGED <<startVars, commands, bell, unheard, loopVars, windowVars, scale, serverVars>>

(* Mutant of Ping: a loop that is awake is not rung. *)
PingAsleep(t) ==
  /\ t \in sending /\ sending' = sending \ {t}
  /\ bell' = (bell \/ (published /\ loop = "asleep"))
  /\ unheard' = (unheard \/ (~published /\ loop # "none"))
  /\ UNCHANGED <<startVars, commands, latch, loopVars, windowVars, scale, serverVars, acts>>

Ping(t) ==
  /\ t \in sending /\ sending' = sending \ {t}
  /\ bell' = (bell \/ published)
  /\ unheard' = (unheard \/ (~published /\ loop # "none"))
  /\ UNCHANGED <<startVars, commands, latch, loopVars, windowVars, scale, serverVars, acts>>

(* cleanup, once the thread is published: stop, ring, join. *)
Cleanup ==
  /\ published /\ ~stop
  /\ stop' = TRUE /\ bell' = TRUE
  /\ UNCHANGED <<startVars, sending, commands, latch, unheard, loop, progressed,
                 windowVars, scale, serverVars, acts>>

-----------------------------------------------------------------------------
(* The root thread.                                                        *)

Loop == UNCHANGED <<startVars, sending, stop, acts>>

Dispatching == loop \in {"dispatch", "lastDispatch"}

(* calloop returns with the bell, with events, or with both; what follows  *)
(* every return is settle.                                                 *)
WakeUp ==
  /\ Loop
  /\ loop = "asleep" /\ (bell \/ events # <<>>)
  /\ loop' = IF bell /\ stop THEN "lastDispatch" ELSE "dispatch"
  /\ bell' = FALSE /\ unheard' = FALSE
  /\ UNCHANGED <<commands, latch, progressed, windowVars, scale, server, events, offered, restore>>

(* resolve_logical_size: the compositor's size, or else the floating one   *)
(* to restore, or else the current one.                                    *)
Resolve(size, m) ==
  IF size # NoSize THEN size ELSE IF m = "Floating" THEN floating ELSE current

(* try_present with the size, mode, configure and scale of the handler:    *)
(* plan, then execute_present and publish.                                 *)
TryPresent(size, m, acked, stated) ==
  LET resolved == Resolve(size, m) IN
  IF (acked \/ present) /\ resolved # NoSize
    THEN /\ present' = TRUE /\ configured' = FALSE
         /\ current' = resolved
         /\ floating' = IF m = "Floating" THEN resolved ELSE floating
         /\ extent' = IF stated = NoScale THEN extent
                      ELSE [size |-> resolved, mode |-> m, scale |-> stated]
         /\ latch' = TRUE
    ELSE configured' = acked /\ UNCHANGED <<present, current, floating, extent, latch>>

Configure ==
  /\ Loop
  /\ Dispatching /\ events # <<>> /\ Head(events).kind = "configure"
  /\ LET e == Head(events) IN
       /\ pending' = e.size /\ mode' = e.mode /\ offered' = e.size
       /\ TryPresent(e.size, e.mode, TRUE, scale)
  /\ events' = Tail(events)
  /\ UNCHANGED <<commands, bell, unheard, loop, progressed, preFs, shown, scale, server, restore>>

(* Mutant of PreferredScale: the scale is recorded and nothing presented. *)
ScaleOnlyRecorded ==
  /\ Loop
  /\ Dispatching /\ events # <<>> /\ Head(events).kind = "scale"
  /\ scale' = Head(events).value
  /\ events' = Tail(events)
  /\ UNCHANGED <<commands, latch, bell, unheard, loop, progressed, windowVars, server, offered, restore>>

PreferredScale ==
  /\ Loop
  /\ Dispatching /\ events # <<>> /\ Head(events).kind = "scale"
  /\ scale' = Head(events).value
  /\ TryPresent(pending, mode, configured, scale')
  /\ events' = Tail(events)
  /\ UNCHANGED <<commands, bell, unheard, loop, progressed, pending, mode, preFs, shown, server, offered, restore>>

(* Nothing more to dispatch: settle. *)
Dispatched ==
  /\ Loop
  /\ Dispatching /\ events = <<>>
  /\ loop' = IF loop = "lastDispatch" THEN "stopping" ELSE "commands"
  /\ UNCHANGED <<commands, latch, bell, unheard, progressed, windowVars, scale, server, events, offered, restore>>

(* History for entering: leaving may restore what the window is.  While a  *)
(* configure travels the mode is stale, and it may also restore what that  *)
(* mode or one on its way says, or what an earlier entry remembered.       *)
Travelling == {events[i].mode : i \in {j \in DOMAIN events : events[j].kind = "configure"}}

Stale == {m = "Maximized" : m \in (Travelling \cup {mode}) \ {"Fullscreen"}}
           \cup (IF mode = "Fullscreen" THEN {preFs} ELSE {})

MayRestore ==
  IF server.fullscreen THEN restore
  ELSE {server.maximized} \cup (IF Travelling = {} THEN {} ELSE Stale)

(* Mutant of EnterFullscreen: entering twice forgets the first. *)
EnterOverwrites ==
  /\ preFs' = (mode = "Maximized")
  /\ Configures([server EXCEPT !.fullscreen = TRUE])
  /\ restore' = MayRestore

(* apply_fullscreen: entering remembers whether the window was maximized,  *)
(* leaving asks for it again, since the compositor need not.               *)
EnterFullscreen ==
  /\ preFs' = IF mode # "Fullscreen" THEN mode = "Maximized" ELSE preFs
  /\ Configures([server EXCEPT !.fullscreen = TRUE])
  /\ restore' = MayRestore

LeaveFullscreen ==
  /\ preFs' = FALSE
  /\ \E kept \in BOOLEAN :
       Configures([server EXCEPT !.fullscreen = FALSE,
                                 !.maximized = preFs \/ (@ /\ (server.fullscreen => kept))])
  /\ UNCHANGED restore

ToggleMaximize ==
  /\ Configures([server EXCEPT !.maximized = mode # "Maximized"])
  /\ restore' = restore \cup {TRUE}
  /\ UNCHANGED preFs

(* A changed background needs a size and the capability; an unchanged one  *)
(* leaves nothing behind here, like moving, resizing and minimizing.       *)
SetBackground ==
  /\ \E changed \in BOOLEAN :
       latch' = (latch \/ (changed /\ current # NoSize /\ present))
  /\ UNCHANGED <<server, events, preFs, restore>>

(* apply_command: a toggle resolves against the mode last configured. *)
Apply(command) ==
  LET toggle == command = "ToggleFullscreen" IN
  \/ /\ command = "Fullscreen" \/ (toggle /\ mode # "Fullscreen")
     /\ EnterFullscreen /\ UNCHANGED latch
  \/ /\ command = "Windowed" \/ (toggle /\ mode = "Fullscreen")
     /\ LeaveFullscreen /\ UNCHANGED latch
  \/ command = "ToggleMaximize" /\ ToggleMaximize /\ UNCHANGED latch
  \/ command = "Background" /\ SetBackground

ServiceCommand ==
  /\ Loop
  /\ loop \in {"commands", "stopping"} /\ commands # <<>>
  /\ Apply(Head(commands))
  /\ commands' = Tail(commands) /\ progressed' = TRUE
  /\ UNCHANGED <<bell, unheard, loop, pending, mode, current, floating, configured, present, extent,
                 shown, scale, offered>>

CommandsServiced ==
  /\ Loop
  /\ loop \in {"commands", "stopping"} /\ commands = <<>>
  /\ loop' = IF loop = "commands" THEN "latch" ELSE "lastLatch"
  /\ UNCHANGED <<commands, latch, bell, unheard, progressed, windowVars, scale, server, events, offered, restore>>

(* The latch is only taken by a window that may commit; a pass that did    *)
(* anything is followed by another.                                        *)
Commits == present /\ latch

DrainLatch ==
  /\ Loop
  /\ loop \in {"latch", "lastLatch"}
  /\ IF Commits THEN latch' = FALSE /\ shown' = current ELSE UNCHANGED <<latch, shown>>
  /\ loop' = IF progressed \/ Commits
               THEN (IF loop = "latch" THEN "commands" ELSE "stopping")
               ELSE (IF loop = "latch" THEN "asleep" ELSE "gone")
  /\ progressed' = FALSE
  /\ UNCHANGED <<commands, bell, unheard, pending, mode, current, floating, configured, present, preFs,
                 extent, scale, server, events, offered, restore>>

-----------------------------------------------------------------------------
RootThread == WakeUp \/ Configure \/ PreferredScale \/ Dispatched
              \/ ServiceCommand \/ CommandsServiced \/ DrainLatch

Ended == /\ loop = "gone" \/ started = "failed"
         /\ UNCHANGED vars

Next == \/ Start \/ StartFails \/ PublishThread \/ Cleanup \/ CompositorActs \/ StateScale
        \/ \E t \in Senders : RequestPresent(t) \/ Ping(t)
        \/ \E t \in Senders, command \in Commands : Send(t, command)
        \/ RootThread
        \/ Ended

Spec == Init /\ [][Next]_vars

-----------------------------------------------------------------------------
(* Types. *)
TypeOK ==
  /\ started \in {"no", "failed", "running"} /\ published \in BOOLEAN
  /\ sending \subseteq Senders /\ commands \in Seq(Commands)
  /\ loop \in {"none", "asleep", "dispatch", "lastDispatch", "commands", "latch", "stopping", "lastLatch", "gone"}
  /\ {pending, current, floating, offered, shown} \subseteq Sizes
  /\ mode \in Modes /\ scale \in Scales \cup {NoScale}

(* The thread never sleeps on work: with the bell silent and no sender     *)
(* about to ring it, nothing it could do is left.  Only a ping that fell   *)
(* between the spawn of the thread and its publication is excepted.        *)
NeverSleepsOnWork ==
  loop = "asleep" /\ ~bell /\ sending = {} /\ ~unheard =>
    commands = <<>> /\ ~(present /\ latch)

AtRest == commands = <<>> /\ events = <<>> /\ loop = "asleep"

(* At rest the published extent and what the root was committed with are   *)
(* what the compositor last said, at the scale it last stated, in whatever *)
(* order configures, scales and requests came.                             *)
WindowSettles ==
  AtRest /\ current # NoSize =>
    /\ scale # NoScale => extent = [size |-> current, mode |-> ModeOf(server), scale |-> scale]
    /\ shown = current
    /\ offered # NoSize => current = offered

(* A command that leaves fullscreen gives back the window that entered it, *)
(* maximized or not, whether or not the compositor remembers and however   *)
(* often it was entered; one asked to maximize while fullscreen may be     *)
(* maximized too, and what it was is uncertain if a configure travelled    *)
(* when it entered (MayRestore).                                           *)
FullscreenRestores ==
  [][server.fullscreen /\ ~server'.fullscreen /\ commands' # commands
       => server'.maximized \in restore]_vars
=============================================================================
