------------------------- MODULE RootWindow_proofs -------------------------
(***************************************************************************)
(* Proofs about RootWindow for any senders, sizes, scales and bounds: the  *)
(* thread never sleeps on work, a window at rest shows what the compositor *)
(* last said, and one that leaves fullscreen is what it was.               *)
(*                                                                         *)
(* The first needs that whatever came after the loop looked for commands   *)
(* has a ping of its own (Heard).  The others need what the mode is while  *)
(* configures travel: the last of them states the compositor's (Latest).   *)
(* Then, a window that has a size is placed where it was last offered, and *)
(* what it was not yet committed with is latched in an awake loop          *)
(* (Placed); and whatever fullscreen remembers, or may yet, it may restore *)
(* (Remembers).                                                            *)
(***************************************************************************)
EXTENDS RootWindow, SequenceTheorems, TLAPS

Servers == [fullscreen : BOOLEAN, maximized : BOOLEAN, tiled : BOOLEAN]

Events == [kind : {"configure"}, mode : Modes, size : Sizes]
            \cup [kind : {"scale"}, value : Scales]

Types == commands \in Seq(Commands) /\ events \in Seq(Events) /\ server \in Servers /\ preFs \in BOOLEAN

(* Somebody has rung the thread or is about to, or the ping was lost. *)
Rung == bell \/ sending # {} \/ unheard

Heard ==
  /\ loop \in {"latch", "asleep"} /\ commands # <<>> => Rung
  /\ loop = "asleep" /\ present /\ latch => Rung

Started ==
  /\ loop # "none" => started = "running"
  /\ started = "no" => events = <<>> /\ ~server.fullscreen /\ current = NoSize

IsConfigure(q, i) == q[i].kind = "configure"

LastOne(q, i) == IsConfigure(q, i) /\ \A j \in i + 1 .. Len(q) : ~IsConfigure(q, j)

Latest ==
  started = "running" =>
    /\ (\A i \in 1 .. Len(events) : ~IsConfigure(events, i)) => mode = ModeOf(server)
    /\ \A i \in 1 .. Len(events) : LastOne(events, i) => events[i].mode = ModeOf(server)

Placed ==
  /\ floating # NoSize /\ offered = pending
  /\ current # NoSize <=> present
  /\ current # NoSize =>
       /\ scale # NoScale => extent = [size |-> current, mode |-> mode, scale |-> scale]
       /\ pending # NoSize => current = pending
       /\ shown = current \/ (latch /\ loop \notin {"none", "asleep", "gone"})

Remembers ==
  server.fullscreen =>
    /\ preFs \in restore
    /\ server.maximized => TRUE \in restore
    /\ \A m \in Travelling \cup {mode} : m # "Fullscreen" => (m = "Maximized") \in restore

Window == Types /\ Started /\ Latest /\ Placed /\ Remembers

USE DEF Loop, startVars, requestVars, loopVars, windowVars, serverVars

-----------------------------------------------------------------------------
(* The loop and its bell.                                                  *)

LEMMA HeardInit == Init => Heard
  BY DEF Init, Heard

LEMMA HeardNext == Heard /\ [Next]_vars => Heard'
  <1> SUFFICES ASSUME Heard, [Next]_vars PROVE Heard'
    OBVIOUS
  <1>1. CASE Start \/ StartFails \/ PublishThread \/ CompositorActs \/ StateScale
    BY <1>1 DEF Heard, Rung, Start, StartFails, PublishThread, CompositorActs, StateScale
  <1>2. CASE Cleanup
    BY <1>2 DEF Heard, Rung, Cleanup
  <1>3. ASSUME NEW t \in Senders, RequestPresent(t) PROVE Heard'
    BY <1>3 DEF Heard, Rung, RequestPresent
  <1>4. ASSUME NEW t \in Senders, Ping(t) PROVE Heard'
    BY <1>4 DEF Heard, Rung, Ping
  <1>5. ASSUME NEW t \in Senders, NEW command \in Commands, Send(t, command) PROVE Heard'
    BY <1>5 DEF Heard, Rung, Send
  <1>6. CASE WakeUp \/ Configure \/ PreferredScale \/ Dispatched
    BY <1>6 DEF Heard, WakeUp, Configure, PreferredScale, Dispatched, Dispatching
  <1>7. CASE ServiceCommand
    BY <1>7 DEF Heard, Rung, ServiceCommand
  <1>8. CASE CommandsServiced
    BY <1>8 DEF Heard, CommandsServiced
  <1>9. CASE DrainLatch
    BY <1>9 DEF Heard, Rung, DrainLatch, Commits
  <1>10. CASE Ended \/ UNCHANGED vars
    BY <1>10 DEF Ended, vars, Heard, Rung
  <1> QED
    BY <1>1, <1>2, <1>3, <1>4, <1>5, <1>6, <1>7, <1>8, <1>9, <1>10 DEF Next, RootThread

(* settle looks at the commands and the latch until nothing is left, and   *)
(* every store is followed by a ping: between them no request is slept on, *)
(* in whatever order stores, pings, looks and events fall.                 *)
THEOREM SleepsOnNothing == Spec => []NeverSleepsOnWork
  <1>1. Heard => NeverSleepsOnWork
    BY DEF Heard, Rung, NeverSleepsOnWork
  <1> QED
    BY <1>1, HeardInit, HeardNext, PTL DEF Spec

-----------------------------------------------------------------------------
(* Sequences of events and commands.                                       *)

LEMMA Appended ==
  ASSUME NEW S, NEW q \in Seq(S), NEW e \in S
  PROVE  /\ Append(q, e) \in Seq(S)
         /\ Len(Append(q, e)) = Len(q) + 1 /\ Len(q) \in Nat
         /\ \A i \in 1 .. Len(q) : Append(q, e)[i] = q[i]
         /\ Append(q, e)[Len(q) + 1] = e
  BY AppendProperties

LEMMA Taken ==
  ASSUME NEW S, NEW q \in Seq(S), q # <<>>
  PROVE  /\ Tail(q) \in Seq(S) /\ Head(q) = q[1] /\ Head(q) \in S
         /\ Len(q) \in Nat /\ Len(q) > 0 /\ Len(Tail(q)) = Len(q) - 1
         /\ \A i \in 1 .. Len(q) - 1 : Tail(q)[i] = q[i + 1]
  OBVIOUS

LEMMA Travels ==
  ASSUME Types
  PROVE  \A m : m \in Travelling <=> \E i \in 1 .. Len(events) : IsConfigure(events, i) /\ events[i].mode = m
  <1>1. DOMAIN events = 1 .. Len(events)
    BY DEF Types
  <1> QED
    BY <1>1 DEF Travelling, IsConfigure

LEMMA TravelsNext ==
  ASSUME Types'
  PROVE  \A m : m \in Travelling' <=> \E i \in 1 .. Len(events') : IsConfigure(events', i) /\ events'[i].mode = m
  <1>1. DOMAIN events' = 1 .. Len(events')
    BY DEF Types
  <1> QED
    BY <1>1 DEF Travelling, IsConfigure

LEMMA ModesOfServers == ASSUME NEW s \in Servers PROVE ModeOf(s) \in Modes
  BY DEF ModeOf, Modes

(* A configure is sent. *)
LEMMA Sent ==
  ASSUME Types, NEW s \in Servers, Configures(s)
  PROVE  /\ server' = s /\ events' \in Seq(Events)
         /\ Len(events') = Len(events) + 1 /\ Len(events) \in Nat
         /\ \A i \in 1 .. Len(events) : events'[i] = events[i]
         /\ events'[Len(events) + 1].kind = "configure"
         /\ events'[Len(events) + 1].mode = ModeOf(s)
  <1>1. PICK size \in Offers(s) :
          events' = Append(events, [kind |-> "configure", mode |-> ModeOf(s), size |-> size])
    BY DEF Configures
  <1> DEFINE e == [kind |-> "configure", mode |-> ModeOf(s), size |-> size]
  <1>2. e \in Events
    <2>1. size \in Sizes
      BY <1>1 DEF Offers, Sizes
    <2> QED
      BY <2>1, ModesOfServers DEF Events
  <1>3. e.kind = "configure" /\ e.mode = ModeOf(s)
    OBVIOUS
  <1>4. events' = Append(events, e)
    BY <1>1
  <1> HIDE DEF e
  <1>5. /\ events' \in Seq(Events) /\ Len(events') = Len(events) + 1 /\ Len(events) \in Nat
        /\ \A i \in 1 .. Len(events) : events'[i] = events[i]
        /\ events'[Len(events) + 1] = e
    BY <1>2, <1>4, Appended DEF Types
  <1> QED
    BY <1>3, <1>5 DEF Configures

(* It is the last one, and travels with the others. *)
LEMMA ConfiguresLast ==
  ASSUME Types, Types', NEW s \in Servers, Configures(s)
  PROVE  /\ Latest'
         /\ \A m \in Travelling' : m \in Travelling \/ m = ModeOf(s)
  <1> DEFINE n == Len(events) + 1
  <1>1. /\ server' = s /\ n \in Nat /\ Len(events') = n /\ n \in 1 .. Len(events')
        /\ \A i \in 1 .. Len(events) : events'[i] = events[i]
        /\ events'[n].kind = "configure" /\ events'[n].mode = ModeOf(s)
    BY Sent
  <1>2. \A i \in 1 .. Len(events') : i \in 1 .. Len(events) \/ i = n
    BY <1>1
  <1>3. IsConfigure(events', n)
    BY <1>1 DEF IsConfigure
  <1>4. ASSUME NEW i \in 1 .. Len(events'), LastOne(events', i)
        PROVE  events'[i].mode = ModeOf(server')
    <2>1. i \notin 1 .. Len(events)
      <3>1. ASSUME i \in 1 .. Len(events) PROVE FALSE
        <4>1. n \in i + 1 .. Len(events')
          BY <3>1, <1>1
        <4> QED
          BY <4>1, <1>3, <1>4 DEF LastOne
      <3> QED
        BY <3>1
    <2> QED
      BY <2>1, <1>1, <1>2
  <1>5. Latest'
    BY <1>1, <1>3, <1>4 DEF Latest
  <1>6. \A i \in 1 .. Len(events) : IsConfigure(events', i) => IsConfigure(events, i)
    BY <1>1 DEF IsConfigure
  <1>7. ASSUME NEW m \in Travelling' PROVE m \in Travelling \/ m = ModeOf(s)
    <2>1. PICK i \in 1 .. Len(events') : IsConfigure(events', i) /\ events'[i].mode = m
      BY <1>7, TravelsNext
    <2> QED
      BY <2>1, <1>1, <1>2, <1>6, Travels
  <1> QED
    BY <1>5, <1>7

(* A scale is stated. *)
LEMMA ScaleAppended ==
  ASSUME Types, Latest, NEW v \in Scales,
         events' = Append(events, [kind |-> "scale", value |-> v]),
         UNCHANGED <<commands, server, preFs, started, mode>>
  PROVE  Types' /\ Latest' /\ \A m \in Travelling' : m \in Travelling
  <1> DEFINE e == [kind |-> "scale", value |-> v]
  <1>1. e \in Events
    BY DEF Events
  <1>2. /\ events' \in Seq(Events) /\ Len(events') = Len(events) + 1 /\ Len(events) \in Nat
        /\ \A i \in 1 .. Len(events) : events'[i] = events[i]
        /\ events'[Len(events) + 1] = e
    BY <1>1, Appended DEF Types
  <1>3. Types'
    BY <1>2 DEF Types
  <1>4. e.kind = "scale"
    OBVIOUS
  <1> HIDE DEF e
  <1>5. /\ \A i \in 1 .. Len(events) : IsConfigure(events', i) <=> IsConfigure(events, i)
        /\ ~IsConfigure(events', Len(events) + 1)
    BY <1>2, <1>4 DEF IsConfigure
  <1>6. /\ \A i \in 1 .. Len(events) : i \in 1 .. Len(events')
        /\ \A i \in 1 .. Len(events') : i \in 1 .. Len(events) \/ ~IsConfigure(events', i)
    <2>1. \A i \in 1 .. Len(events') : i \in 1 .. Len(events) \/ i = Len(events) + 1
      BY <1>2
    <2> QED
      BY <2>1, <1>2, <1>5
  <1>7. ASSUME NEW i \in 1 .. Len(events'), LastOne(events', i) PROVE i \in 1 .. Len(events) /\ LastOne(events, i)
    <2>1. i \in 1 .. Len(events) /\ IsConfigure(events, i)
      BY <1>7, <1>5, <1>6 DEF LastOne
    <2>2. ASSUME NEW j \in i + 1 .. Len(events) PROVE ~IsConfigure(events, j)
      <3>1. j \in 1 .. Len(events) /\ j \in i + 1 .. Len(events')
        BY <2>1, <1>2
      <3> QED
        BY <3>1, <1>5, <1>7 DEF LastOne
    <2> QED
      BY <2>1, <2>2 DEF LastOne
  <1>8. Latest'
    <2>1. started' = "running" => started = "running"
      OBVIOUS
    <2>2. (\A i \in 1 .. Len(events') : ~IsConfigure(events', i)) => \A i \in 1 .. Len(events) : ~IsConfigure(events, i)
      BY <1>5, <1>6
    <2>3. \A i \in 1 .. Len(events') : LastOne(events', i) => LastOne(events, i) /\ i \in 1 .. Len(events) /\ events'[i] = events[i]
      BY <1>2, <1>7
    <2> QED
      BY <2>2, <2>3 DEF Latest
  <1>9. ASSUME NEW m \in Travelling' PROVE m \in Travelling
    <2>1. PICK i \in 1 .. Len(events') : IsConfigure(events', i) /\ events'[i].mode = m
      BY <1>3, <1>9, TravelsNext
    <2>2. i \in 1 .. Len(events) /\ IsConfigure(events, i) /\ events[i].mode = m
      BY <2>1, <1>2, <1>5, <1>6
    <2> QED
      BY <2>2, Travels
  <1> QED
    BY <1>3, <1>8, <1>9

(* The first event is dispatched; a configure states the mode. *)
LEMMA Dispatches ==
  ASSUME Types, Latest, events # <<>>, events' = Tail(events),
         mode' = IF Head(events).kind = "configure" THEN Head(events).mode ELSE mode,
         UNCHANGED <<commands, server, preFs, started>>
  PROVE  Types' /\ Latest' /\ \A m \in Travelling' \cup {mode'} : m \in Travelling \cup {mode}
  <1>1. /\ events' \in Seq(Events) /\ Head(events) = events[1]
        /\ Len(events) \in Nat /\ Len(events) > 0 /\ Len(events') = Len(events) - 1
        /\ \A i \in 1 .. Len(events) - 1 : events'[i] = events[i + 1]
    BY Taken DEF Types
  <1>2. 1 \in 1 .. Len(events) /\ \A i \in 1 .. Len(events') : i + 1 \in 1 .. Len(events) /\ events'[i] = events[i + 1]
    BY <1>1
  <1>3. \A i \in 1 .. Len(events') : IsConfigure(events', i) <=> IsConfigure(events, i + 1)
    BY <1>2 DEF IsConfigure
  <1>4. Types'
    BY <1>1 DEF Types
  <1>5. ASSUME NEW j \in 2 .. Len(events) PROVE j - 1 \in 1 .. Len(events') /\ (j - 1) + 1 = j
    BY <1>1
  <1>6. ASSUME started = "running", \A i \in 1 .. Len(events') : ~IsConfigure(events', i)
        PROVE  mode' = ModeOf(server)
    <2>1. \A j \in 2 .. Len(events) : ~IsConfigure(events, j)
      BY <1>3, <1>5, <1>6
    <2>2. CASE IsConfigure(events, 1)
      <3>1. LastOne(events, 1)
        BY <2>1, <2>2 DEF LastOne
      <3> QED
        BY <3>1, <2>2, <1>1, <1>2, <1>6 DEF Latest, IsConfigure
    <2>3. CASE ~IsConfigure(events, 1)
      <3>1. \A j \in 1 .. Len(events) : j = 1 \/ j \in 2 .. Len(events)
        BY <1>1
      <3>2. mode' = mode
        BY <2>3, <1>1 DEF IsConfigure
      <3> QED
        BY <3>1, <3>2, <2>1, <2>3, <1>6 DEF Latest
    <2> QED
      BY <2>2, <2>3
  <1>7. ASSUME NEW i \in 1 .. Len(events'), LastOne(events', i) PROVE LastOne(events, i + 1)
    <2>1. ASSUME NEW j \in (i + 1) + 1 .. Len(events) PROVE ~IsConfigure(events, j)
      <3>1. j \in 2 .. Len(events) /\ j - 1 \in i + 1 .. Len(events') /\ (j - 1) + 1 = j /\ j - 1 \in 1 .. Len(events')
        BY <1>1
      <3> QED
        BY <3>1, <1>3, <1>7 DEF LastOne
    <2> QED
      BY <2>1, <1>3, <1>7 DEF LastOne
  <1>8. Latest'
    <2>1. \A i \in 1 .. Len(events') : LastOne(events', i) => LastOne(events, i + 1) /\ i + 1 \in 1 .. Len(events) /\ events'[i] = events[i + 1]
      BY <1>2, <1>7
    <2> QED
      BY <2>1, <1>6 DEF Latest
  <1>9. ASSUME NEW m \in Travelling' PROVE m \in Travelling
    <2>1. PICK i \in 1 .. Len(events') : IsConfigure(events', i) /\ events'[i].mode = m
      BY <1>4, <1>9, TravelsNext
    <2>2. i + 1 \in 1 .. Len(events) /\ IsConfigure(events, i + 1) /\ events[i + 1].mode = m
      BY <2>1, <1>2, <1>3
    <2> QED
      BY <2>2, Travels
  <1>10. mode' \in Travelling \cup {mode}
    <2>1. CASE Head(events).kind = "configure"
      <3>1. IsConfigure(events, 1) /\ mode' = events[1].mode
        BY <2>1, <1>1 DEF IsConfigure
      <3> QED
        BY <3>1, <1>2, Travels
    <2> QED
      BY <2>1
  <1> QED
    BY <1>4, <1>8, <1>9, <1>10

LEMMA RemembersLess ==
  ASSUME Remembers, UNCHANGED <<server, preFs, restore>>,
         \A m \in Travelling' \cup {mode'} : m \in Travelling \cup {mode}
  PROVE  Remembers'
  BY DEF Remembers

-----------------------------------------------------------------------------
(* The mode commands.                                                      *)

(* What enters fullscreen is remembered. *)
LEMMA Entering ==
  ASSUME Window, started = "running", EnterFullscreen, UNCHANGED <<started, mode>>,
         commands' \in Seq(Commands)
  PROVE  Types' /\ Latest' /\ Remembers' /\ server'.fullscreen
  <1> DEFINE s == [server EXCEPT !.fullscreen = TRUE]
  <1>1. /\ s \in Servers /\ Configures(s) /\ ModeOf(s) = "Fullscreen"
        /\ s.fullscreen /\ s.maximized = server.maximized
    BY DEF EnterFullscreen, Window, Types, Servers, ModeOf
  <1>2. /\ preFs' = IF mode # "Fullscreen" THEN mode = "Maximized" ELSE preFs
        /\ restore' = MayRestore
    BY DEF EnterFullscreen
  <1>3. server' = s /\ events' \in Seq(Events)
    BY <1>1, Sent DEF Window
  <1>4. Types'
    BY <1>1, <1>2, <1>3 DEF Window, Types
  <1>5. Latest' /\ \A m \in Travelling' : m \in Travelling \/ m = "Fullscreen"
    BY <1>1, <1>4, ConfiguresLast DEF Window
  <1> HIDE DEF s
  <1>6. /\ preFs' \in restore' /\ (server.maximized => TRUE \in restore')
        /\ \A m \in Travelling \cup {mode} : m # "Fullscreen" => (m = "Maximized") \in restore'
    <2>1. CASE server.fullscreen
      <3>1. restore' = restore
        BY <2>1, <1>2 DEF MayRestore
      <3> QED
        BY <2>1, <3>1, <1>2 DEF Window, Remembers
    <2>2. CASE ~server.fullscreen /\ Travelling = {}
      <3>1. restore' = {server.maximized}
        BY <2>2, <1>2 DEF MayRestore
      <3>2. mode = ModeOf(server)
        BY <2>2, Travels DEF Window, Latest
      <3>3. mode # "Fullscreen" /\ (mode = "Maximized") = server.maximized
        BY <2>2, <3>2 DEF ModeOf, Window, Types, Servers
      <3> QED
        BY <2>2, <3>1, <3>3, <1>2
    <2>3. CASE ~server.fullscreen /\ Travelling # {}
      <3>1. restore' = {server.maximized} \cup Stale
        BY <2>3, <1>2 DEF MayRestore
      <3>2. \A m \in Travelling \cup {mode} : m # "Fullscreen" => (m = "Maximized") \in Stale
        BY DEF Stale
      <3>3. mode = "Fullscreen" => preFs \in Stale
        BY DEF Stale
      <3>4. server.maximized => TRUE \in restore'
        <4>1. server.maximized \in BOOLEAN
          BY DEF Window, Types, Servers
        <4> QED
          BY <4>1, <3>1
      <3> QED
        BY <3>1, <3>2, <3>3, <3>4, <1>2
    <2> QED
      BY <2>1, <2>2, <2>3
  <1>7. Remembers'
    <2>1. server'.maximized = server.maximized
      BY <1>1, <1>3
    <2>2. \A m \in Travelling' \cup {mode'} : m \in Travelling \cup {mode} \/ m = "Fullscreen"
      BY <1>5
    <2>3. \A m \in Travelling' \cup {mode'} : m # "Fullscreen" => (m = "Maximized") \in restore'
      BY <2>2, <1>6
    <2> QED
      BY <2>1, <2>3, <1>6 DEF Remembers
  <1> QED
    BY <1>1, <1>3, <1>4, <1>5, <1>7

(* What leaves it is restored. *)
LEMMA Leaving ==
  ASSUME Window, started = "running", LeaveFullscreen, UNCHANGED <<started, mode>>,
         commands' \in Seq(Commands)
  PROVE  /\ Types' /\ Latest' /\ Remembers'
         /\ server.fullscreen => server'.maximized \in restore
  <1>1. PICK kept \in BOOLEAN :
          Configures([server EXCEPT !.fullscreen = FALSE,
                                    !.maximized = preFs \/ (@ /\ (server.fullscreen => kept))])
    BY DEF LeaveFullscreen
  <1> DEFINE s == [server EXCEPT !.fullscreen = FALSE,
                     !.maximized = preFs \/ (server.maximized /\ (server.fullscreen => kept))]
  <1>2. /\ s \in Servers /\ Configures(s)
        /\ s.maximized = (preFs \/ (server.maximized /\ (server.fullscreen => kept)))
        /\ ~s.fullscreen
    BY <1>1 DEF Window, Types, Servers
  <1>3. preFs' = FALSE
    BY DEF LeaveFullscreen
  <1>4. server' = s /\ events' \in Seq(Events)
    BY <1>2, Sent DEF Window
  <1>5. Types'
    BY <1>2, <1>3, <1>4 DEF Window, Types
  <1>6. Latest'
    BY <1>2, <1>5, ConfiguresLast DEF Window
  <1> HIDE DEF s
  <1>7. ASSUME server.fullscreen PROVE server'.maximized \in restore
    <2>1. preFs \in BOOLEAN /\ server.maximized \in BOOLEAN
      BY DEF Window, Types, Servers
    <2>2. CASE preFs
      <3>1. s.maximized = TRUE /\ preFs = TRUE
        BY <2>1, <2>2, <1>2
      <3> QED
        BY <3>1, <1>4, <1>7 DEF Window, Remembers
    <2>3. CASE ~preFs /\ server.maximized /\ kept
      <3>1. s.maximized = TRUE
        BY <2>1, <2>3, <1>2
      <3> QED
        BY <3>1, <2>3, <1>4, <1>7 DEF Window, Remembers
    <2>4. CASE ~preFs /\ ~(server.maximized /\ kept)
      <3>1. s.maximized = FALSE /\ preFs = FALSE
        BY <2>1, <2>4, <1>2, <1>7
      <3> QED
        BY <3>1, <1>4, <1>7 DEF Window, Remembers
    <2> QED
      BY <2>2, <2>3, <2>4
  <1>8. Remembers'
    BY <1>2, <1>4 DEF Remembers
  <1> QED
    BY <1>5, <1>6, <1>7, <1>8

LEMMA Toggling ==
  ASSUME Window, started = "running", ToggleMaximize, UNCHANGED <<started, mode>>,
         commands' \in Seq(Commands)
  PROVE  Types' /\ Latest' /\ Remembers' /\ server'.fullscreen = server.fullscreen
  <1> DEFINE s == [server EXCEPT !.maximized = mode # "Maximized"]
  <1>1. /\ s \in Servers /\ Configures(s) /\ s.fullscreen = server.fullscreen
        /\ s.fullscreen => ModeOf(s) = "Fullscreen"
    BY DEF ToggleMaximize, Window, Types, Servers, ModeOf
  <1>2. restore' = restore \cup {TRUE} /\ preFs' = preFs
    BY DEF ToggleMaximize
  <1>3. server' = s /\ events' \in Seq(Events)
    BY <1>1, Sent DEF Window
  <1>4. Types'
    BY <1>1, <1>2, <1>3 DEF Window, Types
  <1>5. Latest' /\ \A m \in Travelling' : m \in Travelling \/ m = ModeOf(s)
    BY <1>1, <1>4, ConfiguresLast DEF Window
  <1> HIDE DEF s
  <1>6. Remembers'
    <2>1. ASSUME server'.fullscreen
          PROVE  \A m \in Travelling' \cup {mode'} : m # "Fullscreen" => m \in Travelling \cup {mode}
      BY <2>1, <1>1, <1>3, <1>5
    <2> QED
      BY <2>1, <1>1, <1>2, <1>3 DEF Window, Remembers
  <1> QED
    BY <1>1, <1>3, <1>4, <1>5, <1>6

(* A command is serviced. *)
LEMMA Servicing ==
  ASSUME Window, ServiceCommand
  PROVE  /\ Window'
         /\ server.fullscreen /\ ~server'.fullscreen => server'.maximized \in restore
  <1>1. commands # <<>> /\ commands' = Tail(commands) /\ Apply(Head(commands))
    BY DEF ServiceCommand
  <1>2. commands' \in Seq(Commands)
    BY <1>1, Taken DEF Window, Types
  <1>3. started = "running" /\ started' = "running" /\ loop \in {"commands", "stopping"}
    BY DEF ServiceCommand, Window, Started
  <1>4. UNCHANGED <<mode, loop, pending, current, floating, present, extent, shown, scale, offered>>
    BY DEF ServiceCommand
  <1>5. latch => latch'
    BY <1>1 DEF Apply, SetBackground
  <1>6. Started' /\ Placed'
    BY <1>3, <1>4, <1>5 DEF Window, Started, Placed
  <1>7. CASE EnterFullscreen \/ LeaveFullscreen \/ ToggleMaximize
    <2>1. UNCHANGED <<started, mode>>
      BY <1>3, <1>4
    <2>2. /\ Types' /\ Latest' /\ Remembers'
          /\ server.fullscreen /\ ~server'.fullscreen => server'.maximized \in restore
      <3>1. CASE EnterFullscreen
        BY <3>1, <2>1, <1>2, <1>3, Entering
      <3>2. CASE LeaveFullscreen
        BY <3>2, <2>1, <1>2, <1>3, Leaving
      <3>3. CASE ToggleMaximize
        BY <3>3, <2>1, <1>2, <1>3, Toggling
      <3> QED
        BY <1>7, <3>1, <3>2, <3>3
    <2> QED
      BY <2>2, <1>6 DEF Window
  <1>8. CASE UNCHANGED <<server, events, preFs, restore>>
    <2>1. Types' /\ Latest'
      BY <1>2, <1>3, <1>4, <1>8 DEF Window, Types, Latest, LastOne, IsConfigure
    <2>2. Travelling' = Travelling
      BY <1>8 DEF Travelling
    <2>3. Remembers'
      BY <1>4, <1>8, <2>2 DEF Window, Remembers
    <2> QED
      BY <2>1, <2>3, <1>6, <1>8 DEF Window
  <1> QED
    BY <1>1, <1>7, <1>8 DEF Apply, SetBackground

-----------------------------------------------------------------------------
(* The steps.                                                              *)

LEMMA WindowInit == Init => Window
  <1> SUFFICES ASSUME Init PROVE Window
    OBVIOUS
  <1>1. Types /\ Started
    BY EmptySeq DEF Init, Types, Started, Servers
  <1>2. Latest
    BY DEF Init, Latest
  <1>3. Placed
    BY DEF Init, Placed, NoSize
  <1>4. Remembers
    BY DEF Init, Remembers
  <1> QED
    BY <1>1, <1>2, <1>3, <1>4 DEF Window

(* What TryPresent leaves of a placed window, which is given a size and a  *)
(* mode or a scale while the loop is awake.                                *)
LEMMA Presents ==
  ASSUME Placed, NEW size, NEW m, NEW acked, NEW stated,
         TryPresent(size, m, acked, stated),
         pending' = size /\ offered' = size /\ mode' = m /\ scale' = stated,
         acked \/ (size = pending /\ m = mode),
         UNCHANGED <<shown, loop>>, loop \notin {"none", "asleep", "gone"}
  PROVE  Placed'
  <1> DEFINE resolved == Resolve(size, m)
  <1>1. CASE (acked \/ present) /\ resolved # NoSize
    <2>1. /\ present' = TRUE /\ current' = resolved /\ latch' = TRUE
          /\ floating' = IF m = "Floating" THEN resolved ELSE floating
          /\ extent' = IF stated = NoScale THEN extent
                       ELSE [size |-> resolved, mode |-> m, scale |-> stated]
      BY <1>1 DEF TryPresent
    <2>2. size # NoSize => resolved = size
      BY DEF Resolve
    <2> HIDE DEF resolved
    <2> QED
      BY <1>1, <2>1, <2>2 DEF Placed
  <1>2. CASE ~((acked \/ present) /\ resolved # NoSize)
    <2>1. UNCHANGED <<present, current, floating, extent, latch>>
      BY <1>2 DEF TryPresent
    <2>2. current = NoSize
      <3>1. CASE resolved = NoSize
        BY <3>1 DEF Resolve, Placed
      <3>2. CASE resolved # NoSize
        BY <3>2, <1>2 DEF Placed
      <3> QED
        BY <3>1, <3>2
    <2> QED
      BY <2>1, <2>2 DEF Placed
  <1> QED
    BY <1>1, <1>2

LEMMA Eventful ==
  ASSUME Window, Configure \/ PreferredScale
  PROVE  Window' /\ server' = server
  <1>1. /\ events # <<>> /\ events' = Tail(events) /\ loop \notin {"none", "asleep", "gone"}
        /\ UNCHANGED <<commands, server, preFs, restore, started, loop, shown>>
    BY DEF Configure, PreferredScale, Dispatching
  <1>2. mode' = IF Head(events).kind = "configure" THEN Head(events).mode ELSE mode
    BY DEF Configure, PreferredScale
  <1>3. Types' /\ Latest' /\ \A m \in Travelling' \cup {mode'} : m \in Travelling \cup {mode}
    BY <1>1, <1>2, Dispatches DEF Window
  <1>4. Remembers'
    BY <1>1, <1>3, RemembersLess DEF Window
  <1>5. Started'
    BY <1>1 DEF Window, Started
  <1>6. Placed'
    <2>1. CASE Configure
      <3>1. /\ TryPresent(Head(events).size, Head(events).mode, TRUE, scale)
            /\ pending' = Head(events).size /\ offered' = Head(events).size
            /\ mode' = Head(events).mode /\ scale' = scale
        BY <2>1 DEF Configure
      <3> QED
        BY <3>1, <1>1, Presents DEF Window
    <2>2. CASE PreferredScale
      <3>1. /\ TryPresent(pending, mode, configured, scale')
            /\ pending' = pending /\ offered' = offered /\ mode' = mode
        BY <2>2 DEF PreferredScale
      <3>2. offered = pending
        BY DEF Window, Placed
      <3> QED
        BY <3>1, <3>2, <1>1, Presents DEF Window
    <2> QED
      BY <2>1, <2>2
  <1> QED
    BY <1>1, <1>3, <1>4, <1>5, <1>6 DEF Window

(* The first configure, and one that nobody asked for. *)
LEMMA Configuring ==
  ASSUME Window, Start \/ CompositorActs
  PROVE  Window' /\ commands' = commands
  <1>1. PICK s \in Servers :
          /\ Configures(s) /\ (s.fullscreen => server.fullscreen /\ s.maximized = server.maximized)
    <2>1. CASE Start
      BY <2>1 DEF Start, Window, Types
    <2>2. CASE CompositorActs
      <3>1. PICK fs \in {FALSE, server.fullscreen}, max \in BOOLEAN, tiled \in BOOLEAN :
              /\ fs => max = server.maximized
              /\ Configures([fullscreen |-> fs, maximized |-> max, tiled |-> tiled])
        BY <2>2 DEF CompositorActs
      <3> DEFINE s == [fullscreen |-> fs, maximized |-> max, tiled |-> tiled]
      <3>2. s \in Servers /\ s.fullscreen = fs /\ s.maximized = max
        BY DEF Window, Types, Servers
      <3> QED
        BY <3>1, <3>2
    <2> QED
      BY <2>1, <2>2
  <1>2. UNCHANGED <<commands, preFs, restore, mode>> /\ started' = "running"
    BY DEF Start, CompositorActs
  <1>3. server' = s /\ events' \in Seq(Events)
    BY <1>1, Sent DEF Window
  <1>4. Types'
    BY <1>2, <1>3 DEF Window, Types
  <1>5. Latest' /\ \A m \in Travelling' : m \in Travelling \/ m = ModeOf(s)
    BY <1>1, <1>4, ConfiguresLast DEF Window
  <1>6. Remembers'
    <2>1. s.fullscreen => ModeOf(s) = "Fullscreen"
      BY DEF ModeOf
    <2>2. ASSUME s.fullscreen
          PROVE  \A m \in Travelling' \cup {mode'} : m # "Fullscreen" => m \in Travelling \cup {mode}
      BY <2>1, <2>2, <1>2, <1>5
    <2> QED
      BY <2>2, <1>1, <1>2, <1>3 DEF Window, Remembers
  <1>7. Started'
    BY <1>2 DEF Started
  <1>8. Placed'
    <2>1. CASE Start
      <3>1. started = "no" /\ loop' = "commands" /\ UNCHANGED <<latch, windowVars, offered>>
        BY <2>1 DEF Start
      <3> QED
        BY <3>1 DEF Window, Started, Placed
    <2>2. CASE CompositorActs
      BY <2>2 DEF CompositorActs, Window, Placed
    <2> QED
      BY <2>1, <2>2
  <1> QED
    BY <1>2, <1>4, <1>5, <1>6, <1>7, <1>8 DEF Window

LEMMA WindowNext ==
  ASSUME Window, [Next]_vars
  PROVE  /\ Window'
         /\ server.fullscreen /\ ~server'.fullscreen /\ commands' # commands
              => server'.maximized \in restore
  <1>1. CASE Start \/ CompositorActs
    BY <1>1, Configuring
  <1>2. CASE StateScale
    <2>1. PICK value \in Scales : events' = Append(events, [kind |-> "scale", value |-> value])
      BY <1>2 DEF StateScale
    <2>2. /\ UNCHANGED <<commands, server, preFs, restore, started, mode, loop, latch, windowVars, scale, offered>>
          /\ started = "running"
      BY <1>2 DEF StateScale
    <2>3. Types' /\ Latest' /\ \A m \in Travelling' : m \in Travelling
      BY <2>1, <2>2, ScaleAppended DEF Window
    <2>4. Remembers'
      BY <2>2, <2>3, RemembersLess DEF Window
    <2>5. Started' /\ Placed'
      BY <2>2 DEF Window, Started, Placed
    <2> QED
      BY <2>2, <2>3, <2>4, <2>5 DEF Window
  <1>3. CASE Configure \/ PreferredScale
    BY <1>3, Eventful
  <1>4. CASE ServiceCommand
    BY <1>4, Servicing
  <1>5. CASE \/ StartFails \/ PublishThread \/ Cleanup \/ Ended \/ UNCHANGED vars
             \/ WakeUp \/ Dispatched \/ CommandsServiced \/ DrainLatch
             \/ \E t \in Senders : RequestPresent(t) \/ Ping(t)
             \/ \E t \in Senders, command \in Commands : Send(t, command)
    <2>1. UNCHANGED <<events, server, preFs, mode, current, restore>>
      BY <1>5 DEF StartFails, PublishThread, Cleanup, Ended, vars, RequestPresent, Ping, Send,
                  WakeUp, Dispatched, CommandsServiced, DrainLatch
    <2>2. commands' = commands \/ \E command \in Commands : commands' = Append(commands, command)
      BY <1>5 DEF StartFails, PublishThread, Cleanup, Ended, vars, RequestPresent, Ping, Send,
                  WakeUp, Dispatched, CommandsServiced, DrainLatch
    <2>3. started' = started \/ (started = "no" /\ started' = "failed" /\ loop' = loop)
      BY <1>5 DEF StartFails, PublishThread, Cleanup, Ended, vars, RequestPresent, Ping, Send,
                  WakeUp, Dispatched, CommandsServiced, DrainLatch
    <2>4. loop' = loop \/ loop # "none"
      BY <1>5 DEF StartFails, PublishThread, Cleanup, Ended, vars, RequestPresent, Ping, Send,
                  WakeUp, Dispatched, CommandsServiced, DrainLatch, Dispatching
    <2>5. Types'
      BY <2>1, <2>2, Appended DEF Window, Types
    <2>6. Travelling' = Travelling
      BY <2>1 DEF Travelling
    <2>7. Started' /\ Latest' /\ Remembers'
      BY <2>1, <2>3, <2>4, <2>6 DEF Window, Started, Latest, LastOne, IsConfigure, Remembers
    <2>8. Placed'
      <3>1. CASE DrainLatch
        BY <3>1 DEF DrainLatch, Commits, Window, Placed
      <3>2. CASE WakeUp \/ Dispatched \/ CommandsServiced
        BY <3>2 DEF WakeUp, Dispatched, CommandsServiced, Dispatching, Window, Placed
      <3>3. CASE \/ StartFails \/ PublishThread \/ Cleanup \/ Ended \/ UNCHANGED vars
                 \/ \E t \in Senders : RequestPresent(t) \/ Ping(t)
                 \/ \E t \in Senders, command \in Commands : Send(t, command)
        <4>1. /\ UNCHANGED <<loop, windowVars, scale, offered>>
              /\ latch => latch'
          BY <3>3 DEF StartFails, PublishThread, Cleanup, Ended, vars, RequestPresent, Ping, Send
        <4> QED
          BY <4>1 DEF Window, Placed
      <3> QED
        BY <1>5, <3>1, <3>2, <3>3
    <2> QED
      BY <2>1, <2>5, <2>7, <2>8 DEF Window
  <1> QED
    BY <1>1, <1>2, <1>3, <1>4, <1>5 DEF Next, RootThread

(* The strengthening: the last configure on its way states the mode the    *)
(* compositor holds, a window with a size is placed, and what leaving      *)
(* fullscreen would restore is what it may.                                *)
THEOREM WindowInvariant == Spec => []Window
  BY WindowInit, WindowNext, PTL DEF Spec

(* try_present plans the same from a configure and from a scale: whichever *)
(* comes last, the published extent and the committed root are those of    *)
(* the last configure and scale once the thread sleeps.                    *)
THEOREM SettlesAsConfigured == Spec => []WindowSettles
  <1>1. ASSUME Window, AtRest, current # NoSize
        PROVE  /\ scale # NoScale => extent = [size |-> current, mode |-> ModeOf(server), scale |-> scale]
               /\ shown = current
               /\ offered # NoSize => current = offered
    <2>1. started = "running" /\ mode = ModeOf(server)
      BY <1>1 DEF Window, AtRest, Started, Latest
    <2> QED
      BY <1>1, <2>1 DEF Window, AtRest, Placed
  <1>2. Window => WindowSettles
    BY <1>1 DEF WindowSettles
  <1> QED
    BY <1>2, WindowInvariant, PTL

(* apply_fullscreen gives back the window that entered fullscreen, however *)
(* commands, configures and entries follow one another: only one that      *)
(* entered while a configure travelled may be given back as it was         *)
(* before that.                                                            *)
THEOREM FullscreenGivesBack == Spec => FullscreenRestores
  <1>1. Window /\ [Next]_vars =>
          [server.fullscreen /\ ~server'.fullscreen /\ commands' # commands
             => server'.maximized \in restore]_vars
    BY WindowNext
  <1> QED
    BY <1>1, WindowInvariant, PTL DEF Spec, FullscreenRestores
=============================================================================
