---------------------- MODULE ServerConnection_proofs ----------------------
(***************************************************************************)
(* Proofs about ServerConnection for any servers and bounds: its types,    *)
(* that it implements ConnectionAttempt, what a presented frame shows, and *)
(* that the screen and the web side agree when nothing is on its way.      *)
(*                                                                         *)
(* An answer that counts must be one about the attempt it names.  Two      *)
(* facts make it so: whatever travels between the threads names a probe or *)
(* a navigation there was (Ids), and whatever is told to the actor was     *)
(* judged before (Backing).                                                *)
(***************************************************************************)
EXTENDS ServerConnection, SequenceTheorems, TLAPS

(* Requests that name what there was. *)
Known == [kind : {"Probe"}, id : 1 .. cycles, url : Urls]
         \cup [kind : {"CancelProbe"}, id : {0}, url : {NoUrl}]
         \cup [kind : {"Navigate"}, id : 1 .. navigations, url : Servers]
         \cup [kind : {"Abandon"}, id : Nat \ {0}, url : {NoUrl}]
KnownTasks == Known \cup [kind : {"Start"}, id : 1 .. cycles, url : Urls]

(* Events whose verdict there was. *)
Backed(e) ==
  \/ e.kind = "Resolved" /\ e.url \in Servers /\ <<<<"probe", e.id>>, "good">> \in verdicts
  \/ e.kind = "Unresolved"       /\ <<<<"probe", e.id>>, "bad">> \in verdicts
  \/ e.kind = "NavigationFailed" /\ <<<<"load", e.id>>, "bad">> \in verdicts
  \/ e.kind = "FramePresented"   /\ <<<<"load", e.id>>, "good">> \in verdicts
BackedEvents == {e \in Events : Backed(e)}

Types ==
  /\ phase \in [kind : PhaseKinds, url : Urls, id : Nat, unresolved : BOOLEAN]
  /\ elapsed \in BOOLEAN /\ cycles \in Nat /\ navigations \in Nat
  /\ attached \in BOOLEAN /\ saved \in Urls /\ shutdown \in BOOLEAN
  /\ session \in {"pending", "ready", "stopped"}
  /\ probe \in [cycle : Nat, stage : {"none", "posted", "head", "get", "done"}, base : Urls]
  /\ browser \in {"none", "creating", "live"}
  /\ deferred \in Pages \cup {Nothing, Blank}
  /\ painting \in [kind : {"None", "Awaiting", "Loaded"}, nav : Nat, base : Urls,
                   presented : BOOLEAN]
  /\ loading \in Pages \cup {Nothing, Blank} /\ document \in Pages \cup {Blank}
  /\ loaded \in BOOLEAN /\ orphaned \in BOOLEAN /\ recreations \in 0 .. MaxRecreations

Ids ==
  /\ phase.kind = "Probing" => phase.id \in 1 .. cycles
  /\ phase.kind \in Serving => phase.id \in 1 .. navigations
  /\ requests \in Seq(Known) /\ taken \in Seq(Known) /\ ops \in Seq(KnownTasks)
  /\ probe.stage # "none" => probe.cycle \in 1 .. cycles
  /\ probe.stage = "get" => probe.base \in Servers
  /\ painting.kind # "None" => painting.nav \in 1 .. navigations

Backing ==
  /\ inbox \in Seq(BackedEvents)
  /\ phase.kind = "Probing" /\ phase.unresolved => <<<<"probe", phase.id>>, "bad">> \in verdicts

IInv == Types /\ Ids /\ Backing

USE DEF actorVars, uiVars, pageVars, sessionVars, Idle, ActorStep

-----------------------------------------------------------------------------
(* Sequences over growing sets.                                            *)

LEMMA SeqGrows == ASSUME NEW S, NEW T, S \subseteq T PROVE Seq(S) \subseteq Seq(T)
  OBVIOUS

LEMMA TailOf ==
  ASSUME NEW S, NEW q \in Seq(S), q # <<>>
  PROVE  Tail(q) \in Seq(S) /\ Head(q) \in S
  OBVIOUS

LEMMA KnownGrow ==
  ASSUME cycles \in Nat, cycles' \in Nat, navigations \in Nat, navigations' \in Nat,
         cycles <= cycles', navigations <= navigations'
  PROVE  /\ Seq(Known) \subseteq Seq(Known') /\ Known \subseteq Known'
         /\ Seq(KnownTasks) \subseteq Seq(KnownTasks') /\ KnownTasks \subseteq KnownTasks'
         /\ Pages \subseteq Pages'
  <1>1. 1 .. cycles \subseteq 1 .. cycles' /\ 1 .. navigations \subseteq 1 .. navigations'
    OBVIOUS
  <1>2. Known \subseteq Known'
    BY <1>1 DEF Known
  <1>3. KnownTasks \subseteq KnownTasks'
    BY <1>1, <1>2 DEF KnownTasks
  <1>4. Pages \subseteq Pages'
    BY <1>1 DEF Pages
  <1> QED
    BY <1>2, <1>3, <1>4, SeqGrows

LEMMA BackedGrow ==
  ASSUME verdicts \subseteq verdicts'
  PROVE  BackedEvents \subseteq BackedEvents' /\ Seq(BackedEvents) \subseteq Seq(BackedEvents')
  <1>1. BackedEvents \subseteq BackedEvents'
    BY DEF BackedEvents, Backed, Events
  <1> QED
    BY <1>1, SeqGrows

LEMMA InitInv == Init => IInv
  <1> SUFFICES ASSUME Init PROVE IInv
    OBVIOUS
  <1>1. /\ elapsed \in BOOLEAN /\ attached \in BOOLEAN /\ shutdown \in BOOLEAN
        /\ loaded \in BOOLEAN /\ orphaned \in BOOLEAN
    BY Zenon DEF Init
  <1>2. Types
    BY <1>1, ConnectionConstants
    DEF Init, Types, Phase, Editing, PhaseKinds, Urls, NoProbe, Unpainted, Nothing, Blank, Page
  <1>3. requests \in Seq(Known)
    <2>1. CASE saved = NoUrl
      <3>1. requests = <<>>
        BY <2>1 DEF Init
      <3> QED
        BY <3>1
    <2>2. CASE saved # NoUrl
      <3>1. requests = <<Request("Probe", 1, saved)>> /\ cycles = 1 /\ saved \in Urls
        BY <2>2 DEF Init
      <3>2. Request("Probe", 1, saved) \in Known
        BY <3>1 DEF Known, Request
      <3> QED
        BY <3>1, <3>2
    <2> QED
      BY <2>1, <2>2
  <1>4. /\ taken \in Seq(Known) /\ ops \in Seq(KnownTasks) /\ inbox \in Seq(BackedEvents)
    <2>1. taken = <<>> /\ ops = <<>> /\ inbox = <<>>
      BY DEF Init
    <2> QED
      BY <2>1
  <1>5. Ids /\ Backing
    BY <1>3, <1>4 DEF Init, Ids, Backing, Phase, Editing, Serving, NoProbe, Unpainted
  <1> QED
    BY <1>2, <1>5 DEF IInv

-----------------------------------------------------------------------------
(* The actor's steps.                                                      *)

PhaseType == [kind : PhaseKinds, url : Urls, id : Nat, unresolved : BOOLEAN]

(* A phase may be entered: it names what there was, and it failed only     *)
(* with a verdict.                                                         *)
Sound(p) ==
  /\ p \in PhaseType
  /\ p.kind = "Probing" => p.id \in 1 .. cycles
  /\ p.kind \in Serving => p.id \in 1 .. navigations
  /\ p.kind = "Probing" /\ p.unresolved => <<<<"probe", p.id>>, "bad">> \in verdicts

LEMMA LeavingKnown ==
  ASSUME Types, NEW next
  PROVE  Leaving(next) \in Seq(Known)
  <1>1. Request("CancelProbe", 0, NoUrl) \in Known
    BY DEF Known, Request
  <1>2. Names(phase) \in Nat
    BY DEF Types, Names
  <1>3. Names(phase) # 0 => Request("Abandon", Names(phase), NoUrl) \in Known
    BY <1>2 DEF Known, Request
  <1> DEFINE Cancels == IF phase.kind = "Probing" THEN <<Request("CancelProbe", 0, NoUrl)>> ELSE <<>>
             Abandons == IF Names(phase) # 0 /\ Names(next) # Names(phase)
                           THEN <<Request("Abandon", Names(phase), NoUrl)>> ELSE <<>>
  <1>4. Cancels \in Seq(Known)
    <2>1. Cancels \in {<<>>, <<Request("CancelProbe", 0, NoUrl)>>}
      BY Zenon
    <2>2. <<Request("CancelProbe", 0, NoUrl)>> \in Seq(Known) /\ <<>> \in Seq(Known)
      BY <1>1
    <2> QED
      BY <2>1, <2>2
  <1>5. Abandons \in Seq(Known)
    <2>1. \/ Abandons = <<>>
          \/ Names(phase) # 0 /\ Abandons = <<Request("Abandon", Names(phase), NoUrl)>>
      BY Zenon
    <2>2. <<>> \in Seq(Known)
      OBVIOUS
    <2>3. Names(phase) # 0 => <<Request("Abandon", Names(phase), NoUrl)>> \in Seq(Known)
      BY <1>3
    <2> HIDE DEF Abandons
    <2> QED
      BY <2>1, <2>2, <2>3
  <1>6. Leaving(next) = Cancels \o Abandons
    BY Zenon DEF Leaving
  <1> HIDE DEF Cancels, Abandons
  <1> QED
    BY <1>4, <1>5, <1>6

LEMMA FlushKnown ==
  ASSUME Types, NEW S, NEW reqs \in Seq(S), Flush(reqs)
  PROVE  requests' \in Seq(S) /\ taken' \in Seq(S)
  <1>1. requests' \in {reqs, <<>>} /\ taken' \in {reqs, <<>>}
    BY Zenon DEF Flush
  <1>2. reqs \in Seq(S) /\ <<>> \in Seq(S)
    OBVIOUS
  <1> QED
    BY <1>1, <1>2

(* A handler that leaves the phase sound leaves everything sound. *)
LEMMA ActorFrame ==
  ASSUME IInv, UNCHANGED <<uiVars, pageVars, sessionVars, shutdown>>, verdicts' = verdicts,
         cycles' \in Nat, navigations' \in Nat, cycles <= cycles', navigations <= navigations',
         saved' \in Urls, elapsed' \in BOOLEAN, Sound(phase)',
         requests' \in Seq(Known'), taken' \in Seq(Known'),
         inbox' = inbox \/ (inbox # <<>> /\ inbox' = Tail(inbox))
  PROVE  IInv'
  <1>1. /\ Seq(Known) \subseteq Seq(Known') /\ Seq(KnownTasks) \subseteq Seq(KnownTasks')
        /\ Pages \subseteq Pages'
    BY KnownGrow DEF IInv, Types
  <1>2. inbox' \in Seq(BackedEvents')
    <2>1. inbox' \in Seq(BackedEvents)
      BY TailOf DEF IInv, Backing
    <2> QED
      BY <2>1, BackedGrow
  <1>3. Types'
    BY <1>1 DEF IInv, Types, Sound, PhaseType
  <1>4. Ids'
    BY <1>1 DEF IInv, Ids, Types, Sound
  <1>5. Backing'
    BY <1>2 DEF Backing, Sound
  <1> QED
    BY <1>3, <1>4, <1>5 DEF IInv

LEMMA EnterSound ==
  ASSUME IInv, NEW next, NEW then, Enter(next, then),
         cycles' \in Nat, navigations' \in Nat, cycles <= cycles', navigations <= navigations',
         then \in Seq(Known')
  PROVE  requests' \in Seq(Known') /\ taken' \in Seq(Known')
         /\ elapsed' \in BOOLEAN /\ phase' = next
  <1>1. requests \in Seq(Known') /\ Leaving(next) \in Seq(Known')
    BY LeavingKnown, KnownGrow DEF IInv, Ids, Types
  <1>2. requests \o Leaving(next) \o then \in Seq(Known')
    <2> DEFINE L == Leaving(next)
    <2>1. L \in Seq(Known')
      BY <1>1
    <2> HIDE DEF L
    <2>2. requests \o L \o then \in Seq(Known')
      BY <1>1, <2>1
    <2> QED
      BY <2>2 DEF L
  <1>3. requests' \in Seq(Known') /\ taken' \in Seq(Known')
    BY <1>2, FlushKnown DEF Enter, IInv
  <1>4. elapsed' \in BOOLEAN
    BY Zenon DEF Enter
  <1> QED
    BY <1>3, <1>4 DEF Enter

LEMMA StaySound ==
  ASSUME IInv, Stay, cycles' = cycles, navigations' = navigations, verdicts' = verdicts
  PROVE  /\ requests' \in Seq(Known') /\ taken' \in Seq(Known')
         /\ elapsed' \in BOOLEAN /\ Sound(phase)'
  <1>1. requests' \in Seq(Known) /\ taken' \in Seq(Known)
    BY FlushKnown DEF Stay, IInv, Ids
  <1>2. Seq(Known) \subseteq Seq(Known')
    BY KnownGrow DEF IInv, Types
  <1> QED
    BY <1>1, <1>2 DEF Stay, IInv, Types, Ids, Backing, Sound, PhaseType

LEMMA PhaseUrl == IInv => phase.url \in Urls
  BY DEF IInv, Types

(* The form, or the failure, is entered: it names no attempt. *)
LEMMA EnterNothing ==
  ASSUME IInv, NEW kind \in {"Editing", "Failed"}, NEW url \in Urls,
         Enter(Phase(kind, url, 0), <<>>),
         cycles' \in Nat, navigations' \in Nat, cycles <= cycles', navigations <= navigations'
  PROVE  /\ requests' \in Seq(Known') /\ taken' \in Seq(Known')
         /\ elapsed' \in BOOLEAN /\ Sound(phase)'
  <1>1. <<>> \in Seq(Known')
    OBVIOUS
  <1>2. /\ requests' \in Seq(Known') /\ taken' \in Seq(Known')
        /\ elapsed' \in BOOLEAN /\ phase' = Phase(kind, url, 0)
    BY <1>1, EnterSound
  <1> QED
    BY <1>2 DEF Sound, PhaseType, Phase, PhaseKinds, Serving

LEMMA AttachInv ==
  ASSUME IInv, Attach
  PROVE  IInv'
  <1>1. /\ requests' = <<>> /\ taken' = requests /\ attached' \in BOOLEAN
    BY Zenon DEF Attach
  <1>2. /\ Known' = Known /\ KnownTasks' = KnownTasks /\ BackedEvents' = BackedEvents
        /\ Pages' = Pages
    BY DEF Attach, Known, KnownTasks, BackedEvents, Backed, Pages
  <1>3. requests' \in Seq(Known)
    BY <1>1
  <1> QED
    BY <1>1, <1>2, <1>3 DEF Attach, IInv, Types, Ids, Backing

LEMMA ConnectInv ==
  ASSUME IInv, Submit
  PROVE  IInv'
  <1>1. /\ navigations' = navigations /\ verdicts' = verdicts /\ saved' = saved /\ inbox' = inbox
        /\ UNCHANGED <<uiVars, pageVars, sessionVars, shutdown>> /\ ConnectTo(phase.url)
        /\ phase.url \in Urls /\ saved' \in Urls
    BY DEF Submit, IInv, Types
  <1>2. CASE phase.url = NoUrl
    <2>1. Enter(Phase("Editing", NoUrl, 0), <<>>)
      BY <1>1, <1>2 DEF ConnectTo, Editing
    <2>2. cycles' \in Nat /\ cycles <= cycles' /\ navigations' \in Nat /\ navigations <= navigations'
      BY <1>1, <1>2 DEF ConnectTo, CyclesAfter, IInv, Types
    <2> QED
      BY <1>1, <1>2, <2>1, <2>2, EnterNothing, ActorFrame
  <1>3. CASE phase.url # NoUrl
    <2> DEFINE c == cycles + 1
    <2>1. /\ Enter(Phase("Probing", phase.url, c), <<Request("Probe", c, phase.url)>>)
          /\ cycles' = CyclesAfter(c)
      BY <1>1, <1>3 DEF ConnectTo
    <2>2. /\ cycles' \in Nat /\ cycles <= cycles' /\ c \in 1 .. cycles'
          /\ navigations' \in Nat /\ navigations <= navigations'
      BY <1>1, <2>1 DEF CyclesAfter, IInv, Types
    <2>3. <<Request("Probe", c, phase.url)>> \in Seq(Known')
      <3>1. Request("Probe", c, phase.url) \in Known'
        BY <1>1, <2>2 DEF Known, Request
      <3> HIDE DEF c
      <3> QED
        BY <3>1
    <2>4. /\ requests' \in Seq(Known') /\ taken' \in Seq(Known')
          /\ elapsed' \in BOOLEAN /\ phase' = Phase("Probing", phase.url, c)
      <3> HIDE DEF c
      <3> QED
        BY <2>1, <2>2, <2>3, EnterSound
    <2>5. Sound(phase)'
      <3> HIDE DEF c
      <3> QED
        BY <1>1, <2>2, <2>4 DEF Sound, PhaseType, Phase, PhaseKinds, Serving
    <2> QED
      BY <1>1, <2>2, <2>4, <2>5, ActorFrame
  <1> QED
    BY <1>2, <1>3

(* The other steps of the user, and time. *)
LEMMA UserInv ==
  ASSUME IInv, Reset \/ Cancel \/ DismissFailure \/ (\E url \in Urls : EditUrl(url))
  PROVE  IInv'
  <1>1. CASE Cancel
    <2>1. /\ Enter(Phase("Editing", phase.url, 0), <<>>) /\ cycles' = CyclesAfter(cycles)
          /\ navigations' = navigations /\ verdicts' = verdicts
          /\ UNCHANGED <<uiVars, pageVars, sessionVars, shutdown>>
          /\ saved' \in Urls /\ inbox' = inbox
      BY <1>1 DEF Cancel, Editing, IInv, Types, Urls
    <2>2. cycles' \in Nat /\ cycles <= cycles' /\ navigations' \in Nat /\ navigations <= navigations'
      BY <2>1 DEF IInv, Types, CyclesAfter
    <2> QED
      BY <2>1, <2>2, EnterNothing, PhaseUrl, ActorFrame DEF Urls
  <1>2. CASE DismissFailure
    <2>1. /\ Enter(Phase("Editing", phase.url, 0), <<>>) /\ cycles' = cycles
          /\ navigations' = navigations /\ verdicts' = verdicts
          /\ UNCHANGED <<uiVars, pageVars, sessionVars, shutdown>>
          /\ saved' \in Urls /\ inbox' = inbox
      BY <1>2 DEF DismissFailure, Editing, IInv, Types, Urls
    <2>2. cycles' \in Nat /\ cycles <= cycles' /\ navigations' \in Nat /\ navigations <= navigations'
      BY <2>1 DEF IInv, Types, CyclesAfter
    <2> QED
      BY <2>1, <2>2, EnterNothing, PhaseUrl, ActorFrame DEF Urls
  <1>3. CASE Reset
    <2>1. /\ cycles' = cycles /\ navigations' = navigations /\ verdicts' = verdicts
          /\ UNCHANGED <<uiVars, pageVars, sessionVars, shutdown>>
          /\ saved' \in Urls /\ inbox' = inbox
      BY <1>3 DEF Reset, Urls
    <2>2. cycles' \in Nat /\ cycles <= cycles' /\ navigations' \in Nat /\ navigations <= navigations'
      BY <2>1 DEF IInv, Types
    <2>3. Enter(Phase("Editing", NoUrl, 0), <<>>) \/ Stay
      BY <1>3 DEF Reset, Editing
    <2> QED
      BY <2>1, <2>2, <2>3, EnterNothing, StaySound, ActorFrame DEF Urls
  <1>4. CASE \E url \in Urls : EditUrl(url)
    <2>1. PICK url \in Urls : EditUrl(url)
      BY <1>4
    <2>2. /\ Enter(Phase("Editing", url, 0), <<>>) /\ cycles' = cycles
          /\ navigations' = navigations /\ verdicts' = verdicts
          /\ UNCHANGED <<uiVars, pageVars, sessionVars, shutdown>>
          /\ saved' \in Urls /\ inbox' = inbox
      BY <2>1 DEF EditUrl, Editing, IInv, Types
    <2>3. cycles' \in Nat /\ cycles <= cycles' /\ navigations' \in Nat /\ navigations <= navigations'
      BY <2>2 DEF IInv, Types
    <2> QED
      BY <2>2, <2>3, EnterNothing, ActorFrame
  <1> QED
    BY <1>1, <1>2, <1>3, <1>4

LEMMA TimeInv ==
  ASSUME IInv, TimePasses \/ Tick
  PROVE  IInv'
  <1>1. CASE TimePasses
    <2>1. elapsed' \in BOOLEAN
      BY <1>1, Zenon DEF TimePasses
    <2>2. /\ Known' = Known /\ KnownTasks' = KnownTasks /\ BackedEvents' = BackedEvents
          /\ Pages' = Pages
      BY <1>1 DEF TimePasses, Known, KnownTasks, BackedEvents, Backed, Pages
    <2> QED
      BY <1>1, <2>1, <2>2 DEF TimePasses, IInv, Types, Ids, Backing
  <1>2. CASE Tick
    <2>1. /\ navigations' = navigations /\ verdicts' = verdicts /\ inbox' = inbox
          /\ UNCHANGED <<uiVars, pageVars, sessionVars, shutdown>>
          /\ saved' \in Urls /\ cycles' \in {cycles, CyclesAfter(cycles)}
      BY <1>2 DEF Tick, IInv, Types
    <2>2. cycles' \in Nat /\ cycles <= cycles' /\ navigations' \in Nat /\ navigations <= navigations'
      BY <2>1 DEF IInv, Types, CyclesAfter
    <2>3. CASE Enter(Phase("Failed", phase.url, 0), <<>>)
      BY <2>1, <2>2, <2>3, PhaseUrl, EnterNothing, ActorFrame
    <2>4. CASE phase.kind = "Retiring" /\ Enter(Phase("Connected", NoUrl, phase.id), <<>>)
      <3>1. phase.id \in 1 .. navigations'
        BY <2>1, <2>4 DEF IInv, Ids, Serving
      <3>2. <<>> \in Seq(Known')
        OBVIOUS
      <3>3. /\ requests' \in Seq(Known') /\ taken' \in Seq(Known')
            /\ elapsed' \in BOOLEAN /\ phase' = Phase("Connected", NoUrl, phase.id)
        BY <2>2, <2>4, <3>2, EnterSound
      <3>4. Sound(phase)'
        BY <2>2, <3>1, <3>3 DEF Sound, PhaseType, Phase, PhaseKinds, Serving, Urls
      <3> QED
        BY <2>1, <2>2, <3>3, <3>4, ActorFrame
    <2> QED
      BY <1>2, <2>3, <2>4 DEF Tick
  <1> QED
    BY <1>1, <1>2

-----------------------------------------------------------------------------
(* The actor absorbs an answer: it was judged before it was told.          *)

LEMMA HeadBacked ==
  ASSUME IInv, inbox # <<>>
  PROVE  Head(inbox) \in Events /\ Backed(Head(inbox))
  <1>1. Head(inbox) \in BackedEvents
    BY TailOf DEF IInv, Backing
  <1> QED
    BY <1>1 DEF BackedEvents

(* What every absorption leaves alone. *)
Absorbs ==
  /\ inbox # <<>> /\ inbox' = Tail(inbox) /\ verdicts' = verdicts
  /\ UNCHANGED <<uiVars, pageVars, sessionVars, shutdown>>

LEMMA NavigateInv ==
  ASSUME IInv, Absorbs, NEW base \in Servers, Navigate(base)
  PROVE  IInv'
  <1> DEFINE n == navigations + 1
  <1>1. /\ saved' = base /\ navigations' = n /\ cycles' = CyclesAfter(cycles)
        /\ Enter(Phase("Loading", base, n), <<Request("Navigate", n, base)>>)
    BY DEF Navigate
  <1>2. /\ cycles' \in Nat /\ cycles <= cycles' /\ n \in 1 .. navigations'
        /\ navigations' \in Nat /\ navigations <= navigations' /\ saved' \in Urls
    BY <1>1 DEF CyclesAfter, IInv, Types, Urls
  <1> HIDE DEF n
  <1>3. Request("Navigate", n, base) \in Known'
    BY <1>2 DEF Known, Request
  <1>4. <<Request("Navigate", n, base)>> \in Seq(Known')
    BY <1>3
  <1>5. /\ requests' \in Seq(Known') /\ taken' \in Seq(Known')
        /\ elapsed' \in BOOLEAN /\ phase' = Phase("Loading", base, n)
    BY <1>1, <1>2, <1>4, EnterSound
  <1>6. Sound(phase)'
    BY <1>2, <1>5 DEF Sound, PhaseType, Phase, PhaseKinds, Serving, Urls
  <1> QED
    BY <1>2, <1>5, <1>6, ActorFrame DEF Absorbs

LEMMA StayInv ==
  ASSUME IInv, Absorbs, Stay, UNCHANGED <<cycles, navigations, saved>>
  PROVE  IInv'
  <1>1. /\ cycles' \in Nat /\ cycles <= cycles' /\ navigations' \in Nat
        /\ navigations <= navigations' /\ saved' \in Urls
    BY DEF IInv, Types
  <1> QED
    BY <1>1, StaySound, ActorFrame DEF Absorbs

LEMMA FailInv ==
  ASSUME IInv, Absorbs, Enter(Phase("Failed", phase.url, 0), <<>>),
         cycles' \in {cycles, CyclesAfter(cycles)}, UNCHANGED <<navigations, saved>>
  PROVE  IInv'
  <1>1. /\ cycles' \in Nat /\ cycles <= cycles' /\ navigations' \in Nat
        /\ navigations <= navigations' /\ saved' \in Urls
    BY DEF IInv, Types, CyclesAfter
  <1> QED
    BY <1>1, PhaseUrl, EnterNothing, ActorFrame DEF Absorbs

LEMMA ProbeFailedInv ==
  ASSUME IInv, Absorbs, NEW c, ProbeFailed(c), <<<<"probe", c>>, "bad">> \in verdicts
  PROVE  IInv'
  <1>1. CASE phase.kind = "Probing" /\ phase.id = c /\ ~elapsed
    <2>1. /\ phase' = [phase EXCEPT !.unresolved = TRUE] /\ Flush(requests)
          /\ UNCHANGED <<elapsed, cycles, navigations, saved>>
      BY <1>1 DEF ProbeFailed, IInv, Types
    <2>2. requests' \in Seq(Known) /\ taken' \in Seq(Known)
      BY <2>1, FlushKnown DEF IInv, Ids
    <2>3. /\ cycles' \in Nat /\ cycles <= cycles' /\ navigations' \in Nat
          /\ navigations <= navigations' /\ saved' \in Urls /\ elapsed' \in BOOLEAN
      BY <2>1 DEF IInv, Types
    <2>4. requests' \in Seq(Known') /\ taken' \in Seq(Known')
      BY <2>2, <2>3, KnownGrow DEF IInv, Types
    <2>5. Sound(phase)'
      BY <1>1, <2>1 DEF Absorbs, IInv, Types, Ids, Sound, PhaseType, Serving
    <2> QED
      BY <2>3, <2>4, <2>5, ActorFrame DEF Absorbs
  <1>2. CASE Enter(Phase("Failed", phase.url, 0), <<>>) /\ cycles' = CyclesAfter(cycles)
    BY <1>2, FailInv DEF ProbeFailed
  <1>3. CASE Stay /\ UNCHANGED cycles
    BY <1>3, StayInv DEF ProbeFailed
  <1> QED
    BY <1>1, <1>2, <1>3 DEF ProbeFailed

LEMMA FramePresentedInv ==
  ASSUME IInv, Absorbs, NEW n, FramePresented(n)
  PROVE  IInv'
  <1>1. CASE phase.kind = "Loading" /\ phase.id = n
    <2>1. Enter(Phase("Retiring", NoUrl, n), <<>>) /\ UNCHANGED <<cycles, navigations, saved>>
      BY <1>1 DEF FramePresented
    <2>2. /\ cycles' \in Nat /\ cycles <= cycles' /\ navigations' \in Nat
          /\ navigations <= navigations' /\ saved' \in Urls /\ n \in 1 .. navigations'
      BY <1>1, <2>1 DEF IInv, Types, Ids, Serving
    <2>3. <<>> \in Seq(Known')
      OBVIOUS
    <2>4. /\ requests' \in Seq(Known') /\ taken' \in Seq(Known')
          /\ elapsed' \in BOOLEAN /\ phase' = Phase("Retiring", NoUrl, n)
      BY <2>1, <2>2, <2>3, EnterSound
    <2>5. Sound(phase)'
      BY <2>2, <2>4 DEF Sound, PhaseType, Phase, PhaseKinds, Serving, Urls
    <2> QED
      BY <2>2, <2>4, <2>5, ActorFrame DEF Absorbs
  <1>2. CASE ~(phase.kind = "Loading" /\ phase.id = n)
    BY <1>2, StayInv DEF FramePresented
  <1> QED
    BY <1>1, <1>2

LEMMA AbsorbInv ==
  ASSUME IInv, Absorb
  PROVE  IInv'
  <1> DEFINE e == Head(inbox)
  <1>1. Absorbs
    BY DEF Absorb, Absorbs
  <1>2. e \in Events /\ Backed(e)
    BY <1>1, HeadBacked DEF Absorbs
  <1>3. \/ e.kind = "Resolved"         /\ ProbeResolved(e.id, e.url)
        \/ e.kind = "Unresolved"       /\ ProbeFailed(e.id)
        \/ e.kind = "NavigationFailed" /\ NavigationFailed(e.id)
        \/ e.kind = "FramePresented"   /\ FramePresented(e.id)
    BY DEF Absorb
  <1> HIDE DEF e
  <1>4. CASE e.kind = "Resolved" /\ ProbeResolved(e.id, e.url)
    <2>1. e.url \in Servers
      BY <1>2, <1>4 DEF Backed
    <2> QED
      BY <1>1, <1>4, <2>1, NavigateInv, StayInv DEF ProbeResolved
  <1>5. CASE e.kind = "Unresolved" /\ ProbeFailed(e.id)
    <2>1. <<<<"probe", e.id>>, "bad">> \in verdicts
      BY <1>2, <1>5 DEF Backed
    <2> QED
      BY <1>1, <1>5, <2>1, ProbeFailedInv
  <1>6. CASE e.kind = "NavigationFailed" /\ NavigationFailed(e.id)
    BY <1>1, <1>6, FailInv, StayInv DEF NavigationFailed
  <1>7. CASE e.kind = "FramePresented" /\ FramePresented(e.id)
    BY <1>1, <1>7, FramePresentedInv
  <1> QED
    BY <1>3, <1>4, <1>5, <1>6, <1>7

-----------------------------------------------------------------------------
(* The flush, and what a refusal makes of the phase.                       *)

LEMMA DeliverInv ==
  ASSUME IInv, Deliver
  PROVE  IInv'
  <1>1. Head(taken) \in Known /\ Tail(taken) \in Seq(Known)
    BY TailOf DEF Deliver, IInv, Ids
  <1>2. ops' \in Seq(KnownTasks) /\ taken' \in Seq(Known)
    <2>1. Head(taken) \in KnownTasks
      BY <1>1 DEF KnownTasks
    <2>2. Append(ops, Head(taken)) \in Seq(KnownTasks)
      BY <2>1 DEF IInv, Ids
    <2> QED
      BY <1>1, <2>2 DEF Deliver
  <1>3. /\ Known' = Known /\ KnownTasks' = KnownTasks /\ BackedEvents' = BackedEvents
        /\ Pages' = Pages
    BY DEF Deliver, Known, KnownTasks, BackedEvents, Backed, Pages
  <1> QED
    BY <1>2, <1>3 DEF Deliver, IInv, Types, Ids, Backing

(* A step that may add verdicts and leaves the phase sound. *)
LEMMA RefusedFrame ==
  ASSUME IInv, UNCHANGED <<uiVars, pageVars, sessionVars, navigations, saved, inbox>>,
         verdicts \subseteq verdicts', cycles' \in Nat, cycles <= cycles',
         elapsed' \in BOOLEAN, shutdown' \in BOOLEAN, Sound(phase)',
         requests' \in Seq(Known'), taken' \in Seq(Known')
  PROVE  IInv'
  <1>1. /\ Seq(KnownTasks) \subseteq Seq(KnownTasks') /\ Pages \subseteq Pages'
    BY KnownGrow DEF IInv, Types
  <1>2. inbox' \in Seq(BackedEvents')
    BY BackedGrow DEF IInv, Backing
  <1>3. Types'
    BY <1>1 DEF IInv, Types, Sound, PhaseType
  <1>4. Ids'
    BY <1>1 DEF IInv, Ids, Types, Sound
  <1>5. Backing'
    BY <1>2 DEF Backing, Sound
  <1> QED
    BY <1>3, <1>4, <1>5 DEF IInv

LEMMA RefusedInv ==
  ASSUME IInv, Refused
  PROVE  IInv'
  <1> DEFINE r == Head(taken)
  <1>1. /\ UNCHANGED <<uiVars, pageVars, sessionVars, navigations, saved, inbox>>
        /\ taken' = <<>> /\ shutdown' \in BOOLEAN
    BY Zenon DEF Refused
  <1>2. taken' \in Seq(Known')
    BY <1>1
  <1>3. requests \in Seq(Known) /\ cycles \in Nat /\ elapsed \in BOOLEAN
    BY DEF IInv, Types, Ids
  <1>4. ASSUME cycles' \in Nat, cycles <= cycles',
               requests' = requests \o Leaving(phase')
        PROVE  requests' \in Seq(Known')
    <2>1. Leaving(phase') \in Seq(Known)
      BY LeavingKnown DEF IInv
    <2> DEFINE L == Leaving(phase')
    <2>2. L \in Seq(Known)
      BY <2>1
    <2> HIDE DEF L
    <2>3. requests \o L \in Seq(Known)
      BY <1>3, <2>2
    <2>4. Seq(Known) \subseteq Seq(Known')
      BY <1>1, <1>4, KnownGrow DEF IInv, Types
    <2> QED
      BY <1>4, <2>3, <2>4 DEF L
  <1> HIDE DEF r
  <1>5. CASE /\ phase.kind = "Probing" /\ phase.id = r.id
             /\ verdicts' = verdicts \cup {<<<<"probe", r.id>>, "bad">>}
             /\ elapsed
             /\ phase' = Phase("Failed", phase.url, 0) /\ elapsed' = FALSE
             /\ requests' = requests \o Leaving(phase') /\ cycles' = CyclesAfter(cycles)
    <2>0. elapsed' \in BOOLEAN
      BY <1>5, Zenon
    <2>1. cycles' \in Nat /\ cycles <= cycles'
      BY <1>5, <1>3 DEF CyclesAfter
    <2>2. requests' \in Seq(Known')
      BY <1>4, <1>5, <2>1
    <2>3. Sound(phase)'
      BY <1>5, PhaseUrl DEF Sound, PhaseType, Phase, PhaseKinds, Serving
    <2> QED
      BY <1>1, <1>2, <1>5, <2>0, <2>1, <2>2, <2>3, RefusedFrame
  <1>6. CASE /\ phase.kind = "Probing" /\ phase.id = r.id
             /\ verdicts' = verdicts \cup {<<<<"probe", r.id>>, "bad">>}
             /\ phase' = [phase EXCEPT !.unresolved = TRUE]
             /\ UNCHANGED <<elapsed, requests, cycles>>
    <2>1. requests' \in Seq(Known') /\ cycles' \in Nat /\ cycles <= cycles' /\ elapsed' \in BOOLEAN
      BY <1>1, <1>3, <1>6, KnownGrow DEF IInv, Types
    <2>2. Sound(phase)'
      BY <1>1, <1>6 DEF IInv, Types, Ids, Sound, PhaseType, Serving
    <2> QED
      BY <1>1, <1>2, <1>6, <2>1, <2>2, RefusedFrame
  <1>7. CASE /\ phase.kind = "Loading" /\ phase.id = r.id
             /\ verdicts' = verdicts \cup {<<<<"load", r.id>>, "bad">>}
             /\ phase' = Phase("Failed", phase.url, 0) /\ elapsed' = FALSE
             /\ requests' = requests \o Leaving(phase') /\ UNCHANGED cycles
    <2>0. elapsed' \in BOOLEAN
      BY <1>7, Zenon
    <2>1. cycles' \in Nat /\ cycles <= cycles'
      BY <1>7, <1>3
    <2>2. requests' \in Seq(Known')
      BY <1>4, <1>7, <2>1
    <2>3. Sound(phase)'
      BY <1>7, PhaseUrl DEF Sound, PhaseType, Phase, PhaseKinds, Serving
    <2> QED
      BY <1>1, <1>2, <1>7, <2>0, <2>1, <2>2, <2>3, RefusedFrame
  <1>8. CASE UNCHANGED <<phase, elapsed, requests, cycles, verdicts>>
    <2>1. requests' \in Seq(Known') /\ cycles' \in Nat /\ cycles <= cycles' /\ elapsed' \in BOOLEAN
      BY <1>1, <1>3, <1>8, KnownGrow DEF IInv, Types
    <2>2. Sound(phase)'
      BY <1>1, <1>8 DEF IInv, Types, Ids, Backing, Sound, PhaseType
    <2> QED
      BY <1>1, <1>2, <1>8, <2>1, <2>2, RefusedFrame
  <1> QED
    BY <1>5, <1>6, <1>7, <1>8 DEF Refused, r

-----------------------------------------------------------------------------
(* The CEF UI thread and the browser.                                      *)

(* They leave the actor's variables alone; what they tell is judged. *)
LEMMA UiFrame ==
  ASSUME IInv, UNCHANGED actorVars, verdicts \subseteq verdicts'
  PROVE  /\ Known' = Known /\ KnownTasks' = KnownTasks /\ Pages' = Pages
         /\ Seq(BackedEvents) \subseteq Seq(BackedEvents')
         /\ Sound(phase)'
         /\ requests' \in Seq(Known) /\ taken' \in Seq(Known)
  <1>1. Known' = Known /\ KnownTasks' = KnownTasks /\ Pages' = Pages
    BY DEF Known, KnownTasks, Pages
  <1>2. Seq(BackedEvents) \subseteq Seq(BackedEvents')
    BY BackedGrow
  <1> QED
    BY <1>1, <1>2 DEF IInv, Types, Ids, Backing, Sound, PhaseType

LEMMA ReportInv ==
  ASSUME IInv, NEW e \in Events, NEW attempt, NEW verdict, Report(e, attempt, verdict),
         \/ e.kind = "Resolved" /\ e.url \in Servers /\ attempt = <<"probe", e.id>> /\ verdict = "good"
         \/ e.kind = "Unresolved" /\ attempt = <<"probe", e.id>> /\ verdict = "bad"
         \/ e.kind = "NavigationFailed" /\ attempt = <<"load", e.id>> /\ verdict = "bad"
         \/ e.kind = "FramePresented" /\ attempt = <<"load", e.id>> /\ verdict = "good"
  PROVE  verdicts \subseteq verdicts' /\ inbox' \in Seq(BackedEvents')
  <1>1. verdicts \subseteq verdicts' /\ <<attempt, verdict>> \in verdicts'
    BY DEF Report
  <1>2. inbox \in Seq(BackedEvents')
    BY <1>1, BackedGrow DEF IInv, Backing
  <1>3. e \in BackedEvents'
    BY <1>1 DEF BackedEvents, Backed, Events
  <1>4. inbox' = Append(inbox, e)
    BY DEF Report
  <1>5. inbox' \in Seq(BackedEvents')
    BY <1>2, <1>3, <1>4
  <1> QED
    BY <1>1, <1>5

LEMMA SessionInv ==
  ASSUME IInv, MarkReady \/ StopSession
  PROVE  IInv'
  <1>1. UNCHANGED actorVars /\ verdicts' = verdicts /\ inbox' = inbox /\ attached' = attached
        /\ UNCHANGED pageVars /\ session' \in {"ready", "stopped"}
    BY DEF MarkReady, StopSession
  <1>2. ops' \in Seq(KnownTasks)
    <2>1. ops' \in {ops, <<>>}
      BY Zenon DEF MarkReady, StopSession
    <2>2. ops \in Seq(KnownTasks) /\ <<>> \in Seq(KnownTasks)
      BY DEF IInv, Ids
    <2> QED
      BY <2>1, <2>2
  <1>3. probe' \in {probe, NoProbe}
    BY Zenon DEF MarkReady, StopSession
  <1> QED
    BY <1>1, <1>2, <1>3, UiFrame DEF IInv, Types, Ids, Backing, Sound, NoProbe, Urls

(* What the browser holds and what the probe slot holds, sound.            *)
Paints == [kind : {"None", "Awaiting", "Loaded"}, nav : Nat, base : Urls, presented : BOOLEAN]
Painted(p) == p \in Paints /\ (p.kind # "None" => p.nav \in 1 .. navigations)
PageSound ==
  /\ browser \in {"none", "creating", "live"}
  /\ deferred \in Pages \cup {Nothing, Blank}
  /\ Painted(painting)
  /\ loading \in Pages \cup {Nothing, Blank} /\ document \in Pages \cup {Blank}
  /\ loaded \in BOOLEAN /\ orphaned \in BOOLEAN /\ recreations \in 0 .. MaxRecreations
ProbeSound ==
  /\ probe \in [cycle : Nat, stage : {"none", "posted", "head", "get", "done"}, base : Urls]
  /\ probe.stage # "none" => probe.cycle \in 1 .. cycles
  /\ probe.stage = "get" => probe.base \in Servers

LEMMA UiSound == IInv => PageSound /\ ProbeSound
  BY DEF IInv, Types, Ids, PageSound, ProbeSound, Painted, Paints

LEMMA UiKeeps ==
  ASSUME IInv, UNCHANGED <<actorVars, sessionVars>>, verdicts \subseteq verdicts',
         inbox' \in Seq(BackedEvents'), ops' \in Seq(KnownTasks),
         PageSound', ProbeSound'
  PROVE  IInv'
  <1>1. /\ Known' = Known /\ KnownTasks' = KnownTasks /\ Sound(phase)'
        /\ requests' \in Seq(Known) /\ taken' \in Seq(Known)
    BY UiFrame
  <1>2. Types'
    BY DEF IInv, Types, PageSound, ProbeSound, Painted, Paints
  <1>3. Ids'
    BY <1>1 DEF Ids, Sound, PageSound, ProbeSound, Painted
  <1>4. Backing'
    BY <1>1 DEF Backing, Sound
  <1> QED
    BY <1>2, <1>3, <1>4 DEF IInv

LEMMA PageKept ==
  ASSUME IInv, UNCHANGED pageVars, navigations' = navigations
  PROVE  PageSound'
  BY UiSound DEF PageSound, Painted, Paints, Pages

LEMMA ProbeKept ==
  ASSUME IInv, probe' = probe, cycles' = cycles
  PROVE  ProbeSound'
  BY UiSound DEF ProbeSound

LEMMA InboxKept ==
  ASSUME IInv, inbox' = inbox, verdicts \subseteq verdicts'
  PROVE  inbox' \in Seq(BackedEvents')
  BY BackedGrow DEF IInv, Backing

LEMMA EventOf ==
  ASSUME NEW kind \in {"Unresolved", "NavigationFailed", "FramePresented"}, NEW id \in Nat
  PROVE  Event(kind, id, NoUrl) \in Events
  BY DEF Event, Events, Urls

(* Giving the browser a sound navigation under a sound painting. *)
LEMMA SubmittedSound ==
  ASSUME IInv, NEW d \in Pages \cup {Nothing, Blank}, NEW p, Painted(p), Submitted(d, p),
         UNCHANGED <<browser, document, loaded, recreations, navigations>>
  PROVE  PageSound'
  <1>1. Pages' = Pages
    BY DEF Pages
  <1>2. orphaned' \in BOOLEAN
    BY UiSound, Zenon DEF Submitted, PageSound
  <1>3. CASE browser = "live" /\ d # Nothing
    <2>1. loading' = d /\ deferred' = Nothing
      BY <1>3 DEF Submitted
    <2>2. painting' = IF d = Blank THEN Unpainted ELSE Awaiting(d.nav, d.base)
      BY <1>3 DEF Submitted
    <2>3. CASE d = Blank
      BY <1>1, <1>2, <2>1, <2>2, <2>3, UiSound
      DEF PageSound, Painted, Paints, Unpainted, Urls
    <2>4. CASE d \in Pages /\ d # Blank
      <3>1. d.nav \in 1 .. navigations /\ d.base \in Servers
        BY <2>4 DEF Pages
      <3>2. Painted(Awaiting(d.nav, d.base))
        BY <3>1 DEF Painted, Paints, Awaiting, Urls, IInv, Types
      <3> QED
        BY <1>1, <1>2, <2>1, <2>2, <2>4, <3>2, UiSound DEF PageSound, Painted, Paints
    <2> QED
      BY <1>3, <2>3, <2>4
  <1>4. CASE ~(browser = "live" /\ d # Nothing)
    <2>1. deferred' = d /\ painting' = p /\ loading' = loading
      BY <1>4 DEF Submitted
    <2> QED
      BY <1>1, <1>2, <2>1, UiSound DEF PageSound, Painted, Paints
  <1> QED
    BY <1>3, <1>4

LEMMA DeferredSound ==
  ASSUME IInv, deferred' \in Pages \cup {Nothing, Blank},
         UNCHANGED <<painting, loading, orphaned, browser, document, loaded, recreations, navigations>>
  PROVE  PageSound'
  BY UiSound DEF PageSound, Painted, Paints, Pages

LEMMA NavigateSound ==
  ASSUME IInv, NEW n \in 1 .. navigations, NEW url \in Servers, NavigateOnUi(n, url),
         UNCHANGED <<browser, document, loaded, recreations, navigations>>
  PROVE  PageSound'
  <1>1. Page(n, url) \in Pages
    BY DEF Page, Pages
  <1>2. Painted(Awaiting(n, url))
    BY DEF Painted, Paints, Awaiting, Urls, IInv, Types
  <1>3. CASE browser = "none"
    BY <1>1, <1>3, DeferredSound DEF NavigateOnUi
  <1>4. CASE browser # "none"
    <2>1. Submitted(Page(n, url), Awaiting(n, url))
      BY <1>4 DEF NavigateOnUi
    <2> QED
      BY <1>1, <1>2, <2>1, SubmittedSound
  <1> QED
    BY <1>3, <1>4

LEMMA AbandonSound ==
  ASSUME IInv, NEW n, AbandonOnUi(n),
         UNCHANGED <<browser, document, loaded, recreations, navigations>>
  PROVE  PageSound'
  <1> DEFINE left == IF deferred.nav = n THEN Blank ELSE deferred
             live == painting.nav = n
             d    == IF live /\ left = Nothing THEN Blank ELSE left
             p    == IF live THEN Unpainted ELSE painting
  <1>1. left \in Pages \cup {Nothing, Blank} /\ d \in Pages \cup {Nothing, Blank}
    BY UiSound DEF PageSound
  <1>2. Painted(p)
    <2>1. Painted(Unpainted)
      BY DEF Painted, Paints, Unpainted, Urls
    <2>2. p \in {Unpainted, painting}
      BY Zenon
    <2> HIDE DEF p
    <2> QED
      BY <2>1, <2>2, UiSound DEF PageSound
  <1>3. CASE browser = "none"
    <2>1. deferred' = left /\ UNCHANGED <<painting, loading, orphaned>>
      BY <1>3, Zenon DEF AbandonOnUi
    <2> HIDE DEF left
    <2> QED
      BY <1>1, <2>1, DeferredSound
  <1>4. CASE browser # "none"
    <2>1. Submitted(d, p)
      BY <1>4, Zenon DEF AbandonOnUi
    <2> HIDE DEF d, p
    <2> QED
      BY <1>1, <1>2, <2>1, SubmittedSound
  <1> QED
    BY <1>3, <1>4

LEMMA StartProbeInv ==
  ASSUME IInv, NEW c \in 1 .. cycles, StartProbe(c), cycles' = cycles
  PROVE  ProbeSound' /\ inbox' \in Seq(BackedEvents') /\ verdicts \subseteq verdicts'
  <1>1. CASE UNCHANGED <<probe, inbox, verdicts>>
    BY <1>1, ProbeKept, InboxKept
  <1>2. CASE probe.cycle = c /\ probe.stage = "posted"
             /\ probe' = [probe EXCEPT !.stage = "head"] /\ UNCHANGED <<inbox, verdicts>>
    <2>1. ProbeSound'
      BY <1>2, UiSound DEF ProbeSound
    <2> QED
      BY <1>2, <2>1, InboxKept
  <1>3. CASE probe.cycle = c /\ probe.stage = "posted"
             /\ probe' = [probe EXCEPT !.stage = "done"]
             /\ Report(Event("Unresolved", c, NoUrl), <<"probe", c>>, "bad")
    <2>1. ProbeSound'
      BY <1>3, UiSound DEF ProbeSound
    <2>2. c \in Nat
      BY DEF IInv, Types
    <2> DEFINE e == Event("Unresolved", c, NoUrl)
    <2>3. e \in Events /\ e.kind = "Unresolved" /\ e.id = c
      BY <2>2, EventOf DEF Event
    <2>4. Report(e, <<"probe", c>>, "bad")
      BY <1>3
    <2> HIDE DEF e
    <2>5. inbox' \in Seq(BackedEvents') /\ verdicts \subseteq verdicts'
      BY <2>3, <2>4, ReportInv
    <2> QED
      BY <2>1, <2>5
  <1> QED
    BY <1>1, <1>2, <1>3 DEF StartProbe

LEMMA RunOpInv ==
  ASSUME IInv, RunOp
  PROVE  IInv'
  <1> DEFINE op == Head(ops)
             rest == Tail(ops)
  <1>1. /\ UNCHANGED <<actorVars, sessionVars, browser, document, loaded, recreations>>
        /\ op \in KnownTasks /\ rest \in Seq(KnownTasks)
    BY TailOf DEF RunOp, IInv, Ids
  <1>2. \/ /\ op.kind = "Probe"
           /\ probe' = [cycle |-> op.id, stage |-> "posted", base |-> NoUrl]
           /\ ops' = Append(rest, Request("Start", op.id, op.url))
           /\ UNCHANGED <<deferred, painting, loading, orphaned, inbox, verdicts>>
        \/ /\ op.kind = "Start" /\ StartProbe(op.id)
           /\ ops' = rest /\ UNCHANGED <<deferred, painting, loading, orphaned>>
        \/ /\ op.kind = "CancelProbe"
           /\ probe' = NoProbe /\ ops' = rest
           /\ UNCHANGED <<deferred, painting, loading, orphaned, inbox, verdicts>>
        \/ /\ op.kind = "Navigate" /\ NavigateOnUi(op.id, op.url)
           /\ ops' = rest /\ UNCHANGED <<probe, inbox, verdicts>>
        \/ /\ op.kind = "Abandon" /\ AbandonOnUi(op.id)
           /\ ops' = rest /\ UNCHANGED <<probe, inbox, verdicts>>
    BY DEF RunOp
  <1> HIDE DEF op, rest
  <1>3. CASE /\ op.kind = "Probe"
             /\ probe' = [cycle |-> op.id, stage |-> "posted", base |-> NoUrl]
             /\ ops' = Append(rest, Request("Start", op.id, op.url))
             /\ UNCHANGED <<deferred, painting, loading, orphaned, inbox, verdicts>>
    <2>1. op.id \in 1 .. cycles /\ op.url \in Urls /\ op.id \in Nat
      BY <1>1, <1>3 DEF KnownTasks, Known, IInv, Types
    <2>2. Request("Start", op.id, op.url) \in KnownTasks
      BY <2>1 DEF KnownTasks, Request
    <2>3. ops' \in Seq(KnownTasks)
      BY <1>1, <1>3, <2>2
    <2>4. ProbeSound'
      BY <1>1, <1>3, <2>1 DEF ProbeSound, Urls
    <2> QED
      BY <1>1, <1>3, <2>3, <2>4, PageKept, InboxKept, UiKeeps
  <1>4. CASE /\ op.kind = "Start" /\ StartProbe(op.id)
             /\ ops' = rest /\ UNCHANGED <<deferred, painting, loading, orphaned>>
    <2>1. op.id \in 1 .. cycles
      BY <1>1, <1>4 DEF KnownTasks, Known
    <2>2. ProbeSound' /\ inbox' \in Seq(BackedEvents') /\ verdicts \subseteq verdicts'
      BY <1>1, <1>4, <2>1, StartProbeInv
    <2> QED
      BY <1>1, <1>4, <2>2, PageKept, UiKeeps
  <1>5. CASE /\ op.kind = "CancelProbe"
             /\ probe' = NoProbe /\ ops' = rest
             /\ UNCHANGED <<deferred, painting, loading, orphaned, inbox, verdicts>>
    <2>1. ProbeSound'
      BY <1>5 DEF ProbeSound, NoProbe, Urls
    <2> QED
      BY <1>1, <1>5, <2>1, PageKept, InboxKept, UiKeeps
  <1>6. CASE /\ op.kind = "Navigate" /\ NavigateOnUi(op.id, op.url)
             /\ ops' = rest /\ UNCHANGED <<probe, inbox, verdicts>>
    <2>1. op.id \in 1 .. navigations /\ op.url \in Servers
      BY <1>1, <1>6 DEF KnownTasks, Known
    <2>2. PageSound'
      BY <1>1, <1>6, <2>1, NavigateSound
    <2> QED
      BY <1>1, <1>6, <2>2, ProbeKept, InboxKept, UiKeeps
  <1>7. CASE /\ op.kind = "Abandon" /\ AbandonOnUi(op.id)
             /\ ops' = rest /\ UNCHANGED <<probe, inbox, verdicts>>
    <2>1. PageSound'
      BY <1>1, <1>7, AbandonSound
    <2> QED
      BY <1>1, <1>7, <2>1, ProbeKept, InboxKept, UiKeeps
  <1> QED
    BY <1>2, <1>3, <1>4, <1>5, <1>6, <1>7

(* A verdict on the probe that runs. *)
LEMMA ProbeFails ==
  ASSUME IInv, probe.stage # "none",
         Report(Event("Unresolved", probe.cycle, NoUrl), <<"probe", probe.cycle>>, "bad")
  PROVE  inbox' \in Seq(BackedEvents') /\ verdicts \subseteq verdicts'
  <1> DEFINE c == probe.cycle
             e == Event("Unresolved", c, NoUrl)
  <1>1. c \in Nat
    BY DEF IInv, Types
  <1>2. e \in Events /\ e.kind = "Unresolved" /\ e.id = c
    BY <1>1, EventOf DEF Event
  <1>3. Report(e, <<"probe", c>>, "bad")
    OBVIOUS
  <1> HIDE DEF e, c
  <1> QED
    BY <1>2, <1>3, ReportInv

LEMMA RequestsInv ==
  ASSUME IInv, HeadCompletes \/ GetCompletes
  PROVE  IInv'
  <1>1. UNCHANGED <<actorVars, ops, pageVars, sessionVars>> /\ ops' \in Seq(KnownTasks)
    BY DEF HeadCompletes, GetCompletes, IInv, Ids
  <1>2. CASE /\ probe.stage = "head" /\ UNCHANGED <<inbox, verdicts>>
             /\ \E base \in Servers : probe' = [probe EXCEPT !.stage = "get", !.base = base]
    <2>1. ProbeSound'
      BY <1>1, <1>2, UiSound DEF ProbeSound, Urls
    <2> QED
      BY <1>1, <1>2, <2>1, PageKept, InboxKept, UiKeeps
  <1>3. CASE /\ probe.stage \in {"head", "get"} /\ probe' = [probe EXCEPT !.stage = "done"]
             /\ Report(Event("Unresolved", probe.cycle, NoUrl), <<"probe", probe.cycle>>, "bad")
    <2>1. ProbeSound'
      BY <1>1, <1>3, UiSound DEF ProbeSound
    <2>2. inbox' \in Seq(BackedEvents') /\ verdicts \subseteq verdicts'
      BY <1>3, ProbeFails
    <2> QED
      BY <1>1, <2>1, <2>2, PageKept, UiKeeps
  <1>4. CASE /\ probe.stage = "get" /\ probe' = [probe EXCEPT !.stage = "done"]
             /\ Report(Event("Resolved", probe.cycle, probe.base), <<"probe", probe.cycle>>, "good")
    <2>1. ProbeSound'
      BY <1>1, <1>4, UiSound DEF ProbeSound
    <2> DEFINE c == probe.cycle
               e == Event("Resolved", c, probe.base)
    <2>2. e \in Events /\ e.kind = "Resolved" /\ e.id = c /\ e.url \in Servers
      BY <1>4, UiSound DEF ProbeSound, Event, Events, Urls
    <2>3. Report(e, <<"probe", c>>, "good")
      BY <1>4
    <2>4. inbox' \in Seq(BackedEvents') /\ verdicts \subseteq verdicts'
      <3> HIDE DEF e, c
      <3> QED
        BY <2>2, <2>3, ReportInv
    <2> QED
      BY <1>1, <2>1, <2>4, PageKept, UiKeeps
  <1> QED
    BY <1>2, <1>3, <1>4 DEF HeadCompletes, GetCompletes

(* Steps of the browser that tell nothing. *)
Silent == UNCHANGED <<actorVars, uiVars, sessionVars, inbox, verdicts>>

LEMMA SilentInv ==
  ASSUME IInv, Silent, PageSound'
  PROVE  IInv'
  <1>1. UNCHANGED <<actorVars, sessionVars>> /\ verdicts \subseteq verdicts' /\ ops' \in Seq(KnownTasks)
        /\ probe' = probe /\ cycles' = cycles /\ inbox' = inbox
    BY DEF Silent, IInv, Ids
  <1> QED
    BY <1>1, ProbeKept, InboxKept, UiKeeps

LEMMA EnsureBrowserInv ==
  ASSUME IInv, EnsureBrowser
  PROVE  IInv'
  <1>1. PageSound'
    BY UiSound DEF EnsureBrowser, PageSound, Painted, Paints, Pages
  <1> QED
    BY <1>1, SilentInv DEF EnsureBrowser, Silent

LEMMA AfterCreatedInv ==
  ASSUME IInv, AfterCreated
  PROVE  IInv'
  <1>1. Silent /\ Pages' = Pages /\ UNCHANGED <<recreations, navigations>>
    BY DEF AfterCreated, Silent, Pages
  <1>2. loaded' \in BOOLEAN /\ orphaned' \in BOOLEAN
    BY UiSound, Zenon DEF AfterCreated, PageSound
  <1>3. browser' = "live" /\ document' = Blank
    BY DEF AfterCreated
  <1>4. CASE UNCHANGED <<deferred, painting, loading>>
    BY <1>1, <1>2, <1>3, <1>4, UiSound, SilentInv DEF PageSound, Painted, Paints
  <1>5. CASE /\ deferred # Nothing /\ deferred' = Nothing /\ loading' = deferred
             /\ painting' = IF deferred = Blank THEN Unpainted
                            ELSE Awaiting(deferred.nav, deferred.base)
    <2>1. Painted(painting)'
      <3>1. CASE deferred = Blank
        BY <1>1, <1>5, <3>1 DEF Painted, Paints, Unpainted, Urls
      <3>2. CASE deferred \in Pages /\ deferred # Blank
        <4>1. deferred.nav \in 1 .. navigations /\ deferred.base \in Servers /\ deferred.nav \in Nat
          BY <3>2 DEF Pages, IInv, Types
        <4> QED
          BY <1>1, <1>5, <3>2, <4>1 DEF Painted, Paints, Awaiting, Urls
      <3> QED
        BY <1>5, <3>1, <3>2, UiSound DEF PageSound
    <2> QED
      BY <1>1, <1>2, <1>3, <1>5, <2>1, UiSound, SilentInv DEF PageSound
  <1> QED
    BY <1>4, <1>5 DEF AfterCreated

LEMMA BeforeCloseInv ==
  ASSUME IInv, BeforeClose
  PROVE  IInv'
  <1>1. Silent /\ Pages' = Pages /\ UNCHANGED <<deferred, painting, navigations>>
    BY DEF BeforeClose, Silent, Pages
  <1>2. loaded' \in BOOLEAN /\ orphaned' \in BOOLEAN
    BY UiSound, Zenon DEF BeforeClose, PageSound
  <1>3. browser' = "creating" /\ document' = Blank /\ loading' = Nothing
    BY DEF BeforeClose
  <1>4. recreations' \in 0 .. MaxRecreations
    BY UiSound, ConnectionConstants DEF BeforeClose, PageSound
  <1>5. PageSound'
    BY <1>1, <1>2, <1>3, <1>4, UiSound DEF PageSound, Painted, Paints
  <1> QED
    BY <1>1, <1>5, SilentInv

LEMMA CommitInv ==
  ASSUME IInv, Commit
  PROVE  IInv'
  <1>1. Silent /\ Pages' = Pages
        /\ UNCHANGED <<browser, deferred, painting, recreations, orphaned, navigations>>
    BY DEF Commit, Silent, Pages
  <1>2. loaded' \in BOOLEAN
    BY Zenon DEF Commit
  <1>3. document' = loading /\ loading' = Nothing /\ loading # Nothing
    BY DEF Commit
  <1>4. PageSound'
    BY <1>1, <1>2, <1>3, UiSound DEF PageSound, Painted, Paints
  <1> QED
    BY <1>1, <1>4, SilentInv

LEMMA LoadEndInv ==
  ASSUME IInv, LoadEnd
  PROVE  IInv'
  <1>1. Silent /\ Pages' = Pages
        /\ UNCHANGED <<browser, deferred, loading, document, recreations, orphaned, navigations>>
    BY DEF LoadEnd, Silent, Pages
  <1>2. loaded' \in BOOLEAN
    BY Zenon DEF LoadEnd
  <1>3. painting' = painting
        \/ (painting.kind = "Awaiting" /\ painting' = [painting EXCEPT !.kind = "Loaded"])
    BY DEF LoadEnd
  <1>4. Painted(painting)'
    BY <1>1, <1>3, UiSound DEF PageSound, Painted, Paints
  <1>5. PageSound'
    BY <1>1, <1>2, <1>4, UiSound DEF PageSound
  <1> QED
    BY <1>1, <1>5, SilentInv

(* A verdict on the navigation the painting names. *)
LEMMA PaintingJudged ==
  ASSUME IInv, painting.kind # "None",
         NEW kind, NEW verdict, <<kind, verdict>> \in {<<"NavigationFailed", "bad">>,
                                                       <<"FramePresented", "good">>},
         Report(Event(kind, painting.nav, NoUrl), <<"load", painting.nav>>, verdict)
  PROVE  inbox' \in Seq(BackedEvents') /\ verdicts \subseteq verdicts'
  <1> DEFINE n == painting.nav
             e == Event(kind, n, NoUrl)
  <1>1. n \in Nat
    BY DEF IInv, Types
  <1>2. e \in Events /\ e.kind = kind /\ e.id = n
    BY <1>1, EventOf DEF Event
  <1>3. Report(e, <<"load", n>>, verdict)
    OBVIOUS
  <1> HIDE DEF e, n
  <1> QED
    BY <1>2, <1>3, ReportInv

LEMMA LoadErrorInv ==
  ASSUME IInv, LoadError
  PROVE  IInv'
  <1>1. UNCHANGED <<actorVars, uiVars, sessionVars>> /\ Pages' = Pages /\ ops' \in Seq(KnownTasks)
        /\ UNCHANGED <<browser, deferred, painting, recreations, orphaned, navigations>>
    BY DEF LoadError, Pages, IInv, Ids
  <1>2. loaded' \in BOOLEAN
    BY Zenon DEF LoadError
  <1>3. PageSound'
    BY <1>1, <1>2, UiSound DEF LoadError, PageSound, Painted, Paints
  <1>4. inbox' \in Seq(BackedEvents') /\ verdicts \subseteq verdicts'
    <2>1. CASE UNCHANGED <<inbox, verdicts>>
      BY <2>1, InboxKept
    <2>2. CASE painting.kind # "None"
               /\ Report(Event("NavigationFailed", painting.nav, NoUrl),
                         <<"load", painting.nav>>, "bad")
      BY <2>2, PaintingJudged
    <2> QED
      BY <2>1, <2>2, Zenon DEF LoadError
  <1> QED
    BY <1>1, <1>3, <1>4, ProbeKept, UiKeeps

LEMMA PaintInv ==
  ASSUME IInv, Paint
  PROVE  IInv'
  <1>1. UNCHANGED <<actorVars, uiVars, sessionVars>> /\ Pages' = Pages /\ ops' \in Seq(KnownTasks)
        /\ UNCHANGED <<browser, deferred, loading, document, loaded, recreations, orphaned, navigations>>
    BY DEF Paint, Pages, IInv, Ids
  <1>2. Painted(painting)'
    BY <1>1, UiSound DEF Paint, PageSound, Painted, Paints
  <1>3. PageSound'
    BY <1>1, <1>2, UiSound DEF PageSound
  <1>4. inbox' \in Seq(BackedEvents') /\ verdicts \subseteq verdicts'
    BY PaintingJudged DEF Paint
  <1> QED
    BY <1>1, <1>3, <1>4, ProbeKept, UiKeeps

-----------------------------------------------------------------------------
LEMMA StutterInv ==
  ASSUME IInv, UNCHANGED vars
  PROVE  IInv'
  <1>1. UNCHANGED <<actorVars, sessionVars>> /\ verdicts \subseteq verdicts' /\ ops' \in Seq(KnownTasks)
        /\ probe' = probe /\ cycles' = cycles /\ inbox' = inbox /\ navigations' = navigations
        /\ UNCHANGED pageVars
    BY DEF vars, IInv, Ids
  <1> QED
    BY <1>1, ProbeKept, PageKept, InboxKept, UiKeeps

(* Every step keeps the types, the ids and the backing of what is told:    *)
(* the probe, the browser and the queues between the threads never name a  *)
(* probe or a navigation that was not begun.                               *)
THEOREM Inductive == IInv /\ [Next]_vars => IInv'
  <1> SUFFICES ASSUME IInv, [Next]_vars PROVE IInv'
    OBVIOUS
  <1>1. CASE Attach
    BY <1>1, AttachInv
  <1>2. CASE User
    BY <1>2, ConnectInv, UserInv DEF User
  <1>3. CASE TimePasses \/ Tick
    BY <1>3, TimeInv
  <1>4. CASE Absorb
    BY <1>4, AbsorbInv
  <1>5. CASE Deliver
    BY <1>5, DeliverInv
  <1>6. CASE Refused
    BY <1>6, RefusedInv
  <1>7. CASE MarkReady \/ StopSession
    BY <1>7, SessionInv
  <1>8. CASE RunOp
    BY <1>8, RunOpInv
  <1>9. CASE HeadCompletes \/ GetCompletes
    BY <1>9, RequestsInv
  <1>10. CASE EnsureBrowser
    BY <1>10, EnsureBrowserInv
  <1>11. CASE AfterCreated
    BY <1>11, AfterCreatedInv
  <1>12. CASE BeforeClose
    BY <1>12, BeforeCloseInv
  <1>13. CASE Commit
    BY <1>13, CommitInv
  <1>14. CASE LoadEnd
    BY <1>14, LoadEndInv
  <1>15. CASE LoadError
    BY <1>15, LoadErrorInv
  <1>16. CASE Paint
    BY <1>16, PaintInv
  <1>17. CASE UNCHANGED vars
    BY <1>17, StutterInv
  <1> QED
    BY <1>1, <1>2, <1>3, <1>4, <1>5, <1>6, <1>7, <1>8, <1>9, <1>10, <1>11, <1>12, <1>13,
       <1>14, <1>15, <1>16, <1>17 DEF Next

(* The inductive invariant holds in every reachable state. *)
THEOREM Invariant == Spec => []IInv
  BY InitInv, Inductive, PTL DEF Spec

LEMMA IInvTypes == IInv => TypeOK
  <1> SUFFICES ASSUME IInv PROVE TypeOK
    OBVIOUS
  <1>1. 1 .. cycles \subseteq Nat /\ 1 .. navigations \subseteq Nat
    BY DEF IInv, Types
  <1>2. Known \subseteq Requests
    BY <1>1 DEF Known, Requests, Urls
  <1>3. KnownTasks \subseteq Tasks
    BY <1>1, <1>2 DEF KnownTasks, Tasks
  <1>4. BackedEvents \subseteq Events
    BY DEF BackedEvents
  <1>5. /\ requests \in Seq(Requests) /\ taken \in Seq(Requests) /\ ops \in Seq(Tasks)
        /\ inbox \in Seq(Events)
    BY <1>2, <1>3, <1>4, SeqGrows DEF IInv, Ids, Backing
  <1> QED
    BY <1>5 DEF IInv, Types, TypeOK

(* Every variable of the connection keeps its type, for any servers and    *)
(* any bounds.                                                             *)
THEOREM TypeCorrect == Spec => []TypeOK
  BY Invariant, IInvTypes, PTL

-----------------------------------------------------------------------------
(* The refinement: what the screen follows, and what was ever tried.       *)

StageOf(p) ==
  CASE p.kind = "Editing"   -> "form"
    [] p.kind = "Probing"   -> "probe"
    [] p.kind = "Loading"   -> "load"
    [] p.kind = "Failed"    -> "failed"
    [] p.kind = "Retiring"  -> "fading"
    [] p.kind = "Connected" -> "connected"
Follows(p) ==
  CASE p.kind = "Probing" -> <<"probe", p.id>>
    [] p.kind \in Serving -> <<"load", p.id>>
    [] OTHER              -> <<"none", 0>>
TriedBy(c, n) == ({"probe"} \X (1 .. c)) \cup ({"load"} \X (1 .. n))

LEMMA StageFacts ==
  ASSUME NEW p
  PROVE  /\ p.kind = "Editing"   => StageOf(p) = "form" /\ Follows(p) = <<"none", 0>>
         /\ p.kind = "Probing"   => StageOf(p) = "probe" /\ Follows(p) = <<"probe", p.id>>
         /\ p.kind = "Loading"   => StageOf(p) = "load" /\ Follows(p) = <<"load", p.id>>
         /\ p.kind = "Failed"    => StageOf(p) = "failed" /\ Follows(p) = <<"none", 0>>
         /\ p.kind = "Retiring"  => StageOf(p) = "fading" /\ Follows(p) = <<"load", p.id>>
         /\ p.kind = "Connected" => StageOf(p) = "connected" /\ Follows(p) = <<"load", p.id>>
  BY DEF StageOf, Follows, Serving

LEMMA SameAttempt ==
  ASSUME NEW p, NEW q, p.kind = q.kind, p.id = q.id
  PROVE  StageOf(p) = StageOf(q) /\ Follows(p) = Follows(q)
  BY DEF StageOf, Follows

LEMMA TriedFacts ==
  ASSUME NEW c \in Nat, NEW n \in Nat, NEW i
  PROVE  /\ <<"probe", i>> \in TriedBy(c, n) <=> i \in 1 .. c
         /\ <<"load", i>> \in TriedBy(c, n) <=> i \in 1 .. n
  BY DEF TriedBy

LEMMA TriedGrow ==
  ASSUME NEW c \in Nat, NEW n \in Nat, NEW d \in Nat, NEW m \in Nat, c <= d, n <= m
  PROVE  TriedBy(c, n) \subseteq TriedBy(d, m)
  <1>1. 1 .. c \subseteq 1 .. d /\ 1 .. n \subseteq 1 .. m
    OBVIOUS
  <1> QED
    BY <1>1 DEF TriedBy

Grows == /\ cycles' \in Nat /\ cycles <= cycles' /\ navigations' \in Nat
         /\ navigations <= navigations'
Abstract == Attempt!AttemptNext \/ UNCHANGED Attempt!attemptVars

LEMMA AsStutter ==
  ASSUME phase'.kind = phase.kind, phase'.id = phase.id,
         UNCHANGED <<cycles, navigations, verdicts>>
  PROVE  Abstract
  <1>1. StageOf(phase') = StageOf(phase) /\ Follows(phase') = Follows(phase)
        /\ TriedBy(cycles', navigations') = TriedBy(cycles, navigations)
    BY SameAttempt
  <1>2. UNCHANGED Attempt!attemptVars
    BY <1>1 DEF Attempt!attemptVars, StageOf, Follows, TriedBy
  <1> QED
    BY <1>2 DEF Abstract

LEMMA AsJudge ==
  ASSUME phase'.kind = phase.kind, phase'.id = phase.id, UNCHANGED <<cycles, navigations>>,
         NEW a \in TriedBy(cycles, navigations), NEW v \in {"good", "bad"},
         verdicts' = verdicts \cup {<<a, v>>}
  PROVE  Abstract
  <1>1. StageOf(phase') = StageOf(phase) /\ Follows(phase') = Follows(phase)
        /\ TriedBy(cycles', navigations') = TriedBy(cycles, navigations)
    BY SameAttempt
  <1>2. Attempt!Judge
    BY <1>1 DEF Attempt!Judge, StageOf, Follows, TriedBy
  <1> QED
    BY <1>2 DEF Abstract, Attempt!AttemptNext

LEMMA AsGiveUp ==
  ASSUME IInv, Grows, phase'.kind = "Editing", verdicts' = verdicts
  PROVE  Abstract
  <1>1. StageOf(phase') = "form" /\ Follows(phase') = <<"none", 0>>
    BY StageFacts
  <1>2. TriedBy(cycles, navigations) \subseteq TriedBy(cycles', navigations')
    BY TriedGrow DEF Grows, IInv, Types
  <1>3. Attempt!GiveUp
    BY <1>1, <1>2 DEF Attempt!GiveUp, Attempt!NoAttempt, StageOf, Follows, TriedBy
  <1> QED
    BY <1>3 DEF Abstract, Attempt!AttemptNext

LEMMA AsRefuse ==
  ASSUME IInv, Grows, phase.kind \in {"Probing", "Loading"}, phase'.kind = "Failed",
         verdicts' \in {verdicts, verdicts \cup {<<Follows(phase), "bad">>}},
         <<Follows(phase), "bad">> \in verdicts'
  PROVE  Abstract
  <1>1. /\ StageOf(phase') = "failed" /\ Follows(phase') = <<"none", 0>>
        /\ StageOf(phase) \in {"probe", "load"}
    BY StageFacts
  <1>2. TriedBy(cycles, navigations) \subseteq TriedBy(cycles', navigations')
    BY TriedGrow DEF Grows, IInv, Types
  <1>3. Attempt!Refuse
    BY <1>1, <1>2 DEF Attempt!Refuse, Attempt!NoAttempt, StageOf, Follows, TriedBy
  <1> QED
    BY <1>3 DEF Abstract, Attempt!AttemptNext

(* A fresh attempt, numbered beyond those there were. *)
LEMMA AsBegin ==
  ASSUME IInv, Grows, phase'.kind = "Probing", phase'.id = cycles + 1, phase'.id <= cycles',
         verdicts' = verdicts
  PROVE  Abstract
  <1> DEFINE c == cycles + 1
  <1>1. c \in Nat /\ c \notin 1 .. cycles /\ c \in 1 .. cycles'
    BY DEF Grows, IInv, Types
  <1>2. StageOf(phase') = "probe" /\ Follows(phase') = <<"probe", c>>
    BY StageFacts
  <1> HIDE DEF c
  <1>3. <<"probe", c>> \notin TriedBy(cycles, navigations)
        /\ <<"probe", c>> \in TriedBy(cycles', navigations')
    BY <1>1, TriedFacts DEF Grows, IInv, Types
  <1>4. TriedBy(cycles, navigations) \subseteq TriedBy(cycles', navigations')
    BY TriedGrow DEF Grows, IInv, Types
  <1>5. <<"probe", c>> \in {"probe"} \X Nat
    BY <1>1
  <1>6. /\ Follows(phase') \in ({"probe"} \X Nat) \ TriedBy(cycles, navigations)
        /\ TriedBy(cycles, navigations) \cup {Follows(phase')} \subseteq TriedBy(cycles', navigations')
    BY <1>2, <1>3, <1>4, <1>5
  <1>7. Attempt!Begin
    BY <1>2, <1>6 DEF Attempt!Begin, Attempt!Follow, Attempt!Probes, StageOf, Follows, TriedBy
  <1> QED
    BY <1>7 DEF Abstract, Attempt!AttemptNext

LEMMA AsResolve ==
  ASSUME IInv, Grows, phase.kind = "Probing", <<<<"probe", phase.id>>, "good">> \in verdicts,
         phase'.kind = "Loading", phase'.id = navigations + 1, phase'.id <= navigations',
         verdicts' = verdicts
  PROVE  Abstract
  <1> DEFINE n == navigations + 1
  <1>1. n \in Nat /\ n \notin 1 .. navigations /\ n \in 1 .. navigations'
    BY DEF Grows, IInv, Types
  <1>2. /\ StageOf(phase') = "load" /\ Follows(phase') = <<"load", n>>
        /\ StageOf(phase) = "probe" /\ <<Follows(phase), "good">> \in verdicts
    BY StageFacts
  <1> HIDE DEF n
  <1>3. <<"load", n>> \notin TriedBy(cycles, navigations)
        /\ <<"load", n>> \in TriedBy(cycles', navigations')
    BY <1>1, TriedFacts DEF Grows, IInv, Types
  <1>4. TriedBy(cycles, navigations) \subseteq TriedBy(cycles', navigations')
    BY TriedGrow DEF Grows, IInv, Types
  <1>5. <<"load", n>> \in {"load"} \X Nat
    BY <1>1
  <1>6. /\ Follows(phase') \in ({"load"} \X Nat) \ TriedBy(cycles, navigations)
        /\ TriedBy(cycles, navigations) \cup {Follows(phase')} \subseteq TriedBy(cycles', navigations')
    BY <1>2, <1>3, <1>4, <1>5
  <1>7. Attempt!Resolve
    BY <1>2, <1>6 DEF Attempt!Resolve, Attempt!Follow, Attempt!Loads, StageOf, Follows, TriedBy
  <1> QED
    BY <1>7 DEF Abstract, Attempt!AttemptNext

(* The frame is shown, and the form has faded. *)
LEMMA AsShow ==
  ASSUME phase.kind = "Loading", <<<<"load", phase.id>>, "good">> \in verdicts,
         phase'.kind = "Retiring", phase'.id = phase.id,
         UNCHANGED <<cycles, navigations, verdicts>>
  PROVE  Abstract
  <1>1. /\ StageOf(phase) = "load" /\ <<Follows(phase), "good">> \in verdicts
        /\ StageOf(phase') = "fading" /\ Follows(phase') = Follows(phase)
        /\ TriedBy(cycles', navigations') = TriedBy(cycles, navigations)
    BY StageFacts
  <1>2. Attempt!Show
    BY <1>1 DEF Attempt!Show, StageOf, Follows, TriedBy
  <1> QED
    BY <1>2 DEF Abstract, Attempt!AttemptNext

LEMMA AsFinish ==
  ASSUME phase.kind = "Retiring", phase'.kind = "Connected", phase'.id = phase.id,
         UNCHANGED <<cycles, navigations, verdicts>>
  PROVE  Abstract
  <1>1. /\ StageOf(phase) = "fading" /\ StageOf(phase') = "connected"
        /\ Follows(phase') = Follows(phase)
        /\ TriedBy(cycles', navigations') = TriedBy(cycles, navigations)
    BY StageFacts
  <1>2. Attempt!Finish
    BY <1>1 DEF Attempt!Finish, StageOf, Follows, TriedBy
  <1> QED
    BY <1>2 DEF Abstract, Attempt!AttemptNext

LEMMA Aftermath ==
  ASSUME IInv, cycles' \in {cycles, CyclesAfter(cycles)}, navigations' = navigations
  PROVE  Grows
  BY DEF Grows, CyclesAfter, IInv, Types

LEMMA EnterAttempt ==
  ASSUME NEW kind, NEW url, NEW id, NEW then, Enter(Phase(kind, url, id), then)
  PROVE  phase'.kind = kind /\ phase'.id = id
  BY DEF Enter, Phase

LEMMA UserMaps ==
  ASSUME IInv, User
  PROVE  Abstract
  <1>1. navigations' = navigations /\ verdicts' = verdicts
    BY DEF User, Submit, Reset, Cancel, DismissFailure, EditUrl
  <1>2. CASE Submit
    <2>1. ConnectTo(phase.url) /\ phase.kind = "Editing"
      BY <1>2 DEF Submit
    <2>2. CASE phase.url = NoUrl
      <3>1. Enter(Phase("Editing", phase.url, 0), <<>>) /\ cycles' = CyclesAfter(cycles)
        BY <2>1, <2>2 DEF ConnectTo, Editing
      <3> QED
        BY <1>1, <3>1, EnterAttempt, Aftermath, AsGiveUp
    <2>3. CASE phase.url # NoUrl
      <3> DEFINE c == cycles + 1
                 r == <<Request("Probe", c, phase.url)>>
      <3>1. Enter(Phase("Probing", phase.url, c), r) /\ cycles' = CyclesAfter(c)
        BY <2>1, <2>3 DEF ConnectTo
      <3>2. c \in Nat /\ cycles' = c /\ Grows
        BY <1>1, <2>1, <3>1 DEF CyclesAfter, Grows, IInv, Types
      <3>3. phase'.kind = "Probing" /\ phase'.id = c
        <4> HIDE DEF c, r
        <4> QED
          BY <3>1, EnterAttempt
      <3> QED
        BY <1>1, <3>2, <3>3, AsBegin
    <2> QED
      BY <2>2, <2>3
  <1>3. CASE Reset
    <2>1. cycles' = cycles
      BY <1>3 DEF Reset
    <2>2. CASE Enter(Phase("Editing", NoUrl, 0), <<>>)
      BY <1>1, <2>1, <2>2, EnterAttempt, Aftermath, AsGiveUp
    <2>3. CASE Stay
      BY <1>1, <2>1, <2>3, AsStutter DEF Stay
    <2> QED
      BY <1>3, <2>2, <2>3 DEF Reset, Editing
  <1>4. CASE Cancel \/ DismissFailure
    <2>1. Enter(Phase("Editing", phase.url, 0), <<>>) /\ cycles' \in {cycles, CyclesAfter(cycles)}
      BY <1>4 DEF Cancel, DismissFailure, Editing
    <2> QED
      BY <1>1, <2>1, EnterAttempt, Aftermath, AsGiveUp
  <1>5. CASE \E url \in Urls : EditUrl(url)
    <2>1. PICK url \in Urls : EditUrl(url)
      BY <1>5
    <2>2. Enter(Phase("Editing", url, 0), <<>>) /\ cycles' = cycles
      BY <2>1 DEF EditUrl, Editing
    <2> QED
      BY <1>1, <2>2, EnterAttempt, Aftermath, AsGiveUp
  <1> QED
    BY <1>2, <1>3, <1>4, <1>5 DEF User

(* The phase is failed on a verdict there is. *)
LEMMA FailMaps ==
  ASSUME IInv, Enter(Phase("Failed", phase.url, 0), <<>>), navigations' = navigations,
         cycles' \in {cycles, CyclesAfter(cycles)}, verdicts' = verdicts,
         \/ phase.kind = "Probing" /\ <<<<"probe", phase.id>>, "bad">> \in verdicts
         \/ phase.kind = "Loading" /\ <<<<"load", phase.id>>, "bad">> \in verdicts
  PROVE  Abstract
  <1>1. Grows /\ phase'.kind = "Failed"
    BY EnterAttempt, Aftermath
  <1>2. phase.kind \in {"Probing", "Loading"} /\ <<Follows(phase), "bad">> \in verdicts
    BY StageFacts
  <1> QED
    BY <1>1, <1>2, AsRefuse

LEMMA TimeMaps ==
  ASSUME IInv, TimePasses \/ Tick
  PROVE  Abstract
  <1>1. CASE TimePasses
    BY <1>1, AsStutter DEF TimePasses
  <1>2. CASE Tick
    <2>1. navigations' = navigations /\ verdicts' = verdicts
      BY <1>2 DEF Tick
    <2>2. CASE /\ phase.kind = "Probing" /\ phase.unresolved
               /\ Enter(Phase("Failed", phase.url, 0), <<>>) /\ cycles' = CyclesAfter(cycles)
      BY <2>1, <2>2, FailMaps DEF IInv, Backing
    <2>3. CASE /\ phase.kind = "Retiring" /\ UNCHANGED cycles
               /\ Enter(Phase("Connected", NoUrl, phase.id), <<>>)
      BY <2>1, <2>3, EnterAttempt, AsFinish
    <2> QED
      BY <1>2, <2>2, <2>3 DEF Tick
  <1> QED
    BY <1>1, <1>2

LEMMA AbsorbMaps ==
  ASSUME IInv, Absorb
  PROVE  Abstract
  <1> DEFINE e == Head(inbox)
  <1>1. verdicts' = verdicts
    BY DEF Absorb
  <1>2. Backed(e)
    BY HeadBacked DEF Absorb
  <1>3. \/ e.kind = "Resolved"         /\ ProbeResolved(e.id, e.url)
        \/ e.kind = "Unresolved"       /\ ProbeFailed(e.id)
        \/ e.kind = "NavigationFailed" /\ NavigationFailed(e.id)
        \/ e.kind = "FramePresented"   /\ FramePresented(e.id)
    BY DEF Absorb
  <1> HIDE DEF e
  <1>4. CASE Stay /\ UNCHANGED <<cycles, navigations>>
    BY <1>1, <1>4, AsStutter DEF Stay
  <1>5. CASE e.kind = "Resolved" /\ phase.kind = "Probing" /\ phase.id = e.id /\ Navigate(e.url)
    <2> DEFINE n == navigations + 1
               r == <<Request("Navigate", n, e.url)>>
    <2>1. /\ Enter(Phase("Loading", e.url, n), r) /\ navigations' = n
          /\ cycles' = CyclesAfter(cycles)
      BY <1>5 DEF Navigate
    <2>2. Grows
      BY <2>1 DEF Grows, CyclesAfter, IInv, Types
    <2>3. phase'.kind = "Loading" /\ phase'.id = n
      <3> HIDE DEF n, r
      <3> QED
        BY <2>1, EnterAttempt
    <2>4. <<<<"probe", phase.id>>, "good">> \in verdicts
      BY <1>2, <1>5 DEF Backed
    <2> QED
      BY <1>1, <1>5, <2>1, <2>2, <2>3, <2>4, AsResolve DEF Grows
  <1>6. CASE e.kind = "Unresolved" /\ ProbeFailed(e.id)
    <2>1. navigations' = navigations /\ <<<<"probe", e.id>>, "bad">> \in verdicts
      BY <1>2, <1>6 DEF ProbeFailed, Backed
    <2>2. CASE /\ phase' = [phase EXCEPT !.unresolved = TRUE] /\ UNCHANGED <<elapsed, cycles>>
      <3>1. phase'.kind = phase.kind /\ phase'.id = phase.id
        BY <2>2 DEF IInv, Types
      <3> QED
        BY <1>1, <2>1, <2>2, <3>1, AsStutter
    <2>3. CASE /\ phase.kind = "Probing" /\ phase.id = e.id
               /\ Enter(Phase("Failed", phase.url, 0), <<>>) /\ cycles' = CyclesAfter(cycles)
      BY <1>1, <2>1, <2>3, FailMaps
    <2> QED
      BY <1>4, <1>6, <2>1, <2>2, <2>3 DEF ProbeFailed
  <1>7. CASE e.kind = "NavigationFailed" /\ NavigationFailed(e.id)
    <2>1. cycles' = cycles /\ navigations' = navigations /\ <<<<"load", e.id>>, "bad">> \in verdicts
      BY <1>2, <1>7 DEF NavigationFailed, Backed
    <2> QED
      BY <1>1, <1>4, <1>7, <2>1, FailMaps DEF NavigationFailed
  <1>8. CASE e.kind = "FramePresented" /\ FramePresented(e.id)
    <2>1. cycles' = cycles /\ navigations' = navigations /\ <<<<"load", e.id>>, "good">> \in verdicts
      BY <1>2, <1>8 DEF FramePresented, Backed
    <2>2. CASE phase.kind = "Loading" /\ phase.id = e.id /\ Enter(Phase("Retiring", NoUrl, e.id), <<>>)
      BY <1>1, <2>1, <2>2, EnterAttempt, AsShow
    <2> QED
      BY <1>4, <1>8, <2>1, <2>2 DEF FramePresented
  <1> QED
    BY <1>3, <1>4, <1>5, <1>6, <1>7, <1>8 DEF ProbeResolved

LEMMA RefusedMaps ==
  ASSUME IInv, Refused
  PROVE  Abstract
  <1> DEFINE r == Head(taken)
  <1>1. navigations' = navigations
    BY DEF Refused
  <1> HIDE DEF r
  <1>2. CASE /\ phase.kind = "Probing" /\ phase.id = r.id /\ cycles' = CyclesAfter(cycles)
             /\ verdicts' = verdicts \cup {<<<<"probe", r.id>>, "bad">>}
             /\ phase' = Phase("Failed", phase.url, 0)
    <2>1. Grows /\ phase'.kind = "Failed" /\ Follows(phase) = <<"probe", r.id>>
      BY <1>1, <1>2, Aftermath, StageFacts DEF Phase
    <2> QED
      BY <1>2, <2>1, AsRefuse
  <1>3. CASE /\ phase.kind = "Probing" /\ phase.id = r.id /\ UNCHANGED cycles
             /\ verdicts' = verdicts \cup {<<<<"probe", r.id>>, "bad">>}
             /\ phase' = [phase EXCEPT !.unresolved = TRUE]
    <2>1. phase'.kind = phase.kind /\ phase'.id = phase.id
      BY <1>3 DEF IInv, Types
    <2>2. <<"probe", r.id>> \in TriedBy(cycles, navigations)
      BY <1>3, TriedFacts DEF IInv, Types, Ids
    <2> QED
      BY <1>1, <1>3, <2>1, <2>2, AsJudge
  <1>4. CASE /\ phase.kind = "Loading" /\ phase.id = r.id /\ UNCHANGED cycles
             /\ verdicts' = verdicts \cup {<<<<"load", r.id>>, "bad">>}
             /\ phase' = Phase("Failed", phase.url, 0)
    <2>1. Grows /\ phase'.kind = "Failed" /\ Follows(phase) = <<"load", r.id>>
      BY <1>1, <1>4, Aftermath, StageFacts DEF Phase
    <2> QED
      BY <1>4, <2>1, AsRefuse
  <1>5. CASE UNCHANGED <<phase, cycles, verdicts>>
    BY <1>1, <1>5, AsStutter
  <1> QED
    BY <1>2, <1>3, <1>4, <1>5 DEF Refused, r

-----------------------------------------------------------------------------
(* The other side only judges what was tried. *)

LEMMA UiMaps ==
  ASSUME UNCHANGED actorVars, UNCHANGED verdicts
  PROVE  Abstract
  BY AsStutter

LEMMA ProbeJudged ==
  ASSUME IInv, UNCHANGED actorVars, NEW c \in 1 .. cycles, NEW v \in {"good", "bad"},
         verdicts' = verdicts \cup {<<<<"probe", c>>, v>>}
  PROVE  Abstract
  <1>1. <<"probe", c>> \in TriedBy(cycles, navigations)
    BY TriedFacts DEF IInv, Types
  <1> QED
    BY <1>1, AsJudge

LEMMA LoadJudged ==
  ASSUME IInv, UNCHANGED actorVars, painting.kind # "None", NEW v \in {"good", "bad"},
         verdicts' = verdicts \cup {<<<<"load", painting.nav>>, v>>}
  PROVE  Abstract
  <1>1. <<"load", painting.nav>> \in TriedBy(cycles, navigations)
    BY TriedFacts DEF IInv, Types, Ids
  <1> QED
    BY <1>1, AsJudge

LEMMA RunOpMaps ==
  ASSUME IInv, RunOp
  PROVE  Abstract
  <1> DEFINE op == Head(ops)
  <1>1. UNCHANGED actorVars /\ op \in KnownTasks
    BY TailOf DEF RunOp, IInv, Ids
  <1>2. UNCHANGED verdicts \/ (op.kind = "Start" /\ StartProbe(op.id))
    BY DEF RunOp
  <1> HIDE DEF op
  <1>3. CASE op.kind = "Start" /\ StartProbe(op.id)
    <2>1. op.id \in 1 .. cycles
      BY <1>1, <1>3 DEF KnownTasks, Known
    <2>2. UNCHANGED verdicts \/ verdicts' = verdicts \cup {<<<<"probe", op.id>>, "bad">>}
      BY <1>3 DEF StartProbe, Report
    <2> QED
      BY <1>1, <2>1, <2>2, UiMaps, ProbeJudged
  <1> QED
    BY <1>1, <1>2, <1>3, UiMaps

LEMMA RequestsMap ==
  ASSUME IInv, HeadCompletes \/ GetCompletes
  PROVE  Abstract
  <1> DEFINE c == probe.cycle
  <1>1. UNCHANGED actorVars /\ c \in 1 .. cycles
    BY UiSound DEF HeadCompletes, GetCompletes, ProbeSound
  <1>2. \/ UNCHANGED verdicts
        \/ verdicts' = verdicts \cup {<<<<"probe", c>>, "bad">>}
        \/ verdicts' = verdicts \cup {<<<<"probe", c>>, "good">>}
    BY DEF HeadCompletes, GetCompletes, Report
  <1> HIDE DEF c
  <1> QED
    BY <1>1, <1>2, UiMaps, ProbeJudged

LEMMA BrowserMaps ==
  ASSUME IInv, LoadError \/ Paint
  PROVE  Abstract
  <1>1. UNCHANGED actorVars
    BY DEF LoadError, Paint
  <1>2. \/ UNCHANGED verdicts
        \/ /\ painting.kind # "None"
           /\ \/ verdicts' = verdicts \cup {<<<<"load", painting.nav>>, "bad">>}
              \/ verdicts' = verdicts \cup {<<<<"load", painting.nav>>, "good">>}
    BY DEF LoadError, Paint, Report
  <1> QED
    BY <1>1, <1>2, UiMaps, LoadJudged

LEMMA InitMaps == Init => Attempt!AttemptInit
  <1> SUFFICES ASSUME Init PROVE Attempt!AttemptInit
    OBVIOUS
  <1>1. verdicts = {} /\ navigations = 0
    BY DEF Init
  <1>2. CASE saved = NoUrl
    <2>1. phase = Editing(NoUrl) /\ cycles = 0
      BY <1>2 DEF Init
    <2>2. phase.kind = "Editing"
      BY <2>1 DEF Editing, Phase
    <2>3. StageOf(phase) = "form" /\ Follows(phase) = <<"none", 0>>
      BY <2>2, StageFacts
    <2>4. TriedBy(cycles, navigations) = {}
      BY <1>1, <2>1 DEF TriedBy
    <2> QED
      BY <1>1, <2>3, <2>4 DEF Attempt!AttemptInit, Attempt!NoAttempt, StageOf, Follows, TriedBy
  <1>3. CASE saved # NoUrl
    <2>1. phase = Phase("Probing", saved, 1) /\ cycles = 1
      BY <1>3 DEF Init
    <2>2. phase.kind = "Probing" /\ phase.id = 1
      BY <2>1 DEF Phase
    <2>3. StageOf(phase) = "probe" /\ Follows(phase) = <<"probe", 1>>
      BY <2>2, StageFacts
    <2>4. 1 .. cycles = {1} /\ 1 .. navigations = {}
      BY <1>1, <2>1
    <2>5. TriedBy(cycles, navigations) = {<<"probe", 1>>}
      BY <2>4 DEF TriedBy
    <2>6. <<"probe", 1>> \in {"probe"} \X Nat
      OBVIOUS
    <2> QED
      BY <1>1, <2>3, <2>5, <2>6 DEF Attempt!AttemptInit, Attempt!Probes, StageOf, Follows, TriedBy
  <1> QED
    BY <1>2, <1>3

LEMMA NextMaps == IInv /\ [Next]_vars => [Attempt!AttemptNext]_(Attempt!attemptVars)
  <1> SUFFICES ASSUME IInv, [Next]_vars PROVE Abstract
    BY DEF Abstract
  <1>1. CASE User
    BY <1>1, UserMaps
  <1>2. CASE TimePasses \/ Tick
    BY <1>2, TimeMaps
  <1>3. CASE Absorb
    BY <1>3, AbsorbMaps
  <1>4. CASE Refused
    BY <1>4, RefusedMaps
  <1>5. CASE Attach \/ Deliver
    BY <1>5, AsStutter DEF Attach, Deliver
  <1>6. CASE RunOp
    BY <1>6, RunOpMaps
  <1>7. CASE HeadCompletes \/ GetCompletes
    BY <1>7, RequestsMap
  <1>8. CASE LoadError \/ Paint
    BY <1>8, BrowserMaps
  <1>9. CASE \/ MarkReady \/ StopSession \/ EnsureBrowser \/ AfterCreated \/ BeforeClose
             \/ Commit \/ LoadEnd \/ UNCHANGED vars
    <2>1. UNCHANGED actorVars /\ UNCHANGED verdicts
      BY <1>9
      DEF MarkReady, StopSession, EnsureBrowser, AfterCreated, BeforeClose, Commit, LoadEnd, vars
    <2> QED
      BY <2>1, UiMaps
  <1> QED
    BY <1>1, <1>2, <1>3, <1>4, <1>5, <1>6, <1>7, <1>8, <1>9 DEF Next

(* The connection implements the abstract attempt: whatever the answers,   *)
(* and however late, the screen moves only on a verdict about the attempt  *)
(* it follows and never takes up one that was given up.                    *)
THEOREM AttemptImplemented == Spec => ImplementsAttempt
  BY InitMaps, Invariant, NextMaps, PTL DEF Spec, ImplementsAttempt, Attempt!AttemptSpec

-----------------------------------------------------------------------------
(* What a frame shows.  The load the browser was given is the one its      *)
(* painting awaits, and a painting that counts as loaded is of the server  *)
(* of the document, or its navigation is known to be lost.                 *)
Lost == \/ orphaned
        \/ <<<<"load", painting.nav>>, "bad">> \in verdicts
        \/ session = "stopped"
Shows ==
  /\ browser # "live" => loading = Nothing /\ document = Blank
  /\ browser # "none" => session # "pending"
  /\ loading # Nothing /\ painting.kind # "None" => loading.base = painting.base
  /\ painting.kind = "Loaded" => document.base = painting.base \/ Lost

LEMMA InitShows == Init => Shows
  BY DEF Init, Shows, Unpainted

LEMMA KeepsShows ==
  ASSUME Shows, UNCHANGED pageVars, verdicts \subseteq verdicts',
         session' = session \/ session' = "stopped" \/ (session' = "ready" /\ session = "pending")
  PROVE  Shows'
  BY DEF Shows, Lost

LEMMA SubmittedShows ==
  ASSUME Shows, NEW d, NEW p, Submitted(d, p), browser # "none",
         \/ p.kind = "None" \/ p = painting
         \/ p.kind = "Awaiting" /\ d # Nothing,
         UNCHANGED <<browser, document, session, verdicts>>
  PROVE  Shows'
  <1>1. CASE browser = "live" /\ d # Nothing
    <2>1. loading' = d
      BY <1>1 DEF Submitted
    <2>2. CASE d = Blank
      <3>1. painting' = Unpainted
        BY <1>1, <2>2 DEF Submitted
      <3> QED
        BY <1>1, <3>1 DEF Shows, Unpainted
    <2>3. CASE d # Blank
      <3>1. painting' = Awaiting(d.nav, d.base)
        BY <1>1, <2>3 DEF Submitted
      <3>2. painting'.kind = "Awaiting" /\ painting'.base = d.base
        BY <3>1 DEF Awaiting
      <3> QED
        BY <1>1, <2>1, <3>2 DEF Shows
    <2> QED
      BY <2>2, <2>3
  <1>2. CASE ~(browser = "live" /\ d # Nothing)
    <2>1. painting' = p /\ UNCHANGED <<loading, orphaned>>
      BY <1>2 DEF Submitted
    <2>2. CASE p = painting
      BY <2>1, <2>2 DEF Shows, Lost
    <2>3. CASE p.kind = "None"
      BY <2>1, <2>3 DEF Shows
    <2>4. CASE p.kind = "Awaiting" /\ d # Nothing
      BY <1>2, <2>1, <2>4 DEF Shows
    <2> QED
      BY <2>2, <2>3, <2>4
  <1> QED
    BY <1>1, <1>2

LEMMA RunOpShows ==
  ASSUME IInv, Shows, RunOp
  PROVE  Shows'
  <1> DEFINE op == Head(ops)
  <1>1. /\ UNCHANGED <<actorVars, sessionVars, browser, document, loaded, recreations>>
        /\ op \in KnownTasks
    BY TailOf DEF RunOp, IInv, Ids
  <1>2. \/ UNCHANGED <<deferred, painting, loading, orphaned>> /\ verdicts \subseteq verdicts'
        \/ op.kind = "Navigate" /\ NavigateOnUi(op.id, op.url) /\ UNCHANGED verdicts
        \/ op.kind = "Abandon" /\ AbandonOnUi(op.id) /\ UNCHANGED verdicts
    BY DEF RunOp, StartProbe, Report
  <1> HIDE DEF op
  <1>3. CASE UNCHANGED <<deferred, painting, loading, orphaned>> /\ verdicts \subseteq verdicts'
    BY <1>1, <1>3, KeepsShows
  <1>4. CASE browser = "none"
    <2>1. UNCHANGED <<painting, loading, orphaned>> /\ verdicts \subseteq verdicts'
      BY <1>2, <1>4 DEF NavigateOnUi, AbandonOnUi
    <2> QED
      BY <1>1, <2>1 DEF Shows, Lost
  <1>5. CASE op.kind = "Navigate" /\ NavigateOnUi(op.id, op.url) /\ UNCHANGED verdicts
             /\ browser # "none"
    <2> DEFINE d == Page(op.id, op.url)
               p == Awaiting(op.id, op.url)
    <2>1. Submitted(d, p)
      BY <1>5 DEF NavigateOnUi
    <2>2. op.id \in 1 .. navigations
      BY <1>1, <1>5 DEF KnownTasks, Known
    <2>3. op.id # 0
      BY <2>2 DEF IInv, Types
    <2>4. d # Nothing
      BY <2>3 DEF Page, Nothing
    <2>5. p.kind = "Awaiting"
      BY DEF Awaiting
    <2> HIDE DEF d, p
    <2> QED
      BY <1>1, <1>5, <2>1, <2>4, <2>5, SubmittedShows
  <1>6. CASE op.kind = "Abandon" /\ AbandonOnUi(op.id) /\ UNCHANGED verdicts
             /\ browser # "none"
    <2> DEFINE left == IF deferred.nav = op.id THEN Blank ELSE deferred
               live == painting.nav = op.id
               d    == IF live /\ left = Nothing THEN Blank ELSE left
               p    == IF live THEN Unpainted ELSE painting
    <2>1. Submitted(d, p)
      BY <1>6, Zenon DEF AbandonOnUi
    <2>2. p.kind = "None" \/ p = painting
      BY DEF Unpainted
    <2> HIDE DEF d, p
    <2> QED
      BY <1>1, <1>6, <2>1, <2>2, SubmittedShows
  <1> QED
    BY <1>2, <1>3, <1>4, <1>5, <1>6

LEMMA AfterCreatedShows ==
  ASSUME Shows, AfterCreated
  PROVE  Shows'
  <1>1. /\ session = "ready" /\ browser = "creating" /\ browser' = "live" /\ document' = Blank
        /\ UNCHANGED <<session, verdicts>> /\ loading = Nothing /\ document = Blank
    BY DEF AfterCreated, Shows
  <1>2. CASE UNCHANGED <<deferred, painting, loading, orphaned>>
    BY <1>1, <1>2 DEF Shows, Lost
  <1>3. CASE deferred = Blank /\ loading' = deferred /\ painting' = Unpainted
    BY <1>1, <1>3 DEF Shows, Unpainted
  <1>4. CASE loading' = deferred /\ painting' = Awaiting(deferred.nav, deferred.base)
    <2>1. painting'.kind = "Awaiting" /\ painting'.base = deferred.base
      BY <1>4 DEF Awaiting
    <2> QED
      BY <1>1, <1>4, <2>1 DEF Shows
  <1> QED
    BY <1>2, <1>3, <1>4 DEF AfterCreated

LEMMA BrowserShows ==
  ASSUME IInv, Shows, EnsureBrowser \/ BeforeClose \/ Commit \/ LoadEnd \/ LoadError \/ Paint
  PROVE  Shows'
  <1>1. CASE EnsureBrowser
    BY <1>1 DEF EnsureBrowser, Shows, Lost
  <1>2. CASE BeforeClose
    <2>1. painting.kind = "Loaded" => painting.nav # 0
      BY DEF IInv, Types, Ids
    <2>2. painting.nav # 0 => orphaned'
      BY <1>2 DEF BeforeClose
    <2> QED
      BY <1>2, <2>1, <2>2 DEF BeforeClose, Shows, Lost
  <1>3. CASE Commit
    BY <1>3 DEF Commit, Shows
  <1>4. CASE LoadEnd
    <2>1. /\ browser = "live" /\ UNCHANGED <<browser, loading, document, orphaned, session, verdicts>>
      BY <1>4 DEF LoadEnd
    <2>2. \/ painting' = painting
          \/ /\ painting.kind = "Awaiting" /\ painting.base = document.base
             /\ painting' = [painting EXCEPT !.kind = "Loaded"]
      BY <1>4 DEF LoadEnd
    <2>3. painting'.base = painting.base
      BY <2>2 DEF IInv, Types
    <2>4. CASE painting' = painting
      BY <2>1, <2>4 DEF Shows, Lost
    <2>5. CASE painting.kind = "Awaiting" /\ painting.base = document.base
      BY <2>1, <2>3, <2>5 DEF Shows
    <2> QED
      BY <2>2, <2>4, <2>5
  <1>5. CASE LoadError
    <2>1. /\ browser = "live" /\ loading # Nothing /\ loading' = Nothing
          /\ UNCHANGED <<browser, painting, orphaned, session>> /\ verdicts \subseteq verdicts'
          /\ \/ session # "ready" \/ painting.kind = "None" \/ painting.base # loading.base
             \/ <<<<"load", painting.nav>>, "bad">> \in verdicts'
      BY <1>5 DEF LoadError, Report, Nothing, Page
    <2>2. session \in {"pending", "ready", "stopped"}
      BY DEF IInv, Types
    <2> QED
      BY <2>1, <2>2 DEF Shows, Lost
  <1>6. CASE Paint
    <2>1. /\ painting'.kind = painting.kind /\ painting'.base = painting.base
          /\ painting'.nav = painting.nav /\ verdicts \subseteq verdicts'
          /\ UNCHANGED <<browser, loading, document, orphaned, session>>
      BY <1>6 DEF Paint, Report, IInv, Types
    <2> QED
      BY <2>1 DEF Shows, Lost
  <1> QED
    BY <1>1, <1>2, <1>3, <1>4, <1>5, <1>6

LEMMA NextShows == IInv /\ Shows /\ [Next]_vars => Shows'
  <1> SUFFICES ASSUME IInv, Shows, [Next]_vars PROVE Shows'
    OBVIOUS
  <1>1. CASE \/ Attach \/ User \/ TimePasses \/ Tick \/ Absorb \/ Deliver \/ Refused
             \/ HeadCompletes \/ GetCompletes \/ UNCHANGED vars
    <2>1. UNCHANGED pageVars /\ session' = session
      BY <1>1
      DEF Attach, User, Submit, Reset, Cancel, DismissFailure, EditUrl, TimePasses, Tick, Absorb,
          Deliver, Refused, HeadCompletes, GetCompletes, vars
    <2>2. verdicts \subseteq verdicts'
      BY <1>1
      DEF Attach, User, Submit, Reset, Cancel, DismissFailure, EditUrl, TimePasses, Tick, Absorb,
          Deliver, Refused, HeadCompletes, GetCompletes, Report, vars
    <2> QED
      BY <2>1, <2>2, KeepsShows
  <1>2. CASE MarkReady \/ StopSession
    BY <1>2, KeepsShows DEF MarkReady, StopSession
  <1>3. CASE RunOp
    BY <1>3, RunOpShows
  <1>4. CASE AfterCreated
    BY <1>4, AfterCreatedShows
  <1>5. CASE EnsureBrowser \/ BeforeClose \/ Commit \/ LoadEnd \/ LoadError \/ Paint
    BY <1>5, BrowserShows
  <1> QED
    BY <1>1, <1>2, <1>3, <1>4, <1>5 DEF Next

(* Only Paint makes a painting presented. *)
LEMMA Presents ==
  ASSUME IInv, [Next]_vars, painting'.presented, ~painting.presented
  PROVE  Paint
  <1>1. ASSUME NEW d, NEW p, Submitted(d, p), p.presented => painting.presented
        PROVE  painting'.presented => painting.presented
    BY <1>1 DEF Submitted, Unpainted, Awaiting
  <1>2. CASE RunOp
    <2>1. PICK op : UNCHANGED painting \/ NavigateOnUi(op.id, op.url) \/ AbandonOnUi(op.id)
      BY <1>2 DEF RunOp
    <2>2. CASE NavigateOnUi(op.id, op.url)
      BY <1>1, <2>2 DEF NavigateOnUi, Awaiting
    <2>3. CASE AbandonOnUi(op.id)
      BY <1>1, <2>3 DEF AbandonOnUi, Unpainted
    <2> QED
      BY <2>1, <2>2, <2>3
  <1>3. CASE AfterCreated
    BY <1>3 DEF AfterCreated, Unpainted, Awaiting
  <1>4. CASE LoadEnd
    BY <1>4 DEF LoadEnd, IInv, Types
  <1>5. CASE UNCHANGED painting
    BY <1>5
  <1> QED
    BY <1>2, <1>3, <1>4, <1>5
    DEF Next, Attach, User, Submit, Reset, Cancel, DismissFailure, EditUrl, TimePasses, Tick,
        Absorb, Deliver, Refused, HeadCompletes, GetCompletes, vars, MarkReady, StopSession,
        EnsureBrowser, BeforeClose, Commit, LoadError

(* A frame that witnesses a navigation shows a page of its server, unless  *)
(* its browser was replaced or the navigation was reported as failed.      *)
THEOREM WitnessIsOfServer == Spec => WitnessShowsServer
  <1>1. IInv /\ Shows /\ [Next]_vars =>
          [painting'.presented /\ ~painting.presented =>
             \/ document.base = painting.base
             \/ orphaned
             \/ <<<<"load", painting.nav>>, "bad">> \in verdicts]_vars
    <2> SUFFICES ASSUME IInv, Shows, [Next]_vars, painting'.presented, ~painting.presented
                 PROVE  \/ document.base = painting.base
                        \/ orphaned
                        \/ <<<<"load", painting.nav>>, "bad">> \in verdicts
      OBVIOUS
    <2>1. painting.kind = "Loaded" /\ session = "ready"
      BY Presents DEF Paint
    <2> QED
      BY <2>1 DEF Shows, Lost
  <1>2. Spec => []Shows
    BY InitShows, NextShows, Invariant, PTL DEF Spec
  <1> QED
    BY <1>1, <1>2, Invariant, PTL DEF Spec, WitnessShowsServer

-----------------------------------------------------------------------------
(* The screen and the web side.  What the UI thread holds now, led through *)
(* all that is on its way to it, is what the screen waits for: the probe   *)
(* of the phase and the navigation it names, and nothing else.             *)

(* What the UI thread holds: the cycle of its probe and the navigation of  *)
(* its browser, 0 for none.                                                *)
Slots == [probe : Nat, nav : Nat]

(* ... after it has run one more task. *)
After(x, k) ==
  [probe |-> IF x.kind = "Probe" THEN x.id
             ELSE IF x.kind = "CancelProbe" THEN 0 ELSE k.probe,
   nav   |-> IF x.kind = "Navigate" THEN x.id
             ELSE IF x.kind = "Abandon" /\ k.nav = x.id THEN 0 ELSE k.nav]

(* No task touches the probe once it is the last one asked for. *)
Allowed(x, k, f) == x.kind \in {"Probe", "CancelProbe"} => k.probe < f

(* Running s leads from k to r, and every task of it is allowed. *)
Leads(s, k, r, f) ==
  \E h \in [0 .. Len(s) -> Slots] :
    /\ h[0] = k /\ h[Len(s)] = r
    /\ \A i \in 1 .. Len(s) : h[i] = After(s[i], h[i - 1]) /\ Allowed(s[i], h[i - 1], f)

LEMMA KnownTyped ==
  ASSUME cycles \in Nat, navigations \in Nat
  PROVE  Seq(Known) \subseteq Seq(Tasks) /\ Seq(KnownTasks) \subseteq Seq(Tasks)
  <1>1. 1 .. cycles \subseteq Nat /\ 1 .. navigations \subseteq Nat
    OBVIOUS
  <1>2. Known \subseteq Tasks /\ KnownTasks \subseteq Tasks
    BY <1>1 DEF Known, KnownTasks, Tasks, Requests, Urls
  <1> QED
    BY <1>2, SeqGrows

LEMMA AfterSlots ==
  ASSUME NEW x \in Tasks, NEW k \in Slots
  PROVE  After(x, k) \in Slots
  BY DEF Tasks, Requests, Slots, After

(* Nothing leads nowhere. *)
LEMMA LeadsNil ==
  ASSUME NEW k \in Slots, NEW r, NEW f
  PROVE  Leads(<<>>, k, r, f) <=> r = k
  <1>1. ASSUME r = k PROVE Leads(<<>>, k, r, f)
    <2> DEFINE h == [i \in 0 .. 0 |-> k]
    <2>1. h \in [0 .. Len(<<>>) -> Slots] /\ h[0] = k /\ h[Len(<<>>)] = r
      BY <1>1
    <2>2. 1 .. Len(<<>>) = {}
      OBVIOUS
    <2> HIDE DEF h
    <2> QED
      BY <2>1, <2>2 DEF Leads
  <1>2. ASSUME Leads(<<>>, k, r, f) PROVE r = k
    BY <1>2 DEF Leads
  <1> QED
    BY <1>1, <1>2

LEMMA LeadsOne ==
  ASSUME NEW x \in Tasks, NEW k \in Slots, NEW f, Allowed(x, k, f)
  PROVE  Leads(<<x>>, k, After(x, k), f)
  <1> DEFINE r == After(x, k)
             h == [i \in 0 .. 1 |-> IF i = 0 THEN k ELSE r]
  <1>1. r \in Slots
    BY AfterSlots
  <1> HIDE DEF r
  <1>2. h \in [0 .. 1 -> Slots] /\ h[0] = k /\ h[1] = r
    BY <1>1
  <1> HIDE DEF h
  <1>3. Len(<<x>>) = 1 /\ <<x>>[1] = x /\ \A i \in 1 .. 1 : i = 1 /\ i - 1 = 0
    OBVIOUS
  <1>4. \A i \in 1 .. 1 : h[i] = After(<<x>>[i], h[i - 1]) /\ Allowed(<<x>>[i], h[i - 1], f)
    BY <1>2, <1>3 DEF r
  <1> QED
    BY <1>2, <1>3, <1>4 DEF Leads, r

LEMMA LeadsConcat ==
  ASSUME NEW s \in Seq(Tasks), NEW t \in Seq(Tasks), NEW k, NEW m, NEW r, NEW f,
         Leads(s, k, m, f), Leads(t, m, r, f)
  PROVE  Leads(s \o t, k, r, f)
  <1>1. PICK g \in [0 .. Len(s) -> Slots] :
          /\ g[0] = k /\ g[Len(s)] = m
          /\ \A i \in 1 .. Len(s) : g[i] = After(s[i], g[i - 1]) /\ Allowed(s[i], g[i - 1], f)
    BY DEF Leads
  <1>2. PICK h \in [0 .. Len(t) -> Slots] :
          /\ h[0] = m /\ h[Len(t)] = r
          /\ \A i \in 1 .. Len(t) : h[i] = After(t[i], h[i - 1]) /\ Allowed(t[i], h[i - 1], f)
    BY DEF Leads
  <1> DEFINE n == Len(s)
             u == s \o t
             e == [i \in 0 .. Len(u) |-> IF i <= n THEN g[i] ELSE h[i - n]]
  <1>3. /\ Len(u) = n + Len(t) /\ n \in Nat /\ Len(t) \in Nat
        /\ \A i \in 1 .. Len(u) : u[i] = IF i <= n THEN s[i] ELSE t[i - n]
    OBVIOUS
  <1> HIDE DEF u
  <1>4. e \in [0 .. Len(u) -> Slots] /\ e[0] = k
    BY <1>1, <1>2, <1>3
  <1>5. e[Len(u)] = r
    BY <1>1, <1>2, <1>3
  <1>6. ASSUME NEW i \in 1 .. Len(u)
        PROVE  e[i] = After(u[i], e[i - 1]) /\ Allowed(u[i], e[i - 1], f)
    <2>1. CASE i <= n
      <3>1. i \in 1 .. Len(s) /\ i - 1 <= n /\ i - 1 \in 0 .. Len(u)
        BY <1>3, <2>1
      <3>2. e[i] = g[i] /\ e[i - 1] = g[i - 1] /\ u[i] = s[i]
        BY <1>3, <2>1, <3>1
      <3> HIDE DEF e, n
      <3> QED
        BY <1>1, <3>1, <3>2
    <2>2. CASE i = n + 1
      <3>1. i - n = 1 /\ 1 \in 1 .. Len(t) /\ i - 1 = n /\ ~(i <= n) /\ n \in 0 .. Len(u)
        BY <1>3, <2>2
      <3>2. e[i] = h[1] /\ e[i - 1] = h[0] /\ u[i] = t[1]
        BY <1>1, <1>2, <1>3, <3>1
      <3>3. h[1] = After(t[1], h[0]) /\ Allowed(t[1], h[0], f)
        <4>1. 1 - 1 = 0
          OBVIOUS
        <4> QED
          BY <1>2, <3>1, <4>1
      <3> HIDE DEF e, n
      <3> QED
        BY <3>2, <3>3
    <2>3. CASE i > n + 1
      <3>1. i - n \in 1 .. Len(t) /\ (i - 1) - n = (i - n) - 1 /\ ~(i <= n) /\ ~(i - 1 <= n)
            /\ i - 1 \in 0 .. Len(u)
        BY <1>3, <2>3
      <3>2. e[i] = h[i - n] /\ e[i - 1] = h[(i - n) - 1] /\ u[i] = t[i - n]
        BY <1>3, <3>1
      <3> HIDE DEF e, n
      <3> QED
        BY <1>2, <3>1, <3>2
    <2> QED
      BY <1>3, <2>1, <2>2, <2>3
  <1> HIDE DEF e, n
  <1> QED
    BY <1>4, <1>5, <1>6 DEF Leads, u

LEMMA LeadsAppend ==
  ASSUME NEW s \in Seq(Tasks), NEW x \in Tasks, NEW k, NEW m \in Slots, NEW f,
         Leads(s, k, m, f), Allowed(x, m, f)
  PROVE  Leads(Append(s, x), k, After(x, m), f)
  <1>1. Append(s, x) = s \o <<x>> /\ <<x>> \in Seq(Tasks)
    OBVIOUS
  <1>2. Leads(<<x>>, m, After(x, m), f)
    BY LeadsOne
  <1> QED
    BY <1>1, <1>2, LeadsConcat

LEMMA LeadsTail ==
  ASSUME NEW s \in Seq(Tasks), s # <<>>, NEW k, NEW r, NEW f, Leads(s, k, r, f)
  PROVE  /\ k \in Slots /\ Allowed(Head(s), k, f)
         /\ Leads(Tail(s), After(Head(s), k), r, f)
  <1>1. PICK h \in [0 .. Len(s) -> Slots] :
          /\ h[0] = k /\ h[Len(s)] = r
          /\ \A i \in 1 .. Len(s) : h[i] = After(s[i], h[i - 1]) /\ Allowed(s[i], h[i - 1], f)
    BY DEF Leads
  <1> DEFINE t == Tail(s)
             e == [i \in 0 .. Len(t) |-> h[i + 1]]
  <1>2. /\ Len(s) \in Nat \ {0} /\ Len(t) = Len(s) - 1 /\ Head(s) = s[1]
        /\ \A i \in 1 .. Len(t) : t[i] = s[i + 1]
    OBVIOUS
  <1> HIDE DEF t
  <1>3. 1 \in 1 .. Len(s) /\ 1 - 1 = 0
    BY <1>2
  <1>4. k \in Slots /\ Allowed(s[1], k, f) /\ h[1] = After(s[1], k)
    BY <1>1, <1>3, <1>2
  <1>5. e \in [0 .. Len(t) -> Slots] /\ e[0] = h[1] /\ e[Len(t)] = r
    BY <1>1, <1>2
  <1>6. ASSUME NEW i \in 1 .. Len(t)
        PROVE  e[i] = After(t[i], e[i - 1]) /\ Allowed(t[i], e[i - 1], f)
    <2>1. i + 1 \in 1 .. Len(s) /\ (i + 1) - 1 = i /\ i - 1 \in 0 .. Len(t) /\ (i - 1) + 1 = i
          /\ i \in 0 .. Len(t)
      BY <1>2
    <2>2. e[i] = h[i + 1] /\ e[i - 1] = h[i] /\ t[i] = s[i + 1]
      BY <1>2, <2>1
    <2> HIDE DEF e
    <2>3. h[i + 1] = After(s[i + 1], h[(i + 1) - 1]) /\ Allowed(s[i + 1], h[(i + 1) - 1], f)
      BY <1>1, <2>1
    <2> QED
      BY <2>1, <2>2, <2>3
  <1> HIDE DEF e
  <1>7. Leads(t, h[1], r, f)
    BY <1>5, <1>6 DEF Leads
  <1> QED
    BY <1>2, <1>4, <1>7 DEF t

(* What was the last probe stays it when more follow. *)
LEMMA LeadsLater ==
  ASSUME NEW s \in Seq(Tasks), NEW k, NEW r, NEW f \in Nat, NEW g \in Nat, f <= g, Leads(s, k, r, f)
  PROVE  Leads(s, k, r, g)
  <1>1. PICK h \in [0 .. Len(s) -> Slots] :
          /\ h[0] = k /\ h[Len(s)] = r
          /\ \A i \in 1 .. Len(s) : h[i] = After(s[i], h[i - 1]) /\ Allowed(s[i], h[i - 1], f)
    BY DEF Leads
  <1>2. ASSUME NEW i \in 1 .. Len(s) PROVE Allowed(s[i], h[i - 1], g)
    <2>1. i - 1 \in 0 .. Len(s)
      OBVIOUS
    <2>2. h[i - 1].probe \in Nat
      BY <2>1 DEF Slots
    <2> QED
      BY <1>1, <2>2 DEF Allowed
  <1> QED
    BY <1>1, <1>2 DEF Leads

-----------------------------------------------------------------------------
(* What the screen waits for, and what the UI thread holds.                *)
NavHeld == IF browser = "live" \/ deferred = Nothing THEN painting.nav ELSE deferred.nav
Latest == IF phase.kind = "Probing" THEN phase.id ELSE cycles + 1
Wanted == [probe |-> IF phase.kind = "Probing" THEN phase.id ELSE 0, nav |-> Names(phase)]
Held   == [probe |-> probe.cycle, nav |-> NavHeld]

InStep ==
  \E j, k \in Slots : /\ Leads(ops, Held, j, Latest)
                      /\ Leads(taken, j, k, Latest)
                      /\ Leads(requests, k, Wanted, Latest)

(* A navigation is deferred while there is no live browser, and the        *)
(* painting then names the same one or none.                               *)
PageStands ==
  /\ painting.kind = "None" => painting.nav = 0
  /\ browser = "none" => painting.nav = 0
  /\ browser = "live" => deferred = Nothing
  /\ deferred # Nothing => painting.nav = 0 \/ painting.nav = deferred.nav

(* The answers on their way are about probes there were. *)
Judges(e, c) == e.kind \in {"Resolved", "Unresolved"} /\ e.id = c
About(c) == \E i \in 1 .. Len(inbox) : Judges(inbox[i], c)
AnswersKnown == /\ probe.cycle \in 0 .. cycles
                /\ \A c \in Nat : About(c) => c \in 1 .. cycles

(* The probe the screen waits for has ended exactly when its answer is on  *)
(* its way or was a failure.                                               *)
ProbeStands ==
  phase.kind = "Probing" =>
    IF probe.cycle = phase.id /\ ~ProbeRuns
      THEN phase.unresolved \/ About(phase.id)
      ELSE ~phase.unresolved /\ ~About(phase.id)

(* All of it, while nothing was refused and the session goes on. *)
Going == ~shutdown /\ session # "stopped"
Agreement == /\ PageStands /\ AnswersKnown
             /\ Going => ProbeStands /\ InStep

LEMMA SlotTypes ==
  ASSUME IInv
  PROVE  /\ Held \in Slots /\ Wanted \in Slots /\ Latest \in Nat
         /\ Names(phase) \in Nat /\ deferred.nav \in Nat /\ painting.nav \in Nat
         /\ Wanted.probe < Latest \/ phase.kind = "Probing"
  <1>1. deferred.nav \in Nat /\ painting.nav \in Nat /\ Names(phase) \in Nat
    BY DEF IInv, Types, Pages, Nothing, Blank, Page, Names
  <1>2. Latest \in Nat /\ phase.id \in Nat /\ cycles \in Nat /\ probe.cycle \in Nat
    BY DEF Latest, IInv, Types
  <1> QED
    BY <1>1, <1>2 DEF Held, NavHeld, Wanted, Slots, Latest

LEMMA SeqTypes ==
  ASSUME IInv
  PROVE  /\ requests \in Seq(Tasks) /\ taken \in Seq(Tasks) /\ ops \in Seq(Tasks)
         /\ requests \in Seq(Known) /\ taken \in Seq(Known) /\ ops \in Seq(KnownTasks)
  BY KnownTyped DEF IInv, Types, Ids

(* Steps of the actor.  They leave what the UI thread holds alone. *)
LEMMA HeldKept ==
  ASSUME UNCHANGED uiVars, UNCHANGED pageVars
  PROVE  Held' = Held
  BY DEF Held, NavHeld

LEMMA IdleLeads ==
  ASSUME IInv, InStep, Idle
  PROVE  \E j \in Slots : Leads(ops, Held, j, Latest) /\ Leads(requests, j, Wanted, Latest)
  <1>1. PICK j \in Slots, k \in Slots :
          /\ Leads(ops, Held, j, Latest)
          /\ Leads(taken, j, k, Latest) /\ Leads(requests, k, Wanted, Latest)
    BY DEF InStep
  <1>2. k = j
    BY <1>1, LeadsNil
  <1> QED
    BY <1>1, <1>2

LEMMA FlushLeads ==
  ASSUME IInv, IInv', NEW j \in Slots, NEW reqs,
         \/ taken' = reqs /\ requests' = <<>>
         \/ taken' = <<>> /\ requests' = reqs,
         UNCHANGED uiVars, UNCHANGED pageVars,
         Leads(ops, Held, j, Latest'), Leads(reqs, j, Wanted', Latest')
  PROVE  InStep'
  <1>1. Wanted' \in Slots
    BY DEF Wanted, Slots, Names, IInv, Types
  <1>2. Leads(ops', Held', j, Latest')
    BY HeldKept
  <1>3. Leads(<<>>, j, j, Latest') /\ Leads(<<>>, Wanted', Wanted', Latest')
    BY <1>1, LeadsNil
  <1>5. CASE taken' = reqs /\ requests' = <<>>
    <2>1. Leads(taken', j, Wanted', Latest') /\ Leads(requests', Wanted', Wanted', Latest')
      BY <1>3, <1>5
    <2> QED
      BY <1>1, <1>2, <2>1 DEF InStep
  <1>6. CASE taken' = <<>> /\ requests' = reqs
    <2>1. Leads(taken', j, j, Latest') /\ Leads(requests', j, Wanted', Latest')
      BY <1>3, <1>6
    <2> QED
      BY <1>2, <2>1 DEF InStep
  <1> QED
    BY <1>5, <1>6

(* What leaving the phase leads to: no probe, and the navigation it names  *)
(* only if the next phase names it too.                                    *)
Left(next) == IF Names(next) = Names(phase) THEN Names(phase) ELSE 0

LEMMA LeavingLeads ==
  ASSUME IInv, NEW next, NEW f \in Nat, Wanted.probe < f
  PROVE  Leads(Leaving(next), Wanted, [probe |-> 0, nav |-> Left(next)], f)
  <1> DEFINE cancel  == Request("CancelProbe", 0, NoUrl)
             abandon == Request("Abandon", Names(phase), NoUrl)
             Cancels == IF phase.kind = "Probing" THEN <<cancel>> ELSE <<>>
             Abandons == IF Names(phase) # 0 /\ Names(next) # Names(phase)
                           THEN <<abandon>> ELSE <<>>
             free == [probe |-> 0, nav |-> Names(phase)]
             last == [probe |-> 0, nav |-> Left(next)]
  <1>1. Names(phase) \in Nat /\ Wanted \in Slots
    BY SlotTypes
  <1>2. cancel \in Tasks /\ abandon \in Tasks /\ free \in Slots /\ last \in Slots
    BY <1>1 DEF Request, Tasks, Requests, Urls, Slots, Left
  <1>3. Leaving(next) = Cancels \o Abandons
    BY Zenon DEF Leaving
  <1>4. Leads(Cancels, Wanted, free, f) /\ Cancels \in Seq(Tasks)
    <2>1. CASE phase.kind = "Probing"
      <3>1. After(cancel, Wanted) = free
        BY DEF After, Request, Wanted
      <3>2. Allowed(cancel, Wanted, f)
        BY DEF Allowed
      <3>3. Leads(<<cancel>>, Wanted, free, f)
        BY <1>1, <1>2, <3>1, <3>2, LeadsOne
      <3>4. Cancels = <<cancel>>
        BY <2>1
      <3> HIDE DEF Cancels, cancel
      <3> QED
        BY <1>2, <3>3, <3>4
    <2>2. CASE phase.kind # "Probing"
      <3>1. Wanted = free
        BY <2>2 DEF Wanted
      <3>2. Cancels = <<>>
        BY <2>2
      <3> HIDE DEF Cancels, free
      <3> QED
        BY <1>1, <3>1, <3>2, LeadsNil
    <2> QED
      BY <2>1, <2>2
  <1>5. Leads(Abandons, free, last, f) /\ Abandons \in Seq(Tasks)
    <2>1. CASE Names(phase) # 0 /\ Names(next) # Names(phase)
      <3>1. After(abandon, free) = last
        BY <2>1 DEF After, Request, Left
      <3>2. Allowed(abandon, free, f)
        BY DEF Allowed, Request
      <3>3. Leads(<<abandon>>, free, last, f)
        BY <1>2, <3>1, <3>2, LeadsOne
      <3>4. Abandons = <<abandon>>
        BY <2>1
      <3> HIDE DEF Abandons, abandon
      <3> QED
        BY <1>2, <3>3, <3>4
    <2>2. CASE ~(Names(phase) # 0 /\ Names(next) # Names(phase))
      <3>1. free = last
        BY <2>2 DEF Left
      <3>2. Abandons = <<>>
        BY <2>2, Zenon
      <3> HIDE DEF Abandons, free, last
      <3> QED
        BY <1>2, <3>1, <3>2, LeadsNil
    <2> QED
      BY <2>1, <2>2
  <1> HIDE DEF Cancels, Abandons, free, last
  <1>6. Leads(Cancels \o Abandons, Wanted, last, f)
    BY <1>4, <1>5, LeadsConcat
  <1> QED
    BY <1>3, <1>6 DEF last

(* A phase is entered, and what it asks for leads to what it waits for. *)
LEMMA EnterFollows ==
  ASSUME IInv, IInv', InStep, Idle, UNCHANGED uiVars, UNCHANGED pageVars,
         NEW next, NEW then \in Seq(Tasks), Enter(next, then),
         Latest <= Latest', Wanted.probe < Latest', Latest' \in Nat,
         Leads(then, [probe |-> 0, nav |-> Left(next)], Wanted', Latest')
  PROVE  InStep'
  <1> DEFINE L == Leaving(next)
             last == [probe |-> 0, nav |-> Left(next)]
  <1>1. PICK j \in Slots : Leads(ops, Held, j, Latest) /\ Leads(requests, j, Wanted, Latest)
    BY IdleLeads
  <1>2. Latest \in Nat /\ ops \in Seq(Tasks) /\ requests \in Seq(Tasks)
    BY SlotTypes, SeqTypes
  <1>3. Leads(ops, Held, j, Latest') /\ Leads(requests, j, Wanted, Latest')
    BY <1>1, <1>2, LeadsLater
  <1>4. Leads(L, Wanted, last, Latest')
    BY LeavingLeads
  <1>5. L \in Seq(Tasks)
    BY LeavingKnown, KnownTyped DEF IInv, Types
  <1> HIDE DEF L, last
  <1>6. requests \o L \in Seq(Tasks) /\ Leads(requests \o L, j, last, Latest')
    BY <1>2, <1>3, <1>4, <1>5, LeadsConcat
  <1>7. Leads(requests \o L \o then, j, Wanted', Latest')
    BY <1>6, LeadsConcat DEF last
  <1> DEFINE reqs == requests \o L \o then
  <1>8. Flush(reqs)
    BY DEF Enter, L
  <1> HIDE DEF reqs
  <1>9. \/ taken' = reqs /\ requests' = <<>>
        \/ taken' = <<>> /\ requests' = reqs
    BY <1>8 DEF Flush
  <1> QED
    BY <1>3, <1>7, <1>9, FlushLeads DEF reqs

LEMMA StayFollows ==
  ASSUME IInv, IInv', InStep, Idle, UNCHANGED uiVars, UNCHANGED pageVars,
         \/ taken' = requests /\ requests' = <<>>
         \/ taken' = <<>> /\ requests' = requests,
         Wanted' = Wanted, Latest' = Latest
  PROVE  InStep'
  <1>1. PICK j \in Slots : Leads(ops, Held, j, Latest) /\ Leads(requests, j, Wanted, Latest)
    BY IdleLeads
  <1> QED
    BY <1>1, FlushLeads

-----------------------------------------------------------------------------
(* The steps of the actor keep the screen in step.                         *)

LEMMA AboutTail ==
  ASSUME IInv, inbox # <<>>, inbox' = Tail(inbox), NEW c
  PROVE  About(c) <=> About(c)' \/ Judges(Head(inbox), c)
  <1> DEFINE n == Len(inbox)
  <1>1. inbox \in Seq(BackedEvents)
    BY DEF IInv, Backing
  <1>2. /\ n \in Nat \ {0} /\ Len(inbox') = n - 1 /\ Head(inbox) = inbox[1]
        /\ \A i \in 1 .. n - 1 : inbox'[i] = inbox[i + 1]
    BY <1>1
  <1> HIDE DEF n
  <1>3. ASSUME About(c) PROVE About(c)' \/ Judges(Head(inbox), c)
    <2>1. PICK i \in 1 .. n : Judges(inbox[i], c)
      BY <1>3 DEF About, n
    <2>2. CASE i = 1
      BY <1>2, <2>1, <2>2
    <2>3. CASE i # 1
      <3>1. i - 1 \in 1 .. n - 1 /\ inbox'[i - 1] = inbox[i]
        BY <1>2, <2>1, <2>3
      <3>2. i - 1 \in 1 .. Len(inbox') /\ Judges(inbox'[i - 1], c)
        BY <1>2, <2>1, <3>1
      <3> QED
        BY <3>2 DEF About, Judges
    <2> QED
      BY <2>2, <2>3
  <1>4. ASSUME About(c)' PROVE About(c)
    <2>1. PICK i \in 1 .. Len(inbox') : Judges(inbox'[i], c)
      BY <1>4 DEF About, Judges
    <2>2. i \in 1 .. n - 1 /\ i + 1 \in 1 .. n
      BY <1>2, <2>1
    <2>3. Judges(inbox[i + 1], c)
      BY <1>2, <2>1, <2>2
    <2> QED
      BY <2>2, <2>3 DEF About, n
  <1>5. ASSUME Judges(Head(inbox), c) PROVE About(c)
    <2>1. 1 \in 1 .. n /\ Judges(inbox[1], c)
      BY <1>2, <1>5
    <2> QED
      BY <2>1 DEF About, n
  <1> QED
    BY <1>3, <1>4, <1>5

LEMMA AboutAppend ==
  ASSUME IInv, NEW e, inbox' = Append(inbox, e), NEW c
  PROVE  About(c)' <=> About(c) \/ Judges(e, c)
  <1> DEFINE n == Len(inbox)
  <1>1. inbox \in Seq(BackedEvents)
    BY DEF IInv, Backing
  <1>2. /\ n \in Nat /\ Len(inbox') = n + 1 /\ inbox'[n + 1] = e
        /\ \A i \in 1 .. n : inbox'[i] = inbox[i]
    BY <1>1
  <1> HIDE DEF n
  <1>3. ASSUME About(c)' PROVE About(c) \/ Judges(e, c)
    <2>1. PICK i \in 1 .. Len(inbox') : Judges(inbox'[i], c)
      BY <1>3 DEF About, Judges
    <2>2. i = n + 1 \/ i \in 1 .. n
      BY <1>2, <2>1
    <2> QED
      BY <1>2, <2>1, <2>2 DEF About, n
  <1>4. ASSUME About(c) PROVE About(c)'
    <2>1. PICK i \in 1 .. n : Judges(inbox[i], c)
      BY <1>4 DEF About, n
    <2>2. i \in 1 .. Len(inbox') /\ Judges(inbox'[i], c)
      BY <1>2, <2>1
    <2> QED
      BY <2>2 DEF About, Judges
  <1>5. ASSUME Judges(e, c) PROVE About(c)'
    <2>1. n + 1 \in 1 .. Len(inbox') /\ Judges(inbox'[n + 1], c)
      BY <1>2, <1>5
    <2> QED
      BY <2>1 DEF About, Judges
  <1> QED
    BY <1>3, <1>4, <1>5

LEMMA LatestGrows ==
  ASSUME IInv, IInv', cycles <= cycles', phase'.kind # "Probing"
  PROVE  Latest <= Latest' /\ Wanted.probe < Latest' /\ Latest' \in Nat
  <1>1. PICK d \in Nat : d = cycles'
    BY DEF IInv, Types
  <1>2. PICK c \in Nat : c = cycles
    BY DEF IInv, Types
  <1>3. Latest' = d + 1 /\ c <= d
    BY <1>1, <1>2 DEF Latest
  <1>4. Latest <= d + 1 /\ Wanted.probe < d + 1
    <2>1. CASE phase.kind = "Probing"
      <3>1. Latest = phase.id /\ Wanted.probe = phase.id /\ phase.id \in 1 .. c
        BY <1>2, <2>1 DEF Latest, Wanted, IInv, Ids
      <3> QED
        BY <1>3, <3>1
    <2>2. CASE phase.kind # "Probing"
      <3>1. Latest = c + 1 /\ Wanted.probe = 0
        BY <1>2, <2>2 DEF Latest, Wanted
      <3> QED
        BY <1>3, <3>1
    <2> QED
      BY <2>1, <2>2
  <1>5. d + 1 \in Nat
    OBVIOUS
  <1> QED
    BY <1>3, <1>4, <1>5

(* The form or the failure is entered: nothing is waited for. *)
LEMMA LeaveFollows ==
  ASSUME IInv, IInv', InStep, Idle, UNCHANGED uiVars, UNCHANGED pageVars,
         NEW kind \in {"Editing", "Failed"}, NEW url,
         Enter(Phase(kind, url, 0), <<>>), cycles <= cycles'
  PROVE  InStep' /\ ProbeStands'
  <1> DEFINE next == Phase(kind, url, 0)
             none == [probe |-> 0, nav |-> Left(next)]
  <1>1. /\ phase' = next /\ next.kind \notin Serving /\ next.kind # "Probing"
    BY DEF Enter, Phase, Serving
  <1>2. Names(next) = 0 /\ Names(phase)' = 0
    BY <1>1 DEF Names
  <1>3. none = Wanted' /\ none \in Slots
    BY <1>1, <1>2 DEF Wanted, Left, Slots
  <1>4. Latest <= Latest' /\ Wanted.probe < Latest' /\ Latest' \in Nat
    BY <1>1, LatestGrows
  <1>5. <<>> \in Seq(Tasks)
    OBVIOUS
  <1>6. Leads(<<>>, none, Wanted', Latest')
    <2> HIDE DEF none
    <2> QED
      BY <1>3, LeadsNil
  <1>7. InStep'
    BY <1>4, <1>5, <1>6, EnterFollows
  <1> QED
    BY <1>1, <1>7 DEF ProbeStands

LEMMA SubmitFollows ==
  ASSUME IInv, IInv', AnswersKnown, InStep, Submit
  PROVE  InStep' /\ ProbeStands'
  <1>1. /\ Idle /\ UNCHANGED uiVars /\ UNCHANGED pageVars /\ ConnectTo(phase.url)
        /\ phase.kind = "Editing" /\ inbox' = inbox
    BY DEF Submit
  <1>2. CASE phase.url = NoUrl
    <2>1. Enter(Phase("Editing", phase.url, 0), <<>>) /\ cycles <= cycles'
      BY <1>1, <1>2 DEF ConnectTo, CyclesAfter, Editing, IInv, Types
    <2> QED
      BY <1>1, <2>1, LeaveFollows
  <1>3. CASE phase.url # NoUrl
    <2> DEFINE c == cycles + 1
               ask == Request("Probe", c, phase.url)
               next == Phase("Probing", phase.url, c)
               none == [probe |-> 0, nav |-> Left(next)]
    <2>1. Enter(next, <<ask>>) /\ cycles' = c
      BY <1>1, <1>3 DEF ConnectTo, CyclesAfter
    <2>2. c \in Nat /\ ask \in Tasks /\ phase.url \in Urls
      BY DEF IInv, Types, Request, Tasks, Requests
    <2>3. /\ phase' = next /\ phase'.kind = "Probing" /\ phase'.id = c /\ ~phase'.unresolved
          /\ Names(next) = 0 /\ Names(phase)' = 0 /\ Names(phase) = 0
      BY <1>1, <2>1 DEF Enter, Phase, Names, Serving
    <2>4. /\ none \in Slots /\ After(ask, none) = Wanted' /\ Allowed(ask, none, c)
      BY <2>2, <2>3 DEF Left, Slots, After, Request, Wanted, Allowed, IInv, Types
    <2>5. Latest' = c /\ Latest <= Latest' /\ Wanted.probe < Latest'
      BY <1>1, <2>2, <2>3 DEF Latest, Wanted, IInv, Types
    <2>6. Leads(<<ask>>, none, Wanted', Latest') /\ <<ask>> \in Seq(Tasks)
      <3> HIDE DEF ask, none
      <3> QED
        BY <2>2, <2>4, <2>5, LeadsOne
    <2>7. InStep'
      <3> HIDE DEF ask, next
      <3> QED
        BY <1>1, <2>1, <2>2, <2>5, <2>6, EnterFollows
    <2>8. probe'.cycle # c /\ ~About(c)
      <3>1. cycles \in Nat /\ c \notin 0 .. cycles /\ c \notin 1 .. cycles
        BY DEF IInv, Types
      <3> HIDE DEF c
      <3> QED
        BY <1>1, <2>2, <3>1 DEF AnswersKnown
    <2>9. ~About(phase.id)'
      <3> HIDE DEF c, next
      <3> QED
        BY <1>1, <2>3, <2>8 DEF About, Judges
    <2>10. ProbeStands'
      <3> HIDE DEF c, next
      <3> QED
        BY <2>3, <2>8, <2>9 DEF ProbeStands
    <2> QED
      BY <2>7, <2>10
  <1> QED
    BY <1>2, <1>3

LEMMA NavigateFollows ==
  ASSUME IInv, IInv', InStep, Idle, UNCHANGED uiVars, UNCHANGED pageVars,
         phase.kind = "Probing", NEW base \in Servers, Navigate(base)
  PROVE  InStep' /\ ProbeStands'
  <1> DEFINE n == navigations + 1
             ask == Request("Navigate", n, base)
             next == Phase("Loading", base, n)
             none == [probe |-> 0, nav |-> Left(next)]
  <1>1. Enter(next, <<ask>>) /\ cycles' = cycles + 1
    BY DEF Navigate, CyclesAfter
  <1>2. n \in Nat /\ ask \in Tasks
    BY DEF IInv, Types, Request, Tasks, Requests, Urls
  <1>3. /\ phase' = next /\ phase'.kind = "Loading" /\ phase'.id = n
        /\ Names(next) = n /\ Names(phase)' = n /\ Names(phase) = 0
    BY <1>1 DEF Enter, Phase, Names, Serving
  <1>4. none \in Slots /\ After(ask, none) = Wanted' /\ Allowed(ask, none, Latest')
    BY <1>2, <1>3 DEF Left, Slots, After, Request, Wanted, Allowed
  <1>5. Latest' = cycles + 2 /\ Latest <= Latest' /\ Wanted.probe < Latest' /\ Latest' \in Nat
    BY <1>1, <1>3 DEF Latest, Wanted, IInv, Types, Ids
  <1>6. Leads(<<ask>>, none, Wanted', Latest') /\ <<ask>> \in Seq(Tasks)
    <2> HIDE DEF ask, none
    <2> QED
      BY <1>2, <1>4, LeadsOne
  <1>7. InStep'
    <2> HIDE DEF ask, next
    <2> QED
      BY <1>1, <1>5, <1>6, EnterFollows
  <1> QED
    BY <1>3, <1>7 DEF ProbeStands

(* The load goes on under another name of the phase. *)
LEMMA RetireFollows ==
  ASSUME IInv, IInv', InStep, Idle, UNCHANGED uiVars, UNCHANGED pageVars,
         phase.kind \in Serving, NEW kind \in {"Retiring", "Connected"}, NEW url,
         Enter(Phase(kind, url, phase.id), <<>>), cycles' = cycles
  PROVE  InStep' /\ ProbeStands'
  <1> DEFINE next == Phase(kind, url, phase.id)
             same == [probe |-> 0, nav |-> Left(next)]
  <1>1. /\ phase' = next /\ next.kind \in Serving /\ next.kind # "Probing" /\ next.id = phase.id
        /\ phase.kind # "Probing"
    BY DEF Enter, Phase, Serving
  <1>2. Names(next) = Names(phase) /\ Names(phase)' = Names(phase)
    BY <1>1 DEF Names
  <1>3. Names(phase) \in Nat
    BY SlotTypes
  <1>4. same = Wanted' /\ same \in Slots
    BY <1>1, <1>2, <1>3 DEF Wanted, Left, Slots
  <1>5. Latest <= Latest' /\ Wanted.probe < Latest' /\ Latest' \in Nat
    BY <1>1 DEF Latest, Wanted, IInv, Types
  <1>6. <<>> \in Seq(Tasks)
    OBVIOUS
  <1>7. Leads(<<>>, same, Wanted', Latest')
    <2> HIDE DEF same
    <2> QED
      BY <1>4, LeadsNil
  <1>8. InStep'
    BY <1>5, <1>6, <1>7, EnterFollows
  <1> QED
    BY <1>1, <1>8 DEF ProbeStands

LEMMA StandKept ==
  ASSUME ProbeStands, phase' = phase, probe' = probe,
         phase.kind = "Probing" => (About(phase.id)' <=> About(phase.id))
  PROVE  ProbeStands'
  <1>1. ProbeRuns' = ProbeRuns
    BY DEF ProbeRuns
  <1>2. phase.kind = "Probing" => (About(phase.id)' <=> About(phase.id))
    OBVIOUS
  <1> QED
    BY <1>1, <1>2, Zenon DEF ProbeStands

(* The screen stays, and what it absorbs is not about its probe. *)
LEMMA StayKeeps ==
  ASSUME IInv, IInv', InStep, ProbeStands, Idle, UNCHANGED uiVars, UNCHANGED pageVars,
         Stay, UNCHANGED cycles,
         \/ inbox' = inbox
         \/ /\ inbox # <<>> /\ inbox' = Tail(inbox)
            /\ phase.kind = "Probing" => ~Judges(Head(inbox), phase.id)
  PROVE  InStep' /\ ProbeStands'
  <1>1. phase' = phase /\ Flush(requests)
    BY DEF Stay
  <1>2. \/ taken' = requests /\ requests' = <<>>
        \/ taken' = <<>> /\ requests' = requests
    BY <1>1 DEF Flush
  <1>3. Wanted' = Wanted /\ Latest' = Latest
    BY <1>1 DEF Wanted, Latest, Names
  <1>4. InStep'
    BY <1>2, <1>3, StayFollows
  <1>5. phase.kind = "Probing" => (About(phase.id)' <=> About(phase.id))
    <2> DEFINE c == phase.id
    <2>1. phase'.id = c
      BY <1>1
    <2>2. CASE inbox' = inbox
      BY <1>1, <2>2 DEF About, Judges
    <2>3. CASE inbox # <<>> /\ inbox' = Tail(inbox)
      <3>1. \A d : About(d) <=> About(d)' \/ Judges(Head(inbox), d)
        BY <2>3, AboutTail
      <3>2. PICK d : d = phase.id
        OBVIOUS
      <3>3. About(d)' <=> About(phase.id)'
        BY <1>1, <3>2 DEF About, Judges
      <3>4. About(d) <=> About(phase.id)
        BY <3>2
      <3>5. phase.kind = "Probing" => ~Judges(Head(inbox), d) \/ inbox' = inbox
        BY <3>2
      <3> QED
        BY <2>2, <3>1, <3>3, <3>4, <3>5
    <2> QED
      BY <2>2, <2>3
  <1> QED
    BY <1>1, <1>4, <1>5, StandKept

(* A failure before the floor: its answer was the one awaited. *)
LEMMA UnresolvedFollows ==
  ASSUME IInv, IInv', InStep, ProbeStands, Idle, UNCHANGED uiVars, UNCHANGED pageVars,
         phase.kind = "Probing", phase' = [phase EXCEPT !.unresolved = TRUE],
         UNCHANGED cycles, Flush(requests), About(phase.id)
  PROVE  InStep' /\ ProbeStands'
  <1>1. phase'.kind = "Probing" /\ phase'.id = phase.id /\ phase'.unresolved
    BY DEF IInv, Types
  <1>2. Wanted' = Wanted /\ Latest' = Latest
    BY <1>1 DEF Wanted, Latest, Names, Serving
  <1>3. \/ taken' = requests /\ requests' = <<>>
        \/ taken' = <<>> /\ requests' = requests
    BY DEF Flush
  <1>4. InStep'
    BY <1>2, <1>3, StayFollows
  <1>5. probe.cycle = phase.id /\ ~ProbeRuns
    BY DEF ProbeStands
  <1>6. probe'.cycle = phase'.id /\ ~ProbeRuns'
    BY <1>1, <1>5 DEF ProbeRuns
  <1> QED
    BY <1>1, <1>4, <1>6 DEF ProbeStands

LEMMA AbsorbFollows ==
  ASSUME IInv, IInv', InStep, ProbeStands, Absorb
  PROVE  InStep' /\ ProbeStands'
  <1> DEFINE e == Head(inbox)
  <1>1. /\ Idle /\ UNCHANGED uiVars /\ UNCHANGED pageVars
        /\ inbox # <<>> /\ inbox' = Tail(inbox)
    BY DEF Absorb
  <1>2. \/ e.kind = "Resolved"         /\ ProbeResolved(e.id, e.url)
        \/ e.kind = "Unresolved"       /\ ProbeFailed(e.id)
        \/ e.kind = "NavigationFailed" /\ NavigationFailed(e.id)
        \/ e.kind = "FramePresented"   /\ FramePresented(e.id)
    BY DEF Absorb
  <1>3. e \in Events /\ Backed(e)
    BY <1>1, HeadBacked
  <1>4. ASSUME Stay, UNCHANGED cycles, phase.kind = "Probing" => ~Judges(e, phase.id)
        PROVE  InStep' /\ ProbeStands'
    BY <1>1, <1>4, StayKeeps
  <1>5. ASSUME Enter(Phase("Failed", phase.url, 0), <<>>), cycles' \in {cycles, CyclesAfter(cycles)}
        PROVE  InStep' /\ ProbeStands'
    <2>1. cycles <= cycles'
      BY <1>5 DEF CyclesAfter, IInv, Types
    <2> QED
      BY <1>1, <1>5, <2>1, LeaveFollows
  <1>6. Judges(e, e.id) /\ e.id = phase.id /\ phase.kind = "Probing" => About(phase.id)
    <2>1. ASSUME NEW c, Judges(e, c) PROVE About(c)
      BY <1>1, <2>1, AboutTail
    <2> HIDE DEF e
    <2> QED
      BY <2>1
  <1> HIDE DEF e
  <1>7. CASE e.kind = "Resolved" /\ ProbeResolved(e.id, e.url)
    <2>1. CASE phase.kind = "Probing" /\ phase.id = e.id
      <3>1. Navigate(e.url) /\ e.url \in Servers
        BY <1>3, <1>7, <2>1 DEF ProbeResolved, Backed
      <3> QED
        BY <1>1, <2>1, <3>1, NavigateFollows
    <2>2. CASE ~(phase.kind = "Probing" /\ phase.id = e.id)
      BY <1>4, <1>7, <2>2 DEF ProbeResolved, Judges
    <2> QED
      BY <2>1, <2>2
  <1>8. CASE e.kind = "Unresolved" /\ ProbeFailed(e.id)
    <2>1. CASE /\ phase.kind = "Probing" /\ phase.id = e.id
               /\ phase' = [phase EXCEPT !.unresolved = TRUE]
               /\ UNCHANGED cycles /\ Flush(requests)
      <3>1. About(phase.id)
        BY <1>6, <1>8, <2>1 DEF Judges
      <3> QED
        BY <1>1, <2>1, <3>1, UnresolvedFollows
    <2>2. CASE Enter(Phase("Failed", phase.url, 0), <<>>) /\ cycles' = CyclesAfter(cycles)
      BY <1>5, <2>2
    <2>3. CASE ~(phase.kind = "Probing" /\ phase.id = e.id) /\ Stay /\ UNCHANGED cycles
      BY <1>4, <2>3 DEF Judges
    <2> QED
      BY <1>8, <2>1, <2>2, <2>3 DEF ProbeFailed
  <1>9. CASE e.kind = "NavigationFailed" /\ NavigationFailed(e.id)
    BY <1>4, <1>5, <1>9 DEF NavigationFailed, Judges
  <1>10. CASE e.kind = "FramePresented" /\ FramePresented(e.id)
    <2>1. CASE phase.kind = "Loading" /\ phase.id = e.id
      <3>1. Enter(Phase("Retiring", NoUrl, phase.id), <<>>) /\ cycles' = cycles
            /\ phase.kind \in Serving
        BY <1>10, <2>1 DEF FramePresented, Serving
      <3> QED
        BY <1>1, <3>1, RetireFollows
    <2>2. CASE ~(phase.kind = "Loading" /\ phase.id = e.id)
      BY <1>4, <1>10, <2>2 DEF FramePresented, Judges
    <2> QED
      BY <2>1, <2>2
  <1> QED
    BY <1>2, <1>7, <1>8, <1>9, <1>10

(* The user, and the deadlines. *)
LEMMA UserFollows ==
  ASSUME IInv, IInv', AnswersKnown, InStep, ProbeStands, User \/ Tick
  PROVE  InStep' /\ ProbeStands'
  <1>1. Idle /\ UNCHANGED uiVars /\ UNCHANGED pageVars /\ inbox' = inbox
    BY DEF User, Submit, Reset, Cancel, DismissFailure, EditUrl, Tick
  <1>2. ASSUME NEW kind \in {"Editing", "Failed"}, NEW url, Enter(Phase(kind, url, 0), <<>>),
               cycles' \in {cycles, CyclesAfter(cycles)}
        PROVE  InStep' /\ ProbeStands'
    <2>1. cycles <= cycles'
      BY <1>2 DEF CyclesAfter, IInv, Types
    <2> QED
      BY <1>1, <1>2, <2>1, LeaveFollows
  <1>3. CASE Submit
    BY <1>3, SubmitFollows
  <1>4. CASE Cancel
    BY <1>2, <1>4 DEF Cancel, Editing
  <1>5. CASE DismissFailure
    BY <1>2, <1>5 DEF DismissFailure, Editing
  <1>6. CASE \E url \in Urls : EditUrl(url)
    BY <1>2, <1>6 DEF EditUrl, Editing
  <1>7. CASE Reset
    <2>1. CASE Enter(Editing(NoUrl), <<>>) /\ UNCHANGED cycles
      BY <1>2, <2>1 DEF Editing
    <2>2. CASE Stay /\ UNCHANGED cycles
      BY <1>1, <2>2, StayKeeps
    <2> QED
      BY <1>7, <2>1, <2>2 DEF Reset
  <1>8. CASE Tick
    <2>1. CASE Enter(Phase("Failed", phase.url, 0), <<>>) /\ cycles' = CyclesAfter(cycles)
      BY <1>2, <2>1
    <2>2. CASE /\ phase.kind = "Retiring" /\ UNCHANGED cycles
               /\ Enter(Phase("Connected", NoUrl, phase.id), <<>>)
      BY <1>1, <2>2, RetireFollows DEF Serving
    <2> QED
      BY <1>8, <2>1, <2>2 DEF Tick
  <1> QED
    BY <1>3, <1>4, <1>5, <1>6, <1>7, <1>8 DEF User

(* The overlay is attached, a request is delivered, or time passes. *)
LEMMA AttachFollows ==
  ASSUME IInv, IInv', InStep, ProbeStands, Attach
  PROVE  InStep' /\ ProbeStands'
  <1>1. /\ Idle /\ UNCHANGED uiVars /\ UNCHANGED pageVars
        /\ taken' = requests /\ requests' = <<>>
        /\ phase' = phase /\ cycles' = cycles /\ inbox' = inbox
    BY DEF Attach
  <1>2. Wanted' = Wanted /\ Latest' = Latest
    BY <1>1 DEF Wanted, Latest, Names
  <1>3. phase.kind = "Probing" => (About(phase.id)' <=> About(phase.id))
    BY <1>1 DEF About, Judges
  <1> QED
    BY <1>1, <1>2, <1>3, StayFollows, StandKept

LEMMA DeliverFollows ==
  ASSUME IInv, IInv', InStep, ProbeStands, Deliver
  PROVE  InStep' /\ ProbeStands'
  <1>1. /\ taken # <<>> /\ ops' = Append(ops, Head(taken)) /\ taken' = Tail(taken)
        /\ UNCHANGED <<phase, cycles, requests, probe, pageVars, inbox>>
    BY DEF Deliver
  <1>2. PICK j \in Slots, k \in Slots :
          /\ Leads(ops, Held, j, Latest)
          /\ Leads(taken, j, k, Latest) /\ Leads(requests, k, Wanted, Latest)
    BY DEF InStep
  <1>3. Held' = Held /\ Wanted' = Wanted /\ Latest' = Latest
    BY <1>1 DEF Held, NavHeld, Wanted, Latest, Names
  <1>4. ops \in Seq(Tasks) /\ taken \in Seq(Tasks)
    BY SeqTypes
  <1> DEFINE x == Head(taken)
  <1>5. x \in Tasks
    BY <1>1, <1>4, TailOf
  <1>6. Allowed(x, j, Latest) /\ Leads(Tail(taken), After(x, j), k, Latest)
    BY <1>1, <1>2, <1>4, LeadsTail
  <1> HIDE DEF x
  <1>7. Leads(Append(ops, x), Held, After(x, j), Latest) /\ After(x, j) \in Slots
    BY <1>2, <1>4, <1>5, <1>6, LeadsAppend, AfterSlots
  <1>8. InStep'
    <2> DEFINE m == After(x, j)
    <2>1. /\ m \in Slots /\ Leads(ops', Held', m, Latest')
          /\ Leads(taken', m, k, Latest') /\ Leads(requests', k, Wanted', Latest')
      BY <1>1, <1>2, <1>3, <1>6, <1>7 DEF x
    <2> HIDE DEF m
    <2> QED
      BY <2>1 DEF InStep
  <1>9. phase.kind = "Probing" => (About(phase.id)' <=> About(phase.id))
    BY <1>1 DEF About, Judges
  <1> QED
    BY <1>1, <1>8, <1>9, StandKept

LEMMA StillFollows ==
  ASSUME InStep, ProbeStands,
         UNCHANGED <<phase, cycles, requests, taken, ops, probe, inbox>>,
         Held' = Held
  PROVE  InStep' /\ ProbeStands'
  <1>1. Wanted' = Wanted /\ Latest' = Latest
    BY DEF Wanted, Latest, Names
  <1>2. InStep'
    BY <1>1 DEF InStep
  <1>3. phase.kind = "Probing" => (About(phase.id)' <=> About(phase.id))
    BY DEF About, Judges
  <1> QED
    BY <1>2, <1>3, StandKept

-----------------------------------------------------------------------------
(* The UI thread: a task changes what is held as After says.               *)

LEMMA PagesNamed ==
  ASSUME IInv
  PROVE  /\ deferred.nav \in Nat /\ painting.nav \in Nat
         /\ browser \in {"none", "creating", "live"}
         /\ Nothing.nav = 0 /\ Blank.nav = 0
         /\ Unpainted.nav = 0 /\ Unpainted.kind = "None"
  BY SlotTypes DEF Nothing, Blank, Page, Unpainted, IInv, Types

(* What is submitted is held. *)
LEMMA SubmittedHolds ==
  ASSUME IInv, PageStands, NEW d, NEW p, Submitted(d, p), browser # "none", browser' = browser,
         p.kind = "None" => p.nav = 0,
         d # Nothing => p.nav \in {0, d.nav},
         browser = "live" /\ d = Blank => d.nav = 0
  PROVE  /\ PageStands'
         /\ NavHeld' = IF d = Nothing THEN p.nav ELSE d.nav
  <1>1. CASE browser = "live" /\ d = Blank /\ d # Nothing
    <2>1. deferred' = Nothing /\ painting' = Unpainted
      BY <1>1 DEF Submitted
    <2> QED
      BY <1>1, <2>1, PagesNamed DEF PageStands, NavHeld
  <1>2. CASE browser = "live" /\ d # Blank /\ d # Nothing
    <2>1. deferred' = Nothing /\ painting' = Awaiting(d.nav, d.base)
      BY <1>2 DEF Submitted
    <2>2. painting'.nav = d.nav /\ painting'.kind # "None"
      BY <2>1 DEF Awaiting
    <2> QED
      BY <1>2, <2>1, <2>2 DEF PageStands, NavHeld
  <1>3. CASE ~(browser = "live" /\ d # Nothing)
    <2>1. deferred' = d /\ painting' = p
      BY <1>3 DEF Submitted
    <2>2. browser = "live" => d = Nothing
      BY <1>3
    <2> QED
      BY <2>1, <2>2 DEF PageStands, NavHeld
  <1> QED
    BY <1>1, <1>2, <1>3

LEMMA NavigateHolds ==
  ASSUME IInv, PageStands, NEW n \in Nat \ {0}, NEW url, NavigateOnUi(n, url), browser' = browser
  PROVE  PageStands' /\ NavHeld' = n
  <1> DEFINE d == Page(n, url)
             p == Awaiting(n, url)
  <1>1. d.nav = n /\ p.nav = n /\ p.kind = "Awaiting"
    BY DEF Page, Awaiting
  <1>2. d # Nothing
    BY <1>1, PagesNamed
  <1>3. CASE browser = "none"
    <2>1. deferred' = d /\ painting' = painting
      BY <1>3 DEF NavigateOnUi
    <2> HIDE DEF d
    <2> QED
      BY <1>1, <1>2, <1>3, <2>1 DEF PageStands, NavHeld
  <1>4. CASE browser # "none"
    <2>1. Submitted(d, p)
      BY <1>4 DEF NavigateOnUi
    <2>2. d # Blank
      BY <1>1, PagesNamed
    <2> HIDE DEF d, p
    <2> QED
      BY <1>1, <1>2, <1>4, <2>1, <2>2, SubmittedHolds
  <1> QED
    BY <1>3, <1>4

LEMMA AbandonHolds ==
  ASSUME IInv, PageStands, NEW n \in Nat \ {0}, AbandonOnUi(n), browser' = browser
  PROVE  PageStands' /\ NavHeld' = IF NavHeld = n THEN 0 ELSE NavHeld
  <1> DEFINE left == IF deferred.nav = n THEN Blank ELSE deferred
             live == painting.nav = n
             d    == IF live /\ left = Nothing THEN Blank ELSE left
             p    == IF live THEN Unpainted ELSE painting
  <1>1. deferred = Nothing => left = Nothing
    BY PagesNamed
  <1>2. left.nav = IF deferred.nav = n THEN 0 ELSE deferred.nav
    BY PagesNamed
  <1>3. CASE browser = "none"
    <2>1. deferred' = left /\ painting' = painting
      BY <1>3 DEF AbandonOnUi
    <2>2. painting.nav = 0
      BY <1>3 DEF PageStands
    <2>3. NavHeld = deferred.nav
      BY <1>3, <2>2, PagesNamed DEF NavHeld
    <2>4. NavHeld' = left.nav
      BY <1>3, <2>1, <2>2, PagesNamed DEF NavHeld
    <2>5. PageStands'
      BY <1>3, <2>1, <2>2 DEF PageStands
    <2> QED
      BY <1>2, <2>3, <2>4, <2>5
  <1>4. CASE browser # "none"
    <2>1. Submitted(d, p)
      BY <1>4, Zenon DEF AbandonOnUi
    <2>2. p.nav = IF live THEN 0 ELSE painting.nav
      BY PagesNamed
    <2>3. p.kind = "None" => p.nav = 0
      BY PagesNamed DEF PageStands
    <2>4. d.nav = left.nav
      BY PagesNamed
    <2>5. d # Nothing => p.nav \in {0, d.nav}
      <3>1. CASE live
        BY <2>2, <3>1
      <3>2. CASE ~live
        <4>1. d = left
          BY <3>2
        <4>2. CASE deferred = Nothing
          BY <1>1, <4>1, <4>2
        <4>3. CASE deferred # Nothing
          <5>1. painting.nav \in {0, deferred.nav}
            BY <4>3 DEF PageStands
          <5> QED
            BY <1>2, <2>2, <2>4, <3>2, <5>1
        <4> QED
          BY <4>2, <4>3
      <3> QED
        BY <3>1, <3>2
    <2>6. d = Blank => d.nav = 0
      BY PagesNamed
    <2>7. (IF d = Nothing THEN p.nav ELSE d.nav) = IF NavHeld = n THEN 0 ELSE NavHeld
      <3>1. CASE deferred = Nothing
        <4>1. NavHeld = painting.nav /\ left = Nothing
          BY <1>1, <3>1 DEF NavHeld
        <4> QED
          BY <2>2, <4>1, PagesNamed
      <3>2. CASE deferred # Nothing
        <4>1. browser # "live" /\ NavHeld = deferred.nav /\ painting.nav \in {0, deferred.nav}
          BY <3>2 DEF PageStands, NavHeld
        <4>2. CASE deferred.nav = n
          <5>1. d.nav = 0 /\ p.nav = 0
            BY <1>2, <2>2, <2>4, <4>1, <4>2
          <5> QED
            BY <4>1, <4>2, <5>1
        <4>3. CASE deferred.nav # n
          <5>1. d = deferred /\ ~live
            BY <3>2, <4>1, <4>3
          <5> QED
            BY <3>2, <4>1, <4>3, <5>1
        <4> QED
          BY <4>2, <4>3
      <3> QED
        BY <3>1, <3>2
    <2> HIDE DEF d, p
    <2> QED
      BY <1>4, <2>1, <2>3, <2>5, <2>6, <2>7, SubmittedHolds
  <1> QED
    BY <1>3, <1>4

(* The next task is run: what it leaves to run leads where it did. *)
LEMMA OpRuns ==
  ASSUME IInv, InStep, ops # <<>>, Held' = After(Head(ops), Held),
         UNCHANGED <<phase, cycles, requests, taken>>,
         \/ ops' = Tail(ops)
         \/ \E x \in Tasks : x.kind = "Start" /\ ops' = Append(Tail(ops), x)
  PROVE  InStep'
  <1>1. PICK j \in Slots, k \in Slots :
          /\ Leads(ops, Held, j, Latest)
          /\ Leads(taken, j, k, Latest) /\ Leads(requests, k, Wanted, Latest)
    BY DEF InStep
  <1>2. Wanted' = Wanted /\ Latest' = Latest
    BY DEF Wanted, Latest, Names
  <1>3. ops \in Seq(Tasks) /\ Tail(ops) \in Seq(Tasks)
    BY SeqTypes, TailOf
  <1>4. Leads(Tail(ops), Held', j, Latest)
    BY <1>1, <1>3, LeadsTail
  <1>5. Leads(ops', Held', j, Latest)
    <2>1. CASE ops' = Tail(ops)
      BY <1>4, <2>1
    <2>2. ASSUME NEW x \in Tasks, x.kind = "Start", ops' = Append(Tail(ops), x)
          PROVE  Leads(ops', Held', j, Latest)
      <3>1. After(x, j) = j /\ Allowed(x, j, Latest)
        BY <2>2 DEF After, Allowed, Slots
      <3> DEFINE rest == Tail(ops)
                 held == Held'
      <3>2. rest \in Seq(Tasks) /\ Leads(rest, held, j, Latest)
        BY <1>3, <1>4
      <3> HIDE DEF rest, held
      <3>3. Leads(Append(rest, x), held, j, Latest)
        <4>1. Leads(Append(rest, x), held, After(x, j), Latest)
          BY <3>1, <3>2, LeadsAppend
        <4> QED
          BY <3>1, <4>1
      <3> QED
        BY <2>2, <3>3 DEF rest, held
    <2> QED
      BY <2>1, <2>2
  <1> QED
    BY <1>1, <1>2, <1>5 DEF InStep

(* The probe that runs answers: the screen that waits for it will hear. *)
LEMMA ProbeAnswers ==
  ASSUME IInv, AnswersKnown, ProbeRuns, probe'.cycle = probe.cycle, probe'.stage = "done",
         NEW e, e.kind \in {"Resolved", "Unresolved"}, e.id = probe.cycle,
         inbox' = Append(inbox, e), UNCHANGED <<phase, cycles>>
  PROVE  AnswersKnown' /\ (ProbeStands => ProbeStands')
  <1>1. \A c : About(c)' <=> About(c) \/ c = probe.cycle
    BY AboutAppend DEF Judges
  <1>2. probe.cycle \in 1 .. cycles
    BY DEF ProbeRuns, IInv, Ids
  <1>3. AnswersKnown'
    BY <1>1, <1>2 DEF AnswersKnown
  <1>4. ~ProbeRuns'
    BY DEF ProbeRuns
  <1>5. ASSUME ProbeStands PROVE ProbeStands'
    <2>1. PICK c : c = phase.id /\ c = phase'.id
      OBVIOUS
    <2>2. About(phase.id)' <=> About(c)'
      BY <2>1 DEF About, Judges
    <2>3. CASE probe.cycle = c
      BY <1>1, <1>4, <2>1, <2>2, <2>3 DEF ProbeStands
    <2>4. CASE probe.cycle # c
      <3>1. phase.kind = "Probing" => ~phase.unresolved /\ ~About(c)
        BY <1>5, <2>1, <2>4 DEF ProbeStands
      <3>2. phase'.kind = "Probing" => ~phase'.unresolved /\ ~About(phase.id)'
        BY <1>1, <2>2, <2>4, <3>1
      <3> QED
        BY <2>1, <2>4, <3>2 DEF ProbeStands
    <2> QED
      BY <2>3, <2>4
  <1> QED
    BY <1>3, <1>5

(* Answers about loads are not about probes. *)
LEMMA AboutKept ==
  ASSUME IInv, UNCHANGED phase,
         inbox' = inbox \/ \E e : inbox' = Append(inbox, e) /\ e.kind \notin {"Resolved", "Unresolved"}
  PROVE  /\ \A c : About(c)' <=> About(c)
         /\ About(phase.id)' <=> About(phase.id)
  <1>1. ASSUME NEW c PROVE About(c)' <=> About(c)
    <2>1. CASE inbox' = inbox
      BY <2>1 DEF About, Judges
    <2>2. CASE \E e : inbox' = Append(inbox, e) /\ e.kind \notin {"Resolved", "Unresolved"}
      <3>1. PICK e : inbox' = Append(inbox, e) /\ e.kind \notin {"Resolved", "Unresolved"}
        BY <2>2
      <3>2. ~Judges(e, c)
        BY <3>1 DEF Judges
      <3> QED
        BY <3>1, <3>2, AboutAppend
    <2> QED
      BY <2>1, <2>2
  <1>2. PICK c : c = phase.id
    OBVIOUS
  <1>3. (About(phase.id)' <=> About(c)') /\ (About(phase.id) <=> About(c))
    BY <1>2 DEF About, Judges
  <1> QED
    BY <1>1, <1>3

LEMMA StandsFor ==
  ASSUME IInv, AnswersKnown, UNCHANGED <<phase, cycles>>,
         \A c : About(c)' <=> About(c), About(phase.id)' <=> About(phase.id),
         probe'.cycle \in 0 .. cycles
  PROVE  /\ AnswersKnown'
         /\ ProbeStands /\ probe'.cycle = probe.cycle /\ (ProbeRuns' <=> ProbeRuns) => ProbeStands'
  BY DEF AnswersKnown, ProbeStands

(* No task touches the probe the screen waits for. *)
LEMMA ProbeUntouched ==
  ASSUME IInv, InStep, ProbeStands, ops # <<>>, Head(ops).kind \in {"Probe", "CancelProbe"},
         phase.kind = "Probing"
  PROVE  probe.cycle # phase.id /\ ~phase.unresolved /\ ~About(phase.id)
  <1>1. PICK j : Leads(ops, Held, j, Latest)
    BY DEF InStep
  <1>2. Allowed(Head(ops), Held, Latest)
    BY <1>1, SeqTypes, LeadsTail
  <1>3. Held.probe = probe.cycle /\ Latest = phase.id
    BY DEF Held, Latest
  <1>4. probe.cycle < phase.id
    BY <1>2, <1>3 DEF Allowed
  <1>5. probe.cycle # phase.id
    BY <1>4 DEF IInv, Types
  <1> QED
    BY <1>5 DEF ProbeStands

LEMMA RunOpFollows ==
  ASSUME IInv, PageStands, AnswersKnown, RunOp
  PROVE  /\ PageStands' /\ AnswersKnown'
         /\ InStep /\ ProbeStands => InStep' /\ ProbeStands'
  <1> DEFINE op == Head(ops)
  <1>1. /\ ops # <<>> /\ UNCHANGED <<phase, cycles, requests, taken, browser>>
        /\ op \in KnownTasks
    BY TailOf DEF RunOp, IInv, Ids
  <1>2. \/ /\ op.kind = "Probe"
           /\ probe' = [cycle |-> op.id, stage |-> "posted", base |-> NoUrl]
           /\ ops' = Append(Tail(ops), Request("Start", op.id, op.url))
           /\ UNCHANGED <<deferred, painting, inbox>>
        \/ /\ op.kind = "Start" /\ StartProbe(op.id)
           /\ ops' = Tail(ops) /\ UNCHANGED <<deferred, painting>>
        \/ /\ op.kind = "CancelProbe"
           /\ probe' = NoProbe /\ ops' = Tail(ops)
           /\ UNCHANGED <<deferred, painting, inbox>>
        \/ /\ op.kind = "Navigate" /\ NavigateOnUi(op.id, op.url)
           /\ ops' = Tail(ops) /\ UNCHANGED <<probe, inbox>>
        \/ /\ op.kind = "Abandon" /\ AbandonOnUi(op.id)
           /\ ops' = Tail(ops) /\ UNCHANGED <<probe, inbox>>
    BY DEF RunOp
  <1>3. Held = [probe |-> probe.cycle, nav |-> NavHeld]
        /\ Held' = [probe |-> probe'.cycle, nav |-> NavHeld']
    BY DEF Held
  <1>4. cycles \in Nat /\ navigations \in Nat /\ probe.cycle \in 0 .. cycles
    BY DEF AnswersKnown, IInv, Types
  <1>5. ASSUME UNCHANGED <<deferred, painting>> PROVE PageStands' /\ NavHeld' = NavHeld
    BY <1>1, <1>5 DEF PageStands, NavHeld
  <1>6. ASSUME inbox' = inbox
        PROVE  (\A c : About(c)' <=> About(c)) /\ (About(phase.id)' <=> About(phase.id))
    BY <1>1, <1>6, AboutKept
  <1>7. ASSUME Held' = After(op, Held), ops' = Tail(ops), InStep PROVE InStep'
    BY <1>1, <1>7, OpRuns
  <1>8. InStep /\ ProbeStands /\ op.kind \in {"Probe", "CancelProbe"} /\ phase.kind = "Probing" =>
          ~phase.unresolved /\ ~About(phase.id)
    BY <1>1, ProbeUntouched
  <1> HIDE DEF op
  <1>9. CASE /\ op.kind = "Probe"
             /\ probe' = [cycle |-> op.id, stage |-> "posted", base |-> NoUrl]
             /\ ops' = Append(Tail(ops), Request("Start", op.id, op.url))
             /\ UNCHANGED <<deferred, painting, inbox>>
    <2>1. op.id \in 1 .. cycles /\ op.url \in Urls
      BY <1>1, <1>9 DEF KnownTasks, Known
    <2>2. op.id \in 0 .. cycles /\ Request("Start", op.id, op.url) \in Tasks
          /\ Request("Start", op.id, op.url).kind = "Start"
      BY <1>4, <2>1 DEF Request, Tasks, Requests
    <2>3. Held' = After(op, Held)
      BY <1>3, <1>5, <1>9 DEF After
    <2>4. InStep => InStep'
      BY <1>1, <1>9, <2>2, <2>3, OpRuns DEF op
    <2>5. AnswersKnown'
      BY <1>1, <1>6, <1>9, <2>2 DEF AnswersKnown
    <2>6. InStep /\ ProbeStands => ProbeStands'
      <3>1. ProbeRuns'
        BY <1>9 DEF ProbeRuns
      <3> QED
        BY <1>1, <1>6, <1>8, <1>9, <3>1 DEF ProbeStands
    <2> QED
      BY <1>5, <1>9, <2>4, <2>5, <2>6
  <1>10. CASE /\ op.kind = "CancelProbe" /\ probe' = NoProbe /\ ops' = Tail(ops)
              /\ UNCHANGED <<deferred, painting, inbox>>
    <2>1. Held' = After(op, Held)
      BY <1>3, <1>5, <1>10 DEF After, NoProbe
    <2>2. AnswersKnown'
      BY <1>1, <1>4, <1>6, <1>10 DEF AnswersKnown, NoProbe
    <2>3. InStep /\ ProbeStands => ProbeStands'
      <3>1. phase.kind = "Probing" => probe'.cycle # phase.id
        BY <1>10 DEF NoProbe, IInv, Types, Ids
      <3> QED
        BY <1>1, <1>6, <1>8, <1>10, <3>1 DEF ProbeStands
    <2> QED
      BY <1>5, <1>7, <1>10, <2>1, <2>2, <2>3
  <1>11. CASE /\ op.kind = "Start" /\ StartProbe(op.id)
              /\ ops' = Tail(ops) /\ UNCHANGED <<deferred, painting>>
    <2>1. \/ probe' = probe /\ inbox' = inbox
          \/ /\ probe.stage = "posted" /\ probe' = [probe EXCEPT !.stage = "head"]
             /\ inbox' = inbox
          \/ /\ probe.stage = "posted" /\ probe' = [probe EXCEPT !.stage = "done"]
             /\ probe.cycle = op.id /\ inbox' = Append(inbox, Event("Unresolved", op.id, NoUrl))
      BY <1>11 DEF StartProbe, Report
    <2>2. probe'.cycle = probe.cycle
      BY <2>1 DEF IInv, Types
    <2>3. Held' = After(op, Held)
      BY <1>3, <1>5, <1>11, <2>2 DEF After
    <2>4. AnswersKnown' /\ (ProbeStands => ProbeStands')
      <3>1. CASE probe' = probe /\ inbox' = inbox
        BY <1>1, <1>4, <1>6, <3>1, StandsFor DEF ProbeRuns
      <3>2. CASE /\ probe.stage = "posted" /\ probe' = [probe EXCEPT !.stage = "head"]
                 /\ inbox' = inbox
        <4>1. ProbeRuns /\ ProbeRuns'
          BY <3>2 DEF ProbeRuns, IInv, Types
        <4> QED
          BY <1>1, <1>4, <1>6, <2>2, <3>2, <4>1, StandsFor
      <3>3. CASE /\ probe.stage = "posted" /\ probe' = [probe EXCEPT !.stage = "done"]
                 /\ probe.cycle = op.id
                 /\ inbox' = Append(inbox, Event("Unresolved", op.id, NoUrl))
        <4> DEFINE e == Event("Unresolved", op.id, NoUrl)
        <4>1. e.kind = "Unresolved" /\ e.id = probe.cycle
          BY <3>3 DEF Event
        <4>2. ProbeRuns /\ probe'.stage = "done"
          BY <3>3 DEF ProbeRuns, IInv, Types
        <4> HIDE DEF e
        <4> QED
          BY <1>1, <2>2, <3>3, <4>1, <4>2, ProbeAnswers DEF e
      <3> QED
        BY <2>1, <3>1, <3>2, <3>3
    <2> QED
      BY <1>5, <1>7, <1>11, <2>3, <2>4
  <1>12. CASE /\ op.kind = "Navigate" /\ NavigateOnUi(op.id, op.url)
              /\ ops' = Tail(ops) /\ UNCHANGED <<probe, inbox>>
    <2>1. op.id \in Nat \ {0}
      BY <1>1, <1>4, <1>12 DEF KnownTasks, Known
    <2>2. PageStands' /\ NavHeld' = op.id
      BY <1>1, <1>12, <2>1, NavigateHolds
    <2>3. Held' = After(op, Held)
      BY <1>3, <1>12, <2>2 DEF After
    <2>4. AnswersKnown' /\ (ProbeStands => ProbeStands')
      BY <1>1, <1>4, <1>6, <1>12, StandsFor DEF ProbeRuns
    <2> QED
      BY <1>7, <1>12, <2>2, <2>3, <2>4
  <1>13. CASE /\ op.kind = "Abandon" /\ AbandonOnUi(op.id)
              /\ ops' = Tail(ops) /\ UNCHANGED <<probe, inbox>>
    <2>1. op.id \in Nat \ {0}
      BY <1>1, <1>13 DEF KnownTasks, Known
    <2>2. PageStands' /\ NavHeld' = IF NavHeld = op.id THEN 0 ELSE NavHeld
      BY <1>1, <1>13, <2>1, AbandonHolds
    <2>3. Held' = After(op, Held)
      BY <1>3, <1>13, <2>2 DEF After
    <2>4. AnswersKnown' /\ (ProbeStands => ProbeStands')
      BY <1>1, <1>4, <1>6, <1>13, StandsFor DEF ProbeRuns
    <2> QED
      BY <1>7, <1>13, <2>2, <2>3, <2>4
  <1> QED
    BY <1>2, <1>9, <1>10, <1>11, <1>12, <1>13

(* The requests of the probe end. *)
LEMMA RequestsFollow ==
  ASSUME IInv, PageStands, AnswersKnown, HeadCompletes \/ GetCompletes
  PROVE  /\ PageStands' /\ AnswersKnown'
         /\ InStep /\ ProbeStands => InStep' /\ ProbeStands'
  <1>1. /\ UNCHANGED <<phase, cycles, requests, taken, ops>> /\ UNCHANGED pageVars /\ ProbeRuns
        /\ \/ probe'.cycle = probe.cycle /\ probe'.stage = "get" /\ inbox' = inbox
           \/ /\ probe'.cycle = probe.cycle /\ probe'.stage = "done"
              /\ \E e : /\ inbox' = Append(inbox, e) /\ e.id = probe.cycle
                        /\ e.kind \in {"Resolved", "Unresolved"}
    <2>1. ProbeRuns /\ UNCHANGED <<phase, cycles, requests, taken, ops>> /\ UNCHANGED pageVars
      BY DEF HeadCompletes, GetCompletes, ProbeRuns
    <2>2. \/ \E base \in Servers : probe' = [probe EXCEPT !.stage = "get", !.base = base]
                                   /\ inbox' = inbox
          \/ /\ probe' = [probe EXCEPT !.stage = "done"]
             /\ \E kind \in {"Resolved", "Unresolved"} : \E url :
                  inbox' = Append(inbox, Event(kind, probe.cycle, url))
      BY DEF HeadCompletes, GetCompletes, Report
    <2>3. CASE \E base \in Servers : probe' = [probe EXCEPT !.stage = "get", !.base = base]
                                     /\ inbox' = inbox
      BY <2>1, <2>3 DEF IInv, Types
    <2>4. CASE /\ probe' = [probe EXCEPT !.stage = "done"]
               /\ \E kind \in {"Resolved", "Unresolved"} : \E url :
                    inbox' = Append(inbox, Event(kind, probe.cycle, url))
      <3>0. PICK kind \in {"Resolved", "Unresolved"} :
              \E url : inbox' = Append(inbox, Event(kind, probe.cycle, url))
        BY <2>4
      <3>1. PICK url : inbox' = Append(inbox, Event(kind, probe.cycle, url))
        BY <3>0
      <3> DEFINE e == Event(kind, probe.cycle, url)
      <3>2. e.kind \in {"Resolved", "Unresolved"} /\ e.id = probe.cycle
        BY DEF Event
      <3>3. probe'.cycle = probe.cycle /\ probe'.stage = "done"
        BY <2>4 DEF IInv, Types
      <3> HIDE DEF e
      <3> QED
        BY <2>1, <3>1, <3>2, <3>3 DEF e
    <2> QED
      BY <2>2, <2>3, <2>4
  <1>2. PageStands' /\ Held' = Held
    BY <1>1 DEF PageStands, Held, NavHeld
  <1>3. InStep => InStep'
    <2>1. Wanted' = Wanted /\ Latest' = Latest
      BY <1>1 DEF Wanted, Latest, Names
    <2> QED
      BY <1>1, <1>2, <2>1 DEF InStep
  <1>4. CASE probe'.cycle = probe.cycle /\ probe'.stage = "get" /\ inbox' = inbox
    <2>1. (\A c : About(c)' <=> About(c)) /\ (About(phase.id)' <=> About(phase.id))
      BY <1>1, <1>4, AboutKept
    <2>2. ProbeRuns' /\ probe'.cycle \in 0 .. cycles
      BY <1>4 DEF ProbeRuns, AnswersKnown
    <2> QED
      BY <1>1, <1>2, <1>3, <1>4, <2>1, <2>2, StandsFor
  <1>5. CASE /\ probe'.cycle = probe.cycle /\ probe'.stage = "done"
             /\ \E e : /\ inbox' = Append(inbox, e) /\ e.id = probe.cycle
                       /\ e.kind \in {"Resolved", "Unresolved"}
    BY <1>1, <1>2, <1>3, <1>5, ProbeAnswers
  <1> QED
    BY <1>1, <1>4, <1>5

(* The browser: what it holds stays, whatever happens to it. *)
LEMMA BrowserHolds ==
  ASSUME IInv, PageStands,
         EnsureBrowser \/ AfterCreated \/ BeforeClose \/ Commit \/ LoadEnd \/ LoadError \/ Paint
  PROVE  PageStands' /\ NavHeld' = NavHeld
  <1>1. CASE EnsureBrowser
    BY <1>1 DEF EnsureBrowser, PageStands, NavHeld
  <1>2. CASE AfterCreated
    <2>1. browser = "creating" /\ browser' = "live"
      BY <1>2 DEF AfterCreated
    <2>2. CASE deferred = Nothing
      BY <1>2, <2>1, <2>2 DEF AfterCreated, PageStands, NavHeld
    <2>3. CASE deferred # Nothing /\ deferred = Blank
      <3>1. deferred' = Nothing /\ painting' = Unpainted
        BY <1>2, <2>3 DEF AfterCreated
      <3> QED
        BY <2>1, <2>3, <3>1, PagesNamed DEF PageStands, NavHeld
    <2>4. CASE deferred # Nothing /\ deferred # Blank
      <3>1. deferred' = Nothing /\ painting' = Awaiting(deferred.nav, deferred.base)
        BY <1>2, <2>4 DEF AfterCreated
      <3>2. painting'.nav = deferred.nav /\ painting'.kind # "None"
        BY <3>1 DEF Awaiting
      <3> QED
        BY <2>1, <2>4, <3>1, <3>2 DEF PageStands, NavHeld
    <2> QED
      BY <2>2, <2>3, <2>4
  <1>3. CASE BeforeClose
    BY <1>3 DEF BeforeClose, PageStands, NavHeld
  <1>4. CASE Commit \/ LoadError
    BY <1>4 DEF Commit, LoadError, PageStands, NavHeld
  <1>5. CASE LoadEnd \/ Paint
    <2>1. /\ UNCHANGED <<browser, deferred>> /\ painting'.nav = painting.nav
          /\ painting'.kind = "None" <=> painting.kind = "None"
      BY <1>5 DEF LoadEnd, Paint, IInv, Types
    <2> QED
      BY <2>1 DEF PageStands, NavHeld
  <1> QED
    BY <1>1, <1>2, <1>3, <1>4, <1>5

LEMMA BrowserFollows ==
  ASSUME IInv, PageStands, AnswersKnown,
         EnsureBrowser \/ AfterCreated \/ BeforeClose \/ Commit \/ LoadEnd \/ LoadError \/ Paint
  PROVE  /\ PageStands' /\ AnswersKnown'
         /\ InStep /\ ProbeStands => InStep' /\ ProbeStands'
  <1>1. UNCHANGED <<phase, cycles, requests, taken, ops, probe>>
    BY DEF EnsureBrowser, AfterCreated, BeforeClose, Commit, LoadEnd, LoadError, Paint
  <1>2. inbox' = inbox \/ \E e : inbox' = Append(inbox, e) /\ e.kind \notin {"Resolved", "Unresolved"}
    <2>1. \/ inbox' = inbox
          \/ \E kind \in {"NavigationFailed", "FramePresented"} : \E id, url :
               inbox' = Append(inbox, Event(kind, id, url))
      BY DEF EnsureBrowser, AfterCreated, BeforeClose, Commit, LoadEnd, LoadError, Paint, Report
    <2>2. ASSUME NEW kind \in {"NavigationFailed", "FramePresented"}, NEW id, NEW url
          PROVE  Event(kind, id, url).kind \notin {"Resolved", "Unresolved"}
      BY DEF Event
    <2> QED
      BY <2>1, <2>2
  <1>3. (\A c : About(c)' <=> About(c)) /\ (About(phase.id)' <=> About(phase.id))
    BY <1>1, <1>2, AboutKept
  <1>4. PageStands' /\ Held' = Held
    BY <1>1, BrowserHolds DEF Held, NavHeld
  <1>5. AnswersKnown' /\ (ProbeStands => ProbeStands')
    BY <1>1, <1>3, StandsFor DEF AnswersKnown, ProbeRuns
  <1>6. InStep => InStep'
    <2>1. Wanted' = Wanted /\ Latest' = Latest
      BY <1>1 DEF Wanted, Latest, Names
    <2> QED
      BY <1>1, <1>4, <2>1 DEF InStep
  <1> QED
    BY <1>4, <1>5, <1>6

-----------------------------------------------------------------------------
(* All of it.                                                              *)

LEMMA InitAgrees == Init => Agreement
  <1> SUFFICES ASSUME Init PROVE Agreement
    OBVIOUS
  <1>1. IInv
    BY InitInv
  <1>2. PageStands
    BY DEF Init, PageStands, Unpainted
  <1>3. \A c : ~About(c)
    <2>1. Len(inbox) = 0
      BY DEF Init
    <2> QED
      BY <2>1 DEF About
  <1>4. probe.cycle = 0 /\ cycles \in {0, 1}
    BY DEF Init, NoProbe
  <1>5. AnswersKnown
    BY <1>3, <1>4 DEF AnswersKnown
  <1>6. ProbeStands
    <2>1. ~About(phase.id)
      BY <1>3
    <2> QED
      BY <1>4, <2>1 DEF ProbeStands, Init, Phase, Editing
  <1>7. InStep
    <2> DEFINE none == [probe |-> 0, nav |-> 0]
    <2>1. Held = none /\ none \in Slots
      BY DEF Init, Held, NavHeld, Slots, NoProbe, Unpainted
    <2>2. ops = <<>> /\ taken = <<>>
      BY DEF Init
    <2>3. Leads(requests, none, Wanted, Latest)
      <3>1. CASE saved = NoUrl
        <4>1. requests = <<>> /\ phase = Editing(NoUrl)
          BY <3>1 DEF Init
        <4>2. Wanted = none
          BY <4>1 DEF Wanted, Editing, Phase, Names, Serving
        <4> HIDE DEF none
        <4> QED
          BY <2>1, <4>1, <4>2, LeadsNil
      <3>2. CASE saved # NoUrl
        <4> DEFINE ask == Request("Probe", 1, saved)
        <4>1. requests = <<ask>> /\ phase = Phase("Probing", saved, 1) /\ saved \in Urls
          BY <3>2 DEF Init
        <4>2. After(ask, none) = Wanted /\ Allowed(ask, none, Latest) /\ ask \in Tasks
          BY <4>1 DEF After, Request, Wanted, Phase, Names, Serving, Allowed, Latest, Tasks, Requests
        <4> HIDE DEF none, ask
        <4> QED
          BY <2>1, <4>1, <4>2, LeadsOne
      <3> QED
        BY <3>1, <3>2
    <2> HIDE DEF none
    <2>4. Leads(<<>>, none, none, Latest)
      BY <2>1, LeadsNil
    <2> QED
      BY <2>1, <2>2, <2>3, <2>4 DEF InStep
  <1> QED
    BY <1>2, <1>5, <1>6, <1>7 DEF Agreement

(* Steps that leave the browser, the probe and the cycles' answers. *)
LEMMA ActorAnswers ==
  ASSUME IInv, IInv', PageStands, AnswersKnown,
         Attach \/ User \/ TimePasses \/ Tick \/ Absorb \/ Deliver \/ Refused
  PROVE  PageStands' /\ AnswersKnown'
  <1>1. /\ UNCHANGED pageVars /\ probe' = probe
        /\ inbox' = inbox \/ (inbox # <<>> /\ inbox' = Tail(inbox))
    BY DEF Attach, User, Submit, Reset, Cancel, DismissFailure, EditUrl, TimePasses, Tick, Absorb,
           Deliver, Refused
  <1>2. \A c : About(c)' => About(c)
    <2>1. CASE inbox' = inbox
      BY <2>1 DEF About, Judges
    <2>2. CASE inbox # <<>> /\ inbox' = Tail(inbox)
      BY <2>2, AboutTail
    <2> QED
      BY <1>1, <2>1, <2>2
  <1>3. cycles <= cycles'
    <2>1. cycles' \in {cycles, cycles + 1}
      BY DEF Attach, User, Submit, ConnectTo, Reset, Cancel, DismissFailure, EditUrl, TimePasses,
             Tick, Absorb, ProbeResolved, Navigate, ProbeFailed, NavigationFailed, FramePresented,
             Deliver, Refused, CyclesAfter
    <2> QED
      BY <2>1 DEF IInv, Types
  <1>4. 0 .. cycles \subseteq 0 .. cycles' /\ 1 .. cycles \subseteq 1 .. cycles'
    <2>1. cycles \in Nat /\ cycles' \in Nat
      BY DEF IInv, Types
    <2> QED
      BY <1>3, <2>1
  <1> QED
    BY <1>1, <1>2, <1>4 DEF PageStands, AnswersKnown

LEMMA NextAgrees == IInv /\ IInv' /\ Agreement /\ [Next]_vars => Agreement'
  <1> SUFFICES ASSUME IInv, IInv', Agreement, [Next]_vars PROVE Agreement'
    OBVIOUS
  <1>1. PageStands /\ AnswersKnown
    BY DEF Agreement
  <1>2. ASSUME Going' => Going, PageStands', AnswersKnown',
               InStep /\ ProbeStands => InStep' /\ ProbeStands'
        PROVE  Agreement'
    BY <1>2 DEF Agreement
  <1>3. CASE Attach \/ User \/ TimePasses \/ Tick \/ Absorb \/ Deliver
    <2>1. PageStands' /\ AnswersKnown'
      BY <1>1, <1>3, ActorAnswers
    <2>2. Going' => Going
      BY <1>3 DEF Going, Attach, User, Submit, Reset, Cancel, DismissFailure, EditUrl, TimePasses,
                  Tick, Absorb, Deliver
    <2>3. ASSUME InStep, ProbeStands PROVE InStep' /\ ProbeStands'
      <3>1. CASE TimePasses
        <4>1. UNCHANGED <<phase, cycles, requests, taken, ops, probe, inbox>> /\ Held' = Held
          BY <3>1 DEF TimePasses, Held, NavHeld
        <4> QED
          BY <2>3, <4>1, StillFollows
      <3> QED
        BY <1>1, <1>3, <2>3, <3>1, AttachFollows, UserFollows, AbsorbFollows, DeliverFollows
    <2> QED
      BY <1>2, <2>1, <2>2, <2>3
  <1>4. CASE Refused
    <2>1. PageStands' /\ AnswersKnown'
      BY <1>1, <1>4, ActorAnswers
    <2>2. ~Going'
      BY <1>4 DEF Refused, Going
    <2> QED
      BY <2>1, <2>2 DEF Agreement
  <1>5. CASE MarkReady \/ UNCHANGED vars
    <2>1. /\ UNCHANGED <<phase, cycles, requests, taken, ops, probe, inbox>> /\ UNCHANGED pageVars
          /\ Going' => Going
      BY <1>5 DEF MarkReady, vars, Going
    <2>2. Held' = Held /\ PageStands' /\ AnswersKnown'
      BY <1>1, <2>1 DEF Held, NavHeld, PageStands, AnswersKnown, About, Judges
    <2> QED
      BY <1>2, <2>1, <2>2, StillFollows
  <1>6. CASE StopSession
    <2>1. ~Going' /\ UNCHANGED pageVars /\ UNCHANGED <<inbox, cycles>> /\ probe'.cycle = 0
      BY <1>6 DEF StopSession, Going, NoProbe
    <2>2. PageStands'
      BY <1>1, <2>1 DEF PageStands
    <2>3. AnswersKnown'
      <3>1. 0 \in 0 .. cycles
        BY DEF IInv, Types
      <3> QED
        BY <1>1, <2>1, <3>1 DEF AnswersKnown, About, Judges
    <2> QED
      BY <2>1, <2>2, <2>3 DEF Agreement
  <1>7. CASE RunOp \/ HeadCompletes \/ GetCompletes
    <2>1. Going' => Going
      BY <1>7 DEF RunOp, HeadCompletes, GetCompletes, Going
    <2> QED
      BY <1>1, <1>2, <1>7, <2>1, RunOpFollows, RequestsFollow
  <1>8. CASE EnsureBrowser \/ AfterCreated \/ BeforeClose \/ Commit \/ LoadEnd \/ LoadError \/ Paint
    <2>1. Going' => Going
      BY <1>8 DEF EnsureBrowser, AfterCreated, BeforeClose, Commit, LoadEnd, LoadError, Paint, Going
    <2> QED
      BY <1>1, <1>2, <1>8, <2>1, BrowserFollows
  <1> QED
    BY <1>3, <1>4, <1>5, <1>6, <1>7, <1>8 DEF Next

LEMMA AgreementQuiet == IInv /\ Agreement => QuietAgreement
  <1> SUFFICES ASSUME IInv, Agreement, Quiet
               PROVE  /\ phase.kind = "Probing" /\ ~phase.unresolved <=> ProbeRuns
                      /\ ProbeRuns => probe.cycle = phase.id
                      /\ Names(phase) # 0 =>
                           painting.nav = Names(phase) \/ deferred.nav = Names(phase)
                      /\ Names(phase) = 0 => painting.nav = 0 /\ deferred.nav = 0
    BY DEF QuietAgreement
  <1>1. PageStands /\ AnswersKnown /\ ProbeStands /\ InStep
    BY DEF Quiet, Agreement, Going
  <1>2. requests = <<>> /\ taken = <<>> /\ ops = <<>> /\ inbox = <<>>
    BY DEF Quiet
  <1>3. \A c : ~About(c)
    <2>1. Len(inbox) = 0
      BY <1>2
    <2> QED
      BY <2>1 DEF About
  <1>4. Held = Wanted
    <2>1. PICK j \in Slots, k \in Slots :
            Leads(<<>>, Held, j, Latest) /\ Leads(<<>>, j, k, Latest) /\ Leads(<<>>, k, Wanted, Latest)
      BY <1>1, <1>2 DEF InStep
    <2>2. Held \in Slots
      BY SlotTypes
    <2> QED
      BY <2>1, <2>2, LeadsNil
  <1>5. /\ probe.cycle = IF phase.kind = "Probing" THEN phase.id ELSE 0
        /\ NavHeld = Names(phase)
    <2>1. Held.probe = Wanted.probe /\ Held.nav = Wanted.nav
      BY <1>4
    <2> QED
      BY <2>1 DEF Held, Wanted, NavHeld
  <1>6. /\ phase.kind = "Probing" /\ ~phase.unresolved <=> ProbeRuns
        /\ ProbeRuns => probe.cycle = phase.id
    <2>1. ProbeRuns => probe.cycle # 0
      BY DEF ProbeRuns, IInv, Types, Ids
    <2>2. CASE phase.kind = "Probing"
      <3>1. ~About(phase.id)
        BY <1>3
      <3> QED
        BY <1>1, <1>5, <2>2, <3>1 DEF ProbeStands
    <2>3. CASE phase.kind # "Probing"
      BY <1>5, <2>1, <2>3
    <2> QED
      BY <2>2, <2>3
  <1>7. /\ painting.nav = NavHeld \/ deferred.nav = NavHeld
        /\ NavHeld = 0 => painting.nav = 0 /\ deferred.nav = 0
    BY <1>1, PagesNamed DEF NavHeld, PageStands
  <1> QED
    BY <1>5, <1>6, <1>7

(* When nothing is on its way, a probe runs exactly while the screen waits *)
(* for it, and the browser paints or is to load the navigation the screen  *)
(* names, and none that it has left.                                       *)
THEOREM QuietScreensAgree == Spec => []QuietAgreement
  BY InitAgrees, NextAgrees, AgreementQuiet, Invariant, PTL DEF Spec

=============================================================================
