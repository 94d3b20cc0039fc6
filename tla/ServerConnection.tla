-------------------------- MODULE ServerConnection --------------------------
(***************************************************************************)
(* The way to a server: the connection of connection.rs on the shell       *)
(* actor's thread, the operations it posts to the CEF UI thread through    *)
(* the readiness queue (web_overlay.rs, ready.rs), the probe that runs     *)
(* there (server_probe.rs), the browser with its deferred navigation and   *)
(* its painting (client.rs), and the answers that come back through the    *)
(* actor's channel.  The network, the pages and CEF itself are external.   *)
(*                                                                         *)
(* A url is the base it stands for.  The spinner floor and the fade are    *)
(* one flag that time raises.  A session that was revoked does nothing and *)
(* answers nothing, so what is queued for it is dropped at once.           *)
(***************************************************************************)
EXTENDS Naturals, Sequences

CONSTANTS
  Servers,        \* bases that a probe may resolve to
  NoUrl,          \* the empty url
  MaxCycles,      \* bound on probe cycles
  MaxRecreations, \* bound on browsers that close by themselves
  MayReject       \* CEF may reject a task it is posted

ASSUME ConnectionConstants ==
  /\ NoUrl \notin Servers
  /\ MaxCycles \in Nat /\ MaxRecreations \in Nat
  /\ MayReject \in BOOLEAN

Urls == Servers \cup {NoUrl}

VARIABLES
  phase,       \* Connection.phase
  elapsed,     \* its spinner floor or its fade is over
  cycles, navigations,   \* the counters ids are taken from
  requests,    \* requests not yet flushed
  taken,       \* requests the running flush has taken
  attached,    \* the overlay is attached
  saved,       \* the saved server url
  shutdown,    \* a failed delivery has initiated shutdown
  inbox,       \* web events on their way to the actor
  session,     \* readiness: "pending", "ready", and "stopped" once revoked
  ops,         \* operations and tasks accepted for the CEF UI thread
  probe,       \* the probe slot
  browser,     \* "none", "creating", "live"
  deferred,    \* the navigation no main frame has taken yet
  painting,    \* which navigation the pixels belong to
  loading,     \* the load the browser was given and has not committed
  document,    \* the document it shows
  loaded,      \* that document has finished loading
  recreations, \* how many browsers closed by themselves
  orphaned,    \* the navigation the painting names went with its browser
  verdicts     \* history: every verdict that was sent or raised

actorVars   == <<phase, elapsed, cycles, navigations, requests, taken, saved, shutdown>>
uiVars      == <<probe, ops>>
pageVars    == <<browser, deferred, painting, loading, document, loaded, recreations, orphaned>>
sessionVars == <<attached, session>>
vars == <<actorVars, uiVars, pageVars, sessionVars, inbox, verdicts>>

Request(kind, id, url) == [kind |-> kind, id |-> id, url |-> url]
Event(kind, id, url)   == [kind |-> kind, id |-> id, url |-> url]

Phase(kind, url, id) == [kind |-> kind, url |-> url, id |-> id, unresolved |-> FALSE]
Editing(url)  == Phase("Editing", url, 0)
Serving       == {"Loading", "Retiring", "Connected"}
Names(p)      == IF p.kind \in Serving THEN p.id ELSE 0

Page(n, base) == [nav |-> n, base |-> base]
Nothing       == Page(0, NoUrl)          \* no load at all
Blank         == [nav |-> 0, base |-> "blank"]
NoProbe       == [cycle |-> 0, stage |-> "none", base |-> NoUrl]
Unpainted     == [kind |-> "None", nav |-> 0, base |-> NoUrl, presented |-> FALSE]
Awaiting(n, base) == [kind |-> "Awaiting", nav |-> n, base |-> base, presented |-> FALSE]

-----------------------------------------------------------------------------
(* The connection, on the actor's thread.                                  *)

(* flush_requests takes what there is, once an overlay is attached. *)
Flush(reqs) ==
  IF attached THEN taken' = reqs /\ requests' = <<>>
              ELSE taken' = <<>> /\ requests' = reqs

(* Mutant of Leaving: the probe is left to itself. *)
LeavingTheProbe(next) ==
  IF Names(phase) # 0 /\ Names(next) # Names(phase)
    THEN <<Request("Abandon", Names(phase), NoUrl)>> ELSE <<>>

(* enter: what leaving the old phase for the next one asks for. *)
Leaving(next) ==
  (IF phase.kind = "Probing" THEN <<Request("CancelProbe", 0, NoUrl)>> ELSE <<>>)
  \o (IF Names(phase) # 0 /\ Names(next) # Names(phase)
        THEN <<Request("Abandon", Names(phase), NoUrl)>> ELSE <<>>)
CyclesAfter(c) == IF phase.kind = "Probing" THEN c + 1 ELSE c

(* Entering a phase from a handler that flushes afterwards. *)
Enter(next, then) ==
  /\ phase' = next /\ elapsed' = FALSE
  /\ Flush(requests \o Leaving(next) \o then)

Stay == UNCHANGED <<phase, elapsed>> /\ Flush(requests)

ConnectTo(url) ==
  LET c == cycles + 1 IN
  IF url = NoUrl
    THEN /\ Enter(Editing(url), <<>>) /\ cycles' = CyclesAfter(cycles)
    ELSE /\ Enter(Phase("Probing", url, c), <<Request("Probe", c, url)>>)
         /\ cycles' = CyclesAfter(c)

Idle == taken = <<>>

Init ==
  /\ saved \in Urls
  /\ phase = IF saved = NoUrl THEN Editing(NoUrl) ELSE Phase("Probing", saved, 1)
  /\ cycles = (IF saved = NoUrl THEN 0 ELSE 1) /\ navigations = 0 /\ elapsed = FALSE
  /\ requests = (IF saved = NoUrl THEN <<>> ELSE <<Request("Probe", 1, saved)>>)
  /\ taken = <<>> /\ attached = FALSE /\ shutdown = FALSE /\ inbox = <<>>
  /\ session = "pending" /\ ops = <<>> /\ probe = NoProbe
  /\ browser = "none" /\ deferred = Nothing /\ painting = Unpainted
  /\ loading = Nothing /\ document = Blank /\ loaded = TRUE
  /\ recreations = 0 /\ orphaned = FALSE /\ verdicts = {}

(* The overlay exists: its handle reaches the actor. *)
Attach ==
  /\ Idle /\ ~attached
  /\ attached' = TRUE
  /\ taken' = requests /\ requests' = <<>>
  /\ UNCHANGED <<phase, elapsed, cycles, navigations, saved, shutdown, session>>
  /\ UNCHANGED <<uiVars, pageVars, inbox, verdicts>>

(* Steps of the actor that only concern the connection. *)
ActorStep ==
  /\ Idle
  /\ UNCHANGED <<uiVars, pageVars, sessionVars, shutdown>>

(* The form is submitted.  (Its button is off while the url is empty, the  *)
(* return key is not.)                                                     *)
Submit ==
  /\ ActorStep
  /\ phase.kind = "Editing" /\ cycles + 2 <= MaxCycles
  /\ ConnectTo(phase.url)
  /\ UNCHANGED <<navigations, saved, inbox, verdicts>>

(* The url field of the form is edited. *)
EditUrl(url) ==
  /\ ActorStep /\ phase.kind = "Editing" /\ url # phase.url
  /\ Enter(Editing(url), <<>>)
  /\ UNCHANGED <<cycles, navigations, saved, inbox, verdicts>>

(* "Reset saved server" of the settings, which open over any phase. *)
Reset ==
  /\ ActorStep
  /\ saved' = NoUrl
  /\ IF phase.kind \in Serving \cup {"Editing"}
       THEN Enter(Editing(NoUrl), <<>>)
       ELSE Stay
  /\ UNCHANGED <<cycles, navigations, inbox, verdicts>>

(* Escape reaches the connect view. *)
Cancel ==
  /\ ActorStep /\ phase.kind \in {"Probing", "Loading"}
  /\ Enter(Editing(phase.url), <<>>)
  /\ cycles' = CyclesAfter(cycles)
  /\ UNCHANGED <<navigations, saved, inbox, verdicts>>

DismissFailure ==
  /\ ActorStep /\ phase.kind = "Failed"
  /\ Enter(Editing(phase.url), <<>>)
  /\ UNCHANGED <<cycles, navigations, saved, inbox, verdicts>>

TimePasses ==
  /\ phase.kind \in {"Probing", "Retiring"} /\ ~elapsed
  /\ elapsed' = TRUE
  /\ UNCHANGED <<phase, cycles, navigations, requests, taken, saved, shutdown>>
  /\ UNCHANGED <<uiVars, pageVars, sessionVars, inbox, verdicts>>

(* tick, when the deadline of the phase is due. *)
Tick ==
  /\ ActorStep /\ elapsed
  /\ \/ /\ phase.kind = "Probing" /\ phase.unresolved
        /\ Enter(Phase("Failed", phase.url, 0), <<>>)
        /\ cycles' = CyclesAfter(cycles)
     \/ /\ phase.kind = "Retiring"
        /\ Enter(Phase("Connected", NoUrl, phase.id), <<>>)
        /\ UNCHANGED cycles
  /\ UNCHANGED <<navigations, saved, inbox, verdicts>>

-----------------------------------------------------------------------------
(* Answers of the web side, absorbed by the actor.                         *)

Navigate(base) ==
  LET n == navigations + 1 IN
  /\ saved' = base
  /\ navigations' = n
  /\ cycles' = CyclesAfter(cycles)
  /\ Enter(Phase("Loading", base, n), <<Request("Navigate", n, base)>>)

(* Mutant of ProbeResolved: the answer of an earlier cycle counts. *)
AnyProbeResolved(c, base) ==
  IF phase.kind = "Probing"
    THEN Navigate(base)
    ELSE Stay /\ UNCHANGED <<cycles, navigations, saved>>

ProbeResolved(c, base) ==
  IF phase.kind = "Probing" /\ phase.id = c
    THEN Navigate(base)
    ELSE Stay /\ UNCHANGED <<cycles, navigations, saved>>

(* Mutant of ProbeFailed: a failure before the floor is forgotten. *)
ProbeFailedLate(c) ==
  /\ IF phase.kind = "Probing" /\ phase.id = c /\ elapsed
       THEN /\ Enter(Phase("Failed", phase.url, 0), <<>>)
            /\ cycles' = CyclesAfter(cycles)
       ELSE Stay /\ UNCHANGED cycles
  /\ UNCHANGED <<navigations, saved>>

(* probe_failed waits for the spinner floor. *)
ProbeFailed(c) ==
  /\ \/ /\ phase.kind = "Probing" /\ phase.id = c /\ ~elapsed
        /\ phase' = [phase EXCEPT !.unresolved = TRUE]
        /\ UNCHANGED <<elapsed, cycles>> /\ Flush(requests)
     \/ /\ phase.kind = "Probing" /\ phase.id = c /\ elapsed
        /\ Enter(Phase("Failed", phase.url, 0), <<>>)
        /\ cycles' = CyclesAfter(cycles)
     \/ /\ ~(phase.kind = "Probing" /\ phase.id = c)
        /\ Stay /\ UNCHANGED cycles
  /\ UNCHANGED <<navigations, saved>>

NavigationFailed(n) ==
  /\ IF phase.kind = "Loading" /\ phase.id = n
       THEN Enter(Phase("Failed", phase.url, 0), <<>>)
       ELSE Stay
  /\ UNCHANGED <<cycles, navigations, saved>>

FramePresented(n) ==
  /\ IF phase.kind = "Loading" /\ phase.id = n
       THEN Enter(Phase("Retiring", NoUrl, n), <<>>)
       ELSE Stay
  /\ UNCHANGED <<cycles, navigations, saved>>

Absorb ==
  /\ ActorStep /\ inbox # <<>>
  /\ inbox' = Tail(inbox)
  /\ LET e == Head(inbox) IN
     \/ e.kind = "Resolved"         /\ ProbeResolved(e.id, e.url)
     \/ e.kind = "Unresolved"       /\ ProbeFailed(e.id)
     \/ e.kind = "NavigationFailed" /\ NavigationFailed(e.id)
     \/ e.kind = "FramePresented"   /\ FramePresented(e.id)
  /\ UNCHANGED verdicts

-----------------------------------------------------------------------------
(* The flush, one request at a time: post_operation through on_cef_ready.  *)

Deliver ==
  /\ ~Idle /\ session # "stopped"
  /\ ops' = Append(ops, Head(taken))
  /\ taken' = Tail(taken)
  /\ UNCHANGED <<phase, elapsed, cycles, navigations, requests, saved, shutdown>>
  /\ UNCHANGED <<probe, pageVars, sessionVars, inbox, verdicts>>

(* The error drops the rest of the requests and initiates shutdown.  What  *)
(* it leaves behind waits for the next flush.                              *)
Refused ==
  /\ ~Idle /\ (session = "stopped" \/ (session = "ready" /\ MayReject))
  /\ taken' = <<>> /\ shutdown' = TRUE
  /\ LET r == Head(taken) IN
     \/ /\ r.kind = "Probe" /\ phase.kind = "Probing" /\ phase.id = r.id
        /\ verdicts' = verdicts \cup {<<<<"probe", r.id>>, "bad">>}
        /\ IF elapsed
             THEN /\ phase' = Phase("Failed", phase.url, 0) /\ elapsed' = FALSE
                  /\ requests' = requests \o Leaving(phase') /\ cycles' = CyclesAfter(cycles)
             ELSE /\ phase' = [phase EXCEPT !.unresolved = TRUE]
                  /\ UNCHANGED <<elapsed, requests, cycles>>
     \/ /\ r.kind = "Navigate" /\ phase.kind = "Loading" /\ phase.id = r.id
        /\ verdicts' = verdicts \cup {<<<<"load", r.id>>, "bad">>}
        /\ phase' = Phase("Failed", phase.url, 0) /\ elapsed' = FALSE
        /\ requests' = requests \o Leaving(phase')
        /\ UNCHANGED cycles
     \/ /\ ~(r.kind = "Probe" /\ phase.kind = "Probing" /\ phase.id = r.id)
        /\ ~(r.kind = "Navigate" /\ phase.kind = "Loading" /\ phase.id = r.id)
        /\ UNCHANGED <<phase, elapsed, requests, cycles, verdicts>>
  /\ UNCHANGED <<navigations, saved, uiVars, pageVars, sessionVars, inbox>>

-----------------------------------------------------------------------------
(* The CEF UI thread.                                                      *)

(* MarkReadyTask: what is queued runs from here on, in order. *)
MarkReady ==
  /\ session = "pending"
  /\ session' = "ready"
  /\ UNCHANGED <<actorVars, uiVars, pageVars, attached, inbox, verdicts>>

(* The session is revoked, by a shutdown of whatever cause. *)
StopSession ==
  /\ session # "stopped"
  /\ session' = "stopped"
  /\ ops' = <<>> /\ probe' = NoProbe
  /\ UNCHANGED <<actorVars, pageVars, attached, inbox, verdicts>>

(* A verdict on an attempt, reported to the actor. *)
Report(event, attempt, verdict) ==
  /\ inbox' = Append(inbox, event)
  /\ verdicts' = verdicts \cup {<<attempt, verdict>>}

(* deliver_deferred_navigation, of navigation d under painting p. *)
Submitted(d, p) ==
  IF browser = "live" /\ d # Nothing
    THEN /\ deferred' = Nothing /\ loading' = d /\ orphaned' = FALSE
         /\ painting' = IF d = Blank THEN Unpainted ELSE Awaiting(d.nav, d.base)
    ELSE /\ deferred' = d /\ painting' = p
         /\ UNCHANGED <<loading, orphaned>>

(* Inner::navigate, or the slot alone while there is no client. *)
NavigateOnUi(n, url) ==
  IF browser = "none"
    THEN /\ deferred' = Page(n, url)
         /\ UNCHANGED <<painting, loading, orphaned>>
    ELSE Submitted(Page(n, url), Awaiting(n, url))

(* Inner::abandon_navigation, or the slot alone while there is no client. *)
AbandonOnUi(n) ==
  LET left == IF deferred.nav = n THEN Blank ELSE deferred
      live == painting.nav = n IN
  IF browser = "none"
    THEN /\ deferred' = left
         /\ UNCHANGED <<painting, loading, orphaned>>
    ELSE Submitted(IF live /\ left = Nothing THEN Blank ELSE left,
                   IF live THEN Unpainted ELSE painting)

(* start_on_ui: the HEAD request, unless the probe was cancelled before.   *)
StartProbe(c) ==
  IF probe.cycle # c \/ probe.stage # "posted"
    THEN UNCHANGED <<probe, inbox, verdicts>>
    ELSE \/ probe' = [probe EXCEPT !.stage = "head"] /\ UNCHANGED <<inbox, verdicts>>
         \/ /\ probe' = [probe EXCEPT !.stage = "done"]
            /\ Report(Event("Unresolved", c, NoUrl), <<"probe", c>>, "bad")

(* The next task of the UI thread.  A new probe cancels the one before it  *)
(* and posts its own start.                                                *)
RunOp ==
  /\ session = "ready" /\ ops # <<>>
  /\ LET op == Head(ops) rest == Tail(ops) IN
     \/ /\ op.kind = "Probe"
        /\ probe' = [cycle |-> op.id, stage |-> "posted", base |-> NoUrl]
        /\ ops' = Append(rest, Request("Start", op.id, op.url))
        /\ UNCHANGED <<deferred, painting, loading, orphaned, inbox, verdicts>>
     \/ /\ op.kind = "Start" /\ StartProbe(op.id)
        /\ ops' = rest /\ UNCHANGED <<deferred, painting, loading, orphaned>>
     \/ /\ op.kind = "CancelProbe"
        /\ probe' = NoProbe /\ ops' = rest
        /\ UNCHANGED <<deferred, painting, loading, orphaned, inbox, verdicts>>
     \/ /\ op.kind = "Navigate" /\ NavigateOnUi(op.id, op.url)
        /\ ops' = rest /\ UNCHANGED <<probe, inbox, verdicts>>
     \/ /\ op.kind = "Abandon" /\ AbandonOnUi(op.id)
        /\ ops' = rest /\ UNCHANGED <<probe, inbox, verdicts>>
  /\ UNCHANGED <<actorVars, sessionVars, browser, document, loaded, recreations>>

(* on_request_complete of the HEAD request: redirects have led to a base.  *)
HeadCompletes ==
  /\ session = "ready" /\ probe.stage = "head"
  /\ \/ \E base \in Servers : probe' = [probe EXCEPT !.stage = "get", !.base = base]
        /\ UNCHANGED <<inbox, verdicts>>
     \/ /\ probe' = [probe EXCEPT !.stage = "done"]
        /\ Report(Event("Unresolved", probe.cycle, NoUrl), <<"probe", probe.cycle>>, "bad")
  /\ UNCHANGED <<actorVars, ops, pageVars, sessionVars>>

(* ... and of the GET request: the body is a Jellyfin server's, or not.    *)
GetCompletes ==
  /\ session = "ready" /\ probe.stage = "get"
  /\ probe' = [probe EXCEPT !.stage = "done"]
  /\ \/ Report(Event("Resolved", probe.cycle, probe.base), <<"probe", probe.cycle>>, "good")
     \/ Report(Event("Unresolved", probe.cycle, NoUrl), <<"probe", probe.cycle>>, "bad")
  /\ UNCHANGED <<actorVars, ops, pageVars, sessionVars>>

-----------------------------------------------------------------------------
(* The browser.                                                            *)

(* ensure_browser, at the first size. *)
EnsureBrowser ==
  /\ session = "ready" /\ browser = "none"
  /\ browser' = "creating"
  /\ UNCHANGED <<deferred, painting, loading, document, loaded, recreations, orphaned>>
  /\ UNCHANGED <<actorVars, uiVars, sessionVars, inbox, verdicts>>

(* OnAfterCreated delivers what waited for a browser. *)
AfterCreated ==
  /\ session = "ready" /\ browser = "creating"
  /\ browser' = "live" /\ document' = Blank /\ loaded' = TRUE
  /\ IF deferred = Nothing
       THEN UNCHANGED <<deferred, painting, loading, orphaned>>
       ELSE /\ deferred' = Nothing /\ loading' = deferred /\ orphaned' = FALSE
            /\ painting' = IF deferred = Blank THEN Unpainted
                           ELSE Awaiting(deferred.nav, deferred.base)
  /\ UNCHANGED <<recreations, actorVars, uiVars, sessionVars, inbox, verdicts>>

(* OnBeforeClose of a browser that closed by itself: it is created anew,   *)
(* blank, and the painting still names the navigation that went with it.   *)
BeforeClose ==
  /\ session = "ready" /\ browser = "live" /\ recreations < MaxRecreations
  /\ browser' = "creating" /\ recreations' = recreations + 1
  /\ document' = Blank /\ loaded' = TRUE /\ loading' = Nothing
  /\ orphaned' = (orphaned \/ painting.nav # 0)
  /\ UNCHANGED <<deferred, painting, actorVars, uiVars, sessionVars, inbox, verdicts>>

(* The page the browser was given is there ... *)
Commit ==
  /\ browser = "live" /\ loading # Nothing
  /\ document' = loading /\ loading' = Nothing /\ loaded' = FALSE
  /\ UNCHANGED <<browser, deferred, painting, recreations, orphaned>>
  /\ UNCHANGED <<actorVars, uiVars, sessionVars, inbox, verdicts>>

(* Mutant of LoadEnd: whatever loaded is what was awaited. *)
AnyLoadEnd ==
  /\ browser = "live" /\ ~loaded
  /\ loaded' = TRUE
  /\ painting' = IF painting.kind = "Awaiting"
                   THEN [painting EXCEPT !.kind = "Loaded"] ELSE painting
  /\ UNCHANGED <<browser, deferred, loading, document, recreations, orphaned>>
  /\ UNCHANGED <<actorVars, uiVars, sessionVars, inbox, verdicts>>

(* ... has loaded: note_main_frame_loaded promotes the awaited base ...    *)
LoadEnd ==
  /\ browser = "live" /\ ~loaded
  /\ loaded' = TRUE
  /\ painting' = IF painting.kind = "Awaiting" /\ painting.base = document.base
                   THEN [painting EXCEPT !.kind = "Loaded"] ELSE painting
  /\ UNCHANGED <<browser, deferred, loading, document, recreations, orphaned>>
  /\ UNCHANGED <<actorVars, uiVars, sessionVars, inbox, verdicts>>

(* ... or fails, and the failure is charged to the navigation of its base. *)
LoadError ==
  /\ browser = "live" /\ loading.nav # 0
  /\ loading' = Nothing /\ document' = Blank /\ loaded' = TRUE
  /\ IF session = "ready" /\ painting.kind # "None" /\ painting.base = loading.base
       THEN Report(Event("NavigationFailed", painting.nav, NoUrl), <<"load", painting.nav>>, "bad")
       ELSE UNCHANGED <<inbox, verdicts>>
  /\ UNCHANGED <<browser, deferred, painting, recreations, orphaned>>
  /\ UNCHANGED <<actorVars, uiVars, sessionVars>>

(* A frame is painted and presented, as the witness of its navigation.     *)
Paint ==
  /\ session = "ready" /\ browser = "live"
  /\ painting.kind = "Loaded" /\ ~painting.presented
  /\ painting' = [painting EXCEPT !.presented = TRUE]
  /\ Report(Event("FramePresented", painting.nav, NoUrl), <<"load", painting.nav>>, "good")
  /\ UNCHANGED <<browser, deferred, loading, document, loaded, recreations, orphaned>>
  /\ UNCHANGED <<actorVars, uiVars, sessionVars>>

-----------------------------------------------------------------------------
Flushes == Deliver \/ Refused

User == \/ Submit \/ Reset \/ Cancel \/ DismissFailure
        \/ \E url \in Urls : EditUrl(url)

Next ==
  \/ Attach \/ User \/ TimePasses \/ Tick \/ Absorb \/ Deliver \/ Refused
  \/ MarkReady \/ StopSession \/ RunOp \/ HeadCompletes \/ GetCompletes
  \/ EnsureBrowser \/ AfterCreated \/ BeforeClose
  \/ Commit \/ LoadEnd \/ LoadError \/ Paint

Spec == Init /\ [][Next]_vars

(* The actor and the UI thread run what they are given, deadlines come due, *)
(* requests and loads end, and a loaded page is painted.                    *)
FairSpec ==
  /\ Spec
  /\ WF_vars(Attach) /\ WF_vars(MarkReady) /\ WF_vars(Absorb) /\ WF_vars(Flushes)
  /\ WF_vars(TimePasses) /\ WF_vars(Tick)
  /\ WF_vars(RunOp) /\ WF_vars(HeadCompletes) /\ WF_vars(GetCompletes)
  /\ WF_vars(EnsureBrowser) /\ WF_vars(AfterCreated)
  /\ WF_vars(Commit \/ LoadError) /\ WF_vars(LoadEnd) /\ WF_vars(Paint)

-----------------------------------------------------------------------------
PhaseKinds == {"Editing", "Probing", "Loading", "Failed", "Retiring", "Connected"}
Pages      == [nav : 1 .. navigations, base : Servers]
Requests   == [kind : {"Probe", "CancelProbe", "Navigate", "Abandon"}, id : Nat, url : Urls]
Tasks      == Requests \cup [kind : {"Start"}, id : Nat, url : Urls]
Events     == [kind : {"Resolved", "Unresolved", "NavigationFailed", "FramePresented"},
               id : Nat, url : Urls]

TypeOK ==
  /\ phase \in [kind : PhaseKinds, url : Urls, id : Nat, unresolved : BOOLEAN]
  /\ elapsed \in BOOLEAN /\ cycles \in Nat /\ navigations \in Nat
  /\ requests \in Seq(Requests) /\ taken \in Seq(Requests)
  /\ attached \in BOOLEAN /\ saved \in Urls /\ shutdown \in BOOLEAN
  /\ inbox \in Seq(Events) /\ ops \in Seq(Tasks)
  /\ session \in {"pending", "ready", "stopped"}
  /\ probe \in [cycle : Nat, stage : {"none", "posted", "head", "get", "done"}, base : Urls]
  /\ browser \in {"none", "creating", "live"}
  /\ deferred \in Pages \cup {Nothing, Blank}
  /\ painting \in [kind : {"None", "Awaiting", "Loaded"}, nav : Nat, base : Urls,
                   presented : BOOLEAN]
  /\ loading \in Pages \cup {Nothing, Blank} /\ document \in Pages \cup {Blank}
  /\ loaded \in BOOLEAN /\ orphaned \in BOOLEAN /\ recreations \in 0 .. MaxRecreations

(* When nothing is on its way, the screen and the web side agree: a probe  *)
(* runs exactly while the screen waits for it, the browser's painting or   *)
(* its deferred navigation is the one the screen names, and one the screen *)
(* has left is gone from both.                                             *)
Quiet == /\ attached /\ Idle /\ requests = <<>> /\ ops = <<>> /\ inbox = <<>>
         /\ session = "ready" /\ ~shutdown
ProbeRuns == probe.stage \in {"posted", "head", "get"}
QuietAgreement ==
  Quiet =>
    /\ phase.kind = "Probing" /\ ~phase.unresolved <=> ProbeRuns
    /\ ProbeRuns => probe.cycle = phase.id
    /\ Names(phase) # 0 => painting.nav = Names(phase) \/ deferred.nav = Names(phase)
    /\ Names(phase) = 0 => painting.nav = 0 /\ deferred.nav = 0

(* A frame that witnesses a navigation shows a page of its server, unless  *)
(* its browser was replaced or the navigation was reported as failed.      *)
WitnessShowsServer ==
  [][painting'.presented /\ ~painting.presented =>
       \/ document.base = painting.base
       \/ orphaned
       \/ <<<<"load", painting.nav>>, "bad">> \in verdicts]_vars

(* The connection implements the abstract attempt: an answer counts only   *)
(* for the attempt the screen follows, however late it comes.              *)
Attempt == INSTANCE ConnectionAttempt WITH
  stage   <- CASE phase.kind = "Editing"   -> "form"
               [] phase.kind = "Probing"   -> "probe"
               [] phase.kind = "Loading"   -> "load"
               [] phase.kind = "Failed"    -> "failed"
               [] phase.kind = "Retiring"  -> "fading"
               [] phase.kind = "Connected" -> "connected",
  attempt <- CASE phase.kind = "Probing" -> <<"probe", phase.id>>
               [] phase.kind \in Serving -> <<"load", phase.id>>
               [] OTHER                  -> <<"none", 0>>,
  tried   <- ({"probe"} \X (1 .. cycles)) \cup ({"load"} \X (1 .. navigations))
ImplementsAttempt == Attempt!AttemptSpec

(* A screen that works does not work for ever: the probe ends, and so does *)
(* the load, unless its browser went away or the session is over.          *)
Over == session = "stopped" \/ shutdown \/ orphaned
ConnectingSettles ==
  phase.kind \in {"Probing", "Loading"} ~> (phase.kind \notin {"Probing", "Loading"} \/ Over)
=============================================================================
