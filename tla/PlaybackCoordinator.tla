------------------------- MODULE PlaybackCoordinator -------------------------
(***************************************************************************)
(* The coordinator of coordinator.rs behind the singleton slot of ffi.rs:  *)
(* producers on any thread post inputs, one worker drains them in finite   *)
(* batches, publishes a snapshot per batch and calls the sinks, sinks may  *)
(* post in turn, sinks register at any time, and shutdown takes the        *)
(* coordinator out of its slot, closes the queue and joins the worker.     *)
(*                                                                         *)
(* An input stands for itself: the state machine is the sequence of inputs *)
(* it was given, the event of an input is the input, and the inputs of     *)
(* Acting queue an action too.  Everything else about them is the business *)
(* of PlaybackHandlers.                                                    *)
(***************************************************************************)
EXTENDS Naturals, Sequences, FiniteSets, SequencesExt

CONSTANTS
  Producers,       \* threads that post
  Worker,          \* the worker thread, which posts from inside a callback
  Acting,          \* producers whose inputs queue an action
  ExternalEvents,  \* event sinks other crates register
  ExternalActions, \* action sinks other crates register
  BuiltinEvents,   \* event sinks registered by jfn_playback_init
  BuiltinActions,  \* action sinks registered by jfn_playback_init
  Posting,         \* event sinks whose callback posts an input
  MaxPosts         \* bound on the posts of each producer

Sinks  == ExternalEvents \cup ExternalActions \cup BuiltinEvents \cup BuiltinActions
Stages == 1 .. 4

(* A callback is registered by one function, the built-in ones one by one. *)
ASSUME CoordinatorConstants ==
  /\ Worker \notin Producers
  /\ Acting \subseteq Producers
  /\ Posting \subseteq ExternalEvents \cup BuiltinEvents
  /\ MaxPosts \in Nat
  /\ IsFiniteSet(BuiltinEvents) /\ IsFiniteSet(BuiltinActions)
  /\ ExternalEvents \cap (ExternalActions \cup BuiltinEvents \cup BuiltinActions) = {}
  /\ ExternalActions \cap (BuiltinEvents \cup BuiltinActions) = {}
  /\ BuiltinEvents \cap BuiltinActions = {}

Posters == Producers \cup {Worker}

(* The n-th post of a poster. *)
Inputs == [by : Posters, n : Nat \ {0}]

VARIABLES
  slot,        \* coord_slot(): "empty", "live" or "taken"
  slot_held,   \* shutdown holds the slot's mutex
  tx,          \* the sender is still there
  queue,       \* the channel
  handle,      \* posters between cloning the handle and sending on it
  posts,       \* posts[p]: how often p has posted, in all
  sinks,       \* the registry: for each stage its sinks in registration order
  w,           \* the worker's control state
  left,        \* inputs of its batch it has not applied
  sm,          \* its state machine: the inputs applied
  events,      \* the events of its batch
  actions,     \* the actions of its batch
  at,          \* where the loops of its dispatch are: stage, sink and item
  called,      \* the registry this dispatch cloned
  snapshot,    \* the published snapshot
  stop,        \* shutdown: "no", "locked", "taken", "closed", "joined"
  accepted,    \* history: the inputs the queue accepted
  captured,    \* history: how many it had accepted when the batch was captured
  heard        \* history: the calls each sink received

vars == <<slot, slot_held, tx, queue, handle, posts, sinks, w, left, sm, events,
          actions, at, called, snapshot, stop, accepted, captured, heard>>

workerVars == <<w, left, sm, events, actions, at, called, snapshot, captured, heard>>
stopVars   == <<slot, slot_held, tx, stop>>
postVars   == <<queue, handle, posts, accepted>>

(* dispatch begins with the first item for the first sink of the first stage. *)
FirstCall == [stage |-> 1, sink |-> 1, item |-> 1]

Init ==
  /\ slot = "empty" /\ slot_held = FALSE /\ tx = TRUE /\ stop = "no"
  /\ queue = <<>> /\ accepted = <<>>
  /\ handle = {} /\ posts = [p \in Posters |-> 0]
  /\ sinks = [k \in Stages |-> <<>>] /\ called = sinks
  /\ w = "recv" /\ left = 0 /\ sm = <<>> /\ events = <<>> /\ actions = <<>>
  /\ at = FirstCall
  /\ snapshot = <<>> /\ captured = 0
  /\ heard = [s \in Sinks |-> <<>>]

-----------------------------------------------------------------------------
(* jfn_playback_init: the built-in sinks, the worker, the slot.            *)
InitCoordinator ==
  /\ slot = "empty" /\ ~slot_held
  /\ slot' = "live"
  /\ sinks' = [sinks EXCEPT ![3] = SetToSeq(BuiltinEvents), ![4] = SetToSeq(BuiltinActions)]
  /\ UNCHANGED <<slot_held, tx, stop>> /\ UNCHANGED workerVars /\ UNCHANGED postVars

StageOf(s) == CASE s \in ExternalEvents  -> 1
                [] s \in ExternalActions -> 2
                [] s \in BuiltinEvents   -> 3
                [] OTHER                 -> 4

(* register_event_sink and register_action_sink, from any thread. *)
Register(s) ==
  /\ s \in ExternalEvents \cup ExternalActions
  /\ slot = "live" /\ ~slot_held
  /\ ~Contains(sinks[StageOf(s)], s)
  /\ sinks' = [sinks EXCEPT ![StageOf(s)] = Append(@, s)]
  /\ UNCHANGED workerVars /\ UNCHANGED stopVars /\ UNCHANGED postVars

(* post: clone the handle under the slot's mutex; without a coordinator the *)
(* input is dropped.                                                        *)
GetHandle(p) ==
  /\ ~slot_held
  /\ posts' = [posts EXCEPT ![p] = @ + 1]
  /\ handle' = IF slot = "live" THEN handle \cup {p} ELSE handle

(* enqueue: send unless stop has taken the sender. *)
Send(p) ==
  LET input == [by |-> p, n |-> posts[p]]
  IN /\ p \in handle
     /\ handle' = handle \ {p}
     /\ queue' = IF tx THEN Append(queue, input) ELSE queue
     /\ accepted' = IF tx THEN Append(accepted, input) ELSE accepted
     /\ UNCHANGED posts

Post(p) ==
  /\ posts[p] < MaxPosts /\ p \notin handle
  /\ GetHandle(p)
  /\ UNCHANGED <<queue, accepted, sinks>> /\ UNCHANGED workerVars /\ UNCHANGED stopVars

Enqueue(p) ==
  /\ Send(p)
  /\ UNCHANGED sinks /\ UNCHANGED workerVars /\ UNCHANGED stopVars

-----------------------------------------------------------------------------
(* The worker.                                                             *)

(* Mutation: the events of the last batch are kept. *)
RecvKeepingEvents ==
  /\ w = "recv" /\ queue # <<>>
  /\ w' = "batch" /\ left' = Len(queue) /\ captured' = Len(accepted)
  /\ UNCHANGED <<sm, events, actions, at, called, snapshot, heard, sinks>>
  /\ UNCHANGED postVars /\ UNCHANGED stopVars

(* recv takes the first input and pending_batch captures the queued count   *)
(* once; inputs that arrive while the batch drains stay queued.             *)
Recv ==
  /\ w = "recv" /\ queue # <<>>
  /\ w' = "batch" /\ left' = Len(queue) /\ captured' = Len(accepted)
  /\ events' = <<>> /\ actions' = <<>>
  /\ UNCHANGED <<sm, at, called, snapshot, heard, sinks>>
  /\ UNCHANGED postVars /\ UNCHANGED stopVars

(* Mutation: the batch drains whatever is queued. *)
BatchUnlimited == Len(queue)

BatchLeft == left

(* Mutation: try_iter without its limit. *)
ApplyNextUnlimited ==
  /\ w = "batch" /\ queue # <<>>
  /\ sm' = Append(sm, Head(queue)) /\ events' = Append(events, Head(queue))
  /\ queue' = Tail(queue) /\ left' = left - 1
  /\ UNCHANGED <<w, actions, at, called, snapshot, captured, heard, sinks>>
  /\ UNCHANGED <<handle, posts, accepted>> /\ UNCHANGED stopVars

ApplyNext ==
  /\ w = "batch" /\ BatchLeft > 0
  /\ LET input == Head(queue)
     IN /\ sm' = Append(sm, input)
        /\ events' = Append(events, input)
        /\ actions' = IF input.by \in Acting THEN Append(actions, input) ELSE actions
  /\ queue' = Tail(queue) /\ left' = left - 1
  /\ UNCHANGED <<w, at, called, snapshot, captured, heard, sinks>>
  /\ UNCHANGED <<handle, posts, accepted>> /\ UNCHANGED stopVars

(* Mutation: the sinks run before the snapshot is published. *)
PublishNothing ==
  /\ w = "batch" /\ BatchLeft = 0 /\ w' = "publish"
  /\ UNCHANGED <<snapshot, left, sm, events, actions, at, called, captured, heard, sinks>>
  /\ UNCHANGED postVars /\ UNCHANGED stopVars

Publish ==
  /\ w = "batch" /\ BatchLeft = 0
  /\ snapshot' = sm
  /\ w' = "publish"
  /\ UNCHANGED <<left, sm, events, actions, at, called, captured, heard, sinks>>
  /\ UNCHANGED postVars /\ UNCHANGED stopVars

Dispatch ==
  /\ w = "publish"
  /\ called' = sinks /\ at' = FirstCall
  /\ w' = "dispatch"
  /\ UNCHANGED <<left, sm, events, actions, snapshot, captured, heard, sinks>>
  /\ UNCHANGED postVars /\ UNCHANGED stopVars

(* What the sinks of a stage are called for. *)
ItemsOf(stage) == IF stage \in {1, 3} THEN events ELSE actions

(* A callback; a posting one calls `post` before it returns. *)
Call ==
  /\ w = "dispatch" /\ at.stage \in Stages
  /\ at.sink <= Len(called[at.stage]) /\ at.item <= Len(ItemsOf(at.stage))
  /\ LET sink  == called[at.stage][at.sink]
         input == ItemsOf(at.stage)[at.item]
     IN /\ heard' = [heard EXCEPT ![sink] = Append(@, input)]
        /\ w' = IF sink \in Posting /\ input.by # Worker THEN "callback" ELSE "dispatch"
  /\ at' = [at EXCEPT !.item = @ + 1]
  /\ UNCHANGED <<left, sm, events, actions, called, snapshot, captured, sinks>>
  /\ UNCHANGED postVars /\ UNCHANGED stopVars

(* A sink has had every item, a stage every sink. *)
NextSink ==
  /\ w = "dispatch" /\ at.stage \in Stages
  /\ at.sink <= Len(called[at.stage]) /\ at.item > Len(ItemsOf(at.stage))
  /\ at' = [at EXCEPT !.sink = @ + 1, !.item = 1]
  /\ UNCHANGED <<w, left, sm, events, actions, called, snapshot, captured, heard, sinks>>
  /\ UNCHANGED postVars /\ UNCHANGED stopVars

NextStage ==
  /\ w = "dispatch" /\ at.stage \in Stages
  /\ at.sink > Len(called[at.stage])
  /\ at' = [stage |-> at.stage + 1, sink |-> 1, item |-> 1]
  /\ UNCHANGED <<w, left, sm, events, actions, called, snapshot, captured, heard, sinks>>
  /\ UNCHANGED postVars /\ UNCHANGED stopVars

CallbackPost ==
  /\ w = "callback" /\ GetHandle(Worker)
  /\ w' = IF slot = "live" THEN "callback_send" ELSE "dispatch"
  /\ UNCHANGED <<left, sm, events, actions, at, called, snapshot, captured, heard, sinks>>
  /\ UNCHANGED <<queue, accepted>> /\ UNCHANGED stopVars

CallbackSend ==
  /\ w = "callback_send" /\ Send(Worker)
  /\ w' = "dispatch"
  /\ UNCHANGED <<left, sm, events, actions, at, called, snapshot, captured, heard, sinks>>
  /\ UNCHANGED stopVars

DispatchDone ==
  /\ w = "dispatch" /\ at.stage \notin Stages
  /\ w' = "recv"
  /\ UNCHANGED <<left, sm, events, actions, at, called, snapshot, captured, heard, sinks>>
  /\ UNCHANGED postVars /\ UNCHANGED stopVars

(* Mutation: a closed queue ends the worker at once. *)
ExitOnClose ==
  /\ w = "recv" /\ ~tx /\ w' = "done"
  /\ UNCHANGED <<left, sm, events, actions, at, called, snapshot, captured, heard, sinks>>
  /\ UNCHANGED postVars /\ UNCHANGED stopVars

(* recv fails only when the queue is empty and the sender is gone. *)
Exit ==
  /\ w = "recv" /\ queue = <<>> /\ ~tx
  /\ w' = "done"
  /\ UNCHANGED <<left, sm, events, actions, at, called, snapshot, captured, heard, sinks>>
  /\ UNCHANGED postVars /\ UNCHANGED stopVars

-----------------------------------------------------------------------------
(* jfn_playback_shutdown: take the coordinator under the slot's mutex, then *)
(* stop it with the mutex released.                                         *)
ShutdownLock ==
  /\ stop = "no" /\ slot = "live" /\ ~slot_held
  /\ stop' = "locked" /\ slot_held' = TRUE
  /\ UNCHANGED <<slot, tx, sinks>> /\ UNCHANGED workerVars /\ UNCHANGED postVars

(* Mutation: the guard lives across stop(). *)
ShutdownTakeHolding ==
  /\ stop = "locked"
  /\ stop' = "taken" /\ slot' = "taken"
  /\ UNCHANGED <<slot_held, tx, sinks>> /\ UNCHANGED workerVars /\ UNCHANGED postVars

ShutdownTake ==
  /\ stop = "locked"
  /\ stop' = "taken" /\ slot' = "taken" /\ slot_held' = FALSE
  /\ UNCHANGED <<tx, sinks>> /\ UNCHANGED workerVars /\ UNCHANGED postVars

StopClose ==
  /\ stop = "taken"
  /\ stop' = "closed" /\ tx' = FALSE
  /\ UNCHANGED <<slot, slot_held, sinks>> /\ UNCHANGED workerVars /\ UNCHANGED postVars

StopJoin ==
  /\ stop = "closed" /\ w = "done"
  /\ stop' = "joined"
  /\ UNCHANGED <<slot, slot_held, tx, sinks>> /\ UNCHANGED workerVars /\ UNCHANGED postVars

WorkerStep ==
  \/ Recv \/ ApplyNext \/ Publish
  \/ Dispatch \/ Call \/ NextSink \/ NextStage
  \/ CallbackPost \/ CallbackSend \/ DispatchDone \/ Exit

ShutdownStep == ShutdownTake \/ StopClose \/ StopJoin

(* The end of a run: the worker joined and every producer out of posts. *)
Finished ==
  /\ stop = "joined" /\ handle = {}
  /\ \A p \in Producers : posts[p] = MaxPosts
  /\ UNCHANGED vars

Next ==
  \/ InitCoordinator
  \/ \E s \in Sinks : Register(s)
  \/ \E p \in Producers : Post(p) \/ Enqueue(p)
  \/ WorkerStep
  \/ ShutdownLock \/ ShutdownStep
  \/ Finished

(* The OS runs every thread that can run: the worker, a producer that holds *)
(* a handle, and shutdown once it has begun.                                *)
Fairness ==
  /\ WF_vars(WorkerStep)
  /\ WF_vars(ShutdownStep)
  /\ \A p \in Producers : WF_vars(Enqueue(p))

Spec == Init /\ [][Next]_vars /\ Fairness

-----------------------------------------------------------------------------

(* Every variable stays in its type. *)
TypeOK ==
  /\ slot \in {"empty", "live", "taken"} /\ slot_held \in BOOLEAN /\ tx \in BOOLEAN
  /\ queue \in Seq(Inputs) /\ accepted \in Seq(Inputs) /\ sm \in Seq(Inputs)
  /\ events \in Seq(Inputs) /\ actions \in Seq(Inputs) /\ snapshot \in Seq(Inputs)
  /\ handle \subseteq Posters /\ posts \in [Posters -> Nat]
  /\ sinks \in [Stages -> Seq(Sinks)] /\ called \in [Stages -> Seq(Sinks)]
  /\ w \in {"recv", "batch", "publish", "dispatch", "callback", "callback_send", "done"}
  /\ at \in [stage : 1 .. 5, sink : Nat \ {0}, item : Nat \ {0}]
  /\ stop \in {"no", "locked", "taken", "closed", "joined"}
  /\ captured \in Nat /\ left \in Nat
  /\ heard \in [Sinks -> Seq(Inputs)]

(* While sinks run, the published snapshot is the one stamped on the events *)
(* they are given: a sink that asks for the snapshot sees no other state.   *)
SinksSeePublished ==
  w \in {"dispatch", "callback", "callback_send"} => snapshot = sm

(* A producer cannot extend a batch under way: what is published is what    *)
(* was queued when the batch was captured, so posting never starves the     *)
(* snapshot and the sinks.                                                  *)
BatchIsWhatWasQueued ==
  w \in {"publish", "dispatch"} => Len(sm) = captured /\ Len(snapshot) <= Len(sm)

(* A worker that exits has applied and published every accepted input, the  *)
(* ones accepted while stop was under way and those its own sinks posted.   *)
NothingAcceptedIsLost ==
  w = "done" => sm = accepted /\ snapshot = accepted

(* Shutdown never waits on a worker that waits on it: a sink that posts from *)
(* its callback cannot keep stop from joining.                              *)
ShutdownCompletes == stop = "locked" ~> stop = "joined"

(* Every accepted input reaches the snapshot and every built-in event sink. *)
AcceptedIsDelivered ==
  \A p \in Producers, n \in 1 .. MaxPosts :
    LET input == [by |-> p, n |-> n]
    IN Contains(accepted, input) ~>
         /\ Contains(snapshot, input)
         /\ \A b \in BuiltinEvents : Contains(heard[b], input)

(* The abstract delivery: a sink wants an input when it is an event sink or *)
(* the input queues an action.                                              *)
WantedBy(s, i) == s \in ExternalEvents \cup BuiltinEvents \/ i.by \in Acting

Delivery == INSTANCE PlaybackDelivery WITH
  Wanted <- WantedBy,
  sent   <- accepted,
  shown  <- Len(snapshot),
  closed <- ~tx

(* The queue, the batches and the locks implement the delivery a producer   *)
(* and a sink may rely on.                                                  *)
ImplementsDelivery == Delivery!Init /\ [][Delivery!Next]_(Delivery!vars)
=============================================================================
