---------------------- MODULE PlaybackCoordinator_proofs ----------------------
(***************************************************************************)
(* Proofs about PlaybackCoordinator, for any producers, sinks and number   *)
(* of posts: what the worker has applied and what is queued are together   *)
(* what was accepted, at every step, and the batch, the publication and    *)
(* the exit of the worker keep their bounds against that.  The second half *)
(* follows every sink through batches and dispatches and shows that the    *)
(* coordinator implements PlaybackDelivery.                                *)
(***************************************************************************)
EXTENDS PlaybackCoordinator, FiniteSetTheorems, SequenceTheorems, TLAPS

Calling == {"dispatch", "callback", "callback_send"}

(* Who holds a handle is about to send what it counted. *)
Handles ==
  /\ handle \subseteq Posters /\ posts \in [Posters -> Nat]
  /\ \A p \in handle : posts[p] > 0

Typed ==
  /\ queue \in Seq(Inputs) /\ accepted \in Seq(Inputs)
  /\ sm \in Seq(Inputs) /\ snapshot \in Seq(Inputs)
  /\ Handles
  /\ left \in Nat /\ captured \in Nat /\ tx \in BOOLEAN
  /\ w \in {"recv", "batch", "publish", "done"} \cup Calling

(* The queue holds exactly the accepted inputs that are not applied. *)
Conserved == accepted = sm \o queue

(* The batch under way ends where it was captured, inside the queue. *)
Bounded ==
  /\ w = "batch" => left + Len(sm) = captured /\ captured <= Len(accepted)
  /\ w \in {"publish"} \cup Calling => Len(sm) = captured

(* The published snapshot is the machine's state except while a batch is    *)
(* applied, when it is an older one.                                        *)
Published ==
  /\ w # "batch" => snapshot = sm
  /\ Len(snapshot) <= Len(sm)

(* The worker only ends on an empty queue that nothing can enter. *)
Ended == w = "done" => queue = <<>> /\ ~tx

IInv == Typed /\ Conserved /\ Bounded /\ Published /\ Ended

-----------------------------------------------------------------------------

(* Moving the head of the queue into the machine keeps their concatenation. *)
LEMMA ApplyBalance ==
  ASSUME NEW S, NEW a \in Seq(S), NEW b \in Seq(S), b # <<>>
  PROVE  a \o b = Append(a, Head(b)) \o Tail(b)
  <1>1. Head(b) \in S /\ Tail(b) \in Seq(S) /\ <<Head(b)>> \in Seq(S)
    BY HeadTailProperties
  <1>2. b = <<Head(b)>> \o Tail(b)
    <2>1. Len(b) \in Nat \ {0}
      BY EmptySeq
    <2>2. b = SubSeq(b, 1, Len(b)) /\ Tail(b) = SubSeq(b, 2, Len(b)) /\ Head(b) = b[1]
      BY <2>1, SubSeqFull, TailIsSubSeq
    <2>3. SubSeq(b, 1, Len(b)) = <<b[1]>> \o SubSeq(b, 1 + 1, Len(b))
      BY <2>1, SubSeqRecursiveFirst
    <2> QED BY <2>2, <2>3
  <1>3. Append(a, Head(b)) = a \o <<Head(b)>>
    BY <1>1, AppendIsConcat
  <1>4. (a \o <<Head(b)>>) \o Tail(b) = a \o (<<Head(b)>> \o Tail(b))
    BY <1>1, ConcatAssociative
  <1> QED BY <1>2, <1>3, <1>4

-----------------------------------------------------------------------------

LEMMA InitIInv == Init => IInv
  <1> SUFFICES ASSUME Init PROVE IInv
    OBVIOUS
  <1>1. <<>> \in Seq(Inputs) /\ Len(<<>>) = 0 /\ <<>> \o <<>> = <<>>
    BY EmptySeq, ConcatEmptySeq
  <1> QED BY <1>1 DEF Init, IInv, Typed, Handles, Conserved, Bounded, Published, Ended, Calling

(* A step that touches neither the queue nor the worker keeps everything;   *)
(* it may close the sender.                                                 *)
LEMMA ElsewhereIInv ==
  ASSUME IInv, UNCHANGED <<queue, accepted, sm, snapshot, left, captured, w>>,
         Handles', tx' \in {tx, FALSE}
  PROVE  IInv'
  <1>1. Typed'
    BY DEF IInv, Typed, Handles
  <1>2. Conserved' /\ Published' /\ Bounded'
    BY DEF IInv, Conserved, Published, Bounded
  <1>3. Ended'
    BY DEF IInv, Typed, Handles, Ended
  <1> QED BY <1>1, <1>2, <1>3 DEF IInv

(* Cloning the handle counts a post and remembers the poster. *)
LEMMA GetHandleTyped ==
  ASSUME Typed, NEW p \in Posters, GetHandle(p)
  PROVE  Handles'
  BY DEF Typed, Handles, GetHandle

(* Sending appends to queue and history alike, or to neither. *)
LEMMA SendKeeps ==
  ASSUME IInv, NEW p \in Posters, Send(p), sm' = sm, tx' = tx
  PROVE  /\ queue' \in Seq(Inputs) /\ accepted' \in Seq(Inputs)
         /\ Handles'
         /\ Conserved' /\ Len(accepted) <= Len(accepted')
         /\ queue # queue' => tx
  <1> DEFINE input == [by |-> p, n |-> posts[p]]
  <1>1. input \in Inputs
    BY DEF IInv, Typed, Handles, Inputs, Send
  <1>2. Handles'
    BY DEF IInv, Typed, Handles, Send
  <1>3. CASE tx
    <2> HIDE DEF input
    <2>1. queue' = Append(queue, input) /\ accepted' = Append(accepted, input)
      BY <1>3 DEF Send, input
    <2>2. queue' \in Seq(Inputs) /\ accepted' \in Seq(Inputs)
          /\ Len(accepted') = Len(accepted) + 1 /\ Len(accepted) \in Nat
      BY <1>1, <2>1, AppendProperties, LenProperties DEF IInv, Typed, Handles
    <2>3. sm \in Seq(Inputs) /\ queue \in Seq(Inputs) /\ accepted = sm \o queue
      BY DEF IInv, Typed, Handles, Conserved
    <2>4. accepted' = sm \o queue'
      <3>1. accepted' = accepted \o <<input>> /\ queue' = queue \o <<input>>
        BY <1>1, <2>1, AppendIsConcat DEF IInv, Typed, Handles
      <3>2. <<input>> \in Seq(Inputs)
        BY <1>1
      <3>3. (sm \o queue) \o <<input>> = sm \o (queue \o <<input>>)
        BY <2>3, <3>2, ConcatAssociative
      <3> QED BY <2>3, <3>1, <3>3
    <2>5. Conserved'
      BY <2>4 DEF Conserved
    <2> QED BY <1>2, <1>3, <2>2, <2>5
  <1>4. CASE ~tx
    <2>1. queue' = queue /\ accepted' = accepted
      BY <1>4 DEF Send
    <2>2. Len(accepted) \in Nat
      BY LenProperties DEF IInv, Typed, Handles
    <2> QED BY <1>2, <2>1, <2>2 DEF IInv, Typed, Handles, Conserved
  <1> QED BY <1>3, <1>4

LEMMA EnqueueIInv ==
  ASSUME IInv, NEW p \in Producers, Enqueue(p)
  PROVE  IInv'
  <1>1. p \in Posters /\ Send(p) /\ UNCHANGED <<sm, tx, w, left, captured, snapshot>>
    BY DEF Enqueue, Posters, workerVars, stopVars
  <1>2. /\ queue' \in Seq(Inputs) /\ accepted' \in Seq(Inputs)
        /\ Handles'
        /\ Conserved' /\ Len(accepted) <= Len(accepted')
        /\ queue # queue' => tx
    BY <1>1, SendKeeps
  <1>3. Len(accepted) \in Nat /\ Len(accepted') \in Nat
    BY <1>2, LenProperties DEF IInv, Typed, Handles
  <1>4. Typed' /\ Published'
    BY <1>1, <1>2 DEF IInv, Typed, Handles, Published
  <1>5. Bounded'
    BY <1>1, <1>2, <1>3 DEF IInv, Typed, Handles, Bounded
  <1>6. Ended'
    BY <1>1, <1>2 DEF IInv, Ended
  <1> QED BY <1>2, <1>4, <1>5, <1>6 DEF IInv

LEMMA RecvIInv ==
  ASSUME IInv, Recv
  PROVE  IInv'
  <1>1. /\ w = "recv" /\ w' = "batch" /\ left' = Len(queue) /\ captured' = Len(accepted)
        /\ UNCHANGED <<sm, snapshot, queue, accepted, handle, posts, tx>>
    BY DEF Recv, postVars, stopVars
  <1>2. Len(queue) \in Nat /\ Len(sm) \in Nat /\ Len(accepted) \in Nat
        /\ Len(accepted) = Len(sm) + Len(queue)
    BY ConcatProperties, LenProperties DEF IInv, Typed, Handles, Conserved
  <1>3. Typed' /\ Conserved' /\ Ended'
    BY <1>1, <1>2 DEF IInv, Typed, Handles, Conserved, Ended
  <1>4. Bounded' /\ Published'
    BY <1>1, <1>2 DEF IInv, Bounded, Published, Calling
  <1> QED BY <1>3, <1>4 DEF IInv

LEMMA ApplyNextIInv ==
  ASSUME IInv, ApplyNext
  PROVE  IInv'
  <1>1. /\ w = "batch" /\ left > 0 /\ left' = left - 1
        /\ sm' = Append(sm, Head(queue)) /\ queue' = Tail(queue)
        /\ UNCHANGED <<w, snapshot, captured, accepted, handle, posts, tx>>
    BY DEF ApplyNext, BatchLeft, stopVars
  <1>2. /\ Len(queue) \in Nat /\ Len(sm) \in Nat /\ Len(snapshot) \in Nat
        /\ Len(accepted) = Len(sm) + Len(queue)
    BY ConcatProperties, LenProperties DEF IInv, Typed, Handles, Conserved
  <1>3. left + Len(sm) = captured /\ captured <= Len(accepted) /\ left \in Nat
    BY <1>1 DEF IInv, Typed, Handles, Bounded
  <1>4. queue # <<>>
    <2>1. Len(queue) > 0
      BY <1>1, <1>2, <1>3
    <2> QED BY <2>1, EmptySeq
  <1>5. Head(queue) \in Inputs /\ Tail(queue) \in Seq(Inputs)
    BY <1>4, HeadTailProperties DEF IInv, Typed, Handles
  <1>6. Append(sm, Head(queue)) \in Seq(Inputs)
        /\ Len(Append(sm, Head(queue))) = Len(sm) + 1
    BY <1>5, AppendProperties DEF IInv, Typed, Handles
  <1>7. sm \o queue = Append(sm, Head(queue)) \o Tail(queue)
    BY <1>4, ApplyBalance DEF IInv, Typed, Handles
  <1>8. Typed'
    BY <1>1, <1>3, <1>5, <1>6 DEF IInv, Typed, Handles
  <1>9. Conserved'
    BY <1>1, <1>7 DEF IInv, Conserved
  <1>10. Bounded'
    BY <1>1, <1>2, <1>3, <1>6 DEF Bounded, Calling
  <1>11. Published' /\ Ended'
    BY <1>1, <1>2, <1>6 DEF IInv, Published, Ended
  <1> QED BY <1>8, <1>9, <1>10, <1>11 DEF IInv

LEMMA PublishIInv ==
  ASSUME IInv, Publish
  PROVE  IInv'
  <1>1. /\ w = "batch" /\ left = 0 /\ w' = "publish" /\ snapshot' = sm
        /\ UNCHANGED <<left, sm, captured, queue, accepted, handle, posts, tx>>
    BY DEF Publish, BatchLeft, postVars, stopVars
  <1>2. Len(sm) \in Nat /\ captured \in Nat
    BY LenProperties DEF IInv, Typed, Handles
  <1>3. Typed' /\ Conserved' /\ Published' /\ Ended'
    BY <1>1, <1>2 DEF IInv, Typed, Handles, Conserved, Published, Ended
  <1>4. Bounded'
    BY <1>1, <1>2 DEF IInv, Bounded, Calling
  <1> QED BY <1>3, <1>4 DEF IInv

(* The steps of the worker that only move its control state, outside the    *)
(* batch, and the callback that clones a handle.                            *)
LEMMA ControlIInv ==
  ASSUME IInv, UNCHANGED <<queue, accepted, sm, snapshot, left, captured, tx>>,
         Handles',
         w \in {"publish"} \cup Calling, w' \in {"recv"} \cup Calling
  PROVE  IInv'
  BY DEF IInv, Typed, Handles, Conserved, Bounded, Published, Ended, Calling

LEMMA CallbackSendIInv ==
  ASSUME IInv, CallbackSend
  PROVE  IInv'
  <1>1. /\ Worker \in Posters /\ Send(Worker) /\ w = "callback_send" /\ w' = "dispatch"
        /\ UNCHANGED <<sm, tx, left, captured, snapshot>>
    BY DEF CallbackSend, Posters, stopVars
  <1>2. /\ queue' \in Seq(Inputs) /\ accepted' \in Seq(Inputs)
        /\ Handles' /\ Conserved'
    BY <1>1, SendKeeps
  <1>3. Typed' /\ Published' /\ Bounded' /\ Ended'
    BY <1>1, <1>2 DEF IInv, Typed, Handles, Published, Bounded, Ended, Calling
  <1> QED BY <1>2, <1>3 DEF IInv

LEMMA ExitIInv ==
  ASSUME IInv, Exit
  PROVE  IInv'
  BY DEF IInv, Exit, Typed, Handles, Conserved, Bounded, Published, Ended, Calling, postVars, stopVars

LEMMA NextIInv == IInv /\ [Next]_vars => IInv'
  <1> SUFFICES ASSUME IInv, [Next]_vars PROVE IInv'
    OBVIOUS
  <1>1. CASE InitCoordinator
    BY <1>1, ElsewhereIInv DEF InitCoordinator, workerVars, postVars, IInv, Typed, Handles
  <1>2. ASSUME NEW s \in Sinks, Register(s) PROVE IInv'
    BY <1>2, ElsewhereIInv DEF Register, workerVars, stopVars, postVars, IInv, Typed, Handles
  <1>3. ASSUME NEW p \in Producers, Post(p) PROVE IInv'
    <2>1. p \in Posters /\ GetHandle(p)
      BY <1>3 DEF Post, Posters
    <2> QED BY <1>3, <2>1, GetHandleTyped, ElsewhereIInv DEF Post, workerVars, stopVars, IInv
  <1>4. ASSUME NEW p \in Producers, Enqueue(p) PROVE IInv'
    BY <1>4, EnqueueIInv
  <1>5. CASE Recv
    BY <1>5, RecvIInv
  <1>6. CASE ApplyNext
    BY <1>6, ApplyNextIInv
  <1>7. CASE Publish
    BY <1>7, PublishIInv
  <1>8. CASE Dispatch
    BY <1>8, ControlIInv DEF Dispatch, Calling, postVars, stopVars, IInv, Typed, Handles
  <1>9. CASE Call \/ NextSink \/ NextStage
    BY <1>9, ControlIInv DEF Call, NextSink, NextStage, Calling, postVars, stopVars, IInv, Typed, Handles
  <1>10. CASE CallbackPost
    <2>1. Worker \in Posters /\ GetHandle(Worker)
      BY <1>10 DEF CallbackPost, Posters
    <2> QED BY <1>10, <2>1, GetHandleTyped, ControlIInv
            DEF CallbackPost, Calling, stopVars, IInv
  <1>11. CASE CallbackSend
    BY <1>11, CallbackSendIInv
  <1>12. CASE DispatchDone
    BY <1>12, ControlIInv DEF DispatchDone, Calling, postVars, stopVars, IInv, Typed, Handles
  <1>13. CASE Exit
    BY <1>13, ExitIInv
  <1>14. CASE ShutdownLock \/ ShutdownTake \/ StopJoin
    BY <1>14, ElsewhereIInv
       DEF ShutdownLock, ShutdownTake, StopJoin, workerVars, postVars, IInv, Typed, Handles
  <1>15. CASE StopClose
    BY <1>15, ElsewhereIInv DEF StopClose, workerVars, postVars, IInv, Typed, Handles
  <1>16. CASE Finished
    BY <1>16, ElsewhereIInv DEF Finished, vars, IInv, Typed, Handles
  <1>17. CASE UNCHANGED vars
    BY <1>17, ElsewhereIInv DEF vars, IInv, Typed, Handles
  <1> QED
    BY <1>1, <1>2, <1>3, <1>4, <1>5, <1>6, <1>7, <1>8, <1>9, <1>10, <1>11, <1>12,
       <1>13, <1>14, <1>15, <1>16, <1>17
       DEF Next, WorkerStep, ShutdownStep

(* The applied and the queued inputs are together the accepted ones.        *)
THEOREM Balanced == Spec => []IInv
  BY InitIInv, NextIInv, PTL DEF Spec

(* A worker that exits has applied and published every accepted input.      *)
THEOREM NothingIsLost == Spec => []NothingAcceptedIsLost
  <1>1. IInv => NothingAcceptedIsLost
    <2> SUFFICES ASSUME IInv, w = "done" PROVE sm = accepted /\ snapshot = accepted
      BY DEF NothingAcceptedIsLost
    <2>1. queue = <<>> /\ snapshot = sm
      BY DEF IInv, Ended, Published
    <2>2. sm \o <<>> = sm
      BY ConcatEmptySeq DEF IInv, Typed, Handles
    <2> QED BY <2>1, <2>2 DEF IInv, Conserved
  <1> QED BY <1>1, Balanced, PTL

(* While sinks run, the published snapshot is the one on their events.      *)
THEOREM PublishedBeforeSinks == Spec => []SinksSeePublished
  <1>1. IInv => SinksSeePublished
    BY DEF IInv, Published, SinksSeePublished
  <1> QED BY <1>1, Balanced, PTL

(* What is published is what was queued when the batch was captured.        *)
THEOREM BatchIsCaptured == Spec => []BatchIsWhatWasQueued
  <1>1. IInv => BatchIsWhatWasQueued
    BY DEF IInv, Bounded, Published, BatchIsWhatWasQueued, Calling
  <1> QED BY <1>1, Balanced, PTL

-----------------------------------------------------------------------------
(* The delivery.  Of the inputs of the batch, events and actions pick those *)
(* they are about; what a sink was last called for, and what it does not    *)
(* want, reach to where the batch began, or to where the dispatch is.       *)

(* Where the batch begins in what the machine was given. *)
Base == Len(sm) - Len(events)

(* The items are what X posted of s behind position lo, in order. *)
Picks(items, s, lo, X) ==
  \E f \in [1 .. Len(items) -> lo + 1 .. Len(s)] :
    /\ \A i \in 1 .. Len(items) : s[f[i]] = items[i] /\ items[i].by \in X
    /\ \A i, k \in 1 .. Len(items) : i < k => f[i] < f[k]
    /\ \A p \in lo + 1 .. Len(s) : s[p].by \in X => \E i \in 1 .. Len(items) : f[i] = p

(* Events and actions of a batch are those of its inputs. *)
Batched ==
  w \in {"batch", "publish"} \cup Calling =>
    /\ Len(events) <= Len(sm)
    /\ Picks(events, sm, Base, Posters) /\ Picks(actions, sm, Base, Acting)

(* Every registered callback has one place, which it keeps. *)
Registered ==
  /\ \A t \in Stages : \A j \in 1 .. Len(sinks[t]) : StageOf(sinks[t][j]) = t
  /\ \A t \in Stages : \A j, k \in 1 .. Len(sinks[t]) : sinks[t][j] = sinks[t][k] => j = k
  /\ slot = "empty" => sinks[3] = <<>> /\ sinks[4] = <<>>
  /\ \A t \in Stages :
       /\ Len(called[t]) <= Len(sinks[t])
       /\ \A j \in 1 .. Len(called[t]) : called[t][j] = sinks[t][j]

Called(s) == \E j \in 1 .. Len(called[StageOf(s)]) : called[StageOf(s)][j] = s

(* Of the first p inputs s has, since its first call, heard what it wants. *)
Caught(s, p) ==
  heard[s] # <<>> =>
    \E last \in 1 .. p :
      /\ sm[last] = heard[s][Len(heard[s])]
      /\ \A q \in last + 1 .. p : ~WantedBy(s, sm[q])

(* How far the sink at place j of stage t is in the dispatch under way. *)
Served(t, j) ==
  LET s == called[t][j]
  IN /\ t < at.stage \/ (t = at.stage /\ j < at.sink) => Caught(s, Len(sm))
     /\ t > at.stage \/ (t = at.stage /\ j > at.sink) => Caught(s, Base)
     /\ t = at.stage /\ j = at.sink /\ at.item = 1 => Caught(s, Base)
     /\ t = at.stage /\ j = at.sink /\ at.item # 1 =>
          /\ at.item - 1 <= Len(ItemsOf(t))
          /\ heard[s] # <<>>
          /\ heard[s][Len(heard[s])] = ItemsOf(t)[at.item - 1]

Gapless ==
  /\ \A s \in Sinks : heard[s] # <<>> => Called(s)
  /\ w \in {"recv", "done"} => \A s \in Sinks : Caught(s, Len(sm))
  /\ w \in {"batch", "publish"} => \A s \in Sinks : Caught(s, Base)
  /\ w \in Calling => \A t \in Stages : \A j \in 1 .. Len(called[t]) : Served(t, j)

Shaped ==
  /\ slot \in {"empty", "live", "taken"} /\ slot_held \in BOOLEAN
  /\ stop \in {"no", "locked", "taken", "closed", "joined"}
  /\ events \in Seq(Inputs) /\ actions \in Seq(Inputs)
  /\ sinks \in [Stages -> Seq(Sinks)] /\ called \in [Stages -> Seq(Sinks)]
  /\ at \in [stage : 1 .. 5, sink : Nat \ {0}, item : Nat \ {0}]
  /\ heard \in [Sinks -> Seq(Inputs)]

DInv == IInv /\ Shaped /\ Batched /\ Registered /\ Gapless

(* Whose inputs a stage is about. *)
About(t) == IF t \in {1, 3} THEN Posters ELSE Acting

(* A sink wants what its stage is about. *)
LEMMA WantsStage ==
  ASSUME NEW s \in Sinks, NEW t, t = StageOf(s), NEW x \in Inputs
  PROVE  /\ t \in Stages
         /\ WantedBy(s, x) <=> x.by \in About(t)
  <1>1. x.by \in Posters
    BY DEF Inputs
  <1>2. s \in ExternalEvents \/ s \in ExternalActions \/ s \in BuiltinEvents \/ s \in BuiltinActions
    BY DEF Sinks
  <1>3. CASE s \in ExternalEvents
    BY <1>1, <1>3, CoordinatorConstants DEF StageOf, WantedBy, About, Stages
  <1>4. CASE s \in ExternalActions
    <2>1. s \notin ExternalEvents /\ s \notin BuiltinEvents /\ t = 2
      BY <1>4, CoordinatorConstants DEF StageOf
    <2> QED BY <2>1 DEF WantedBy, About, Stages
  <1>5. CASE s \in BuiltinEvents
    <2>1. s \notin ExternalEvents /\ s \notin ExternalActions /\ t = 3
      BY <1>5, CoordinatorConstants DEF StageOf
    <2> QED BY <1>1, <1>5, <2>1 DEF WantedBy, About, Stages
  <1>6. CASE s \in BuiltinActions
    <2>1. s \notin ExternalEvents /\ s \notin ExternalActions /\ s \notin BuiltinEvents /\ t = 4
      BY <1>6, CoordinatorConstants DEF StageOf
    <2> QED BY <2>1 DEF WantedBy, About, Stages
  <1> QED BY <1>2, <1>3, <1>4, <1>5, <1>6

(* The builtin sinks are registered once each. *)
LEMMA SetToSeqLists ==
  ASSUME NEW S, IsFiniteSet(S)
  PROVE  /\ SetToSeq(S) \in Seq(S)
         /\ \A j, k \in 1 .. Len(SetToSeq(S)) : SetToSeq(S)[j] = SetToSeq(S)[k] => j = k
  <1>1. Cardinality(S) \in Nat /\ ExistsBijection(1 .. Cardinality(S), S)
    BY FS_CardinalityType
  <1>2. \E f \in [1 .. Cardinality(S) -> S] : IsInjective(f)
    BY <1>1 DEF ExistsBijection, Bijection, Injection
  <1>3. SetToSeq(S) \in [1 .. Cardinality(S) -> S] /\ IsInjective(SetToSeq(S))
    BY <1>2 DEF SetToSeq
  <1> DEFINE f == SetToSeq(S)
  <1>4. f \in Seq(S) /\ Len(f) = Cardinality(S) /\ DOMAIN f = 1 .. Cardinality(S)
    <2> HIDE DEF f
    <2>1. f \in [1 .. Cardinality(S) -> S]
      BY <1>3 DEF f
    <2> QED BY <1>1, <2>1
  <1> QED BY <1>3, <1>4 DEF IsInjective

-----------------------------------------------------------------------------
(* What events and actions pick.                                           *)

LEMMA PicksNothing ==
  ASSUME NEW s \in Seq(Inputs), NEW X
  PROVE  Picks(<<>>, s, Len(s), X)
  <1>1. Len(s) \in Nat
    BY LenProperties
  <1> DEFINE f == [i \in 1 .. 0 |-> i]
  <1>2. f \in [1 .. Len(<<>>) -> Len(s) + 1 .. Len(s)]
    BY <1>1
  <1>3. Len(<<>>) = 0
    OBVIOUS
  <1> HIDE DEF f
  <1>4. \A i \in 1 .. Len(<<>>) : FALSE
    BY <1>3
  <1>5. \A p \in Len(s) + 1 .. Len(s) : FALSE
    BY <1>1
  <1> QED BY <1>2, <1>4, <1>5 DEF Picks

(* An input extends the items it is about, and only those. *)
LEMMA PicksNext ==
  ASSUME NEW items \in Seq(Inputs), NEW s \in Seq(Inputs), NEW lo \in Nat, NEW X,
         NEW x \in Inputs, lo <= Len(s), Picks(items, s, lo, X)
  PROVE  Picks(IF x.by \in X THEN Append(items, x) ELSE items, Append(s, x), lo, X)
  <1>1. PICK f \in [1 .. Len(items) -> lo + 1 .. Len(s)] :
          /\ \A i \in 1 .. Len(items) : s[f[i]] = items[i] /\ items[i].by \in X
          /\ \A i, k \in 1 .. Len(items) : i < k => f[i] < f[k]
          /\ \A p \in lo + 1 .. Len(s) : s[p].by \in X => \E i \in 1 .. Len(items) : f[i] = p
    BY DEF Picks
  <1>2. Len(items) \in Nat /\ Len(s) \in Nat
    BY LenProperties
  <1>3. /\ Append(s, x) \in Seq(Inputs) /\ Len(Append(s, x)) = Len(s) + 1
        /\ \A i \in 1 .. Len(s) : Append(s, x)[i] = s[i]
        /\ Append(s, x)[Len(s) + 1] = x
    BY AppendProperties
  <1> DEFINE n == Len(items)
             m == Len(s)
             z == Append(s, x)
  <1>4. \A i \in 1 .. n : f[i] \in lo + 1 .. m
    BY <1>1
  <1> HIDE DEF z
  <1>z. Len(z) = m + 1
    BY <1>3 DEF z
  <1>5. CASE x.by \notin X
    <2>1. f \in [1 .. n -> lo + 1 .. m + 1]
      BY <1>1, <1>2
    <2>2. \A i \in 1 .. n : z[f[i]] = items[i] /\ items[i].by \in X
      BY <1>1, <1>2, <1>3, <1>4 DEF z
    <2>3. ASSUME NEW p \in lo + 1 .. m + 1, z[p].by \in X PROVE \E i \in 1 .. n : f[i] = p
      <3>1. p # m + 1
        BY <1>3, <1>5, <2>3 DEF z
      <3>2. p \in lo + 1 .. m /\ z[p] = s[p]
        BY <1>2, <1>3, <3>1 DEF z
      <3> QED BY <1>1, <2>3, <3>2
    <2>4. Picks(items, z, lo, X)
      <3>1. f \in [1 .. Len(items) -> lo + 1 .. Len(z)]
        BY <1>z, <2>1
      <3>2. \A p \in lo + 1 .. Len(z) : z[p].by \in X => \E i \in 1 .. Len(items) : f[i] = p
        BY <1>z, <2>3
      <3> QED BY <1>1, <2>2, <3>1, <3>2 DEF Picks
    <2> QED BY <1>5, <2>4 DEF z
  <1>6. CASE x.by \in X
    <2> DEFINE y == Append(items, x)
               g == [i \in 1 .. n + 1 |-> IF i <= n THEN f[i] ELSE m + 1]
    <2>1. y \in Seq(Inputs) /\ Len(y) = n + 1 /\ (\A i \in 1 .. n : y[i] = items[i]) /\ y[n + 1] = x
      BY AppendProperties
    <2> HIDE DEF y
    <2>2. \A i \in 1 .. n : g[i] = f[i] /\ i \in 1 .. n + 1
      BY <1>2
    <2>3. g[n + 1] = m + 1 /\ n + 1 \in 1 .. n + 1
      BY <1>2
    <2>4. g \in [1 .. n + 1 -> lo + 1 .. m + 1]
      <3>1. \A i \in 1 .. n + 1 : i \in 1 .. n \/ i = n + 1
        BY <1>2
      <3>2. \A i \in 1 .. n + 1 : g[i] \in lo + 1 .. m + 1
        BY <1>2, <1>4, <2>2, <2>3, <3>1
      <3> QED BY <3>2
    <2> HIDE DEF g
    <2>5. ASSUME NEW i \in 1 .. n + 1 PROVE z[g[i]] = y[i] /\ y[i].by \in X
      <3>1. CASE i = n + 1
        BY <1>3, <1>6, <2>1, <2>3, <3>1 DEF z
      <3>2. CASE i # n + 1
        <4>1. i \in 1 .. n
          BY <1>2, <3>2
        <4>2. f[i] \in 1 .. m
          BY <1>2, <1>4, <4>1
        <4> QED BY <1>1, <1>3, <2>1, <2>2, <4>1, <4>2 DEF z
      <3> QED BY <3>1, <3>2
    <2>6. ASSUME NEW i \in 1 .. n + 1, NEW k \in 1 .. n + 1, i < k PROVE g[i] < g[k]
      <3>1. i \in 1 .. n
        BY <1>2, <2>6
      <3>2. CASE k = n + 1
        BY <1>2, <1>4, <2>2, <2>3, <3>1, <3>2
      <3>3. CASE k # n + 1
        <4>1. k \in 1 .. n
          BY <1>2, <3>3
        <4> QED BY <1>1, <2>2, <2>6, <3>1, <4>1
      <3> QED BY <3>2, <3>3
    <2>7. ASSUME NEW p \in lo + 1 .. m + 1, z[p].by \in X PROVE \E i \in 1 .. n + 1 : g[i] = p
      <3>1. CASE p = m + 1
        BY <2>3, <3>1
      <3>2. CASE p # m + 1
        <4>1. p \in lo + 1 .. m /\ z[p] = s[p]
          BY <1>2, <1>3, <3>2 DEF z
        <4>2. PICK i \in 1 .. n : f[i] = p
          BY <1>1, <2>7, <4>1
        <4> QED BY <2>2, <4>2
      <3> QED BY <3>1, <3>2
    <2>8. Picks(y, z, lo, X)
      <3>1. g \in [1 .. Len(y) -> lo + 1 .. Len(z)]
        BY <1>z, <2>1, <2>4
      <3>2. \A p \in lo + 1 .. Len(z) : z[p].by \in X => \E i \in 1 .. Len(y) : g[i] = p
        BY <1>z, <2>1, <2>7
      <3>3. \A i \in 1 .. Len(y) : z[g[i]] = y[i] /\ y[i].by \in X
        BY <2>1, <2>5
      <3>4. \A i, k \in 1 .. Len(y) : i < k => g[i] < g[k]
        BY <2>1, <2>6
      <3> QED BY <3>1, <3>2, <3>3, <3>4 DEF Picks
    <2> QED BY <1>6, <2>8 DEF y, z
  <1> QED BY <1>5, <1>6 DEF z

-----------------------------------------------------------------------------
(* What the steps keep.                                                    *)

LEMMA InitDelivery == Init => Shaped /\ Batched /\ Registered /\ Gapless
  <1> SUFFICES ASSUME Init PROVE Shaped /\ Batched /\ Registered /\ Gapless
    OBVIOUS
  <1>1. <<>> \in Seq(Inputs) /\ <<>> \in Seq(Sinks) /\ Len(<<>>) = 0
    BY EmptySeq
  <1>2. /\ sinks = [k \in Stages |-> <<>>] /\ called = sinks /\ w = "recv" /\ slot = "empty"
        /\ heard = [s \in Sinks |-> <<>>] /\ at = FirstCall
        /\ events = <<>> /\ actions = <<>> /\ stop = "no" /\ slot_held = FALSE
    BY DEF Init
  <1>3. Shaped
    <2>1. sinks \in [Stages -> Seq(Sinks)] /\ called \in [Stages -> Seq(Sinks)]
      BY <1>1, <1>2
    <2>2. heard \in [Sinks -> Seq(Inputs)]
      BY <1>1, <1>2
    <2>3. at \in [stage : 1 .. 5, sink : Nat \ {0}, item : Nat \ {0}]
      BY <1>2 DEF FirstCall
    <2>4. slot_held \in BOOLEAN
      BY <1>2, Zenon
    <2> QED BY <1>1, <1>2, <2>1, <2>2, <2>3, <2>4 DEF Shaped
  <1>4. Batched
    BY <1>2 DEF Batched, Calling
  <1>5. Registered
    <2>1. \A t \in Stages : sinks[t] = <<>> /\ called[t] = <<>>
      BY <1>2
    <2>2. sinks[3] = <<>> /\ sinks[4] = <<>>
      BY <1>2 DEF Stages
    <2>3. \A t \in Stages : Len(sinks[t]) = 0 /\ Len(called[t]) = 0
      BY <1>1, <2>1
    <2> QED BY <2>2, <2>3 DEF Registered
  <1>6. Gapless
    BY <1>2 DEF Gapless, Caught, Calling
  <1> QED BY <1>3, <1>4, <1>5, <1>6

LEMMA SameGapless ==
  ASSUME Gapless, UNCHANGED <<w, sm, events, actions, at, called, heard>>
  PROVE  Gapless'
  <1>1. \A s \in Sinks : (heard[s] # <<>> => Called(s))' <=> (heard[s] # <<>> => Called(s))
    BY DEF Called, StageOf
  <1>2. \A s \in Sinks : (Caught(s, Len(sm))' <=> Caught(s, Len(sm))) /\ (Caught(s, Base)' <=> Caught(s, Base))
    BY DEF Caught, Base, WantedBy
  <1>3. \A t \in Stages : \A j \in 1 .. Len(called[t]) : Served(t, j)' <=> Served(t, j)
    BY DEF Served, Caught, Base, WantedBy, ItemsOf
  <1>4. /\ (w \in {"recv", "done"} => \A s \in Sinks : Caught(s, Len(sm)))'
        /\ (w \in {"batch", "publish"} => \A s \in Sinks : Caught(s, Base))'
    BY <1>2 DEF Gapless
  <1>5. (w \in Calling => \A t \in Stages : \A j \in 1 .. Len(called[t]) : Served(t, j))'
    BY <1>3 DEF Gapless, Calling
  <1> QED BY <1>1, <1>4, <1>5 DEF Gapless

(* A step of the producers or of shutdown leaves the delivery alone. *)
LEMMA ElsewhereDelivery ==
  ASSUME DInv, UNCHANGED <<sinks, w, sm, events, actions, at, called, heard>>,
         Shaped', slot' = "empty" => slot = "empty"
  PROVE  Batched' /\ Registered' /\ Gapless'
  <1>1. Base' = Base /\ \A t \in Stages : ItemsOf(t)' = ItemsOf(t)
    BY DEF Base, ItemsOf
  <1>2. Batched'
    BY <1>1 DEF DInv, Batched, Base, Calling
  <1>3. Registered'
    BY DEF DInv, Registered, StageOf
  <1>4. Gapless'
    BY SameGapless DEF DInv
  <1> QED BY <1>2, <1>3, <1>4

LEMMA InitCoordinatorDelivery ==
  ASSUME DInv, InitCoordinator
  PROVE  Shaped' /\ Batched' /\ Registered' /\ Gapless'
  <1> DEFINE b == SetToSeq(BuiltinEvents)
             c == SetToSeq(BuiltinActions)
  <1>1. /\ slot = "empty" /\ slot' = "live" /\ sinks' = [sinks EXCEPT ![3] = b, ![4] = c]
        /\ UNCHANGED <<w, sm, events, actions, at, called, heard, slot_held, stop>>
    BY DEF InitCoordinator, workerVars
  <1>2. /\ b \in Seq(BuiltinEvents) /\ \A j, k \in 1 .. Len(b) : b[j] = b[k] => j = k
        /\ c \in Seq(BuiltinActions) /\ \A j, k \in 1 .. Len(c) : c[j] = c[k] => j = k
    BY SetToSeqLists, CoordinatorConstants
  <1> HIDE DEF b, c
  <1>3. b \in Seq(Sinks) /\ c \in Seq(Sinks)
    <2>1. BuiltinEvents \subseteq Sinks /\ BuiltinActions \subseteq Sinks
      BY DEF Sinks
    <2> QED BY <1>2, <2>1
  <1>4. sinks \in [Stages -> Seq(Sinks)] /\ 3 \in Stages /\ 4 \in Stages
    BY DEF DInv, Shaped, Stages
  <1>5. /\ sinks'[3] = b /\ sinks'[4] = c
        /\ \A t \in Stages : t \notin {3, 4} => sinks'[t] = sinks[t]
    BY <1>1, <1>4
  <1>6. sinks' \in [Stages -> Seq(Sinks)]
    BY <1>1, <1>3, <1>4
  <1>7. Shaped'
    BY <1>1, <1>6 DEF DInv, Shaped
  <1>8. Base' = Base /\ \A t \in Stages : ItemsOf(t)' = ItemsOf(t)
    BY <1>1 DEF Base, ItemsOf
  <1>9. Batched'
    BY <1>1, <1>8 DEF DInv, Batched, Base, Calling
  <1>10. Gapless'
    BY <1>1, SameGapless DEF DInv
  <1>11. Registered'
    <2>1. ASSUME NEW t \in Stages
          PROVE  /\ \A j \in 1 .. Len(sinks'[t]) : StageOf(sinks'[t][j]) = t
                 /\ \A j, k \in 1 .. Len(sinks'[t]) : sinks'[t][j] = sinks'[t][k] => j = k
                 /\ Len(called'[t]) <= Len(sinks'[t])
                 /\ \A j \in 1 .. Len(called'[t]) : called'[t][j] = sinks'[t][j]
      <3>1. CASE t \notin {3, 4}
        <4>1. /\ \A j \in 1 .. Len(sinks[t]) : StageOf(sinks[t][j]) = t
              /\ \A j, k \in 1 .. Len(sinks[t]) : sinks[t][j] = sinks[t][k] => j = k
              /\ Len(called[t]) <= Len(sinks[t])
              /\ \A j \in 1 .. Len(called[t]) : called[t][j] = sinks[t][j]
          BY DEF DInv, Registered
        <4>2. sinks'[t] = sinks[t] /\ called'[t] = called[t]
          BY <1>1, <1>5, <3>1
        <4> QED BY <4>1, <4>2
      <3>2. ASSUME NEW d, d \in {b, c}, sinks'[t] = d, t \in {3, 4},
                   \A j \in 1 .. Len(d) : StageOf(d[j]) = t
            PROVE  <2>1!2
        <4>1. called[t] = <<>>
          <5>1. sinks[t] = <<>>
            BY <1>1, <3>2 DEF DInv, Registered
          <5>2. Len(called[t]) <= 0 /\ called[t] \in Seq(Sinks)
            BY <1>4, <5>1 DEF DInv, Registered, Shaped
          <5>3. Len(called[t]) = 0
            BY <5>2, LenProperties
          <5> QED BY <5>2, <5>3, EmptySeq
        <4>2. Len(d) \in Nat
          BY <1>3, <3>2, LenProperties
        <4>3. \A j, k \in 1 .. Len(d) : d[j] = d[k] => j = k
          BY <1>2, <3>2
        <4>4. Len(called'[t]) = 0
          BY <1>1, <4>1
        <4> QED BY <3>2, <4>2, <4>3, <4>4
      <3>3. CASE t = 3
        <4>1. \A j \in 1 .. Len(b) : b[j] \in BuiltinEvents
          BY <1>2, ElementOfSeq
        <4>2. \A j \in 1 .. Len(b) : StageOf(b[j]) = t
          BY <3>3, <4>1, CoordinatorConstants DEF StageOf
        <4> QED BY <1>5, <3>2, <3>3, <4>2
      <3>4. CASE t = 4
        <4>1. \A j \in 1 .. Len(c) : c[j] \in BuiltinActions
          BY <1>2, ElementOfSeq
        <4>2. \A j \in 1 .. Len(c) : StageOf(c[j]) = t
          BY <3>4, <4>1, CoordinatorConstants DEF StageOf
        <4> QED BY <1>5, <3>2, <3>4, <4>2
      <3> QED BY <3>1, <3>3, <3>4
    <2> QED BY <1>1, <2>1 DEF Registered, StageOf
  <1> QED BY <1>7, <1>9, <1>10, <1>11

LEMMA RegisterDelivery ==
  ASSUME DInv, NEW s \in Sinks, Register(s)
  PROVE  Shaped' /\ Batched' /\ Registered' /\ Gapless'
  <1> DEFINE u == StageOf(s)
  <1>1. /\ slot = "live" /\ ~Contains(sinks[u], s)
        /\ sinks' = [sinks EXCEPT ![u] = Append(@, s)]
        /\ UNCHANGED <<w, sm, events, actions, at, called, heard, slot, slot_held, stop>>
    BY DEF Register, workerVars, stopVars
  <1>2. u \in Stages
    BY DEF StageOf, Stages
  <1> HIDE DEF u
  <1>3. sinks \in [Stages -> Seq(Sinks)]
    BY DEF DInv, Shaped
  <1>4. /\ sinks'[u] = Append(sinks[u], s)
        /\ \A t \in Stages : t # u => sinks'[t] = sinks[t]
    BY <1>1, <1>2, <1>3
  <1>5. /\ sinks'[u] \in Seq(Sinks) /\ Len(sinks'[u]) = Len(sinks[u]) + 1 /\ Len(sinks[u]) \in Nat
        /\ \A j \in 1 .. Len(sinks[u]) : sinks'[u][j] = sinks[u][j]
        /\ sinks'[u][Len(sinks[u]) + 1] = s
    BY <1>2, <1>3, <1>4, AppendProperties, LenProperties
  <1>6. Shaped'
    <2>1. sinks' \in [Stages -> Seq(Sinks)]
      BY <1>1, <1>2, <1>3, <1>5
    <2> QED BY <1>1, <2>1 DEF DInv, Shaped
  <1>7. Base' = Base /\ \A t \in Stages : ItemsOf(t)' = ItemsOf(t)
    BY <1>1 DEF Base, ItemsOf
  <1>8. Batched'
    BY <1>1, <1>7 DEF DInv, Batched, Base, Calling
  <1>9. Gapless'
    BY <1>1, SameGapless DEF DInv
  <1>10. Registered'
    <2>1. ASSUME NEW t \in Stages
          PROVE  /\ \A j \in 1 .. Len(sinks'[t]) : StageOf(sinks'[t][j]) = t
                 /\ \A j, k \in 1 .. Len(sinks'[t]) : sinks'[t][j] = sinks'[t][k] => j = k
                 /\ Len(called'[t]) <= Len(sinks'[t])
                 /\ \A j \in 1 .. Len(called'[t]) : called'[t][j] = sinks'[t][j]
      <3>1. CASE t # u
        BY <1>1, <1>4, <3>1 DEF DInv, Registered, StageOf
      <3>2. CASE t = u
        <4>1. \A j \in 1 .. Len(sinks[u]) : sinks[u][j] # s
          BY <1>1 DEF Contains
        <4>2. /\ \A j \in 1 .. Len(sinks[u]) : StageOf(sinks[u][j]) = u
              /\ \A j, k \in 1 .. Len(sinks[u]) : sinks[u][j] = sinks[u][k] => j = k
              /\ Len(called[u]) <= Len(sinks[u])
              /\ \A j \in 1 .. Len(called[u]) : called[u][j] = sinks[u][j]
          BY <1>2 DEF DInv, Registered
        <4>3. StageOf(s) = u
          BY DEF u
        <4>4. Len(called[u]) \in Nat
          BY <1>2, LenProperties DEF DInv, Shaped
        <4>5. \A j \in 1 .. Len(sinks'[u]) : j \in 1 .. Len(sinks[u]) \/ j = Len(sinks[u]) + 1
          BY <1>5
        <4>6. \A j \in 1 .. Len(sinks'[u]) : StageOf(sinks'[u][j]) = u
          BY <1>5, <4>2, <4>3, <4>5
        <4>7. \A j, k \in 1 .. Len(sinks'[u]) : sinks'[u][j] = sinks'[u][k] => j = k
          BY <1>5, <4>1, <4>2, <4>5
        <4>8. \A j \in 1 .. Len(called[u]) : j \in 1 .. Len(sinks[u])
          BY <1>5, <4>2, <4>4
        <4>9. Len(called[u]) <= Len(sinks'[u]) /\ \A j \in 1 .. Len(called[u]) : called[u][j] = sinks'[u][j]
          BY <1>5, <4>2, <4>4, <4>8
        <4> QED BY <1>1, <3>2, <4>6, <4>7, <4>9
      <3> QED BY <3>1, <3>2
    <2> QED BY <1>1, <2>1 DEF Registered, StageOf
  <1> QED BY <1>6, <1>8, <1>9, <1>10

(* The types the steps of the worker need. *)
LEMMA TypesNow ==
  ASSUME DInv
  PROVE  /\ sm \in Seq(Inputs) /\ Len(sm) \in Nat
         /\ events \in Seq(Inputs) /\ Len(events) \in Nat
         /\ actions \in Seq(Inputs) /\ Len(actions) \in Nat
         /\ Base \in Int
         /\ w \in {"batch", "publish"} \cup Calling => Base \in Nat /\ Base <= Len(sm)
  <1>1. sm \in Seq(Inputs) /\ events \in Seq(Inputs) /\ actions \in Seq(Inputs)
    BY DEF DInv, IInv, Typed, Shaped
  <1>2. Len(sm) \in Nat /\ Len(events) \in Nat /\ Len(actions) \in Nat
    BY <1>1, LenProperties
  <1>3. w \in {"batch", "publish"} \cup Calling => Len(events) <= Len(sm)
    BY DEF DInv, Batched
  <1> QED BY <1>1, <1>2, <1>3 DEF Base

LEMMA RecvDelivery ==
  ASSUME DInv, Recv
  PROVE  Shaped' /\ Batched' /\ Registered' /\ Gapless'
  <1>1. /\ w = "recv" /\ w' = "batch" /\ events' = <<>> /\ actions' = <<>>
        /\ UNCHANGED <<sm, at, called, heard, sinks, slot, slot_held, stop>>
    BY DEF Recv, stopVars
  <1>2. <<>> \in Seq(Inputs) /\ Len(<<>>) = 0
    BY EmptySeq
  <1>3. sm \in Seq(Inputs) /\ Len(sm) \in Nat /\ Base' = Len(sm)
    BY <1>1, <1>2, TypesNow DEF Base
  <1>4. Shaped'
    BY <1>1, <1>2 DEF DInv, Shaped
  <1>5. Batched'
    BY <1>1, <1>2, <1>3, PicksNothing DEF Batched
  <1>6. Registered'
    BY <1>1 DEF DInv, Registered, StageOf
  <1>7. Gapless'
    <2>1. \A s \in Sinks : Caught(s, Len(sm)) /\ (heard[s] # <<>> => Called(s))
      BY <1>1 DEF DInv, Gapless
    <2>2. \A s \in Sinks : Caught(s, Base)' /\ (heard[s] # <<>> => Called(s))'
      BY <1>1, <1>3, <2>1 DEF Caught, Called, StageOf, WantedBy
    <2> QED BY <1>1, <2>2 DEF Gapless, Calling
  <1> QED BY <1>4, <1>5, <1>6, <1>7

(* A batch under way has an input to take. *)
LEMMA ApplyTakes ==
  ASSUME IInv, ApplyNext
  PROVE  Head(queue) \in Inputs
  <1>1. /\ Len(queue) \in Nat /\ Len(sm) \in Nat
        /\ Len(accepted) = Len(sm) + Len(queue)
    BY ConcatProperties, LenProperties DEF IInv, Typed, Handles, Conserved
  <1>2. left + Len(sm) = captured /\ captured <= Len(accepted) /\ left \in Nat /\ left > 0
    BY DEF ApplyNext, BatchLeft, IInv, Typed, Handles, Bounded
  <1>3. Len(queue) > 0
    BY <1>1, <1>2
  <1>4. queue # <<>>
    BY <1>3, EmptySeq
  <1> QED BY <1>4, HeadTailProperties DEF IInv, Typed, Handles

LEMMA ApplyNextDelivery ==
  ASSUME DInv, ApplyNext
  PROVE  Shaped' /\ Batched' /\ Registered' /\ Gapless'
  <1> DEFINE x == Head(queue)
  <1>1. /\ w = "batch" /\ w' = "batch"
        /\ sm' = Append(sm, x) /\ events' = Append(events, x)
        /\ actions' = IF x.by \in Acting THEN Append(actions, x) ELSE actions
        /\ UNCHANGED <<at, called, heard, sinks, slot, slot_held, stop>>
    BY DEF ApplyNext, stopVars
  <1>2. x \in Inputs
    BY ApplyTakes DEF DInv
  <1> HIDE DEF x
  <1>3. x.by \in Posters
    BY <1>2 DEF Inputs
  <1>4. /\ sm \in Seq(Inputs) /\ events \in Seq(Inputs) /\ actions \in Seq(Inputs)
        /\ Len(sm) \in Nat /\ Len(events) \in Nat /\ Base \in Nat /\ Base <= Len(sm)
    BY <1>1, TypesNow
  <1>5. /\ sm' \in Seq(Inputs) /\ Len(sm') = Len(sm) + 1
        /\ \A p \in 1 .. Len(sm) : sm'[p] = sm[p]
        /\ events' \in Seq(Inputs) /\ Len(events') = Len(events) + 1
        /\ actions' \in Seq(Inputs)
    BY <1>1, <1>2, <1>4, AppendProperties
  <1>6. Base' = Base
    BY <1>4, <1>5 DEF Base
  <1>7. Shaped'
    BY <1>1, <1>5 DEF DInv, Shaped
  <1>8. Batched'
    <2>1. Picks(events, sm, Base, Posters) /\ Picks(actions, sm, Base, Acting)
      BY <1>1 DEF DInv, Batched
    <2>2. Picks(events', sm', Base, Posters)
      BY <1>1, <1>2, <1>3, <1>4, <2>1, PicksNext
    <2>3. Picks(actions', sm', Base, Acting)
      BY <1>1, <1>2, <1>4, <2>1, PicksNext
    <2>4. Len(events') <= Len(sm')
      BY <1>4, <1>5 DEF Base
    <2> QED BY <1>6, <2>2, <2>3, <2>4 DEF Batched
  <1>9. Registered'
    BY <1>1 DEF DInv, Registered, StageOf
  <1>10. Gapless'
    <2>1. ASSUME NEW s \in Sinks PROVE (heard[s] # <<>> => Called(s))' /\ Caught(s, Base)'
      <3>1. Caught(s, Base) /\ (heard[s] # <<>> => Called(s))
        BY <1>1 DEF DInv, Gapless
      <3>2. (heard[s] # <<>> => Called(s))'
        BY <1>1, <3>1 DEF Called, StageOf
      <3>3. CASE heard[s] = <<>>
        BY <1>1, <3>2, <3>3 DEF Caught
      <3>4. CASE heard[s] # <<>>
        <4>1. PICK last \in 1 .. Base :
                /\ sm[last] = heard[s][Len(heard[s])]
                /\ \A q \in last + 1 .. Base : ~WantedBy(s, sm[q])
          BY <3>1, <3>4 DEF Caught
        <4>2. sm'[last] = sm[last] /\ \A q \in last + 1 .. Base : sm'[q] = sm[q]
          <5>1. last \in 1 .. Len(sm) /\ \A q \in last + 1 .. Base : q \in 1 .. Len(sm)
            BY <1>4
          <5> QED BY <1>5, <5>1
        <4>3. /\ sm'[last] = heard'[s][Len(heard'[s])]
              /\ \A q \in last + 1 .. Base' : ~WantedBy(s, sm'[q])
          BY <1>1, <1>6, <4>1, <4>2
        <4> QED BY <1>6, <3>2, <4>1, <4>3 DEF Caught, WantedBy
      <3> QED BY <3>3, <3>4
    <2> QED BY <1>1, <2>1 DEF Gapless, Calling
  <1> QED BY <1>7, <1>8, <1>9, <1>10

LEMMA PublishDelivery ==
  ASSUME DInv, Publish
  PROVE  Shaped' /\ Batched' /\ Registered' /\ Gapless'
  <1>1. /\ w = "batch" /\ w' = "publish"
        /\ UNCHANGED <<sm, events, actions, at, called, heard, sinks, slot, slot_held, stop>>
    BY DEF Publish, stopVars
  <1>2. Shaped' /\ Registered'
    BY <1>1 DEF DInv, Shaped, Registered, StageOf
  <1>3. Batched'
    BY <1>1 DEF DInv, Batched, Base, Calling
  <1>4. Gapless'
    <2>1. \A s \in Sinks : Caught(s, Base) /\ (heard[s] # <<>> => Called(s))
      BY <1>1 DEF DInv, Gapless
    <2>2. \A s \in Sinks : Caught(s, Base)' /\ (heard[s] # <<>> => Called(s))'
      BY <1>1, <2>1 DEF Caught, Called, StageOf, WantedBy, Base
    <2> QED BY <1>1, <2>2 DEF Gapless, Calling
  <1> QED BY <1>2, <1>3, <1>4

(* A sink that was ever called is registered, and thus in the registry that *)
(* a dispatch clones.                                                       *)
LEMMA DispatchDelivery ==
  ASSUME DInv, Dispatch
  PROVE  Shaped' /\ Batched' /\ Registered' /\ Gapless'
  <1>1. /\ w = "publish" /\ w' = "dispatch" /\ called' = sinks /\ at' = FirstCall
        /\ UNCHANGED <<sm, events, actions, heard, sinks, slot, slot_held, stop>>
    BY DEF Dispatch, stopVars
  <1>2. at'.stage = 1 /\ at'.sink = 1 /\ at'.item = 1
    BY <1>1 DEF FirstCall
  <1>3. Shaped'
    <2>1. at' \in [stage : 1 .. 5, sink : Nat \ {0}, item : Nat \ {0}]
      BY <1>1 DEF FirstCall
    <2> QED BY <1>1, <2>1 DEF DInv, Shaped
  <1>4. Batched'
    BY <1>1 DEF DInv, Batched, Base, Calling
  <1>5. \A t \in Stages : Len(sinks[t]) \in Nat /\ Len(called[t]) \in Nat
    BY LenProperties DEF DInv, Shaped
  <1>6. Registered'
    BY <1>1, <1>5 DEF DInv, Registered, StageOf
  <1>7. \A s \in Sinks : Caught(s, Base)'
    <2>1. \A s \in Sinks : Caught(s, Base)
      BY <1>1 DEF DInv, Gapless
    <2> QED BY <1>1, <2>1 DEF Caught, WantedBy, Base
  <1>8. ASSUME NEW s \in Sinks, heard'[s] # <<>> PROVE Called(s)'
    <2>1. Called(s) /\ StageOf(s) \in Stages
      BY <1>1, <1>8 DEF DInv, Gapless, StageOf, Stages
    <2>2. PICK j \in 1 .. Len(called[StageOf(s)]) : called[StageOf(s)][j] = s
      BY <2>1 DEF Called
    <2>3. j \in 1 .. Len(sinks[StageOf(s)]) /\ sinks[StageOf(s)][j] = s
      BY <1>5, <2>1, <2>2 DEF DInv, Registered
    <2> QED BY <1>1, <2>3 DEF Called, StageOf
  <1>9. ASSUME NEW t \in Stages, NEW j \in 1 .. Len(called'[t]) PROVE Served(t, j)'
    <2>1. called'[t][j] \in Sinks
      BY <1>1, ElementOfSeq DEF DInv, Shaped
    <2>2. Caught(called[t][j], Base)'
      BY <1>7, <2>1
    <2>3. t \in 1 .. 4 /\ j \in Int /\ j >= 1
      BY <1>1, <1>5 DEF Stages
    <2> QED BY <1>2, <2>2, <2>3 DEF Served
  <1>10. Gapless'
    BY <1>1, <1>8, <1>9 DEF Gapless, Calling
  <1> QED BY <1>3, <1>4, <1>6, <1>10

(* The control steps of a callback. *)
LEMMA ControlDelivery ==
  ASSUME DInv, w \in Calling, w' \in Calling,
         UNCHANGED <<sm, events, actions, at, called, heard, sinks, slot, slot_held, stop>>
  PROVE  Shaped' /\ Batched' /\ Registered' /\ Gapless'
  <1>1. Shaped' /\ Registered'
    BY DEF DInv, Shaped, Registered, StageOf
  <1>2. Batched'
    BY DEF DInv, Batched, Base, Calling
  <1>3. Gapless'
    <2>1. \A s \in Sinks : (heard[s] # <<>> => Called(s))' <=> (heard[s] # <<>> => Called(s))
      BY DEF Called, StageOf
    <2>2. \A t \in Stages : \A j \in 1 .. Len(called[t]) : Served(t, j)' <=> Served(t, j)
      BY DEF Served, Caught, Base, WantedBy, ItemsOf
    <2> QED BY <2>1, <2>2 DEF DInv, Gapless, Calling
  <1> QED BY <1>1, <1>2, <1>3

(* What the items of a stage pick, while sinks are called. *)
LEMMA ItemsPicked ==
  ASSUME DInv, w \in Calling, NEW t \in Stages
  PROVE  /\ ItemsOf(t) \in Seq(Inputs) /\ Len(ItemsOf(t)) \in Nat
         /\ Picks(ItemsOf(t), sm, Base, About(t))
  <1>1. Picks(events, sm, Base, Posters) /\ Picks(actions, sm, Base, Acting)
    BY DEF DInv, Batched
  <1> QED BY <1>1, TypesNow DEF ItemsOf, About

(* The sink and the input a call is about. *)
LEMMA CallNow ==
  ASSUME DInv, w = "dispatch", at.stage \in Stages, at.sink <= Len(called[at.stage]),
         NEW t, t = at.stage, NEW j, j = at.sink, NEW s, s = called[t][j]
  PROVE  /\ t \in Stages /\ j \in 1 .. Len(called[t]) /\ Len(called[t]) \in Nat
         /\ s \in Sinks /\ StageOf(s) = t /\ Served(t, j)
         /\ at.item \in Nat \ {0}
  <1>1. t \in Stages /\ called[t] \in Seq(Sinks) /\ j \in Nat \ {0} /\ at.item \in Nat \ {0}
    BY DEF DInv, Shaped
  <1>2. Len(called[t]) \in Nat /\ Len(sinks[t]) \in Nat /\ j \in 1 .. Len(called[t])
    BY <1>1, LenProperties DEF DInv, Shaped
  <1>3. s \in Sinks
    BY <1>1, <1>2, ElementOfSeq
  <1>4. StageOf(s) = t
    BY <1>1, <1>2 DEF DInv, Registered
  <1>5. Served(t, j)
    BY <1>1, <1>2 DEF DInv, Gapless, Calling
  <1> QED BY <1>1, <1>2, <1>3, <1>4, <1>5

(* A sink behind which lies nothing but its batch is next called for the    *)
(* first item, and then item by item, with nothing it wants in between.     *)
LEMMA NextIsWanted ==
  ASSUME DInv, w = "dispatch", at.stage \in Stages, at.sink <= Len(called[at.stage]),
         at.item <= Len(ItemsOf(at.stage)),
         NEW s, s = called[at.stage][at.sink]
  PROVE  \E last \in 0 .. Len(sm), next \in 1 .. Len(sm) :
           /\ last < next
           /\ heard[s] # <<>> => last > 0 /\ sm[last] = heard[s][Len(heard[s])]
           /\ sm[next] = ItemsOf(at.stage)[at.item] /\ WantedBy(s, sm[next])
           /\ heard[s] # <<>> => \A skipped \in last + 1 .. next - 1 : ~WantedBy(s, sm[skipped])
  <1> DEFINE t == at.stage
             i == at.item
             items == ItemsOf(t)
             n == Len(items)
             m == Len(sm)
             b == Base
  <1>1. t \in Stages /\ s \in Sinks /\ t = StageOf(s) /\ Served(t, at.sink) /\ i \in Nat \ {0}
    BY CallNow
  <1>2. items \in Seq(Inputs) /\ n \in Nat /\ Picks(items, sm, b, About(t))
    BY <1>1, ItemsPicked DEF Calling
  <1>3. sm \in Seq(Inputs) /\ m \in Nat /\ b \in Nat /\ b <= m
    BY TypesNow DEF Calling
  <1>4. i \in 1 .. n
    BY <1>1, <1>2
  <1>5. PICK f \in [1 .. n -> b + 1 .. m] :
          /\ \A k \in 1 .. n : sm[f[k]] = items[k] /\ items[k].by \in About(t)
          /\ \A k, l \in 1 .. n : k < l => f[k] < f[l]
          /\ \A p \in b + 1 .. m : sm[p].by \in About(t) => \E k \in 1 .. n : f[k] = p
    BY <1>2 DEF Picks
  <1>6. \A k \in 1 .. n : f[k] \in b + 1 .. m
    BY <1>5
  <1>7. \A p \in 1 .. m : sm[p] \in Inputs
    BY <1>3, ElementOfSeq
  <1>8. \A p \in 1 .. m : WantedBy(s, sm[p]) <=> sm[p].by \in About(t)
    BY <1>1, <1>7, WantsStage
  <1>9. /\ t = at.stage /\ at.sink = at.sink
        /\ i = 1 => Caught(s, b)
        /\ i # 1 => heard[s] # <<>> /\ heard[s][Len(heard[s])] = items[i - 1]
    BY <1>1 DEF Served
  <1> HIDE DEF t, i, items, n, m, b
  <1> DEFINE next == f[i]
  <1>10. next \in 1 .. m /\ next \in b + 1 .. m /\ sm[next] = items[i] /\ WantedBy(s, sm[next])
    <2>1. next \in b + 1 .. m
      BY <1>4, <1>6
    <2>2. next \in 1 .. m
      BY <1>3, <2>1
    <2> QED BY <1>4, <1>5, <1>8, <2>1, <2>2
  <1>11. ASSUME NEW q \in b + 1 .. m, WantedBy(s, sm[q]), q < next
         PROVE  \E k \in 1 .. n : f[k] = q /\ k < i
    <2>1. q \in 1 .. m
      BY <1>3
    <2>2. sm[q].by \in About(t)
      BY <1>8, <1>11, <2>1
    <2>3. PICK k \in 1 .. n : f[k] = q
      BY <1>5, <2>2
    <2>4. ~(i < k) /\ i # k
      BY <1>4, <1>5, <1>6, <1>11, <2>3
    <2> QED BY <1>2, <1>4, <2>3, <2>4
  <1>12. CASE i = 1
    <2>1. \A q \in b + 1 .. m : q < next => ~WantedBy(s, sm[q])
      BY <1>2, <1>11, <1>12
    <2>2. CASE heard[s] = <<>>
      <3>1. 0 \in 0 .. m /\ 0 < next
        BY <1>3, <1>10
      <3> QED BY <1>10, <2>2, <3>1 DEF t, i, items, m
    <2>3. CASE heard[s] # <<>>
      <3>1. PICK last \in 1 .. b : /\ sm[last] = heard[s][Len(heard[s])]
                                   /\ \A q \in last + 1 .. b : ~WantedBy(s, sm[q])
        BY <1>9, <1>12, <2>3 DEF Caught
      <3>2. last \in 0 .. m /\ last < next /\ last > 0
        BY <1>3, <1>10
      <3>3. ASSUME NEW q \in last + 1 .. next - 1 PROVE ~WantedBy(s, sm[q])
        <4>1. CASE q <= b
          BY <1>3, <1>10, <3>1, <3>2, <4>1
        <4>2. CASE q > b
          <5>1. q \in b + 1 .. m /\ q < next
            BY <1>3, <1>10, <3>2, <4>2
          <5> QED BY <2>1, <5>1
        <4> QED BY <1>3, <1>10, <3>2, <4>1, <4>2
      <3> QED BY <1>10, <3>1, <3>2, <3>3 DEF t, i, items, m
    <2> QED BY <2>2, <2>3
  <1>13. CASE i # 1
    <2> DEFINE last == f[i - 1]
    <2>1. i - 1 \in 1 .. n /\ i - 1 < i
      BY <1>2, <1>4, <1>13
    <2>2. last \in b + 1 .. m /\ sm[last] = items[i - 1] /\ last < next
      BY <1>4, <1>5, <1>6, <2>1
    <2>3. last \in 0 .. m /\ last > 0
      BY <1>3, <2>2
    <2>4. heard[s] # <<>> /\ sm[last] = heard[s][Len(heard[s])]
      BY <1>9, <1>13, <2>2
    <2>5. ASSUME NEW q \in last + 1 .. next - 1, WantedBy(s, sm[q]) PROVE FALSE
      <3>1. q \in b + 1 .. m /\ q < next /\ q > last
        BY <1>3, <1>10, <2>2
      <3>2. PICK k \in 1 .. n : f[k] = q /\ k < i
        BY <1>11, <2>5, <3>1
      <3>3. k = i - 1 \/ k < i - 1
        BY <1>2, <1>4, <3>2
      <3>4. CASE k = i - 1
        BY <2>2, <3>1, <3>2, <3>4
      <3>5. CASE k < i - 1
        <4>1. f[k] < last
          BY <1>5, <2>1, <3>5
        <4> QED BY <1>3, <2>2, <3>1, <3>2, <4>1
      <3> QED BY <3>3, <3>4, <3>5
    <2> HIDE DEF last
    <2> QED BY <1>10, <2>2, <2>3, <2>4, <2>5 DEF t, i, items, m
  <1> QED BY <1>12, <1>13

(* A sink that has had every item of the batch has caught up. *)
LEMMA DoneCaughtUp ==
  ASSUME DInv, w = "dispatch", at.stage \in Stages, at.sink <= Len(called[at.stage]),
         at.item > Len(ItemsOf(at.stage)),
         NEW s, s = called[at.stage][at.sink]
  PROVE  Caught(s, Len(sm))
  <1> DEFINE t == at.stage
             i == at.item
             items == ItemsOf(t)
             n == Len(items)
             m == Len(sm)
             b == Base
  <1>1. t \in Stages /\ s \in Sinks /\ t = StageOf(s) /\ Served(t, at.sink) /\ i \in Nat \ {0}
    BY CallNow
  <1>2. items \in Seq(Inputs) /\ n \in Nat /\ Picks(items, sm, b, About(t))
    BY <1>1, ItemsPicked DEF Calling
  <1>3. sm \in Seq(Inputs) /\ m \in Nat /\ b \in Nat /\ b <= m
    BY TypesNow DEF Calling
  <1>4. PICK f \in [1 .. n -> b + 1 .. m] :
          /\ \A k \in 1 .. n : sm[f[k]] = items[k] /\ items[k].by \in About(t)
          /\ \A k, l \in 1 .. n : k < l => f[k] < f[l]
          /\ \A p \in b + 1 .. m : sm[p].by \in About(t) => \E k \in 1 .. n : f[k] = p
    BY <1>2 DEF Picks
  <1>5. \A p \in 1 .. m : WantedBy(s, sm[p]) <=> sm[p].by \in About(t)
    <2>1. \A p \in 1 .. m : sm[p] \in Inputs
      BY <1>3, ElementOfSeq
    <2> QED BY <1>1, <2>1, WantsStage
  <1>6. /\ i = 1 => Caught(s, b)
        /\ i # 1 => i - 1 <= n /\ heard[s] # <<>> /\ heard[s][Len(heard[s])] = items[i - 1]
    BY <1>1 DEF Served
  <1>7. i > n
    OBVIOUS
  <1> HIDE DEF t, i, items, n, m, b
  <1>8. SUFFICES ASSUME heard[s] # <<>>
                 PROVE  \E last \in 1 .. m : /\ sm[last] = heard[s][Len(heard[s])]
                                             /\ \A q \in last + 1 .. m : ~WantedBy(s, sm[q])
    BY DEF Caught, m
  <1>9. \A k \in 1 .. n : f[k] \in b + 1 .. m
    BY <1>4
  <1>10. CASE i = 1
    <2>1. n = 0
      BY <1>2, <1>7, <1>10
    <2>2. PICK last \in 1 .. b : /\ sm[last] = heard[s][Len(heard[s])]
                                 /\ \A q \in last + 1 .. b : ~WantedBy(s, sm[q])
      BY <1>6, <1>8, <1>10 DEF Caught
    <2>3. \A q \in b + 1 .. m : ~WantedBy(s, sm[q])
      <3>1. \A q \in b + 1 .. m : q \in 1 .. m
        BY <1>3
      <3> QED BY <1>4, <1>5, <2>1, <3>1
    <2>4. last \in 1 .. m /\ \A q \in last + 1 .. m : q \in last + 1 .. b \/ q \in b + 1 .. m
      BY <1>3
    <2> QED BY <2>2, <2>3, <2>4
  <1>11. CASE i # 1
    <2>1. i - 1 = n /\ n \in 1 .. n
      BY <1>1, <1>2, <1>6, <1>7, <1>11 DEF i
    <2> DEFINE last == f[n]
    <2>2. last \in b + 1 .. m /\ sm[last] = heard[s][Len(heard[s])]
      BY <1>4, <1>6, <1>9, <1>11, <2>1
    <2>3. ASSUME NEW q \in last + 1 .. m, WantedBy(s, sm[q]) PROVE FALSE
      <3>1. q \in 1 .. m /\ q \in b + 1 .. m /\ q > last
        BY <1>3, <2>2
      <3>2. PICK k \in 1 .. n : f[k] = q
        BY <1>4, <1>5, <2>3, <3>1
      <3>3. k = n \/ k < n
        BY <1>2, <3>2
      <3>4. ~(k < n)
        <4>1. k < n => f[k] < f[n]
          BY <1>4, <2>1
        <4> QED BY <1>3, <2>2, <3>1, <3>2, <4>1
      <3> QED BY <1>3, <2>2, <3>1, <3>2, <3>3, <3>4
    <2>4. last \in 1 .. m
      BY <1>3, <2>2
    <2> QED BY <2>2, <2>3, <2>4
  <1> QED BY <1>10, <1>11

(* The places of the registry that a dispatch cloned name different sinks.  *)
LEMMA OnePlace ==
  ASSUME DInv, NEW t \in Stages, NEW u \in Stages,
         NEW j \in 1 .. Len(called[t]), NEW k \in 1 .. Len(called[u]),
         called[t][j] = called[u][k]
  PROVE  t = u /\ j = k
  <1>1. /\ Len(called[t]) \in Nat /\ Len(sinks[t]) \in Nat
        /\ Len(called[u]) \in Nat /\ Len(sinks[u]) \in Nat
    BY LenProperties DEF DInv, Shaped
  <1>2. /\ j \in 1 .. Len(sinks[t]) /\ sinks[t][j] = called[t][j]
        /\ k \in 1 .. Len(sinks[u]) /\ sinks[u][k] = called[u][k]
    BY <1>1 DEF DInv, Registered
  <1>3. t = u
    BY <1>2 DEF DInv, Registered
  <1> QED BY <1>2, <1>3 DEF DInv, Registered

LEMMA CallDelivery ==
  ASSUME DInv, Call
  PROVE  Shaped' /\ Batched' /\ Registered' /\ Gapless'
  <1> DEFINE t == at.stage
             j == at.sink
             i == at.item
             s == called[t][j]
             x == ItemsOf(t)[i]
  <1>1. /\ w = "dispatch" /\ t \in Stages /\ j <= Len(called[t]) /\ i <= Len(ItemsOf(t))
        /\ heard' = [heard EXCEPT ![s] = Append(@, x)]
        /\ at' = [at EXCEPT !.item = i + 1]
        /\ UNCHANGED <<sm, events, actions, called, sinks, slot, slot_held, stop>>
    BY DEF Call, stopVars
  <1>2. w' \in Calling
    BY DEF Call, Calling
  <1>3. j \in 1 .. Len(called[t]) /\ s \in Sinks /\ StageOf(s) = t /\ i \in Nat \ {0}
    BY <1>1, CallNow
  <1>4. ItemsOf(t) \in Seq(Inputs) /\ Len(ItemsOf(t)) \in Nat /\ i \in 1 .. Len(ItemsOf(t))
    BY <1>1, <1>3, ItemsPicked DEF Calling
  <1>5. x \in Inputs
    BY <1>4, ElementOfSeq
  <1>6. heard \in [Sinks -> Seq(Inputs)] /\ at \in [stage : 1 .. 5, sink : Nat \ {0}, item : Nat \ {0}]
    BY DEF DInv, Shaped
  <1>7. /\ at'.stage = t /\ at'.sink = j /\ at'.item = i + 1
        /\ at' \in [stage : 1 .. 5, sink : Nat \ {0}, item : Nat \ {0}]
    BY <1>1, <1>6
  <1> HIDE DEF s, x
  <1>8. /\ heard'[s] = Append(heard[s], x)
        /\ \A r \in Sinks : r # s => heard'[r] = heard[r]
    BY <1>1, <1>3, <1>6
  <1>9. /\ heard'[s] \in Seq(Inputs) /\ heard'[s] # <<>>
        /\ heard'[s][Len(heard'[s])] = x
    <2>1. Len(heard[s]) \in Nat /\ heard[s] \in Seq(Inputs)
      BY <1>3, <1>6, LenProperties
    <2> QED BY <1>5, <1>8, <2>1, AppendProperties
  <1>10. Shaped'
    <2>1. heard' \in [Sinks -> Seq(Inputs)]
      BY <1>1, <1>3, <1>6, <1>8, <1>9
    <2> QED BY <1>1, <1>7, <2>1 DEF DInv, Shaped
  <1>11. Batched'
    BY <1>1, <1>2 DEF DInv, Batched, Base, Calling
  <1>12. Registered'
    BY <1>1 DEF DInv, Registered, StageOf
  <1>13. ASSUME NEW r \in Sinks, heard'[r] # <<>> PROVE Called(r)'
    <2>1. CASE r = s
      <3>1. called'[StageOf(s)][j] = s /\ j \in 1 .. Len(called'[StageOf(s)])
        BY <1>1, <1>3 DEF s
      <3> QED BY <2>1, <3>1 DEF Called, StageOf
    <2>2. CASE r # s
      <3>1. Called(r)
        BY <1>8, <1>13, <2>2 DEF DInv, Gapless
      <3> QED BY <1>1, <3>1 DEF Called, StageOf
    <2> QED BY <2>1, <2>2
  <1>14. ASSUME NEW u \in Stages, NEW k \in 1 .. Len(called'[u]) PROVE Served(u, k)'
    <2> DEFINE r == called[u][k]
    <2>1. k \in 1 .. Len(called[u]) /\ called'[u][k] = r
      BY <1>1
    <2>2. r \in Sinks
      BY <2>1, ElementOfSeq DEF DInv, Shaped
    <2>3. Served(u, k)
      BY <1>1, <2>1 DEF DInv, Gapless, Calling
    <2>4. CASE u = t /\ k = j
      <3>1. r = s
        BY <2>4 DEF s
      <3>2. at'.item # 1 /\ at'.item - 1 = i /\ at'.stage = u /\ at'.sink = k
        BY <1>3, <1>7, <2>4
      <3>3. ItemsOf(u)' = ItemsOf(u) /\ ItemsOf(u)[i] = x
        BY <1>1, <2>4 DEF ItemsOf, x
      <3>4. i <= Len(ItemsOf(u))
        BY <1>1, <2>4
      <3>5. ~(u < at'.stage) /\ ~(u > at'.stage) /\ ~(k < at'.sink) /\ ~(k > at'.sink)
        BY <1>3, <1>7, <2>4, <3>2 DEF Stages
      <3> HIDE DEF r, t, j, i
      <3> QED BY <1>9, <2>1, <3>1, <3>2, <3>3, <3>4, <3>5 DEF Served
    <2>5. CASE ~(u = t /\ k = j)
      <3>1. r # s
        BY <1>1, <1>3, <2>1, <2>5, OnePlace DEF s
      <3>2. heard'[r] = heard[r]
        BY <1>8, <2>2, <3>1
      <3>3. (Caught(r, Len(sm)) => Caught(r, Len(sm))') /\ (Caught(r, Base) => Caught(r, Base)')
        BY <1>1, <3>2 DEF Caught, Base, WantedBy
      <3> HIDE DEF r
      <3>4. /\ u < t \/ (u = t /\ k < j) => Caught(r, Len(sm))
            /\ u > t \/ (u = t /\ k > j) => Caught(r, Base)
        BY <2>3 DEF Served, r
      <3>6. (u < at'.stage \/ (u = at'.stage /\ k < at'.sink) => Caught(r, Len(sm))')
            /\ (u > at'.stage \/ (u = at'.stage /\ k > at'.sink) => Caught(r, Base)')
        BY <1>7, <3>3, <3>4
      <3>7. ~(u = at'.stage /\ k = at'.sink)
        BY <1>7, <2>5
      <3> HIDE DEF t, j, i
      <3> QED BY <3>6, <3>7 DEF Served, r
    <2> QED BY <2>4, <2>5
  <1>15. Gapless'
    BY <1>2, <1>13, <1>14 DEF Gapless, Calling
  <1> QED BY <1>10, <1>11, <1>12, <1>15

LEMMA NextSinkDelivery ==
  ASSUME DInv, NextSink
  PROVE  Shaped' /\ Batched' /\ Registered' /\ Gapless'
  <1>1. /\ w = "dispatch" /\ at.stage \in Stages /\ at.sink <= Len(called[at.stage])
        /\ at.item > Len(ItemsOf(at.stage))
        /\ at' = [at EXCEPT !.sink = @ + 1, !.item = 1]
        /\ UNCHANGED <<w, sm, events, actions, called, heard, sinks, slot, slot_held, stop>>
    BY DEF NextSink, stopVars
  <1>2. at \in [stage : 1 .. 5, sink : Nat \ {0}, item : Nat \ {0}]
    BY DEF DInv, Shaped
  <1>3. /\ at' \in [stage : 1 .. 5, sink : Nat \ {0}, item : Nat \ {0}]
        /\ at'.stage = at.stage /\ at'.sink = at.sink + 1 /\ at'.item = 1
    <2>1. at.sink + 1 \in Nat \ {0} /\ 1 \in Nat \ {0}
      BY <1>2
    <2> QED BY <1>1, <1>2, <2>1
  <1>4. Shaped' /\ Registered'
    BY <1>1, <1>3 DEF DInv, Shaped, Registered, StageOf
  <1>5. Batched'
    BY <1>1 DEF DInv, Batched, Base, Calling
  <1>6. \A s \in Sinks : (heard[s] # <<>> => Called(s))'
    BY <1>1 DEF DInv, Gapless, Called, StageOf
  <1>7. Caught(called[at.stage][at.sink], Len(sm))
    BY <1>1, DoneCaughtUp
  <1>8. ASSUME NEW t \in Stages, NEW j \in 1 .. Len(called'[t]) PROVE Served(t, j)'
    <2>1. Served(t, j) /\ called'[t][j] = called[t][j]
      BY <1>1 DEF DInv, Gapless, Calling
    <2>2. /\ Caught(called[t][j], Len(sm)) => Caught(called[t][j], Len(sm))'
          /\ Caught(called[t][j], Base) => Caught(called[t][j], Base)'
      BY <1>1 DEF Caught, Base, WantedBy
    <2>3. t \in Nat /\ j \in Int /\ at.stage \in Nat /\ at.sink \in Nat
      BY <1>2 DEF Stages
    <2>4. t < at'.stage \/ (t = at'.stage /\ j < at'.sink) => Caught(called[t][j], Len(sm))
      <3>1. t < at.stage \/ (t = at.stage /\ j < at.sink) => Caught(called[t][j], Len(sm))
        BY <2>1 DEF Served
      <3>2. t = at'.stage /\ j < at'.sink => t = at.stage /\ (j < at.sink \/ j = at.sink)
        BY <1>3, <2>3
      <3> QED BY <1>3, <1>7, <3>1, <3>2
    <2>5. t > at'.stage \/ (t = at'.stage /\ j >= at'.sink) => Caught(called[t][j], Base)
      <3>1. t > at.stage \/ (t = at.stage /\ j > at.sink) => Caught(called[t][j], Base)
        BY <2>1 DEF Served
      <3> QED BY <1>3, <2>3, <3>1
    <2>6. t = at'.stage /\ j = at'.sink => j >= at'.sink
      BY <2>3
    <2>7. j > at'.sink => j >= at'.sink
      BY <1>3, <2>3
    <2> QED BY <1>3, <2>2, <2>4, <2>5, <2>6, <2>7 DEF Served
  <1>9. Gapless'
    BY <1>1, <1>6, <1>8 DEF Gapless, Calling
  <1> QED BY <1>4, <1>5, <1>9

LEMMA NextStageDelivery ==
  ASSUME DInv, NextStage
  PROVE  Shaped' /\ Batched' /\ Registered' /\ Gapless'
  <1>1. /\ w = "dispatch" /\ at.stage \in Stages /\ at.sink > Len(called[at.stage])
        /\ at' = [stage |-> at.stage + 1, sink |-> 1, item |-> 1]
        /\ UNCHANGED <<w, sm, events, actions, called, heard, sinks, slot, slot_held, stop>>
    BY DEF NextStage, stopVars
  <1>2. at.stage \in 1 .. 4 /\ at.sink \in Nat
    BY <1>1 DEF DInv, Shaped, Stages
  <1>3. /\ at' \in [stage : 1 .. 5, sink : Nat \ {0}, item : Nat \ {0}]
        /\ at'.stage = at.stage + 1 /\ at'.sink = 1 /\ at'.item = 1
    BY <1>1, <1>2
  <1>4. Shaped' /\ Registered'
    BY <1>1, <1>3 DEF DInv, Shaped, Registered, StageOf
  <1>5. Batched'
    BY <1>1 DEF DInv, Batched, Base, Calling
  <1>6. \A s \in Sinks : (heard[s] # <<>> => Called(s))'
    BY <1>1 DEF DInv, Gapless, Called, StageOf
  <1>7. ASSUME NEW t \in Stages, NEW j \in 1 .. Len(called'[t]) PROVE Served(t, j)'
    <2>1. Served(t, j) /\ called'[t][j] = called[t][j]
      BY <1>1 DEF DInv, Gapless, Calling
    <2>2. /\ Caught(called[t][j], Len(sm)) => Caught(called[t][j], Len(sm))'
          /\ Caught(called[t][j], Base) => Caught(called[t][j], Base)'
      BY <1>1 DEF Caught, Base, WantedBy
    <2>3. t \in Nat /\ j \in 1 .. Len(called[t]) /\ Len(called[t]) \in Nat
      <3>1. called' = called /\ called \in [Stages -> Seq(Sinks)]
        BY <1>1 DEF DInv, Shaped
      <3>2. called[t] \in Seq(Sinks) /\ j \in 1 .. Len(called[t])
        BY <3>1
      <3> QED
        BY <3>2, LenProperties DEF Stages
    <2>4. t < at'.stage => Caught(called[t][j], Len(sm))
      <3>1. t < at.stage \/ (t = at.stage /\ j < at.sink) => Caught(called[t][j], Len(sm))
        BY <2>1 DEF Served
      <3> QED BY <1>1, <1>2, <1>3, <2>3, <3>1
    <2>5. t >= at'.stage => Caught(called[t][j], Base)
      <3>1. t > at.stage => Caught(called[t][j], Base)
        BY <2>1 DEF Served
      <3> QED BY <1>2, <1>3, <2>3, <3>1
    <2>6. /\ ~(t = at'.stage /\ j < at'.sink)
          /\ (t = at'.stage \/ t > at'.stage => t >= at'.stage)
      BY <1>2, <1>3, <2>3
    <2> QED BY <1>3, <2>2, <2>4, <2>5, <2>6 DEF Served
  <1>8. Gapless'
    BY <1>1, <1>6, <1>7 DEF Gapless, Calling
  <1> QED BY <1>4, <1>5, <1>8

LEMMA DispatchDoneDelivery ==
  ASSUME DInv, DispatchDone
  PROVE  Shaped' /\ Batched' /\ Registered' /\ Gapless'
  <1>1. /\ w = "dispatch" /\ w' = "recv" /\ at.stage \notin Stages
        /\ UNCHANGED <<sm, events, actions, at, called, heard, sinks, slot, slot_held, stop>>
    BY DEF DispatchDone, stopVars
  <1>2. Shaped' /\ Registered'
    BY <1>1 DEF DInv, Shaped, Registered, StageOf
  <1>3. Batched'
    BY <1>1 DEF Batched, Calling
  <1>4. ASSUME NEW s \in Sinks PROVE Caught(s, Len(sm)) /\ (heard[s] # <<>> => Called(s))
    <2>1. heard[s] # <<>> => Called(s)
      BY DEF DInv, Gapless
    <2>2. CASE heard[s] = <<>>
      BY <2>1, <2>2 DEF Caught
    <2>3. CASE heard[s] # <<>>
      <3>1. StageOf(s) \in Stages
        BY DEF StageOf, Stages
      <3>2. PICK j \in 1 .. Len(called[StageOf(s)]) : called[StageOf(s)][j] = s
        BY <2>1, <2>3 DEF Called
      <3>3. Served(StageOf(s), j)
        BY <1>1, <3>1, <3>2 DEF DInv, Gapless, Calling
      <3>4. StageOf(s) < at.stage
        <4>1. at.stage \in 1 .. 5
          BY DEF DInv, Shaped
        <4> QED BY <1>1, <3>1, <4>1 DEF Stages
      <3> QED BY <2>1, <3>2, <3>3, <3>4 DEF Served
    <2> QED BY <2>2, <2>3
  <1>5. \A s \in Sinks : Caught(s, Len(sm))' /\ (heard[s] # <<>> => Called(s))'
    BY <1>1, <1>4 DEF Caught, Called, StageOf, WantedBy
  <1>6. Gapless'
    BY <1>1, <1>5 DEF Gapless, Calling
  <1> QED BY <1>2, <1>3, <1>6

LEMMA ExitDelivery ==
  ASSUME DInv, Exit
  PROVE  Shaped' /\ Batched' /\ Registered' /\ Gapless'
  <1>1. /\ w = "recv" /\ w' = "done"
        /\ UNCHANGED <<sm, events, actions, at, called, heard, sinks, slot, slot_held, stop>>
    BY DEF Exit, stopVars
  <1>2. Shaped' /\ Registered'
    BY <1>1 DEF DInv, Shaped, Registered, StageOf
  <1>3. Batched'
    BY <1>1 DEF Batched, Calling
  <1>4. \A s \in Sinks : Caught(s, Len(sm)) /\ (heard[s] # <<>> => Called(s))
    BY <1>1 DEF DInv, Gapless
  <1>5. \A s \in Sinks : Caught(s, Len(sm))' /\ (heard[s] # <<>> => Called(s))'
    BY <1>1, <1>4 DEF Caught, Called, StageOf, WantedBy
  <1>6. Gapless'
    BY <1>1, <1>5 DEF Gapless, Calling
  <1> QED BY <1>2, <1>3, <1>6

LEMMA NextDelivery ==
  ASSUME DInv, [Next]_vars
  PROVE  Shaped' /\ Batched' /\ Registered' /\ Gapless'
  <1>1. CASE InitCoordinator
    BY <1>1, InitCoordinatorDelivery
  <1>2. ASSUME NEW s \in Sinks, Register(s) PROVE Shaped' /\ Batched' /\ Registered' /\ Gapless'
    BY <1>2, RegisterDelivery
  <1>3. CASE \/ \E p \in Producers : Post(p) \/ Enqueue(p)
             \/ ShutdownLock \/ ShutdownStep \/ Finished \/ UNCHANGED vars
    <2>1. UNCHANGED <<sinks, w, sm, events, actions, at, called, heard>>
      BY <1>3 DEF Post, Enqueue, ShutdownLock, ShutdownStep, ShutdownTake, StopClose, StopJoin,
                  Finished, vars, workerVars
    <2>2. /\ slot' \in {slot, "taken"} /\ slot_held' \in {slot_held, TRUE, FALSE}
          /\ stop' \in {stop, "locked", "taken", "closed", "joined"}
      BY <1>3 DEF Post, Enqueue, ShutdownLock, ShutdownStep, ShutdownTake, StopClose, StopJoin,
                  Finished, vars, stopVars
    <2>3. slot_held' \in BOOLEAN
      BY <2>2, Zenon DEF DInv, Shaped
    <2>4. Shaped'
      BY <2>1, <2>2, <2>3 DEF DInv, Shaped
    <2> QED BY <2>1, <2>2, <2>4, ElsewhereDelivery
  <1>4. CASE Recv
    BY <1>4, RecvDelivery
  <1>5. CASE ApplyNext
    BY <1>5, ApplyNextDelivery
  <1>6. CASE Publish
    BY <1>6, PublishDelivery
  <1>7. CASE Dispatch
    BY <1>7, DispatchDelivery
  <1>8. CASE Call
    BY <1>8, CallDelivery
  <1>9. CASE NextSink
    BY <1>9, NextSinkDelivery
  <1>10. CASE NextStage
    BY <1>10, NextStageDelivery
  <1>11. CASE CallbackPost \/ CallbackSend
    BY <1>11, ControlDelivery DEF CallbackPost, CallbackSend, Calling, stopVars
  <1>12. CASE DispatchDone
    BY <1>12, DispatchDoneDelivery
  <1>13. CASE Exit
    BY <1>13, ExitDelivery
  <1> QED
    BY <1>1, <1>2, <1>3, <1>4, <1>5, <1>6, <1>7, <1>8, <1>9, <1>10, <1>11, <1>12, <1>13
       DEF Next, WorkerStep

(* The invariant of the delivery, for any producers, sinks and posts.       *)
THEOREM Delivers == Spec => []DInv
  <1>1. Init => DInv
    BY InitIInv, InitDelivery DEF DInv
  <1>2. DInv /\ [Next]_vars => DInv'
    BY NextIInv, NextDelivery DEF DInv
  <1> QED BY <1>1, <1>2, PTL DEF Spec

(* Every variable keeps its type.                                           *)
THEOREM TypeCorrect == Spec => []TypeOK
  <1>1. DInv => TypeOK
    BY DEF DInv, IInv, Typed, Handles, Shaped, TypeOK, Calling
  <1> QED BY <1>1, Delivers, PTL

-----------------------------------------------------------------------------
(* The delivery is implemented.                                            *)

(* The applied inputs are the first accepted ones. *)
LEMMA AcceptedBegins ==
  ASSUME IInv
  PROVE  /\ Len(sm) \in Nat /\ Len(accepted) \in Nat /\ Len(sm) <= Len(accepted)
         /\ \A p \in 1 .. Len(sm) : accepted[p] = sm[p]
  <1>1. sm \in Seq(Inputs) /\ queue \in Seq(Inputs) /\ accepted = sm \o queue
    BY DEF IInv, Typed, Handles, Conserved
  <1> QED BY <1>1, ConcatProperties, LenProperties

(* A send is an acceptance, or nothing once the sender is gone. *)
LEMMA SendAccepts ==
  ASSUME IInv, NEW p \in Posters, Send(p), UNCHANGED <<snapshot, heard, tx>>
  PROVE  [Delivery!Next]_(Delivery!vars)
  <1> DEFINE input == [by |-> p, n |-> posts[p]]
  <1>1. CASE ~tx
    BY <1>1 DEF Send, Delivery!vars
  <1>2. CASE tx
    <2>1. input \in Inputs
      BY DEF IInv, Typed, Handles, Inputs, Send
    <2>2. accepted' = Append(accepted, input) /\ accepted \in Seq(Inputs)
      BY <1>2 DEF Send, IInv, Typed
    <2> HIDE DEF input
    <2>3. /\ accepted' \in Seq(Inputs) /\ Len(accepted') = Len(accepted) + 1
          /\ \A i \in 1 .. Len(accepted) : accepted'[i] = accepted[i]
          /\ Len(accepted) \in Nat
      BY <2>1, <2>2, AppendProperties, LenProperties
    <2>4. SubSeq(accepted', 1, Len(accepted)) = accepted
      <3> DEFINE z == SubSeq(accepted', 1, Len(accepted))
      <3>1. z \in Seq(Inputs) /\ Len(z) = Len(accepted)
            /\ \A i \in 1 .. Len(accepted) : z[i] = accepted'[1 + i - 1]
        BY <2>3, SubSeqProperties
      <3>2. \A i \in 1 .. Len(accepted) : z[i] = accepted[i]
        BY <2>3, <3>1
      <3> HIDE DEF z
      <3>3. z = accepted
        BY <2>2, <3>1, <3>2, SeqEqual
      <3> QED BY <3>3 DEF z
    <2>5. Delivery!Accept
      BY <1>2, <2>3, <2>4 DEF Delivery!Accept
    <2> QED BY <2>5 DEF Delivery!Next
  <1> QED BY <1>1, <1>2

LEMMA PublishShows ==
  ASSUME IInv, Publish
  PROVE  [Delivery!Next]_(Delivery!vars)
  <1>1. snapshot' = sm /\ UNCHANGED <<accepted, heard, tx>>
    BY DEF Publish, postVars, stopVars
  <1>2. /\ Len(snapshot) \in Nat /\ Len(snapshot) <= Len(sm)
        /\ Len(sm) \in Nat /\ Len(accepted) \in Nat /\ Len(sm) <= Len(accepted)
    BY AcceptedBegins, LenProperties DEF IInv, Typed, Published
  <1>3. CASE Len(snapshot) = Len(sm)
    BY <1>1, <1>3 DEF Delivery!vars
  <1>4. CASE Len(snapshot) # Len(sm)
    <2>1. Len(snapshot)' \in Len(snapshot) + 1 .. Len(accepted)
      BY <1>1, <1>2, <1>4
    <2> QED BY <1>1, <2>1 DEF Delivery!Publish, Delivery!Next
  <1> QED BY <1>3, <1>4

LEMMA CallHears ==
  ASSUME DInv, Call
  PROVE  Delivery!Next
  <1> DEFINE s == called[at.stage][at.sink]
             m == Len(snapshot)
  <1>1. /\ w = "dispatch" /\ at.stage \in Stages /\ at.sink <= Len(called[at.stage])
        /\ at.item <= Len(ItemsOf(at.stage))
        /\ heard' = [heard EXCEPT ![s] = Append(@, ItemsOf(at.stage)[at.item])]
        /\ UNCHANGED <<accepted, snapshot, tx>>
    BY DEF Call, postVars, stopVars
  <1>2. s \in Sinks
    BY <1>1, CallNow
  <1>3. snapshot = sm
    BY <1>1 DEF DInv, IInv, Published
  <1> HIDE DEF s
  <1>4. PICK last \in 0 .. m, next \in 1 .. m :
          /\ last < next
          /\ heard[s] # <<>> => last > 0 /\ sm[last] = heard[s][Len(heard[s])]
          /\ sm[next] = ItemsOf(at.stage)[at.item] /\ WantedBy(s, sm[next])
          /\ heard[s] # <<>> => \A skipped \in last + 1 .. next - 1 : ~WantedBy(s, sm[skipped])
    BY <1>1, <1>3, NextIsWanted DEF s
  <1>5. m \in Nat /\ \A p \in 1 .. m : accepted[p] = sm[p]
    BY <1>3, AcceptedBegins DEF DInv
  <1> HIDE DEF m
  <1>6. accepted[next] = sm[next]
    BY <1>5
  <1>7. heard[s] # <<>> => last > 0 /\ accepted[last] = heard[s][Len(heard[s])]
    <2>1. last > 0 => last \in 1 .. m
      BY <1>5
    <2> QED BY <1>4, <1>5, <2>1
  <1>8. heard[s] # <<>> =>
          \A skipped \in last + 1 .. next - 1 : ~WantedBy(s, accepted[skipped])
    <2>1. \A skipped \in last + 1 .. next - 1 : skipped \in 1 .. m
      BY <1>5
    <2> QED BY <1>4, <1>5, <2>1
  <1>9. heard' = [heard EXCEPT ![s] = Append(@, accepted[next])]
    BY <1>1, <1>4, <1>6
  <1>10. Delivery!Hear(s)
    BY <1>1, <1>4, <1>6, <1>7, <1>8, <1>9 DEF Delivery!Hear, Delivery!IsLast, m
  <1> QED BY <1>2, <1>10 DEF Delivery!Next

(* Queue, batches, locks and loops implement the delivery: for any           *)
(* producers, sinks and posts, each sink hears what it wants of the inputs   *)
(* accepted, in order and with none left out from its first call on, and     *)
(* only what the snapshot shows.                                             *)
THEOREM DeliveryImplemented == Spec => ImplementsDelivery
  <1>1. Init => Delivery!Init
    <2>1. Len(<<>>) = 0
      BY EmptySeq
    <2> QED BY <2>1 DEF Init, Delivery!Init
  <1>2. ASSUME DInv, [Next]_vars PROVE [Delivery!Next]_(Delivery!vars)
    <2>1. ASSUME NEW p \in Producers, Enqueue(p) PROVE [Delivery!Next]_(Delivery!vars)
      BY <1>2, <2>1, SendAccepts DEF Enqueue, workerVars, stopVars, Posters, DInv
    <2>2. CASE CallbackSend
      BY <1>2, <2>2, SendAccepts DEF CallbackSend, stopVars, Posters, DInv
    <2>3. CASE Publish
      BY <1>2, <2>3, PublishShows DEF DInv
    <2>4. CASE Call
      BY <1>2, <2>4, CallHears
    <2>5. CASE StopClose
      BY <2>5 DEF StopClose, workerVars, postVars, Delivery!Next, Delivery!Close
    <2>6. CASE \/ InitCoordinator \/ \E s \in Sinks : Register(s)
               \/ \E p \in Producers : Post(p)
               \/ Recv \/ ApplyNext \/ Dispatch \/ NextSink \/ NextStage
               \/ CallbackPost \/ DispatchDone \/ Exit
               \/ ShutdownLock \/ ShutdownTake \/ StopJoin \/ Finished \/ UNCHANGED vars
      <3>1. UNCHANGED <<accepted, snapshot, heard, tx>>
        BY <2>6 DEF InitCoordinator, Register, Post, Recv, ApplyNext, Dispatch, NextSink, NextStage,
                    CallbackPost, DispatchDone, Exit, ShutdownLock, ShutdownTake, StopJoin,
                    Finished, vars, workerVars, postVars, stopVars
      <3> QED BY <3>1 DEF Delivery!vars
    <2> QED BY <1>2, <2>1, <2>2, <2>3, <2>4, <2>5, <2>6 DEF Next, WorkerStep, ShutdownStep
  <1> QED BY <1>1, <1>2, Delivers, PTL DEF Spec, ImplementsDelivery
=============================================================================
