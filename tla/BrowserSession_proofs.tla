----------------------- MODULE BrowserSession_proofs -----------------------
(***************************************************************************)
(* Proofs about BrowserSession for any threads and bounds: its types, that *)
(* a drained session stays drained, and that the teardown it performs is   *)
(* the one Teardown promises.                                              *)
(*                                                                         *)
(* The inductive invariant follows the close: which phase of the session   *)
(* belongs to which of its steps (Phases), what may still be queued for    *)
(* the UI thread at each (Queued), who can still hold the client (Clients),*)
(* and what the main thread has released (Native).                         *)
(***************************************************************************)
EXTENDS BrowserSession, SequenceTheorems, TLAPS

Posted == {"sync", "probe", "start"}
Tasks  == Posted \cup {"barrier", "close"}

(* The barrier is the last task there is; before it only posted ones. *)
EndsInBarrier(q) ==
  /\ Len(q) > 0 /\ q[Len(q)] = "barrier"
  /\ \A i \in 1 .. Len(q) - 1 : q[i] \in Posted

AfterPermits == {"barrier", "answer", "post_close", "delivery", "owner", "producers", "done"}

(* The barrier has run, and nothing the threads posted is left. *)
Answered == \/ closer = "answer" /\ answer # "none"
            \/ closer \in {"post_close", "delivery", "owner", "producers", "done"}

Phases ==
  /\ closer = "off" <=> session = "Active"
  /\ closer \notin {"off", "done"} => session = "Closing"
  /\ closer = "done" => session \in {"Inactive", "Drained"}
  /\ closer \in AfterPermits => permits = {}
  /\ closer \notin {"done", "failed"} => main = "loop"

Queued ==
  /\ closer \in {"off", "permits", "barrier"} => queue \in Seq(Posted) /\ answer = "none"
  /\ closer \in {"off", "permits", "barrier", "answer", "post_close"} => ~delivered
  /\ closer = "answer" /\ answer = "none" => EndsInBarrier(queue)
  /\ closer = "delivery" => queue = IF delivered THEN <<>> ELSE <<"close">>
  /\ Answered /\ closer # "delivery" => queue = <<>>
  /\ Answered => ~slot /\ request = "none" /\ ~syncing

Clients ==
  /\ kept => closer \in {"answer", "post_close", "delivery", "failed"}
  /\ closer = "answer" /\ answer = "empty" => ~ClientAlive
  /\ closer = "delivery" /\ delivered => ~kept
  /\ closer \in {"producers", "done"} => ~ClientAlive
  /\ closer = "done" => ~ending /\ "overlay" \notin retained

Native ==
  /\ cef = "down" => session = "Drained"
  /\ "cef" \notin retained => cef = "down"
  /\ main \in {"loop", "shell", "revoke", "cef"} => cef = "up"
  /\ main \in {"loop", "shell", "revoke", "cef", "retire", "count"} => backend
  /\ main \in {"loop", "shell", "revoke", "cef", "retire", "count", "ingest", "terminate"} => window
  /\ main # "exited" => host
  /\ main \in {"count", "ingest", "terminate", "host"} => ~published
  /\ main \in {"ingest", "terminate", "host"} => ~backend
  /\ main \in {"terminate", "host"} => ~ingest
  /\ main = "host" => ~window
  /\ ~backend => Leased = {} /\ ~published
  /\ ~window => ~ingest

IInv == TypeOK /\ Phases /\ Queued /\ Clients /\ Native

USE DEF threadVars, uiVars, closerVars, nativeVars, mainVars, Active, Ui, Runs,
        ProbeCancelled, Closer, Main

-----------------------------------------------------------------------------
(* Sequences of tasks.                                                     *)

LEMMA TailOfTasks ==
  ASSUME NEW S, NEW q \in Seq(S), q # <<>>
  PROVE  /\ Tail(q) \in Seq(S) /\ Head(q) \in S /\ Head(q) = q[1]
         /\ Len(q) > 0 /\ Len(Tail(q)) = Len(q) - 1
         /\ \A i \in 1 .. Len(q) - 1 : Tail(q)[i] = q[i + 1]
  OBVIOUS

LEMMA TailKeepsEnd ==
  ASSUME NEW q \in Seq(Tasks), EndsInBarrier(q), Head(q) # "barrier"
  PROVE  EndsInBarrier(Tail(q)) /\ Head(q) \in Posted
  <1>1. q # <<>> /\ Len(q) \in Nat
    BY DEF EndsInBarrier
  <1>2. Len(q) > 1
    BY <1>1, TailOfTasks DEF EndsInBarrier
  <1>3. /\ Head(q) = q[1]
        /\ Len(Tail(q)) = Len(q) - 1
        /\ \A i \in 1 .. Len(q) - 1 : Tail(q)[i] = q[i + 1]
    BY <1>1, TailOfTasks
  <1>4. Tail(q)[Len(q) - 1] = "barrier"
    BY <1>1, <1>2, <1>3 DEF EndsInBarrier
  <1>5. \A i \in 1 .. Len(q) - 2 : Tail(q)[i] \in Posted
    BY <1>1, <1>2, <1>3 DEF EndsInBarrier
  <1> QED
    BY <1>1, <1>2, <1>3, <1>4, <1>5 DEF EndsInBarrier

LEMMA BarrierEnds ==
  ASSUME NEW q \in Seq(Tasks), EndsInBarrier(q), Head(q) = "barrier"
  PROVE  Tail(q) = <<>>
  <1>1. q # <<>> /\ Len(q) \in Nat
    BY DEF EndsInBarrier
  <1>2. Len(q) > 0 /\ q[1] = "barrier"
    BY <1>1, TailOfTasks
  <1>3. ~(Len(q) > 1)
    <2> SUFFICES ASSUME Len(q) > 1 PROVE FALSE
      OBVIOUS
    <2>1. q[1] \in Posted
      BY <1>1 DEF EndsInBarrier
    <2> QED
      BY <1>2, <2>1 DEF Posted
  <1>4. Len(q) = 1
    <2>1. \A n \in Nat : n > 0 /\ ~(n > 1) => n = 1
      OBVIOUS
    <2> QED
      BY <1>1, <1>2, <1>3, <2>1
  <1>5. Len(Tail(q)) = Len(q) - 1 /\ Tail(q) \in Seq(Tasks)
    BY <1>1, TailOfTasks
  <1>6. Len(Tail(q)) = 0
    BY <1>4, <1>5
  <1> QED
    BY <1>5, <1>6, EmptySeq

LEMMA BarrierAppended ==
  ASSUME NEW q \in Seq(Posted)
  PROVE  EndsInBarrier(Append(q, "barrier"))
  BY DEF EndsInBarrier

LEMMA PostedAreTasks == ASSUME NEW q \in Seq(Posted) PROVE q \in Seq(Tasks)
  BY DEF Tasks

-----------------------------------------------------------------------------
(* The invariant is inductive.                                             *)

LEMMA InitInv == Init => IInv
  <1> SUFFICES ASSUME Init PROVE IInv
    OBVIOUS
  <1>1. queue \in Seq(Posted)
    <2>1. queue \in {<<>>, <<"sync">>}
      BY Zenon DEF Init
    <2>2. <<>> \in Seq(Posted) /\ <<"sync">> \in Seq(Posted)
      BY DEF Posted
    <2> QED
      BY <2>1, <2>2
  <1>2. /\ published \in BOOLEAN /\ syncing \in BOOLEAN /\ kept \in BOOLEAN
        /\ slot \in BOOLEAN /\ ending \in BOOLEAN /\ delivered \in BOOLEAN
        /\ backend \in BOOLEAN /\ ingest \in BOOLEAN /\ window \in BOOLEAN /\ host \in BOOLEAN
    BY Zenon DEF Init
  <1>3. TypeOK
    BY <1>1, <1>2, SessionConstants DEF Init, TypeOK, Posted
  <1>4. Phases
    BY DEF Init, Phases, AfterPermits
  <1>5. Queued
    BY <1>1 DEF Init, Queued, Answered
  <1>6. Clients
    BY DEF Init, Clients, ClientAlive
  <1>7. Native
    BY DEF Init, Native
  <1> QED
    BY <1>3, <1>4, <1>5, <1>6, <1>7 DEF IInv

(* What the threads do while they hold a permit or a lease. *)
LEMMA ThreadInv ==
  ASSUME IInv, NEW t \in Threads, ThreadStep(t)
  PROVE  IInv'
  <1>1. CASE Acquire(t)
    BY <1>1 DEF IInv, TypeOK, Phases, Queued, Clients, Native, Acquire, AfterPermits,
                Answered, ClientAlive, Leased
  <1>2. CASE Post(t)
    <2>1. closer \in {"off", "permits", "failed"}
      BY <1>2 DEF IInv, TypeOK, Phases, Post, AfterPermits
    <2>2. PICK task \in {"sync", "probe"} : queue' = Append(queue, task)
      BY <1>2 DEF Post
    <2>3. queue' \in Seq(Tasks)
      BY <2>2 DEF IInv, TypeOK, Tasks, Posted
    <2>4. closer # "failed" => queue' \in Seq(Posted)
      BY <2>1, <2>2 DEF IInv, Queued, Posted
    <2> QED
      BY <1>2, <2>1, <2>3, <2>4
      DEF IInv, TypeOK, Phases, Queued, Clients, Native, Post, AfterPermits,
          Answered, ClientAlive, Leased, Tasks
  <1>3. CASE Leave(t)
    BY <1>3 DEF IInv, TypeOK, Phases, Queued, Clients, Native, Leave, AfterPermits,
                Answered, ClientAlive, Leased
  <1>4. CASE TryLease(t)
    BY <1>4 DEF IInv, TypeOK, Phases, Queued, Clients, Native, TryLease, AfterPermits,
                Answered, ClientAlive, Leased
  <1>5. CASE DropLease(t)
    BY <1>5 DEF IInv, TypeOK, Phases, Queued, Clients, Native, DropLease, AfterPermits,
                Answered, ClientAlive, Leased
  <1> QED
    BY <1>1, <1>2, <1>3, <1>4, <1>5 DEF ThreadStep

(* A task that is taken leaves a queue of the same kind; before the barrier *)
(* has run it is one of the threads'.                                       *)
LEMMA TaskTaken ==
  ASSUME IInv, queue # <<>>, Head(queue) \in Posted
  PROVE  /\ Tail(queue) \in Seq(Tasks) /\ ~Answered
         /\ closer \in {"off", "permits", "barrier"} => Tail(queue) \in Seq(Posted)
         /\ closer = "answer" => EndsInBarrier(Tail(queue))
  <1>1. queue \in Seq(Tasks)
    BY DEF IInv, TypeOK, Tasks, Posted
  <1>2. ~Answered
    BY DEF IInv, Queued, Answered, Posted
  <1>3. closer \in {"off", "permits", "barrier"} => Tail(queue) \in Seq(Posted)
    BY TailOfTasks DEF IInv, Queued
  <1>4. closer = "answer" => EndsInBarrier(Tail(queue))
    BY <1>1, <1>2, TailKeepsEnd DEF IInv, Queued, Answered, Posted
  <1> QED
    BY <1>1, <1>2, <1>3, <1>4, TailOfTasks

LEMMA SyncInv ==
  ASSUME IInv, BeginSync \/ EnsureBrowser
  PROVE  IInv'
  <1>1. CASE BeginSync
    <2>1. queue # <<>> /\ Head(queue) \in Posted
      BY <1>1 DEF BeginSync, Posted
    <2>2. syncing' \in BOOLEAN /\ (syncing' => closer = "off")
      BY <1>1 DEF BeginSync, IInv, Phases
    <2> QED
      BY <1>1, <2>1, <2>2, TaskTaken
      DEF IInv, TypeOK, Phases, Queued, Clients, Native, BeginSync, AfterPermits,
          Answered, ClientAlive, Leased, Tasks, Posted
  <1>2. CASE EnsureBrowser
    <2>1. syncing' \in BOOLEAN
      BY <1>2, Zenon DEF EnsureBrowser
    <2> QED
      BY <1>2, <2>1 DEF IInv, TypeOK, Phases, Queued, Clients, Native, EnsureBrowser, AfterPermits,
                Answered, ClientAlive, Leased
  <1> QED
    BY <1>1, <1>2

(* Whoever runs a probe's tasks after the revocation changes nothing. *)
LEMMA ProbeInv ==
  ASSUME IInv, RunProbe \/ RunStart
  PROVE  IInv'
  <1>1. queue # <<>> /\ Head(queue) \in Posted
    BY DEF RunProbe, RunStart, Posted
  <1>2. ending' \in BOOLEAN /\ slot' \in BOOLEAN /\ request' \in {"none", "posted", "active"}
    BY DEF RunProbe, RunStart, IInv, TypeOK
  <1>3. CASE RunProbe
    <2>1. CASE session = "Active"
      <3>1. closer = "off"
        BY <2>1 DEF IInv, Phases
      <3>2. queue' = Append(Tail(queue), "start") /\ Tail(queue) \in Seq(Posted)
        BY <1>1, <1>3, <2>1, <3>1, TaskTaken DEF RunProbe
      <3>3. queue' \in Seq(Posted) /\ queue' \in Seq(Tasks)
        BY <3>2 DEF Posted, Tasks
      <3>4. TypeOK'
        BY <1>2, <1>3, <2>1, <3>1, <3>3 DEF IInv, TypeOK, Phases, Queued, Clients, Native, RunProbe, Tasks, Posted
      <3>5. Phases'
        BY <1>2, <1>3, <2>1, <3>1, <3>3 DEF IInv, TypeOK, Phases, Queued, Clients, Native, RunProbe, AfterPermits
      <3>6. Queued'
        BY <1>2, <1>3, <2>1, <3>1, <3>3 DEF IInv, TypeOK, Phases, Queued, Clients, Native, RunProbe, Answered, Tasks, Posted
      <3>7. Clients'
        BY <1>2, <1>3, <2>1, <3>1, <3>3 DEF IInv, TypeOK, Phases, Queued, Clients, Native, RunProbe, ClientAlive
      <3>8. Native'
        BY <1>2, <1>3, <2>1, <3>1, <3>3 DEF IInv, TypeOK, Phases, Queued, Clients, Native, RunProbe, Leased, ClientAlive
      <3> QED
        BY <3>4, <3>5, <3>6, <3>7, <3>8 DEF IInv
    <2>2. CASE session # "Active"
      <3>1. UNCHANGED <<slot, request, ending>> /\ queue' = Tail(queue)
        BY <1>3, <2>2 DEF RunProbe
      <3>4. TypeOK'
        BY <1>1, <1>2, <1>3, <2>2, <3>1, TaskTaken DEF IInv, TypeOK, Phases, Queued, Clients, Native, RunProbe, Tasks, Posted
      <3>5. Phases'
        BY <1>1, <1>2, <1>3, <2>2, <3>1, TaskTaken DEF IInv, TypeOK, Phases, Queued, Clients, Native, RunProbe, AfterPermits
      <3>6. Queued'
        BY <1>1, <1>2, <1>3, <2>2, <3>1, TaskTaken DEF IInv, TypeOK, Phases, Queued, Clients, Native, RunProbe, Answered, Tasks, Posted
      <3>7. Clients'
        BY <1>1, <1>2, <1>3, <2>2, <3>1, TaskTaken DEF IInv, TypeOK, Phases, Queued, Clients, Native, RunProbe, ClientAlive
      <3>8. Native'
        BY <1>1, <1>2, <1>3, <2>2, <3>1, TaskTaken DEF IInv, TypeOK, Phases, Queued, Clients, Native, RunProbe, Leased, ClientAlive
      <3> QED
        BY <3>4, <3>5, <3>6, <3>7, <3>8 DEF IInv
    <2> QED
      BY <2>1, <2>2
  <1>4. CASE RunStart
    BY <1>1, <1>2, <1>4, TaskTaken
    DEF IInv, TypeOK, Phases, Queued, Clients, Native, RunStart, AfterPermits,
        Answered, ClientAlive, Leased, Tasks, Posted
  <1> QED
    BY <1>3, <1>4

LEMMA BarrierInv ==
  ASSUME IInv, RunBarrier
  PROVE  IInv'
  <1>1. /\ queue \in Seq(Tasks) /\ queue # <<>> /\ Head(queue) = "barrier"
        /\ Tail(queue) \in Seq(Tasks)
    BY TailOfTasks DEF RunBarrier, IInv, TypeOK, Tasks, Posted
  <1>2. closer \in {"answer", "failed"} /\ ~Answered
    BY <1>1, TailOfTasks DEF IInv, TypeOK, Queued, Answered, Posted
  <1>3. ending' \in BOOLEAN /\ slot' \in BOOLEAN
        /\ kept' \in BOOLEAN /\ answer' \in {"none", "client", "empty"}
    <2>1. ClientAlive \in BOOLEAN
      BY DEF ClientAlive, IInv, TypeOK
    <2>2. kept' \in BOOLEAN
      BY <2>1, Zenon DEF RunBarrier, IInv, TypeOK
    <2>3. ending' \in BOOLEAN /\ slot' \in BOOLEAN
      BY Zenon DEF RunBarrier
    <2> QED
      BY <2>2, <2>3 DEF RunBarrier, IInv, TypeOK
  <1>4. CASE closer = "answer"
    <2>1. Tail(queue) = <<>>
      BY <1>1, <1>2, <1>4, BarrierEnds DEF IInv, Queued, Answered
    <2>2. answer' = (IF ClientAlive THEN "client" ELSE "empty")
          /\ kept' = ClientAlive /\ queue' = <<>>
      BY <1>4, <2>1 DEF RunBarrier
    <2> QED
      BY <1>1, <1>2, <1>3, <1>4, <2>1, <2>2
      DEF IInv, TypeOK, Phases, Queued, Clients, Native, RunBarrier, AfterPermits,
          Answered, ClientAlive, Leased, Tasks, Posted
  <1>5. CASE closer = "failed"
    BY <1>1, <1>3, <1>5
    DEF IInv, TypeOK, Phases, Queued, Clients, Native, RunBarrier, AfterPermits,
        Answered, ClientAlive, Leased, Tasks, Posted
  <1> QED
    BY <1>2, <1>4, <1>5

LEMMA CloseTaskInv ==
  ASSUME IInv, RunClose
  PROVE  IInv'
  <1>1. /\ queue \in Seq(Tasks) /\ queue # <<>> /\ Head(queue) = "close"
        /\ Tail(queue) \in Seq(Tasks)
    BY TailOfTasks DEF RunClose, IInv, TypeOK, Tasks, Posted
  <1>2. closer \in {"delivery", "failed"} /\ (closer = "delivery" => ~delivered)
    <2>1. closer = "answer" /\ answer = "none" => FALSE
      BY <1>1, TailKeepsEnd DEF IInv, Queued, Posted
    <2> QED
      BY <1>1, <2>1, TailOfTasks DEF IInv, TypeOK, Queued, Answered, Posted
  <1>3. kept' \in BOOLEAN /\ delivered' \in BOOLEAN /\ ~kept' /\ delivered'
    BY Zenon DEF RunClose
  <1>4. closer = "delivery" => queue' = <<>>
    BY <1>2 DEF RunClose, IInv, Queued
  <1> QED
    BY <1>1, <1>2, <1>3, <1>4
    DEF IInv, TypeOK, Phases, Queued, Clients, Native, RunClose, AfterPermits,
        Answered, ClientAlive, Leased, Tasks, Posted

(* A browser comes to life, ends, and is made again only while the session *)
(* is active; a request that runs only ends.                               *)
LEMMA BrowserInv ==
  ASSUME IInv, AfterCreated \/ BeforeClose \/ ClosesByItself \/ RequestCompletes
  PROVE  IInv'
  <1>1. CASE AfterCreated
    BY <1>1 DEF IInv, TypeOK, Phases, Queued, Clients, Native, AfterCreated, AfterPermits,
                Answered, ClientAlive, Leased, Revoked, ProducerLeft, StartPosted
  <1>2. CASE BeforeClose
    BY <1>2 DEF IInv, TypeOK, Phases, Queued, Clients, Native, BeforeClose, AfterPermits,
                Answered, ClientAlive, Leased, Revoked, ProducerLeft, StartPosted
  <1>3. CASE ClosesByItself
    BY <1>3, SessionConstants DEF IInv, TypeOK, Phases, Queued, Clients, Native, ClosesByItself, AfterPermits,
                Answered, ClientAlive, Leased, Revoked, ProducerLeft, StartPosted
  <1>4. CASE RequestCompletes
    <2>1. ending' \in BOOLEAN /\ request' \in {"none", "posted", "active"}
      BY <1>4, Zenon DEF RequestCompletes, IInv, TypeOK
    <2> QED
      BY <1>4, <2>1 DEF IInv, TypeOK, Phases, Queued, Clients, Native, RequestCompletes, AfterPermits,
                Answered, ClientAlive, Leased, Revoked, ProducerLeft, StartPosted
  <1> QED
    BY <1>1, <1>2, <1>3, <1>4

LEMMA CloserInv ==
  ASSUME IInv, CloserStep \/ CloseFails
  PROVE  IInv'
  <1>1. CASE BeginClose
    BY <1>1 DEF IInv, TypeOK, Phases, Queued, Clients, Native, BeginClose, AfterPermits,
                Answered, ClientAlive, Leased, Revoked, ProducerLeft, StartPosted
  <1>2. CASE AwaitPermits
    BY <1>2 DEF IInv, TypeOK, Phases, Queued, Clients, Native, AwaitPermits, AfterPermits,
                Answered, ClientAlive, Leased, Revoked, ProducerLeft, StartPosted
  <1>3. CASE PostBarrier
    <2>1. queue \in Seq(Posted) /\ answer = "none" /\ ~delivered
      BY <1>3 DEF PostBarrier, IInv, Queued
    <2>2. EndsInBarrier(queue')
      BY <1>3, <2>1, BarrierAppended DEF PostBarrier
    <2>3. queue' \in Seq(Tasks)
      BY <1>3, <2>1, PostedAreTasks DEF PostBarrier, Tasks
    <2> QED
      BY <1>3, <2>1, <2>2, <2>3
      DEF IInv, TypeOK, Phases, Queued, Clients, Native, PostBarrier, AfterPermits,
          Answered, ClientAlive, Leased, Tasks, Posted
  <1>4. CASE AwaitBarrier
    BY <1>4 DEF IInv, TypeOK, Phases, Queued, Clients, Native, AwaitBarrier, AfterPermits,
                Answered, ClientAlive, Leased, Revoked, ProducerLeft, StartPosted
  <1>5. CASE PostClose
    <2>1. queue = <<>> /\ ~delivered
      BY <1>5 DEF PostClose, IInv, Queued, Answered
    <2>2. queue' = <<"close">> /\ queue' \in Seq(Tasks)
      BY <1>5, <2>1 DEF PostClose, Tasks
    <2> QED
      BY <1>5, <2>1, <2>2
      DEF IInv, TypeOK, Phases, Queued, Clients, Native, PostClose, AfterPermits,
          Answered, ClientAlive, Leased, Tasks, Posted
  <1>6. CASE AwaitDelivery
    BY <1>6 DEF IInv, TypeOK, Phases, Queued, Clients, Native, AwaitDelivery, AfterPermits,
                Answered, ClientAlive, Leased, Revoked, ProducerLeft, StartPosted
  <1>7. CASE AwaitOwner
    BY <1>7 DEF IInv, TypeOK, Phases, Queued, Clients, Native, AwaitOwner, AfterPermits,
                Answered, ClientAlive, Leased, Revoked, ProducerLeft, StartPosted
  <1>8. CASE ConfirmDrain
    BY <1>8 DEF IInv, TypeOK, Phases, Queued, Clients, Native, ConfirmDrain, AfterPermits,
                Answered, ClientAlive, Leased, Revoked, ProducerLeft, StartPosted
  <1>9. CASE CloseFails
    BY <1>9 DEF IInv, TypeOK, Phases, Queued, Clients, Native, CloseFails, AfterPermits,
                Answered, ClientAlive, Leased, Revoked, ProducerLeft, StartPosted
  <1> QED
    BY <1>1, <1>2, <1>3, <1>4, <1>5, <1>6, <1>7, <1>8, <1>9 DEF CloserStep

LEMMA MainInv ==
  ASSUME IInv, MainStep
  PROVE  IInv'
  <1>1. CASE JoinManager
    BY <1>1 DEF IInv, TypeOK, Phases, Queued, Clients, Native, JoinManager, AfterPermits,
                Answered, ClientAlive, Leased, Revoked, ProducerLeft, StartPosted
  <1>2. CASE ShutShell
    BY <1>2 DEF IInv, TypeOK, Phases, Queued, Clients, Native, ShutShell, AfterPermits,
                Answered, ClientAlive, Leased, Revoked, ProducerLeft, StartPosted
  <1>3. CASE RevokeAgain
    BY <1>3 DEF IInv, TypeOK, Phases, Queued, Clients, Native, RevokeAgain, AfterPermits,
                Answered, ClientAlive, Leased, Revoked, ProducerLeft, StartPosted
  <1>4. CASE ShutCef
    BY <1>4 DEF IInv, TypeOK, Phases, Queued, Clients, Native, ShutCef, AfterPermits,
                Answered, ClientAlive, Leased, Revoked, ProducerLeft, StartPosted
  <1>5. CASE AbandonCef
    BY <1>5 DEF IInv, TypeOK, Phases, Queued, Clients, Native, AbandonCef, AfterPermits,
                Answered, ClientAlive, Leased, Revoked, ProducerLeft, StartPosted
  <1>6. CASE Retire
    <2>1. published' \in BOOLEAN
      BY <1>6, Zenon DEF Retire
    <2> QED
      BY <1>6, <2>1 DEF IInv, TypeOK, Phases, Queued, Clients, Native, Retire, AfterPermits,
                Answered, ClientAlive, Leased, Revoked, ProducerLeft, StartPosted
  <1>7. CASE CleanBackend
    <2>1. backend' \in BOOLEAN
      BY <1>7, Zenon DEF CleanBackend
    <2> QED
      BY <1>7, <2>1 DEF IInv, TypeOK, Phases, Queued, Clients, Native, CleanBackend, AfterPermits,
                Answered, ClientAlive, Leased, Revoked, ProducerLeft, StartPosted
  <1>8. CASE Busy
    BY <1>8 DEF IInv, TypeOK, Phases, Queued, Clients, Native, Busy, AfterPermits,
                Answered, ClientAlive, Leased, Revoked, ProducerLeft, StartPosted
  <1>9. CASE StopIngest
    <2>1. ingest' \in BOOLEAN
      BY <1>9, Zenon DEF StopIngest
    <2> QED
      BY <1>9, <2>1 DEF IInv, TypeOK, Phases, Queued, Clients, Native, StopIngest, AfterPermits,
                Answered, ClientAlive, Leased, Revoked, ProducerLeft, StartPosted
  <1>10. CASE Terminate
    <2>1. window' \in BOOLEAN
      BY <1>10, Zenon DEF Terminate
    <2> QED
      BY <1>10, <2>1 DEF IInv, TypeOK, Phases, Queued, Clients, Native, Terminate, AfterPermits,
                Answered, ClientAlive, Leased, Revoked, ProducerLeft, StartPosted
  <1>11. CASE TerminationRejected
    BY <1>11 DEF IInv, TypeOK, Phases, Queued, Clients, Native, TerminationRejected, AfterPermits,
                Answered, ClientAlive, Leased, Revoked, ProducerLeft, StartPosted
  <1>12. CASE ReleaseHost
    <2>1. host' \in BOOLEAN
      BY <1>12, Zenon DEF ReleaseHost
    <2> QED
      BY <1>12, <2>1 DEF IInv, TypeOK, Phases, Queued, Clients, Native, ReleaseHost, AfterPermits,
                Answered, ClientAlive, Leased, Revoked, ProducerLeft, StartPosted
  <1> QED
    BY <1>1, <1>2, <1>3, <1>4, <1>5, <1>6, <1>7, <1>8, <1>9, <1>10, <1>11, <1>12 DEF MainStep

(* A step of the program, or none, keeps the invariant. *)
THEOREM Inductive == IInv /\ [Next]_vars => IInv'
  <1> SUFFICES ASSUME IInv, [Next]_vars PROVE IInv'
    OBVIOUS
  <1>1. CASE \E t \in Threads : ThreadStep(t)
    BY <1>1, ThreadInv
  <1>2. CASE CefStep \/ ClosesByItself
    BY <1>2, SyncInv, ProbeInv, BarrierInv, CloseTaskInv, BrowserInv DEF CefStep, RunTask
  <1>3. CASE CloserStep \/ CloseFails
    BY <1>3, CloserInv
  <1>4. CASE MainStep
    BY <1>4, MainInv
  <1>5. CASE Exited \/ UNCHANGED vars
    <2>1. UNCHANGED vars
      BY <1>5 DEF Exited
    <2> QED
      BY <2>1 DEF vars, IInv, TypeOK, Phases, Queued, Clients, Native, AfterPermits,
                Answered, ClientAlive, Leased
  <1> QED
    BY <1>1, <1>2, <1>3, <1>4, <1>5 DEF Next

(* The inductive invariant holds in every reachable state. *)
THEOREM Invariant == Spec => []IInv
  BY InitInv, Inductive, PTL DEF Spec
-----------------------------------------------------------------------------
(* What the invariant gives.                                               *)

(* Nothing the threads, the closer or CEF do leads out of the states they  *)
(* are written for.                                                        *)
THEOREM TypeCorrect == Spec => []TypeOK
  BY Invariant, PTL DEF IInv

LEMMA DrainedNow == IInv => DrainedIsFinal
  <1> SUFFICES ASSUME IInv, session = "Drained" PROVE DrainedIsFinal
    BY DEF DrainedIsFinal
  <1>1. closer = "done"
    BY DEF IInv, Phases
  <1> QED
    BY <1>1 DEF IInv, Phases, Queued, Clients, DrainedIsFinal, AfterPermits, Answered,
                ProducerLeft, StartPosted

(* Once drained, always drained: no permit, no client, no probe and no     *)
(* queued task is left that could bring the browser back (runtime.rs,      *)
(* web_overlay.rs).                                                        *)
THEOREM DrainedStaysDrained == Spec => []DrainedIsFinal
  BY Invariant, DrainedNow, PTL

-----------------------------------------------------------------------------
(* The refinement of Teardown: what is held and what is in use.            *)

Resource == <<"browser", "cef", "backend", "window", "host">>

Held == (IF session = "Drained" THEN {} ELSE {"browser"})
        \cup (IF cef = "down" THEN {} ELSE {"cef"})
        \cup (IF backend THEN {"backend"} ELSE {})
        \cup (IF window THEN {"window"} ELSE {})
        \cup (IF host THEN {"host"} ELSE {})

InUse == (IF ClientAlive \/ syncing THEN {"browser"} ELSE {})
        \cup (IF permits # {} \/ ClientAlive \/ ProducerLeft THEN {"cef"} ELSE {})
        \cup (IF Leased # {} THEN {"backend"} ELSE {})
        \cup (IF ingest THEN {"window"} ELSE {})

(* What is in use is held: the browser until the session is drained, CEF   *)
(* until then too, the backend while it is leased, mpv's window while mpv's*)
(* events are read.                                                        *)
LEMMA InUseHeld == IInv => InUse \subseteq Held
  <1> SUFFICES ASSUME IInv PROVE InUse \subseteq Held
    OBVIOUS
  <1>1. session = "Drained" => permits = {} /\ ~ClientAlive /\ ~ProducerLeft /\ ~syncing
    BY DrainedNow DEF DrainedIsFinal
  <1>2. cef = "down" => session = "Drained"
    BY DEF IInv, Native
  <1>3. ~backend => Leased = {}
    BY DEF IInv, Native
  <1>4. ~window => ~ingest
    BY DEF IInv, Native
  <1> QED
    BY <1>1, <1>2, <1>3, <1>4 DEF InUse, Held

(* One resource goes: what was released is not in use and its dependents   *)
(* are gone already.                                                       *)
LEMMA Releases ==
  ASSUME IInv, NEW i \in 1 .. 5, Resource[i] \in Held, Resource[i] \notin InUse,
         \A j \in 1 .. i - 1 : Resource[j] \notin Held,
         Held' = Held \ {Resource[i]}, InUse' \subseteq InUse
  PROVE  Ended!Release
  <1>1. DOMAIN Resource = 1 .. 5
    BY DEF Resource
  <1>2. Held \cap {Resource[j] : j \in 1 .. i - 1} = {}
    OBVIOUS
  <1> QED
    BY <1>1, <1>2 DEF Ended!Release, Ended!Before, Held, InUse, Resource

LEMMA Uses ==
  ASSUME IInv, IInv', Held' = Held
  PROVE  Ended!Use
  <1>1. (InUse \subseteq Held)'
    BY InUseHeld, PTL
  <1> QED
    BY <1>1 DEF Ended!Use, Held, InUse

(* What each party leaves held. *)
LEMMA ThreadsKeep ==
  ASSUME \/ \E t \in Threads : ThreadStep(t)
         \/ CefStep \/ ClosesByItself
  PROVE  Held' = Held
  <1>1. UNCHANGED <<session, cef, backend, window, host>>
    <2>1. CASE \E t \in Threads : ThreadStep(t)
      BY <2>1 DEF ThreadStep, Acquire, Post, Leave, TryLease, DropLease
    <2>2. CASE RunTask
      BY <2>2 DEF RunTask, BeginSync, EnsureBrowser, RunProbe, RunStart, RunBarrier, RunClose
    <2>3. CASE AfterCreated \/ BeforeClose \/ ClosesByItself \/ RequestCompletes
      BY <2>3 DEF AfterCreated, BeforeClose, ClosesByItself, RequestCompletes
    <2> QED
      BY <2>1, <2>2, <2>3 DEF CefStep
  <1> QED
    BY <1>1 DEF Held

LEMMA CloserKeeps ==
  ASSUME IInv, CloserStep \/ CloseFails, ~ConfirmDrain
  PROVE  Held' = Held
  <1>1. CASE BeginClose
    BY <1>1 DEF IInv, Phases, BeginClose, Revoked, Held
  <1>2. CASE ~BeginClose
    <2>1. UNCHANGED <<session, cef, backend, window, host>>
      BY <1>2 DEF CloserStep, CloseFails, AwaitPermits, PostBarrier, AwaitBarrier,
                  PostClose, AwaitDelivery, AwaitOwner
    <2> QED
      BY <2>1 DEF Held
  <1> QED
    BY <1>1, <1>2

(* The drain is confirmed: the browser goes, and the overlay's lease. *)
LEMMA DrainReleases ==
  ASSUME IInv, ConfirmDrain
  PROVE  Ended!Release
  <1>1. session = "Closing" /\ permits = {} /\ ~syncing /\ ~ClientAlive /\ ~ProducerLeft
    BY DEF ConfirmDrain, IInv, Phases, Queued, Clients, AfterPermits, Answered
  <1>2. "browser" \in Held /\ "browser" \notin InUse
    BY <1>1 DEF Held, InUse
  <1>3. Held' = Held \ {"browser"}
    BY <1>1 DEF ConfirmDrain, Held
  <1>4. InUse' \subseteq InUse
    BY <1>1 DEF ConfirmDrain, InUse, Leased, ClientAlive, ProducerLeft, StartPosted
  <1>5. Resource[1] = "browser"
    BY DEF Resource
  <1> QED
    BY <1>2, <1>3, <1>4, <1>5, Releases

(* The main thread's steps, from CEF to the host of the window. *)
LEMMA MainRefines ==
  ASSUME IInv, IInv', MainStep
  PROVE  Ended!Use \/ Ended!Release
  <1>1. CASE JoinManager \/ ShutShell \/ Retire
    <2>1. Held' = Held
      BY <1>1 DEF JoinManager, ShutShell, Retire, Held
    <2> QED
      BY <2>1, Uses
  <1>2. CASE Busy \/ StopIngest \/ TerminationRejected
    <2>1. Held' = Held
      BY <1>2 DEF Busy, StopIngest, TerminationRejected, Held
    <2> QED
      BY <2>1, Uses
  <1>3. CASE AbandonCef
    <2>1. Held' = Held
      BY <1>3 DEF AbandonCef, IInv, Native, Held
    <2> QED
      BY <2>1, Uses
  <1>4. CASE RevokeAgain
    <2>1. CASE session = "Inactive"
      <3>1. closer = "done"
        BY <2>1 DEF IInv, Phases
      <3>2. ~syncing /\ ~ClientAlive
        BY <3>1 DEF IInv, Queued, Clients, Answered
      <3>3. Resource[1] = "browser" /\ Resource[1] \in Held /\ Resource[1] \notin InUse
        BY <2>1, <3>2 DEF Resource, Held, InUse
      <3>4. Held' = Held \ {"browser"}
        BY <1>4, <2>1 DEF RevokeAgain, Revoked, Held
      <3>5. InUse' \subseteq InUse
        BY <1>4 DEF RevokeAgain, InUse, ClientAlive, ProducerLeft, StartPosted, Leased
      <3> QED
        BY <3>3, <3>4, <3>5, Releases
    <2>2. CASE session # "Inactive"
      <3>1. Held' = Held
        BY <1>4, <2>2 DEF RevokeAgain, Revoked, Held, IInv, Phases
      <3> QED
        BY <3>1, Uses
    <2> QED
      BY <2>1, <2>2
  <1>5. CASE ShutCef
    <2>1. session = "Drained" /\ cef = "up" /\ permits = {}
      BY <1>5 DEF IInv, Phases, Native, Leased, ShutCef
    <2>2. Resource[2] = "cef" /\ Resource[2] \in Held /\ Resource[2] \notin InUse
      BY <1>5, <2>1, DrainedNow DEF Resource, Held, InUse, DrainedIsFinal
    <2>3. \A j \in 1 .. 2 - 1 : Resource[j] \notin Held
      BY <2>1 DEF Resource, Held
    <2>4. Held' = Held \ {"cef"}
      BY <1>5, <2>1 DEF Held, ShutCef
    <2>5. InUse' \subseteq InUse
      BY <1>5, <2>1 DEF InUse, ClientAlive, ProducerLeft, StartPosted, Leased, ShutCef
    <2> QED
      BY <2>2, <2>3, <2>4, <2>5, Releases
  <1>6. CASE CleanBackend
    <2>1. session = "Drained" /\ cef = "down" /\ backend /\ Leased = {}
      BY <1>6 DEF IInv, Phases, Native, Leased, CleanBackend
    <2>2. Resource[3] = "backend" /\ Resource[3] \in Held /\ Resource[3] \notin InUse
      BY <1>6, <2>1, DrainedNow DEF Resource, Held, InUse, DrainedIsFinal
    <2>3. \A j \in 1 .. 3 - 1 : Resource[j] \notin Held
      BY <2>1 DEF Resource, Held
    <2>4. Held' = Held \ {"backend"}
      BY <1>6, <2>1 DEF Held, CleanBackend
    <2>5. InUse' \subseteq InUse
      BY <1>6, <2>1 DEF InUse, ClientAlive, ProducerLeft, StartPosted, Leased, CleanBackend
    <2> QED
      BY <2>2, <2>3, <2>4, <2>5, Releases
  <1>7. CASE Terminate
    <2>1. session = "Drained" /\ cef = "down" /\ ~backend /\ window /\ ~ingest
      BY <1>7 DEF IInv, Phases, Native, Leased, Terminate
    <2>2. Resource[4] = "window" /\ Resource[4] \in Held /\ Resource[4] \notin InUse
      BY <1>7, <2>1, DrainedNow DEF Resource, Held, InUse, DrainedIsFinal
    <2>3. \A j \in 1 .. 4 - 1 : Resource[j] \notin Held
      BY <2>1 DEF Resource, Held
    <2>4. Held' = Held \ {"window"}
      BY <1>7, <2>1 DEF Held, Terminate
    <2>5. InUse' \subseteq InUse
      BY <1>7, <2>1 DEF InUse, ClientAlive, ProducerLeft, StartPosted, Leased, Terminate
    <2> QED
      BY <2>2, <2>3, <2>4, <2>5, Releases
  <1>8. CASE ReleaseHost
    <2>1. session = "Drained" /\ cef = "down" /\ ~backend /\ ~window /\ host
      BY <1>8 DEF IInv, Phases, Native, Leased, ReleaseHost
    <2>2. Resource[5] = "host" /\ Resource[5] \in Held /\ Resource[5] \notin InUse
      BY <1>8, <2>1, DrainedNow DEF Resource, Held, InUse, DrainedIsFinal
    <2>3. \A j \in 1 .. 5 - 1 : Resource[j] \notin Held
      BY <2>1 DEF Resource, Held
    <2>4. Held' = Held \ {"host"}
      BY <1>8, <2>1 DEF Held, ReleaseHost
    <2>5. InUse' \subseteq InUse
      BY <1>8, <2>1 DEF InUse, ClientAlive, ProducerLeft, StartPosted, Leased, ReleaseHost
    <2> QED
      BY <2>2, <2>3, <2>4, <2>5, Releases
  <1> QED
    BY <1>1, <1>2, <1>3, <1>4, <1>5, <1>6, <1>7, <1>8 DEF MainStep

LEMMA StepRefines ==
  ASSUME IInv, IInv', [Next]_vars
  PROVE  Ended!Use \/ Ended!Release \/ (Held' = Held /\ InUse' = InUse)
  <1>1. CASE (\E t \in Threads : ThreadStep(t)) \/ CefStep \/ ClosesByItself
    BY <1>1, ThreadsKeep, Uses
  <1>2. CASE CloserStep \/ CloseFails
    BY <1>2, CloserKeeps, DrainReleases, Uses
  <1>3. CASE MainStep
    BY <1>3, MainRefines
  <1>4. CASE Exited \/ UNCHANGED vars
    <2>1. UNCHANGED vars
      BY <1>4 DEF Exited
    <2> QED
      BY <2>1 DEF vars, Held, InUse, ClientAlive, ProducerLeft, StartPosted, Leased
  <1> QED
    BY <1>1, <1>2, <1>3, <1>4 DEF Next

LEMMA InitRefines == Init => Ended!TeardownInit
  <1> SUFFICES ASSUME Init PROVE Ended!TeardownInit
    OBVIOUS
  <1>1. InUse \subseteq Held
    BY InitInv, InUseHeld
  <1>2. Held \subseteq {Resource[i] : i \in DOMAIN Resource}
    BY DEF Held, Resource
  <1> QED
    BY <1>1, <1>2 DEF Ended!TeardownInit, Ended!Resources, Held, InUse, Resource

(* close_blocking, try_shutdown and cleanup together release browser, CEF, *)
(* backend, window and host in this order, each unused and never used      *)
(* again, whatever any wait and any post comes to.                         *)
THEOREM TeardownImplemented == Spec => ImplementsTeardown
  <1>1. Init => Ended!TeardownInit
    BY InitRefines
  <1>2. IInv /\ IInv' /\ [Next]_vars => [Ended!TeardownNext]_Ended!teardownVars
    BY StepRefines DEF Ended!TeardownNext, Ended!teardownVars, Held, InUse
  <1> QED
    BY <1>1, <1>2, Invariant, PTL DEF Spec, ImplementsTeardown, Ended!TeardownSpec
=============================================================================
