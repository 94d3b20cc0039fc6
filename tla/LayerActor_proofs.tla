------------------------- MODULE LayerActor_proofs -------------------------
(***************************************************************************)
(* Proofs about LayerActor for any page, sizes and bounds: a software or   *)
(* shared frame shows exactly what its producer painted, and a layer whose *)
(* hide was acknowledged stays empty.                                      *)
(*                                                                         *)
(* Request follows a visibility request from the mailbox through the       *)
(* worker to its acknowledgement, and with it who may still attach a       *)
(* buffer.  Routes separates the ways a frame may take: a layer with a GPU *)
(* backend has no software frame anywhere, and once one was stored none of *)
(* the others can overtake it.  Chain is the argument for the patches: the *)
(* worker's shadow, the frame it serves, the frame in the mailbox and the  *)
(* one in the UI thread's hands each differ from their predecessor only    *)
(* where they are dirty, as long as the mailbox calls the shadow valid.    *)
(***************************************************************************)
EXTENDS LayerActor, TLAPS

Pages  == [Regions -> Versions]
Pixels == UNION {[D -> Versions] : D \in SUBSET Regions}
Vias   == {"dmabuf", "gpu", "shm"}

Painted == [via : Vias, size : Sizes, dirty : SUBSET Regions, of : Pages]
Frames  == [via : Vias, size : Sizes, full : BOOLEAN, dirty : SUBSET Regions,
            pixels : Pixels, of : Pages]
MaybeFrames == Frames \cup {NoFrame}

Mailboxes == [pending : MaybeFrames, shadow : Sizes \cup {Stale}, viewport : Sizes,
              requested : {"none", "Shown", "Hidden"}, seq : Nat, acked : Nat,
              dirty : BOOLEAN, shutdown : BOOLEAN]
Wakes     == [frame : MaybeFrames, viewport : Sizes, dirty : BOOLEAN, seq : Nat]

Serving == worker \in {"serve", "callback", "arm", "push", "publish"}

Types ==
  /\ shared \in BOOLEAN /\ kind \in {"gpu", "shm"} /\ backend \in {"gpu", "shm"}
  /\ gpuFailed \in BOOLEAN /\ shownByWorker \in BOOLEAN
  /\ page \in Pages /\ changes \in 0 .. MaxChanges /\ damage \subseteq Regions
  /\ view \in Sizes /\ extent \in Sizes
  /\ ui \in {"created", "await", "signal", "shown", "enqueue", "hidden", "joining", "freed"}
  /\ visibility \in {"Shown", "Hidden"}
  /\ worker \in {"idle", "serve", "callback", "arm", "push", "publish", "stopped"}
  /\ mb \in Mailboxes /\ held \in MaybeFrames
  /\ Serving => wake \in Wakes
  /\ ui = "enqueue" => frame \in Painted
  /\ shadow \in [size : Sizes \cup {NoSize}, pixels : Pages]
  /\ cached = [buffer |-> cached.buffer, destination |-> cached.destination]

(* Nothing is asked for, and the worker completes no request. *)
Unasked == /\ mb.requested = "none" /\ worker \in {"idle", "serve", "stopped"}
           /\ worker = "serve" => wake.seq = NoAck

Awaits ==
  \/ /\ mb.requested = visibility /\ worker \in {"idle", "serve"} /\ mb.acked = NoAck
     /\ worker = "serve" => wake.seq = NoAck
  \/ /\ mb.requested = "none" /\ shownByWorker = (visibility = "Shown")
     /\ worker \in {"serve", "callback", "arm", "push", "publish"}
     /\ wake.seq = mb.seq /\ mb.acked = NoAck
     /\ visibility = "Hidden" /\ worker # "serve" => cached.buffer = Nothing
  \/ /\ Unasked /\ shownByWorker = (visibility = "Shown") /\ mb.acked = mb.seq
     /\ visibility = "Hidden" => cached.buffer = Nothing

Request ==
  /\ ui \in {"shown", "enqueue"} => visibility = "Shown"
  /\ ui \in {"created", "hidden", "joining", "freed"} => visibility = "Hidden"
  /\ ui = "await" => Awaits /\ mb.seq > 0
  /\ ui # "await" => /\ Unasked /\ shownByWorker = (visibility = "Shown") /\ mb.acked = NoAck
                     /\ visibility = "Hidden" => cached.buffer = Nothing
  /\ ui \notin {"shown", "enqueue"} => mb.pending = NoFrame /\ mb.shadow = Stale
  /\ mb.shutdown => ui \in {"joining", "freed"}
  /\ worker = "stopped" => mb.shutdown

(* A frame with every pixel is what was painted. *)
Whole(f) == f # NoFrame /\ f.full => f.pixels = f.of

WakeVia == IF worker = "serve" THEN wake.frame.via ELSE "none"
InHand  == IF ui = "enqueue" THEN frame.via ELSE "none"

Routes ==
  /\ Whole(mb.pending) /\ Whole(held) /\ (worker = "serve" => Whole(wake.frame))
  /\ shared => kind = "shm" /\ mb.shadow = Stale
  /\ \A via \in {InHand, mb.pending.via, WakeVia, held.via} :
       via \in IF shared THEN {"none", "dmabuf"} ELSE {"none", "gpu", "shm"}
  /\ backend = "gpu" <=> kind = "gpu" /\ ~gpuFailed
  /\ backend = "gpu" => /\ mb.shadow = Stale
                        /\ "shm" \notin {InHand, mb.pending.via, WakeVia}
  /\ held # NoFrame => backend = "gpu" /\ held.via = "gpu" /\ held.full
  /\ worker = "serve" => held = NoFrame
  /\ mb.shadow # Stale => InHand # "gpu"
  /\ mb.pending # NoFrame /\ mb.pending.via # "shm" => mb.pending.full
  /\ worker = "serve" /\ wake.frame # NoFrame /\ wake.frame.via # "shm" => wake.frame.full

(* What the shadow is once the worker has done what it does. *)
WorkerTip == IF worker = "serve" /\ wake.frame # NoFrame
               THEN [size |-> wake.frame.size, pixels |-> wake.frame.of] ELSE shadow

(* The patch f applies to the shadow s. *)
Patches(f, s) ==
  /\ s.size = f.size /\ DOMAIN f.pixels = f.dirty
  /\ \A r \in Regions : IF r \in f.dirty THEN f.pixels[r] = f.of[r] ELSE s.pixels[r] = f.of[r]

(* The page the next frame is of, and where it may differ from the last. *)
Next_of    == IF ui = "enqueue" THEN frame.of ELSE page
Next_dirty == IF ui = "enqueue" THEN frame.dirty ELSE damage

Agree(p, q, dirty) == \A r \in Regions \ dirty : p[r] = q[r]

Chain ==
  /\ worker = "serve" /\ wake.frame # NoFrame /\ ~wake.frame.full => Patches(wake.frame, shadow)
  /\ mb.pending # NoFrame /\ ~mb.pending.full => Patches(mb.pending, WorkerTip)
  /\ mb.shadow # Stale /\ mb.pending # NoFrame =>
       /\ mb.pending.via = "shm" /\ mb.pending.size = mb.shadow
       /\ Agree(mb.pending.of, Next_of, Next_dirty)
  /\ mb.shadow # Stale /\ mb.pending = NoFrame =>
       /\ WorkerTip.size = mb.shadow
       /\ Agree(WorkerTip.pixels, Next_of, Next_dirty)
  /\ ui = "enqueue" => Agree(frame.of, page, damage)

IInv == Types /\ Request /\ Routes /\ Chain /\ PatchesHaveABase

USE DEF uiVars, workerVars, rootVars, setup, UiStep, WorkerStep, RootStep, Serve

-----------------------------------------------------------------------------
(* The mailbox and the frames.                                             *)

LEMMA SizesPositive == 1 \in Sizes /\ NoSize \notin Sizes /\ Sizes \subseteq Nat
  BY LayerConstants DEF NoSize

LEMMA FrameKinds ==
  /\ \A f \in Frames : f # NoFrame /\ f.via \in Vias
  /\ NoFrame.via = "none"
  /\ \A f \in MaybeFrames : f = NoFrame <=> f.via = "none"
  BY DEF Frames, MaybeFrames, NoFrame, Vias

LEMMA ResizedMailbox ==
  ASSUME NEW m \in Mailboxes, NEW size \in Sizes
  PROVE  LET r == Resized(m, size) IN
           /\ r \in Mailboxes
           /\ r.pending = m.pending /\ r.requested = m.requested
           /\ r.seq = m.seq /\ r.acked = m.acked /\ r.shutdown = m.shutdown
           /\ r.shadow = m.shadow \/ r.shadow = Stale
  BY DEF Mailboxes, Resized

LEMMA InitInv == Init => IInv
  <1> SUFFICES ASSUME Init PROVE IInv
    OBVIOUS
  <1> USE SizesPositive
  <1>1. 0 \in Versions /\ 1 \in Versions /\ 0 \in 0 .. MaxChanges
    BY LayerConstants DEF Versions
  <1>2. Blank \in Pages /\ [r \in Regions |-> 1] \in Pages
    BY <1>1 DEF Blank, Pages
  <1>3. mb \in Mailboxes
    BY DEF Init, Mailboxes, MaybeFrames, NoAck, Stale, NoSize
  <1>4. NoPixels \in [size : Sizes \cup {NoSize}, pixels : Pages]
    BY <1>2 DEF NoPixels
  <1>5. Types
    BY <1>1, <1>2, <1>3, <1>4 DEF Init, Types, Serving, MaybeFrames
  <1>6. mb.pending = NoFrame /\ mb.shadow = Stale /\ mb.requested = "none" /\ mb.acked = NoAck
        /\ ~mb.shutdown
    BY DEF Init
  <1>7. Request
    BY <1>6 DEF Init, Request, Unasked
  <1>8. Routes
    BY <1>6, FrameKinds DEF Init, Routes, Whole, WakeVia, InHand
  <1>9. Chain
    BY <1>6 DEF Init, Chain
  <1>10. PatchesHaveABase
    BY DEF Init, PatchesHaveABase, Nothing
  <1> QED
    BY <1>5, <1>7, <1>8, <1>9, <1>10 DEF IInv

-----------------------------------------------------------------------------
(* Steps that at most resize the mailbox and ask for more to be painted.   *)

Carried == <<shared, kind, backend, gpuFailed, shownByWorker, page, changes, ui, visibility,
             worker, held, wake, frame, shadow, cached>>

SameRequest(m, n) ==
  /\ n.pending = m.pending /\ n.requested = m.requested /\ n.seq = m.seq
  /\ n.acked = m.acked /\ n.shutdown = m.shutdown
  /\ n.shadow = m.shadow \/ n.shadow = Stale

LEMMA CarriedKeeps ==
  ASSUME IInv, UNCHANGED Carried, mb' \in Mailboxes, SameRequest(mb, mb'),
         damage \subseteq damage', damage' \subseteq Regions, view' \in Sizes, extent' \in Sizes
  PROVE  IInv'
  <1> USE DEF Carried, SameRequest
  <1>1. Types'
    BY DEF IInv, Types, Serving
  <1>2. Request'
    BY DEF IInv, Request, Awaits, Unasked
  <1>3. Routes'
    BY DEF IInv, Routes, Whole, WakeVia, InHand
  <1>4. Next_of' = Next_of /\ Next_dirty \subseteq Next_dirty' /\ WorkerTip' = WorkerTip
    BY DEF Next_of, Next_dirty, WorkerTip
  <1>5. Chain'
    BY <1>4 DEF IInv, Chain, Agree, Patches
  <1>6. PatchesHaveABase'
    BY DEF IInv, PatchesHaveABase
  <1> QED
    BY <1>1, <1>2, <1>3, <1>5, <1>6 DEF IInv

LEMMA SameMailbox == ASSUME IInv, mb' = mb PROVE mb' \in Mailboxes /\ SameRequest(mb, mb')
  BY DEF IInv, Types, SameRequest

LEMMA ResizedKeeps ==
  ASSUME IInv, NEW size \in Sizes, mb' = Resized(mb, size)
  PROVE  mb' \in Mailboxes /\ SameRequest(mb, mb')
  BY ResizedMailbox DEF IInv, Types, SameRequest

LEMMA RootKeeps ==
  ASSUME IInv, Root \/ Disconnect \/ \E size \in Sizes : Publish(size)
  PROVE  IInv'
  <1>1. UNCHANGED Carried /\ UNCHANGED <<damage, view>>
    BY DEF Root, OnConfigure, RootCommit, CallbackDone, ReleaseWaiters, Disconnect, Publish, Carried
  <1>2. extent' \in Sizes
    BY DEF Root, OnConfigure, RootCommit, CallbackDone, ReleaseWaiters, Disconnect, Publish, IInv, Types
  <1>3. mb' \in Mailboxes /\ SameRequest(mb, mb')
    <2>1. CASE OnConfigure
      BY <2>1, ResizedKeeps DEF OnConfigure, IInv, Types
    <2>2. CASE ~OnConfigure
      <3>1. mb' = mb
        BY <2>2 DEF Root, RootCommit, CallbackDone, ReleaseWaiters, Disconnect, Publish
      <3> QED
        BY <3>1, SameMailbox
    <2> QED
      BY <2>1, <2>2
  <1> QED
    BY <1>1, <1>2, <1>3, CarriedKeeps DEF IInv, Types

LEMMA AskingKeeps ==
  ASSUME IInv, PaintRefused \/ SyncView \/ UNCHANGED vars
  PROVE  IInv'
  <1>1. UNCHANGED Carried /\ extent' = extent
    BY DEF PaintRefused, SyncView, vars, Carried
  <1>2. (damage' = damage \/ damage' = Regions) /\ (view' = view \/ view' = extent)
    BY DEF PaintRefused, SyncView, vars
  <1>3. mb' \in Mailboxes /\ SameRequest(mb, mb')
    <2>1. mb' = mb \/ mb' = Resized(mb, extent)
      BY DEF PaintRefused, SyncView, vars
    <2> QED
      BY <2>1, ResizedKeeps, SameMailbox DEF IInv, Types
  <1> QED
    BY <1>1, <1>2, <1>3, CarriedKeeps DEF IInv, Types

-----------------------------------------------------------------------------
(* The UI thread.                                                          *)

LEMMA RequestKeeps ==
  ASSUME IInv, Show \/ Hide
  PROVE  IInv'
  <1>1. PICK v \in {"Shown", "Hidden"} :
          /\ SetVisibility(v)
          /\ v = "Shown" <=> ui = "created"
          /\ ui \in {"created", "shown"}
    BY DEF Show, Hide
  <1>2. /\ visibility' = v /\ ui' = "await" /\ mb' = Requested(mb, v)
        /\ UNCHANGED <<shared, kind, backend, gpuFailed, shownByWorker, page, changes, damage, view,
                       extent, worker, held, wake, frame, shadow, cached>>
    BY <1>1 DEF SetVisibility
  <1>3. mb \in Mailboxes /\ mb.seq \in Nat
    BY DEF IInv, Types, Mailboxes
  <1>4. /\ mb' \in Mailboxes /\ mb'.requested = v /\ mb'.seq = mb.seq + 1
        /\ mb'.acked = mb.acked /\ mb'.shutdown = mb.shutdown
        /\ v = "Hidden" => mb'.pending = NoFrame /\ mb'.shadow = Stale
        /\ v = "Shown" => mb'.pending = mb.pending /\ mb'.shadow = mb.shadow
    <2> DEFINE r == [mb EXCEPT !.requested = v, !.seq = mb.seq + 1]
    <2>1. /\ r \in Mailboxes /\ r.requested = v /\ r.seq = mb.seq + 1
          /\ r.acked = mb.acked /\ r.shutdown = mb.shutdown
          /\ r.pending = mb.pending /\ r.shadow = mb.shadow
      <3>1. mb.seq + 1 \in Nat /\ v \in {"none", "Shown", "Hidden"}
        BY <1>3
      <3>2. r \in Mailboxes
        BY <3>1, <1>3 DEF Mailboxes
      <3> QED
        BY <3>2, <1>3 DEF Mailboxes
    <2>2. mb' = IF v = "Shown" THEN r ELSE [r EXCEPT !.pending = NoFrame, !.shadow = Stale]
      BY <1>2, <1>3 DEF Requested
    <2> HIDE DEF r
    <2>3. NoFrame \in MaybeFrames /\ Stale \in Sizes \cup {Stale}
      BY DEF MaybeFrames
    <2>4. CASE v = "Shown"
      BY <2>1, <2>2, <2>4
    <2>5. CASE v # "Shown"
      BY <2>1, <2>2, <2>3, <2>5 DEF Mailboxes
    <2> QED
      BY <2>4, <2>5
  <1>5. Types'
    BY <1>1, <1>2, <1>4 DEF IInv, Types, Serving
  <1>6. mb'.pending = NoFrame /\ mb'.shadow = Stale
    BY <1>1, <1>4 DEF IInv, Request
  <1>7. Unasked /\ mb.acked = NoAck /\ ~mb.shutdown /\ worker # "stopped"
    BY <1>1 DEF IInv, Request
  <1>8. Request'
    BY <1>1, <1>2, <1>3, <1>4, <1>6, <1>7 DEF Request, Awaits, Unasked
  <1>9. InHand' = "none" /\ WakeVia' = WakeVia
    BY <1>2 DEF InHand, WakeVia
  <1>10. Routes'
    BY <1>2, <1>6, <1>9, FrameKinds DEF IInv, Routes, Whole
  <1>11. Chain'
    BY <1>2, <1>6 DEF IInv, Chain, Patches
  <1>12. PatchesHaveABase'
    BY <1>2 DEF IInv, PatchesHaveABase
  <1> QED
    BY <1>5, <1>8, <1>10, <1>11, <1>12 DEF IInv

LEMMA AcknowledgementKeeps ==
  ASSUME IInv, TakeAck \/ Acknowledged
  PROVE  IInv'
  <1>1. UNCHANGED <<shared, kind, backend, gpuFailed, shownByWorker, page, changes, damage, view,
                    extent, visibility, worker, held, wake, frame, shadow, cached>>
    BY DEF TakeAck, Acknowledged
  <1>2. CASE TakeAck
    <2>1. ui = "await" /\ ui' = "signal" /\ mb' = [mb EXCEPT !.acked = NoAck] /\ mb.acked >= mb.seq
      BY <1>2 DEF TakeAck
    <2>2. mb \in Mailboxes /\ mb.seq \in Nat /\ mb.acked \in Nat /\ mb.seq > 0
      BY <2>1 DEF IInv, Types, Mailboxes, Request
    <2>3. /\ mb' \in Mailboxes /\ mb'.acked = NoAck
          /\ mb'.pending = mb.pending /\ mb'.requested = mb.requested /\ mb'.seq = mb.seq
          /\ mb'.shutdown = mb.shutdown /\ mb'.shadow = mb.shadow
      BY <2>1, <2>2 DEF Mailboxes, NoAck
    <2>4. mb.acked # NoAck
      BY <2>1, <2>2 DEF NoAck
    <2>5. Types'
      BY <1>1, <2>1, <2>3 DEF IInv, Types, Serving
    <2>6. Request'
      BY <1>1, <2>1, <2>3, <2>4 DEF IInv, Request, Awaits, Unasked
    <2>7. Routes'
      BY <1>1, <2>1, <2>3 DEF IInv, Routes, Whole, WakeVia, InHand
    <2>8. Next_of' = Next_of /\ Next_dirty = Next_dirty' /\ WorkerTip' = WorkerTip
      BY <1>1, <2>1 DEF Next_of, Next_dirty, WorkerTip
    <2>9. Chain'
      BY <1>1, <2>1, <2>3, <2>8 DEF IInv, Chain, Agree, Patches
    <2> QED
      BY <1>1, <2>5, <2>6, <2>7, <2>9 DEF IInv, PatchesHaveABase
  <1>3. CASE Acknowledged
    <2>1. /\ ui = "signal" /\ mb' = mb
          /\ ui' = IF visibility = "Shown" THEN "shown" ELSE "hidden"
      BY <1>3 DEF Acknowledged
    <2>2. Types'
      BY <1>1, <2>1 DEF IInv, Types, Serving
    <2>3. Request'
      BY <1>1, <2>1 DEF IInv, Types, Request, Unasked
    <2>4. Routes'
      BY <1>1, <2>1 DEF IInv, Routes, Whole, WakeVia, InHand
    <2>5. mb.pending = NoFrame /\ mb.shadow = Stale
      BY <2>1 DEF IInv, Request
    <2>6. Chain'
      BY <1>1, <2>1, <2>5 DEF IInv, Chain, Patches
    <2> QED
      BY <1>1, <2>2, <2>3, <2>4, <2>6 DEF IInv, PatchesHaveABase
  <1> QED
    BY <1>2, <1>3

LEMMA FreeKeeps ==
  ASSUME IInv, Free \/ Joined
  PROVE  IInv'
  <1>1. UNCHANGED <<shared, kind, backend, gpuFailed, shownByWorker, page, changes, damage, view,
                    extent, visibility, worker, held, wake, frame, shadow, cached>>
    BY DEF Free, Joined
  <1>2. /\ ui \in {"created", "hidden", "joining"} /\ ui' \in {"joining", "freed"}
        /\ mb' = mb \/ mb' = [mb EXCEPT !.shutdown = TRUE, !.pending = NoFrame]
    BY DEF Free, Joined
  <1>3. mb \in Mailboxes /\ mb.pending = NoFrame
    BY <1>2 DEF IInv, Types, Request
  <1>4. /\ mb' \in Mailboxes /\ mb'.pending = mb.pending /\ mb'.requested = mb.requested
        /\ mb'.seq = mb.seq /\ mb'.acked = mb.acked /\ mb'.shadow = mb.shadow
        /\ mb.shutdown => mb'.shutdown
    BY <1>2, <1>3 DEF Mailboxes, MaybeFrames
  <1>5. Types'
    BY <1>1, <1>2, <1>4 DEF IInv, Types, Serving
  <1>6. Request'
    BY <1>1, <1>2, <1>4 DEF IInv, Request, Unasked
  <1>7. Routes'
    BY <1>1, <1>2, <1>4 DEF IInv, Routes, Whole, WakeVia, InHand
  <1>8. Next_of' = Next_of /\ Next_dirty = Next_dirty' /\ WorkerTip' = WorkerTip
    BY <1>1, <1>2 DEF Next_of, Next_dirty, WorkerTip
  <1>9. Chain'
    BY <1>1, <1>2, <1>4, <1>8 DEF IInv, Chain, Agree, Patches
  <1> QED
    BY <1>1, <1>5, <1>6, <1>7, <1>9 DEF IInv, PatchesHaveABase

(* A change of the page is in the damage of the frame after it. *)
LEMMA ChangeKeeps ==
  ASSUME IInv, NEW region \in Regions, Change(region)
  PROVE  IInv'
  <1>1. UNCHANGED <<shared, kind, backend, gpuFailed, shownByWorker, view, extent, ui, visibility,
                    worker, held, wake, frame, shadow, cached, mb>>
    BY DEF Change
  <1>2. /\ changes' = changes + 1 /\ changes < MaxChanges
        /\ page' = [page EXCEPT ![region] = changes' + 1] /\ damage' = damage \cup {region}
    BY DEF Change
  <1>3. changes' \in 0 .. MaxChanges /\ changes' + 1 \in Versions
    BY <1>2, LayerConstants DEF IInv, Types, Versions
  <1>4. page' \in Pages /\ \A r \in Regions \ {region} : page'[r] = page[r]
    BY <1>2, <1>3 DEF IInv, Types, Pages
  <1>5. Types'
    BY <1>1, <1>2, <1>3, <1>4 DEF IInv, Types, Serving
  <1>6. Request' /\ Routes' /\ PatchesHaveABase'
    BY <1>1 DEF IInv, Request, Awaits, Unasked, Routes, Whole, WakeVia, InHand, PatchesHaveABase
  <1>7. WorkerTip' = WorkerTip
    BY <1>1 DEF WorkerTip
  <1>8. ASSUME NEW p, Agree(p, Next_of, Next_dirty) PROVE Agree(p, Next_of', Next_dirty')
    BY <1>1, <1>2, <1>4, <1>8 DEF Next_of, Next_dirty, Agree
  <1>9. ui = "enqueue" /\ Agree(frame.of, page, damage) => Agree(frame.of, page', damage')
    BY <1>2, <1>4 DEF Agree
  <1>10. Chain'
    BY <1>1, <1>7, <1>8, <1>9 DEF IInv, Chain, Patches
  <1> QED
    BY <1>5, <1>6, <1>10 DEF IInv

(* OnPaint takes what is damaged; its frame is the page. *)
LEMMA PaintKeeps ==
  ASSUME IInv, Paint
  PROVE  IInv'
  <1>1. UNCHANGED <<shared, kind, backend, gpuFailed, shownByWorker, page, changes, view, extent,
                    visibility, worker, held, wake, shadow, cached>>
    BY DEF Paint
  <1>2. /\ ui = "shown" /\ ui' = "enqueue" /\ mb' = Resized(mb, extent) /\ damage' = {}
        /\ frame' = [via |-> IF shared THEN "dmabuf"
                             ELSE IF kind = "gpu" /\ ~gpuFailed THEN "gpu" ELSE "shm",
                     size |-> view, dirty |-> damage, of |-> page]
    BY DEF Paint
  <1>3. mb' \in Mailboxes /\ SameRequest(mb, mb')
    BY <1>2, ResizedKeeps DEF IInv, Types
  <1>4. /\ frame' \in Painted
        /\ frame'.via = IF shared THEN "dmabuf" ELSE IF backend = "gpu" THEN "gpu" ELSE "shm"
        /\ frame'.dirty = damage /\ frame'.of = page
    BY <1>2 DEF Painted, Vias, IInv, Types, Routes
  <1>5. Types'
    BY <1>1, <1>2, <1>3, <1>4 DEF IInv, Types, Serving
  <1>6. Request'
    BY <1>1, <1>2, <1>3 DEF SameRequest, IInv, Request, Unasked
  <1>7. InHand' = frame'.via /\ InHand = "none" /\ WakeVia' = WakeVia
    BY <1>1, <1>2 DEF InHand, WakeVia
  <1>8. Routes'
    BY <1>1, <1>2, <1>3, <1>4, <1>7 DEF SameRequest, IInv, Routes, Whole
  <1>9. Next_of' = Next_of /\ Next_dirty' = Next_dirty /\ WorkerTip' = WorkerTip
    BY <1>1, <1>2, <1>4 DEF Next_of, Next_dirty, WorkerTip
  <1>10. Chain'
    BY <1>1, <1>2, <1>3, <1>4, <1>9 DEF SameRequest, IInv, Chain, Patches, Agree
  <1> QED
    BY <1>1, <1>5, <1>6, <1>8, <1>10 DEF IInv, PatchesHaveABase

(* What is stored in the mailbox: a whole frame, or a patch. *)
WholeStored(m, f, n) ==
  /\ n \in Mailboxes /\ n.requested = m.requested /\ n.seq = m.seq
  /\ n.acked = m.acked /\ n.shutdown = m.shutdown
  /\ n.shadow = m.shadow \/ n.shadow = Stale
  /\ n.pending \in Frames /\ n.pending.via = f.via /\ n.pending.of = f.of
  /\ n.pending.full /\ n.pending.pixels = f.of

LEMMA SupersedeStores ==
  ASSUME NEW m \in Mailboxes, NEW f \in Painted
  PROVE  WholeStored(m, f, Supersede(m, f))
  <1> DEFINE g == [via |-> f.via, size |-> f.size, full |-> TRUE, dirty |-> f.dirty,
                   pixels |-> f.of, of |-> f.of]
  <1>1. f.of \in Pixels
    BY DEF Painted, Pages, Pixels
  <1>2. g \in Frames
    BY <1>1 DEF Painted, Frames
  <1>3. g \in MaybeFrames
    BY <1>2 DEF MaybeFrames
  <1>4. Supersede(m, f) = [m EXCEPT !.pending = g,
                             !.shadow = IF f.via = "dmabuf" THEN Stale ELSE m.shadow]
    BY DEF Supersede, Mailboxes
  <1> HIDE DEF g
  <1>5. (IF f.via = "dmabuf" THEN Stale ELSE m.shadow) \in Sizes \cup {Stale}
    BY DEF Mailboxes
  <1>6. /\ Supersede(m, f) \in Mailboxes /\ Supersede(m, f).pending = g
        /\ Supersede(m, f).requested = m.requested /\ Supersede(m, f).seq = m.seq
        /\ Supersede(m, f).acked = m.acked /\ Supersede(m, f).shutdown = m.shutdown
        /\ Supersede(m, f).shadow = IF f.via = "dmabuf" THEN Stale ELSE m.shadow
    BY <1>3, <1>4, <1>5 DEF Mailboxes
  <1>7. g.via = f.via /\ g.of = f.of /\ g.full /\ g.pixels = f.of
    BY DEF g
  <1> QED
    BY <1>2, <1>6, <1>7 DEF WholeStored

Merges(m, f) == /\ m.pending.via = "shm" /\ ~m.pending.full
                /\ m.pending.size = f.size

ShmStored(m, f, n) ==
  /\ n \in Mailboxes /\ n.requested = m.requested /\ n.seq = m.seq
  /\ n.acked = m.acked /\ n.shutdown = m.shutdown /\ n.shadow = f.size
  /\ n.pending \in Frames /\ n.pending.via = "shm" /\ n.pending.size = f.size
  /\ n.pending.of = f.of /\ n.pending.full = NeedsFullCopy(m, f.size)
  /\ n.pending.full => n.pending.pixels = f.of
  /\ ~n.pending.full =>
       /\ n.pending.dirty = IF Merges(m, f) THEN m.pending.dirty \cup f.dirty ELSE f.dirty
       /\ DOMAIN n.pending.pixels = n.pending.dirty
       /\ \A r \in n.pending.dirty :
            n.pending.pixels[r] = IF r \in f.dirty THEN f.of[r] ELSE m.pending.pixels[r]

LEMMA ShmStores ==
  ASSUME NEW m \in Mailboxes, NEW f \in Painted,
         m.pending # NoFrame /\ ~m.pending.full => DOMAIN m.pending.pixels = m.pending.dirty
  PROVE  ShmStored(m, f, StoreShm(m, f))
  <1> DEFINE n      == StoreShm(m, f)
             full   == NeedsFullCopy(m, f.size)
             merges == ~full /\ Merges(m, f)
             dirty  == IF merges THEN m.pending.dirty \cup f.dirty ELSE f.dirty
             rects  == [r \in dirty |-> IF r \in f.dirty THEN f.of[r] ELSE m.pending.pixels[r]]
             g      == [via |-> "shm", size |-> f.size, full |-> full, dirty |-> dirty,
                        pixels |-> IF full THEN f.of ELSE rects, of |-> f.of]
  <1>1. n = [m EXCEPT !.shadow = IF full THEN f.size ELSE m.shadow, !.pending = g]
    BY DEF StoreShm, Mailboxes, Merges
  <1>2. m.pending \in MaybeFrames /\ f.of \in Pages /\ f.size \in Sizes /\ f.dirty \subseteq Regions
    BY DEF Mailboxes, Painted
  <1>3. full \in BOOLEAN /\ (~full => m.shadow = f.size)
    BY DEF NeedsFullCopy
  <1>4. ASSUME merges
        PROVE  /\ m.pending \in Frames /\ m.pending.dirty \subseteq Regions
               /\ m.pending.pixels \in [m.pending.dirty -> Versions]
    <2>1. m.pending.via = "shm" /\ ~m.pending.full
      BY <1>4 DEF Merges
    <2>2. m.pending # NoFrame
      BY <2>1, FrameKinds
    <2>3. m.pending \in Frames
      BY <2>2, <1>2 DEF MaybeFrames
    <2>4. m.pending.pixels \in Pixels /\ m.pending.dirty \subseteq Regions
      BY <2>3 DEF Frames
    <2>5. PICK D \in SUBSET Regions : m.pending.pixels \in [D -> Versions]
      BY <2>4 DEF Pixels
    <2> QED
      BY <2>1, <2>2, <2>3, <2>4, <2>5
  <1>5. dirty \subseteq Regions
    BY <1>2, <1>4
  <1>6. rects \in [dirty -> Versions]
    <2>1. ASSUME NEW r \in dirty
          PROVE  (IF r \in f.dirty THEN f.of[r] ELSE m.pending.pixels[r]) \in Versions
      <3>1. CASE r \in f.dirty
        BY <3>1, <1>2 DEF Pages
      <3>2. CASE r \notin f.dirty
        <4>1. merges /\ r \in m.pending.dirty
          BY <3>2
        <4> QED
          BY <3>2, <4>1, <1>4
      <3> QED
        BY <3>1, <3>2
    <2> QED
      BY <2>1
  <1> HIDE DEF dirty, merges
  <1>7. (IF full THEN f.of ELSE rects) \in Pixels
    BY <1>2, <1>5, <1>6 DEF Pixels, Pages
  <1>8. DOMAIN rects = dirty /\ \A r \in dirty : rects[r] = IF r \in f.dirty THEN f.of[r]
                                                            ELSE m.pending.pixels[r]
    OBVIOUS
  <1> HIDE DEF full, rects
  <1>9. g \in Frames
    BY <1>2, <1>3, <1>5, <1>7 DEF Frames, Vias
  <1>10. /\ g.via = "shm" /\ g.size = f.size /\ g.full = full /\ g.dirty = dirty /\ g.of = f.of
         /\ g.pixels = IF full THEN f.of ELSE rects
    OBVIOUS
  <1> HIDE DEF g
  <1>11. g \in MaybeFrames /\ f.size \in Sizes \cup {Stale}
    BY <1>9, <1>2 DEF MaybeFrames
  <1>12. n = [m EXCEPT !.shadow = f.size, !.pending = g]
    BY <1>1, <1>3 DEF Mailboxes
  <1> HIDE DEF n
  <1>13. /\ n \in Mailboxes /\ n.pending = g /\ n.shadow = f.size
         /\ n.requested = m.requested /\ n.seq = m.seq
         /\ n.acked = m.acked /\ n.shutdown = m.shutdown
    BY <1>11, <1>12 DEF Mailboxes
  <1>14. ~full => dirty = IF Merges(m, f) THEN m.pending.dirty \cup f.dirty ELSE f.dirty
    BY DEF dirty, merges
  <1> QED
    <2>1. /\ g.full => g.pixels = f.of
          /\ ~g.full => g.pixels = rects
      BY <1>3, <1>10
    <2>2. ShmStored(m, f, n)
      BY <1>8, <1>9, <1>10, <1>13, <1>14, <2>1 DEF ShmStored, full
    <2> QED
      BY <2>2 DEF n

(* A frame is handed over: it continues the chain, or is whole. *)
LEMMA EnqueueKeeps ==
  ASSUME IInv, Enqueue
  PROVE  IInv'
  <1>1. UNCHANGED <<shared, kind, backend, gpuFailed, shownByWorker, page, changes, damage, view, extent,
                    visibility, worker, held, wake, shadow, cached>>
    BY DEF Enqueue
  <1>2. /\ ui = "enqueue" /\ ui' = "shown" /\ frame' = NoFrame
        /\ mb' = IF frame.via = "shm" THEN StoreShm(mb, frame) ELSE Supersede(mb, frame)
    BY DEF Enqueue
  <1>3. mb \in Mailboxes /\ frame \in Painted /\ InHand = frame.via
    BY <1>2 DEF IInv, Types, InHand
  <1>4. mb.pending # NoFrame /\ ~mb.pending.full => Patches(mb.pending, WorkerTip)
    BY DEF IInv, Chain
  <1>5. mb.pending # NoFrame /\ ~mb.pending.full => DOMAIN mb.pending.pixels = mb.pending.dirty
    BY <1>4 DEF Patches
  <1>6. frame.via = "shm" => ShmStored(mb, frame, mb')
    BY <1>2, <1>3, <1>5, ShmStores
  <1>7. frame.via # "shm" => WholeStored(mb, frame, mb')
    BY <1>2, <1>3, SupersedeStores
  <1>8. /\ Next_of = frame.of /\ Next_dirty = frame.dirty
        /\ Next_of' = page /\ Next_dirty' = damage /\ WorkerTip' = WorkerTip
    BY <1>1, <1>2 DEF Next_of, Next_dirty, WorkerTip
  <1>9. Agree(frame.of, page, damage)
    BY <1>2 DEF IInv, Chain
  <1>10. InHand' = "none" /\ WakeVia' = WakeVia
    BY <1>1, <1>2 DEF InHand, WakeVia
  <1>11. /\ mb' \in Mailboxes /\ mb'.requested = mb.requested /\ mb'.seq = mb.seq
         /\ mb'.acked = mb.acked /\ mb'.shutdown = mb.shutdown
         /\ mb'.pending \in Frames /\ mb'.pending.via = frame.via /\ mb'.pending.of = frame.of
         /\ mb'.pending.full => mb'.pending.pixels = frame.of
         /\ frame.via # "shm" => mb'.pending.full /\ (mb'.shadow = mb.shadow \/ mb'.shadow = Stale)
    <2>1. CASE frame.via = "shm"
      BY <2>1, <1>6 DEF ShmStored
    <2>2. CASE frame.via # "shm"
      BY <2>2, <1>7 DEF WholeStored
    <2> QED
      BY <2>1, <2>2
  <1>12. Types'
    BY <1>1, <1>2, <1>11 DEF IInv, Types, Serving
  <1>13. Request'
    BY <1>1, <1>2, <1>11 DEF IInv, Request, Unasked
  <1>14. Routes'
    <2>1. frame.via = "shm" => ~shared /\ backend # "gpu"
      BY <1>3 DEF IInv, Types, Routes
    <2>2. shared => kind = "shm" /\ mb'.shadow = Stale
      BY <2>1, <1>11, <1>3 DEF IInv, Routes
    <2>3. backend = "gpu" => mb'.shadow = Stale /\ frame.via # "shm"
      BY <2>1, <1>11, <1>3 DEF IInv, Routes
    <2>4. Whole(mb'.pending)
      BY <1>11 DEF Whole
    <2>5. mb'.pending # NoFrame /\ mb'.pending.via # "shm" => mb'.pending.full
      BY <1>11
    <2> QED
      BY <1>1, <1>3, <1>10, <1>11, <2>2, <2>3, <2>4, <2>5 DEF IInv, Routes, Whole
  <1>15. CASE frame.via = "shm"
    <2> DEFINE full == NeedsFullCopy(mb, frame.size)
    <2>1. /\ mb'.shadow = frame.size /\ mb'.pending.size = frame.size
          /\ mb'.pending.full = full
          /\ ~full => /\ mb'.pending.dirty = IF Merges(mb, frame) THEN mb.pending.dirty \cup frame.dirty
                                             ELSE frame.dirty
                      /\ DOMAIN mb'.pending.pixels = mb'.pending.dirty
                      /\ \A r \in mb'.pending.dirty :
                           mb'.pending.pixels[r] = IF r \in frame.dirty THEN frame.of[r]
                                                   ELSE mb.pending.pixels[r]
      BY <1>15, <1>6 DEF ShmStored, full
    <2> HIDE DEF full
    <2>2. ASSUME ~full PROVE Patches(mb'.pending, WorkerTip)
      <3>1. mb.shadow = frame.size /\ mb.shadow # Stale
            /\ ~(mb.pending.via = "shm" /\ mb.pending.full)
        BY <2>2, <1>3, SizesPositive DEF full, NeedsFullCopy, Painted, Stale
      <3>2. CASE mb.pending = NoFrame
        <4>1. ~Merges(mb, frame)
          BY <3>2, FrameKinds DEF Merges
        <4>2. WorkerTip.size = frame.size /\ Agree(WorkerTip.pixels, frame.of, frame.dirty)
          BY <3>1, <3>2, <1>8 DEF IInv, Chain
        <4> QED
          BY <4>1, <4>2, <2>1, <2>2, <1>11 DEF Patches, Agree
      <3>3. CASE mb.pending # NoFrame
        <4>1. /\ mb.pending.via = "shm" /\ mb.pending.size = frame.size
              /\ Agree(mb.pending.of, frame.of, frame.dirty)
          BY <3>1, <3>3, <1>8 DEF IInv, Chain
        <4>2. ~mb.pending.full /\ Merges(mb, frame)
          BY <3>1, <4>1 DEF Merges
        <4>3. Patches(mb.pending, WorkerTip)
          BY <3>3, <4>2, <1>4
        <4>4. mb'.pending.dirty = mb.pending.dirty \cup frame.dirty
          BY <4>2, <2>1, <2>2
        <4>5. ASSUME NEW r \in Regions, r \in mb'.pending.dirty
              PROVE  mb'.pending.pixels[r] = frame.of[r]
          <5>1. CASE r \in frame.dirty
            BY <5>1, <4>5, <2>1, <2>2
          <5>2. CASE r \notin frame.dirty
            BY <5>2, <4>5, <4>4, <4>3, <4>1, <2>1, <2>2 DEF Patches, Agree
          <5> QED
            BY <5>1, <5>2
        <4>6. ASSUME NEW r \in Regions, r \notin mb'.pending.dirty
              PROVE  WorkerTip.pixels[r] = frame.of[r]
          BY <4>6, <4>4, <4>3, <4>1 DEF Patches, Agree
        <4>7. WorkerTip.size = frame.size
          BY <4>3, <4>1 DEF Patches
        <4> QED
          BY <4>5, <4>6, <4>7, <2>1, <2>2, <1>11 DEF Patches
      <3> QED
        BY <3>2, <3>3
    <2>3. mb'.pending # NoFrame
      BY <1>11, FrameKinds
    <2>4. Chain'
      BY <1>1, <1>2, <1>8, <1>9, <1>11, <1>15, <2>1, <2>2, <2>3 DEF IInv, Chain, Patches
    <2> QED
      BY <1>1, <1>12, <1>13, <1>14, <2>4 DEF IInv, PatchesHaveABase
  <1>16. CASE frame.via # "shm"
    <2>1. mb'.shadow = Stale
      <3>1. frame.via \in {"dmabuf", "gpu"}
        BY <1>3, <1>16 DEF Painted, Vias
      <3>2. mb.shadow = Stale
        BY <3>1, <1>3 DEF IInv, Types, Routes
      <3> QED
        BY <3>2, <1>11, <1>16
    <2>2. Chain'
      BY <1>1, <1>2, <1>8, <1>11, <1>16, <2>1 DEF IInv, Chain, Patches
    <2> QED
      BY <1>1, <1>12, <1>13, <1>14, <2>2 DEF IInv, PatchesHaveABase
  <1> QED
    BY <1>15, <1>16

-----------------------------------------------------------------------------
(* The worker.                                                             *)

LEMMA StopKeeps ==
  ASSUME IInv, Take, mb.shutdown
  PROVE  IInv'
  <1>1. /\ worker' = "stopped" /\ held' = NoFrame /\ shadow' = NoPixels
        /\ mb' = [mb EXCEPT !.pending = NoFrame, !.requested = "none", !.dirty = FALSE]
        /\ UNCHANGED <<shared, kind, page, changes, view, extent, ui, visibility, frame, shownByWorker,
                       wake, backend, gpuFailed, damage, cached>>
    BY DEF Take
  <1>2. mb \in Mailboxes /\ mb.pending = NoFrame /\ mb.shadow = Stale /\ mb.requested = "none"
    BY DEF IInv, Types, Request, Unasked
  <1>3. /\ mb' \in Mailboxes /\ mb'.pending = NoFrame /\ mb'.requested = "none" /\ mb'.seq = mb.seq
        /\ mb'.acked = mb.acked /\ mb'.shutdown = mb.shutdown /\ mb'.shadow = Stale
    BY <1>1, <1>2 DEF Mailboxes, MaybeFrames
  <1>4. NoPixels \in [size : Sizes \cup {NoSize}, pixels : Pages]
    BY LayerConstants DEF NoPixels, Pages, Blank, Versions
  <1>5. Types'
    BY <1>1, <1>3, <1>4 DEF IInv, Types, Serving, MaybeFrames
  <1>6. Request'
    BY <1>1, <1>2, <1>3 DEF IInv, Request, Unasked
  <1>7. WakeVia' = "none" /\ InHand' = InHand
    BY <1>1 DEF WakeVia, InHand
  <1>8. Routes'
    BY <1>1, <1>3, <1>7, FrameKinds DEF IInv, Routes, Whole
  <1>9. Chain'
    BY <1>1, <1>3 DEF IInv, Chain, Patches
  <1> QED
    BY <1>1, <1>5, <1>6, <1>8, <1>9 DEF IInv, PatchesHaveABase

(* What is pending moves to the worker's hands, where it counts as done. *)
LEMMA TakeKeeps ==
  ASSUME IInv, Take, ~mb.shutdown
  PROVE  IInv'
  <1> DEFINE f == IF mb.pending # NoFrame THEN mb.pending ELSE held
  <1>1. /\ worker = "idle" /\ worker' = "serve" /\ held' = NoFrame
        /\ mb' = [mb EXCEPT !.pending = NoFrame, !.requested = "none", !.dirty = FALSE]
        /\ shownByWorker' = IF mb.requested = "none" THEN shownByWorker ELSE mb.requested = "Shown"
        /\ wake' = [frame |-> f, viewport |-> mb.viewport, dirty |-> mb.dirty,
                    seq |-> IF mb.requested = "none" THEN NoAck ELSE mb.seq]
        /\ UNCHANGED <<shared, kind, page, changes, view, extent, ui, visibility, frame, shadow,
                       backend, gpuFailed, damage, cached>>
    BY DEF Take
  <1>2. /\ mb \in Mailboxes /\ mb.seq \in Nat /\ mb.viewport \in Sizes /\ mb.dirty \in BOOLEAN
        /\ mb.pending \in MaybeFrames /\ mb.requested \in {"none", "Shown", "Hidden"}
        /\ held \in MaybeFrames
    BY DEF IInv, Types, Mailboxes
  <1>3. /\ mb' \in Mailboxes /\ mb'.pending = NoFrame /\ mb'.requested = "none" /\ mb'.seq = mb.seq
        /\ mb'.acked = mb.acked /\ mb'.shutdown = mb.shutdown /\ mb'.shadow = mb.shadow
    BY <1>1, <1>2 DEF Mailboxes, MaybeFrames
  <1>4. f \in MaybeFrames
    BY <1>2
  <1> HIDE DEF f
  <1> DEFINE seq == IF mb.requested = "none" THEN NoAck ELSE mb.seq
  <1>5. /\ wake' \in Wakes /\ wake'.frame = f
        /\ wake'.seq = IF mb.requested = "none" THEN NoAck ELSE mb.seq
    <2>1. wake' = [frame |-> f, viewport |-> mb.viewport, dirty |-> mb.dirty, seq |-> seq]
      BY <1>1
    <2>2. seq \in Nat
      BY <1>2 DEF NoAck
    <2> HIDE DEF seq
    <2>3. wake' \in Wakes /\ wake'.frame = f /\ wake'.seq = seq
      BY <1>2, <1>4, <2>1, <2>2 DEF Wakes
    <2> QED
      BY <2>3 DEF seq
  <1> HIDE DEF seq
  <1>6. Types'
    <2>1. Types
      BY DEF IInv
    <2>2. /\ worker' = "serve" /\ held' \in MaybeFrames
          /\ mb' \in Mailboxes /\ wake' \in Wakes
      BY <1>1, <1>3, <1>5 DEF MaybeFrames
    <2>3. shownByWorker' \in BOOLEAN
      BY <1>1, <2>1 DEF Types
    <2>4. /\ UNCHANGED <<shared, kind, page, changes, view, extent, ui, visibility, frame, shadow,
                         backend, gpuFailed, damage, cached>>
      BY <1>1
    <2> QED
      BY <2>1, <2>2, <2>3, <2>4 DEF Types
  <1>7. Request'
    <2>1. CASE ui = "await"
      BY <2>1, <1>1, <1>2, <1>3, <1>5 DEF IInv, Types, Request, Awaits, Unasked
    <2>2. CASE ui # "await"
      BY <2>2, <1>1, <1>2, <1>3, <1>5 DEF IInv, Request, Unasked
    <2> QED
      BY <2>1, <2>2
  <1>8. WakeVia' = f.via /\ InHand' = InHand /\ (f = mb.pending \/ f = held)
    BY <1>1, <1>5 DEF WakeVia, InHand, f
  <1>9. Routes'
    <2>1. f.via \in {mb.pending.via, held.via} /\ Whole(f)
          /\ (f # NoFrame /\ f.via # "shm" => f.full)
      BY <1>8, FrameKinds DEF IInv, Routes, Whole, f
    <2> QED
      BY <1>1, <1>3, <1>5, <1>8, <2>1, FrameKinds DEF IInv, Routes, Whole
  <1>10. Chain'
    <2>1. WorkerTip = shadow /\ Next_of' = Next_of /\ Next_dirty' = Next_dirty
      BY <1>1 DEF WorkerTip, Next_of, Next_dirty
    <2>2. WorkerTip' = IF f # NoFrame THEN [size |-> f.size, pixels |-> f.of] ELSE shadow
      BY <1>1, <1>5 DEF WorkerTip
    <2>3. f # NoFrame /\ ~f.full => Patches(f, shadow)
      BY <2>1, <1>8 DEF IInv, Chain, Routes, f
    <2>4. ASSUME mb.shadow # Stale
          PROVE  WorkerTip'.size = mb.shadow /\ Agree(WorkerTip'.pixels, Next_of, Next_dirty)
      <3>1. held = NoFrame
        BY <2>4 DEF IInv, Routes
      <3>2. CASE mb.pending = NoFrame
        BY <3>1, <3>2, <2>1, <2>2, <2>4 DEF IInv, Chain, f
      <3>3. CASE mb.pending # NoFrame
        <4>1. f = mb.pending
          BY <3>3 DEF f
        <4> QED
          BY <3>3, <4>1, <2>2, <2>4 DEF IInv, Chain
      <3> QED
        BY <3>2, <3>3
    <2>5. UNCHANGED <<ui, frame, page, damage, shadow>>
      BY <1>1
    <2> QED
      BY <1>3, <1>5, <2>1, <2>3, <2>4, <2>5 DEF IInv, Chain, Patches
  <1> QED
    BY <1>1, <1>6, <1>7, <1>9, <1>10 DEF IInv, PatchesHaveABase

LEMMA DueKeeps ==
  ASSUME IInv, Due
  PROVE  IInv'
  <1>1. /\ worker = "idle" /\ worker' = "serve" /\ held' = NoFrame /\ held # NoFrame
        /\ wake' = [frame |-> held, viewport |-> mb.viewport, dirty |-> FALSE, seq |-> NoAck]
        /\ UNCHANGED <<mb, shared, kind, page, changes, view, extent, ui, visibility, frame, shadow,
                       shownByWorker, backend, gpuFailed, damage, cached>>
        /\ mb.pending = NoFrame /\ mb.requested = "none"
    BY DEF Due, Ready
  <1>2. mb \in Mailboxes /\ mb.viewport \in Sizes /\ held \in MaybeFrames
    BY DEF IInv, Types, Mailboxes
  <1>3. wake' \in Wakes /\ wake'.frame = held /\ wake'.seq = NoAck
    BY <1>1, <1>2 DEF Wakes, NoAck
  <1>4. Types'
    BY <1>1, <1>3 DEF IInv, Types, Serving, MaybeFrames
  <1>5. Request'
    BY <1>1, <1>3 DEF IInv, Types, Request, Awaits, Unasked
  <1>6. WakeVia' = held.via /\ InHand' = InHand
    BY <1>1, <1>3 DEF WakeVia, InHand
  <1>7. held.via = "gpu" /\ held.full /\ backend = "gpu" /\ mb.shadow = Stale /\ Whole(held)
    BY <1>1 DEF IInv, Routes
  <1>8. Routes'
    BY <1>1, <1>3, <1>6, <1>7, FrameKinds DEF IInv, Routes, Whole
  <1>9. Chain'
    BY <1>1, <1>3, <1>7 DEF IInv, Chain, Patches
  <1> QED
    BY <1>1, <1>4, <1>5, <1>8, <1>9 DEF IInv, PatchesHaveABase

(* Serving ends; what was to be done to the shadow has been. *)
Served(committed) ==
  /\ worker = "serve"
  /\ UNCHANGED <<mb, shared, kind, page, changes, view, extent, ui, visibility, frame, shownByWorker>>
  /\ Afterwards(committed)

LEMMA ServedTypes ==
  ASSUME IInv, NEW c, Served(c), damage' \subseteq Regions,
         backend' \in {"gpu", "shm"}, gpuFailed' \in BOOLEAN, held' \in MaybeFrames,
         shadow' \in [size : Sizes \cup {NoSize}, pixels : Pages],
         cached' = [buffer |-> cached'.buffer, destination |-> cached'.destination]
  PROVE  Types'
  <1>1. /\ worker' \in {"idle", "callback"} /\ (worker' = "callback" => wake' = wake)
        /\ wake \in Wakes
    BY DEF Served, Afterwards, IInv, Types, Serving
  <1> QED
    BY <1>1 DEF Served, IInv, Types, Serving

LEMMA ServedRequest ==
  ASSUME IInv, NEW c, Served(c), ~shownByWorker => cached'.buffer = Nothing
  PROVE  Request'
  <1>1. \/ wake.seq # NoAck /\ worker' = "callback" /\ wake' = wake
        \/ wake.seq = NoAck /\ worker' = "idle"
    BY DEF Served, Afterwards
  <1>2. CASE ui = "await"
    BY <1>1, <1>2 DEF Served, IInv, Types, Request, Awaits, Unasked
  <1>3. CASE ui # "await"
    BY <1>1, <1>3 DEF Served, IInv, Types, Request, Unasked
  <1> QED
    BY <1>2, <1>3

LEMMA ServedChain ==
  ASSUME IInv, NEW c, Served(c), damage \subseteq damage',
         mb.shadow # Stale \/ (mb.pending # NoFrame /\ ~mb.pending.full) => shadow' = WorkerTip
  PROVE  Chain'
  <1>1. worker' \in {"idle", "callback"}
    BY DEF Served, Afterwards
  <1>2. WorkerTip' = shadow' /\ Next_of' = Next_of /\ Next_dirty \subseteq Next_dirty'
    BY <1>1 DEF WorkerTip, Next_of, Next_dirty, Served
  <1> QED
    BY <1>1, <1>2 DEF Served, IInv, Chain, Patches, Agree

LEMMA ServedRoutes ==
  ASSUME IInv, NEW c, Served(c),
         \/ backend' = backend /\ gpuFailed' = gpuFailed
         \/ backend' = "shm" /\ gpuFailed' = TRUE /\ held' = NoFrame,
         \/ held' = NoFrame
         \/ held' = wake.frame /\ wake.frame.via = "gpu" /\ backend = "gpu" /\ backend' = "gpu"
  PROVE  Routes'
  <1>1. worker' \in {"idle", "callback"}
    BY DEF Served, Afterwards
  <1>2. WakeVia' = "none" /\ InHand' = InHand /\ WakeVia = wake.frame.via
    BY <1>1 DEF WakeVia, InHand, Served
  <1>3. held' # NoFrame => /\ held' = wake.frame /\ held'.via = "gpu" /\ backend' = "gpu"
                           /\ held'.full /\ Whole(held')
    BY DEF IInv, Routes, Served
  <1>4. held'.via \in {"none", wake.frame.via}
    BY <1>3, FrameKinds
  <1> QED
    BY <1>1, <1>2, <1>3, <1>4, FrameKinds DEF Served, IInv, Types, Routes, Whole

(* Composing the frame in hand makes the shadow what was painted. *)
LEMMA ComposedIsPainted ==
  ASSUME IInv, worker = "serve", wake.frame # NoFrame
  PROVE  /\ Composed = [size |-> wake.frame.size, pixels |-> wake.frame.of]
         /\ Composed = WorkerTip
         /\ Composed \in [size : Sizes \cup {NoSize}, pixels : Pages]
  <1> DEFINE f    == wake.frame
             base == IF shadow.size = f.size THEN shadow.pixels ELSE Blank
             all  == [r \in Regions |-> IF r \in DOMAIN f.pixels THEN f.pixels[r] ELSE base[r]]
  <1>1. f \in Frames /\ f.of \in Pages /\ f.size \in Sizes /\ f.dirty \subseteq Regions /\ f.full \in BOOLEAN
    BY DEF IInv, Types, Serving, Wakes, MaybeFrames, Frames
  <1>2. ASSUME NEW r \in Regions PROVE all[r] = f.of[r]
    <2>1. CASE f.full
      <3>1. f.pixels = f.of
        BY <2>1 DEF IInv, Routes, Whole
      <3> QED
        BY <3>1, <1>1 DEF Pages
    <2>2. CASE ~f.full
      <3>1. Patches(f, shadow)
        BY <2>2 DEF IInv, Chain
      <3> QED
        BY <3>1, <1>1 DEF Patches
    <2> QED
      BY <1>1, <2>1, <2>2
  <1>3. all = f.of
    BY <1>1, <1>2 DEF Pages
  <1>4. Composed = [size |-> f.size, pixels |-> all]
    BY DEF Composed
  <1>5. WorkerTip = [size |-> f.size, pixels |-> f.of]
    BY DEF WorkerTip
  <1> QED
    BY <1>1, <1>3, <1>4, <1>5

(* A layer with a GPU backend, or of shared textures, has no patches. *)
LEMMA NothingPatched ==
  ASSUME IInv, backend = "gpu" \/ shared \/ ~shownByWorker, worker = "serve"
  PROVE  mb.shadow = Stale /\ (mb.pending = NoFrame \/ mb.pending.full)
  <1>1. CASE backend = "gpu" \/ shared
    BY <1>1 DEF IInv, Types, Routes
  <1>2. CASE ~shownByWorker
    BY <1>2 DEF IInv, Types, Request
  <1> QED
    BY <1>1, <1>2

LEMMA HideKeeps ==
  ASSUME IInv, ServeHide
  PROVE  IInv'
  <1>1. /\ Served(TRUE) /\ ~shownByWorker /\ cached'.buffer = Nothing
        /\ cached' = [buffer |-> cached'.buffer, destination |-> cached'.destination]
        /\ UNCHANGED <<held, backend, gpuFailed, shadow, damage>> /\ worker = "serve"
    BY DEF ServeHide, Served
  <1>2. Types' /\ Request'
    BY <1>1, ServedTypes, ServedRequest DEF IInv, Types
  <1>3. Routes'
    BY <1>1, ServedRoutes DEF IInv, Routes
  <1>4. Chain'
    BY <1>1, NothingPatched, ServedChain
  <1> QED
    BY <1>1, <1>2, <1>3, <1>4 DEF IInv, PatchesHaveABase, Nothing

(* Rescaling keeps the buffer. *)
LEMMA ReapplyKeepsBuffer ==
  ASSUME IInv, Serve, Reapply
  PROVE  /\ Served(TRUE) \/ Served(FALSE)
         /\ cached'.buffer = cached.buffer
         /\ cached' = [buffer |-> cached'.buffer, destination |-> cached'.destination]
  <1>1. Served(TRUE) \/ Served(FALSE)
    BY DEF Reapply, Served
  <1>2. cached = [buffer |-> cached.buffer, destination |-> cached.destination]
    BY DEF IInv, Types
  <1>3. cached' = cached \/ cached' = [cached EXCEPT !.destination = wake.viewport]
    BY DEF Reapply
  <1> QED
    BY <1>1, <1>2, <1>3

LEMMA ViewportKeeps ==
  ASSUME IInv, ServeViewport
  PROVE  IInv'
  <1>1. /\ shownByWorker /\ wake.frame = NoFrame /\ cached'.buffer = cached.buffer
        /\ cached' = [buffer |-> cached'.buffer, destination |-> cached'.destination]
        /\ UNCHANGED <<held, backend, gpuFailed, shadow, damage>> /\ worker = "serve"
        /\ Served(TRUE) \/ Served(FALSE)
    BY ReapplyKeepsBuffer DEF ServeViewport
  <1>2. Types' /\ Request'
    BY <1>1, ServedTypes, ServedRequest DEF IInv, Types
  <1>3. Routes'
    BY <1>1, ServedRoutes DEF IInv, Routes
  <1>4. WorkerTip = shadow'
    BY <1>1 DEF WorkerTip
  <1>5. Chain'
    BY <1>1, <1>4, ServedChain
  <1> QED
    BY <1>1, <1>2, <1>3, <1>5 DEF IInv, PatchesHaveABase

(* A frame that goes the software way has no GPU backend to go to. *)
LEMMA SoftwareOnly ==
  ASSUME IInv, worker = "serve", wake.frame # NoFrame, OnShm
  PROVE  backend # "gpu"
  <1>1. wake.frame \in Frames
    BY DEF IInv, Types, Serving, Wakes, MaybeFrames
  <1>2. wake.frame.via \in {"gpu", "shm"}
    BY <1>1, FrameKinds DEF OnShm, Vias
  <1>3. wake.frame.via = "shm" => backend # "gpu"
    BY DEF IInv, Routes, WakeVia
  <1> QED
    BY <1>2, <1>3 DEF OnShm, OnGpu

LEMMA Committed ==
  ASSUME NEW via, NEW size, NEW pixels, Commit(via, size, pixels)
  PROVE  /\ Afterwards(TRUE)
         /\ cached' = [buffer |-> cached'.buffer, destination |-> cached'.destination]
         /\ cached'.buffer.of = wake.frame.of
         /\ cached'.buffer.via = via /\ cached'.buffer.pixels = pixels
  BY DEF Commit

LEMMA PresentedKeeps ==
  ASSUME IInv, PresentGpu \/ PresentShm \/ PresentDmabuf
  PROVE  IInv'
  <1>1. /\ Served(TRUE) /\ worker = "serve" /\ shownByWorker /\ UNCHANGED <<held, damage>>
        /\ cached' = [buffer |-> cached'.buffer, destination |-> cached'.destination]
        /\ cached'.buffer.of = wake.frame.of
    <2>1. Afterwards(TRUE) /\ cached'.buffer.of = wake.frame.of
          /\ cached' = [buffer |-> cached'.buffer, destination |-> cached'.destination]
      BY Committed DEF PresentGpu, PresentShm, PresentDmabuf
    <2> QED
      BY <2>1 DEF PresentGpu, PresentShm, PresentDmabuf, Presents, Served
  <1>2. wake.frame # NoFrame /\ held = NoFrame /\ Whole(wake.frame)
    BY <1>1 DEF PresentGpu, PresentShm, PresentDmabuf, Presents, IInv, Routes
  <1>3. CASE PresentGpu
    <2>1. UNCHANGED <<backend, gpuFailed, shadow>> /\ cached'.buffer.via = "gpu" /\ backend = "gpu"
      BY <1>3, Committed DEF PresentGpu, OnGpu
    <2>2. Types' /\ Request'
      BY <1>1, <2>1, ServedTypes, ServedRequest DEF IInv, Types
    <2>3. Routes'
      BY <1>1, <1>2, <2>1, ServedRoutes
    <2>4. Chain'
      BY <1>1, <2>1, NothingPatched, ServedChain
    <2> QED
      BY <2>1, <2>2, <2>3, <2>4 DEF IInv, PatchesHaveABase
  <1>4. CASE PresentShm
    <2>1. /\ backend' = "shm" /\ gpuFailed' = (gpuFailed \/ backend = "gpu") /\ shadow' = Composed
          /\ cached'.buffer.pixels = Composed.pixels /\ OnShm
      BY <1>4, Committed DEF PresentShm
    <2>2. backend # "gpu"
      BY <1>1, <1>2, <2>1, SoftwareOnly
    <2>3. backend' = backend /\ gpuFailed' = gpuFailed
      BY <2>1, <2>2 DEF IInv, Types
    <2>4. Types' /\ Request'
      BY <1>1, <1>2, <2>1, <2>3, ComposedIsPainted, ServedTypes, ServedRequest DEF IInv, Types
    <2>5. Routes'
      BY <1>1, <1>2, <2>3, ServedRoutes
    <2>6. Chain'
      BY <1>1, <1>2, <2>1, ComposedIsPainted, ServedChain
    <2>7. PatchesHaveABase'
      BY <1>1, <1>2, <2>1, ComposedIsPainted DEF PatchesHaveABase
    <2> QED
      BY <2>4, <2>5, <2>6, <2>7 DEF IInv
  <1>5. CASE PresentDmabuf
    <2>1. /\ UNCHANGED <<backend, gpuFailed, shadow>> /\ wake.frame.via = "dmabuf"
          /\ cached'.buffer.pixels = wake.frame.pixels
      BY <1>5, Committed DEF PresentDmabuf
    <2>2. shared /\ wake.frame.full
      BY <1>1, <1>2, <2>1 DEF IInv, Types, Routes, WakeVia
    <2>3. Types' /\ Request'
      BY <1>1, <2>1, ServedTypes, ServedRequest DEF IInv, Types
    <2>4. Routes'
      BY <1>1, <1>2, <2>1, ServedRoutes
    <2>5. Chain'
      BY <1>1, <2>1, <2>2, NothingPatched, ServedChain
    <2>6. PatchesHaveABase'
      BY <1>1, <1>2, <2>1, <2>2 DEF PatchesHaveABase, Whole
    <2> QED
      BY <2>3, <2>4, <2>5, <2>6 DEF IInv
  <1> QED
    BY <1>3, <1>4, <1>5

LEMMA NotPresentedKeeps ==
  ASSUME IInv, Defer \/ Degrade \/ NoBuffer
  PROVE  IInv'
  <1>1. /\ shownByWorker /\ wake.frame # NoFrame /\ worker = "serve" /\ Serve /\ Reapply
    BY DEF Defer, Degrade, NoBuffer, Presents
  <1>2. PICK c \in BOOLEAN : Served(c)
    BY <1>1, ReapplyKeepsBuffer
  <1>3. /\ cached'.buffer = cached.buffer
        /\ cached' = [buffer |-> cached'.buffer, destination |-> cached'.destination]
    BY <1>1, ReapplyKeepsBuffer
  <1>4. held = NoFrame /\ Whole(wake.frame) /\ wake.frame \in MaybeFrames
    BY <1>1 DEF IInv, Types, Serving, Wakes, Routes
  <1>5. PatchesHaveABase'
    BY <1>3 DEF IInv, PatchesHaveABase
  <1>6. Request'
    BY <1>1, <1>2, ServedRequest
  <1>7. CASE Defer
    <2>1. /\ backend = "gpu" /\ wake.frame.via = "gpu" /\ UNCHANGED <<backend, gpuFailed, shadow>>
          /\ held' = wake.frame \/ held' = NoFrame
          /\ damage' = damage \/ damage' = Regions
      BY <1>7 DEF Defer, OnGpu
    <2>2. Types'
      BY <1>2, <1>3, <1>4, <2>1, ServedTypes DEF IInv, Types, MaybeFrames
    <2>3. Routes'
      BY <1>2, <2>1, ServedRoutes
    <2>4. damage \subseteq damage'
      BY <2>1 DEF IInv, Types
    <2>5. Chain'
      BY <1>1, <1>2, <2>1, <2>4, NothingPatched, ServedChain
    <2> QED
      BY <1>5, <1>6, <2>2, <2>3, <2>5 DEF IInv
  <1>8. CASE Degrade
    <2>1. /\ backend = "gpu" /\ backend' = "shm" /\ gpuFailed' = TRUE /\ shadow' = NoPixels
          /\ UNCHANGED <<held, damage>>
      BY <1>8 DEF Degrade, OnGpu
    <2>2. NoPixels \in [size : Sizes \cup {NoSize}, pixels : Pages]
      BY LayerConstants DEF NoPixels, Pages, Blank, Versions
    <2>3. Types'
      BY <1>2, <1>3, <2>1, <2>2, ServedTypes DEF IInv, Types
    <2>4. Routes'
      BY <1>2, <1>4, <2>1, ServedRoutes
    <2>5. Chain'
      BY <1>1, <1>2, <2>1, NothingPatched, ServedChain
    <2> QED
      BY <1>5, <1>6, <2>3, <2>4, <2>5 DEF IInv
  <1>9. CASE NoBuffer
    <2>1. /\ UNCHANGED <<held, damage>> /\ ~OnGpu
          /\ \/ /\ OnShm /\ shadow' = Composed /\ backend' = "shm"
                /\ gpuFailed' = (gpuFailed \/ backend = "gpu")
             \/ /\ wake.frame.via = "dmabuf" /\ UNCHANGED <<shadow, backend, gpuFailed>>
      BY <1>9 DEF NoBuffer, OnShm
    <2>2. CASE OnShm /\ shadow' = Composed /\ backend' = "shm"
               /\ gpuFailed' = (gpuFailed \/ backend = "gpu")
      <3>1. backend # "gpu"
        BY <1>1, <2>2, SoftwareOnly
      <3>2. backend' = backend /\ gpuFailed' = gpuFailed
        BY <2>2, <3>1 DEF IInv, Types
      <3>3. Types'
        BY <1>1, <1>2, <1>3, <2>1, <2>2, <3>2, ComposedIsPainted, ServedTypes DEF IInv, Types
      <3>4. Routes'
        BY <1>2, <1>4, <2>1, <3>2, ServedRoutes
      <3>5. Chain'
        BY <1>1, <1>2, <2>1, <2>2, ComposedIsPainted, ServedChain
      <3> QED
        BY <1>5, <1>6, <3>3, <3>4, <3>5 DEF IInv
    <2>3. CASE wake.frame.via = "dmabuf" /\ UNCHANGED <<shadow, backend, gpuFailed>>
      <3>1. shared
        BY <1>1, <2>3 DEF IInv, Types, Routes, WakeVia
      <3>2. Types'
        BY <1>2, <1>3, <2>1, <2>3, ServedTypes DEF IInv, Types
      <3>3. Routes'
        BY <1>2, <1>4, <2>1, <2>3, ServedRoutes
      <3>4. Chain'
        BY <1>1, <1>2, <2>1, <3>1, NothingPatched, ServedChain
      <3> QED
        BY <1>5, <1>6, <3>2, <3>3, <3>4 DEF IInv
    <2> QED
      BY <2>1, <2>2, <2>3
  <1> QED
    BY <1>7, <1>8, <1>9

(* The commit that acknowledges a request attaches nothing. *)
LEMMA AckKeeps ==
  ASSUME IInv, CommitAcked \/ ArmChecksClosed \/ Arm \/ PublishAck
  PROVE  IInv'
  <1>1. /\ UNCHANGED <<shared, kind, page, changes, view, extent, ui, visibility, frame, shownByWorker,
                       held, backend, gpuFailed, shadow, damage, cached>>
        /\ worker \in {"callback", "arm", "push", "publish"}
    BY DEF CommitAcked, ArmChecksClosed, Arm, PublishAck
  <1>2. \/ worker' \in {"arm", "push", "publish"} /\ UNCHANGED <<mb, wake>>
        \/ worker' = "idle" /\ mb' = [mb EXCEPT !.acked = wake.seq]
    BY DEF CommitAcked, ArmChecksClosed, Arm, PublishAck
  <1>3. mb \in Mailboxes /\ wake.seq \in Nat
    BY <1>1 DEF IInv, Types, Serving, Wakes
  <1>4. /\ mb' \in Mailboxes /\ mb'.pending = mb.pending /\ mb'.requested = mb.requested
        /\ mb'.seq = mb.seq /\ mb'.shutdown = mb.shutdown /\ mb'.shadow = mb.shadow
        /\ mb'.acked = IF worker' = "idle" THEN wake.seq ELSE mb.acked
    BY <1>2, <1>3 DEF Mailboxes
  <1>5. Types'
    BY <1>1, <1>2, <1>4 DEF IInv, Types, Serving
  <1>6. ui = "await" /\ Awaits /\ ~Unasked /\ mb.requested = "none" /\ worker # "idle"
    BY <1>1 DEF IInv, Types, Request, Awaits, Unasked
  <1>7. Request'
    <2>1. /\ wake.seq = mb.seq /\ mb.acked = NoAck /\ shownByWorker = (visibility = "Shown")
          /\ visibility = "Hidden" => cached.buffer = Nothing
      BY <1>1, <1>6 DEF Awaits
    <2> QED
      BY <1>1, <1>2, <1>4, <1>6, <2>1 DEF IInv, Types, Request, Awaits, Unasked
  <1>8. WakeVia' = WakeVia /\ InHand' = InHand /\ worker # "serve" /\ worker' # "serve"
    BY <1>1, <1>2 DEF WakeVia, InHand
  <1>9. Routes'
    BY <1>1, <1>4, <1>8 DEF IInv, Routes, Whole
  <1>10. Next_of' = Next_of /\ Next_dirty' = Next_dirty /\ WorkerTip' = WorkerTip
    BY <1>1, <1>8 DEF Next_of, Next_dirty, WorkerTip
  <1>11. Chain'
    BY <1>1, <1>4, <1>8, <1>10 DEF IInv, Chain, Agree, Patches
  <1> QED
    BY <1>1, <1>5, <1>7, <1>9, <1>11 DEF IInv, PatchesHaveABase

-----------------------------------------------------------------------------
LEMMA NextInv == IInv /\ [Next]_vars => IInv'
  <1> SUFFICES ASSUME IInv, [Next]_vars PROVE IInv'
    OBVIOUS
  <1>1. CASE Show \/ Hide \/ Free \/ Ui
    BY <1>1, RequestKeeps, FreeKeeps, AcknowledgementKeeps, AskingKeeps, PaintKeeps, EnqueueKeeps DEF Ui
  <1>2. CASE Worker
    <2>1. CASE Take
      BY <2>1, StopKeeps, TakeKeeps
    <2>2. CASE Due \/ ServeHide \/ ServeViewport
      BY <2>2, DueKeeps, HideKeeps, ViewportKeeps
    <2>3. CASE PresentGpu \/ PresentShm \/ PresentDmabuf \/ Defer \/ Degrade \/ NoBuffer
      BY <2>3, PresentedKeeps, NotPresentedKeeps
    <2>4. CASE CommitAcked \/ ArmChecksClosed \/ Arm \/ PublishAck
      BY <2>4, AckKeeps
    <2> QED
      BY <1>2, <2>1, <2>2, <2>3, <2>4 DEF Worker
  <1>3. CASE Root \/ Disconnect \/ \E size \in Sizes : Publish(size)
    BY <1>3, RootKeeps
  <1>4. CASE \E region \in Regions : Change(region)
    BY <1>4, ChangeKeeps
  <1>5. CASE Freed \/ UNCHANGED vars
    BY <1>5, AskingKeeps DEF Freed
  <1> QED
    BY <1>1, <1>2, <1>3, <1>4, <1>5 DEF Next

(* The strengthening of the theorems below, for any page, sizes and bounds *)
(* and whatever the display does. *)
THEOREM Inductive == Spec => []IInv
  BY InitInv, NextInv, PTL DEF Spec

(* store_shm and compose_shm_shadow: no merge, resize, hide, degrade or    *)
(* lost buffer leaves a patch without the base it was cut from, so a       *)
(* software or shared frame shows the page its producer painted.           *)
THEOREM PatchesAreWhole == Spec => []PatchesHaveABase
  BY Inductive, PTL DEF IInv

(* request_visibility and run: once the hide is acknowledged nothing that  *)
(* was pending, in the worker's hands or held for a retry is attached.     *)
THEOREM HiddenIsEmpty == Spec => []HiddenStaysEmpty
  <1>1. IInv => HiddenStaysEmpty
    BY DEF IInv, Request, HiddenStaysEmpty
  <1> QED
    BY <1>1, Inductive, PTL
=============================================================================
