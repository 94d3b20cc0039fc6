------------------------ MODULE PlaybackSinks_proofs ------------------------
(***************************************************************************)
(* Proofs about PlaybackSinks for every batch size, every capacity of the  *)
(* queues and every set of inputs: whatever the batches, each sink ends up *)
(* showing the player.                                                     *)
(*                                                                         *)
(* A handler reports what it changes (Report).  What counts for a sink is  *)
(* the last of the events on their way to it that it reacts to; the        *)
(* inductive invariant says of that one, or when there is none of the sink *)
(* itself, that it shows the player.                                       *)
(***************************************************************************)
EXTENDS PlaybackSinks, WellFoundedInduction, TLAPS

-----------------------------------------------------------------------------
(* Sequences on their way to a sink.                                       *)

(* Of the elements of s in K the last is in R ... *)
LastIn(s, R, K) ==
  \E i \in 1 .. Len(s) : s[i] \in R /\ \A j \in 1 .. Len(s) : j > i => s[j] \notin K

(* ... or there is none. *)
NoneIn(s, K) == \A i \in 1 .. Len(s) : s[i] \notin K

(* What R brings about holds once s, of which K is heard, has arrived, if b *)
(* says that it holds now.                                                  *)
WillBe(s, R, K, b) == LastIn(s, R, K) \/ (NoneIn(s, K) /\ b)

LEMMA EmptyWillBe ==
  ASSUME NEW R, NEW K, NEW b \in BOOLEAN
  PROVE  NoneIn(<<>>, K) /\ (WillBe(<<>>, R, K, b) <=> b)
  BY DEF WillBe, LastIn, NoneIn

(* Every nonempty set of numbers up to n has a largest one. *)
LEMMA NatMin ==
  ASSUME NEW T \in SUBSET Nat, T # {}
  PROVE  \E x \in T : \A y \in T : x <= y
  <1> DEFINE R == OpToRel(<, Nat)
  <1>1. IsWellFoundedOn(R, Nat)
    BY NatLessThanWellFounded
  <1>2. \A x, y \in Nat : y < x => <<y, x>> \in R
    BY DEF OpToRel
  <1> HIDE DEF R
  <1>3. PICK x \in T : \A y \in T : ~(<<y, x>> \in R)
    BY <1>1, WFMin
  <1>4. ASSUME NEW y \in T PROVE x <= y
    <2>1. x \in Nat /\ y \in Nat
      OBVIOUS
    <2>2. ~(y < x)
      BY <1>2, <1>3, <2>1, Zenon
    <2> QED BY <2>1, <2>2
  <1> QED BY <1>4

LEMMA NatMax ==
  ASSUME NEW n \in Nat, NEW T \in SUBSET (1 .. n), T # {}
  PROVE  \E x \in T : \A y \in T : y <= x
  <1> DEFINE U == {n - x : x \in T}
  <1>1. U \in SUBSET Nat
    <2>1. \A x \in T : n - x \in Nat
      OBVIOUS
    <2> QED BY <2>1
  <1>2. U # {}
    OBVIOUS
  <1>3. PICK u \in U : \A v \in U : u <= v
    BY <1>1, <1>2, NatMin
  <1>4. PICK x \in T : u = n - x
    BY <1>3
  <1>5. ASSUME NEW y \in T PROVE y <= x
    <2>1. n - y \in U
      OBVIOUS
    <2>2. n - x <= n - y
      BY <1>3, <1>4, <2>1
    <2>3. x \in 1 .. n /\ y \in 1 .. n
      OBVIOUS
    <2> HIDE DEF U
    <2> QED BY <2>2, <2>3
  <1> QED BY <1>5

LEMMA LastExists ==
  ASSUME NEW S, NEW s \in Seq(S), NEW K
  PROVE  LastIn(s, K, K) <=> ~NoneIn(s, K)
  <1>1. LastIn(s, K, K) => ~NoneIn(s, K)
    BY DEF LastIn, NoneIn
  <1>2. ASSUME ~NoneIn(s, K) PROVE LastIn(s, K, K)
    <2> DEFINE T == {i \in 1 .. Len(s) : s[i] \in K}
    <2>1. T # {} /\ T \in SUBSET (1 .. Len(s)) /\ Len(s) \in Nat
      BY <1>2 DEF NoneIn
    <2>2. PICK x \in T : \A y \in T : y <= x
      BY <2>1, NatMax
    <2>3. ASSUME NEW j \in 1 .. Len(s), j > x PROVE s[j] \notin K
      BY <2>2, <2>3
    <2> QED BY <2>2, <2>3 DEF LastIn
  <1> QED BY <1>1, <1>2

LEMMA AppendWillBe ==
  ASSUME NEW S, NEW s \in Seq(S), NEW x \in S, NEW R, NEW K, NEW b \in BOOLEAN,
         x \in R \/ (x \notin K /\ WillBe(s, R, K, b))
  PROVE  WillBe(Append(s, x), R, K, b)
  <1> DEFINE t == Append(s, x)
  <1>1. /\ Len(s) \in Nat /\ Len(t) = Len(s) + 1 /\ t[Len(s) + 1] = x
        /\ \A i \in 1 .. Len(s) : t[i] = s[i]
    OBVIOUS
  <1> HIDE DEF t
  <1>2. CASE x \in R
    <2>1. Len(s) + 1 \in 1 .. Len(t) /\ \A j \in 1 .. Len(t) : ~(j > Len(s) + 1)
      BY <1>1
    <2> QED BY <1>1, <1>2, <2>1 DEF WillBe, LastIn, t
  <1>3. CASE x \notin K /\ LastIn(s, R, K)
    <2>1. PICK i \in 1 .. Len(s) :
            s[i] \in R /\ \A j \in 1 .. Len(s) : j > i => s[j] \notin K
      BY <1>3 DEF LastIn
    <2>2. i \in 1 .. Len(t) /\ t[i] \in R
      BY <1>1, <2>1
    <2>3. ASSUME NEW j \in 1 .. Len(t), j > i PROVE t[j] \notin K
      <3>1. j = Len(s) + 1 \/ j \in 1 .. Len(s)
        BY <1>1
      <3> QED BY <1>1, <1>3, <2>1, <2>3, <3>1
    <2> QED BY <2>2, <2>3 DEF WillBe, LastIn, t
  <1>4. CASE x \notin K /\ NoneIn(s, K) /\ b
    <2>1. ASSUME NEW j \in 1 .. Len(t) PROVE t[j] \notin K
      <3>1. j = Len(s) + 1 \/ j \in 1 .. Len(s)
        BY <1>1
      <3> QED BY <1>1, <1>4, <3>1 DEF NoneIn
    <2> QED BY <1>4, <2>1 DEF WillBe, NoneIn, t
  <1> QED BY <1>2, <1>3, <1>4 DEF WillBe

LEMMA ConcatWillBe ==
  ASSUME NEW S, NEW s \in Seq(S), NEW u \in Seq(S), NEW R, NEW K, NEW b \in BOOLEAN,
         LastIn(u, R, K) \/ (NoneIn(u, K) /\ WillBe(s, R, K, b))
  PROVE  WillBe(s \o u, R, K, b)
  <1> DEFINE t == s \o u
  <1>1. /\ Len(s) \in Nat /\ Len(u) \in Nat /\ Len(t) = Len(s) + Len(u)
        /\ \A i \in 1 .. Len(s) : t[i] = s[i]
        /\ \A i \in 1 .. Len(u) : t[Len(s) + i] = u[i]
    OBVIOUS
  <1> HIDE DEF t
  <1>2. \A j \in 1 .. Len(t) :
          j \in 1 .. Len(s) \/ (j - Len(s) \in 1 .. Len(u) /\ j = Len(s) + (j - Len(s)))
    BY <1>1
  <1>3. CASE LastIn(u, R, K)
    <2>1. PICK i \in 1 .. Len(u) :
            u[i] \in R /\ \A j \in 1 .. Len(u) : j > i => u[j] \notin K
      BY <1>3 DEF LastIn
    <2>2. Len(s) + i \in 1 .. Len(t) /\ t[Len(s) + i] \in R
      BY <1>1, <2>1
    <2>3. ASSUME NEW j \in 1 .. Len(t), j > Len(s) + i PROVE t[j] \notin K
      <3>1. j - Len(s) \in 1 .. Len(u) /\ j = Len(s) + (j - Len(s)) /\ j - Len(s) > i
        BY <1>1, <2>3
      <3>2. t[j] = u[j - Len(s)]
        BY <1>1, <3>1
      <3> QED BY <2>1, <3>1, <3>2
    <2> QED BY <2>2, <2>3 DEF WillBe, LastIn, t
  <1>4. CASE NoneIn(u, K) /\ LastIn(s, R, K)
    <2>1. PICK i \in 1 .. Len(s) :
            s[i] \in R /\ \A j \in 1 .. Len(s) : j > i => s[j] \notin K
      BY <1>4 DEF LastIn
    <2>2. i \in 1 .. Len(t) /\ t[i] \in R
      BY <1>1, <2>1
    <2>3. ASSUME NEW j \in 1 .. Len(t), j > i PROVE t[j] \notin K
      <3>1. CASE j \in 1 .. Len(s)
        BY <1>1, <2>1, <2>3, <3>1
      <3>2. CASE j - Len(s) \in 1 .. Len(u) /\ j = Len(s) + (j - Len(s))
        <4>1. t[j] = u[j - Len(s)]
          BY <1>1, <3>2
        <4> QED BY <1>4, <3>2, <4>1 DEF NoneIn
      <3> QED BY <1>2, <3>1, <3>2
    <2> QED BY <2>2, <2>3 DEF WillBe, LastIn, t
  <1>5. CASE NoneIn(u, K) /\ NoneIn(s, K) /\ b
    <2>1. ASSUME NEW j \in 1 .. Len(t) PROVE t[j] \notin K
      <3>1. CASE j \in 1 .. Len(s)
        BY <1>1, <1>5, <3>1 DEF NoneIn
      <3>2. CASE j - Len(s) \in 1 .. Len(u) /\ j = Len(s) + (j - Len(s))
        <4>1. t[j] = u[j - Len(s)]
          BY <1>1, <3>2
        <4> QED BY <1>5, <3>2, <4>1 DEF NoneIn
      <3> QED BY <1>2, <3>1, <3>2
    <2> QED BY <1>5, <2>1 DEF WillBe, NoneIn, t
  <1> QED BY <1>3, <1>4, <1>5 DEF WillBe

(* The first element arrives: if it is in R it brings the thing about, and *)
(* if it is not in K it leaves it as it is.                                *)
LEMMA TailWillBe ==
  ASSUME NEW S, NEW s \in Seq(S), s # <<>>, NEW R, NEW K,
         NEW b \in BOOLEAN, NEW c \in BOOLEAN, WillBe(s, R, K, b),
         Head(s) \in R => c, Head(s) \notin K /\ b => c
  PROVE  WillBe(Tail(s), R, K, c)
  <1> DEFINE t == Tail(s)
             h == Head(s)
  <1>1. /\ Len(s) \in Nat /\ Len(s) > 0 /\ Len(t) = Len(s) - 1 /\ h = s[1]
        /\ \A i \in 1 .. Len(t) : t[i] = s[i + 1]
    OBVIOUS
  <1> HIDE DEF t, h
  <1>2. CASE LastIn(s, R, K)
    <2>1. PICK i \in 1 .. Len(s) :
            s[i] \in R /\ \A j \in 1 .. Len(s) : j > i => s[j] \notin K
      BY <1>2 DEF LastIn
    <2>2. CASE i = 1
      <3>1. \A j \in 1 .. Len(t) : j + 1 \in 1 .. Len(s) /\ j + 1 > i
        BY <1>1, <2>2
      <3>2. NoneIn(t, K)
        BY <1>1, <2>1, <3>1 DEF NoneIn
      <3> QED BY <1>1, <2>1, <2>2, <3>2 DEF WillBe, t, h
    <2>3. CASE i # 1
      <3>1. i - 1 \in 1 .. Len(t) /\ t[i - 1] \in R
        BY <1>1, <2>1, <2>3
      <3>2. ASSUME NEW j \in 1 .. Len(t), j > i - 1 PROVE t[j] \notin K
        <4>1. j + 1 \in 1 .. Len(s) /\ j + 1 > i
          BY <1>1, <3>2
        <4> QED BY <1>1, <2>1, <4>1
      <3> QED BY <3>1, <3>2 DEF WillBe, LastIn, t
    <2> QED BY <2>2, <2>3
  <1>3. CASE NoneIn(s, K) /\ b
    <2>1. \A j \in 1 .. Len(t) : j + 1 \in 1 .. Len(s)
      BY <1>1
    <2>2. 1 \in 1 .. Len(s)
      BY <1>1
    <2>3. NoneIn(t, K) /\ h \notin K
      BY <1>1, <1>3, <2>1, <2>2 DEF NoneIn
    <2> QED BY <1>3, <2>3 DEF WillBe, t, h
  <1> QED BY <1>2, <1>3 DEF WillBe

-----------------------------------------------------------------------------
(* What a handler reports.                                                 *)

Has(es, K) == \E i \in 1 .. Len(es) : es[i].kind \in K

(* A phase event names the phase and, but for a pause, whether a variant    *)
(* switch is over.                                                          *)
Names(kind, now) ==
  CASE kind = "TrackLoaded" -> now.phase = "Starting"
    [] kind = "Paused"      -> now.phase = "Paused"
    [] kind = "Started"     -> now.phase = "Playing" /\ ~now.variant_switch_pending
    [] OTHER                -> now.phase = "Stopped" /\ ~now.variant_switch_pending

(* There is at most one phase event, and it names the new state. *)
OneName(es, now) ==
  \A i \in 1 .. Len(es) : es[i].kind \in LifecycleKinds =>
    /\ Names(es[i].kind, now)
    /\ \A j \in 1 .. Len(es) : j # i => es[j].kind \notin LifecycleKinds

(* Whatever changes is told, but for the end that a load under way takes    *)
(* over from.                                                               *)
Report(m, now, es) ==
  /\ now \in MachineStates /\ es \in Seq(Events) /\ OneName(es, now)
  /\ \/ Has(es, LifecycleKinds)
     \/ /\ now.phase \in {m.phase, "Starting"}
        /\ now.variant_switch_pending = m.variant_switch_pending
  /\ now.media_type = m.media_type \/ Has(es, {"MediaTypeChanged"})
  /\ now.seeking = m.seeking \/ Has(es, {"SeekingChanged"} \cup LifecycleKinds)
  /\ now.buffering = m.buffering \/ Has(es, {"BufferingChanged"} \cup LifecycleKinds)

LEMMA NothingHas ==
  ASSUME NEW now
  PROVE  /\ \A K : ~Has(<<>>, K)
         /\ OneName(<<>>, now) /\ <<>> \in Seq(Events)
  BY DEF Has, OneName

LEMMA AppendHas ==
  ASSUME NEW es \in Seq(Events), NEW e \in Events, NEW now
  PROVE  /\ Append(es, e) \in Seq(Events)
         /\ \A K : Has(Append(es, e), K) <=> Has(es, K) \/ e.kind \in K
         /\ OneName(Append(es, e), now) <=>
              IF e.kind \in LifecycleKinds
              THEN ~Has(es, LifecycleKinds) /\ Names(e.kind, now) ELSE OneName(es, now)
  <1> DEFINE t == Append(es, e)
  <1>1. /\ t \in Seq(Events) /\ Len(es) \in Nat /\ Len(t) = Len(es) + 1 /\ t[Len(es) + 1] = e
        /\ \A i \in 1 .. Len(es) : t[i] = es[i]
    OBVIOUS
  <1> HIDE DEF t
  <1>2. /\ Len(es) + 1 \in 1 .. Len(t)
        /\ \A i \in 1 .. Len(es) : i \in 1 .. Len(t) /\ i # Len(es) + 1
        /\ \A i \in 1 .. Len(t) : i = Len(es) + 1 \/ i \in 1 .. Len(es)
    BY <1>1
  <1>3. ASSUME NEW K PROVE Has(t, K) <=> Has(es, K) \/ e.kind \in K
    BY <1>1, <1>2 DEF Has
  <1>4. CASE e.kind \in LifecycleKinds
    <2>1. OneName(t, now) => ~Has(es, LifecycleKinds) /\ Names(e.kind, now)
      BY <1>1, <1>2, <1>4 DEF OneName, Has
    <2>2. ~Has(es, LifecycleKinds) /\ Names(e.kind, now) => OneName(t, now)
      BY <1>1, <1>2, <1>4 DEF OneName, Has
    <2> QED BY <1>1, <1>3, <1>4, <2>1, <2>2 DEF t
  <1>5. CASE e.kind \notin LifecycleKinds
    <2>1. OneName(t, now) => OneName(es, now)
      BY <1>1, <1>2, <1>5 DEF OneName
    <2>2. OneName(es, now) => OneName(t, now)
      BY <1>1, <1>2, <1>5 DEF OneName
    <2> QED BY <1>1, <1>3, <1>5, <2>1, <2>2 DEF t
  <1> QED BY <1>4, <1>5

LEMMA OneHas ==
  ASSUME NEW e \in Events, NEW now
  PROVE  /\ <<e>> \in Seq(Events)
         /\ \A K : Has(<<e>>, K) <=> e.kind \in K
         /\ OneName(<<e>>, now) <=> (e.kind \in LifecycleKinds => Names(e.kind, now))
  <1>1. <<e>> = Append(<<>>, e)
    OBVIOUS
  <1>2. <<>> \in Seq(Events) /\ OneName(<<>>, now) /\ \A K : ~Has(<<>>, K)
    BY NothingHas
  <1> DEFINE t == Append(<<>>, e)
  <1>3. /\ t \in Seq(Events)
        /\ \A K : Has(t, K) <=> Has(<<>>, K) \/ e.kind \in K
        /\ OneName(t, now) <=>
             IF e.kind \in LifecycleKinds
             THEN ~Has(<<>>, LifecycleKinds) /\ Names(e.kind, now) ELSE OneName(<<>>, now)
    BY <1>2, AppendHas
  <1> HIDE DEF t
  <1>4. /\ t \in Seq(Events) /\ \A K : Has(t, K) <=> e.kind \in K
        /\ OneName(t, now) <=> (e.kind \in LifecycleKinds => Names(e.kind, now))
    BY <1>2, <1>3
  <1> QED BY <1>1, <1>4 DEF t

LEMMA EventTypes ==
  /\ \A kind \in EventKinds : Event(kind) \in Events /\ Event(kind).kind = kind
  /\ \A kind \in EventKinds, flag \in BOOLEAN :
       FlagEvent(kind, flag) \in Events /\ FlagEvent(kind, flag).kind = kind
  BY DEF Event, FlagEvent, Events

(* A handler that changes none of what sinks show. *)
LEMMA SilentReport ==
  ASSUME NEW m \in MachineStates, NEW now \in MachineStates,
         now.phase = m.phase, now.variant_switch_pending = m.variant_switch_pending,
         now.media_type = m.media_type, now.seeking = m.seeking,
         now.buffering = m.buffering, NEW kind \in EventKinds \ LifecycleKinds
  PROVE  Report(m, now, <<>>) /\ Report(m, now, <<Event(kind)>>)
  BY NothingHas, OneHas, EventTypes DEF Report

LEMMA RestartedType ==
  ASSUME NEW m \in MachineStates
  PROVE  Restarted(m) \in MachineStates
  <1>1. /\ "Present" \in Presences /\ "Starting" \in Phases /\ Combined(m) \in BOOLEAN
    BY DEF MachineStates, Combined, Presences, Phases
  <1> QED
    BY <1>1 DEF Restarted, MachineStates

LEMMA FileLoadedReport ==
  ASSUME NEW m \in MachineStates
  PROVE  Report(m, OnFileLoaded(m).m, OnFileLoaded(m).events)
  <1> DEFINE base == Restarted(m)
             now  == OnFileLoaded(m).m
             e    == Event("TrackLoaded")
  <1>1. base \in MachineStates
    BY RestartedType
  <1>2. base.phase = "Starting" /\ base.media_type = m.media_type
    BY DEF Restarted, MachineStates
  <1>3. now = [base EXCEPT !.pending_load = FALSE] /\ OnFileLoaded(m).events = <<e>>
    BY DEF OnFileLoaded
  <1> HIDE DEF base, now
  <1>4. now \in MachineStates
    BY <1>1, <1>3 DEF MachineStates
  <1>5. now.phase = "Starting" /\ now.media_type = m.media_type
    BY <1>1, <1>2, <1>3 DEF MachineStates
  <1>6. e \in Events /\ e.kind = "TrackLoaded"
    BY EventTypes DEF EventKinds, LifecycleKinds
  <1> HIDE DEF e
  <1>7. Report(m, now, <<e>>)
    BY <1>4, <1>5, <1>6, OneHas DEF Report, LifecycleKinds, Names
  <1> QED BY <1>3, <1>7 DEF now

LEMMA LoadStartingReport ==
  ASSUME NEW m \in MachineStates, NEW id \in ItemIds \cup {NoItem}
  PROVE  Report(m, OnLoadStarting(m, id).m, OnLoadStarting(m, id).events)
  <1> DEFINE base == Restarted(m)
             now  == OnLoadStarting(m, id).m
             e    == Event("TrackLoaded")
             same == id # NoItem /\ id = m.last_known_item_id
  <1>1. base \in MachineStates
    BY RestartedType
  <1>2. base.phase = "Starting" /\ base.media_type = m.media_type
    BY DEF Restarted, MachineStates
  <1>3. /\ now = [base EXCEPT
                    !.pending_load = TRUE, !.variant_switch_pending = same,
                    !.last_known_item_id = IF id # NoItem THEN id ELSE base.last_known_item_id]
        /\ OnLoadStarting(m, id).events = <<e>>
    BY DEF OnLoadStarting, Out
  <1>4. same \in BOOLEAN
    OBVIOUS
  <1>5. e \in Events /\ e.kind = "TrackLoaded"
    BY EventTypes DEF EventKinds, LifecycleKinds
  <1> HIDE DEF base, now, e, same
  <1>6. now \in MachineStates /\ now.phase = "Starting" /\ now.media_type = m.media_type
    <2>1. base.last_known_item_id \in ItemIds \cup {NoItem}
      BY <1>1 DEF MachineStates
    <2> DEFINE item == IF id # NoItem THEN id ELSE base.last_known_item_id
    <2>2. now = [base EXCEPT !.pending_load = TRUE, !.variant_switch_pending = same,
                             !.last_known_item_id = item]
      BY <1>3
    <2>3. item \in ItemIds \cup {NoItem}
      BY <2>1
    <2> HIDE DEF item
    <2> QED
      BY <1>1, <1>2, <1>4, <2>2, <2>3 DEF MachineStates
  <1>7. Report(m, now, <<e>>)
    BY <1>5, <1>6, OneHas DEF Report, LifecycleKinds, Names
  <1> QED BY <1>3, <1>7 DEF now

(* The promotion is reported like any other change. *)
LEMMA PromoteIfReport ==
  ASSUME NEW m \in MachineStates, NEW now, NEW es, NEW ready \in BOOLEAN,
         Report(m, now, es), ~Has(es, LifecycleKinds)
  PROVE  Report(m, PromoteIf(ready, now, es).m, PromoteIf(ready, now, es).events)
  <1>1. CASE ready
    <2> DEFINE then == [now EXCEPT !.phase = "Playing", !.variant_switch_pending = FALSE]
               e    == Event("Started")
               fs   == Append(es, e)
    <2>1. /\ PromoteIf(ready, now, es).m = then /\ PromoteIf(ready, now, es).events = fs
      BY <1>1 DEF PromoteIf, Promote, Out
    <2>2. /\ then \in MachineStates /\ then.phase = "Playing" /\ ~then.variant_switch_pending
          /\ then.media_type = now.media_type /\ then.seeking = now.seeking
          /\ then.buffering = now.buffering
      BY DEF Report, MachineStates, Phases
    <2>3. e \in Events /\ e.kind = "Started" /\ es \in Seq(Events)
      BY EventTypes DEF EventKinds, LifecycleKinds, Report
    <2> HIDE DEF then, e
    <2>4. /\ fs \in Seq(Events) /\ \A K : Has(fs, K) <=> Has(es, K) \/ e.kind \in K
          /\ OneName(fs, then)
      BY <2>2, <2>3, AppendHas DEF LifecycleKinds, Names
    <2> HIDE DEF fs
    <2>5. Report(m, then, fs)
      BY <2>2, <2>3, <2>4 DEF Report, LifecycleKinds
    <2> QED BY <2>1, <2>5
  <1>2. CASE ~ready
    BY <1>2 DEF PromoteIf, Out
  <1> QED BY <1>1, <1>2

LEMMA PauseChangedReport ==
  ASSUME NEW m \in MachineStates, NEW paused \in BOOLEAN
  PROVE  Report(m, OnPauseChanged(m, paused).m, OnPauseChanged(m, paused).events)
  <1> DEFINE idle  == m.presence = "None" \/ m.phase = "Stopped"
             asked == [m EXCEPT !.pause_requested = ~paused]
             then  == [asked EXCEPT !.phase = "Paused"]
             ready == m.phase = "Paused" \/ MayPromote(asked)
             e     == Event("Paused")
             r     == OnPauseChanged(m, paused)
  <1>1. /\ r = Nothing(m) \/ r = Nothing(asked) \/ r = Out(then, <<e>>)
           \/ r = PromoteIf(ready, asked, <<>>)
    BY DEF OnPauseChanged
  <1>2. /\ asked \in MachineStates /\ asked.phase = m.phase /\ asked.seeking = m.seeking
        /\ asked.variant_switch_pending = m.variant_switch_pending
        /\ asked.media_type = m.media_type /\ asked.buffering = m.buffering
        /\ then \in MachineStates /\ then.phase = "Paused"
        /\ then.media_type = m.media_type /\ then.buffering = m.buffering
        /\ then.seeking = m.seeking
    BY DEF MachineStates, Phases
  <1>3. e \in Events /\ e.kind = "Paused" /\ ready \in BOOLEAN
    BY EventTypes DEF EventKinds, LifecycleKinds, MayPromote
  <1> HIDE DEF asked, then, ready, e, r
  <1>4. "ScalarChanged" \in EventKinds \ LifecycleKinds
    BY DEF EventKinds, LifecycleKinds, TerminalKinds
  <1>5. Report(m, m, <<>>) /\ Report(m, asked, <<>>)
    BY <1>2, <1>4, SilentReport
  <1>6. Report(m, then, <<e>>)
    BY <1>2, <1>3, OneHas DEF Report, LifecycleKinds, Names
  <1>7. Report(m, PromoteIf(ready, asked, <<>>).m, PromoteIf(ready, asked, <<>>).events)
    BY <1>3, <1>5, NothingHas, PromoteIfReport
  <1>8. Report(m, r.m, r.events)
    BY <1>1, <1>5, <1>6, <1>7 DEF Nothing, Out
  <1> QED BY <1>8 DEF r

(* The end of a file first withdraws the seek and the spinner, then stops  *)
(* the player, unless a load takes over.                                   *)
LEMMA ClearedHas ==
  ASSUME NEW m \in MachineStates, NEW now
  PROVE  /\ ClearedEvents(m) \in Seq(Events) /\ OneName(ClearedEvents(m), now)
         /\ ~Has(ClearedEvents(m), LifecycleKinds)
         /\ m.seeking => Has(ClearedEvents(m), {"SeekingChanged"})
         /\ m.buffering => Has(ClearedEvents(m), {"BufferingChanged"})
  <1> DEFINE seek == AppendIf(m.seeking, <<>>, FlagEvent("SeekingChanged", FALSE))
             e    == FlagEvent("SeekingChanged", FALSE)
             f    == FlagEvent("BufferingChanged", FALSE)
  <1>1. /\ e \in Events /\ e.kind = "SeekingChanged"
        /\ f \in Events /\ f.kind = "BufferingChanged"
    BY EventTypes DEF EventKinds
  <1>2. {"SeekingChanged", "BufferingChanged"} \cap LifecycleKinds = {}
    BY DEF LifecycleKinds, TerminalKinds
  <1>3. /\ seek = IF m.seeking THEN Append(<<>>, e) ELSE <<>>
        /\ ClearedEvents(m) = IF m.buffering THEN Append(seek, f) ELSE seek
    BY DEF AppendIf, ClearedEvents
  <1> HIDE DEF seek, e, f
  <1>4. /\ seek \in Seq(Events) /\ OneName(seek, now) /\ ~Has(seek, LifecycleKinds)
        /\ m.seeking => Has(seek, {"SeekingChanged"})
    <2>1. CASE m.seeking
      BY <1>1, <1>2, <1>3, <2>1, NothingHas, AppendHas
    <2>2. CASE ~m.seeking
      BY <1>3, <2>2, NothingHas
    <2> QED BY <2>1, <2>2
  <1>5. CASE m.buffering
    <2> DEFINE fs == Append(seek, f)
    <2>1. /\ fs \in Seq(Events) /\ \A K : Has(fs, K) <=> Has(seek, K) \/ f.kind \in K
          /\ OneName(fs, now)
      BY <1>1, <1>2, <1>4, AppendHas
    <2>2. ClearedEvents(m) = fs
      BY <1>3, <1>5
    <2> HIDE DEF fs
    <2>3. /\ ~Has(fs, LifecycleKinds) /\ Has(fs, {"BufferingChanged"})
          /\ m.seeking => Has(fs, {"SeekingChanged"})
      BY <1>1, <1>2, <1>4, <2>1
    <2> QED BY <2>1, <2>2, <2>3
  <1>6. CASE ~m.buffering
    BY <1>3, <1>4, <1>6
  <1> QED BY <1>5, <1>6

LEMMA EndFileReport ==
  ASSUME NEW m \in MachineStates, NEW reason \in EndReasons
  PROVE  Report(m, OnEndFile(m, reason).m, OnEndFile(m, reason).events)
  <1> DEFINE es    == ClearedEvents(m)
             e     == Event(TerminalKind(reason))
             eaten == EatenEnd(m).m
             ended == SurfacedEnd(m, reason).m
  <1>1. /\ eaten \in MachineStates /\ eaten.phase = "Starting" /\ ~eaten.seeking
        /\ ~eaten.buffering /\ eaten.media_type = m.media_type
        /\ eaten.variant_switch_pending = m.variant_switch_pending
        /\ EatenEnd(m).events = es
    BY DEF EatenEnd, Out, MachineStates, Phases, Presences
  <1>2. /\ ended \in MachineStates /\ ended.phase = "Stopped" /\ ~ended.seeking
        /\ ~ended.buffering /\ ended.media_type = m.media_type
        /\ ~ended.variant_switch_pending /\ SurfacedEnd(m, reason).events = Append(es, e)
    <2>1. /\ "None" \in Presences /\ "Stopped" \in Phases /\ 0 \in Positions
      BY PlaybackConstants DEF Presences, Phases
    <2>2. ended \in MachineStates
      BY <2>1 DEF SurfacedEnd, Out, MachineStates
    <2>3. /\ ended.phase = "Stopped" /\ ~ended.seeking /\ ~ended.buffering
          /\ ended.media_type = m.media_type /\ ~ended.variant_switch_pending
      BY DEF SurfacedEnd, Out, MachineStates
    <2>4. SurfacedEnd(m, reason).events = Append(es, e)
      BY DEF SurfacedEnd, Out
    <2> QED BY <2>2, <2>3, <2>4
  <1>3. e \in Events /\ e.kind \in TerminalKinds
    <2>1. TerminalKind(reason) \in TerminalKinds
      BY DEF TerminalKind, TerminalKinds
    <2> QED BY <2>1, EventTypes DEF EventKinds, LifecycleKinds
  <1>4. /\ es \in Seq(Events) /\ \A now : OneName(es, now)
        /\ ~Has(es, LifecycleKinds)
        /\ m.seeking => Has(es, {"SeekingChanged"})
        /\ m.buffering => Has(es, {"BufferingChanged"})
    BY ClearedHas
  <1>5. /\ m.seeking => Has(es, {"SeekingChanged"} \cup LifecycleKinds)
        /\ m.buffering => Has(es, {"BufferingChanged"} \cup LifecycleKinds)
    BY <1>4 DEF Has
  <1>6. m.seeking \in BOOLEAN /\ m.buffering \in BOOLEAN /\ m.phase \in Phases
    BY DEF MachineStates
  <1>7. eaten.seeking \in BOOLEAN /\ eaten.buffering \in BOOLEAN
    BY <1>1 DEF MachineStates
  <1> HIDE DEF es, e, eaten, ended
  <1>8. Report(m, eaten, es)
    BY <1>1, <1>4, <1>5, <1>6, <1>7 DEF Report
  <1>9. Report(m, ended, Append(es, e))
    <2>1. e.kind \in LifecycleKinds /\ Names(e.kind, ended)
      BY <1>2, <1>3 DEF LifecycleKinds, TerminalKinds, Names
    <2> QED BY <1>2, <1>3, <1>4, <2>1, AppendHas DEF Report
  <1> QED BY <1>1, <1>2, <1>8, <1>9 DEF OnEndFile, eaten, ended

LEMMA SeekingChangedReport ==
  ASSUME NEW m \in MachineStates, NEW seeking \in BOOLEAN
  PROVE  Report(m, OnSeekingChanged(m, seeking).m, OnSeekingChanged(m, seeking).events)
  <1> DEFINE now == [m EXCEPT !.seeking = seeking]
             e   == FlagEvent("SeekingChanged", seeking)
  <1>1. /\ now \in MachineStates /\ now.phase = m.phase /\ now.media_type = m.media_type
        /\ now.variant_switch_pending = m.variant_switch_pending /\ now.buffering = m.buffering
    BY DEF MachineStates
  <1>2. e \in Events /\ e.kind = "SeekingChanged"
    BY EventTypes DEF EventKinds
  <1>3. OnSeekingChanged(m, seeking) = Nothing(m) \/ OnSeekingChanged(m, seeking) = Out(now, <<e>>)
    BY DEF OnSeekingChanged
  <1> HIDE DEF now, e
  <1>4. Report(m, now, <<e>>)
    BY <1>1, <1>2, OneHas DEF Report, LifecycleKinds, TerminalKinds
  <1>5. Report(m, m, <<>>)
    BY NothingHas DEF Report
  <1> QED BY <1>3, <1>4, <1>5 DEF Nothing, Out

(* A machine whose stall causes alone have moved. *)
LEMMA BufferingReport ==
  ASSUME NEW m \in MachineStates, NEW was \in MachineStates,
         m.phase = was.phase, m.variant_switch_pending = was.variant_switch_pending,
         m.media_type = was.media_type, m.seeking = was.seeking, m.buffering = was.buffering
  PROVE  /\ Report(was, ApplyBufferingChange(m).m, ApplyBufferingChange(m).events)
         /\ Report(was, Nothing(m).m, Nothing(m).events)
  <1> DEFINE now == [m EXCEPT !.buffering = Combined(m)]
             e   == FlagEvent("BufferingChanged", now.buffering)
             ready == MayPromote(now)
  <1>1. /\ now \in MachineStates /\ now.phase = was.phase /\ now.media_type = was.media_type
        /\ now.variant_switch_pending = was.variant_switch_pending /\ now.seeking = was.seeking
    BY DEF MachineStates, Combined
  <1>2. e \in Events /\ e.kind = "BufferingChanged" /\ ready \in BOOLEAN
    <2>1. now.buffering \in BOOLEAN
      BY <1>1 DEF MachineStates
    <2> QED BY <2>1, EventTypes DEF EventKinds, MayPromote
  <1>3. \/ ApplyBufferingChange(m) = Nothing(m)
        \/ ApplyBufferingChange(m) = PromoteIf(ready, now, <<e>>)
    BY DEF ApplyBufferingChange
  <1> HIDE DEF now, e, ready
  <1>4. Report(was, now, <<e>>) /\ ~Has(<<e>>, LifecycleKinds)
    BY <1>1, <1>2, OneHas DEF Report, LifecycleKinds, TerminalKinds
  <1>5. Report(was, m, <<>>)
    BY NothingHas DEF Report
  <1>6. Report(was, PromoteIf(ready, now, <<e>>).m, PromoteIf(ready, now, <<e>>).events)
    BY <1>2, <1>4, PromoteIfReport
  <1> QED BY <1>3, <1>5, <1>6 DEF Nothing, Out

LEMMA StallReport ==
  ASSUME NEW m \in MachineStates, NEW stall \in BOOLEAN
  PROVE  /\ Report(m, OnPausedForCache(m, stall).m, OnPausedForCache(m, stall).events)
         /\ Report(m, OnCoreIdle(m, stall).m, OnCoreIdle(m, stall).events)
  <1> DEFINE cache == [m EXCEPT !.paused_for_cache = stall]
             idle  == [m EXCEPT !.core_idle = stall]
  <1>1. \A now \in {m, cache, idle} :
          /\ now \in MachineStates /\ now.phase = m.phase
          /\ now.variant_switch_pending = m.variant_switch_pending
          /\ now.media_type = m.media_type /\ now.seeking = m.seeking
          /\ now.buffering = m.buffering
    BY DEF MachineStates
  <1>2. /\ OnPausedForCache(m, stall) \in {Nothing(m), ApplyBufferingChange(cache), Nothing(cache)}
        /\ OnCoreIdle(m, stall) \in {Nothing(m), ApplyBufferingChange(idle), Nothing(idle)}
    BY DEF OnPausedForCache, OnCoreIdle, StallChanged
  <1> HIDE DEF cache, idle
  <1> QED BY <1>1, <1>2, BufferingReport

LEMMA PositionReport ==
  ASSUME NEW m \in MachineStates, NEW pos \in Positions
  PROVE  Report(m, OnPosition(m, pos).m, OnPosition(m, pos).events)
  <1> DEFINE now == [m EXCEPT !.position_us = pos, !.seeking = FALSE]
             e   == FlagEvent("SeekingChanged", FALSE)
             f   == Event("PositionChanged")
             es  == AppendIf(m.seeking, <<>>, e)
  <1>1. /\ now \in MachineStates /\ now.phase = m.phase /\ now.media_type = m.media_type
        /\ now.variant_switch_pending = m.variant_switch_pending
        /\ now.buffering = m.buffering /\ ~now.seeking /\ now.seeking \in BOOLEAN
        /\ m.seeking \in BOOLEAN
    BY DEF MachineStates
  <1>2. /\ e \in Events /\ e.kind = "SeekingChanged"
        /\ f \in Events /\ f.kind = "PositionChanged"
    BY EventTypes DEF EventKinds
  <1> DEFINE r == OnPosition(m, pos)
  <1>3. /\ r = Nothing(m) \/ r = Out(now, Append(es, f))
        /\ es = IF m.seeking THEN Append(<<>>, e) ELSE <<>>
    BY DEF OnPosition, AppendIf
  <1>4. e.kind \notin LifecycleKinds /\ f.kind \notin LifecycleKinds
    BY <1>2 DEF LifecycleKinds, TerminalKinds
  <1> HIDE DEF now, e, f, es, r
  <1>5. /\ es \in Seq(Events) /\ OneName(es, now)
        /\ m.seeking => Has(es, {"SeekingChanged"} \cup LifecycleKinds)
    <2>1. CASE ~m.seeking
      BY <1>3, <2>1, NothingHas
    <2>2. CASE m.seeking
      <3>1. es = <<e>>
        BY <1>3, <2>2
      <3> QED BY <1>2, <1>4, <3>1, OneHas
    <2> QED BY <2>1, <2>2
  <1>6. Report(m, now, Append(es, f))
    BY <1>1, <1>2, <1>4, <1>5, AppendHas DEF Report
  <1>7. Report(m, m, <<>>)
    BY NothingHas DEF Report
  <1>8. (r.m = m /\ r.events = <<>>) \/ (r.m = now /\ r.events = Append(es, f))
    BY <1>3 DEF Nothing, Out
  <1>9. Report(m, r.m, r.events)
    BY <1>6, <1>7, <1>8
  <1> QED BY <1>9 DEF r

LEMMA MediaTypeReport ==
  ASSUME NEW m \in MachineStates, NEW ty \in MediaTypes
  PROVE  Report(m, OnMediaType(m, ty).m, OnMediaType(m, ty).events)
  <1> DEFINE now   == [m EXCEPT !.media_type = ty]
             e     == Event("MediaTypeChanged")
             ready == MayPromote(now)
  <1>1. /\ now \in MachineStates /\ now.phase = m.phase /\ now.buffering = m.buffering
        /\ now.variant_switch_pending = m.variant_switch_pending /\ now.seeking = m.seeking
    BY DEF MachineStates
  <1>2. e \in Events /\ e.kind = "MediaTypeChanged" /\ ready \in BOOLEAN
    BY EventTypes DEF EventKinds, MayPromote
  <1>3. OnMediaType(m, ty) \in {Nothing(m), PromoteIf(ready, now, <<e>>)}
    BY DEF OnMediaType
  <1> HIDE DEF now, e, ready
  <1>4. Report(m, now, <<e>>) /\ ~Has(<<e>>, LifecycleKinds)
    BY <1>1, <1>2, OneHas DEF Report, LifecycleKinds, TerminalKinds
  <1>5. Report(m, m, <<>>)
    BY NothingHas DEF Report
  <1>6. Report(m, PromoteIf(ready, now, <<e>>).m, PromoteIf(ready, now, <<e>>).events)
    BY <1>2, <1>4, PromoteIfReport
  <1> QED BY <1>3, <1>5, <1>6 DEF Nothing, Out

LEMMA VideoFrameReport ==
  ASSUME NEW m \in MachineStates, NEW available \in BOOLEAN
  PROVE  Report(m, OnVideoFrameAvailable(m, available).m, OnVideoFrameAvailable(m, available).events)
  <1> DEFINE now   == [m EXCEPT !.frame_available = available]
             ready == available /\ ~m.frame_available /\ MayPromote(now)
  <1>1. /\ now \in MachineStates /\ now.phase = m.phase /\ now.buffering = m.buffering
        /\ now.variant_switch_pending = m.variant_switch_pending /\ now.seeking = m.seeking
        /\ now.media_type = m.media_type /\ ready \in BOOLEAN
    BY DEF MachineStates
  <1>2. OnVideoFrameAvailable(m, available) = PromoteIf(ready, now, <<>>)
    BY DEF OnVideoFrameAvailable
  <1> HIDE DEF now, ready
  <1>3. Report(m, now, <<>>) /\ ~Has(<<>>, LifecycleKinds)
    BY <1>1, NothingHas DEF Report
  <1> QED BY <1>1, <1>2, <1>3, PromoteIfReport

LEMMA PlainReport ==
  ASSUME NEW m \in MachineStates
  PROVE  /\ \A p \in ScalarProps, v \in ScalarValues :
              Report(m, OnScalar(m, p, v).m, OnScalar(m, p, v).events)
         /\ \A f \in BOOLEAN :
              Report(m, OnFullscreen(m, f, FALSE).m, OnFullscreen(m, f, FALSE).events)
         /\ \A kind \in EventKinds \ LifecycleKinds : Report(m, m, <<Event(kind)>>)
  <1>0. {"ScalarChanged", "FullscreenChanged"} \subseteq EventKinds \ LifecycleKinds
    BY DEF EventKinds, LifecycleKinds, TerminalKinds
  <1>1. ASSUME NEW p \in ScalarProps, NEW v \in ScalarValues
        PROVE  Report(m, OnScalar(m, p, v).m, OnScalar(m, p, v).events)
    <2> DEFINE now == [m EXCEPT !.scalars[p] = v]
    <2>1. /\ now \in MachineStates /\ now.phase = m.phase /\ now.buffering = m.buffering
          /\ now.variant_switch_pending = m.variant_switch_pending
          /\ now.seeking = m.seeking /\ now.media_type = m.media_type
      BY DEF MachineStates
    <2>2. OnScalar(m, p, v) \in {Nothing(m), Out(now, <<Event("ScalarChanged")>>)}
      BY DEF OnScalar
    <2> HIDE DEF now
    <2>3. Report(m, m, <<>>) /\ Report(m, now, <<Event("ScalarChanged")>>)
      BY <1>0, <2>1, SilentReport
    <2> QED BY <2>2, <2>3 DEF Nothing, Out
  <1>2. ASSUME NEW f \in BOOLEAN
        PROVE  Report(m, OnFullscreen(m, f, FALSE).m, OnFullscreen(m, f, FALSE).events)
    <2> DEFINE now == [m EXCEPT !.fullscreen = f, !.maximized_before_fullscreen = f /\ FALSE]
    <2>1. /\ now \in MachineStates /\ now.phase = m.phase /\ now.buffering = m.buffering
          /\ now.variant_switch_pending = m.variant_switch_pending
          /\ now.seeking = m.seeking /\ now.media_type = m.media_type
      BY DEF MachineStates
    <2> DEFINE r == OnFullscreen(m, f, FALSE)
    <2>2. r = Nothing(m) \/ r = Out(now, <<Event("FullscreenChanged")>>)
      BY DEF OnFullscreen
    <2> HIDE DEF now, r
    <2>3. Report(m, m, <<>>) /\ Report(m, now, <<Event("FullscreenChanged")>>)
      BY <1>0, <2>1, SilentReport
    <2>4. \/ r.m = m /\ r.events = <<>>
          \/ r.m = now /\ r.events = <<Event("FullscreenChanged")>>
      BY <2>2 DEF Nothing, Out
    <2>5. Report(m, r.m, r.events)
      BY <2>3, <2>4
    <2> QED BY <2>5 DEF r
  <1>3. \A kind \in EventKinds \ LifecycleKinds : Report(m, m, <<Event(kind)>>)
    BY SilentReport
  <1> QED BY <1>1, <1>2, <1>3

LEMMA ThenReport ==
  ASSUME NEW m \in MachineStates, NEW r, Report(m, r.m, r.events), "events" \in DOMAIN r,
         NEW kind \in EventKinds \ LifecycleKinds
  PROVE  Report(m, Then(r, kind).m, Then(r, kind).events)
  <1> DEFINE e == Event(kind)
  <1>1. e \in Events /\ e.kind \notin LifecycleKinds
    BY EventTypes
  <1>2. Then(r, kind).m = r.m /\ Then(r, kind).events = Append(r.events, e)
    BY DEF Then
  <1> HIDE DEF e
  <1>3. Report(m, r.m, Append(r.events, e))
    BY <1>1, AppendHas DEF Report
  <1> QED BY <1>2, <1>3

LEMMA ApplyReport ==
  ASSUME NEW m \in MachineStates, NEW input, input.arg \in Args(input.kind)
  PROVE  Report(m, Apply(m, input).m, Apply(m, input).events)
  <1> DEFINE x == input.arg
             k == input.kind
             r == Apply(m, input)
  <1>0. {"MetadataChanged", "ArtworkChanged", "QueueCapsChanged", "Seeked"}
          \subseteq EventKinds \ LifecycleKinds
    BY DEF EventKinds, LifecycleKinds, TerminalKinds
  <1>1. CASE k = "FileLoaded"
    BY <1>1, FileLoadedReport DEF Apply
  <1>2. CASE k = "LoadStarting"
    BY <1>2, LoadStartingReport DEF Apply, Args
  <1>3. CASE k = "PauseChanged"
    BY <1>3, PauseChangedReport DEF Apply, Args
  <1>4. CASE k = "EndFile"
    BY <1>4, EndFileReport DEF Apply, Args
  <1>5. CASE k = "SeekingChanged"
    BY <1>5, SeekingChangedReport DEF Apply, Args
  <1>6. CASE k \in {"PausedForCache", "CoreIdle"}
    BY <1>6, StallReport DEF Apply, Args
  <1>7. CASE k = "Position"
    BY <1>7, PositionReport DEF Apply, Args
  <1>8. CASE k = "MediaType"
    BY <1>8, MediaTypeReport DEF Apply, Args
  <1>9. CASE k = "VideoFrameAvailable"
    BY <1>9, VideoFrameReport DEF Apply, Args
  <1>10. CASE k = "Fullscreen"
    BY <1>10, PlainReport DEF Apply, Args
  <1>11. CASE k = "Metadata"
    <2>1. x \in MediaTypes /\ r = Then(OnMediaType(m, x), "MetadataChanged")
      BY <1>11 DEF Apply, Args
    <2>2. "events" \in DOMAIN OnMediaType(m, x)
      BY DEF OnMediaType, PromoteIf, Promote, Nothing, Out
    <2> HIDE DEF r
    <2>3. Report(m, r.m, r.events)
      BY <1>0, <2>1, <2>2, MediaTypeReport, ThenReport
    <2> QED BY <2>3 DEF r
  <1>12. CASE k = "Seeked"
    <2>1. x \in Positions /\ r = Then(OnPosition(m, x), "Seeked")
      BY <1>12 DEF Apply, Args
    <2>2. "events" \in DOMAIN OnPosition(m, x)
      BY DEF OnPosition, Nothing, Out
    <2> HIDE DEF r
    <2>3. Report(m, r.m, r.events)
      BY <1>0, <2>1, <2>2, PositionReport, ThenReport
    <2> QED BY <2>3 DEF r
  <1>13. CASE k \in {"Artwork", "QueueCaps"}
    <2>1. PICK kind \in EventKinds \ LifecycleKinds : r = Out(m, <<Event(kind)>>)
      BY <1>0, <1>13 DEF Apply
    <2> HIDE DEF r
    <2>2. r.m = m /\ r.events = <<Event(kind)>>
      BY <2>1 DEF Out
    <2>3. Report(m, r.m, r.events)
      BY <2>2, PlainReport
    <2> QED BY <2>3 DEF r
  <1>14. CASE k \notin {"FileLoaded", "LoadStarting", "PauseChanged", "EndFile", "SeekingChanged",
                        "PausedForCache", "CoreIdle", "Position", "MediaType",
                        "VideoFrameAvailable", "Fullscreen", "Metadata", "Artwork",
                        "QueueCaps", "Seeked"}
    <2>1. k \in ScalarProps /\ x \in ScalarValues /\ r = OnScalar(m, k, x)
      BY <1>14 DEF Apply, Args
    <2> HIDE DEF r
    <2>2. Report(m, r.m, r.events)
      BY <2>1, PlainReport
    <2> QED BY <2>2 DEF r
  <1> QED
    BY <1>1, <1>2, <1>3, <1>4, <1>5, <1>6, <1>7, <1>8, <1>9, <1>10, <1>11, <1>12,
       <1>13, <1>14

-----------------------------------------------------------------------------
(* The inductive invariant.                                                *)

InhibitKinds == TerminalKinds \cup {"Started", "Paused", "MediaTypeChanged"}

LevelFollows ==
  watched = "inhibit" /\ sm.phase # "Starting" =>
    WillBe(batch, InhibitKinds, InhibitKinds, shown = InhibitLevel(sm))

(* The events that pause the page's indicator, or move it at all, while a  *)
(* variant switch is pending or not.                                       *)
PausedKinds(switching) == {"Paused"} \cup (IF switching THEN {"TrackLoaded"} ELSE {})
WordKinds(switching)   == TerminalKinds \cup {"Started"} \cup PausedKinds(switching)

WordFollows ==
  LET switching == sm.variant_switch_pending
      Word(kinds, b) == WillBe(batch, kinds, WordKinds(switching), b)
  IN watched = "browser" =>
       /\ sm.phase = "Playing" => Word({"Started"}, shown = "playing")
       /\ sm.phase = "Paused" \/ switching => Word(PausedKinds(switching), shown = "paused")
       /\ sm.phase = "Stopped" => Word(TerminalKinds, shown \in {"none", "ended"})

Entries  == [kind : EventKinds, snap : Projections]
About(K) == {e \in Entries : e.kind \in K}

(* The events, and the entries of the queue, that tell the desktop what it  *)
(* is to show.                                                              *)
RightKinds ==
  IF watched = "mpris" THEN Recomputes
  ELSE {kind \in LifecycleKinds : MapKindToPhase(kind) = sm.phase}
RightEntries ==
  {e \in About(Telling(watched)) :
     (IF watched = "mpris" THEN e.snap ELSE MapKindToPhase(e.kind)) = ShownAt(watched, sm)}

DesktopQueued ==
  missed \/ WillBe(queue, RightEntries, About(Telling(watched)), shown = ShownAt(watched, sm))
DesktopFollows ==
  watched \in Desktops /\ sm.phase # "Starting" =>
    WillBe(batch, RightKinds, Telling(watched), DesktopQueued)

(* What Discord shows is the view last pushed, or nothing without a link.   *)
Faithful(d) ==
  /\ d \in PresenceStates
  /\ d.link = "up" /\ ~d.pending => d.shows = Pushed(d.view)
  /\ d.link # "up" => d.shows = "Stopped"

PresenceQueued ==
  WillBe(queue, {e \in About(Projecting) : e.snap.status = sm.phase}, About(Projecting),
         shown.view = View(sm.phase, shown.titled))
PresenceFollows ==
  watched = "discord" =>
    /\ Faithful(shown)
    /\ sm.phase # "Starting" => WillBe(batch, Projecting, Projecting, PresenceQueued)

IInv == TypeOK /\ LevelFollows /\ WordFollows /\ DesktopFollows /\ PresenceFollows

-----------------------------------------------------------------------------
(* What one more input adds to the batch.                                  *)

LEMMA Narrower ==
  ASSUME NEW s, NEW R, NEW K, NEW Q, NEW L
  PROVE  /\ L \subseteq K /\ NoneIn(s, K) => NoneIn(s, L)
         /\ R \subseteq Q /\ L \subseteq K /\ LastIn(s, R, K) => LastIn(s, Q, L)
  BY DEF NoneIn, LastIn

LEMMA WillBeMonotone ==
  ASSUME NEW s, NEW R, NEW K, NEW b \in BOOLEAN, NEW c \in BOOLEAN,
         b => c, WillBe(s, R, K, b)
  PROVE  WillBe(s, R, K, c)
  BY DEF WillBe

(* The kinds ks that an input adds, as the machine moves from m to now. *)
Adds(m, now, ks) ==
  /\ ks \in Seq(EventKinds)
  /\ \/ \E kind \in LifecycleKinds :
          /\ Names(kind, now) /\ LastIn(ks, {kind}, LifecycleKinds)
          /\ \A i \in 1 .. Len(ks) : ks[i] \in LifecycleKinds => ks[i] = kind
     \/ /\ NoneIn(ks, LifecycleKinds)
        /\ now.phase \in {m.phase, "Starting"}
        /\ now.variant_switch_pending = m.variant_switch_pending
  /\ now.media_type = m.media_type \/ ~NoneIn(ks, {"MediaTypeChanged"})
  /\ now.seeking = m.seeking \/ ~NoneIn(ks, {"SeekingChanged"} \cup LifecycleKinds)
  /\ now.buffering = m.buffering \/ ~NoneIn(ks, {"BufferingChanged"} \cup LifecycleKinds)

LEMMA ReportAdds ==
  ASSUME NEW m, NEW now, NEW es, Report(m, now, es)
  PROVE  Adds(m, now, [i \in DOMAIN es |-> es[i].kind])
  <1> DEFINE ks == [i \in DOMAIN es |-> es[i].kind]
  <1>1. /\ es \in Seq(Events) /\ Len(es) \in Nat /\ DOMAIN es = 1 .. Len(es)
        /\ \A i \in 1 .. Len(es) : es[i] \in Events
    BY DEF Report
  <1>2. /\ ks \in Seq(EventKinds) /\ Len(ks) = Len(es)
        /\ \A i \in 1 .. Len(es) : ks[i] = es[i].kind
    <2>1. \A i \in 1 .. Len(es) : es[i].kind \in EventKinds
      BY <1>1 DEF Events
    <2> QED BY <1>1, <2>1
  <1> HIDE DEF ks
  <1>3. \A K : Has(es, K) <=> ~NoneIn(ks, K)
    BY <1>2 DEF Has, NoneIn
  <1>4. ASSUME ~NoneIn(ks, LifecycleKinds)
        PROVE  \E kind \in LifecycleKinds :
                 /\ Names(kind, now) /\ LastIn(ks, {kind}, LifecycleKinds)
                 /\ \A i \in 1 .. Len(ks) : ks[i] \in LifecycleKinds => ks[i] = kind
    <2>1. PICK i \in 1 .. Len(ks) : ks[i] \in LifecycleKinds
      BY <1>4 DEF NoneIn
    <2>2. Names(ks[i], now) /\ \A j \in 1 .. Len(ks) : j # i => ks[j] \notin LifecycleKinds
      BY <1>2, <2>1 DEF Report, OneName
    <2>3. LastIn(ks, {ks[i]}, LifecycleKinds)
      <3>1. \A j \in 1 .. Len(ks) : j > i => j # i
        BY <2>1
      <3> QED BY <2>1, <2>2, <3>1 DEF LastIn
    <2>4. \A j \in 1 .. Len(ks) : ks[j] \in LifecycleKinds => ks[j] = ks[i]
      BY <2>2
    <2> QED BY <2>1, <2>2, <2>3, <2>4
  <1>5. Adds(m, now, ks)
    BY <1>2, <1>3, <1>4 DEF Report, Adds
  <1> QED BY <1>5 DEF ks

LEMMA InputAdds ==
  ASSUME TypeOK, NEW input \in Inputs[watched], ApplyInput(input)
  PROVE  /\ sm' \in MachineStates
         /\ \E ks \in Seq(EventKinds) : batch' = batch \o ks /\ Adds(sm, sm', ks)
  <1> DEFINE r  == Apply(sm, input)
             ks == [i \in DOMAIN r.events |-> r.events[i].kind]
  <1>1. input.arg \in Args(input.kind) /\ sm \in MachineStates
    BY SinkConstants DEF TypeOK
  <1>2. Report(sm, r.m, r.events)
    BY <1>1, ApplyReport
  <1>3. sm' = r.m /\ batch' = batch \o ks
    BY DEF ApplyInput
  <1> HIDE DEF r
  <1>4. Adds(sm, r.m, ks)
    BY <1>2, ReportAdds
  <1>5. r.m \in MachineStates
    BY <1>2 DEF Report
  <1> HIDE DEF ks
  <1>6. ks \in Seq(EventKinds)
    BY <1>4 DEF Adds
  <1> QED BY <1>3, <1>4, <1>5, <1>6

(* An input that adds none of the kinds K keeps what the batch brings      *)
(* about; one that adds some of them makes it one of those.                *)
LEMMA AddsToBatch ==
  ASSUME NEW s \in Seq(EventKinds), NEW ks \in Seq(EventKinds), NEW K, NEW b \in BOOLEAN,
         NoneIn(ks, K) => WillBe(s, K, K, b)
  PROVE  WillBe(s \o ks, K, K, b)
  BY LastExists, ConcatWillBe

LEMMA LevelInput ==
  ASSUME TypeOK, LevelFollows, NEW input \in Inputs[watched], ApplyInput(input)
  PROVE  LevelFollows'
  <1> SUFFICES ASSUME watched = "inhibit", sm'.phase # "Starting"
               PROVE  WillBe(batch', InhibitKinds, InhibitKinds, shown = InhibitLevel(sm'))
    BY DEF LevelFollows, ApplyInput
  <1>1. PICK ks \in Seq(EventKinds) : batch' = batch \o ks /\ Adds(sm, sm', ks)
    BY InputAdds
  <1>2. ASSUME NoneIn(ks, InhibitKinds)
        PROVE  WillBe(batch, InhibitKinds, InhibitKinds, shown = InhibitLevel(sm'))
    <2>1. ASSUME NEW kind \in LifecycleKinds, Names(kind, sm'),
                 LastIn(ks, {kind}, LifecycleKinds)
          PROVE  FALSE
      <3>1. kind \in InhibitKinds
        BY <2>1 DEF LifecycleKinds, Names, InhibitKinds
      <3> QED BY <1>2, <2>1, <3>1 DEF LastIn, NoneIn
    <2>2. sm'.phase = sm.phase /\ sm'.media_type = sm.media_type
      <3>1. NoneIn(ks, {"MediaTypeChanged"})
        BY <1>2, Narrower DEF InhibitKinds
      <3> QED BY <1>1, <2>1, <3>1 DEF Adds
    <2>3. InhibitLevel(sm') = InhibitLevel(sm)
      BY <2>2 DEF InhibitLevel
    <2> QED BY <2>2, <2>3 DEF LevelFollows
  <1> QED BY <1>1, <1>2, AddsToBatch DEF TypeOK

LEMMA WordInput ==
  ASSUME TypeOK, WordFollows, NEW input \in Inputs[watched], ApplyInput(input)
  PROVE  WordFollows'
  <1> DEFINE switching == sm'.variant_switch_pending
             K == WordKinds(switching)
  <1> SUFFICES ASSUME watched = "browser"
               PROVE  /\ sm'.phase = "Playing" => WillBe(batch', {"Started"}, K, shown = "playing")
                      /\ sm'.phase = "Paused" \/ switching =>
                           WillBe(batch', PausedKinds(switching), K, shown = "paused")
                      /\ sm'.phase = "Stopped" =>
                           WillBe(batch', TerminalKinds, K, shown \in {"none", "ended"})
    BY DEF WordFollows, ApplyInput
  <1>1. PICK ks \in Seq(EventKinds) : batch' = batch \o ks /\ Adds(sm, sm', ks)
    BY InputAdds
  <1>2. batch \in Seq(EventKinds) /\ K \subseteq LifecycleKinds
    BY DEF TypeOK, WordKinds, PausedKinds, LifecycleKinds
  <1>3. ASSUME NEW kind \in LifecycleKinds, Names(kind, sm'),
               LastIn(ks, {kind}, LifecycleKinds), NEW R, NEW b \in BOOLEAN, kind \in R
        PROVE  WillBe(batch', R, K, b)
    <2>1. LastIn(ks, R, K)
      BY <1>2, <1>3, Narrower
    <2> QED BY <1>1, <1>2, <2>1, ConcatWillBe
  <1>4. ASSUME NEW kind \in LifecycleKinds, Names(kind, sm'),
               LastIn(ks, {kind}, LifecycleKinds)
        PROVE  /\ sm'.phase = "Playing" => WillBe(batch', {"Started"}, K, shown = "playing")
               /\ sm'.phase = "Paused" \/ switching =>
                    WillBe(batch', PausedKinds(switching), K, shown = "paused")
               /\ sm'.phase = "Stopped" =>
                    WillBe(batch', TerminalKinds, K, shown \in {"none", "ended"})
    <2>1. /\ sm'.phase = "Playing" => kind = "Started"
          /\ sm'.phase = "Paused" \/ switching => kind \in PausedKinds(switching)
          /\ sm'.phase = "Stopped" => kind \in TerminalKinds
      BY <1>4 DEF Names, LifecycleKinds, PausedKinds
    <2>2. ASSUME sm'.phase = "Playing" PROVE WillBe(batch', {"Started"}, K, shown = "playing")
      BY <1>3, <1>4, <2>1, <2>2
    <2>3. ASSUME sm'.phase = "Paused" \/ switching
          PROVE  WillBe(batch', PausedKinds(switching), K, shown = "paused")
      BY <1>3, <1>4, <2>1, <2>3
    <2>4. ASSUME sm'.phase = "Stopped"
          PROVE  WillBe(batch', TerminalKinds, K, shown \in {"none", "ended"})
      <3> DEFINE quiet == shown \in {"none", "ended"}
      <3> SUFFICES WillBe(batch', TerminalKinds, K, quiet)
        OBVIOUS
      <3>1. quiet \in BOOLEAN
        OBVIOUS
      <3> HIDE DEF quiet
      <3> QED BY <1>3, <1>4, <2>1, <2>4, <3>1
    <2> QED BY <2>2, <2>3, <2>4
  <1>5. ASSUME NoneIn(ks, LifecycleKinds), sm'.phase \in {sm.phase, "Starting"},
               switching = sm.variant_switch_pending
        PROVE  /\ sm'.phase = "Playing" => WillBe(batch', {"Started"}, K, shown = "playing")
               /\ sm'.phase = "Paused" \/ switching =>
                    WillBe(batch', PausedKinds(switching), K, shown = "paused")
               /\ sm'.phase = "Stopped" =>
                    WillBe(batch', TerminalKinds, K, shown \in {"none", "ended"})
    <2>1. NoneIn(ks, K)
      BY <1>2, <1>5, Narrower
    <2>2. ASSUME NEW R, NEW b \in BOOLEAN, WillBe(batch, R, K, b) PROVE WillBe(batch', R, K, b)
      BY <1>1, <1>2, <2>1, <2>2, ConcatWillBe
    <2>3. /\ sm'.phase = "Playing" => WillBe(batch, {"Started"}, K, shown = "playing")
          /\ sm'.phase = "Paused" \/ switching =>
               WillBe(batch, PausedKinds(switching), K, shown = "paused")
          /\ sm'.phase = "Stopped" =>
               WillBe(batch, TerminalKinds, K, shown \in {"none", "ended"})
      BY <1>5 DEF WordFollows
    <2> HIDE DEF K
    <2>4. /\ (shown = "playing") \in BOOLEAN /\ (shown = "paused") \in BOOLEAN
          /\ (shown \in {"none", "ended"}) \in BOOLEAN
      OBVIOUS
    <2> QED BY <2>2, <2>3, <2>4
  <1> QED BY <1>1, <1>4, <1>5 DEF Adds

LEMMA DesktopInput ==
  ASSUME TypeOK, DesktopFollows, NEW input \in Inputs[watched], ApplyInput(input)
  PROVE  DesktopFollows'
  <1> SUFFICES ASSUME watched \in Desktops, sm'.phase # "Starting"
               PROVE  WillBe(batch', RightKinds', Telling(watched), DesktopQueued')
    BY DEF DesktopFollows, ApplyInput
  <1>1. PICK ks \in Seq(EventKinds) : batch' = batch \o ks /\ Adds(sm, sm', ks)
    BY InputAdds
  <1>2. /\ batch \in Seq(EventKinds) /\ UNCHANGED <<watched, missed, queue, shown>>
        /\ DesktopQueued' \in BOOLEAN /\ DesktopQueued \in BOOLEAN
    BY DEF TypeOK, ApplyInput, DesktopQueued
  <1>3. ASSUME sm'.phase = sm.phase, ShownAt(watched, sm') = ShownAt(watched, sm),
               NoneIn(ks, Telling(watched))
        PROVE  WillBe(batch', RightKinds', Telling(watched), DesktopQueued')
    <2>1. RightKinds' = RightKinds /\ RightEntries' = RightEntries
      BY <1>2, <1>3 DEF RightKinds, RightEntries
    <2>2. DesktopQueued' = DesktopQueued
      BY <1>2, <1>3, <2>1 DEF DesktopQueued
    <2>3. WillBe(batch, RightKinds, Telling(watched), DesktopQueued)
      BY <1>3 DEF DesktopFollows
    <2> QED BY <1>1, <1>2, <1>3, <2>1, <2>2, <2>3, ConcatWillBe
  <1>4. CASE watched = "mpris"
    <2>1. RightKinds' = Recomputes /\ Telling(watched) = Recomputes
      BY <1>2, <1>4 DEF RightKinds, Telling
    <2>2. CASE ~NoneIn(ks, Recomputes)
      <3>1. LastIn(ks, Recomputes, Recomputes)
        BY <2>2, LastExists
      <3> QED BY <1>1, <1>2, <2>1, <3>1, ConcatWillBe
    <2>3. CASE NoneIn(ks, Recomputes)
      <3>1. /\ NoneIn(ks, LifecycleKinds) /\ NoneIn(ks, {"SeekingChanged"} \cup LifecycleKinds)
            /\ NoneIn(ks, {"BufferingChanged"} \cup LifecycleKinds)
        BY <2>3, Narrower DEF Recomputes
      <3>2. \A kind : kind \in LifecycleKinds => ~LastIn(ks, {kind}, LifecycleKinds)
        BY <3>1 DEF LastIn, NoneIn
      <3>3. sm'.phase = sm.phase /\ sm'.seeking = sm.seeking /\ sm'.buffering = sm.buffering
        BY <1>1, <3>1, <3>2 DEF Adds
      <3>4. Project(sm') = Project(sm)
        BY <3>3 DEF Project, IsActive
      <3> QED BY <1>3, <1>4, <2>1, <2>3, <3>3, <3>4 DEF ShownAt
    <2> QED BY <2>2, <2>3
  <1>5. CASE watched = "native"
    <2>1. Telling(watched) = LifecycleKinds /\ \A m : ShownAt(watched, m) = m.phase
      BY <1>5 DEF Telling, ShownAt
    <2>2. ASSUME NEW kind \in LifecycleKinds, Names(kind, sm'),
                 LastIn(ks, {kind}, LifecycleKinds)
          PROVE  WillBe(batch', RightKinds', Telling(watched), DesktopQueued')
      <3>1. kind \in RightKinds'
        BY <1>2, <1>5, <2>2 DEF RightKinds, Names, LifecycleKinds, MapKindToPhase
      <3>2. LastIn(ks, RightKinds', LifecycleKinds)
        BY <2>2, <3>1, Narrower
      <3> QED BY <1>1, <1>2, <2>1, <3>2, ConcatWillBe
    <2>3. ASSUME NoneIn(ks, LifecycleKinds), sm'.phase = sm.phase
          PROVE  WillBe(batch', RightKinds', Telling(watched), DesktopQueued')
      BY <1>3, <2>1, <2>3
    <2> QED BY <1>1, <2>2, <2>3 DEF Adds
  <1> QED BY <1>4, <1>5 DEF Desktops

LEMMA PresenceInput ==
  ASSUME TypeOK, PresenceFollows, NEW input \in Inputs[watched], ApplyInput(input)
  PROVE  PresenceFollows'
  <1> SUFFICES ASSUME watched = "discord", sm'.phase # "Starting"
               PROVE  WillBe(batch', Projecting, Projecting, PresenceQueued')
    BY DEF PresenceFollows, ApplyInput
  <1>1. PICK ks \in Seq(EventKinds) : batch' = batch \o ks /\ Adds(sm, sm', ks)
    BY InputAdds
  <1>2. /\ batch \in Seq(EventKinds) /\ UNCHANGED <<watched, queue, shown>>
        /\ PresenceQueued' \in BOOLEAN
    BY DEF TypeOK, ApplyInput, PresenceQueued, WillBe, NoneIn, LastIn
  <1>3. ASSUME NoneIn(ks, Projecting)
        PROVE  WillBe(batch, Projecting, Projecting, PresenceQueued')
    <2>1. NoneIn(ks, LifecycleKinds)
      BY <1>3, Narrower DEF Projecting
    <2>2. \A kind : kind \in LifecycleKinds => ~LastIn(ks, {kind}, LifecycleKinds)
      BY <2>1 DEF LastIn, NoneIn
    <2>3. sm'.phase = sm.phase
      BY <1>1, <2>2 DEF Adds
    <2>4. PresenceQueued' = PresenceQueued
      BY <1>2, <2>3 DEF PresenceQueued
    <2> QED BY <2>3, <2>4 DEF PresenceFollows
  <1> QED BY <1>1, <1>2, <1>3, AddsToBatch

-----------------------------------------------------------------------------
(* The hand-out of the batch, and what the sinks make of it.               *)

LEMMA HandOutFacts ==
  ASSUME TypeOK, HandOut
  PROVE  /\ batch \in Seq(EventKinds) /\ batch # <<>> /\ batch' = Tail(batch)
         /\ batch' \in Seq(EventKinds) /\ Head(batch) \in EventKinds
         /\ UNCHANGED <<sm, size, watched>>
         /\ dispatching' = (size' = 0 /\ batch' # <<>>)
  <1>1. /\ batch \in Seq(EventKinds) /\ dispatching /\ dispatching = (size = 0 /\ batch # <<>>)
        /\ batch' = Tail(batch) /\ dispatching' = (Len(batch) > 1)
        /\ UNCHANGED <<sm, size, watched>>
    BY DEF TypeOK, HandOut
  <1>2. /\ batch # <<>> /\ size' = 0 /\ batch' \in Seq(EventKinds)
        /\ Head(batch) \in EventKinds
    <2>1. size = 0 /\ batch # <<>>
      BY <1>1, Zenon
    <2> QED BY <1>1, <2>1
  <1>3. Len(batch) > 1 <=> batch' # <<>>
    <2>1. Len(batch') = Len(batch) - 1 /\ Len(batch) \in Nat
      BY <1>1, <1>2
    <2>2. batch' = <<>> <=> Len(batch') = 0
      BY <1>2
    <2> QED BY <2>1, <2>2
  <1> QED BY <1>1, <1>2, <1>3

LEMMA LevelCall ==
  ASSUME TypeOK, LevelFollows, CallBuiltin
  PROVE  LevelFollows'
  <1> SUFFICES ASSUME watched = "inhibit", sm.phase # "Starting"
               PROVE  WillBe(batch', InhibitKinds, InhibitKinds, shown' = InhibitLevel(sm))
    BY HandOutFacts DEF LevelFollows, CallBuiltin
  <1> DEFINE b == shown = InhibitLevel(sm)
             c == shown' = InhibitLevel(sm)
  <1>1. /\ Head(batch) \in InhibitKinds => c
        /\ Head(batch) \notin InhibitKinds /\ b => c
    BY DEF CallBuiltin, InhibitAfter, InhibitKinds
  <1>2. WillBe(batch, InhibitKinds, InhibitKinds, b)
    BY DEF LevelFollows
  <1>3. b \in BOOLEAN /\ c \in BOOLEAN
    OBVIOUS
  <1>4. batch \in Seq(EventKinds) /\ batch # <<>> /\ batch' = Tail(batch)
    BY HandOutFacts DEF CallBuiltin
  <1> HIDE DEF b, c
  <1>5. WillBe(batch', InhibitKinds, InhibitKinds, c)
    BY <1>1, <1>2, <1>3, <1>4, TailWillBe
  <1> QED BY <1>5 DEF c

LEMMA WordCall ==
  ASSUME TypeOK, WordFollows, CallBuiltin
  PROVE  WordFollows'
  <1> DEFINE switching == sm.variant_switch_pending
             K == WordKinds(switching)
  <1> SUFFICES ASSUME watched = "browser"
               PROVE  /\ sm.phase = "Playing" => WillBe(batch', {"Started"}, K, shown' = "playing")
                      /\ sm.phase = "Paused" \/ switching =>
                           WillBe(batch', PausedKinds(switching), K, shown' = "paused")
                      /\ sm.phase = "Stopped" =>
                           WillBe(batch', TerminalKinds, K, shown' \in {"none", "ended"})
    BY HandOutFacts DEF WordFollows, CallBuiltin
  <1>1. batch \in Seq(EventKinds) /\ batch # <<>> /\ batch' = Tail(batch)
    BY HandOutFacts DEF CallBuiltin
  <1>2. shown' = BrowserAfter(shown, Head(batch), sm)
    BY DEF CallBuiltin
  <1>3. /\ Head(batch) = "Started" => shown' = "playing"
        /\ Head(batch) \in PausedKinds(switching) => shown' = "paused"
        /\ Head(batch) \in TerminalKinds => shown' = "ended"
        /\ Head(batch) \notin K => shown' = shown
    BY <1>2 DEF BrowserAfter, WordKinds, PausedKinds, TerminalKinds
  <1>4. ASSUME NEW R, NEW b \in BOOLEAN, NEW c \in BOOLEAN, WillBe(batch, R, K, b),
               Head(batch) \in R => c, shown' = shown /\ b => c
        PROVE  WillBe(batch', R, K, c)
    BY <1>1, <1>3, <1>4, TailWillBe
  <1>5. ASSUME sm.phase = "Playing" PROVE WillBe(batch', {"Started"}, K, shown' = "playing")
    <2>1. WillBe(batch, {"Started"}, K, shown = "playing")
      BY <1>5 DEF WordFollows
    <2> DEFINE b == shown = "playing"
               c == shown' = "playing"
    <2>2. b \in BOOLEAN /\ c \in BOOLEAN /\ (shown' = shown /\ b => c)
          /\ (Head(batch) \in {"Started"} => c)
      BY <1>3
    <2>3. WillBe(batch, {"Started"}, K, b)
      BY <2>1
    <2> HIDE DEF b, c
    <2>4. WillBe(batch', {"Started"}, K, c)
      BY <1>4, <2>2, <2>3
    <2> QED BY <2>4 DEF c
  <1>6. ASSUME sm.phase = "Paused" \/ switching
        PROVE  WillBe(batch', PausedKinds(switching), K, shown' = "paused")
    <2>1. WillBe(batch, PausedKinds(switching), K, shown = "paused")
      BY <1>6 DEF WordFollows
    <2> DEFINE b == shown = "paused"
               c == shown' = "paused"
    <2>2. b \in BOOLEAN /\ c \in BOOLEAN /\ (shown' = shown /\ b => c)
          /\ (Head(batch) \in PausedKinds(switching) => c)
      BY <1>3
    <2>3. WillBe(batch, PausedKinds(switching), K, b)
      BY <2>1
    <2> HIDE DEF b, c
    <2>4. WillBe(batch', PausedKinds(switching), K, c)
      BY <1>4, <2>2, <2>3
    <2> QED BY <2>4 DEF c
  <1>7. ASSUME sm.phase = "Stopped"
        PROVE  WillBe(batch', TerminalKinds, K, shown' \in {"none", "ended"})
    <2>1. WillBe(batch, TerminalKinds, K, shown \in {"none", "ended"})
      BY <1>7 DEF WordFollows
    <2> DEFINE b == shown \in {"none", "ended"}
               c == shown' \in {"none", "ended"}
    <2>2. b \in BOOLEAN /\ c \in BOOLEAN /\ (shown' = shown /\ b => c)
          /\ (Head(batch) \in TerminalKinds => c)
      BY <1>3
    <2>3. WillBe(batch, TerminalKinds, K, b)
      BY <2>1
    <2> HIDE DEF b, c
    <2>4. WillBe(batch', TerminalKinds, K, c)
      BY <1>4, <2>2, <2>3
    <2> QED BY <2>4 DEF c
  <1> QED BY <1>5, <1>6, <1>7

LEMMA ProjectType ==
  ASSUME NEW m \in MachineStates
  PROVE  Project(m) \in Projections
  BY DEF Project, Projections, Statuses, IsActive, MachineStates, Phases

LEMMA DesktopOffer ==
  ASSUME TypeOK, DesktopFollows, Offer
  PROVE  DesktopFollows'
  <1> DEFINE kind  == Head(batch)
             e     == [kind |-> kind, snap |-> Project(sm)]
             K     == About(Telling(watched))
             now   == shown = ShownAt(watched, sm)
             b     == DesktopQueued
             c     == missed' \/ WillBe(queue', RightEntries, K, now)
  <1> SUFFICES ASSUME watched \in Desktops, sm.phase # "Starting"
               PROVE  WillBe(batch', RightKinds, Telling(watched), c)
    <2>1. RightKinds' = RightKinds /\ RightEntries' = RightEntries /\ UNCHANGED <<sm, watched, shown>>
      BY HandOutFacts DEF Offer, RightKinds, RightEntries
    <2> QED BY <2>1 DEF DesktopFollows, DesktopQueued
  <1>1. /\ batch \in Seq(EventKinds) /\ batch # <<>> /\ batch' = Tail(batch)
        /\ kind \in EventKinds
    BY HandOutFacts DEF Offer
  <1>2. /\ queue \in Seq(Entries) /\ Len(queue) \in Nat /\ Len(queue) <= QueueCap
        /\ QueueCap \in Nat /\ missed \in BOOLEAN
    BY SinkConstants DEF TypeOK, Entries
  <1>3. /\ queue' = IF Len(queue) < QueueCap THEN Append(queue, e) ELSE queue
        /\ missed' = IF kind \in Telling(watched) THEN Len(queue) = QueueCap ELSE missed
    BY DEF Offer
  <1>4. e \in Entries /\ e.kind = kind /\ e.snap = Project(sm)
    BY <1>1, ProjectType DEF Entries, TypeOK
  <1>5. kind \in RightKinds => kind \in Telling(watched) /\ e \in RightEntries
    BY <1>4 DEF RightKinds, Telling, RightEntries, About, ShownAt, Desktops
  <1>6. kind \notin Telling(watched) => e \notin K
    BY <1>4 DEF About
  <1>7. now \in BOOLEAN /\ b \in BOOLEAN /\ c \in BOOLEAN
    BY <1>2, <1>3 DEF DesktopQueued
  <1>8. WillBe(batch, RightKinds, Telling(watched), b)
    BY DEF DesktopFollows
  <1>9. b = (missed \/ WillBe(queue, RightEntries, K, now))
    BY DEF DesktopQueued
  <1> HIDE DEF kind, e, K, now, b
  <1>10. ASSUME kind \in RightKinds PROVE c
    <2>1. CASE Len(queue) < QueueCap
      <3>1. WillBe(queue', RightEntries, K, now)
        BY <1>2, <1>3, <1>4, <1>5, <1>7, <1>10, <2>1, AppendWillBe
      <3> QED BY <3>1
    <2>2. CASE Len(queue) = QueueCap
      BY <1>3, <1>5, <1>10, <2>2
    <2> QED BY <1>2, <2>1, <2>2
  <1>11. ASSUME kind \notin Telling(watched), b PROVE c
    <2>1. CASE missed
      BY <1>3, <1>11, <2>1
    <2>2. CASE WillBe(queue, RightEntries, K, now)
      <3>1. CASE Len(queue) < QueueCap
        <4>1. WillBe(queue', RightEntries, K, now)
          BY <1>2, <1>3, <1>4, <1>6, <1>7, <1>11, <2>2, <3>1, AppendWillBe
        <4> QED BY <4>1
      <3>2. CASE ~(Len(queue) < QueueCap)
        BY <1>3, <2>2, <3>2
      <3> QED BY <3>1, <3>2
    <2> QED BY <1>9, <1>11, <2>1, <2>2
  <1> HIDE DEF c
  <1> QED BY <1>1, <1>7, <1>8, <1>10, <1>11, TailWillBe DEF kind

LEMMA DesktopDeliver ==
  ASSUME TypeOK, DesktopFollows, Deliver
  PROVE  DesktopFollows'
  <1> DEFINE e    == Head(queue)
             K    == About(Telling(watched))
             now  == shown = ShownAt(watched, sm)
             then == shown' = ShownAt(watched, sm)
             c    == missed \/ WillBe(queue', RightEntries, K, then)
  <1>1. /\ queue \in Seq(Entries) /\ queue # <<>> /\ queue' = Tail(queue) /\ e \in Entries
        /\ UNCHANGED <<sm, batch, missed, watched>> /\ shown' = Told(e)
    <2>1. queue \in Seq(Entries)
      BY DEF TypeOK, Entries
    <2> QED BY <2>1 DEF Deliver
  <1> SUFFICES ASSUME watched \in Desktops, sm.phase # "Starting"
               PROVE  WillBe(batch, RightKinds, Telling(watched), c)
    <2>1. RightKinds' = RightKinds /\ RightEntries' = RightEntries
      BY <1>1 DEF RightKinds, RightEntries
    <2> QED BY <1>1, <2>1 DEF DesktopFollows, DesktopQueued
  <1>2. /\ e \in RightEntries => then
        /\ e \notin K => e.kind \notin Telling(watched)
        /\ e.kind \notin Telling(watched) => shown' = shown
    BY <1>1 DEF RightEntries, About, Told
  <1>3. now \in BOOLEAN /\ then \in BOOLEAN /\ (shown' = shown /\ now => then)
    OBVIOUS
  <1>4. DesktopQueued = (missed \/ WillBe(queue, RightEntries, K, now))
    BY DEF DesktopQueued
  <1> HIDE DEF e, K, now, then
  <1>5. WillBe(queue, RightEntries, K, now) => WillBe(queue', RightEntries, K, then)
    BY <1>1, <1>2, <1>3, TailWillBe DEF e
  <1>6. c \in BOOLEAN /\ DesktopQueued \in BOOLEAN /\ (DesktopQueued => c)
    BY <1>4, <1>5 DEF TypeOK
  <1>7. WillBe(batch, RightKinds, Telling(watched), DesktopQueued)
    BY DEF DesktopFollows
  <1> HIDE DEF c
  <1> QED BY <1>6, <1>7, WillBeMonotone

-----------------------------------------------------------------------------
(* The presence worker.                                                    *)

LEMMA ViewType ==
  ASSUME NEW status \in Statuses, NEW titled \in BOOLEAN
  PROVE  View(status, titled) \in Views /\ NoView \in Views
         /\ Pushed(View(status, titled)) \in Statuses /\ Pushed(NoView) = "Stopped"
  BY DEF View, Views, NoView, Pushed, Statuses

LEMMA PushedType ==
  ASSUME NEW view \in Views
  PROVE  Pushed(view) \in Statuses
  BY DEF View, Views, Pushed, Statuses

LEMMA FoldedFaithful ==
  ASSUME NEW d, Faithful(d), NEW e \in Entries, NEW f \in Folded(d, e)
  PROVE  /\ Faithful(f)
         /\ e.kind \notin Projecting => f = d
         /\ e.kind \in Projecting => f.view = View(e.snap.status, f.titled)
  <1>1. CASE e.kind \notin Projecting
    BY <1>1 DEF Folded
  <1>2. CASE e.kind \in Projecting
    <2> DEFINE titled == d.titled \/ e.kind = "MetadataChanged"
               view   == View(e.snap.status, titled)
    <2>1. PICK other \in BOOLEAN :
            f = [d EXCEPT !.view = view, !.titled = titled,
                          !.pending = d.pending \/ view # d.view \/ other]
      BY <1>2 DEF Folded
    <2>2. e.snap.status \in Statuses /\ titled \in BOOLEAN
      BY DEF Entries, Projections, Faithful, PresenceStates
    <2>3. view \in Views
      BY <2>2, ViewType
    <2>4. view = View(e.snap.status, titled)
      OBVIOUS
    <2> HIDE DEF titled, view
    <2>5. /\ f \in PresenceStates /\ f.view = view /\ f.titled = titled /\ f.link = d.link
          /\ f.shows = d.shows /\ (~f.pending => ~d.pending /\ view = d.view)
      BY <2>1, <2>2, <2>3 DEF Faithful, PresenceStates
    <2> QED BY <1>2, <2>4, <2>5 DEF Faithful
  <1> QED BY <1>1, <1>2

LEMMA ServedFaithful ==
  ASSUME NEW d, Faithful(d), NEW f \in Served(d)
  PROVE  Faithful(f) /\ f.view = d.view /\ f.titled = d.titled
  <1> DEFINE up == Connected(d)
  <1>1. d.link = "down" => Faithful(up) /\ up.view = d.view /\ up.titled = d.titled
                           /\ up.link = "up"
    <2> SUFFICES ASSUME d.link = "down" PROVE Faithful(up) /\ up.view = d.view
                        /\ up.titled = d.titled /\ up.link = "up"
      OBVIOUS
    <2>1. /\ up \in PresenceStates /\ up.view = d.view /\ up.titled = d.titled
          /\ up.link = "up" /\ up.shows = d.shows /\ up.pending = (d.view # NoView)
      BY DEF Connected, Faithful, PresenceStates
    <2>2. Pushed(NoView) = "Stopped" /\ d.shows = "Stopped"
      BY DEF Faithful, NoView, Pushed, View
    <2> QED BY <2>1, <2>2 DEF Faithful
  <1> HIDE DEF up
  <1>2. PICK c \in {d, up} :
          /\ c = d \/ d.link = "down"
          /\ f = IF ~(c.pending /\ c.due) \/ c.link = "down" THEN c
                 ELSE IF c.link = "up"
                 THEN [c EXCEPT !.pending = FALSE, !.due = FALSE, !.shows = Pushed(c.view)]
                 ELSE [c EXCEPT !.link = "down"]
    BY DEF Served, up
  <1>3. Faithful(c) /\ c.view = d.view /\ c.titled = d.titled
    BY <1>1, <1>2
  <1>4. CASE f = c
    BY <1>3, <1>4
  <1>5. CASE f = [c EXCEPT !.pending = FALSE, !.due = FALSE, !.shows = Pushed(c.view)]
             /\ c.link = "up"
    <2>1. Pushed(c.view) \in Statuses
      BY <1>3, PushedType DEF Faithful, PresenceStates
    <2> QED BY <1>3, <1>5, <2>1 DEF Faithful, PresenceStates
  <1>6. CASE f = [c EXCEPT !.link = "down"] /\ c.link = "broken"
    BY <1>3, <1>6 DEF Faithful, PresenceStates
  <1>7. c.link \in {"down", "up", "broken"}
    BY <1>3 DEF Faithful, PresenceStates
  <1> QED BY <1>2, <1>4, <1>5, <1>6, <1>7

LEMMA PresenceForward ==
  ASSUME TypeOK, PresenceFollows, Forward
  PROVE  PresenceFollows'
  <1> DEFINE e   == [kind |-> Head(batch), snap |-> Project(sm)]
             R   == {x \in About(Projecting) : x.snap.status = sm.phase}
             K   == About(Projecting)
             now == shown.view = View(sm.phase, shown.titled)
             b   == WillBe(queue, R, K, now)
             c   == WillBe(queue', R, K, now)
  <1>1. /\ batch \in Seq(EventKinds) /\ batch # <<>> /\ batch' = Tail(batch)
        /\ UNCHANGED <<sm, watched, shown>> /\ Head(batch) \in EventKinds
        /\ watched = "discord" /\ queue' = Append(queue, e) /\ queue \in Seq(Entries)
    BY HandOutFacts DEF Forward, TypeOK, Entries
  <1> SUFFICES ASSUME sm.phase # "Starting" PROVE WillBe(batch', Projecting, Projecting, c)
    BY <1>1 DEF PresenceFollows, PresenceQueued
  <1>2. e \in Entries /\ e.kind = Head(batch) /\ e.snap.status = sm.phase
    <2>1. Project(sm).status = sm.phase
      BY DEF Project
    <2> QED BY <1>1, <2>1, ProjectType DEF Entries, TypeOK
  <1>3. /\ Head(batch) \in Projecting => e \in R
        /\ Head(batch) \notin Projecting => e \notin K
    BY <1>2 DEF About
  <1>4. now \in BOOLEAN /\ b \in BOOLEAN /\ c \in BOOLEAN
    BY DEF WillBe, LastIn, NoneIn
  <1>5. WillBe(batch, Projecting, Projecting, b)
    BY <1>1 DEF PresenceFollows, PresenceQueued
  <1> HIDE DEF e, R, K, now
  <1>6. (Head(batch) \in Projecting => c) /\ (Head(batch) \notin Projecting /\ b => c)
    BY <1>1, <1>2, <1>3, <1>4, AppendWillBe
  <1> HIDE DEF b, c
  <1> QED BY <1>1, <1>4, <1>5, <1>6, TailWillBe

LEMMA PresenceTurn ==
  ASSUME TypeOK, PresenceFollows, Turn
  PROVE  PresenceFollows'
  <1> DEFINE R    == {x \in About(Projecting) : x.snap.status = sm.phase}
             K    == About(Projecting)
             now  == shown.view = View(sm.phase, shown.titled)
             then == shown'.view = View(sm.phase, shown'.titled)
             b    == WillBe(queue, R, K, now)
             c    == WillBe(queue', R, K, then)
  <1>1. /\ UNCHANGED <<sm, batch, watched>> /\ watched = "discord" /\ queue \in Seq(Entries)
        /\ Faithful(shown)
    BY DEF Turn, TypeOK, Entries, PresenceFollows
  <1>2. now \in BOOLEAN /\ then \in BOOLEAN /\ b \in BOOLEAN /\ c \in BOOLEAN
    BY DEF WillBe, LastIn, NoneIn
  <1>3. Faithful(shown') /\ (b => c)
    <2>1. CASE UNCHANGED queue /\ shown' \in Served(shown)
      <3>1. Faithful(shown') /\ shown'.view = shown.view /\ shown'.titled = shown.titled
        BY <1>1, <2>1, ServedFaithful
      <3>2. now = then /\ queue' = queue
        BY <2>1, <3>1
      <3> HIDE DEF now, then, R, K
      <3> QED BY <3>1, <3>2
    <2>2. CASE /\ queue # <<>> /\ queue' = Tail(queue)
               /\ \E d \in Folded(shown, Head(queue)) : shown' \in Served(d)
      <3> DEFINE e == Head(queue)
      <3>1. PICK d \in Folded(shown, e) : shown' \in Served(d)
        BY <2>2
      <3>2. e \in Entries
        BY <1>1, <2>2
      <3>3. /\ Faithful(d) /\ (e.kind \notin Projecting => d = shown)
            /\ (e.kind \in Projecting => d.view = View(e.snap.status, d.titled))
        BY <1>1, <3>1, <3>2, FoldedFaithful
      <3>4. Faithful(shown') /\ shown'.view = d.view /\ shown'.titled = d.titled
        BY <3>1, <3>3, ServedFaithful
      <3>5. (e \in R => then) /\ (e \notin K /\ now => then)
        BY <3>2, <3>3, <3>4 DEF About
      <3> HIDE DEF now, then, R, K
      <3>6. b => c
        BY <1>1, <1>2, <2>2, <3>5, TailWillBe
      <3> QED BY <3>4, <3>6
    <2> QED BY <2>1, <2>2 DEF Turn
  <1>4. sm.phase # "Starting" => WillBe(batch, Projecting, Projecting, b)
    BY <1>1 DEF PresenceFollows, PresenceQueued
  <1>5. sm.phase # "Starting" => WillBe(batch, Projecting, Projecting, c)
    <2> HIDE DEF b, c
    <2> QED BY <1>2, <1>3, <1>4, WillBeMonotone
  <1> QED BY <1>1, <1>3, <1>5 DEF PresenceFollows, PresenceQueued

LEMMA PresenceLink ==
  ASSUME TypeOK, PresenceFollows, IntervalEnds \/ DiscordQuits
  PROVE  PresenceFollows'
  <1>1. /\ UNCHANGED <<sm, batch, queue, watched>> /\ watched = "discord" /\ Faithful(shown)
    BY DEF IntervalEnds, DiscordQuits, PresenceFollows
  <1>2. Faithful(shown') /\ shown'.view = shown.view /\ shown'.titled = shown.titled
    BY <1>1 DEF IntervalEnds, DiscordQuits, Faithful, PresenceStates, Statuses
  <1>3. PresenceQueued' = PresenceQueued
    BY <1>1, <1>2 DEF PresenceQueued
  <1> QED BY <1>1, <1>2, <1>3 DEF PresenceFollows

-----------------------------------------------------------------------------
(* Types.                                                                  *)

(* What the sink watched may show. *)
Showable ==
  CASE watched = "inhibit" -> {"None", "System", "Display"}
    [] watched = "browser" -> {"none", "playing", "paused", "ended"}
    [] watched = "mpris"   -> Projections
    [] watched = "discord" -> PresenceStates
    [] OTHER               -> Statuses

LEMMA FreshType == Fresh \in MachineStates
  BY PlaybackConstants DEF Fresh, MachineStates, Presences, Phases, MediaTypes

LEMMA UnconnectedFaithful == Faithful(Unconnected) /\ Unconnected.view = NoView
                             /\ ~Unconnected.titled
  <1>1. NoView \in Views
    <2>1. "Stopped" \in Statuses
      BY DEF Statuses
    <2> QED BY <2>1, ViewType
  <1> QED BY <1>1 DEF Unconnected, Faithful, PresenceStates, Statuses

LEMMA TypeInit == Init => TypeOK
  <1> SUFFICES ASSUME Init PROVE TypeOK
    OBVIOUS
  <1>1. watched \in Sinks /\ size = 0 /\ size \in 0 .. MaxBatch[watched]
    BY SinkConstants DEF Init
  <1>2. shown \in Showable
    <2>1. CASE watched \in {"inhibit", "browser"}
      BY <2>1 DEF Init, Showable
    <2>2. CASE watched = "discord"
      BY <2>2, UnconnectedFaithful DEF Init, Showable, Faithful
    <2>3. CASE watched = "mpris"
      <3>1. shown = Project(Fresh)
        BY <2>3 DEF Init, ShownAt
      <3> QED BY <2>3, <3>1, ProjectType, FreshType DEF Showable
    <2>4. CASE watched = "native"
      BY <2>4 DEF Init, Showable, ShownAt, Fresh, Statuses
    <2> QED BY <1>1, <2>1, <2>2, <2>3, <2>4 DEF Sinks, Builtins, Desktops
  <1>3. /\ sm \in MachineStates /\ missed \in BOOLEAN
        /\ batch \in Seq(EventKinds) /\ batch = <<>> /\ dispatching = FALSE
        /\ queue \in Seq([kind : EventKinds, snap : Projections]) /\ queue = <<>>
    <2>1. sm = Fresh /\ batch = <<>> /\ queue = <<>> /\ missed = FALSE /\ dispatching = FALSE
      BY DEF Init
    <2>2. missed \in BOOLEAN /\ sm \in MachineStates
      BY <2>1, FreshType, Zenon
    <2>3. <<>> \in Seq(EventKinds) /\ <<>> \in Seq([kind : EventKinds, snap : Projections])
      OBVIOUS
    <2> QED BY <2>1, <2>2, <2>3, Zenon
  <1>4. Len(queue) <= QueueCap
    BY <1>3, SinkConstants
  <1> QED BY <1>1, <1>2, <1>3, <1>4 DEF TypeOK, Showable

(* The part of the types that each kind of step has to show. *)
LEMMA TypeSteps ==
  ASSUME TypeOK, UNCHANGED watched, sm' \in MachineStates,
         size' \in 0 .. MaxBatch[watched], batch' \in Seq(EventKinds),
         dispatching' = (size' = 0 /\ batch' # <<>>),
         queue' \in Seq(Entries), Len(queue') <= QueueCap, missed' \in BOOLEAN,
         shown' \in Showable
  PROVE  TypeOK'
  BY DEF TypeOK, Showable, Entries

LEMMA TypeNow ==
  ASSUME TypeOK
  PROVE  /\ sm \in MachineStates /\ size \in 0 .. MaxBatch[watched] /\ batch \in Seq(EventKinds)
         /\ dispatching = (size = 0 /\ batch # <<>>)
         /\ queue \in Seq(Entries) /\ Len(queue) <= QueueCap /\ Len(queue) \in Nat
         /\ missed \in BOOLEAN /\ shown \in Showable /\ watched \in Sinks
         /\ QueueCap \in Nat /\ QueueCap > 0
         /\ MaxBatch[watched] \in Nat
  BY SinkConstants DEF TypeOK, Showable, Entries

LEMMA InputType ==
  ASSUME TypeOK, NEW input \in Inputs[watched], ApplyInput(input)
  PROVE  TypeOK'
  <1>1. PICK ks \in Seq(EventKinds) : batch' = batch \o ks
    BY InputAdds
  <1>2. batch' \in Seq(EventKinds)
    BY <1>1, TypeNow
  <1>3. size \in Nat /\ size' = size + 1 /\ size' \in 0 .. MaxBatch[watched] /\ size' # 0
    BY TypeNow DEF ApplyInput
  <1>4. dispatching' = (size' = 0 /\ batch' # <<>>)
    <2>1. ~dispatching /\ dispatching' = dispatching /\ dispatching \in BOOLEAN
      BY TypeNow DEF ApplyInput
    <2> QED BY <1>3, <2>1
  <1> QED BY <1>2, <1>3, <1>4, InputAdds, TypeNow, TypeSteps DEF ApplyInput

LEMMA DispatchType ==
  ASSUME TypeOK, Dispatch
  PROVE  TypeOK'
  <1>1. dispatching' = (size' = 0 /\ batch' # <<>>) /\ size' \in 0 .. MaxBatch[watched]
    BY TypeNow DEF Dispatch
  <1> QED BY <1>1, TypeNow, TypeSteps DEF Dispatch

LEMMA CallType ==
  ASSUME TypeOK, CallBuiltin
  PROVE  TypeOK'
  <1>1. shown' \in Showable
    <2>1. CASE watched = "inhibit"
      BY <2>1, TypeNow DEF CallBuiltin, InhibitAfter, InhibitLevel, Showable
    <2>2. CASE watched = "browser"
      BY <2>2, TypeNow DEF CallBuiltin, BrowserAfter, Showable
    <2> QED BY <2>1, <2>2 DEF CallBuiltin, Builtins
  <1> QED BY <1>1, HandOutFacts, TypeNow, TypeSteps DEF CallBuiltin

LEMMA OfferType ==
  ASSUME TypeOK, Offer \/ Forward
  PROVE  TypeOK'
  <1> DEFINE e == [kind |-> Head(batch), snap |-> Project(sm)]
  <1>1. /\ batch' \in Seq(EventKinds) /\ UNCHANGED <<sm, size, watched, shown>>
        /\ dispatching' = (size' = 0 /\ batch' # <<>>) /\ Head(batch) \in EventKinds
    BY HandOutFacts DEF Offer, Forward
  <1>2. e \in Entries
    BY <1>1, ProjectType, TypeNow DEF Entries
  <1>3. /\ queue' = queue \/ (Len(queue) < QueueCap /\ queue' = Append(queue, e))
        /\ missed' \in BOOLEAN
    BY TypeNow DEF Offer, Forward
  <1> HIDE DEF e
  <1>4. queue' \in Seq(Entries) /\ Len(queue') <= QueueCap
    <2>1. CASE queue' = queue
      BY <2>1, TypeNow
    <2>2. CASE Len(queue) < QueueCap /\ queue' = Append(queue, e)
      BY <1>2, <2>2, TypeNow
    <2> QED BY <1>3, <2>1, <2>2
  <1> QED BY <1>1, <1>3, <1>4, TypeNow, TypeSteps

LEMMA ConsumeType ==
  ASSUME TypeOK, PresenceFollows, Deliver \/ Turn \/ IntervalEnds \/ DiscordQuits
  PROVE  TypeOK'
  <1>1. /\ UNCHANGED <<sm, size, batch, dispatching, missed, watched>>
        /\ queue' = queue \/ (queue # <<>> /\ queue' = Tail(queue))
    BY DEF Deliver, Turn, IntervalEnds, DiscordQuits
  <1>2. queue' \in Seq(Entries) /\ Len(queue') <= QueueCap
    <2>1. CASE queue' = queue
      BY <2>1, TypeNow
    <2>2. CASE queue # <<>> /\ queue' = Tail(queue)
      <3>1. queue' \in Seq(Entries) /\ Len(queue') = Len(queue) - 1
        BY <2>2, TypeNow
      <3> QED BY <3>1, TypeNow
    <2> QED BY <1>1, <2>1, <2>2
  <1>3. shown' \in Showable
    <2>1. CASE Deliver
      <3>1. Head(queue) \in Entries
        BY <2>1, TypeNow DEF Deliver
      <3>2. /\ shown' = Told(Head(queue)) /\ Head(queue).snap \in Projections
            /\ watched \in {"mpris", "native"}
        BY <2>1, <3>1 DEF Deliver, Entries, Desktops
      <3> QED BY <3>2, TypeNow DEF Told, MapKindToPhase, Showable, Statuses
    <2>2. CASE Turn
      <3>1. watched = "discord" /\ Faithful(shown')
        BY <2>2, PresenceTurn DEF Turn, PresenceFollows
      <3> QED BY <3>1 DEF Showable, Faithful
    <2>3. CASE IntervalEnds \/ DiscordQuits
      <3>1. watched = "discord" /\ Faithful(shown')
        BY <2>3, PresenceLink DEF IntervalEnds, DiscordQuits, PresenceFollows
      <3> QED BY <3>1 DEF Showable, Faithful
    <2> QED BY <2>1, <2>2, <2>3
  <1> QED BY <1>1, <1>2, <1>3, TypeNow, TypeSteps

-----------------------------------------------------------------------------

LEMMA InitIInv == Init => IInv
  <1> SUFFICES ASSUME Init PROVE IInv
    OBVIOUS
  <1>1. TypeOK
    BY TypeInit
  <1>2. sm = Fresh /\ batch = <<>> /\ queue = <<>> /\ watched \in Sinks
    BY DEF Init
  <1>3. sm.phase = "Stopped" /\ ~sm.variant_switch_pending
    BY <1>2 DEF Fresh
  <1>4. \A R, K : \A b \in BOOLEAN : WillBe(<<>>, R, K, b) <=> b
    BY EmptyWillBe
  <1>5. LevelFollows
    <2> SUFFICES ASSUME watched = "inhibit"
                 PROVE  WillBe(batch, InhibitKinds, InhibitKinds, shown = InhibitLevel(sm))
      BY DEF LevelFollows
    <2>1. shown = InhibitLevel(sm)
      <3>1. shown = "None"
        BY DEF Init
      <3>2. InhibitLevel(sm) = "None"
        BY <1>3 DEF InhibitLevel
      <3> QED BY <3>1, <3>2, Zenon
    <2> QED BY <1>2, <2>1, EmptyWillBe
  <1>6. WordFollows
    <2> SUFFICES ASSUME watched = "browser"
                 PROVE  WillBe(batch, TerminalKinds, WordKinds(sm.variant_switch_pending),
                               shown \in {"none", "ended"})
      BY <1>3 DEF WordFollows
    <2>1. shown \in {"none", "ended"}
      BY DEF Init
    <2> QED BY <1>2, <2>1 DEF WillBe, LastIn, NoneIn
  <1>7. DesktopFollows
    <2> SUFFICES ASSUME watched \in Desktops
                 PROVE  WillBe(batch, RightKinds, Telling(watched), DesktopQueued)
      BY DEF DesktopFollows
    <2>1. shown = ShownAt(watched, sm)
      BY <1>2 DEF Init, Desktops
    <2>2. DesktopQueued
      BY <1>2, <2>1 DEF DesktopQueued, WillBe, LastIn, NoneIn
    <2> QED BY <1>2, <2>2 DEF WillBe, LastIn, NoneIn
  <1>8. PresenceFollows
    <2> SUFFICES ASSUME watched = "discord"
                 PROVE  Faithful(shown) /\ WillBe(batch, Projecting, Projecting, PresenceQueued)
      BY DEF PresenceFollows
    <2>1. shown = Unconnected
      BY DEF Init
    <2>2. Faithful(shown) /\ shown.view = View(sm.phase, shown.titled)
      BY <1>3, <2>1, UnconnectedFaithful DEF NoView, View
    <2>3. PresenceQueued
      BY <1>2, <2>2 DEF PresenceQueued, WillBe, LastIn, NoneIn
    <2> QED BY <1>2, <2>2, <2>3 DEF WillBe, LastIn, NoneIn
  <1> QED BY <1>1, <1>5, <1>6, <1>7, <1>8 DEF IInv

(* A step that leaves the machine, the batch and the sink alone. *)
LEMMA Idle ==
  ASSUME UNCHANGED <<sm, batch, queue, missed, watched, shown>>
  PROVE  /\ LevelFollows => LevelFollows'
         /\ WordFollows => WordFollows'
         /\ DesktopFollows => DesktopFollows'
         /\ PresenceFollows => PresenceFollows'
  BY DEF LevelFollows, WordFollows, DesktopFollows, DesktopQueued, RightKinds, RightEntries,
         PresenceFollows, PresenceQueued

(* Each kind of sink has its invariant, and the others' are not about it.  *)
LEMMA Others ==
  /\ watched' # "inhibit" => LevelFollows'
  /\ watched' # "browser" => WordFollows'
  /\ watched' \notin Desktops => DesktopFollows'
  /\ watched' # "discord" => PresenceFollows'
  BY DEF LevelFollows, WordFollows, DesktopFollows, PresenceFollows

LEMMA NextIInv == IInv /\ [Next]_vars => IInv'
  <1> SUFFICES ASSUME IInv, [Next]_vars PROVE IInv'
    OBVIOUS
  <1> USE DEF IInv
  <1>1. ASSUME NEW input \in Inputs[watched], ApplyInput(input) PROVE IInv'
    BY <1>1, InputType, LevelInput, WordInput, DesktopInput, PresenceInput
  <1>2. CASE Dispatch
    <2>1. UNCHANGED <<sm, batch, queue, missed, watched, shown>>
      BY <1>2 DEF Dispatch
    <2> QED BY <1>2, <2>1, DispatchType, Idle
  <1>3. CASE CallBuiltin
    <2>1. watched' = watched /\ watched \in Builtins
      BY <1>3 DEF CallBuiltin, HandOut
    <2>2. watched' \notin Desktops /\ watched' # "discord"
      BY <2>1 DEF Builtins, Desktops
    <2> QED BY <1>3, <2>2, CallType, LevelCall, WordCall, Others
  <1>4. CASE Offer
    <2>1. watched' = watched /\ watched \in Desktops
      BY <1>4 DEF Offer, HandOut
    <2>2. watched' \notin {"inhibit", "browser", "discord"}
      BY <2>1 DEF Desktops
    <2> QED BY <1>4, <2>2, OfferType, DesktopOffer, Others
  <1>5. CASE Deliver
    <2>1. watched' = watched /\ watched \in Desktops
      BY <1>5 DEF Deliver
    <2>2. watched' \notin {"inhibit", "browser", "discord"}
      BY <2>1 DEF Desktops
    <2> QED BY <1>5, <2>2, ConsumeType, DesktopDeliver, Others
  <1>6. CASE Forward
    <2>1. watched' = "discord"
      BY <1>6 DEF Forward, HandOut
    <2>2. watched' \notin Desktops
      BY <2>1 DEF Desktops
    <2> QED BY <1>6, <2>1, <2>2, OfferType, PresenceForward, Others
  <1>7. CASE Turn \/ IntervalEnds \/ DiscordQuits
    <2>1. watched' = "discord"
      BY <1>7 DEF Turn, IntervalEnds, DiscordQuits
    <2>2. watched' \notin Desktops
      BY <2>1 DEF Desktops
    <2>3. PresenceFollows'
      BY <1>7, PresenceTurn, PresenceLink
    <2> QED BY <1>7, <2>1, <2>2, <2>3, ConsumeType, Others
  <1>8. CASE UNCHANGED vars
    <2>1. UNCHANGED <<sm, batch, queue, missed, watched, shown>> /\ UNCHANGED <<size, dispatching>>
      BY <1>8 DEF vars
    <2>2. TypeOK'
      BY <2>1, TypeNow, TypeSteps
    <2> QED BY <2>1, <2>2, Idle
  <1> QED BY <1>1, <1>2, <1>3, <1>4, <1>5, <1>6, <1>7, <1>8 DEF Next

(* Every state of every behaviour satisfies the inductive invariant: the    *)
(* last event on its way to a sink tells it what the player does.           *)
THEOREM Inductive == Spec => []IInv
  BY InitIInv, NextIInv, PTL DEF Spec

(* Once the batch is out, the inhibition level is that of the snapshot.     *)
LEMMA Settled ==
  ASSUME TypeOK, BetweenBatches, NEW R, NEW K, NEW b \in BOOLEAN, WillBe(batch, R, K, b)
  PROVE  b
  <1>1. batch = <<>>
    <2>1. size = 0 /\ ~dispatching /\ dispatching = (size = 0 /\ batch # <<>>)
      BY TypeNow DEF BetweenBatches
    <2> QED BY <2>1
  <1> QED BY <1>1, EmptyWillBe

THEOREM InhibitFollows == Spec => []InhibitFollowsPlayback
  <1>1. IInv => InhibitFollowsPlayback
    <2> SUFFICES ASSUME IInv, watched = "inhibit", BetweenBatches, sm.phase # "Starting"
                 PROVE  shown = InhibitLevel(sm)
      BY DEF InhibitFollowsPlayback
    <2> DEFINE b == shown = InhibitLevel(sm)
    <2>1. WillBe(batch, InhibitKinds, InhibitKinds, b) /\ b \in BOOLEAN
      BY DEF IInv, LevelFollows
    <2> HIDE DEF b
    <2>2. b
      BY <2>1, Settled DEF IInv
    <2> QED BY <2>2 DEF b
  <1> QED BY <1>1, Inductive, PTL

(* Once the batch is out, the page's indicator shows the player, and a     *)
(* variant switch as a pause.                                              *)
THEOREM BrowserFollows == Spec => []BrowserFollowsPlayback
  <1>1. IInv => BrowserFollowsPlayback
    <2> SUFFICES ASSUME IInv, watched = "browser", BetweenBatches
                 PROVE  /\ sm.phase = "Playing" => shown = "playing"
                        /\ sm.phase = "Paused" => shown = "paused"
                        /\ sm.phase = "Stopped" => shown \in {"none", "ended"}
                        /\ sm.variant_switch_pending => shown = "paused"
      BY DEF BrowserFollowsPlayback
    <2>1. ASSUME sm.phase = "Playing" PROVE shown = "playing"
      <3> DEFINE b == shown = "playing"
      <3>1. WillBe(batch, {"Started"}, WordKinds(sm.variant_switch_pending), b) /\ b \in BOOLEAN
        BY <2>1 DEF IInv, WordFollows
      <3> HIDE DEF b
      <3>2. b
        BY <3>1, Settled DEF IInv
      <3> QED BY <3>2 DEF b
    <2>2. ASSUME sm.phase = "Paused" \/ sm.variant_switch_pending PROVE shown = "paused"
      <3> DEFINE b == shown = "paused"
      <3>1. /\ WillBe(batch, PausedKinds(sm.variant_switch_pending),
                      WordKinds(sm.variant_switch_pending), b)
            /\ b \in BOOLEAN
        BY <2>2 DEF IInv, WordFollows
      <3> HIDE DEF b
      <3>2. b
        BY <3>1, Settled DEF IInv
      <3> QED BY <3>2 DEF b
    <2>3. ASSUME sm.phase = "Stopped" PROVE shown \in {"none", "ended"}
      <3> DEFINE b == shown \in {"none", "ended"}
      <3>1. WillBe(batch, TerminalKinds, WordKinds(sm.variant_switch_pending), b) /\ b \in BOOLEAN
        BY <2>3 DEF IInv, WordFollows
      <3> HIDE DEF b
      <3>2. b
        BY <3>1, Settled DEF IInv
      <3> QED BY <3>2 DEF b
    <2> QED BY <2>1, <2>2, <2>3
  <1> QED BY <1>1, Inductive, PTL

(* With nothing left to hand out or to deliver and the last event that      *)
(* concerns it not lost, the desktop shows the player, whatever the queue   *)
(* dropped before.                                                          *)
THEOREM DesktopShows == Spec => []DesktopShowsPlayer
  <1>1. IInv => DesktopShowsPlayer
    <2> SUFFICES ASSUME IInv, watched \in Desktops, BetweenBatches, queue = <<>>,
                        sm.phase # "Starting", ~missed
                 PROVE  shown = ShownAt(watched, sm)
      BY DEF DesktopShowsPlayer
    <2> DEFINE b == shown = ShownAt(watched, sm)
    <2>1. WillBe(batch, RightKinds, Telling(watched), DesktopQueued) /\ DesktopQueued \in BOOLEAN
      BY TypeNow DEF IInv, DesktopFollows, DesktopQueued
    <2>2. DesktopQueued
      BY <2>1, Settled DEF IInv
    <2>3. WillBe(<<>>, RightEntries, About(Telling(watched)), b) /\ b \in BOOLEAN
      BY <2>2 DEF DesktopQueued
    <2> HIDE DEF b
    <2>4. b
      BY <2>3, EmptyWillBe
    <2> QED BY <2>4 DEF b
  <1> QED BY <1>1, Inductive, PTL

(* With nothing left to fold or to push, a connected Discord shows the      *)
(* player, whatever was paced, lost or made anew before.                    *)
THEOREM PresenceShows == Spec => []PresenceShowsPlayer
  <1>1. IInv => PresenceShowsPlayer
    <2> SUFFICES ASSUME IInv, watched = "discord", BetweenBatches, queue = <<>>,
                        sm.phase # "Starting", shown.link = "up", ~shown.pending
                 PROVE  shown.shows = Pushed(View(sm.phase, shown.titled))
      BY DEF PresenceShowsPlayer
    <2> DEFINE b == shown.view = View(sm.phase, shown.titled)
    <2>1. WillBe(batch, Projecting, Projecting, PresenceQueued) /\ PresenceQueued \in BOOLEAN
      BY DEF IInv, PresenceFollows, PresenceQueued, WillBe, LastIn, NoneIn
    <2>2. PresenceQueued
      BY <2>1, Settled DEF IInv
    <2>3. WillBe(<<>>, {e \in About(Projecting) : e.snap.status = sm.phase},
                 About(Projecting), b) /\ b \in BOOLEAN
      BY <2>2 DEF PresenceQueued
    <2> HIDE DEF b
    <2>4. b
      BY <2>3, EmptyWillBe
    <2>5. shown.shows = Pushed(shown.view)
      BY DEF IInv, PresenceFollows, Faithful
    <2> QED BY <2>4, <2>5 DEF b
  <1> QED BY <1>1, Inductive, PTL

=============================================================================
