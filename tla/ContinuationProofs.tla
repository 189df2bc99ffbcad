-------------------------- MODULE ContinuationProofs --------------------------
(***************************************************************************)
(* Theorems about Continuation, for every set of sources, targets and      *)
(* views, every lease, limit and bound.                                    *)
(*                                                                         *)
(* The inductive invariant is built in layers, each with the layers below  *)
(* it as hypotheses: the types; the flow of wakes through their states;    *)
(* the books that relate wakes and receipts; the messages handed out; and  *)
(* what consumes have returned.  On top of them, the protocol is shown to  *)
(* implement OutcomeDelivery.                                              *)
(***************************************************************************)
EXTENDS Continuation, FiniteSetTheorems, TLAPS

--------------------------------------------------------------------------------
\* What the expiry pass and a save do to the wakes and the receipts.

\* A wake stays as it is, or lapses along one of the three edges.
Lapse(x, y) ==
  \/ y = x
  \/ x = "claimed" /\ y = "pending"
  \/ x \in {"prepared", "dispatch_accepted"} /\ y = "delivery_unknown"
  \/ x = "consumed" /\ y = "needs_attention"

\* The expiry pass moves wakes along Lapse only (expireContinuation).
LEMMA SeenFacts ==
  ASSUME TypeOK
  PROVE  /\ Seen \in [Wakes -> WakeStates]
         /\ \A w \in Wakes : Lapse(state[w], Seen[w])
<1>1. ASSUME NEW w \in Wakes
      PROVE  SeenState(w) \in WakeStates /\ Lapse(state[w], SeenState(w))
  BY <1>1 DEF TypeOK, SeenState, Lapse, DispatchLapsed, WorkLapsed, WakeStates,
              BlockedStates, DeliveryStatuses
<1> QED  BY <1>1 DEF Seen

Control == [enabled : BOOLEAN, phase : Phases, rounds : Nat, maxRounds : Nat,
            failures : Nat, maxFailures : Nat, awaited : SUBSET Source]

\* Charging a failure keeps the control record a control record and the awaited
\* sources as they are (failContinuation and what its callers do next).
LEMMA FailFacts ==
  ASSUME NEW c \in Control
  PROVE  /\ Attention(Fail(c)) \in Control
         /\ Attention(Fail(c)).awaited = c.awaited
<1>1. Fail(c) \in Control /\ Fail(c).awaited = c.awaited
  <2> DEFINE open == c.failures + 1 >= c.maxFailures
             on   == c.enabled /\ ~open
             ph   == IF open THEN "circuit_open" ELSE c.phase
  <2>1. on \in BOOLEAN
    OBVIOUS
  <2>2. ph \in Phases /\ c.failures + 1 \in Nat
    BY DEF Control, Phases
  <2>3. Fail(c) = [c EXCEPT !.failures = c.failures + 1, !.enabled = on, !.phase = ph]
    BY DEF Fail
  <2> HIDE DEF on, ph
  <2> QED  BY <2>1, <2>2, <2>3 DEF Control
<1> QED  BY <1>1 DEF Attention, Control, Phases

\* The expiry pass leaves the awaited sources alone.
LEMMA SeenCtlFacts ==
  ASSUME TypeOK
  PROVE  SeenCtl \in Control /\ SeenCtl.awaited = ctl.awaited
<1>1. ctl \in Control
  BY DEF TypeOK, Control
<1>2. [ctl EXCEPT !.phase = "needs_attention"] \in Control
  BY <1>1 DEF Control, Phases
<1> QED  BY <1>1, <1>2, FailFacts DEF SeenCtl, Control

\* Saving prunes settled wakes, and strips the receipts of every settled one
\* (compactContinuation).
LEMMA SaveFacts ==
  ASSUME NEW st \in [Wakes -> WakeStates], NEW hd \in [Wakes -> SUBSET Source],
         NEW rc \in [Source -> Receipts], Save(st, hd, rc)
  PROVE  /\ state' \in [Wakes -> WakeStates]
         /\ held' = hd
         /\ receipt' \in [Source -> Receipts]
         /\ \A w \in Wakes : state'[w] = st[w] \/ (st[w] = "settled" /\ state'[w] = "gone")
         /\ \A s \in Source : \/ receipt'[s] = rc[s]
                              \/ rc[s] = "stored" /\ receipt'[s] = "settled"
         /\ \A s \in Source : rc[s] = "stored" =>
              (receipt'[s] = "settled" <=> \E w \in Wakes : st[w] = "settled" /\ s \in hd[w])
<1>1. /\ state' = [w \in Wakes |-> IF Prunable(st, w) THEN "gone" ELSE st[w]]
      /\ held' = hd /\ receipt' = Compacted(st, hd, rc)
  BY DEF Save
<1>2. \A w \in Wakes : Prunable(st, w) => st[w] = "settled"
  BY DEF Prunable
<1>3. /\ state' \in [Wakes -> WakeStates]
      /\ \A w \in Wakes : state'[w] = st[w] \/ (st[w] = "settled" /\ state'[w] = "gone")
  BY <1>1, <1>2 DEF WakeStates
<1>4. /\ receipt' \in [Source -> Receipts]
      /\ \A s \in Source : \/ receipt'[s] = rc[s]
                           \/ rc[s] = "stored" /\ receipt'[s] = "settled"
  BY <1>1 DEF Compacted, Receipts
<1>5. \A s \in Source : rc[s] = "stored" =>
        (receipt'[s] = "settled" <=> \E w \in Wakes : st[w] = "settled" /\ s \in hd[w])
  BY <1>1 DEF Compacted
<1>6. held' = hd
  BY <1>1
<1> QED  BY <1>3, <1>4, <1>5, <1>6
\* Where a placement puts the sources it places (mergeContinuationOutcome).
LEMMA PlacementFacts ==
  ASSUME TypeOK, NEW U \in SUBSET Source, NEW p \in [U -> Wakes]
  PROVE  /\ StateAfter(p) \in [Wakes -> WakeStates]
         /\ HeldAfter(p) \in [Wakes -> SUBSET Source]
         /\ StampAfter(p) \in [Wakes -> Nat]
<1>1. StateAfter(p) \in [Wakes -> WakeStates]
  BY SeenFacts DEF StateAfter, WakeStates
<1>2. HeldAfter(p) \in [Wakes -> SUBSET Source]
  BY DEF HeldAfter, TypeOK
<1>3. StampAfter(p) \in [Wakes -> Nat]
  BY DEF StampAfter, TypeOK
<1> QED  BY <1>1, <1>2, <1>3

\* How many outcomes have arrived is a number, since there are finitely many sources.
LEMMA ArrivalsType == Arrivals \in Nat
<1>1. IsFiniteSet({s \in Source : rank[s] > 0})
  BY FS_Subset, ConstantsOK DEF ConstantsOK
<1> QED  BY <1>1, FS_CardinalityType DEF Arrivals

--------------------------------------------------------------------------------
\* Types.

Endpoint == [gen : Nat, holder : View \cup {NoView}, lease : Nat, consent : BOOLEAN]

\* An action that saves the wakes st, with the other variables well-typed, keeps the
\* types; most actions leave most of them alone.
LEMMA SaveTypes ==
  ASSUME TypeOK, NEW st \in [Wakes -> WakeStates], NEW hd \in [Wakes -> SUBSET Source],
         Save(st, hd, receipt)
  PROVE  /\ state' \in [Wakes -> WakeStates]
         /\ held' \in [Wakes -> SUBSET Source]
         /\ receipt' \in [Source -> Receipts]
<1>1. receipt \in [Source -> Receipts]
  BY DEF TypeOK
<1> QED  BY <1>1, SaveFacts

\* A call that changes the control record only keeps the types.
LEMMA ControlOnlyTypes ==
  ASSUME TypeOK, NEW c \in Control, ControlOnly(c)
  PROVE  TypeOK'
<1>1. Save(Seen, held, receipt) /\ ctl' = c
      /\ UNCHANGED <<ep, stamp, att, rank, usable, stale, mail, returned>>
  BY DEF ControlOnly
<1>2. held \in [Wakes -> SUBSET Source]
  BY DEF TypeOK
<1>3. /\ state' \in [Wakes -> WakeStates]
      /\ held' \in [Wakes -> SUBSET Source]
      /\ receipt' \in [Source -> Receipts]
  BY <1>1, <1>2, SaveTypes, SeenFacts
<1> QED  BY <1>1, <1>3 DEF TypeOK, Control

\* The types hold of a WorkSession without a continuation document.
LEMMA InitTypes == Init => TypeOK
<1> SUFFICES ASSUME Init PROVE TypeOK
  OBVIOUS
<1>1. ctl \in Control
  BY ConstantsOK DEF Init, ConstantsOK, Control, Phases
<1>2. ep \in Endpoint
  BY DEF Init, Endpoint
<1>3. NoAttempt \in Attempt
  BY DEF NoAttempt, Attempt
<1>4. /\ state \in [Wakes -> WakeStates] /\ receipt \in [Source -> Receipts]
      /\ att \in [Wakes -> Attempt]
  BY <1>3 DEF Init, WakeStates, Receipts
<1> QED  BY <1>1, <1>2, <1>4 DEF Init, TypeOK, Control, Endpoint
\* Every call of the owner keeps the types (ControlContinuation, PresentContinuation).
LEMMA OwnerTypes ==
  ASSUME TypeOK, Owner
  PROVE  TypeOK'
<1> USE SeenCtlFacts, SeenFacts
<1>1. CASE Poll
  BY <1>1, ControlOnlyTypes DEF Poll
<1>2. CASE Pause
  <2>1. [SeenCtl EXCEPT !.enabled = FALSE, !.phase = "paused"] \in Control
    BY DEF Control, Phases
  <2> QED  BY <1>2, <2>1, ControlOnlyTypes DEF Pause
<1>3. \A c \in Control : Restored(c) \in Control
  BY DEF Restored, Control, Phases
<1>4. CASE Recover
  BY <1>3, <1>4, ControlOnlyTypes DEF Recover
<1>5. CASE PresentController
  <2> DEFINE st == [w \in Wakes |-> IF CanGrow(Seen[w]) THEN "pending" ELSE Seen[w]]
  <2>1. st \in [Wakes -> WakeStates] /\ held \in [Wakes -> SUBSET Source]
    BY DEF WakeStates, TypeOK
  <2>2. Save(st, held, receipt)
    BY <1>5 DEF PresentController
  <2>3. /\ state' \in [Wakes -> WakeStates]
        /\ held' \in [Wakes -> SUBSET Source]
        /\ receipt' \in [Source -> Receipts]
    BY <2>1, <2>2, SaveTypes
  <2>4. ep' \in Endpoint /\ ctl' \in Control /\ stamp' \in [Wakes -> Nat]
    BY <1>5 DEF PresentController, Endpoint, TypeOK
  <2>5. UNCHANGED <<att, rank, usable, stale, mail, returned>>
    BY <1>5 DEF PresentController
  <2> QED  BY <2>3, <2>4, <2>5 DEF TypeOK, Endpoint, Control
<1>6. ASSUME NEW r \in RoundLimits \cup {ctl.maxRounds},
             NEW f \in FailureLimits \cup {ctl.maxFailures}, Enable(r, f)
      PROVE  TypeOK'
  <2>1. r \in Nat /\ f \in Nat
    BY ConstantsOK DEF ConstantsOK, TypeOK
  <2>2. [SeenCtl EXCEPT !.enabled = TRUE, !.phase = "ready",
                        !.maxRounds = r, !.maxFailures = f] \in Control
    BY <2>1 DEF Control, Phases
  <2> QED  BY <1>6, <2>2, ControlOnlyTypes DEF Enable
<1>7. ASSUME NEW A \in SUBSET Source, Await(A)
      PROVE  TypeOK'
  <2>1. PICK p \in [Uncovered(A, receipt) -> Wakes] :
          /\ Save(StateAfter(p), HeldAfter(p), receipt)
          /\ stamp' = StampAfter(p)
    BY <1>7 DEF Await
  <2>2. Uncovered(A, receipt) \in SUBSET Source
    BY DEF Uncovered
  <2>3. /\ StateAfter(p) \in [Wakes -> WakeStates]
        /\ HeldAfter(p) \in [Wakes -> SUBSET Source]
        /\ StampAfter(p) \in [Wakes -> Nat]
    BY <2>2, PlacementFacts
  <2>4. /\ state' \in [Wakes -> WakeStates]
        /\ held' \in [Wakes -> SUBSET Source]
        /\ receipt' \in [Source -> Receipts]
    BY <2>1, <2>3, SaveTypes
  <2>5. ctl' \in Control /\ UNCHANGED <<ep, att, rank, usable, stale, mail, returned>>
    BY <1>7 DEF Await, Control, Phases
  <2> QED  BY <2>1, <2>3, <2>4, <2>5 DEF TypeOK, Control
<1>8. ASSUME NEW w \in Wakes, Settle(w)
      PROVE  TypeOK'
  <2>1. /\ [Seen EXCEPT ![w] = "settled"] \in [Wakes -> WakeStates]
        /\ held \in [Wakes -> SUBSET Source]
    BY DEF WakeStates, TypeOK
  <2>2. /\ state' \in [Wakes -> WakeStates]
        /\ held' \in [Wakes -> SUBSET Source]
        /\ receipt' \in [Source -> Receipts]
    BY <1>8, <2>1, SaveTypes DEF Settle
  <2>3. ctl' \in Control
    BY <1>8 DEF Settle, Control, Phases
  <2>4. UNCHANGED <<ep, stamp, att, rank, usable, stale, mail, returned>>
    BY <1>8 DEF Settle
  <2> QED  BY <2>2, <2>3, <2>4 DEF TypeOK, Control
<1>9. ASSUME NEW w \in Wakes, RecoverWake(w)
      PROVE  TypeOK'
  <2>1. /\ [Seen EXCEPT ![w] = "settled"] \in [Wakes -> WakeStates]
        /\ held \in [Wakes -> SUBSET Source]
    BY DEF WakeStates, TypeOK
  <2>2. /\ state' \in [Wakes -> WakeStates]
        /\ held' \in [Wakes -> SUBSET Source]
        /\ receipt' \in [Source -> Receipts]
    BY <1>9, <2>1, SaveTypes DEF RecoverWake
  <2>3. ctl' \in Control /\ att' \in [Wakes -> Attempt]
    BY <1>3, <1>9 DEF RecoverWake, TypeOK, Attempt
  <2>4. UNCHANGED <<ep, stamp, rank, usable, stale, mail, returned>>
    BY <1>9 DEF RecoverWake
  <2> QED  BY <2>2, <2>3, <2>4 DEF TypeOK, Control
<1> QED  BY <1>1, <1>2, <1>4, <1>5, <1>6, <1>7, <1>8, <1>9 DEF Owner
\* A call that sets at most the state of one wake keeps the types of what it saves.
LEMMA OneWakeTypes ==
  ASSUME TypeOK, NEW w \in Wakes, NEW x \in WakeStates,
         Save([Seen EXCEPT ![w] = x], held, receipt) \/ Save(Seen, held, receipt)
  PROVE  /\ state' \in [Wakes -> WakeStates]
         /\ held' \in [Wakes -> SUBSET Source]
         /\ receipt' \in [Source -> Receipts]
<1>1. Seen \in [Wakes -> WakeStates] /\ [Seen EXCEPT ![w] = x] \in [Wakes -> WakeStates]
  BY SeenFacts
<1>2. held \in [Wakes -> SUBSET Source]
  BY DEF TypeOK
<1> QED  BY <1>1, <1>2, SaveTypes

\* Every call of a view keeps the types (ControllerContinuation).
LEMMA ControllerTypes ==
  ASSUME TypeOK, Controller
  PROVE  TypeOK'
<1> USE SeenCtlFacts, SeenFacts
<1>1. PICK v \in View, g \in 1..MaxGenerations :
        \/ \E agreed \in BOOLEAN : Bind(v, g, agreed)
        \/ Heartbeat(v, g)
        \/ PauseByView(v, g)
        \/ \E w \in Wakes :
             \/ Acquire(v, g, w)
             \/ \E n \in 1..MaxClaims :
                  \/ Prepare(v, g, w, n)
                  \/ \E status \in DeliveryStatuses : Finish(v, g, w, n, status)
  BY DEF Controller
<1>2. /\ ViewLease \in Nat /\ ClaimLease \in Nat /\ DispatchTimeout \in Nat
      /\ g \in Nat /\ 1..MaxClaims \subseteq Nat
  BY ConstantsOK DEF ConstantsOK
<1>3. held \in [Wakes -> SUBSET Source]
  BY DEF TypeOK
<1>4. CASE (\E agreed \in BOOLEAN : Bind(v, g, agreed)) \/ Heartbeat(v, g) \/ PauseByView(v, g)
  <2>1. /\ Save(Seen, held, receipt)
        /\ UNCHANGED <<stamp, att, rank, usable, stale, mail, returned>>
    BY <1>4 DEF Bind, Heartbeat, PauseByView
  <2>2. /\ state' \in [Wakes -> WakeStates]
        /\ held' \in [Wakes -> SUBSET Source]
        /\ receipt' \in [Source -> Receipts]
    BY <1>3, <2>1, SaveTypes
  <2>3. ctl' \in Control
    BY <1>4 DEF Bind, Heartbeat, PauseByView, Control, Phases
  <2>4. ep' \in Endpoint
    <3>1. ASSUME NEW agreed \in BOOLEAN, Bind(v, g, agreed)
          PROVE  ep' \in Endpoint
      <4> DEFINE yes == (ep.holder = v /\ ep.consent) \/ agreed
      <4>1. yes \in BOOLEAN
        OBVIOUS
      <4>2. ep' = [ep EXCEPT !.holder = v, !.lease = ViewLease, !.consent = yes]
        BY <3>1 DEF Bind
      <4> HIDE DEF yes
      <4> QED  BY <1>2, <4>1, <4>2 DEF Endpoint, TypeOK
    <3>2. CASE Heartbeat(v, g) \/ PauseByView(v, g)
      BY <1>2, <3>2 DEF Heartbeat, PauseByView, Endpoint, TypeOK
    <3> QED  BY <1>4, <3>1, <3>2
  <2> QED  BY <2>1, <2>2, <2>3, <2>4 DEF TypeOK, Endpoint, Control
<1>5. ASSUME NEW w \in Wakes, Acquire(v, g, w)
      PROVE  TypeOK'
  <2>1. /\ state' \in [Wakes -> WakeStates]
        /\ held' \in [Wakes -> SUBSET Source]
        /\ receipt' \in [Source -> Receipts]
    BY <1>5, OneWakeTypes DEF Acquire, WakeStates
  <2>2. att' \in [Wakes -> Attempt]
    <3> DEFINE k == att[w].n + 1
               a == [NoAttempt EXCEPT !.n = k, !.view = v, !.timer = ClaimLease]
    <3>1. att \in [Wakes -> Attempt] /\ k \in Nat
      BY DEF TypeOK, Attempt
    <3>2. NoAttempt \in Attempt
      BY DEF Attempt, NoAttempt
    <3>3. att' = [att EXCEPT ![w] = a]
      BY <1>5 DEF Acquire
    <3> HIDE DEF k
    <3>4. a \in Attempt
      BY <1>2, <3>1, <3>2 DEF Attempt
    <3> HIDE DEF a
    <3> QED  BY <3>1, <3>3, <3>4
  <2>3. ctl' = SeenCtl /\ UNCHANGED <<ep, stamp, rank, usable, stale, mail, returned>>
    BY <1>5 DEF Acquire
  <2> QED  BY <2>1, <2>2, <2>3 DEF TypeOK, Control
<1>6. ASSUME NEW w \in Wakes, NEW n \in 1..MaxClaims, Prepare(v, g, w, n)
      PROVE  TypeOK'
  <2>1. /\ state' \in [Wakes -> WakeStates]
        /\ held' \in [Wakes -> SUBSET Source]
        /\ receipt' \in [Source -> Receipts]
    BY <1>6, OneWakeTypes DEF Prepare, WakeStates, BlockedStates
  <2>2. att' \in [Wakes -> Attempt]
    <3>1. att \in [Wakes -> Attempt]
      BY DEF TypeOK
    <3>2. att' = [att EXCEPT ![w] = [att[w] EXCEPT !.prepared = TRUE, !.token = TRUE,
                                                   !.timer = DispatchTimeout]]
      BY <1>6, <3>1 DEF Prepare, Attempt
    <3>3. [att[w] EXCEPT !.prepared = TRUE, !.token = TRUE, !.timer = DispatchTimeout] \in Attempt
      BY <1>2, <3>1 DEF Attempt
    <3> QED  BY <3>1, <3>2, <3>3
  <2>3. ctl' \in Control /\ ep' \in Endpoint
    <3>1. /\ ctl' = [SeenCtl EXCEPT !.rounds = SeenCtl.rounds + 1, !.phase = "dispatching"]
          /\ ep' = [ep EXCEPT !.lease = ViewLease]
      BY <1>6 DEF Prepare
    <3>2. ctl' \in Control
      <4>1. SeenCtl.rounds + 1 \in Nat /\ "dispatching" \in Phases
        BY DEF Control, Phases
      <4> QED  BY <3>1, <4>1 DEF Control
    <3>3. ep' \in Endpoint
      BY <1>2, <3>1 DEF Endpoint, TypeOK
    <3> QED  BY <3>2, <3>3
  <2>4. mail' \subseteq Message
    BY <1>2, <1>3, <1>6 DEF Prepare, Message, TypeOK
  <2>5. UNCHANGED <<stamp, rank, usable, stale, returned>>
    BY <1>6 DEF Prepare
  <2> QED  BY <2>1, <2>2, <2>3, <2>4, <2>5 DEF TypeOK, Control, Endpoint
<1>7. ASSUME NEW w \in Wakes, NEW n \in 1..MaxClaims, NEW status \in DeliveryStatuses,
             Finish(v, g, w, n, status)
      PROVE  TypeOK'
  <2>1. /\ state' \in [Wakes -> WakeStates]
        /\ held' \in [Wakes -> SUBSET Source]
        /\ receipt' \in [Source -> Receipts]
    BY <1>7, OneWakeTypes DEF Finish, WakeStates, BlockedStates
  <2>2. att' \in [Wakes -> Attempt]
    BY <1>7 DEF Finish, TypeOK, Attempt
  <2>3. ctl' \in Control
    BY <1>7, FailFacts DEF Finish
  <2>4. UNCHANGED <<ep, stamp, rank, usable, stale, mail, returned>>
    BY <1>7 DEF Finish
  <2> QED  BY <2>1, <2>2, <2>3, <2>4 DEF TypeOK, Control
<1> QED  BY <1>1, <1>4, <1>5, <1>6, <1>7

\* A consume keeps the types (ConsumeWorkWake).
LEMMA HostTypes ==
  ASSUME TypeOK, Host
  PROVE  TypeOK'
<1>1. PICK m \in mail : Consume(m)
  BY DEF Host
<1>2. m.wake \in Wakes /\ SettlementTimeout \in Nat
  BY ConstantsOK DEF TypeOK, Message, ConstantsOK
<1>3. /\ state' \in [Wakes -> WakeStates]
      /\ held' \in [Wakes -> SUBSET Source]
      /\ receipt' \in [Source -> Receipts]
  BY <1>1, <1>2, OneWakeTypes DEF Consume, WakeStates, BlockedStates
<1>4. ctl' \in Control
  BY <1>1, SeenCtlFacts DEF Consume, Control, Phases
<1>5. att' \in [Wakes -> Attempt]
  <2>1. att \in [Wakes -> Attempt]
    BY DEF TypeOK
  <2>2. att' = [att EXCEPT ![m.wake] = [att[m.wake] EXCEPT !.token = FALSE, !.consumed = TRUE,
                                                           !.timer = SettlementTimeout]]
    BY <1>1, <1>2, <2>1 DEF Consume, Attempt
  <2>3. [att[m.wake] EXCEPT !.token = FALSE, !.consumed = TRUE, !.timer = SettlementTimeout]
          \in Attempt
    BY <1>2, <2>1 DEF Attempt
  <2> QED  BY <1>2, <2>1, <2>2, <2>3
<1>6. returned' \in [Source -> Nat]
  BY <1>1 DEF Consume, TypeOK
<1>7. UNCHANGED <<ep, stamp, rank, usable, stale, mail>>
  BY <1>1 DEF Consume
<1> QED  BY <1>3, <1>4, <1>5, <1>6, <1>7 DEF TypeOK, Control
\* What a report does: the outcome is stored and placed if it is awaited, settled
\* wakes are pruned, and receipts nobody is owed may expire (RecordCommandOutcomes).
LEMMA ReportFacts ==
  ASSUME TypeOK, NEW s \in Source, NEW k \in Nat, Report(s, k)
  PROVE  \E rc \in [Source -> Receipts], mid \in [Source -> Receipts] :
         \E U \in SUBSET Source : \E p \in [U -> Wakes] :
           /\ rc = [receipt EXCEPT ![s] = "stored"]
           /\ U = Uncovered(ctl.awaited \cap {s}, rc)
           /\ IsPlacement(p, U, rank')
           /\ mid = Compacted(StateAfter(p), HeldAfter(p), rc)
           /\ state' = [w \in Wakes |-> IF Prunable(StateAfter(p), w) THEN "gone"
                                         ELSE StateAfter(p)[w]]
           /\ held' = HeldAfter(p)
           /\ stamp' = StampAfter(p)
           /\ receipt' = Evicted(ctl.awaited, state', held', mid, rank', k)
<1> DEFINE rc == [receipt EXCEPT ![s] = "stored"]
           U  == Uncovered(ctl.awaited \cap {s}, rc)
<1>1. rc \in [Source -> Receipts]
  BY DEF TypeOK, Receipts
<1>2. U \in SUBSET Source
  BY DEF Uncovered, TypeOK
<1>3. PICK p \in [U -> Wakes] :
        /\ IsPlacement(p, U, rank')
        /\ state' = [w \in Wakes |-> IF Prunable(StateAfter(p), w) THEN "gone"
                                      ELSE StateAfter(p)[w]]
        /\ held' = HeldAfter(p)
        /\ stamp' = StampAfter(p)
        /\ receipt' = Evicted(ctl.awaited, state', held',
                              Compacted(StateAfter(p), held', rc), rank', k)
  BY DEF Report
<1>4. Compacted(StateAfter(p), HeldAfter(p), rc) \in [Source -> Receipts]
  BY <1>1 DEF Compacted, Receipts
<1> QED  BY <1>1, <1>2, <1>3, <1>4

\* A report, and a batch without news, keep the types.
LEMMA NodeTypes ==
  ASSUME TypeOK, Node
  PROVE  TypeOK'
<1>1. ASSUME NEW k \in 0..Cardinality(Source), Repeat(k)
      PROVE  TypeOK'
  <2>1. receipt' \in [Source -> Receipts]
    BY <1>1 DEF Repeat, Evicted, TypeOK, Receipts
  <2>2. UNCHANGED <<doc, rank, usable, stale, mail, returned>>
    BY <1>1 DEF Repeat
  <2> QED  BY <2>1, <2>2 DEF TypeOK, doc
<1>2. ASSUME NEW k \in 0..Cardinality(Source), NEW s \in Source, Report(s, k)
      PROVE  TypeOK'
  <2>1. k \in Nat
    BY ConstantsOK, FS_CardinalityType DEF ConstantsOK
  <2>2. PICK rc \in [Source -> Receipts], mid \in [Source -> Receipts], U \in SUBSET Source :
        \E p \in [U -> Wakes] :
          /\ rc = [receipt EXCEPT ![s] = "stored"]
          /\ U = Uncovered(ctl.awaited \cap {s}, rc)
          /\ IsPlacement(p, U, rank')
          /\ mid = Compacted(StateAfter(p), HeldAfter(p), rc)
          /\ state' = [w \in Wakes |-> IF Prunable(StateAfter(p), w) THEN "gone"
                                        ELSE StateAfter(p)[w]]
          /\ held' = HeldAfter(p)
          /\ stamp' = StampAfter(p)
          /\ receipt' = Evicted(ctl.awaited, state', held', mid, rank', k)
    BY <1>2, <2>1, ReportFacts
  <2>3. PICK p \in [U -> Wakes] :
          /\ state' = [w \in Wakes |-> IF Prunable(StateAfter(p), w) THEN "gone"
                                        ELSE StateAfter(p)[w]]
          /\ held' = HeldAfter(p)
          /\ stamp' = StampAfter(p)
          /\ receipt' = Evicted(ctl.awaited, state', held', mid, rank', k)
    BY <2>2
  <2>4. /\ held' \in [Wakes -> SUBSET Source]
        /\ stamp' \in [Wakes -> Nat]
        /\ StateAfter(p) \in [Wakes -> WakeStates]
    BY <2>3, PlacementFacts
  <2>5. state' \in [Wakes -> WakeStates]
    BY <2>3, <2>4 DEF WakeStates
  <2>6. receipt' \in [Source -> Receipts]
    BY <2>3 DEF Evicted, Receipts
  <2>7. rank' \in [Source -> Nat]
    BY <1>2, ArrivalsType DEF Report, TypeOK
  <2>8. ctl' \in Control /\ UNCHANGED <<ep, att, usable, stale, mail, returned>>
    BY <1>2, SeenCtlFacts DEF Report
  <2> QED  BY <2>4, <2>5, <2>6, <2>7, <2>8 DEF TypeOK, Control
<1> QED  BY <1>1, <1>2 DEF Node

\* Time, revocations and context moves keep the types.
LEMMA EnvironmentTypes ==
  ASSUME TypeOK, Environment
  PROVE  TypeOK'
<1>1. CASE Tick
  <2>1. \A x \in Nat : Down(x) \in Nat
    BY DEF Down
  <2>2. ep' \in Endpoint
    BY <1>1, <2>1 DEF Tick, TypeOK, Endpoint
  <2>3. att' \in [Wakes -> Attempt]
    BY <1>1, <2>1 DEF Tick, TypeOK, Attempt
  <2>4. UNCHANGED <<ctl, state, stamp, held, receipt, rank, usable, stale, mail, returned>>
    BY <1>1 DEF Tick
  <2> QED  BY <2>2, <2>3, <2>4 DEF TypeOK, Endpoint
<1>2. ASSUME NEW t \in Movable, Revoke(t) \/ Restore(t)
      PROVE  TypeOK'
  BY <1>2, ConstantsOK DEF Revoke, Restore, TypeOK, doc, ConstantsOK
<1>3. ASSUME NEW t \in Movable, NEW S \in SUBSET Source, MoveContext(t, S)
      PROVE  TypeOK'
  BY <1>3 DEF MoveContext, TypeOK, doc
<1> QED  BY <1>1, <1>2, <1>3 DEF Environment

\* The variables of the document and the receipts always have their types.
THEOREM TypeCorrect == Spec => []TypeOK
<1>1. TypeOK /\ [Next]_vars => TypeOK'
  <2> SUFFICES ASSUME TypeOK, [Next]_vars PROVE TypeOK'
    OBVIOUS
  <2>1. CASE UNCHANGED vars
    BY <2>1 DEF vars, doc, TypeOK
  <2>2. CASE Next
    BY <2>2, OwnerTypes, ControllerTypes, HostTypes, NodeTypes, EnvironmentTypes DEF Next
  <2> QED  BY <2>1, <2>2
<1> QED  BY <1>1, InitTypes, PTL DEF Spec
--------------------------------------------------------------------------------
\* The flow of wakes: one at a time is out, and all belong to the current controller.

FlowInv == SingleFlight /\ BelongsToController

Out == BlockedStates \cup {"claimed"}
Solo(st) == \A v, w \in Wakes : st[v] \in Out /\ st[w] \in Out => v = w
Owned(st, sp, g) == \A w \in Wakes : st[w] \notin {"none", "gone", "settled"} => sp[w] = g
Pruned(st) ==
  \A w \in Wakes : state'[w] = st[w] \/ (st[w] = "settled" /\ state'[w] = "gone")

\* The expiry pass keeps one wake out at most, and every wake its owner.
LEMMA SeenFlow ==
  ASSUME TypeOK, FlowInv
  PROVE  Solo(Seen) /\ Owned(Seen, stamp, ep.gen)
<1>1. \A w \in Wakes : Seen[w] \in Out => InFlight(w)
  BY SeenFacts DEF Lapse, Out, InFlight, BlockedStates, DeliveryStatuses
<1>2. \A w \in Wakes : Seen[w] \notin {"none", "gone", "settled"} =>
                         Present(state, w) /\ state[w] # "settled"
  BY SeenFacts DEF Lapse, Present
<1> QED  BY <1>1, <1>2 DEF FlowInv, SingleFlight, BelongsToController, Solo, Owned

\* Pruning settled wakes keeps what held of the wakes before it.
LEMMA FlowPruned ==
  ASSUME NEW st, Pruned(st), Solo(st), Owned(st, stamp', ep.gen')
  PROVE  FlowInv'
<1>1. \A w \in Wakes : InFlight(w)' => st[w] \in Out
  BY DEF Pruned, InFlight, Out, BlockedStates, DeliveryStatuses
<1>2. \A w \in Wakes : (Present(state, w) /\ state[w] # "settled")' =>
                         st[w] \notin {"none", "gone", "settled"}
  BY DEF Pruned, Present
<1>3. SingleFlight'
  BY <1>1 DEF SingleFlight, Solo
<1>4. BelongsToController'
  BY <1>2 DEF BelongsToController, Owned
<1> QED  BY <1>3, <1>4 DEF FlowInv

\* Saving prunes and nothing more.
LEMMA SavePrunes ==
  ASSUME TypeOK, NEW st \in [Wakes -> WakeStates], NEW hd \in [Wakes -> SUBSET Source],
         Save(st, hd, receipt)
  PROVE  Pruned(st)
<1>1. receipt \in [Source -> Receipts]
  BY DEF TypeOK
<1> QED  BY <1>1, SaveFacts DEF Pruned

\* An action that saves only what the expiry pass left.
LEMMA FlowQuiet ==
  ASSUME TypeOK, FlowInv, Save(Seen, held, receipt), stamp' = stamp, ep.gen' = ep.gen
  PROVE  FlowInv'
<1>1. held \in [Wakes -> SUBSET Source]
  BY DEF TypeOK
<1> QED  BY <1>1, SeenFacts, SeenFlow, SavePrunes, FlowPruned

\* An action that also moves one wake: to settled, or on from where it was out
\* already, or out when no wake was.
LEMMA FlowMove ==
  ASSUME TypeOK, FlowInv, NEW w \in Wakes, NEW x \in WakeStates,
         Save([Seen EXCEPT ![w] = x], held, receipt), stamp' = stamp, ep.gen' = ep.gen,
         Seen[w] \notin {"none", "gone", "settled"},
         \/ x = "settled"
         \/ Seen[w] \in Out
         \/ \A v \in Wakes : Seen[v] \notin Out
  PROVE  FlowInv'
<1> DEFINE st == [Seen EXCEPT ![w] = x]
<1>1. st \in [Wakes -> WakeStates] /\ held \in [Wakes -> SUBSET Source]
  BY SeenFacts DEF TypeOK
<1>2. Solo(st)
  BY SeenFacts, SeenFlow DEF Solo, Out, BlockedStates, DeliveryStatuses
<1>3. Owned(st, stamp, ep.gen)
  BY SeenFacts, SeenFlow DEF Owned
<1> QED  BY <1>1, <1>2, <1>3, SavePrunes, FlowPruned

\* Placing outcomes creates pending wakes of the current controller.
LEMMA FlowPlaced ==
  ASSUME TypeOK, FlowInv, NEW U \in SUBSET Source, NEW p \in [U -> Wakes],
         Pruned(StateAfter(p)), stamp' = StampAfter(p), ep.gen' = ep.gen
  PROVE  FlowInv'
<1>1. Solo(StateAfter(p))
  BY SeenFlow DEF StateAfter, Solo, Out, BlockedStates, DeliveryStatuses
<1>2. Owned(StateAfter(p), StampAfter(p), ep.gen)
  BY SeenFlow DEF StateAfter, StampAfter, Owned
<1> QED  BY <1>1, <1>2, FlowPruned
\* No call of the owner puts a second wake out or leaves one with an old controller.
LEMMA OwnerFlow ==
  ASSUME TypeOK, FlowInv, Owner
  PROVE  FlowInv'
<1>1. ASSUME NEW c, ControlOnly(c)
      PROVE  FlowInv'
  BY <1>1, FlowQuiet DEF ControlOnly
<1>2. CASE Poll \/ Pause \/ Recover \/ \E r, f : Enable(r, f)
  BY <1>1, <1>2 DEF Poll, Pause, Recover, Enable
<1>3. CASE PresentController
  <2> DEFINE st == [w \in Wakes |-> IF CanGrow(Seen[w]) THEN "pending" ELSE Seen[w]]
  <2>1. /\ Save(st, held, receipt)
        /\ stamp' = [w \in Wakes |-> IF CanGrow(Seen[w]) THEN ep.gen + 1 ELSE stamp[w]]
        /\ ep.gen' = ep.gen + 1
        /\ ~Blocked(Seen)
    BY <1>3 DEF PresentController
  <2>2. st \in [Wakes -> WakeStates] /\ held \in [Wakes -> SUBSET Source]
    BY SeenFacts DEF WakeStates, TypeOK
  <2>3. Pruned(st)
    BY <2>1, <2>2, SavePrunes
  <2>4. \A w \in Wakes : Seen[w] \in {"none", "pending", "claimed", "settled", "gone"}
    BY <2>1, SeenFacts DEF Blocked, WakeStates
  <2>5. Solo(st)
    BY <2>4 DEF Solo, Out, CanGrow, BlockedStates, DeliveryStatuses
  <2>6. Owned(st, stamp', ep.gen')
    BY <2>1, <2>4 DEF Owned, CanGrow
  <2> QED  BY <2>3, <2>5, <2>6, FlowPruned
<1>4. ASSUME NEW A \in SUBSET Source, Await(A)
      PROVE  FlowInv'
  <2>1. Uncovered(A, receipt) \in SUBSET Source
    BY DEF Uncovered
  <2>2. PICK p \in [Uncovered(A, receipt) -> Wakes] :
          /\ Save(StateAfter(p), HeldAfter(p), receipt)
          /\ stamp' = StampAfter(p)
    BY <1>4 DEF Await
  <2>3. Pruned(StateAfter(p))
    BY <2>1, <2>2, PlacementFacts, SavePrunes
  <2>4. ep.gen' = ep.gen
    BY <1>4 DEF Await
  <2> QED  BY <2>1, <2>2, <2>3, <2>4, FlowPlaced
<1>5. ASSUME NEW w \in Wakes, Settle(w) \/ RecoverWake(w)
      PROVE  FlowInv'
  <2>1. /\ Save([Seen EXCEPT ![w] = "settled"], held, receipt)
        /\ stamp' = stamp /\ ep.gen' = ep.gen
        /\ Seen[w] \notin {"none", "gone", "settled"}
    BY <1>5 DEF Settle, RecoverWake, Present
  <2> QED  BY <2>1, FlowMove DEF WakeStates
<1> QED  BY <1>2, <1>3, <1>4, <1>5 DEF Owner

\* Acquire puts a wake out only when no other is; prepare and finish move the one
\* that is.
LEMMA ControllerFlow ==
  ASSUME TypeOK, FlowInv, Controller
  PROVE  FlowInv'
<1>1. ASSUME NEW v \in View, NEW g \in 1..MaxGenerations,
             \/ \E agreed \in BOOLEAN : Bind(v, g, agreed)
             \/ Heartbeat(v, g)
             \/ PauseByView(v, g)
      PROVE  FlowInv'
  <2>1. Save(Seen, held, receipt) /\ stamp' = stamp
    BY <1>1 DEF Bind, Heartbeat, PauseByView
  <2>2. ep.gen' = ep.gen
    BY <1>1 DEF Bind, Heartbeat, PauseByView, TypeOK
  <2> QED  BY <2>1, <2>2, FlowQuiet
<1>2. ASSUME NEW v \in View, NEW g \in 1..MaxGenerations, NEW w \in Wakes, Acquire(v, g, w)
      PROVE  FlowInv'
  <2>1. /\ Save([Seen EXCEPT ![w] = "claimed"], held, receipt)
        /\ stamp' = stamp /\ ep.gen' = ep.gen
        /\ Seen[w] = "pending"
        /\ ~Blocked(Seen) /\ \A x \in Wakes : Seen[x] # "claimed"
    BY <1>2 DEF Acquire
  <2>2. \A x \in Wakes : Seen[x] \notin Out
    BY <2>1 DEF Blocked, Out
  <2> QED  BY <2>1, <2>2, FlowMove DEF WakeStates
<1>3. ASSUME NEW v \in View, NEW g \in 1..MaxGenerations, NEW w \in Wakes,
             NEW n \in 1..MaxClaims, Prepare(v, g, w, n)
      PROVE  FlowInv'
  <2>1. /\ Save([Seen EXCEPT ![w] = "prepared"], held, receipt)
        /\ stamp' = stamp
        /\ Seen[w] = "claimed"
    BY <1>3 DEF Prepare
  <2>2. ep.gen' = ep.gen
    BY <1>3 DEF Prepare, TypeOK
  <2> QED  BY <2>1, <2>2, FlowMove DEF WakeStates, BlockedStates, Out
<1>4. ASSUME NEW v \in View, NEW g \in 1..MaxGenerations, NEW w \in Wakes,
             NEW n \in 1..MaxClaims, NEW status \in DeliveryStatuses,
             Finish(v, g, w, n, status)
      PROVE  FlowInv'
  <2>1. stamp' = stamp /\ ep.gen' = ep.gen
    BY <1>4 DEF Finish
  <2>2. CASE FinishMoves(w, status)
    <3>1. Save([Seen EXCEPT ![w] = status], held, receipt)
      BY <1>4, <2>2 DEF Finish
    <3>2. Seen[w] \in {"prepared", "dispatch_accepted", "delivery_unknown"}
      BY <2>2 DEF FinishMoves
    <3> QED  BY <2>1, <3>1, <3>2, FlowMove DEF WakeStates, BlockedStates, DeliveryStatuses, Out
  <2>3. CASE ~FinishMoves(w, status)
    BY <1>4, <2>1, <2>3, FlowQuiet DEF Finish
  <2> QED  BY <2>2, <2>3
<1> QED  BY <1>1, <1>2, <1>3, <1>4 DEF Controller

\* A consume moves the wake that is out.
LEMMA HostFlow ==
  ASSUME TypeOK, FlowInv, Host
  PROVE  FlowInv'
<1>1. PICK m \in mail : Consume(m)
  BY DEF Host
<1>2. m.wake \in Wakes
  BY DEF TypeOK, Message
<1>3. /\ Save([Seen EXCEPT ![m.wake] = "consumed"], held, receipt)
      /\ stamp' = stamp /\ ep.gen' = ep.gen
      /\ Seen[m.wake] \in {"prepared", "dispatch_accepted", "delivery_unknown"}
  BY <1>1 DEF Consume, Consumable
<1> QED  BY <1>2, <1>3, FlowMove DEF WakeStates, BlockedStates, DeliveryStatuses, Out

\* A report creates pending wakes at most.
LEMMA NodeFlow ==
  ASSUME TypeOK, FlowInv, Node
  PROVE  FlowInv'
<1>1. ASSUME NEW k \in 0..Cardinality(Source), Repeat(k)
      PROVE  FlowInv'
  BY <1>1 DEF Repeat, doc, FlowInv, SingleFlight, InFlight, BelongsToController, Present
<1>2. ASSUME NEW k \in 0..Cardinality(Source), NEW s \in Source, Report(s, k)
      PROVE  FlowInv'
  <2>1. k \in Nat
    BY ConstantsOK, FS_CardinalityType DEF ConstantsOK
  <2>2. PICK U \in SUBSET Source : \E p \in [U -> Wakes] :
          /\ state' = [w \in Wakes |-> IF Prunable(StateAfter(p), w) THEN "gone"
                                        ELSE StateAfter(p)[w]]
          /\ stamp' = StampAfter(p)
    BY <1>2, <2>1, ReportFacts
  <2>3. PICK p \in [U -> Wakes] :
          /\ state' = [w \in Wakes |-> IF Prunable(StateAfter(p), w) THEN "gone"
                                        ELSE StateAfter(p)[w]]
          /\ stamp' = StampAfter(p)
    BY <2>2
  <2>4. \A w \in Wakes : Prunable(StateAfter(p), w) => StateAfter(p)[w] = "settled"
    BY DEF Prunable
  <2>5. Pruned(StateAfter(p))
    BY <2>3, <2>4 DEF Pruned
  <2>6. ep.gen' = ep.gen
    BY <1>2 DEF Report
  <2> QED  BY <2>3, <2>5, <2>6, FlowPlaced
<1> QED  BY <1>1, <1>2 DEF Node

\* Time and the targets do not move wakes.
LEMMA EnvironmentFlow ==
  ASSUME TypeOK, FlowInv, Environment
  PROVE  FlowInv'
<1>1. UNCHANGED <<state, stamp>> /\ ep.gen' = ep.gen
  BY DEF Environment, Tick, Revoke, Restore, MoveContext, doc, TypeOK
<1> QED  BY <1>1 DEF FlowInv, SingleFlight, InFlight, BelongsToController, Present

\* One wake at a time is claimed, dispatched or in the model's hands, and every wake
\* that is not settled belongs to the current controller.
THEOREM FlowCorrect == Spec => [](SingleFlight /\ BelongsToController)
<1>1. Init => FlowInv
  BY DEF Init, FlowInv, SingleFlight, InFlight, BelongsToController, Present,
         BlockedStates, DeliveryStatuses
<1>2. TypeOK /\ FlowInv /\ [Next]_vars => FlowInv'
  <2> SUFFICES ASSUME TypeOK, FlowInv, [Next]_vars PROVE FlowInv'
    OBVIOUS
  <2>1. CASE UNCHANGED vars
    BY <2>1 DEF vars, doc, FlowInv, SingleFlight, InFlight, BelongsToController, Present
  <2>2. CASE Next
    BY <2>2, OwnerFlow, ControllerFlow, HostFlow, NodeFlow, EnvironmentFlow DEF Next
  <2> QED  BY <2>1, <2>2
<1>3. FlowInv => SingleFlight /\ BelongsToController
  BY DEF FlowInv
<1> QED  BY <1>1, <1>2, <1>3, TypeCorrect, PTL DEF Spec

\* Whatever is re-presented, recovered or expired, a wake that is not settled can be
\* dispatched by a view of the current controller (ControllerContinuation).
THEOREM ControllerOwnsWakes == Spec => []BelongsToController
BY FlowCorrect, PTL
--------------------------------------------------------------------------------
\* The books: which wake holds which outcome, and what its receipt says.

\* No source is in two wakes, a blank wake holds nothing, a held source still has its
\* receipt, and an awaited one that is stored is in a wake and not expired.
Books(st, hd, rc, aw) ==
  /\ \A v, w \in Wakes : \A s \in hd[v] \cap hd[w] : v = w
  /\ \A w \in Wakes : st[w] = "none" => hd[w] = {}
  /\ \A w \in Wakes : \A s \in hd[w] : rc[s] = "settled" \/ (rc[s] = "stored" /\ st[w] # "gone")
  /\ \A s \in aw : rc[s] = "stored" => \E w \in Wakes : st[w] \notin {"none", "gone"} /\ s \in hd[w]
  /\ \A s \in aw : rc[s] # "expired"

\* The receipts of settled wakes are stripped.
Stripped(st, hd, rc) == \A w \in Wakes : st[w] = "settled" => \A s \in hd[w] : rc[s] = "settled"

BooksInv == Books(state, held, receipt, ctl.awaited) /\ Stripped(state, held, receipt)

\* What compaction does to wakes st and receipts rc.
Compaction(st, hd, rc, st2, rc2) ==
  /\ \A w \in Wakes : st2[w] = st[w] \/ (st[w] = "settled" /\ st2[w] = "gone")
  /\ \A s \in Source : rc2[s] = rc[s] \/ (rc[s] = "stored" /\ rc2[s] = "settled")
  /\ \A s \in Source : rc[s] = "stored" =>
       (rc2[s] = "settled" <=> \E w \in Wakes : st[w] = "settled" /\ s \in hd[w])

\* Compaction strips the receipts of what it prunes, so it keeps the books.
LEMMA CompactionBooks ==
  ASSUME NEW st \in [Wakes -> WakeStates], NEW hd \in [Wakes -> SUBSET Source],
         NEW rc \in [Source -> Receipts], NEW aw \in SUBSET Source, NEW st2, NEW rc2,
         Books(st, hd, rc, aw), Compaction(st, hd, rc, st2, rc2)
  PROVE  Books(st2, hd, rc2, aw) /\ Stripped(st2, hd, rc2)
<1>1. \A w \in Wakes : st[w] = "settled" => \A s \in hd[w] : rc2[s] = "settled"
  BY DEF Books, Compaction
<1>2. \A w \in Wakes : \A s \in hd[w] : rc2[s] = "settled" \/ (rc2[s] = "stored" /\ st2[w] # "gone")
  BY <1>1 DEF Books, Compaction
<1>3. \A s \in aw : rc2[s] = "stored" => \E w \in Wakes : st2[w] \notin {"none", "gone"} /\ s \in hd[w]
  <2> SUFFICES ASSUME NEW s \in aw, rc2[s] = "stored"
               PROVE  \E w \in Wakes : st2[w] \notin {"none", "gone"} /\ s \in hd[w]
    OBVIOUS
  <2>1. rc[s] = "stored"
    BY DEF Compaction
  <2>2. PICK w \in Wakes : st[w] \notin {"none", "gone"} /\ s \in hd[w]
    BY <2>1 DEF Books
  <2>3. st[w] # "settled"
    BY <1>1, <2>2
  <2> QED  BY <2>2, <2>3 DEF Compaction
<1>4. \A s \in aw : rc2[s] # "expired"
  BY DEF Books, Compaction
<1>5. \A w \in Wakes : st2[w] = "none" => hd[w] = {}
  BY DEF Books, Compaction
<1>6. \A v, w \in Wakes : \A s \in hd[v] \cap hd[w] : v = w
  BY DEF Books
<1>7. Stripped(st2, hd, rc2)
  BY <1>1 DEF Compaction, Stripped
<1> QED  BY <1>2, <1>3, <1>4, <1>5, <1>6, <1>7 DEF Books

\* A save compacts.
LEMMA SaveBooks ==
  ASSUME TypeOK, NEW st \in [Wakes -> WakeStates], NEW hd \in [Wakes -> SUBSET Source],
         NEW aw \in SUBSET Source,
         Save(st, hd, receipt), ctl'.awaited = aw, Books(st, hd, receipt, aw)
  PROVE  BooksInv'
<1>1. receipt \in [Source -> Receipts]
  BY DEF TypeOK
<1>2. Compaction(st, hd, receipt, state', receipt') /\ held' = hd
  BY <1>1, SaveFacts DEF Compaction
<1> QED  BY <1>1, <1>2, CompactionBooks DEF BooksInv

\* Wakes that moved without being created, pruned or brought back keep the books.
LEMMA BooksMoved ==
  ASSUME TypeOK, BooksInv, NEW st \in [Wakes -> WakeStates],
         \A w \in Wakes : /\ state[w] = "none" <=> st[w] = "none"
                          /\ state[w] = "gone" <=> st[w] = "gone",
         Save(st, held, receipt), ctl'.awaited = ctl.awaited
  PROVE  BooksInv'
<1>1. held \in [Wakes -> SUBSET Source] /\ ctl.awaited \in SUBSET Source
  BY DEF TypeOK
<1>2. Books(st, held, receipt, ctl.awaited)
  BY DEF BooksInv, Books
<1> QED  BY <1>1, <1>2, SaveBooks

\* An action that saves what the expiry pass left, at most one wake moved.
LEMMA BooksOneWake ==
  ASSUME TypeOK, BooksInv, NEW w \in Wakes, NEW x \in WakeStates \ {"none", "gone"},
         Seen[w] \notin {"none", "gone"},
         Save([Seen EXCEPT ![w] = x], held, receipt), ctl'.awaited = ctl.awaited
  PROVE  BooksInv'
<1> DEFINE st == [Seen EXCEPT ![w] = x]
<1>1. st \in [Wakes -> WakeStates]
  BY SeenFacts
<1>2. \A v \in Wakes : /\ state[v] = "none" <=> st[v] = "none"
                       /\ state[v] = "gone" <=> st[v] = "gone"
  BY SeenFacts DEF Lapse
<1> QED  BY <1>1, <1>2, BooksMoved

\* A call that saves what the expiry pass left keeps the books.
LEMMA BooksQuiet ==
  ASSUME TypeOK, BooksInv, Save(Seen, held, receipt), ctl'.awaited = ctl.awaited
  PROVE  BooksInv'
<1>1. \A v \in Wakes : /\ state[v] = "none" <=> Seen[v] = "none"
                       /\ state[v] = "gone" <=> Seen[v] = "gone"
  BY SeenFacts DEF Lapse
<1> QED  BY <1>1, SeenFacts, BooksMoved

\* A source is placed in a wake that can still grow or is new.
LEMMA PlacedOpen ==
  ASSUME TypeOK, NEW U \in SUBSET Source, NEW p \in [U -> Wakes], NEW rk, IsPlacement(p, U, rk)
  PROVE  \A s \in U : CanGrow(Seen[p[s]]) \/ Seen[p[s]] = "none"
  BY DEF IsPlacement

\* Placing sources that no wake holds keeps the books, and queues those awaited.
LEMMA PlacedBooks ==
  ASSUME TypeOK, BooksInv, NEW rc \in [Source -> Receipts], NEW aw \in SUBSET Source,
         NEW U \in SUBSET Source, NEW p \in [U -> Wakes], NEW rk, IsPlacement(p, U, rk),
         \A s \in Source : rc[s] # receipt[s] => receipt[s] = "none",
         \A s \in U : rc[s] = "stored" /\ \A w \in Wakes : s \notin held[w],
         \A s \in aw : rc[s] = "stored" =>
            s \in U \/ \E w \in Wakes : state[w] \notin {"none", "gone"} /\ s \in held[w],
         \A s \in aw : rc[s] # "expired"
  PROVE  Books(StateAfter(p), HeldAfter(p), rc, aw)
<1> DEFINE st == StateAfter(p)
           hd == HeldAfter(p)
<1>1. \A w \in Wakes : \A s \in hd[w] : s \in held[w] \/ (s \in U /\ p[s] = w)
  BY DEF HeldAfter
<1>2. \A v, w \in Wakes : \A s \in hd[v] \cap hd[w] : v = w
  BY <1>1 DEF BooksInv, Books
<1>3. \A w \in Wakes : /\ st[w] = "gone" <=> state[w] = "gone"
                       /\ state[w] \notin {"none", "gone"} => st[w] \notin {"none", "gone"}
                       /\ st[w] = "none" => state[w] = "none" /\ \A s \in U : p[s] # w
  BY SeenFacts DEF StateAfter, Lapse
<1>4. \A w \in Wakes : st[w] = "none" => hd[w] = {}
  BY <1>1, <1>3 DEF BooksInv, Books
<1>5. \A s \in U : st[p[s]] \notin {"none", "gone"} /\ s \in hd[p[s]]
  BY <1>3, PlacedOpen DEF CanGrow, StateAfter, HeldAfter
<1>6. \A w \in Wakes : \A s \in hd[w] : rc[s] = "settled" \/ (rc[s] = "stored" /\ st[w] # "gone")
  <2>1. ASSUME NEW w \in Wakes, NEW s \in held[w]
        PROVE  rc[s] = "settled" \/ (rc[s] = "stored" /\ st[w] # "gone")
    <3>1. s \in Source
      BY DEF TypeOK
    <3>2. receipt[s] = "settled" \/ (receipt[s] = "stored" /\ state[w] # "gone")
      BY DEF BooksInv, Books
    <3> QED  BY <1>3, <3>1, <3>2
  <2> QED  BY <1>1, <1>5, <2>1
<1>7. \A s \in aw : rc[s] = "stored" => \E w \in Wakes : st[w] \notin {"none", "gone"} /\ s \in hd[w]
  <2>1. \A w \in Wakes : held[w] \subseteq hd[w]
    BY DEF HeldAfter
  <2> QED  BY <1>3, <1>5, <2>1
<1> QED  BY <1>2, <1>4, <1>6, <1>7 DEF Books
\* An await finds what has already arrived; the owner's other calls move wakes only.
LEMMA OwnerBooks ==
  ASSUME TypeOK, BooksInv, Owner
  PROVE  BooksInv'
<1> USE SeenCtlFacts
<1>1. ASSUME NEW c, c.awaited = ctl.awaited, ControlOnly(c)
      PROVE  BooksInv'
  BY <1>1, BooksQuiet DEF ControlOnly
<1>2. CASE Poll \/ Pause \/ Recover \/ \E r, f : Enable(r, f)
  BY <1>1, <1>2 DEF Poll, Pause, Recover, Restored, Enable, Control
<1>3. CASE PresentController
  <2> DEFINE st == [w \in Wakes |-> IF CanGrow(Seen[w]) THEN "pending" ELSE Seen[w]]
  <2>1. Save(st, held, receipt) /\ ctl'.awaited = ctl.awaited
    BY <1>3 DEF PresentController
  <2>2. st \in [Wakes -> WakeStates]
    BY SeenFacts DEF WakeStates
  <2>3. \A w \in Wakes : /\ state[w] = "none" <=> st[w] = "none"
                         /\ state[w] = "gone" <=> st[w] = "gone"
    BY SeenFacts DEF Lapse, CanGrow
  <2> QED  BY <2>1, <2>2, <2>3, BooksMoved
<1>4. ASSUME NEW A \in SUBSET Source, Await(A)
      PROVE  BooksInv'
  <2> DEFINE U == Uncovered(A, receipt)
  <2>1. U \in SUBSET Source /\ receipt \in [Source -> Receipts]
    BY DEF Uncovered, TypeOK
  <2>2. PICK p \in [U -> Wakes] :
          IsPlacement(p, U, rank) /\ Save(StateAfter(p), HeldAfter(p), receipt)
    BY <1>4 DEF Await
  <2>3. \A s \in U : receipt[s] = "stored" /\ \A w \in Wakes : s \notin held[w]
    BY SeenFacts DEF Uncovered, Present, Lapse, BooksInv, Books
  <2>4. \A s \in A : receipt[s] = "stored" =>
          s \in U \/ \E w \in Wakes : state[w] \notin {"none", "gone"} /\ s \in held[w]
    BY SeenFacts DEF Uncovered, Present, Lapse
  <2>5. \A s \in A : receipt[s] # "expired"
    BY <1>4 DEF Await
  <2>6. ctl'.awaited = A
    BY <1>4 DEF Await, Control
  <2> HIDE DEF U
  <2>7. Books(StateAfter(p), HeldAfter(p), receipt, A)
    BY <2>1, <2>2, <2>3, <2>4, <2>5, PlacedBooks
  <2>8. /\ StateAfter(p) \in [Wakes -> WakeStates]
        /\ HeldAfter(p) \in [Wakes -> SUBSET Source]
    BY <2>1, PlacementFacts
  <2> QED  BY <2>2, <2>6, <2>7, <2>8, SaveBooks
<1>5. ASSUME NEW w \in Wakes, Settle(w) \/ RecoverWake(w)
      PROVE  BooksInv'
  <2>1. /\ Save([Seen EXCEPT ![w] = "settled"], held, receipt)
        /\ ctl'.awaited = ctl.awaited
        /\ Seen[w] \notin {"none", "gone"}
    BY <1>5 DEF Settle, RecoverWake, Restored, Present, Control
  <2> QED  BY <2>1, BooksOneWake DEF WakeStates
<1> QED  BY <1>2, <1>3, <1>4, <1>5 DEF Owner

\* A view's calls and a consume move one wake at most.
LEMMA ControllerBooks ==
  ASSUME TypeOK, BooksInv, Controller
  PROVE  BooksInv'
<1> USE SeenCtlFacts
<1>1. ASSUME NEW v \in View, NEW g \in 1..MaxGenerations,
             \/ \E agreed \in BOOLEAN : Bind(v, g, agreed)
             \/ Heartbeat(v, g)
             \/ PauseByView(v, g)
      PROVE  BooksInv'
  BY <1>1, BooksQuiet DEF Bind, Heartbeat, PauseByView, Control
<1>2. ASSUME NEW v \in View, NEW g \in 1..MaxGenerations, NEW w \in Wakes, Acquire(v, g, w)
      PROVE  BooksInv'
  BY <1>2, BooksOneWake DEF Acquire, WakeStates
<1>3. ASSUME NEW v \in View, NEW g \in 1..MaxGenerations, NEW w \in Wakes,
             NEW n \in 1..MaxClaims, Prepare(v, g, w, n)
      PROVE  BooksInv'
  <2>1. /\ Save([Seen EXCEPT ![w] = "prepared"], held, receipt)
        /\ Seen[w] = "claimed" /\ ctl'.awaited = ctl.awaited
    BY <1>3 DEF Prepare, Control
  <2> QED  BY <2>1, BooksOneWake DEF WakeStates, BlockedStates
<1>4. ASSUME NEW v \in View, NEW g \in 1..MaxGenerations, NEW w \in Wakes,
             NEW n \in 1..MaxClaims, NEW status \in DeliveryStatuses,
             Finish(v, g, w, n, status)
      PROVE  BooksInv'
  <2>1. ctl'.awaited = ctl.awaited
    BY <1>4, FailFacts DEF Finish
  <2>2. CASE FinishMoves(w, status)
    <3>1. Save([Seen EXCEPT ![w] = status], held, receipt)
      BY <1>4, <2>2 DEF Finish
    <3>2. Seen[w] \notin {"none", "gone"}
      BY <2>2 DEF FinishMoves
    <3>3. status \in WakeStates \ {"none", "gone"}
      BY DEF WakeStates, BlockedStates, DeliveryStatuses
    <3> QED  BY <2>1, <3>1, <3>2, <3>3, BooksOneWake
  <2>3. CASE ~FinishMoves(w, status)
    BY <1>4, <2>1, <2>3, BooksQuiet DEF Finish
  <2> QED  BY <2>2, <2>3
<1> QED  BY <1>1, <1>2, <1>3, <1>4 DEF Controller

\* A consume (consumeWorkWake) keeps the books.
LEMMA HostBooks ==
  ASSUME TypeOK, BooksInv, Host
  PROVE  BooksInv'
<1>1. PICK m \in mail : Consume(m)
  BY DEF Host
<1>2. m.wake \in Wakes
  BY DEF TypeOK, Message
<1>3. /\ Save([Seen EXCEPT ![m.wake] = "consumed"], held, receipt)
      /\ Seen[m.wake] \notin {"none", "gone"} /\ ctl'.awaited = ctl.awaited
  BY <1>1, SeenCtlFacts DEF Consume, Consumable, Control
<1> QED  BY <1>2, <1>3, BooksOneWake DEF WakeStates, BlockedStates

\* Retention takes only receipts that no wake holds and no await names.
LEMMA EvictedBooks ==
  ASSUME NEW st, NEW hd \in [Wakes -> SUBSET Source], NEW rc \in [Source -> Receipts],
         NEW aw \in SUBSET Source, NEW rk, NEW k,
         Books(st, hd, rc, aw), Stripped(st, hd, rc)
  PROVE  LET rc2 == Evicted(aw, st, hd, rc, rk, k)
         IN  Books(st, hd, rc2, aw) /\ Stripped(st, hd, rc2)
<1> DEFINE rc2 == Evicted(aw, st, hd, rc, rk, k)
<1>1. \A s \in Source : rc2[s] = rc[s] \/ (rc[s] = "stored" /\ ~Owed(aw, st, hd, s))
  BY DEF Evicted
<1>2. \A s \in aw : rc2[s] = rc[s]
  BY <1>1 DEF Owed
<1>3. ASSUME NEW w \in Wakes, NEW s \in hd[w]
      PROVE  rc2[s] = rc[s]
  <2>1. st[w] # "none"
    BY DEF Books
  <2>2. rc[s] = "settled" \/ (rc[s] = "stored" /\ st[w] \notin {"gone", "settled"})
    BY DEF Books, Stripped
  <2> QED  BY <1>1, <2>1, <2>2 DEF Owed, Present
<1> HIDE DEF rc2
<1>4. Books(st, hd, rc2, aw)
  BY <1>2, <1>3 DEF Books
<1>5. Stripped(st, hd, rc2)
  BY <1>3 DEF Stripped
<1> QED  BY <1>4, <1>5 DEF rc2

\* A report queues the outcome it stores when it is awaited.
LEMMA NodeBooks ==
  ASSUME TypeOK, BooksInv, Node
  PROVE  BooksInv'
<1>1. ctl.awaited \in SUBSET Source /\ receipt \in [Source -> Receipts]
      /\ held \in [Wakes -> SUBSET Source]
  BY DEF TypeOK
<1>2. ASSUME NEW k \in 0..Cardinality(Source), Repeat(k)
      PROVE  BooksInv'
  <2>1. /\ receipt' = Evicted(ctl.awaited, state, held, receipt, rank, k)
        /\ UNCHANGED <<ctl, state, held>>
    BY <1>2 DEF Repeat, doc
  <2> QED  BY <1>1, <2>1, EvictedBooks DEF BooksInv
<1>3. ASSUME NEW k \in 0..Cardinality(Source), NEW s \in Source, Report(s, k)
      PROVE  BooksInv'
  <2>1. k \in Nat
    BY ConstantsOK, FS_CardinalityType DEF ConstantsOK
  <2>2. PICK rc \in [Source -> Receipts], mid \in [Source -> Receipts], U \in SUBSET Source :
        \E p \in [U -> Wakes] :
          /\ rc = [receipt EXCEPT ![s] = "stored"]
          /\ U = Uncovered(ctl.awaited \cap {s}, rc)
          /\ IsPlacement(p, U, rank')
          /\ mid = Compacted(StateAfter(p), HeldAfter(p), rc)
          /\ state' = [w \in Wakes |-> IF Prunable(StateAfter(p), w) THEN "gone"
                                        ELSE StateAfter(p)[w]]
          /\ held' = HeldAfter(p)
          /\ stamp' = StampAfter(p)
          /\ receipt' = Evicted(ctl.awaited, state', held', mid, rank', k)
    BY <1>3, <2>1, ReportFacts
  <2>3. PICK p \in [U -> Wakes] :
          /\ IsPlacement(p, U, rank')
          /\ mid = Compacted(StateAfter(p), HeldAfter(p), rc)
          /\ state' = [w \in Wakes |-> IF Prunable(StateAfter(p), w) THEN "gone"
                                        ELSE StateAfter(p)[w]]
          /\ held' = HeldAfter(p)
          /\ receipt' = Evicted(ctl.awaited, state', held', mid, rank', k)
    BY <2>2
  <2>4. receipt[s] = "none"
    BY <1>3 DEF Report
  <2>5. \A t \in Source : rc[t] # receipt[t] => receipt[t] = "none"
    BY <1>1, <2>2, <2>4
  <2>6. \A t \in U : rc[t] = "stored" /\ \A w \in Wakes : t \notin held[w]
    BY <2>2, <2>4 DEF Uncovered, BooksInv, Books
  <2>7. \A t \in ctl.awaited : rc[t] = "stored" =>
          t \in U \/ \E w \in Wakes : state[w] \notin {"none", "gone"} /\ t \in held[w]
    <3>1. s \in ctl.awaited => s \in U
      BY <1>1, <2>2, <2>4 DEF Uncovered, BooksInv, Books
    <3> QED  BY <1>1, <2>2, <3>1 DEF BooksInv, Books
  <2>8. \A t \in ctl.awaited : rc[t] # "expired"
    BY <1>1, <2>2 DEF BooksInv, Books
  <2>9. Books(StateAfter(p), HeldAfter(p), rc, ctl.awaited)
    BY <1>1, <2>3, <2>5, <2>6, <2>7, <2>8, PlacedBooks
  <2>10. \A w \in Wakes : Prunable(StateAfter(p), w) => StateAfter(p)[w] = "settled"
    BY DEF Prunable
  <2>11. /\ StateAfter(p) \in [Wakes -> WakeStates]
         /\ HeldAfter(p) \in [Wakes -> SUBSET Source]
    BY PlacementFacts
  <2>12. Compaction(StateAfter(p), held', rc, state', mid)
    BY <2>3, <2>10 DEF Compaction, Compacted
  <2>13. Books(state', held', mid, ctl.awaited) /\ Stripped(state', held', mid)
    BY <1>1, <2>3, <2>9, <2>11, <2>12, CompactionBooks
  <2>14. held' \in [Wakes -> SUBSET Source]
    BY <2>3, <2>11
  <2>15. ctl'.awaited = ctl.awaited
    BY <1>3, SeenCtlFacts DEF Report
  <2> QED  BY <1>1, <2>3, <2>13, <2>14, <2>15, EvictedBooks DEF BooksInv
<1> QED  BY <1>2, <1>3 DEF Node

\* Time, targets and contexts keep the books.
LEMMA EnvironmentBooks ==
  ASSUME TypeOK, BooksInv, Environment
  PROVE  BooksInv'
<1>1. UNCHANGED <<ctl, state, held, receipt>>
  BY DEF Environment, Tick, Revoke, Restore, MoveContext, doc
<1> QED  BY <1>1 DEF BooksInv

\* The books are kept by every step.
THEOREM BooksKept == Spec => []BooksInv
<1>1. Init => BooksInv
  BY DEF Init, BooksInv, Books, Stripped
<1>2. TypeOK /\ BooksInv /\ [Next]_vars => BooksInv'
  <2> SUFFICES ASSUME TypeOK, BooksInv, [Next]_vars PROVE BooksInv'
    OBVIOUS
  <2>1. CASE UNCHANGED vars
    BY <2>1 DEF vars, doc, BooksInv
  <2>2. CASE Next
    BY <2>2, OwnerBooks, ControllerBooks, HostBooks, NodeBooks, EnvironmentBooks DEF Next
  <2> QED  BY <2>1, <2>2
<1> QED  BY <1>1, <1>2, TypeCorrect, PTL DEF Spec

\* An awaited outcome that has been stored is in a wake, and retention takes nothing
\* that is awaited or unsettled.
THEOREM NoLostWake == Spec => []NoOutcomeLost
<1>1. BooksInv => NoOutcomeLost
  BY DEF BooksInv, Books, NoOutcomeLost, AwaitedIsQueued, OwedIsKept, Owed, Present
<1> QED  BY <1>1, BooksKept, PTL

\* The retention pass of a batch of reports expires no receipt that a current await
\* names or an unsettled wake holds (RecordCommandOutcomes).
THEOREM RetentionSparesOwed == Spec => []OwedIsKept
<1>1. NoOutcomeLost => OwedIsKept
  BY DEF NoOutcomeLost
<1> QED  BY <1>1, NoLostWake, PTL
--------------------------------------------------------------------------------
\* Messages and consumes.

Fenced == BlockedStates \cup {"settled", "gone"}
Spent == {"consumed", "needs_attention", "settled", "gone"}

\* A message stands for a wake past its fence, whose sources are those it was prepared
\* for; a consumed wake cannot be consumed again; what was returned is in the consumed
\* wake that returned it.
DeliveryInv ==
  /\ \A m \in mail : state[m.wake] \in Fenced /\ held[m.wake] = m.held
  /\ OneMessagePerWake
  /\ EnvelopeHonoured
  /\ \A w \in Wakes : att[w].consumed => state[w] \in Spent
  /\ \A s \in Source : returned[s] <= 1
  /\ \A s \in Source : returned[s] > 0 => \E w \in Wakes : att[w].consumed /\ s \in held[w]

\* A step that hands out no message and returns nothing keeps the messages, when it
\* keeps wakes past their fence and leaves alone what a redeemable envelope names.
LEMMA Carried ==
  ASSUME TypeOK, DeliveryInv, mail' = mail, returned' = returned,
         \A w \in Wakes :
            /\ held[w] \subseteq held'[w]
            /\ state[w] \in Fenced => state'[w] \in Fenced /\ held'[w] = held[w]
            /\ state[w] \in Spent => state'[w] \in Spent
            /\ att'[w].consumed = att[w].consumed
            /\ Consumable(state'[w]) =>
                 /\ Consumable(state[w])
                 /\ ep'.gen = ep.gen /\ stamp'[w] = stamp[w]
                 /\ att'[w].n = att[w].n /\ att'[w].token = att[w].token
  PROVE  DeliveryInv'
<1>1. \A m \in mail : m.wake \in Wakes
  BY DEF TypeOK, Message
<1>2. \A m \in mail' : state'[m.wake] \in Fenced /\ held'[m.wake] = m.held
  BY <1>1 DEF DeliveryInv
<1>3. OneMessagePerWake'
  BY DEF DeliveryInv, OneMessagePerWake
<1>4. EnvelopeHonoured'
  BY DEF DeliveryInv, EnvelopeHonoured, Consumable
<1>5. \A w \in Wakes : att'[w].consumed => state'[w] \in Spent
  BY DEF DeliveryInv
<1>6. \A s \in Source : returned'[s] <= 1
  BY DEF DeliveryInv
<1>7. \A s \in Source : returned'[s] > 0 => \E w \in Wakes : att'[w].consumed /\ s \in held'[w]
  BY DEF DeliveryInv
<1> QED  BY <1>2, <1>3, <1>4, <1>5, <1>6, <1>7 DEF DeliveryInv

\* The expiry pass keeps wakes past their fence, spent ones spent, and makes none
\* redeemable that was not.
LEMMA SeenDelivery ==
  ASSUME TypeOK
  PROVE  \A w \in Wakes : /\ state[w] \in Fenced => Seen[w] \in Fenced
                          /\ state[w] \in Spent => Seen[w] \in Spent
                          /\ Consumable(Seen[w]) => Consumable(state[w])
  BY SeenFacts DEF Lapse, Fenced, Spent, Consumable, BlockedStates, DeliveryStatuses

\* A save that moves at most one wake, under the same conditions.
LEMMA CarriedSave ==
  ASSUME TypeOK, DeliveryInv, mail' = mail, returned' = returned,
         NEW st \in [Wakes -> WakeStates], Save(st, held, receipt),
         \A w \in Wakes :
            /\ state[w] \in Fenced => st[w] \in Fenced
            /\ state[w] \in Spent => st[w] \in Spent
            /\ att'[w].consumed = att[w].consumed
            /\ Consumable(st[w]) =>
                 /\ Consumable(state[w])
                 /\ ep'.gen = ep.gen /\ stamp'[w] = stamp[w]
                 /\ att'[w].n = att[w].n /\ att'[w].token = att[w].token
  PROVE  DeliveryInv'
<1>1. held \in [Wakes -> SUBSET Source] /\ receipt \in [Source -> Receipts]
  BY DEF TypeOK
<1>2. held' = held /\ Pruned(st)
  BY <1>1, SaveFacts, SavePrunes
<1>3. \A w \in Wakes : /\ st[w] \in Fenced => state'[w] \in Fenced
                       /\ st[w] \in Spent => state'[w] \in Spent
                       /\ Consumable(state'[w]) => Consumable(st[w])
  BY <1>2 DEF Pruned, Fenced, Spent, Consumable
<1> QED  BY <1>2, <1>3, Carried

\* A call that saves what the expiry pass left keeps the messages.
LEMMA CarriedQuiet ==
  ASSUME TypeOK, DeliveryInv, Save(Seen, held, receipt), ep'.gen = ep.gen,
         UNCHANGED <<stamp, att, mail, returned>>
  PROVE  DeliveryInv'
  BY SeenFacts, SeenDelivery, CarriedSave

\* Placing touches no wake past its fence.
LEMMA CarriedPlaced ==
  ASSUME TypeOK, DeliveryInv, NEW U \in SUBSET Source, NEW p \in [U -> Wakes],
         NEW rk, IsPlacement(p, U, rk), Pruned(StateAfter(p)),
         held' = HeldAfter(p), stamp' = StampAfter(p), ep'.gen = ep.gen,
         UNCHANGED <<att, mail, returned>>
  PROVE  DeliveryInv'
<1> DEFINE st == StateAfter(p)
<1>1. \A w \in Wakes : /\ Seen[w] # "none" => st[w] = Seen[w] /\ stamp'[w] = stamp[w]
                       /\ st[w] # "pending" => st[w] = Seen[w]
                       /\ held[w] \subseteq held'[w]
                       /\ Seen[w] \in Fenced => held'[w] = held[w]
  <2>1. \A w \in Wakes : Seen[w] \in Fenced => \A s \in U : p[s] # w
    BY PlacedOpen DEF CanGrow, Fenced, BlockedStates, DeliveryStatuses
  <2>2. held \in [Wakes -> SUBSET Source]
    BY DEF TypeOK
  <2>3. \A w \in Wakes : held'[w] = held[w] \cup {s \in U : p[s] = w}
    BY DEF HeldAfter
  <2>4. \A w \in Wakes : Seen[w] \in Fenced => held'[w] = held[w]
    BY <2>1, <2>2, <2>3
  <2> QED  BY <2>3, <2>4 DEF StateAfter, StampAfter
<1>2. \A w \in Wakes : /\ Seen[w] \in Fenced => state'[w] \in Fenced
                       /\ Seen[w] \in Spent => state'[w] \in Spent
                       /\ Consumable(state'[w]) => Consumable(Seen[w]) /\ stamp'[w] = stamp[w]
  BY <1>1 DEF Pruned, Fenced, Spent, Consumable, BlockedStates, DeliveryStatuses
<1> QED  BY <1>1, <1>2, SeenDelivery, Carried
\* The owner's calls hand out no message; a new controller appears only when no
\* envelope is redeemable.
LEMMA OwnerDelivery ==
  ASSUME TypeOK, DeliveryInv, Owner
  PROVE  DeliveryInv'
<1>1. ASSUME NEW c, ControlOnly(c)
      PROVE  DeliveryInv'
  BY <1>1, CarriedQuiet DEF ControlOnly
<1>2. CASE Poll \/ Pause \/ Recover \/ \E r, f : Enable(r, f)
  BY <1>1, <1>2 DEF Poll, Pause, Recover, Enable
<1>3. CASE PresentController
  <2> DEFINE st == [w \in Wakes |-> IF CanGrow(Seen[w]) THEN "pending" ELSE Seen[w]]
  <2>1. Save(st, held, receipt) /\ UNCHANGED <<att, mail, returned>> /\ ~Blocked(Seen)
    BY <1>3 DEF PresentController
  <2>2. st \in [Wakes -> WakeStates]
    BY SeenFacts DEF WakeStates
  <2>3. \A w \in Wakes : /\ ~Consumable(st[w])
                         /\ Seen[w] \in Fenced => st[w] \in Fenced
                         /\ Seen[w] \in Spent => st[w] \in Spent
    BY <2>1 DEF Blocked, Consumable, CanGrow, Fenced, Spent, BlockedStates, DeliveryStatuses
  <2> QED  BY <2>1, <2>2, <2>3, SeenDelivery, CarriedSave
<1>4. ASSUME NEW A \in SUBSET Source, Await(A)
      PROVE  DeliveryInv'
  <2>1. Uncovered(A, receipt) \in SUBSET Source /\ receipt \in [Source -> Receipts]
    BY DEF Uncovered, TypeOK
  <2>2. PICK p \in [Uncovered(A, receipt) -> Wakes] :
          /\ IsPlacement(p, Uncovered(A, receipt), rank)
          /\ Save(StateAfter(p), HeldAfter(p), receipt)
          /\ stamp' = StampAfter(p)
    BY <1>4 DEF Await
  <2>3. Pruned(StateAfter(p)) /\ held' = HeldAfter(p)
    BY <2>1, <2>2, PlacementFacts, SavePrunes, SaveFacts
  <2>4. ep'.gen = ep.gen /\ UNCHANGED <<att, mail, returned>>
    BY <1>4 DEF Await
  <2> QED  BY <2>1, <2>2, <2>3, <2>4, CarriedPlaced
<1>5. ASSUME NEW w \in Wakes, Settle(w) \/ RecoverWake(w)
      PROVE  DeliveryInv'
  <2> DEFINE st == [Seen EXCEPT ![w] = "settled"]
  <2>1. /\ Save(st, held, receipt)
        /\ UNCHANGED <<ep, stamp, mail, returned>>
        /\ Seen[w] # "gone"
    BY <1>5 DEF Settle, RecoverWake, Present
  <2>2. /\ \A v \in Wakes : v # w => att'[v] = att[v]
        /\ att'[w].consumed = att[w].consumed
    BY <1>5 DEF Settle, RecoverWake, TypeOK, Attempt
  <2>3. st \in [Wakes -> WakeStates]
    BY SeenFacts DEF WakeStates
  <2>4. \A v \in Wakes : /\ Seen[v] \in Fenced => st[v] \in Fenced
                         /\ Seen[v] \in Spent => st[v] \in Spent
                         /\ Consumable(st[v]) => Consumable(Seen[v]) /\ v # w
    BY SeenFacts DEF Fenced, Spent, Consumable
  <2> QED  BY <2>1, <2>2, <2>3, <2>4, SeenDelivery, CarriedSave
<1> QED  BY <1>2, <1>3, <1>4, <1>5 DEF Owner

\* Acquire starts an attempt on a wake without a message; finish moves a wake among
\* the states of an unanswered message.
LEMMA ViewDelivery ==
  ASSUME TypeOK, DeliveryInv, NEW v \in View, NEW g \in 1..MaxGenerations,
         \/ \E agreed \in BOOLEAN : Bind(v, g, agreed)
         \/ Heartbeat(v, g)
         \/ PauseByView(v, g)
         \/ \E w \in Wakes : Acquire(v, g, w)
         \/ \E w \in Wakes, n \in 1..MaxClaims, status \in DeliveryStatuses :
              Finish(v, g, w, n, status)
  PROVE  DeliveryInv'
<1>1. CASE (\E agreed \in BOOLEAN : Bind(v, g, agreed)) \/ Heartbeat(v, g) \/ PauseByView(v, g)
  <2>1. Save(Seen, held, receipt) /\ UNCHANGED <<stamp, att, mail, returned>>
    BY <1>1 DEF Bind, Heartbeat, PauseByView
  <2>2. ep'.gen = ep.gen
    BY <1>1 DEF Bind, Heartbeat, PauseByView, TypeOK
  <2> QED  BY <2>1, <2>2, CarriedQuiet
<1>2. ASSUME NEW w \in Wakes, Acquire(v, g, w)
      PROVE  DeliveryInv'
  <2> DEFINE st == [Seen EXCEPT ![w] = "claimed"]
  <2>1. /\ Save(st, held, receipt)
        /\ UNCHANGED <<ep, stamp, mail, returned>>
        /\ Seen[w] = "pending"
    BY <1>2 DEF Acquire
  <2>2. /\ \A x \in Wakes : x # w => att'[x] = att[x]
        /\ att'[w].consumed = FALSE
    BY <1>2 DEF Acquire, TypeOK, NoAttempt
  <2>3. att[w].consumed = FALSE
    <3>1. state[w] \notin Spent
      BY <2>1, SeenFacts DEF Lapse, Spent
    <3> QED  BY <3>1 DEF DeliveryInv, TypeOK, Attempt
  <2>4. st \in [Wakes -> WakeStates]
    BY SeenFacts DEF WakeStates
  <2>5. \A x \in Wakes : /\ Seen[x] \in Fenced => st[x] \in Fenced
                         /\ Seen[x] \in Spent => st[x] \in Spent
                         /\ Consumable(st[x]) => Consumable(Seen[x]) /\ x # w
    BY <2>1, SeenFacts DEF Fenced, Spent, Consumable, BlockedStates, DeliveryStatuses
  <2> QED  BY <2>1, <2>2, <2>3, <2>4, <2>5, SeenDelivery, CarriedSave
<1>3. ASSUME NEW w \in Wakes, NEW n \in 1..MaxClaims, NEW status \in DeliveryStatuses,
             Finish(v, g, w, n, status)
      PROVE  DeliveryInv'
  <2>1. UNCHANGED <<ep, stamp, mail, returned>>
    BY <1>3 DEF Finish
  <2>2. \A x \in Wakes : /\ att'[x].consumed = att[x].consumed
                         /\ att'[x].n = att[x].n
                         /\ att'[x].token = att[x].token
    BY <1>3 DEF Finish, TypeOK, Attempt
  <2>3. CASE FinishMoves(w, status)
    <3> DEFINE st == [Seen EXCEPT ![w] = status]
    <3>1. Save(st, held, receipt)
      BY <1>3, <2>3 DEF Finish
    <3>2. Seen[w] \in {"prepared", "dispatch_accepted", "delivery_unknown"}
      BY <2>3 DEF FinishMoves
    <3>3. st \in [Wakes -> WakeStates]
      BY SeenFacts DEF WakeStates, BlockedStates
    <3>4. \A x \in Wakes : /\ Seen[x] \in Fenced => st[x] \in Fenced
                           /\ Seen[x] \in Spent => st[x] \in Spent
                           /\ Consumable(st[x]) => Consumable(Seen[x])
      BY <3>2, SeenFacts DEF Fenced, Spent, Consumable, BlockedStates, DeliveryStatuses
    <3> QED  BY <2>1, <2>2, <3>1, <3>3, <3>4, SeenDelivery, CarriedSave
  <2>4. CASE ~FinishMoves(w, status)
    <3>1. Save(Seen, held, receipt)
      BY <1>3, <2>4 DEF Finish
    <3> QED  BY <2>1, <2>2, <3>1, SeenFacts, SeenDelivery, CarriedSave
  <2> QED  BY <2>3, <2>4
<1> QED  BY <1>1, <1>2, <1>3

\* Prepare makes the first and only message of its wake, and the document holds what
\* its envelope says.
LEMMA PrepareDelivery ==
  ASSUME TypeOK, FlowInv, DeliveryInv, NEW v \in View, NEW g \in 1..MaxGenerations,
         NEW w \in Wakes, NEW n \in 1..MaxClaims, Prepare(v, g, w, n)
  PROVE  DeliveryInv'
<1> DEFINE m0 == [wake |-> w, n |-> n, gen |-> g, held |-> held[w]]
           st == [Seen EXCEPT ![w] = "prepared"]
<1>1. /\ Save(st, held, receipt)
      /\ mail' = mail \cup {m0}
      /\ UNCHANGED <<stamp, returned>>
      /\ Seen[w] = "claimed" /\ att[w].n = n /\ g = ep.gen /\ ~Blocked(Seen)
  BY DEF Prepare, Holds, Identity
<1>2. ep'.gen = ep.gen
  BY DEF Prepare, TypeOK
<1>3. /\ \A x \in Wakes : x # w => att'[x] = att[x]
      /\ att'[w].consumed = att[w].consumed /\ att'[w].n = n /\ att'[w].token = TRUE
  BY <1>1 DEF Prepare, TypeOK, Attempt
<1>4. st \in [Wakes -> WakeStates] /\ held \in [Wakes -> SUBSET Source]
      /\ receipt \in [Source -> Receipts]
  BY SeenFacts DEF WakeStates, BlockedStates, TypeOK
<1>5. held' = held /\ Pruned(st)
  BY <1>1, <1>4, SaveFacts, SavePrunes
<1>6. state[w] = "claimed"
  BY <1>1, SeenFacts DEF Lapse
<1>7. \A m \in mail : m.wake \in Wakes /\ m.wake # w
  BY <1>6 DEF DeliveryInv, Fenced, BlockedStates, DeliveryStatuses, TypeOK, Message
<1>8. state'[w] = "prepared"
  BY <1>5, SeenFacts DEF Pruned
<1>9. \A x \in Wakes : x # w => /\ state[x] \in Fenced => state'[x] \in Fenced
                                /\ state[x] \in Spent => state'[x] \in Spent
                                /\ ~Consumable(state'[x])
  BY <1>1, <1>5, SeenFacts, SeenDelivery
     DEF Pruned, Fenced, Spent, Consumable, Blocked, BlockedStates, DeliveryStatuses
<1>10. \A m \in mail' : state'[m.wake] \in Fenced /\ held'[m.wake] = m.held
  BY <1>1, <1>5, <1>7, <1>8, <1>9 DEF DeliveryInv, Fenced, BlockedStates
<1>11. OneMessagePerWake'
  BY <1>1, <1>7 DEF DeliveryInv, OneMessagePerWake
<1>12. EnvelopeHonoured'
  <2>1. stamp[w] = ep.gen
    BY <1>1, SeenFlow DEF Owned
  <2>2. m0 \in mail' /\ m0.wake = w /\ m0.n = att'[w].n /\ m0.gen = ep'.gen /\ stamp'[w] = m0.gen
    BY <1>1, <1>2, <1>3, <2>1
  <2> QED  BY <1>3, <1>9, <2>2 DEF EnvelopeHonoured, Consumable
<1>13. \A x \in Wakes : att'[x].consumed => state'[x] \in Spent
  BY <1>3, <1>6, <1>9 DEF DeliveryInv, Spent
<1>14. \A s \in Source : returned'[s] > 0 => \E x \in Wakes : att'[x].consumed /\ s \in held'[x]
  BY <1>1, <1>3, <1>5 DEF DeliveryInv
<1>15. \A s \in Source : returned'[s] <= 1
  BY <1>1 DEF DeliveryInv
<1> QED  BY <1>10, <1>11, <1>12, <1>13, <1>14, <1>15 DEF DeliveryInv

\* A consume returns sources that no consume returned before: another wake does not
\* hold them, and this one was not consumed.
LEMMA HostDelivery ==
  ASSUME TypeOK, FlowInv, BooksInv, DeliveryInv, Host
  PROVE  DeliveryInv'
<1>1. PICK m \in mail : Consume(m)
  BY DEF Host
<1> DEFINE w  == m.wake
           st == [Seen EXCEPT ![w] = "consumed"]
<1>2. w \in Wakes
  BY DEF TypeOK, Message
<1>3. /\ Save(st, held, receipt)
      /\ UNCHANGED <<ep, stamp, mail>>
      /\ Consumable(Seen[w])
      /\ returned' = [s \in Source |-> IF s \in held[w] THEN returned[s] + 1 ELSE returned[s]]
  BY <1>1 DEF Consume
<1>4. /\ \A x \in Wakes : x # w => att'[x] = att[x]
      /\ att'[w].consumed = TRUE
  BY <1>1, <1>2 DEF Consume, TypeOK, Attempt
<1>5. st \in [Wakes -> WakeStates] /\ held \in [Wakes -> SUBSET Source]
      /\ receipt \in [Source -> Receipts]
  BY SeenFacts DEF WakeStates, BlockedStates, TypeOK
<1>6. held' = held /\ Pruned(st)
  BY <1>3, <1>5, SaveFacts, SavePrunes
<1>7. state'[w] = "consumed"
  BY <1>2, <1>6, SeenFacts DEF Pruned
<1>8. \A x \in Wakes : x # w => /\ state[x] \in Fenced => state'[x] \in Fenced
                                /\ state[x] \in Spent => state'[x] \in Spent
                                /\ ~Consumable(state'[x])
  <2>1. \A x \in Wakes : x # w => ~Consumable(Seen[x])
    BY <1>2, <1>3, SeenFlow DEF Solo, Out, Consumable, BlockedStates, DeliveryStatuses
  <2> QED  BY <1>2, <1>6, <2>1, SeenFacts, SeenDelivery DEF Pruned, Fenced, Spent, Consumable
<1>9. ~att[w].consumed
  BY <1>2, <1>3, SeenDelivery DEF DeliveryInv, Spent, Consumable
<1>10. \A s \in held[w] : returned[s] = 0
  <2> SUFFICES ASSUME NEW s \in held[w], returned[s] > 0 PROVE FALSE
    BY <1>2 DEF TypeOK
  <2>1. s \in Source
    BY <1>2, <1>5
  <2>2. PICK x \in Wakes : att[x].consumed /\ s \in held[x]
    BY <2>1 DEF DeliveryInv
  <2>3. x = w
    BY <1>2, <2>2 DEF BooksInv, Books
  <2> QED  BY <1>9, <2>2, <2>3
<1>11. \A k \in mail' : state'[k.wake] \in Fenced /\ held'[k.wake] = k.held
  BY <1>3, <1>6, <1>7, <1>8 DEF DeliveryInv, Fenced, BlockedStates, TypeOK, Message
<1>12. OneMessagePerWake'
  BY <1>3 DEF DeliveryInv, OneMessagePerWake
<1>13. EnvelopeHonoured'
  BY <1>7, <1>8 DEF EnvelopeHonoured, Consumable
<1>14. \A x \in Wakes : att'[x].consumed => state'[x] \in Spent
  BY <1>4, <1>7, <1>8 DEF DeliveryInv, Spent
<1>15. \A s \in Source : returned'[s] <= 1
  BY <1>3, <1>10 DEF DeliveryInv, TypeOK
<1>16. \A s \in Source : returned'[s] > 0 => \E x \in Wakes : att'[x].consumed /\ s \in held'[x]
  <2>1. ASSUME NEW s \in Source, s \in held[w]
        PROVE  att'[w].consumed /\ s \in held'[w]
    BY <1>4, <1>6, <2>1
  <2>2. ASSUME NEW s \in Source, s \notin held[w], returned'[s] > 0
        PROVE  \E x \in Wakes : att'[x].consumed /\ s \in held'[x]
    <3>1. PICK x \in Wakes : att[x].consumed /\ s \in held[x]
      BY <1>3, <2>2 DEF DeliveryInv
    <3> QED  BY <1>4, <1>6, <2>2, <3>1
  <2> QED  BY <1>2, <2>1, <2>2
<1> QED  BY <1>11, <1>12, <1>13, <1>14, <1>15, <1>16 DEF DeliveryInv

\* A report changes no wake past its fence.
LEMMA NodeDelivery ==
  ASSUME TypeOK, DeliveryInv, Node
  PROVE  DeliveryInv'
<1>1. ASSUME NEW k \in 0..Cardinality(Source), Repeat(k)
      PROVE  DeliveryInv'
  BY <1>1, Carried DEF Repeat, doc
<1>2. ASSUME NEW k \in 0..Cardinality(Source), NEW s \in Source, Report(s, k)
      PROVE  DeliveryInv'
  <2>1. k \in Nat
    BY ConstantsOK, FS_CardinalityType DEF ConstantsOK
  <2>2. PICK U \in SUBSET Source : \E p \in [U -> Wakes] :
          /\ IsPlacement(p, U, rank')
          /\ state' = [w \in Wakes |-> IF Prunable(StateAfter(p), w) THEN "gone"
                                        ELSE StateAfter(p)[w]]
          /\ held' = HeldAfter(p)
          /\ stamp' = StampAfter(p)
    BY <1>2, <2>1, ReportFacts
  <2>3. PICK p \in [U -> Wakes] :
          /\ IsPlacement(p, U, rank')
          /\ state' = [w \in Wakes |-> IF Prunable(StateAfter(p), w) THEN "gone"
                                        ELSE StateAfter(p)[w]]
          /\ held' = HeldAfter(p)
          /\ stamp' = StampAfter(p)
    BY <2>2
  <2>4. \A w \in Wakes : Prunable(StateAfter(p), w) => StateAfter(p)[w] = "settled"
    BY DEF Prunable
  <2>5. Pruned(StateAfter(p))
    BY <2>3, <2>4 DEF Pruned
  <2>6. ep'.gen = ep.gen /\ UNCHANGED <<att, mail, returned>>
    BY <1>2 DEF Report
  <2> QED  BY <2>3, <2>5, <2>6, CarriedPlaced
<1> QED  BY <1>1, <1>2 DEF Node

\* Time, targets and contexts keep the messages.
LEMMA EnvironmentDelivery ==
  ASSUME TypeOK, DeliveryInv, Environment
  PROVE  DeliveryInv'
<1>1. UNCHANGED <<state, held, stamp, mail, returned>>
  BY DEF Environment, Tick, Revoke, Restore, MoveContext, doc
<1>2. ep'.gen = ep.gen
  BY DEF Environment, Tick, Revoke, Restore, MoveContext, doc, TypeOK
<1>3. \A w \in Wakes : /\ att'[w].consumed = att[w].consumed
                       /\ att'[w].n = att[w].n /\ att'[w].token = att[w].token
  BY DEF Environment, Tick, Revoke, Restore, MoveContext, doc, TypeOK, Attempt
<1> QED  BY <1>1, <1>2, <1>3, Carried

\* The invariant of messages and consumes holds in every reachable state.
THEOREM DeliveryKept == Spec => []DeliveryInv
<1>1. Init => DeliveryInv
  BY DEF Init, DeliveryInv, OneMessagePerWake, EnvelopeHonoured, Consumable, NoAttempt
<1>2. TypeOK /\ FlowInv /\ BooksInv /\ DeliveryInv /\ [Next]_vars => DeliveryInv'
  <2> SUFFICES ASSUME TypeOK, FlowInv, BooksInv, DeliveryInv, [Next]_vars
               PROVE  DeliveryInv'
    OBVIOUS
  <2>1. CASE UNCHANGED vars
    BY <2>1, Carried DEF vars, doc
  <2>2. CASE Controller
    BY <2>2, ViewDelivery, PrepareDelivery DEF Controller
  <2>3. CASE Owner \/ Host \/ Node \/ Environment
    BY <2>3, OwnerDelivery, HostDelivery, NodeDelivery, EnvironmentDelivery
  <2> QED  BY <2>1, <2>2, <2>3 DEF Next
<1>3. SingleFlight /\ BelongsToController => FlowInv
  BY DEF FlowInv
<1> QED  BY <1>1, <1>2, <1>3, TypeCorrect, FlowCorrect, BooksKept, PTL DEF Spec

\* No outcome is ever returned by two consumes.
THEOREM ReturnedOnce == Spec => []AtMostOnce
<1>1. DeliveryInv => AtMostOnce
  BY DEF DeliveryInv, AtMostOnce
<1> QED  BY <1>1, DeliveryKept, PTL

\* A wake has one message at most, its sources are those it was prepared for, and its
\* envelope is redeemable as long as its wake may be consumed.
THEOREM OneEnvelope == Spec => [](OneMessagePerWake /\ SourcesFrozen /\ EnvelopeHonoured)
<1>1. DeliveryInv => OneMessagePerWake /\ SourcesFrozen /\ EnvelopeHonoured
  BY DEF DeliveryInv, SourcesFrozen
<1> QED  BY <1>1, DeliveryKept, PTL

\* An outcome that arrives after the fence of a wake goes to another wake
\* (mergeContinuationOutcome).
THEOREM MessageKeepsSources == Spec => []SourcesFrozen
BY OneEnvelope, PTL

\* As long as a consume of a wake could succeed, its message is the one the document
\* is compared with (ConsumeWorkWake).
THEOREM EnvelopeStaysValid == Spec => []EnvelopeHonoured
BY OneEnvelope, PTL

\* Only prepare makes a message and only consume returns outcomes, and each looks at
\* the targets as they are when it commits (validateWakeTargets).
PresentContexts ==
  /\ \A m \in mail' \ mail, s \in Source : s \in m.held => TargetOf[s] \in usable /\ s \notin stale
  /\ \A s \in Source : returned'[s] # returned[s] => TargetOf[s] \in usable /\ s \notin stale

LEMMA NothingHandedOut == mail' = mail /\ returned' = returned => PresentContexts
BY DEF PresentContexts

LEMMA ControllerContexts == Controller => PresentContexts
<1> SUFFICES ASSUME NEW v \in View, NEW g \in 1..MaxGenerations,
                    \/ \E agreed \in BOOLEAN : Bind(v, g, agreed)
                    \/ Heartbeat(v, g)
                    \/ PauseByView(v, g)
                    \/ \E w \in Wakes :
                         \/ Acquire(v, g, w)
                         \/ \E n \in 1..MaxClaims :
                              \/ Prepare(v, g, w, n)
                              \/ \E status \in DeliveryStatuses : Finish(v, g, w, n, status)
             PROVE  PresentContexts
  BY DEF Controller
<1>1. CASE \E w \in Wakes, n \in 1..MaxClaims : Prepare(v, g, w, n)
  <2> PICK w \in Wakes, n \in 1..MaxClaims : Prepare(v, g, w, n)
    BY <1>1
  <2>1. mail' = mail \cup {[wake |-> w, n |-> n, gen |-> g, held |-> held[w]]} /\ returned' = returned
    BY DEF Prepare
  <2>2. \A m \in mail' \ mail : m.held = held[w]
    BY <2>1
  <2>3. \A s \in held[w] : TargetOf[s] \in usable /\ s \notin stale
    BY DEF Prepare, Valid
  <2> QED  BY <2>1, <2>2, <2>3 DEF PresentContexts
<1>2. CASE (\E agreed \in BOOLEAN : Bind(v, g, agreed)) \/ Heartbeat(v, g) \/ PauseByView(v, g)
  BY <1>2, NothingHandedOut DEF Bind, Heartbeat, PauseByView
<1>3. CASE \E w \in Wakes : Acquire(v, g, w)
  BY <1>3, NothingHandedOut DEF Acquire
<1>4. CASE \E w \in Wakes, n \in 1..MaxClaims, status \in DeliveryStatuses : Finish(v, g, w, n, status)
  BY <1>4, NothingHandedOut DEF Finish
<1> QED  BY <1>1, <1>2, <1>3, <1>4

LEMMA HostContexts == Host => PresentContexts
<1> SUFFICES ASSUME NEW m \in mail, Consume(m) PROVE PresentContexts
  BY DEF Host
<1>1. mail' = mail
      /\ returned' = [s \in Source |-> IF s \in held[m.wake] THEN returned[s] + 1 ELSE returned[s]]
  BY DEF Consume
<1>2. \A s \in held[m.wake] : TargetOf[s] \in usable /\ s \notin stale
  BY DEF Consume, Valid
<1>3. \A s \in Source : returned'[s] # returned[s] => s \in held[m.wake]
  BY <1>1
<1> QED  BY <1>1, <1>2, <1>3 DEF PresentContexts

\* No message is made of an outcome of a context that is gone, and none is handed to
\* the model, whenever the target was revoked or moved (prepare, ConsumeWorkWake).
THEOREM OnlyPresentContexts == Spec => NothingFromGoneContexts
<1>1. [Next]_vars => [PresentContexts]_vars
  <2> SUFFICES ASSUME Next PROVE PresentContexts
    OBVIOUS
  <2>1. CASE Owner
    BY <2>1, NothingHandedOut
       DEF Owner, Poll, Pause, Recover, PresentController, Enable, Await, Settle, RecoverWake, ControlOnly
  <2>2. CASE Node
    BY <2>2, NothingHandedOut DEF Node, Repeat, Report
  <2>3. CASE Environment
    BY <2>3, NothingHandedOut DEF Environment, Tick, Revoke, Restore, MoveContext
  <2> QED  BY <2>1, <2>2, <2>3, ControllerContexts, HostContexts DEF Next
<1> QED  BY <1>1, PTL DEF Spec, NothingFromGoneContexts, PresentContexts
--------------------------------------------------------------------------------
\* The refinement of OutcomeDelivery.

\* What a wake in state x makes of the outcomes it holds; c says whether it was
\* consumed before it was closed.
Group(x) ==
  IF CanGrow(x) THEN "queued"
  ELSE IF x \in {"prepared"} \cup DeliveryStatuses THEN "offered"
  ELSE IF x \in {"consumed", "needs_attention"} THEN "delivered"
  ELSE IF x = "none" THEN "none" ELSE "closed"
Stage(g, c) == IF g = "closed" THEN IF c THEN "done" ELSE "dropped" ELSE g

StatusLaw ==
  /\ Status = [s \in Source |-> Status[s]]
  /\ \A s \in Source :
       /\ receipt[s] = "none" => Status[s] = "running"
       /\ receipt[s] = "expired" => Status[s] = "expired"
       /\ \A w \in Wakes : s \in held[w] =>
            /\ Status[s] = Stage(Group(state[w]), att[w].consumed)
            /\ Group(state[w]) \in {"queued", "offered", "delivered", "closed"}
            /\ receipt[s] \in {"stored", "settled"}
       /\ receipt[s] \in {"stored", "settled"} /\ (\A w \in Wakes : s \notin held[w]) =>
            Status[s] = "stored"

\* The status of an outcome is that of the one wake that holds it.
LEMMA StatusIsLawful == TypeOK /\ BooksInv => StatusLaw
<1> SUFFICES ASSUME TypeOK, BooksInv PROVE StatusLaw
  OBVIOUS
<1>1. Status = [s \in Source |-> Status[s]]
  BY DEF Status
<1>2. ASSUME NEW s \in Source
      PROVE  /\ receipt[s] = "none" => Status[s] = "running"
             /\ receipt[s] = "expired" => Status[s] = "expired"
             /\ receipt[s] \in {"stored", "settled"} /\ (\A w \in Wakes : s \notin held[w]) =>
                  Status[s] = "stored"
  <2> DEFINE holders == {w \in Wakes : s \in held[w]}
             w == CHOOSE x \in holders : TRUE
  <2>1. Status[s] = IF receipt[s] = "none" THEN "running"
                    ELSE IF receipt[s] = "expired" THEN "expired"
                    ELSE IF holders = {} THEN "stored"
                    ELSE CASE CanGrow(state[w]) -> "queued"
                           [] state[w] \in {"prepared"} \cup DeliveryStatuses -> "offered"
                           [] state[w] \in {"consumed", "needs_attention"} -> "delivered"
                           [] OTHER -> IF att[w].consumed THEN "done" ELSE "dropped"
    BY <1>2 DEF Status
  <2>2. receipt[s] \in {"stored", "settled"} /\ (\A v \in Wakes : s \notin held[v]) => holders = {}
    OBVIOUS
  <2> HIDE DEF holders, w
  <2>3. receipt[s] = "none" => Status[s] = "running"
    BY <2>1
  <2>4. receipt[s] = "expired" => Status[s] = "expired"
    BY <2>1
  <2>5. receipt[s] \in {"stored", "settled"} /\ holders = {} => Status[s] = "stored"
    BY <2>1
  <2> QED  BY <2>2, <2>3, <2>4, <2>5
<1>3. ASSUME NEW s \in Source, NEW w \in Wakes, s \in held[w]
      PROVE  /\ Status[s] = Stage(Group(state[w]), att[w].consumed)
             /\ Group(state[w]) \in {"queued", "offered", "delivered", "closed"}
             /\ receipt[s] \in {"stored", "settled"}
  <2>1. receipt[s] \in {"stored", "settled"} /\ state[w] # "none" /\ state[w] \in WakeStates
    BY <1>3 DEF TypeOK, BooksInv, Books
  <2>2. {x \in Wakes : s \in held[x]} = {w}
    BY <1>3 DEF BooksInv, Books
  <2>3. (CHOOSE x \in {w} : TRUE) = w
    OBVIOUS
  <2>4. Status[s] = CASE CanGrow(state[w]) -> "queued"
                      [] state[w] \in {"prepared"} \cup DeliveryStatuses -> "offered"
                      [] state[w] \in {"consumed", "needs_attention"} -> "delivered"
                      [] OTHER -> IF att[w].consumed THEN "done" ELSE "dropped"
    BY <2>1, <2>2, <2>3 DEF Status
  <2> QED  BY <2>1, <2>4 DEF Stage, Group, CanGrow, DeliveryStatuses
<1> QED  BY <1>1, <1>2, <1>3 DEF StatusLaw

\* The expiry pass leaves every wake in its group.
LEMMA SeenGroups == TypeOK => \A w \in Wakes : Group(Seen[w]) = Group(state[w])
  BY SeenFacts DEF Lapse, Group, CanGrow, DeliveryStatuses

\* Receipts that change only by compaction.
Stripping == \A s \in Source : receipt'[s] = receipt[s] \/ (receipt[s] = "stored" /\ receipt'[s] = "settled")
Rest(w) == Group(state'[w]) = Group(state[w]) /\ att'[w].consumed = att[w].consumed
Quiet == held' = held /\ Stripping /\ \A w \in Wakes : Rest(w)
Shift(w, from, to, c) ==
  /\ held' = held /\ Stripping /\ \A v \in Wakes : v # w => Rest(v)
  /\ Group(state[w]) = from /\ Group(state'[w]) = to /\ att'[w].consumed = c

\* What a save does to the groups.
LEMMA SaveGroups ==
  ASSUME TypeOK, NEW st \in [Wakes -> WakeStates], Save(st, held, receipt)
  PROVE  held' = held /\ Stripping /\ \A w \in Wakes : Group(state'[w]) = Group(st[w])
<1>1. held \in [Wakes -> SUBSET Source] /\ receipt \in [Source -> Receipts]
  BY DEF TypeOK
<1>2. held' = held /\ Stripping
  BY <1>1, SaveFacts DEF Stripping
<1>3. \A w \in Wakes : state'[w] = st[w] \/ (st[w] = "settled" /\ state'[w] = "gone")
  BY <1>1, SaveFacts
<1> QED  BY <1>2, <1>3 DEF Group, CanGrow, DeliveryStatuses

\* A call that saves what the expiry pass left moves no wake to another group.
LEMMA SaveIsQuiet ==
  ASSUME TypeOK, Save(Seen, held, receipt),
         \A w \in Wakes : att'[w].consumed = att[w].consumed
  PROVE  Quiet
BY SeenFacts, SeenGroups, SaveGroups DEF Quiet, Rest

\* A call that saves one wake in a new state moves that wake only.
LEMMA SaveShifts ==
  ASSUME TypeOK, NEW w \in Wakes, NEW x \in WakeStates, Save([Seen EXCEPT ![w] = x], held, receipt),
         \A v \in Wakes : v # w => att'[v].consumed = att[v].consumed
  PROVE  Shift(w, Group(Seen[w]), Group(x), att'[w].consumed)
<1> DEFINE st == [Seen EXCEPT ![w] = x]
<1>1. st \in [Wakes -> WakeStates] /\ st[w] = x /\ \A v \in Wakes : v # w => st[v] = Seen[v]
  BY SeenFacts
<1> HIDE DEF st
<1>2. held' = held /\ Stripping /\ \A v \in Wakes : Group(state'[v]) = Group(st[v])
  BY <1>1, SaveGroups DEF st
<1> QED  BY <1>1, <1>2, SeenGroups DEF Shift, Rest

\* An offer is made only when nothing is out.
Clear == \A w \in Wakes : Group(state[w]) \notin {"offered", "delivered"}

\* The calls of the owner other than await.
LEMMA OwnerMoves ==
  ASSUME TypeOK, DeliveryInv, Owner, \A A \in SUBSET Source : ~Await(A)
  PROVE  Quiet \/ \E w \in Wakes, g \in {"queued", "offered", "delivered"} :
                    Shift(w, g, "closed", att[w].consumed)
<1>1. ASSUME NEW c, ControlOnly(c)
      PROVE  Quiet
  BY <1>1, SaveIsQuiet DEF ControlOnly
<1>2. CASE Poll \/ Pause \/ Recover \/ \E r, f : Enable(r, f)
  BY <1>1, <1>2 DEF Poll, Pause, Recover, Enable
<1>3. CASE PresentController
  <2> DEFINE st == [w \in Wakes |-> IF CanGrow(Seen[w]) THEN "pending" ELSE Seen[w]]
  <2>1. Save(st, held, receipt) /\ UNCHANGED att
    BY <1>3 DEF PresentController
  <2>2. st \in [Wakes -> WakeStates]
    BY SeenFacts DEF WakeStates
  <2>3. \A w \in Wakes : Group(st[w]) = Group(Seen[w])
    BY DEF Group, CanGrow
  <2> HIDE DEF st
  <2> QED  BY <2>1, <2>2, <2>3, SeenGroups, SaveGroups DEF Quiet, Rest
<1>4. ASSUME NEW w \in Wakes, Settle(w) \/ RecoverWake(w)
      PROVE  \E g \in {"queued", "offered", "delivered"} : Shift(w, g, "closed", att[w].consumed)
  <2>1. /\ Save([Seen EXCEPT ![w] = "settled"], held, receipt)
        /\ Seen[w] \notin {"none", "gone", "settled"}
    BY <1>4 DEF Settle, RecoverWake, Present
  <2>2. \A v \in Wakes : att'[v].consumed = att[v].consumed
    BY <1>4 DEF Settle, RecoverWake, TypeOK, Attempt
  <2>3. Shift(w, Group(Seen[w]), Group("settled"), att[w].consumed)
    BY <2>1, <2>2, SaveShifts DEF WakeStates
  <2>4. Group("settled") = "closed" /\ Group(Seen[w]) \in {"queued", "offered", "delivered"}
    BY <2>1, SeenFacts DEF Group, CanGrow, DeliveryStatuses, WakeStates, BlockedStates
  <2> QED  BY <2>3, <2>4
<1> QED  BY <1>2, <1>3, <1>4 DEF Owner

\* The calls of a view: a prepare is an offer, made when nothing is out.
LEMMA ControllerMoves ==
  ASSUME TypeOK, DeliveryInv, Controller
  PROVE  Quiet \/ (Clear /\ \E w \in Wakes : Shift(w, "queued", "offered", att[w].consumed))
<1>1. ASSUME NEW v \in View, NEW g \in 1..MaxGenerations,
             (\E agreed \in BOOLEAN : Bind(v, g, agreed)) \/ Heartbeat(v, g) \/ PauseByView(v, g)
      PROVE  Quiet
  BY <1>1, SaveIsQuiet DEF Bind, Heartbeat, PauseByView
<1>2. ASSUME NEW v \in View, NEW g \in 1..MaxGenerations, NEW w \in Wakes, Acquire(v, g, w)
      PROVE  Quiet
  <2>1. Save([Seen EXCEPT ![w] = "claimed"], held, receipt) /\ Seen[w] = "pending"
    BY <1>2 DEF Acquire
  <2>2. \A x \in Wakes : att'[x].consumed = att[x].consumed
    <3>1. /\ \A x \in Wakes : x # w => att'[x] = att[x]
          /\ att'[w].consumed = FALSE
      BY <1>2 DEF Acquire, TypeOK, NoAttempt
    <3>2. state[w] \notin Spent
      BY <2>1, SeenFacts DEF Lapse, Spent
    <3>3. att[w].consumed = FALSE
      BY <3>2 DEF DeliveryInv, TypeOK, Attempt
    <3> QED  BY <3>1, <3>3
  <2>3. Shift(w, Group(Seen[w]), Group("claimed"), att[w].consumed)
    BY <2>1, <2>2, SaveShifts DEF WakeStates
  <2> QED  BY <2>1, <2>2, <2>3 DEF Shift, Quiet, Rest, Group, CanGrow
<1>3. ASSUME NEW v \in View, NEW g \in 1..MaxGenerations, NEW w \in Wakes,
             NEW n \in 1..MaxClaims, Prepare(v, g, w, n)
      PROVE  Shift(w, "queued", "offered", att[w].consumed) /\ Clear
  <2>1. /\ Save([Seen EXCEPT ![w] = "prepared"], held, receipt)
        /\ Seen[w] = "claimed" /\ ~Blocked(Seen)
    BY <1>3 DEF Prepare
  <2>2. \A x \in Wakes : att'[x].consumed = att[x].consumed
    BY <1>3 DEF Prepare, TypeOK, Attempt
  <2>3. Shift(w, Group(Seen[w]), Group("prepared"), att[w].consumed)
    BY <2>1, <2>2, SaveShifts DEF WakeStates, BlockedStates
  <2>4. \A x \in Wakes : Group(Seen[x]) \notin {"offered", "delivered"}
    BY <2>1 DEF Blocked, Group, CanGrow, BlockedStates, DeliveryStatuses
  <2> QED  BY <2>1, <2>3, <2>4, SeenGroups DEF Group, CanGrow, Clear
<1>4. ASSUME NEW v \in View, NEW g \in 1..MaxGenerations, NEW w \in Wakes,
             NEW n \in 1..MaxClaims, NEW status \in DeliveryStatuses, Finish(v, g, w, n, status)
      PROVE  Quiet
  <2>1. \A x \in Wakes : att'[x].consumed = att[x].consumed
    BY <1>4 DEF Finish, TypeOK, Attempt
  <2>2. CASE FinishMoves(w, status)
    <3>1. Save([Seen EXCEPT ![w] = status], held, receipt)
      BY <1>4, <2>2 DEF Finish
    <3>2. status \in WakeStates
      BY DEF WakeStates, BlockedStates
    <3>3. Shift(w, Group(Seen[w]), Group(status), att[w].consumed)
      BY <2>1, <3>1, <3>2, SaveShifts
    <3>4. Group(Seen[w]) = "offered" /\ Group(status) = "offered"
      BY <2>2 DEF FinishMoves, Group, CanGrow, DeliveryStatuses
    <3> QED  BY <2>1, <3>3, <3>4 DEF Shift, Quiet, Rest
  <2>3. CASE ~FinishMoves(w, status)
    BY <1>4, <2>1, <2>3, SaveIsQuiet DEF Finish
  <2> QED  BY <2>2, <2>3
<1> QED  BY <1>1, <1>2, <1>3, <1>4 DEF Controller

\* A consume delivers.
LEMMA HostMoves ==
  ASSUME TypeOK, Host
  PROVE  \E w \in Wakes : Shift(w, "offered", "delivered", TRUE)
<1>1. PICK m \in mail : Consume(m)
  BY DEF Host
<1> DEFINE w == m.wake
<1>2. w \in Wakes
  BY DEF TypeOK, Message
<1>3. Save([Seen EXCEPT ![w] = "consumed"], held, receipt) /\ Consumable(Seen[w])
  BY <1>1 DEF Consume
<1>4. att'[w].consumed = TRUE /\ \A v \in Wakes : v # w => att'[v].consumed = att[v].consumed
  BY <1>1, <1>2 DEF Consume, TypeOK, Attempt
<1> HIDE DEF w
<1>5. Shift(w, Group(Seen[w]), Group("consumed"), TRUE)
  BY <1>2, <1>3, <1>4, SaveShifts DEF WakeStates, BlockedStates
<1>6. Group(Seen[w]) = "offered" /\ Group("consumed") = "delivered"
  BY <1>3 DEF Consumable, Group, CanGrow, DeliveryStatuses
<1> QED  BY <1>2, <1>5, <1>6

\* Outcomes are placed in wakes that become or stay queued; of the other outcomes the
\* wakes stay in their groups.
LEMMA PlacedGroups ==
  ASSUME TypeOK, BooksInv, NEW U \in SUBSET Source, NEW p \in [U -> Wakes], NEW rk,
         IsPlacement(p, U, rk), Pruned(StateAfter(p)), held' = HeldAfter(p), att' = att
  PROVE  /\ \A s \in U : s \in held'[p[s]] /\ Group(state'[p[s]]) = "queued"
         /\ \A w \in Wakes : held[w] \subseteq held'[w]
         /\ \A w \in Wakes, s \in Source \ U : s \in held'[w] => s \in held[w]
         /\ \A w \in Wakes : Rest(w) \/ (Group(state[w]) = "none" /\ Group(state'[w]) = "queued")
<1>1. \A w \in Wakes : held'[w] = held[w] \cup {s \in U : p[s] = w}
  BY DEF HeldAfter
<1>2. \A w \in Wakes : \/ StateAfter(p)[w] = Seen[w]
                       \/ Seen[w] = "none" /\ StateAfter(p)[w] = "pending"
  BY DEF StateAfter
<1>3. \A w \in Wakes : Group(state'[w]) = Group(StateAfter(p)[w])
  BY DEF Pruned, Group, CanGrow, DeliveryStatuses
<1>4. \A s \in U : CanGrow(StateAfter(p)[p[s]])
  BY PlacedOpen DEF StateAfter, CanGrow
<1>5. \A s \in U : Group(state'[p[s]]) = "queued"
  BY <1>3, <1>4 DEF Group
<1>6. \A w \in Wakes : Rest(w) \/ (Group(state[w]) = "none" /\ Group(state'[w]) = "queued")
  BY <1>2, <1>3, SeenGroups DEF Rest, Group, CanGrow, DeliveryStatuses
<1> QED  BY <1>1, <1>5, <1>6

\* A delivered outcome has been consumed.
DeliveredInv == \A w \in Wakes : Group(state[w]) = "delivered" => att[w].consumed

\* A report (recordCommandOutcome and the retention pass of its batch) spelled out:
\* its outcome is placed or not, receipts are compacted, then evicted.
LEMMA ReportPlaces ==
  ASSUME TypeOK, BooksInv, NEW s \in Source, NEW k \in Nat, Report(s, k)
  PROVE  \E mid \in [Source -> Receipts], U \in SUBSET {s} : \E p \in [U -> Wakes] :
           /\ IsPlacement(p, U, rank') /\ Pruned(StateAfter(p)) /\ held' = HeldAfter(p) /\ att' = att
           /\ \A t \in Source : t # s => mid[t] = receipt[t] \/ (receipt[t] = "stored" /\ mid[t] = "settled")
           /\ mid[s] \in {"stored", "settled"}
           /\ receipt' = Evicted(ctl.awaited, state', held', mid, rank', k)
<1>1. PICK rc \in [Source -> Receipts], mid \in [Source -> Receipts], U \in SUBSET Source :
      \E p \in [U -> Wakes] :
        /\ rc = [receipt EXCEPT ![s] = "stored"]
        /\ U = Uncovered(ctl.awaited \cap {s}, rc)
        /\ IsPlacement(p, U, rank')
        /\ mid = Compacted(StateAfter(p), HeldAfter(p), rc)
        /\ state' = [w \in Wakes |-> IF Prunable(StateAfter(p), w) THEN "gone"
                                      ELSE StateAfter(p)[w]]
        /\ held' = HeldAfter(p)
        /\ stamp' = StampAfter(p)
        /\ receipt' = Evicted(ctl.awaited, state', held', mid, rank', k)
  BY ReportFacts
<1>2. U \subseteq {s} /\ \A t \in Source : rc[t] = IF t = s THEN "stored" ELSE receipt[t]
  BY <1>1 DEF Uncovered, TypeOK
<1>3. PICK p \in [U -> Wakes] :
        /\ IsPlacement(p, U, rank')
        /\ mid = Compacted(StateAfter(p), HeldAfter(p), rc)
        /\ state' = [w \in Wakes |-> IF Prunable(StateAfter(p), w) THEN "gone"
                                      ELSE StateAfter(p)[w]]
        /\ held' = HeldAfter(p)
        /\ receipt' = Evicted(ctl.awaited, state', held', mid, rank', k)
  BY <1>1
<1>4. Pruned(StateAfter(p))
  BY <1>3 DEF Pruned, Prunable
<1>5. \A t \in Source : mid[t] = rc[t] \/ (rc[t] = "stored" /\ mid[t] = "settled")
  BY <1>3 DEF Compacted
<1>6. att' = att
  BY DEF Report
<1> QED  BY <1>2, <1>3, <1>4, <1>5, <1>6

\* An await spelled out: it places stored outcomes that no wake holds.
LEMMA AwaitPlaces ==
  ASSUME TypeOK, BooksInv, NEW A \in SUBSET Source, Await(A)
  PROVE  \E U \in SUBSET Source : \E p \in [U -> Wakes] :
           /\ IsPlacement(p, U, rank) /\ Pruned(StateAfter(p)) /\ held' = HeldAfter(p) /\ att' = att
           /\ Stripping
           /\ \A s \in U : receipt[s] = "stored" /\ \A w \in Wakes : s \notin held[w]
<1> DEFINE U == Uncovered(A, receipt)
<1>1. U \in SUBSET Source /\ receipt \in [Source -> Receipts]
  BY DEF Uncovered, TypeOK
<1>2. PICK p \in [U -> Wakes] :
        IsPlacement(p, U, rank) /\ Save(StateAfter(p), HeldAfter(p), receipt)
  BY DEF Await
<1>3. \A s \in U : receipt[s] = "stored" /\ \A w \in Wakes : s \notin held[w]
  BY SeenFacts DEF Uncovered, Present, Lapse, BooksInv, Books
<1> HIDE DEF U
<1>4. /\ StateAfter(p) \in [Wakes -> WakeStates]
      /\ HeldAfter(p) \in [Wakes -> SUBSET Source]
  BY <1>1, PlacementFacts
<1>5. Pruned(StateAfter(p)) /\ held' = HeldAfter(p) /\ Stripping
  BY <1>1, <1>2, <1>4, SavePrunes, SaveFacts DEF Stripping
<1>6. att' = att
  BY DEF Await
<1> QED  BY <1>1, <1>2, <1>3, <1>5, <1>6

\* The other steps create no wakes and touch no outcome but by retention.
LEMMA EnvironmentQuiet == TypeOK /\ Environment => Quiet
<1> SUFFICES ASSUME TypeOK, Environment PROVE Quiet
  OBVIOUS
<1>1. UNCHANGED <<state, held, receipt>>
  BY DEF Environment, Tick, Revoke, Restore, MoveContext, doc
<1>2. \A w \in Wakes : att'[w].consumed = att[w].consumed
  BY DEF Environment, Tick, Revoke, Restore, MoveContext, doc, TypeOK, Attempt
<1> QED  BY <1>1, <1>2 DEF Quiet, Rest, Stripping

\* A batch with nothing new leaves the document alone.
LEMMA RepeatFacts ==
  ASSUME NEW k, Repeat(k)
  PROVE  /\ UNCHANGED <<state, held, att>> /\ receipt' # receipt
         /\ receipt' = Evicted(ctl.awaited, state, held, receipt, rank, k)
BY DEF Repeat, doc

\* Only a consume makes outcomes delivered.
LEMMA DeliveredStep ==
  ASSUME TypeOK, BooksInv, DeliveryInv, DeliveredInv, [Next]_vars
  PROVE  DeliveredInv'
<1>1. ASSUME \A w \in Wakes : Rest(w) \/ Group(state'[w]) # "delivered" \/ att'[w].consumed
      PROVE  DeliveredInv'
  BY <1>1 DEF DeliveredInv, Rest
<1>2. CASE Quiet
  BY <1>1, <1>2 DEF Quiet
<1>3. ASSUME NEW w \in Wakes, NEW from, NEW to, NEW c, Shift(w, from, to, c),
             to # "delivered" \/ c = TRUE
      PROVE  DeliveredInv'
  BY <1>1, <1>3 DEF Shift
<1>4. ASSUME NEW U \in SUBSET Source, NEW p \in [U -> Wakes], NEW rk,
             IsPlacement(p, U, rk), Pruned(StateAfter(p)), held' = HeldAfter(p), att' = att
      PROVE  DeliveredInv'
  <2>1. \A w \in Wakes : Rest(w) \/ Group(state'[w]) = "queued"
    BY <1>4, PlacedGroups
  <2> QED  BY <1>1, <2>1
<1>5. CASE \E A \in SUBSET Source : Await(A)
  BY <1>4, <1>5, AwaitPlaces
<1>6. CASE Owner /\ \A A \in SUBSET Source : ~Await(A)
  BY <1>2, <1>3, <1>6, OwnerMoves
<1>7. CASE Controller
  BY <1>2, <1>3, <1>7, ControllerMoves
<1>8. CASE Host
  BY <1>3, <1>8, HostMoves
<1>9. CASE Environment
  BY <1>2, <1>9, EnvironmentQuiet
<1>10. ASSUME NEW k \in 0..Cardinality(Source), NEW s \in Source, Report(s, k)
       PROVE  DeliveredInv'
  <2>1. k \in Nat
    BY ConstantsOK, FS_CardinalityType DEF ConstantsOK
  <2>2. PICK U \in SUBSET {s} : \E p \in [U -> Wakes] :
           IsPlacement(p, U, rank') /\ Pruned(StateAfter(p)) /\ held' = HeldAfter(p) /\ att' = att
    BY <1>10, <2>1, ReportPlaces
  <2>3. U \in SUBSET Source
    OBVIOUS
  <2> QED  BY <1>4, <2>2, <2>3
<1>11. ASSUME NEW k \in 0..Cardinality(Source), Repeat(k)
       PROVE  DeliveredInv'
  BY <1>11, RepeatFacts DEF DeliveredInv
<1>12. CASE UNCHANGED vars
  BY <1>12 DEF vars, doc, DeliveredInv
<1> QED  BY <1>5, <1>6, <1>7, <1>8, <1>9, <1>10, <1>11, <1>12 DEF Next, Node

\* What every step can rely on.
Refinable == TypeOK /\ FlowInv /\ BooksInv /\ DeliveryInv /\ DeliveredInv /\ StatusLaw

\* The status of the outcomes of one wake after it has moved.
LEMMA ShiftMoves ==
  ASSUME Refinable, StatusLaw', NEW w \in Wakes, NEW from, NEW to, NEW c, Shift(w, from, to, c)
  PROVE  Status' = Promise!Move(held[w], Stage(to, c))
<1>1. ASSUME NEW s \in Source
      PROVE  Status'[s] = IF s \in held[w] THEN Stage(to, c) ELSE Status[s]
  <2>1. CASE s \in held[w]
    BY <2>1 DEF Shift, StatusLaw
  <2>2. ASSUME s \notin held[w], NEW v \in Wakes, s \in held[v]
        PROVE  Status'[s] = Status[s]
    BY <2>2 DEF Shift, Rest, Refinable, StatusLaw
  <2>3. CASE \A v \in Wakes : s \notin held[v]
    <3>1. receipt[s] \in {"none", "expired", "stored", "settled"}
      BY DEF Refinable, TypeOK, Receipts
    <3>2. \A v \in Wakes : s \notin held'[v]
      BY <2>3 DEF Shift
    <3>3. receipt'[s] = receipt[s] \/ (receipt[s] = "stored" /\ receipt'[s] = "settled")
      BY DEF Shift, Stripping
    <3> QED  BY <2>3, <3>1, <3>2, <3>3 DEF Refinable, StatusLaw
  <2> QED  BY <2>1, <2>2, <2>3
<1>2. Status' = [s \in Source |-> Status'[s]]
  BY DEF StatusLaw
<1> QED  BY <1>1, <1>2 DEF Promise!Move

\* A step that moves no wake to another group and strips receipts at most is a
\* stuttering step of the promise.
LEMMA QuietStutters ==
  ASSUME Refinable, StatusLaw', Quiet
  PROVE  Status' = Status
<1>1. ASSUME NEW s \in Source
      PROVE  Status'[s] = Status[s]
  <2>1. ASSUME NEW v \in Wakes, s \in held[v]
        PROVE  Status'[s] = Status[s]
    BY <2>1 DEF Quiet, Rest, Refinable, StatusLaw
  <2>2. CASE \A v \in Wakes : s \notin held[v]
    <3>1. receipt[s] \in {"none", "expired", "stored", "settled"}
      BY DEF Refinable, TypeOK, Receipts
    <3>2. \A v \in Wakes : s \notin held'[v]
      BY <2>2 DEF Quiet
    <3>3. receipt'[s] = receipt[s] \/ (receipt[s] = "stored" /\ receipt'[s] = "settled")
      BY DEF Quiet, Stripping
    <3> QED  BY <2>2, <3>1, <3>2, <3>3 DEF Refinable, StatusLaw
  <2> QED  BY <2>1, <2>2
<1> QED  BY <1>1 DEF Refinable, StatusLaw

\* The outcomes that are out are those of one wake.
LEMMA OutIsOneWake ==
  ASSUME Refinable, NEW w \in Wakes, NEW g \in {"queued", "offered", "delivered"},
         Group(state[w]) = g
  PROVE  /\ held[w] \subseteq Promise!With(g)
         /\ g # "queued" => Promise!With(g) = held[w]
<1>1. held[w] \subseteq Source
  BY DEF Refinable, TypeOK
<1>2. \A s \in held[w] : Status[s] = g
  BY <1>1 DEF Refinable, StatusLaw, Stage
<1>3. ASSUME g # "queued", NEW s \in Source, Status[s] = g
      PROVE  s \in held[w]
  <2>1. PICK v \in Wakes : s \in held[v]
    BY <1>3 DEF Refinable, StatusLaw, TypeOK, Receipts
  <2>2. Group(state[v]) = g
    BY <1>3, <2>1 DEF Refinable, StatusLaw, Stage
  <2>3. \A x \in Wakes : Group(state[x]) = g => InFlight(x)
    BY <1>3 DEF Group, InFlight, BlockedStates, DeliveryStatuses
  <2> QED  BY <2>1, <2>2, <2>3 DEF Refinable, FlowInv, SingleFlight
<1> QED  BY <1>1, <1>2, <1>3 DEF Promise!With

\* Moving nothing is stuttering.
LEMMA StatusKept ==
  ASSUME StatusLaw, NEW x, Status' = Promise!Move({}, x)
  PROVE  Status' = Status
BY DEF Promise!Move, StatusLaw

\* A wake that moves is a step of the promise, or none if it holds nothing.
LEMMA OfferImplements ==
  ASSUME Refinable, StatusLaw', Clear, NEW w \in Wakes, Shift(w, "queued", "offered", att[w].consumed)
  PROVE  [Promise!Next]_Status
<1>1. Status' = Promise!Move(held[w], "offered")
  BY ShiftMoves DEF Stage
<1>2. CASE held[w] = {}
  BY <1>1, <1>2, StatusKept DEF Refinable
<1>3. CASE held[w] # {}
  <2>1. held[w] \subseteq Promise!With("queued")
    BY OutIsOneWake DEF Shift
  <2>2. ASSUME NEW s \in Source
        PROVE  Status[s] \notin {"offered", "delivered"}
    <3>1. ASSUME NEW v \in Wakes, s \in held[v]
          PROVE  Status[s] \notin {"offered", "delivered"}
      BY <3>1 DEF Clear, Refinable, StatusLaw, Stage
    <3>2. CASE \A v \in Wakes : s \notin held[v]
      BY <3>2 DEF Refinable, StatusLaw, TypeOK, Receipts
    <3> QED  BY <3>1, <3>2
  <2>3. Promise!With("offered") \cup Promise!With("delivered") = {}
    BY <2>2 DEF Promise!With
  <2>4. Promise!Offer(held[w])
    BY <1>1, <1>3, <2>1, <2>3 DEF Promise!Offer
  <2> QED  BY <2>1, <2>4 DEF Promise!Next
<1> QED  BY <1>2, <1>3

\* A consume delivers the whole batch that is out.
LEMMA ConsumeImplements ==
  ASSUME Refinable, StatusLaw', NEW w \in Wakes, Shift(w, "offered", "delivered", TRUE)
  PROVE  [Promise!Next]_Status
<1>1. Status' = Promise!Move(held[w], "delivered")
  BY ShiftMoves DEF Stage
<1>2. Promise!With("offered") = held[w]
  BY OutIsOneWake DEF Shift
<1>3. CASE held[w] = {}
  BY <1>1, <1>3, StatusKept DEF Refinable
<1>4. CASE held[w] # {}
  BY <1>1, <1>2, <1>4 DEF Promise!Deliver, Promise!Next
<1> QED  BY <1>3, <1>4

\* A settlement or a manual resolution closes the outcomes of one wake: as done if
\* they were delivered, as dropped if not.
LEMMA CloseImplements ==
  ASSUME Refinable, StatusLaw', NEW w \in Wakes, NEW g \in {"queued", "offered", "delivered"},
         Shift(w, g, "closed", att[w].consumed)
  PROVE  [Promise!Next]_Status
<1>1. Status' = Promise!Move(held[w], IF att[w].consumed THEN "done" ELSE "dropped")
  BY ShiftMoves DEF Stage
<1>2. Group(state[w]) = g
  BY DEF Shift
<1>3. att[w].consumed <=> g = "delivered"
  <2>1. g = "delivered" => att[w].consumed
    BY <1>2 DEF Refinable, DeliveredInv
  <2>2. g # "delivered" => state[w] \notin Spent
    BY <1>2 DEF Group, CanGrow, DeliveryStatuses, Spent
  <2> QED  BY <2>1, <2>2 DEF Refinable, DeliveryInv
<1>4. CASE held[w] = {}
  BY <1>1, <1>4, StatusKept DEF Refinable
<1>5. CASE held[w] # {} /\ g = "queued"
  <2>1. Promise!CloseQueued(held[w]) /\ held[w] \subseteq Promise!With("queued")
    BY <1>1, <1>2, <1>3, <1>5, OutIsOneWake DEF Promise!CloseQueued
  <2> QED  BY <2>1 DEF Promise!Next
<1>6. CASE held[w] # {} /\ g = "offered"
  <2>1. Promise!CloseOffered
    BY <1>1, <1>2, <1>3, <1>6, OutIsOneWake DEF Promise!CloseOffered
  <2> QED  BY <2>1 DEF Promise!Next
<1>7. CASE held[w] # {} /\ g = "delivered"
  <2>1. Promise!CloseDelivered
    BY <1>1, <1>2, <1>3, <1>7, OutIsOneWake DEF Promise!CloseDelivered
  <2> QED  BY <2>1 DEF Promise!Next
<1> QED  BY <1>4, <1>5, <1>6, <1>7

\* Merging outcomes: those merged are queued, those held already keep their status.
LEMMA PlacedStatus ==
  ASSUME Refinable, StatusLaw', NEW U \in SUBSET Source, NEW p \in [U -> Wakes], NEW rk,
         IsPlacement(p, U, rk), Pruned(StateAfter(p)), held' = HeldAfter(p), att' = att
  PROVE  /\ \A s \in U : Status'[s] = "queued"
         /\ \A s \in Source, w \in Wakes : s \in held[w] => Status'[s] = Status[s]
         /\ \A s \in Source \ U : (\A w \in Wakes : s \notin held[w]) => \A w \in Wakes : s \notin held'[w]
<1>1. /\ \A s \in U : s \in held'[p[s]] /\ Group(state'[p[s]]) = "queued"
      /\ \A w \in Wakes : held[w] \subseteq held'[w]
      /\ \A w \in Wakes, s \in Source \ U : s \in held'[w] => s \in held[w]
      /\ \A w \in Wakes : Rest(w) \/ (Group(state[w]) = "none" /\ Group(state'[w]) = "queued")
  BY PlacedGroups DEF Refinable
<1>2. ASSUME NEW s \in U
      PROVE  Status'[s] = "queued"
  <2>1. s \in Source /\ p[s] \in Wakes
    OBVIOUS
  <2>2. Status'[s] = Stage(Group(state'[p[s]]), att'[p[s]].consumed)
    BY <1>1, <2>1 DEF StatusLaw
  <2> QED  BY <1>1, <2>2 DEF Stage
<1>3. ASSUME NEW s \in Source, NEW w \in Wakes, s \in held[w]
      PROVE  Status'[s] = Status[s]
  <2>1. Status[s] = Stage(Group(state[w]), att[w].consumed) /\ Group(state[w]) # "none"
    BY <1>3 DEF Refinable, StatusLaw
  <2>2. s \in held'[w]
    BY <1>1, <1>3
  <2>3. Status'[s] = Stage(Group(state'[w]), att'[w].consumed)
    BY <2>2 DEF StatusLaw
  <2> QED  BY <1>1, <2>1, <2>3 DEF Rest
<1> QED  BY <1>1, <1>2, <1>3

\* What the receipt of an outcome says of its status when no wake holds it.
LEMMA UnheldStatus ==
  ASSUME TypeOK, StatusLaw, NEW s \in Source, \A w \in Wakes : s \notin held[w]
  PROVE  /\ receipt[s] \in Receipts
         /\ Status[s] = IF receipt[s] = "none" THEN "running"
                        ELSE IF receipt[s] = "expired" THEN "expired" ELSE "stored"
BY DEF TypeOK, StatusLaw, Receipts

\* An await moves stored outcomes to the queue.
LEMMA AwaitImplements ==
  ASSUME Refinable, StatusLaw', NEW A \in SUBSET Source, Await(A)
  PROVE  [Promise!Next]_Status
<1>1. PICK U \in SUBSET Source : \E p \in [U -> Wakes] :
        /\ IsPlacement(p, U, rank) /\ Pruned(StateAfter(p)) /\ held' = HeldAfter(p) /\ att' = att
        /\ Stripping
        /\ \A s \in U : receipt[s] = "stored" /\ \A w \in Wakes : s \notin held[w]
  BY AwaitPlaces DEF Refinable
<1>2. /\ \A s \in U : Status'[s] = "queued"
      /\ \A s \in Source, w \in Wakes : s \in held[w] => Status'[s] = Status[s]
      /\ \A s \in Source \ U : (\A w \in Wakes : s \notin held[w]) => \A w \in Wakes : s \notin held'[w]
  BY <1>1, PlacedStatus
<1>3. Stripping /\ \A s \in U : receipt[s] = "stored" /\ \A w \in Wakes : s \notin held[w]
  BY <1>1
<1>4. ASSUME NEW s \in Source \ U, \A w \in Wakes : s \notin held[w]
      PROVE  Status'[s] = Status[s]
  <2>1. Status[s] = IF receipt[s] = "none" THEN "running"
                    ELSE IF receipt[s] = "expired" THEN "expired" ELSE "stored"
    BY <1>4, UnheldStatus DEF Refinable
  <2>2. receipt'[s] = receipt[s] \/ (receipt[s] = "stored" /\ receipt'[s] = "settled")
    BY <1>3 DEF Stripping
  <2>3. (\A w \in Wakes : s \notin held'[w]) /\ receipt[s] \in Receipts
    BY <1>2, <1>4 DEF Refinable, TypeOK
  <2> QED  BY <2>1, <2>2, <2>3 DEF StatusLaw, Receipts
<1>5. Status' = [s \in Source |-> Status'[s]]
  BY DEF StatusLaw
<1>6. \A s \in Source : Status'[s] = IF s \in U THEN "queued" ELSE Status[s]
  BY <1>2, <1>4
<1>7. Status' = Promise!Move(U, "queued")
  BY <1>5, <1>6 DEF Promise!Move
<1>8. CASE U = {}
  BY <1>7, <1>8, StatusKept DEF Refinable
<1>9. CASE U # {}
  <2>1. \A s \in U : Status[s] = "stored"
    BY <1>3, UnheldStatus DEF Refinable
  <2>2. U \in SUBSET Promise!With("stored") /\ Promise!Queue(U)
    BY <1>7, <1>9, <2>1 DEF Promise!With, Promise!Queue
  <2> QED  BY <2>2 DEF Promise!Next
<1> QED  BY <1>8, <1>9

\* Outcomes that leave the retention window were stored and in no wake.
Dropped == {t \in Source : receipt[t] # "expired" /\ receipt'[t] = "expired"}

\* A batch with nothing new only expires outcomes.
LEMMA RepeatImplements ==
  ASSUME Refinable, StatusLaw', NEW k, Repeat(k)
  PROVE  [Promise!Next]_Status
<1>1. /\ UNCHANGED <<state, held, att>> /\ receipt' # receipt
      /\ receipt' = Evicted(ctl.awaited, state, held, receipt, rank, k)
  BY RepeatFacts
<1>2. receipt \in [Source -> Receipts]
  BY DEF Refinable, TypeOK
<1>3. \A t \in Source : receipt'[t] = receipt[t] \/ (receipt[t] = "stored" /\ receipt'[t] = "expired")
  BY <1>1 DEF Evicted
<1>4. receipt' = [t \in Source |-> receipt'[t]]
  BY <1>1 DEF Evicted
<1>5. PICK t \in Source : receipt'[t] # receipt[t]
  BY <1>1, <1>2, <1>4
<1>6. Dropped # {}
  BY <1>3, <1>5 DEF Dropped
<1>7. ASSUME NEW s \in Source, NEW w \in Wakes, s \in held[w]
      PROVE  Status'[s] = Status[s] /\ s \notin Dropped
  BY <1>1, <1>7 DEF Refinable, StatusLaw, Dropped
<1>8. ASSUME NEW s \in Source, \A w \in Wakes : s \notin held[w]
      PROVE  /\ Status'[s] = IF s \in Dropped THEN "expired" ELSE Status[s]
             /\ s \in Dropped => Status[s] = "stored"
  <2>1. Status[s] = IF receipt[s] = "none" THEN "running"
                    ELSE IF receipt[s] = "expired" THEN "expired" ELSE "stored"
    BY <1>8, UnheldStatus DEF Refinable
  <2>2. (\A w \in Wakes : s \notin held'[w]) /\ receipt[s] \in Receipts
    BY <1>1, <1>2, <1>8
  <2> QED  BY <1>3, <2>1, <2>2 DEF StatusLaw, Dropped, Receipts
<1>9. \A s \in Source : /\ Status'[s] = IF s \in Dropped THEN "expired" ELSE Status[s]
                        /\ s \in Dropped => Status[s] = "stored"
  BY <1>7, <1>8
<1>10. Status' = [s \in Source |-> Status'[s]] /\ Dropped \subseteq Source
  BY DEF StatusLaw, Dropped
<1>11. Status' = Promise!Move(Dropped, "expired")
  BY <1>9, <1>10 DEF Promise!Move
<1>12. Dropped \in SUBSET Promise!With("stored")
  BY <1>9, <1>10 DEF Promise!With
<1>13. Promise!Expire(Dropped)
  BY <1>6, <1>11 DEF Promise!Expire
<1> QED  BY <1>12, <1>13 DEF Promise!Next

\* A report stores its outcome, or queues it when it is awaited, and may push others
\* out of the retention window, never the one it brought.
LEMMA ReportImplements ==
  ASSUME Refinable, StatusLaw', NEW s \in Source, NEW k \in Nat, Report(s, k)
  PROVE  [Promise!Next]_Status
<1>1. PICK mid \in [Source -> Receipts], U \in SUBSET {s} : \E p \in [U -> Wakes] :
        /\ IsPlacement(p, U, rank') /\ Pruned(StateAfter(p)) /\ held' = HeldAfter(p) /\ att' = att
        /\ \A t \in Source : t # s => mid[t] = receipt[t] \/ (receipt[t] = "stored" /\ mid[t] = "settled")
        /\ mid[s] \in {"stored", "settled"}
        /\ receipt' = Evicted(ctl.awaited, state', held', mid, rank', k)
  BY ReportPlaces DEF Refinable
<1>2. /\ \A t \in Source : t # s => mid[t] = receipt[t] \/ (receipt[t] = "stored" /\ mid[t] = "settled")
      /\ mid[s] \in {"stored", "settled"}
      /\ receipt' = Evicted(ctl.awaited, state', held', mid, rank', k)
  BY <1>1
<1>3. U \in SUBSET Source
  OBVIOUS
<1>4. /\ \A t \in U : Status'[t] = "queued"
      /\ \A t \in Source, w \in Wakes : t \in held[w] => Status'[t] = Status[t]
      /\ \A t \in Source \ U : (\A w \in Wakes : t \notin held[w]) => \A w \in Wakes : t \notin held'[w]
  BY <1>1, <1>3, PlacedStatus
<1>5. receipt[s] = "none" /\ \A w \in Wakes : s \notin held[w]
  BY DEF Report, Refinable, StatusLaw
<1>6. rank'[s] \in Nat /\ rank'[s] > k
  <2>1. IsFiniteSet({t \in Source : rank[t] > 0})
    BY ConstantsOK, FS_Subset DEF ConstantsOK
  <2>2. Arrivals \in Nat
    BY <2>1, FS_CardinalityType DEF Arrivals
  <2>3. rank'[s] = Arrivals + 1 /\ k <= Arrivals
    BY DEF Report, Refinable, TypeOK
  <2> QED  BY <2>2, <2>3
<1>7. \A t \in Source : receipt'[t] = mid[t] \/ (mid[t] = "stored" /\ receipt'[t] = "expired")
  BY <1>2 DEF Evicted
<1>8. receipt'[s] \in {"stored", "settled"}
  <2>1. ~(rank'[s] <= k)
    BY <1>6
  <2> QED  BY <1>2, <2>1 DEF Evicted
<1> DEFINE x == IF s \in U THEN "queued" ELSE "stored"
<1>9. Status[s] = "running" /\ Status'[s] = x /\ s \notin Dropped
  <2>1. Status[s] = "running"
    BY <1>5 DEF Refinable, StatusLaw
  <2>2. ASSUME s \notin U
        PROVE  Status'[s] = "stored"
    <3>1. \A w \in Wakes : s \notin held'[w]
      BY <1>4, <1>5, <2>2
    <3> QED  BY <1>8, <3>1 DEF StatusLaw
  <2> QED  BY <1>4, <1>8, <2>1, <2>2 DEF Dropped
<1>10. ASSUME NEW t \in Source, t # s, NEW w \in Wakes, t \in held[w]
       PROVE  Status'[t] = Status[t] /\ t \notin Dropped
  <2>1. PICK p \in [U -> Wakes] : held' = HeldAfter(p)
    BY <1>1
  <2>2. t \in held'[w]
    BY <1>10, <2>1 DEF HeldAfter
  <2> QED  BY <1>4, <1>10, <2>2 DEF StatusLaw, Dropped
<1>11. ASSUME NEW t \in Source, t # s, \A w \in Wakes : t \notin held[w]
       PROVE  /\ Status'[t] = IF t \in Dropped THEN "expired" ELSE Status[t]
              /\ t \in Dropped => Status[t] = "stored"
  <2>1. Status[t] = IF receipt[t] = "none" THEN "running"
                    ELSE IF receipt[t] = "expired" THEN "expired" ELSE "stored"
    BY <1>11, UnheldStatus DEF Refinable
  <2>2. (\A w \in Wakes : t \notin held'[w]) /\ receipt[t] \in Receipts
    BY <1>4, <1>11 DEF Refinable, TypeOK
  <2>3. mid[t] = receipt[t] \/ (receipt[t] = "stored" /\ mid[t] = "settled")
    BY <1>2, <1>11
  <2> QED  BY <1>7, <2>1, <2>2, <2>3 DEF StatusLaw, Dropped, Receipts
<1>12. \A t \in Source : t # s => /\ Status'[t] = IF t \in Dropped THEN "expired" ELSE Status[t]
                                  /\ t \in Dropped => Status[t] = "stored"
  BY <1>10, <1>11
<1>13. Status' = [t \in Source |-> Status'[t]] /\ Dropped \subseteq Source
  BY DEF StatusLaw, Dropped
<1> DEFINE moved == Promise!Move(Dropped, "expired")
<1>14. /\ moved = [t \in Source |-> moved[t]]
       /\ \A t \in Source : moved[t] = IF t \in Dropped THEN "expired" ELSE Status[t]
  BY DEF Promise!Move
<1>15. Dropped \in SUBSET Promise!With("stored")
  BY <1>9, <1>12, <1>13 DEF Promise!With
<1>16. x \in {"stored", "queued"}
  OBVIOUS
<1> HIDE DEF moved, x
<1>17. Status' = [moved EXCEPT ![s] = x]
  BY <1>9, <1>12, <1>13, <1>14
<1>18. Promise!Arrive(s, x, Dropped)
  BY <1>9, <1>16, <1>17 DEF Promise!Arrive, moved
<1> QED  BY <1>15, <1>16, <1>18 DEF Promise!Next

\* Every step of the protocol is a step of the promise or changes no outcome's status.
LEMMA StepImplements ==
  ASSUME Refinable, StatusLaw', [Next]_vars
  PROVE  [Promise!Next]_Status
<1>1. CASE \E A \in SUBSET Source : Await(A)
  BY <1>1, AwaitImplements
<1>2. CASE Owner /\ \A A \in SUBSET Source : ~Await(A)
  <2>1. Quiet \/ \E w \in Wakes, g \in {"queued", "offered", "delivered"} :
                   Shift(w, g, "closed", att[w].consumed)
    BY <1>2, OwnerMoves DEF Refinable
  <2> QED  BY <2>1, QuietStutters, CloseImplements
<1>3. CASE Controller
  <2>1. Quiet \/ (Clear /\ \E w \in Wakes : Shift(w, "queued", "offered", att[w].consumed))
    BY <1>3, ControllerMoves DEF Refinable
  <2> QED  BY <2>1, QuietStutters, OfferImplements
<1>4. CASE Host
  BY <1>4, HostMoves, ConsumeImplements DEF Refinable
<1>5. CASE Environment
  BY <1>5, EnvironmentQuiet, QuietStutters DEF Refinable
<1>6. CASE Node
  <2>1. \A k \in 0..Cardinality(Source) : k \in Nat
    BY ConstantsOK, FS_CardinalityType DEF ConstantsOK
  <2> QED  BY <1>6, <2>1, RepeatImplements, ReportImplements DEF Node
<1>7. CASE UNCHANGED vars
  <2>1. Quiet
    BY <1>7 DEF vars, doc, Quiet, Stripping, Rest
  <2> QED  BY <2>1, QuietStutters
<1> QED  BY <1>1, <1>2, <1>3, <1>4, <1>5, <1>6, <1>7 DEF Next

\* The protocol of wakes, attempts, leases and receipts (work_continuation.go) keeps
\* the promise of OutcomeDelivery: seen through Status, it starts where the promise
\* starts and every step of it is a step of the promise or none; and nothing is handed
\* out for a context that is gone.
THEOREM ContinuationKeepsPromise == Spec => Delivery
<1>1. Init => Promise!Init
  BY DEF Init, Promise!Init, Status
<1>2. Init => DeliveredInv
  BY DEF Init, DeliveredInv, Group, CanGrow, DeliveryStatuses
<1>3. TypeOK /\ BooksInv /\ DeliveryInv /\ DeliveredInv /\ [Next]_vars => DeliveredInv'
  BY DeliveredStep
<1>4. TypeOK /\ BooksInv => StatusLaw
  BY StatusIsLawful
<1>5. SingleFlight /\ BelongsToController <=> FlowInv
  BY DEF FlowInv
<1>6. Refinable /\ StatusLaw' /\ [Next]_vars => [Promise!Next]_Status
  BY StepImplements
<1>7. TypeOK /\ FlowInv /\ BooksInv /\ DeliveryInv /\ DeliveredInv /\ StatusLaw => Refinable
  BY DEF Refinable
<1> QED  BY <1>1, <1>2, <1>3, <1>4, <1>5, <1>6, <1>7, TypeCorrect, FlowCorrect, BooksKept, DeliveryKept,
            OnlyPresentContexts, PTL DEF Spec, Delivery, Promise!Spec

===============================================================================
