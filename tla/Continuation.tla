------------------------------ MODULE Continuation ------------------------------
(***************************************************************************)
(* The WorkSession Continuation protocol: one WorkSession's continuation   *)
(* document and the command receipts behind it, with every operation of    *)
(* the store that reads or writes them.                                    *)
(*                                                                         *)
(* Every operation is one BEGIN IMMEDIATE transaction on the whole         *)
(* document, so each is one action here.  A transaction first expires what *)
(* has passed its deadline (the `Seen...' operators are the document after *)
(* that pass), then does its work, then compacts settled wakes as it saves *)
(* (`Save').  A transaction that fails is rolled back, expiry included, so *)
(* a refused call is no step.                                              *)
(*                                                                         *)
(* Time is abstracted to countdowns: a deadline set to now + D is a timer  *)
(* of D ticks, and it has passed when the timer is 0.  Rows that hold all  *)
(* calls of the same shape are one action with the caller's arguments as   *)
(* parameters, so late and repeated calls of old views and old attempts    *)
(* are inputs like any other.                                              *)
(***************************************************************************)
EXTENDS Integers, FiniteSets

CONSTANTS
  Source,         \* commands whose outcome may be awaited (target and command session)
  Target,         \* WorkTargets of the session
  View,           \* binding ids of controller views
  NoView,         \* the empty binding id
  TargetOf,       \* the target each command ran on
  BatchLimit,     \* MaxWorkContinuationSources: sources of one wake, and of one await
  Oversized,      \* sets of sources whose encoding exceeds the batch byte limit
  RetainSettled,  \* settled wakes kept in the document
  ClaimLease, DispatchTimeout, ViewLease, SettlementTimeout,
  DefaultRounds, DefaultFailures,   \* limits of a new document
  RoundLimits, FailureLimits,       \* limits a caller may ask for in enable
  Ticking,        \* bound: whether deadlines pass in this instance
  MaxWakes,       \* bound: wakes ever created
  MaxClaims,      \* bound: attempts per wake
  Movable,        \* bound: targets whose configuration may change
  MaxGenerations  \* bound: presentations of the controller

Wakes == 1..MaxWakes

ASSUME ConstantsOK ==
  /\ IsFiniteSet(Source)
  /\ NoView \notin View
  /\ Movable \subseteq Target /\ Ticking \in BOOLEAN
  /\ TargetOf \in [Source -> Target]
  /\ {BatchLimit, ClaimLease, DispatchTimeout, ViewLease, SettlementTimeout,
      DefaultRounds, DefaultFailures} \subseteq Nat \ {0}
  /\ RoundLimits \subseteq Nat \ {0} /\ FailureLimits \subseteq Nat \ {0}
  /\ {RetainSettled, MaxWakes, MaxClaims, MaxGenerations} \subseteq Nat

VARIABLES
  ctl,      \* the document's State: switch, phase, budgets, awaited sources
  ep,       \* its Endpoint: generation, the view that holds it, lease, consent
  state,    \* Wakes[i].State; "none" before it is created, "gone" once pruned
  stamp,    \* Wakes[i].ControllerGeneration
  held,     \* Wakes[i].Sources
  att,      \* the latest attempt of each wake
  receipt,  \* command_source_receipts: none, or stored (1), settled (0), expired (2)
  rank,     \* received_at: the order in which receipts arrived, 0 for none
  usable,   \* targets that pass validateContinuationTarget
  stale,    \* outcomes whose context is no longer their target's
  mail,     \* messages handed out by prepare; any may reach the host, late or twice
  returned  \* history: how often each outcome was returned by a consume

doc  == <<ctl, ep, state, stamp, held, att>>
vars == <<doc, receipt, rank, usable, stale, mail, returned>>

Phases == {"disabled", "ready", "paused", "waiting", "dispatching", "processing",
           "needs_attention", "circuit_open"}
DeliveryStatuses == {"dispatch_accepted", "delivery_rejected", "delivery_unknown"}
BlockedStates == {"prepared", "consumed", "needs_attention"} \cup DeliveryStatuses
WakeStates == {"none", "pending", "claimed", "settled", "gone"} \cup BlockedStates
Receipts == {"none", "stored", "settled", "expired"}

Attempt == [n : Nat, view : View \cup {NoView}, prepared : BOOLEAN, token : BOOLEAN,
            finished : BOOLEAN, consumed : BOOLEAN, timer : Nat]
Message == [wake : Wakes, n : Nat, gen : Nat, held : SUBSET Source]

TypeOK ==
  /\ ctl \in [enabled : BOOLEAN, phase : Phases, rounds : Nat, maxRounds : Nat,
              failures : Nat, maxFailures : Nat, awaited : SUBSET Source]
  /\ ep \in [gen : Nat, holder : View \cup {NoView}, lease : Nat, consent : BOOLEAN]
  /\ state \in [Wakes -> WakeStates]
  /\ stamp \in [Wakes -> Nat]
  /\ held \in [Wakes -> SUBSET Source]
  /\ att \in [Wakes -> Attempt]
  /\ receipt \in [Source -> Receipts]
  /\ rank \in [Source -> Nat]
  /\ usable \subseteq Target
  /\ stale \subseteq Source
  /\ mail \subseteq Message
  /\ returned \in [Source -> Nat]

NoAttempt == [n |-> 0, view |-> NoView, prepared |-> FALSE, token |-> FALSE,
              finished |-> FALSE, consumed |-> FALSE, timer |-> 0]

Init ==
  /\ ctl = [enabled |-> FALSE, phase |-> "disabled", rounds |-> 0,
            maxRounds |-> DefaultRounds, failures |-> 0,
            maxFailures |-> DefaultFailures, awaited |-> {}]
  /\ ep = [gen |-> 0, holder |-> NoView, lease |-> 0, consent |-> FALSE]
  /\ state = [w \in Wakes |-> "none"]
  /\ stamp = [w \in Wakes |-> 0]
  /\ held = [w \in Wakes |-> {}]
  /\ att = [w \in Wakes |-> NoAttempt]
  /\ receipt = [s \in Source |-> "none"]
  /\ rank = [s \in Source |-> 0]
  /\ usable = Target
  /\ stale = {}
  /\ mail = {}
  /\ returned = [s \in Source |-> 0]

--------------------------------------------------------------------------------
\* The document as a transaction sees it: after the expiry pass.

Elapsed(w) == att[w].n > 0 /\ att[w].timer = 0
DispatchLapsed(w) == state[w] \in {"prepared", "dispatch_accepted"} /\ Elapsed(w)
WorkLapsed(w) == state[w] = "consumed" /\ Elapsed(w)

\* Mutant: a dispatch nobody answered is queued again.
SeenStateRetrying(w) ==
  CASE state[w] = "claimed" /\ Elapsed(w) -> "pending"
    [] DispatchLapsed(w)                  -> "pending"
    [] WorkLapsed(w)                      -> "needs_attention"
    [] OTHER                              -> state[w]

\* A claim that lapses before the fence returns to the queue; a message whose
\* fate is unknown never does.
SeenState(w) ==
  CASE state[w] = "claimed" /\ Elapsed(w) -> "pending"
    [] DispatchLapsed(w)                  -> "delivery_unknown"
    [] WorkLapsed(w)                      -> "needs_attention"
    [] OTHER                              -> state[w]
Seen == [w \in Wakes |-> SeenState(w)]

\* One more failure on the control record c; the last one allowed opens the circuit.
Fail(c) ==
  LET open == c.failures + 1 >= c.maxFailures
  IN  [c EXCEPT !.failures = c.failures + 1,
                !.enabled = c.enabled /\ ~open,
                !.phase = IF open THEN "circuit_open" ELSE c.phase]

\* What follows a failed dispatch while the session is still enabled.
Attention(c) == IF c.enabled THEN [c EXCEPT !.phase = "needs_attention"] ELSE c

\* At most one wake is ever past its fence (SingleFlight), so the pass charges at
\* most one failure.
SeenCtl ==
  CASE \E w \in Wakes : DispatchLapsed(w) -> Attention(Fail(ctl))
    [] \E w \in Wakes : WorkLapsed(w)     -> [ctl EXCEPT !.phase = "needs_attention"]
    [] OTHER                              -> ctl

Present(st, w) == st[w] \notin {"none", "gone"}

\* Mutants: what counts as outstanding stops at the host's answer, or forgets the
\* dispatches whose answer never came.
BlockedUntilAnswered(st) == \E w \in Wakes : st[w] \in {"prepared", "dispatch_accepted"}
BlockedUnlessUnknown(st) == \E w \in Wakes : st[w] \in BlockedStates \ {"delivery_unknown"}

Blocked(st) == \E w \in Wakes : st[w] \in BlockedStates

\* Mutant: the target is looked at, and not the context the command ran in.
ValidTargets(w) == \A s \in held[w] : TargetOf[s] \in usable

Valid(w) == \A s \in held[w] : TargetOf[s] \in usable /\ s \notin stale

--------------------------------------------------------------------------------
\* Saving: compaction of settled wakes, and the receipts they leave behind.

\* The oldest settled wakes beyond the newest RetainSettled leave the document.
Prunable(st, w) ==
  /\ st[w] = "settled"
  /\ Cardinality({v \in Wakes : v >= w /\ st[v] = "settled"}) > RetainSettled

\* Mutant: settling leaves the receipts as they were.
CompactedLater(st, hd, rc) == rc

\* The receipt of a settled wake's source keeps only what deduplication needs.
Compacted(st, hd, rc) ==
  [s \in Source |->
     IF rc[s] = "stored" /\ \E w \in Wakes : st[w] = "settled" /\ s \in hd[w]
     THEN "settled" ELSE rc[s]]

Save(st, hd, rc) ==
  /\ state' = [w \in Wakes |-> IF Prunable(st, w) THEN "gone" ELSE st[w]]
  /\ held' = hd
  /\ receipt' = Compacted(st, hd, rc)

\* A receipt that something still needs: a current await names it, or a wake that
\* is not settled holds it.
Owed(aw, st, hd, s) ==
  s \in aw \/ \E w \in Wakes : Present(st, w) /\ st[w] # "settled" /\ s \in hd[w]

\* Mutant: retention spares only what the current await names.
EvictedUnlessAwaited(aw, st, hd, rc, rk, k) ==
  [s \in Source |-> IF rc[s] = "stored" /\ rk[s] <= k /\ s \notin aw THEN "expired" ELSE rc[s]]

\* Retention: receipts up to the k-th arrival are beyond the node's window (older
\* than 30 days, or not among its newest 1024).
Evicted(aw, st, hd, rc, rk, k) ==
  [s \in Source |->
     IF rc[s] = "stored" /\ rk[s] <= k /\ ~Owed(aw, st, hd, s) THEN "expired" ELSE rc[s]]

--------------------------------------------------------------------------------
\* Merging outcomes into wakes.

\* Mutants: a wake accepts sources past its fence; a claimed wake is overlooked.
CanGrowPastFence(x) == x \in {"pending", "claimed", "prepared"}
CanGrowUnclaimed(x) == x = "pending"

CanGrow(x) == x \in {"pending", "claimed"}
Fits(S) == Cardinality(S) <= BatchLimit /\ S \notin Oversized

\* Mutant: an await only picks up what arrives after it.
UncoveredSinceAwait(A, rc) ==
  {s \in A \cap ctl.awaited : rc[s] = "stored" /\ \A w \in Wakes : ~Present(Seen, w) \/ s \notin held[w]}

\* Sources of A with a stored outcome that no wake of the document holds yet.
Uncovered(A, rc) ==
  {s \in A : rc[s] = "stored" /\ \A w \in Wakes : ~Present(Seen, w) \/ s \notin held[w]}

\* Outcomes are merged in the order they arrived, each into the first wake not yet
\* fenced that has room, else into a new wake at the end.  p says where each
\* source of U goes.
IsPlacement(p, U, rk) ==
  \A s \in U :
    LET sofar(w) == held[w] \cup {t \in U : p[t] = w /\ rk[t] < rk[s]}
        made(w)  == Seen[w] = "none" /\ sofar(w) # {}
        roomy    == {w \in Wakes : (CanGrow(Seen[w]) \/ made(w)) /\ Fits(sofar(w) \cup {s})}
        blank    == {w \in Wakes : Seen[w] = "none" /\ ~made(w)}
        from     == IF roomy # {} THEN roomy ELSE blank
    IN  p[s] \in from /\ \A w \in from : p[s] <= w

HeldAfter(p) == [w \in Wakes |-> held[w] \cup {s \in DOMAIN p : p[s] = w}]
StateAfter(p) ==
  [w \in Wakes |-> IF Seen[w] = "none" /\ \E s \in DOMAIN p : p[s] = w
                   THEN "pending" ELSE Seen[w]]
StampAfter(p) ==
  [w \in Wakes |-> IF Seen[w] = "none" /\ \E s \in DOMAIN p : p[s] = w
                   THEN ep.gen ELSE stamp[w]]

--------------------------------------------------------------------------------
\* Calls of the session's owner (ControlContinuation).

\* The control record c takes effect and the wakes are those of the expiry pass.
ControlOnly(c) ==
  /\ ctl' = c
  /\ Save(Seen, held, receipt)
  /\ UNCHANGED <<ep, stamp, att, rank, usable, stale, mail, returned>>

\* status, or a view's state call: saved only when something expired.
Poll == Seen # state /\ ControlOnly(SeenCtl)

Enable(r, f) ==
  /\ SeenCtl.failures < SeenCtl.maxFailures
  /\ SeenCtl.rounds < SeenCtl.maxRounds
  /\ ControlOnly([SeenCtl EXCEPT !.enabled = TRUE, !.phase = "ready",
                                 !.maxRounds = r, !.maxFailures = f])

Pause == ControlOnly([SeenCtl EXCEPT !.enabled = FALSE, !.phase = "paused"])

\* await replaces the set of sources and merges what has already arrived.
Await(A) ==
  /\ SeenCtl.enabled
  /\ A # {} /\ Cardinality(A) <= BatchLimit
  /\ \A s \in A : TargetOf[s] \in usable /\ receipt[s] # "expired"
  /\ ctl' = [SeenCtl EXCEPT !.awaited = A, !.phase = "waiting"]
  /\ \E p \in [Uncovered(A, receipt) -> Wakes] :
       /\ IsPlacement(p, Uncovered(A, receipt), rank)
       /\ Save(StateAfter(p), HeldAfter(p), receipt)
       /\ stamp' = StampAfter(p)
  /\ UNCHANGED <<ep, att, rank, usable, stale, mail, returned>>

\* settle: the consumed wake is finished with, whatever its deadline did.
Settle(w) ==
  /\ Present(Seen, w) /\ Seen[w] # "settled"
  /\ att[w].consumed
  /\ ctl' = [SeenCtl EXCEPT !.failures = 0,
                            !.phase = IF SeenCtl.enabled THEN "ready" ELSE SeenCtl.phase]
  /\ Save([Seen EXCEPT ![w] = "settled"], held, receipt)
  /\ UNCHANGED <<ep, stamp, att, rank, usable, stale, mail, returned>>

Restored(c) == [c EXCEPT !.rounds = 0, !.failures = 0, !.enabled = TRUE, !.phase = "ready"]

\* recover without a wake: only when nothing is outstanding.
Recover == ~Blocked(Seen) /\ ControlOnly(Restored(SeenCtl))

\* recover of an inspected wake, in whatever state it is: it is settled by hand and
\* its credential is void, and nothing else may be left outstanding.
RecoverWake(w) ==
  /\ Present(Seen, w) /\ Seen[w] # "settled"
  /\ LET st == [Seen EXCEPT ![w] = "settled"]
     IN  ~Blocked(st) /\ Save(st, held, receipt)
  /\ ctl' = Restored(SeenCtl)
  /\ att' = [att EXCEPT ![w].token = FALSE]
  /\ UNCHANGED <<ep, stamp, rank, usable, stale, mail, returned>>

\* present_work_continuation, the first time or with recover: a new endpoint takes
\* over every wake that has not crossed its fence.
PresentController ==
  /\ ~Blocked(Seen)
  /\ ep.gen < MaxGenerations
  /\ ctl' = SeenCtl
  /\ ep' = [gen |-> ep.gen + 1, holder |-> NoView, lease |-> 0, consent |-> FALSE]
  /\ Save([w \in Wakes |-> IF CanGrow(Seen[w]) THEN "pending" ELSE Seen[w]], held, receipt)
  /\ stamp' = [w \in Wakes |-> IF CanGrow(Seen[w]) THEN ep.gen + 1 ELSE stamp[w]]
  /\ UNCHANGED <<att, rank, usable, stale, mail, returned>>

--------------------------------------------------------------------------------
\* Calls of a controller view v that was rendered for generation g
\* (ControllerContinuation).

Identity(g) == g = ep.gen
Holds(v, g) == Identity(g) /\ ep.holder = v /\ ep.lease > 0
MayDispatch ==
  /\ SeenCtl.enabled /\ ep.consent
  /\ SeenCtl.rounds < SeenCtl.maxRounds /\ SeenCtl.failures < SeenCtl.maxFailures

\* bind, with or without the user's consent for this view.
Bind(v, g, agreed) ==
  /\ Identity(g)
  /\ ep.holder \in {NoView, v} \/ ep.lease = 0
  /\ ctl' = SeenCtl
  /\ ep' = [ep EXCEPT !.holder = v, !.lease = ViewLease,
                      !.consent = (ep.holder = v /\ ep.consent) \/ agreed]
  /\ Save(Seen, held, receipt)
  /\ UNCHANGED <<stamp, att, rank, usable, stale, mail, returned>>

Heartbeat(v, g) ==
  /\ Holds(v, g)
  /\ ctl' = SeenCtl
  /\ ep' = [ep EXCEPT !.lease = ViewLease]
  /\ Save(Seen, held, receipt)
  /\ UNCHANGED <<stamp, att, rank, usable, stale, mail, returned>>

PauseByView(v, g) ==
  /\ Holds(v, g)
  /\ ctl' = [SeenCtl EXCEPT !.enabled = FALSE, !.phase = "paused"]
  /\ ep' = [ep EXCEPT !.consent = FALSE]
  /\ Save(Seen, held, receipt)
  /\ UNCHANGED <<stamp, att, rank, usable, stale, mail, returned>>

\* acquire: the exact wake asked for, or the first pending one.
Acquire(v, g, w) ==
  /\ Holds(v, g) /\ MayDispatch
  /\ ~Blocked(Seen) /\ \A x \in Wakes : Seen[x] # "claimed"
  /\ Seen[w] = "pending" /\ Valid(w)
  /\ att[w].n < MaxClaims
  /\ ctl' = SeenCtl
  /\ Save([Seen EXCEPT ![w] = "claimed"], held, receipt)
  /\ att' = [att EXCEPT ![w] = [NoAttempt EXCEPT !.n = att[w].n + 1, !.view = v,
                                                  !.timer = ClaimLease]]
  /\ UNCHANGED <<ep, stamp, rank, usable, stale, mail, returned>>

\* prepare: the dispatch fence.  The message is returned by this call and no other.
Prepare(v, g, w, n) ==
  /\ Holds(v, g) /\ MayDispatch
  /\ att[w].n = n /\ att[w].view = v
  /\ Seen[w] = "claimed" /\ ~att[w].prepared /\ ~Blocked(Seen)
  /\ Valid(w)
  /\ ctl' = [SeenCtl EXCEPT !.rounds = SeenCtl.rounds + 1, !.phase = "dispatching"]
  /\ ep' = [ep EXCEPT !.lease = ViewLease]
  /\ Save([Seen EXCEPT ![w] = "prepared"], held, receipt)
  /\ att' = [att EXCEPT ![w].prepared = TRUE, ![w].token = TRUE, ![w].timer = DispatchTimeout]
  /\ mail' = mail \cup {[wake |-> w, n |-> n, gen |-> g, held |-> held[w]]}
  /\ UNCHANGED <<stamp, rank, usable, stale, returned>>

\* Mutant: a receipt that comes after the consume still moves the wake.
FinishMovesConsumed(w, status) ==
  Seen[w] \in {"prepared", "dispatch_accepted", "consumed"}

\* Which wakes a late or early receipt of the host may still move.
FinishMoves(w, status) ==
  /\ ~att[w].consumed
  /\ \/ Seen[w] \in {"prepared", "dispatch_accepted"}
     \/ Seen[w] = "delivery_unknown" /\ status = "delivery_rejected"

\* finish: what the host said of the dispatch, recorded once.
Finish(v, g, w, n, status) ==
  /\ Holds(v, g)
  /\ Present(Seen, w)
  /\ att[w].n = n /\ att[w].view = v /\ att[w].prepared /\ ~att[w].finished
  /\ att' = [att EXCEPT ![w].finished = TRUE]
  /\ IF FinishMoves(w, status)
     THEN /\ Save([Seen EXCEPT ![w] = status], held, receipt)
          /\ ctl' = IF status # "dispatch_accepted"
                       /\ SeenCtl.phase \notin {"needs_attention", "circuit_open"}
                    THEN Attention(Fail(SeenCtl)) ELSE SeenCtl
     ELSE Save(Seen, held, receipt) /\ ctl' = SeenCtl
  /\ UNCHANGED <<ep, stamp, rank, usable, stale, mail, returned>>

--------------------------------------------------------------------------------
\* Calls of the model that received a message (ConsumeWorkWake).

Consumable(x) == x \in {"prepared", "dispatch_accepted", "delivery_unknown"}

Consume(m) ==
  /\ Identity(m.gen) /\ Present(Seen, m.wake) /\ stamp[m.wake] = m.gen
  /\ att[m.wake].n = m.n /\ att[m.wake].prepared /\ att[m.wake].token
  /\ Valid(m.wake)
  /\ Consumable(Seen[m.wake])
  /\ ctl' = [SeenCtl EXCEPT !.phase = "processing"]
  /\ Save([Seen EXCEPT ![m.wake] = "consumed"], held, receipt)
  /\ att' = [att EXCEPT ![m.wake].token = FALSE, ![m.wake].consumed = TRUE,
                        ![m.wake].timer = SettlementTimeout]
  /\ returned' = [s \in Source |-> IF s \in held[m.wake] THEN returned[s] + 1 ELSE returned[s]]
  /\ UNCHANGED <<ep, stamp, rank, usable, stale, mail>>

--------------------------------------------------------------------------------
\* Reports of a node (RecordCommandOutcomes), one outcome at a time, each followed
\* by the retention pass of its batch.

Arrivals == Cardinality({s \in Source : rank[s] > 0})

Report(s, k) ==
  /\ receipt[s] = "none"
  /\ k <= Arrivals
  /\ rank' = [rank EXCEPT ![s] = Arrivals + 1]
  /\ LET rc == [receipt EXCEPT ![s] = "stored"]
         U  == Uncovered(ctl.awaited \cap {s}, rc)
     IN  \E p \in [U -> Wakes] :
           /\ IsPlacement(p, U, rank')
           /\ state' = [w \in Wakes |-> IF Prunable(StateAfter(p), w) THEN "gone"
                                         ELSE StateAfter(p)[w]]
           /\ held' = HeldAfter(p)
           /\ stamp' = StampAfter(p)
           /\ receipt' = Evicted(ctl.awaited, state', held',
                                 Compacted(StateAfter(p), held', rc), rank', k)
  /\ ctl' = SeenCtl
  /\ UNCHANGED <<ep, att, usable, stale, mail, returned>>

\* A batch with nothing new for this session: events already recorded, whose
\* acknowledgement was lost, and events of other sessions.
Repeat(k) ==
  /\ receipt' = Evicted(ctl.awaited, state, held, receipt, rank, k)
  /\ receipt' # receipt
  /\ UNCHANGED <<doc, rank, usable, stale, mail, returned>>

--------------------------------------------------------------------------------
\* The environment.

\* Mutant: a deadline counts as passed only at the instant it names, and is missed afterwards.
DownPastZero(x) == x - 1

Down(x) == IF x > 0 THEN x - 1 ELSE 0

Tick ==
  /\ ep' = [ep EXCEPT !.lease = Down(ep.lease)]
  /\ att' = [w \in Wakes |-> [att[w] EXCEPT !.timer = Down(att[w].timer)]]
  /\ UNCHANGED <<ctl, state, stamp, held, receipt, rank, usable, stale, mail, returned>>

\* A target is revoked, disabled, reconfigured; or it is usable again.
Revoke(t) ==
  /\ usable' = usable \ {t}
  /\ UNCHANGED <<doc, receipt, rank, stale, mail, returned>>

Restore(t) ==
  /\ usable' = usable \cup {t}
  /\ UNCHANGED <<doc, receipt, rank, stale, mail, returned>>

\* A target moves to another context revision: outcomes of commands that ran before
\* it, all the reported ones among them, no longer match.
MoveContext(t, S) ==
  /\ S \subseteq {s \in Source : TargetOf[s] = t}
  /\ \A s \in Source : TargetOf[s] = t /\ receipt[s] # "none" => s \in S
  /\ stale' = stale \cup S
  /\ UNCHANGED <<doc, receipt, rank, usable, mail, returned>>

--------------------------------------------------------------------------------
Owner ==
  \/ Poll \/ Pause \/ Recover \/ PresentController
  \/ \E r \in RoundLimits \cup {ctl.maxRounds}, f \in FailureLimits \cup {ctl.maxFailures} :
       Enable(r, f)
  \/ \E A \in SUBSET Source : Await(A)
  \/ \E w \in Wakes : Settle(w) \/ RecoverWake(w)

Controller ==
  \E v \in View, g \in 1..MaxGenerations :
    \/ \E agreed \in BOOLEAN : Bind(v, g, agreed)
    \/ Heartbeat(v, g)
    \/ PauseByView(v, g)
    \/ \E w \in Wakes :
         \/ Acquire(v, g, w)
         \/ \E n \in 1..MaxClaims :
              \/ Prepare(v, g, w, n)
              \/ \E status \in DeliveryStatuses : Finish(v, g, w, n, status)

Host == \E m \in mail : Consume(m)

Node ==
  \E k \in 0..Cardinality(Source) : Repeat(k) \/ \E s \in Source : Report(s, k)

Environment ==
  \/ Ticking /\ Tick
  \/ \E t \in Movable : Revoke(t) \/ Restore(t) \/ \E S \in SUBSET Source : MoveContext(t, S)

Next == Owner \/ Controller \/ Host \/ Node \/ Environment

Spec == Init /\ [][Next]_vars

--------------------------------------------------------------------------------
\* Properties.

InFlight(w) == state[w] \in BlockedStates \cup {"claimed"}

\* One wake at a time is claimed, dispatched or in the model's hands: no sequence of
\* acquire, prepare, expiry, recovery and re-presentation lets two views or two
\* attempts carry two wakes past the fence together.
SingleFlight == \A v, w \in Wakes : InFlight(v) /\ InFlight(w) => v = w

\* No outcome is ever returned by two consumes, whatever is re-reported after a lost
\* acknowledgement, re-awaited after its wake was settled and pruned, or redelivered.
AtMostOnce == \A s \in Source : returned[s] <= 1

\* A wake has at most one message, ever: losing the response of prepare, an expired
\* view or an unknown delivery never makes a second one.
OneMessagePerWake == \A m1, m2 \in mail : m1.wake = m2.wake => m1 = m2

\* The sources a message was prepared for are the sources its wake holds from then on:
\* what arrives after the fence goes to another wake.
SourcesFrozen == \A m \in mail : held[m.wake] = m.held

\* While the message of a wake may still be redeemed, the document keeps what the
\* exact envelope is compared with: no later call of any view makes it void.
EnvelopeHonoured ==
  \A w \in Wakes : Consumable(state[w]) =>
    \E m \in mail : /\ m.wake = w /\ m.n = att[w].n /\ m.gen = ep.gen
                    /\ stamp[w] = m.gen /\ att[w].token

\* A target is revoked, or moves to another context, at any moment between the
\* command, its outcome's arrival in a wake that may be claimed already, prepare and
\* consume: no message is made of an outcome of a context that is gone, and none is
\* handed to the model, not even by a message that was good when it was sent.
NothingFromGoneContexts ==
  [][/\ \A m \in mail' \ mail, s \in Source :
          s \in m.held => TargetOf[s] \in usable /\ s \notin stale
     /\ \A s \in Source : returned'[s] # returned[s] => TargetOf[s] \in usable /\ s \notin stale]_vars

\* A wake that is not settled belongs to the current controller, so that a view of
\* it can dispatch the wake and its message can be consumed.
BelongsToController ==
  \A w \in Wakes : Present(state, w) /\ state[w] # "settled" => stamp[w] = ep.gen

\* An awaited outcome that has been stored is in a wake, whether it arrived before or
\* after the await: no wake-up is lost between the two.
AwaitedIsQueued ==
  \A s \in ctl.awaited : receipt[s] = "stored" => \E w \in Wakes : Present(state, w) /\ s \in held[w]

\* Retention never takes an outcome that a current await names or an unsettled wake
\* holds.
OwedIsKept ==
  \A s \in Source : Owed(ctl.awaited, state, held, s) => receipt[s] # "expired"

\* Both: from the await to the settlement an outcome is owed, it stays where it can be
\* dispatched from.
NoOutcomeLost == AwaitedIsQueued /\ OwedIsKept

\* The promise of OutcomeDelivery, seen through wakes and receipts.
Status ==
  [s \in Source |->
     LET holders == {w \in Wakes : s \in held[w]}
         w == CHOOSE x \in holders : TRUE
     IN  IF receipt[s] = "none" THEN "running"
         ELSE IF receipt[s] = "expired" THEN "expired"
         ELSE IF holders = {} THEN "stored"
         ELSE CASE CanGrow(state[w]) -> "queued"
                [] state[w] \in {"prepared"} \cup DeliveryStatuses -> "offered"
                [] state[w] \in {"consumed", "needs_attention"}    -> "delivered"
                [] OTHER -> IF att[w].consumed THEN "done" ELSE "dropped"]

Promise == INSTANCE OutcomeDelivery WITH status <- Status

\* The promise is kept (OutcomeDelivery), and only to contexts that are still there.
Delivery == Promise!Spec /\ NothingFromGoneContexts

\* Each failed dispatch is one failure: the consecutive failures counted never exceed
\* the rounds spent since the budget was last reset.
OneFailurePerDispatch == ctl.failures <= ctl.rounds
================================================================================
