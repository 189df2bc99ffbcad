---------------------------- MODULE OutcomeDelivery ----------------------------
(***************************************************************************)
(* What WorkSession Continuation promises about one command outcome,       *)
(* whatever its wakes, attempts, leases and receipts do underneath:        *)
(*                                                                         *)
(*   running   the node has not reported a terminal state yet              *)
(*   stored    a receipt is kept; nobody has asked to be woken for it      *)
(*   expired   the receipt fell out of the retention window unawaited      *)
(*   queued    it waits in a wake for which no message exists yet          *)
(*   offered   a message that carries its wake was handed out              *)
(*   delivered the wake was consumed: the outcome is in the host's hands   *)
(*   done      delivered and settled                                       *)
(*   dropped   closed by a person without ever having been delivered       *)
(*                                                                         *)
(* An outcome only ever moves forward, so it is delivered at most once and *)
(* offered at most once; and one batch at a time is out of the queue: the  *)
(* next is offered only when nothing is offered or delivered unsettled.    *)
(***************************************************************************)
CONSTANT Source

VARIABLE status

Statuses == {"running", "stored", "expired", "queued", "offered",
             "delivered", "done", "dropped"}

With(x) == {s \in Source : status[s] = x}

\* Every source of S goes to status x, the others stay as they are.
Move(S, x) == [s \in Source |-> IF s \in S THEN x ELSE status[s]]

Init == status = [s \in Source |-> "running"]

\* A terminal outcome arrives, perhaps straight into a wake, and the same
\* transaction may push unawaited receipts out of the retention window.
Arrive(s, x, E) ==
  /\ status[s] = "running"
  /\ x \in {"stored", "queued"}
  /\ status' = [Move(E, "expired") EXCEPT ![s] = x]

Expire(E) == E # {} /\ status' = Move(E, "expired")

\* The session asks to be woken for outcomes that are already there.
Queue(Q) == Q # {} /\ status' = Move(Q, "queued")

Offer(B) ==
  /\ B # {} /\ B \subseteq With("queued")
  /\ With("offered") \cup With("delivered") = {}
  /\ status' = Move(B, "offered")

\* The message is redeemed: its batch is delivered whole.
Deliver ==
  /\ With("offered") # {}
  /\ status' = Move(With("offered"), "delivered")

\* A settlement, or a manual resolution of a batch that was never consumed.
CloseDelivered ==
  /\ With("delivered") # {}
  /\ status' = Move(With("delivered"), "done")

CloseOffered ==
  /\ With("offered") # {}
  /\ status' = Move(With("offered"), "dropped")

CloseQueued(B) ==
  /\ B # {} /\ B \subseteq With("queued")
  /\ status' = Move(B, "dropped")

Next ==
  \/ \E E \in SUBSET With("stored") :
       \/ \E s \in Source, x \in {"stored", "queued"} : Arrive(s, x, E)
       \/ Expire(E)
       \/ Queue(E)
  \/ \E B \in SUBSET With("queued") : Offer(B) \/ CloseQueued(B)
  \/ Deliver
  \/ CloseDelivered
  \/ CloseOffered

Spec == Init /\ [][Next]_status
================================================================================
