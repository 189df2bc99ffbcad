------------------------------ MODULE ContextDelivery -----------------------------
(***************************************************************************)
(* What a client has been handed of the context of one WorkSession and of  *)
(* its Targets, and what its host has said it consumed.  A call of a       *)
(* context tool first acknowledges what the host names in the request's    *)
(* metadata, then computes a context, records that it was returned, and    *)
(* answers.  Each of these is a statement or two of its own, and calls     *)
(* overlap: contexts may be recorded in another order than they were       *)
(* computed in, and a context may return to a revision it had before.      *)
(* Deleting the session deletes its deliveries with it; who owns it is     *)
(* checked with every statement.                                           *)
(***************************************************************************)
CONSTANTS Slot,       \* the session itself, and its Targets
          DRevision,  \* context revisions
          DCall,      \* calls of context tools at a time
          NoDelivery

VARIABLES
  delivery,  \* project_context_deliveries
  session,   \* whether the session exists
  dcall,     \* where each call is
  acked      \* observation: the revisions that the host has acknowledged

deliveryVars == <<delivery, session, dcall, acked>>

IdleCall == [step |-> "idle"]

DeliveryInit ==
  /\ delivery = [s \in Slot |-> NoDelivery] /\ session = TRUE
  /\ dcall = [c \in DCall |-> IdleCall]
  /\ acked = [s \in Slot |-> {}]

AtStep(c, step) == dcall[c].step = step
Advance(c, job) == dcall' = [dcall EXCEPT ![c] = job]

(* The session, and the Target that is named, belong to the client.        *)
Owned == session

(* A call without an acknowledgment, and one whose acknowledgment passes   *)
(* AcknowledgeContextConsumed's comparison; what it refuses ends the call. *)
BeginCall(c) ==
  /\ AtStep(c, "idle") /\ session
  /\ Advance(c, [step |-> "computing"])
  /\ UNCHANGED <<delivery, session, acked>>

ReadDelivery(c, s, r) ==
  /\ AtStep(c, "idle") /\ Owned
  /\ delivery[s] # NoDelivery /\ delivery[s].revision = r
  /\ Advance(c, [step |-> "acknowledging", slot |-> s, revision |-> r])
  /\ acked' = [acked EXCEPT ![s] = @ \cup {r}]
  /\ UNCHANGED <<delivery, session>>

\* Mutant: the update does not ask for the revision again.
ConsumedUnasked(s, r) ==
  IF delivery[s] = NoDelivery THEN NoDelivery ELSE [delivery[s] EXCEPT !.status = "host_consumed"]

(* The row may have got another revision since it was read: then the       *)
(* update finds nothing.                                                   *)
Consumed(s, r) ==
  IF delivery[s] # NoDelivery /\ delivery[s].revision = r
  THEN [delivery[s] EXCEPT !.status = "host_consumed"]
  ELSE delivery[s]

Consume(c) ==
  /\ AtStep(c, "acknowledging")
  /\ delivery' = [delivery EXCEPT ![dcall[c].slot] = Consumed(dcall[c].slot, dcall[c].revision)]
  /\ Advance(c, IF Owned THEN [step |-> "computing"] ELSE IdleCall)
  /\ UNCHANGED <<session, acked>>

(* What the prepared answer says of the delivery of a revision.            *)
Seen(s, r) ==
  IF delivery[s] # NoDelivery /\ delivery[s].revision = r THEN delivery[s].status ELSE "returned"

(* The context the tool computes: of whatever the Project is by then.      *)
Compute(c, s, r) ==
  /\ AtStep(c, "computing") /\ session
  /\ Advance(c, [step |-> "recording", slot |-> s, revision |-> r, says |-> Seen(s, r)])
  /\ UNCHANGED <<delivery, session, acked>>

(* What a row of the table may hold.                                       *)
DeliveryRow == [revision : DRevision, status : {"returned", "host_consumed"}]

(* What the host has consumed stays consumed if it is returned again.      *)
Returned(s, r) ==
  IF delivery[s] # NoDelivery /\ delivery[s].revision = r THEN delivery[s]
  ELSE [revision |-> r, status |-> "returned"]

Record(c) ==
  /\ AtStep(c, "recording") /\ Owned
  /\ delivery' = [delivery EXCEPT ![dcall[c].slot] = Returned(dcall[c].slot, dcall[c].revision)]
  /\ Advance(c, IdleCall)
  /\ UNCHANGED <<session, acked>>

(* The tool or a statement fails, or the server stops.                     *)
CallFails(c) ==
  /\ ~AtStep(c, "idle")
  /\ Advance(c, IdleCall)
  /\ UNCHANGED <<delivery, session, acked>>

(* The Project is deleted, and its sessions and their deliveries with it.  *)
DeleteSession ==
  /\ session /\ session' = FALSE
  /\ delivery' = [s \in Slot |-> NoDelivery]
  /\ UNCHANGED <<dcall, acked>>

DeliveryNext ==
  \/ \E c \in DCall :
       \/ BeginCall(c) \/ Consume(c) \/ Record(c) \/ CallFails(c)
       \/ \E s \in Slot, r \in DRevision : ReadDelivery(c, s, r) \/ Compute(c, s, r)
  \/ DeleteSession

DeliverySpec == DeliveryInit /\ [][DeliveryNext]_deliveryVars

Job ==
  [step : {"idle", "computing"}]
    \cup [step : {"acknowledging"}, slot : Slot, revision : DRevision]
    \cup [step : {"recording"}, slot : Slot, revision : DRevision,
          says : {"returned", "host_consumed"}]

(* The values the variables take; a session that is gone has no delivery.  *)
DeliveryTypeOK ==
  /\ delivery \in [Slot -> DeliveryRow \cup {NoDelivery}]
  /\ session \in BOOLEAN
  /\ dcall \in [DCall -> Job]
  /\ acked \in [Slot -> SUBSET DRevision]
  /\ session \/ \A s \in Slot : delivery[s] = NoDelivery

(* A delivery that counts as consumed is of a revision that the host has   *)
(* acknowledged, and so is every prepared answer that says so: whatever    *)
(* calls returned other revisions between the comparison of an             *)
(* acknowledgment and its update (delivery.go, AcknowledgeContextConsumed).*)
ConsumedWasAcked ==
  /\ \A s \in Slot :
       delivery[s] # NoDelivery /\ delivery[s].status = "host_consumed"
         => delivery[s].revision \in acked[s]
  /\ \A c \in DCall :
       AtStep(c, "recording") /\ dcall[c].says = "host_consumed"
         => dcall[c].revision \in acked[dcall[c].slot]
==================================================================================
