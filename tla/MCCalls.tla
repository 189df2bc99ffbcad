--------------------------------- MODULE MCCalls ---------------------------------
(* The calls of one connection, the collector of command outcomes and the       *)
(* batches of a reindex, which share no state: a behaviour explores one of them *)
(* and leaves the others where they are.  A collector that is away and batches  *)
(* that are done have no action that could be due.                              *)
EXTENDS BridgeCalls, OutcomeCollector, EmbeddingBatches

CONSTANTS i1, i2, i3, e1, e2, p1, p2, w1, w2

VARIABLE part

CallsInit ==
  /\ part \in {"calls", "collector", "batches"}
  /\ BridgeInit
  /\ IF part = "collector" THEN CollectorInit
     ELSE /\ phase = "away"
          /\ online = Peer /\ born = [e \in Outcome |-> 0] /\ receipts = {}
          /\ outbox = [n \in Peer |-> {}] /\ batch = [n \in Peer |-> {}]
          /\ todoNodes = {} /\ worker = [n \in Peer |-> "none"]
          /\ asked = FALSE /\ database = "open" /\ faults = 0
  /\ IF part = "batches" THEN BatchInit
     ELSE /\ sender = "done" /\ offer = 1 /\ holds = [w \in EWorker |-> Gone]
          /\ embedded = 1..Batches /\ cancelled = FALSE /\ failed = FALSE

CallsNext ==
  \/ part = "calls" /\ BridgeNext /\ UNCHANGED <<part, collectorVars, batchVars>>
  \/ part = "collector" /\ CollectorNext /\ UNCHANGED <<part, bridgeVars, batchVars>>
  \/ part = "batches" /\ BatchNext /\ UNCHANGED <<part, bridgeVars, collectorVars>>

CallsSpec == /\ CallsInit /\ [][CallsNext]_<<part, bridgeVars, collectorVars, batchVars>>
             /\ BridgeFairness /\ CollectorFairness /\ BatchFairness

(* The values each part takes.                                                  *)
CallsTypeOK == BridgeTypeOK /\ BatchTypeOK /\ (part = "collector" => CollectorTypeOK)
=============================================================================
