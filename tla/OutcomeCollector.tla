--------------------------- MODULE OutcomeCollector ---------------------------
(***************************************************************************)
(* The background collector of command outcomes: rounds over the nodes, a  *)
(* bounded number of workers, each reading a batch from its node, storing  *)
(* it in one transaction and acknowledging it after the commit.  What the  *)
(* store does with an outcome is modelled in Continuation; here an outcome *)
(* is recorded once, whether its session still exists or not.              *)
(*                                                                         *)
(* The node keeps an outcome until it is acknowledged and reports the      *)
(* oldest ones first; their age is the order in which they happened.       *)
(***************************************************************************)
EXTENDS Naturals, FiniteSets

CONSTANTS Peer,      \* nodes
          Outcome,   \* outcomes the nodes report
          Orphan,    \* those of sessions that are deleted meanwhile
          Slots,     \* workers of a round (4 in the code)
          Batch,     \* outcomes per read (32 in the code)
          MaxFaults  \* bound: processes and connections lost, calls and
                     \* transactions that fail on an open connection

ASSUME CollectorConstants == Orphan \subseteq Outcome /\ Slots \in Nat \ {0}
                                /\ Batch \in Nat \ {0} /\ MaxFaults \in Nat

VARIABLES
  online,    \* nodes with a connection, enabled and of this release
  outbox,    \* what each node still has to report
  born,      \* for each outcome the how-manyth it was to happen, or 0
  receipts,  \* outcomes stored, by node, and whether they are eligible
  phase,     \* of the collector: "sleep", "round" or "stopped"
  todoNodes,      \* nodes of the round that have no worker yet
  worker,    \* what the worker of each node is doing
  batch,     \* what it has read
  asked,     \* stop requested
  database,  \* "open" or "closed"
  faults     \* how many there have been

collectorVars == <<online, outbox, born, receipts, phase, todoNodes, worker, batch, asked, database,
                   faults>>

CollectorInit ==
  /\ online = Peer /\ born = [e \in Outcome |-> 0] /\ receipts = {}
  /\ outbox = [n \in Peer |-> {}]
  /\ phase = "sleep" /\ todoNodes = {}
  /\ worker = [n \in Peer |-> "none"] /\ batch = [n \in Peer |-> {}]
  /\ asked = FALSE /\ database = "open" /\ faults = 0

Born == {e \in Outcome : born[e] > 0}

CommandEnds(n, e) ==
  /\ e \notin Born
  /\ born' = [born EXCEPT ![e] = Cardinality(Born) + 1]
  /\ outbox' = [outbox EXCEPT ![n] = @ \cup {e}]
  /\ UNCHANGED <<online, receipts, phase, todoNodes, worker, batch, asked, database, faults>>

Connect(n) ==
  /\ n \notin online
  /\ online' = online \cup {n}
  /\ UNCHANGED <<outbox, born, receipts, phase, todoNodes, worker, batch, asked, database, faults>>

Fault == faults < MaxFaults /\ faults' = faults + 1
Disconnected(n) ==
  /\ n \in online /\ Fault
  /\ online' = online \ {n}
  /\ UNCHANGED <<outbox, born, receipts, phase, todoNodes, worker, batch, asked, database>>

(* A round: the nodes are listed, or that fails and the round is over.     *)
BeginRound ==
  /\ phase = "sleep" /\ ~asked
  /\ phase' = "round"
  /\ todoNodes' = Peer
  /\ UNCHANGED <<online, outbox, born, receipts, worker, batch, asked, database, faults>>

Working == {n \in Peer : worker[n] # "none"}

\* Mutant: a worker for every node at once.
StartWorkerAtOnce(n) ==
  /\ phase = "round" /\ n \in todoNodes
  /\ todoNodes' = todoNodes \ {n}
  /\ worker' = IF n \in online THEN [worker EXCEPT ![n] = "read"] ELSE worker
  /\ UNCHANGED <<online, outbox, born, receipts, phase, batch, asked, database, faults>>

StartWorker(n) ==
  /\ phase = "round" /\ n \in todoNodes
  /\ todoNodes' = todoNodes \ {n}
  /\ IF n \in online THEN /\ Cardinality(Working) < Slots
                          /\ worker' = [worker EXCEPT ![n] = "read"]
                     ELSE UNCHANGED worker
  /\ UNCHANGED <<online, outbox, born, receipts, phase, batch, asked, database, faults>>

(* The context ends while the collector waits for a slot.                  *)
LeaveRound ==
  /\ phase = "round" /\ asked /\ todoNodes # {}
  /\ todoNodes' = {}
  /\ UNCHANGED <<online, outbox, born, receipts, phase, worker, batch, asked, database, faults>>

(* Every worker has ended.                                                 *)
RoundOver == phase = "round" /\ todoNodes = {} /\ Working = {}
EndRound ==
  /\ RoundOver
  /\ phase' = "sleep"
  /\ UNCHANGED <<online, outbox, born, receipts, todoNodes, worker, batch, asked, database, faults>>

Older(n, e) == {x \in outbox[n] : born[x] < born[e]}
Oldest(n) == {e \in outbox[n] : Cardinality(Older(n, e)) < Batch}

Read(n) ==
  /\ worker[n] = "read" /\ n \in online
  /\ batch' = [batch EXCEPT ![n] = Oldest(n)]
  /\ worker' = [worker EXCEPT ![n] = "record"]
  /\ UNCHANGED <<online, outbox, born, receipts, phase, todoNodes, asked, database, faults>>

\* Mutant: a batch with an outcome of a deleted session is refused as a whole.
RecordKnown(n) ==
  /\ worker[n] = "record" /\ batch[n] \cap Orphan = {}
  /\ receipts' = receipts \cup {<<n, e, TRUE>> : e \in batch[n]}
  /\ worker' = [worker EXCEPT ![n] = IF batch[n] = {} THEN "none" ELSE "ack"]
  /\ UNCHANGED <<online, outbox, born, phase, todoNodes, batch, asked, database, faults>>

(* RecordCommandOutcomes: one transaction for the batch.  An outcome whose *)
(* session is gone is recorded as a receipt and acknowledged like others.  *)
Record(n) ==
  /\ worker[n] = "record"
  /\ receipts' = receipts \cup {<<n, e, e \notin Orphan>> : e \in batch[n]}
  /\ worker' = [worker EXCEPT ![n] = IF batch[n] = {} THEN "none" ELSE "ack"]
  /\ UNCHANGED <<online, outbox, born, phase, todoNodes, batch, asked, database, faults>>

(* The node forgets what is acknowledged, whether or not its answer        *)
(* arrives.                                                                *)
Ack(n) ==
  /\ worker[n] = "ack" /\ n \in online
  /\ outbox' = [outbox EXCEPT ![n] = @ \ batch[n]]
  /\ worker' = [worker EXCEPT ![n] = "none"]
  /\ batch' = [batch EXCEPT ![n] = {}]
  /\ UNCHANGED <<online, born, receipts, phase, todoNodes, asked, database, faults>>

(* A call fails or its ten seconds are over, or the transaction fails: the *)
(* next round reads again.                                                 *)
WorkerFails(n) ==
  /\ worker[n] # "none"
  /\ \/ n \notin online /\ worker[n] # "record" /\ UNCHANGED faults
     \/ Fault
  /\ worker' = [worker EXCEPT ![n] = "none"]
  /\ batch' = [batch EXCEPT ![n] = {}]
  /\ UNCHANGED <<online, outbox, born, receipts, phase, todoNodes, asked, database>>

(* Shutdown: the context is cancelled, the goroutine awaited, and only     *)
(* then the database closed; a process that dies and starts again finds    *)
(* the receipts.                                                           *)
Stop == /\ ~asked /\ Fault /\ asked' = TRUE
        /\ UNCHANGED <<online, outbox, born, receipts, phase, todoNodes, worker, batch, database>>
Stopped == /\ asked /\ phase = "sleep" /\ phase' = "stopped"
           /\ UNCHANGED <<online, outbox, born, receipts, todoNodes, worker, batch, asked, database, faults>>

\* Mutant: the database is closed without waiting for the collector.
NotAwaited == TRUE

Awaited == phase = "stopped"
CloseDatabase == /\ asked /\ Awaited /\ database = "open" /\ database' = "closed"
                 /\ UNCHANGED <<online, outbox, born, receipts, phase, todoNodes, worker, batch, asked, faults>>
Die == /\ (database = "closed" /\ UNCHANGED faults) \/ Fault
       /\ phase' = "sleep" /\ todoNodes' = {} /\ asked' = FALSE /\ database' = "open"
       /\ worker' = [n \in Peer |-> "none"] /\ batch' = [n \in Peer |-> {}]
       /\ UNCHANGED <<online, outbox, born, receipts>>

CollectorNext ==
  \/ \E n \in Peer, e \in Outcome : CommandEnds(n, e)
  \/ \E n \in Peer : \/ Connect(n) \/ Disconnected(n) \/ StartWorker(n)
                     \/ Read(n) \/ Record(n) \/ Ack(n) \/ WorkerFails(n)
  \/ BeginRound \/ LeaveRound \/ EndRound
  \/ Stop \/ Stopped \/ CloseDatabase \/ Die

(* The ticker and the goroutines run, a call ends, answered or not, a lost *)
(* connection comes back, and a server that was stopped is started again.  *)
(* How many faults there may be is not the code's to say; after the last   *)
(* one nothing but its own steps is needed.                                *)
CollectorFairness ==
  /\ WF_collectorVars(BeginRound) /\ WF_collectorVars(EndRound) /\ WF_collectorVars(LeaveRound)
  /\ WF_collectorVars(Stopped) /\ WF_collectorVars(CloseDatabase)
  /\ WF_collectorVars(Die /\ database = "closed")
  /\ \A n \in Peer : /\ WF_collectorVars(StartWorker(n)) /\ WF_collectorVars(Connect(n))
                     /\ WF_collectorVars(Read(n) \/ Record(n) \/ Ack(n))
                     /\ WF_collectorVars(WorkerFails(n) /\ n \notin online)

CollectorSpec == CollectorInit /\ [][CollectorNext]_collectorVars /\ CollectorFairness

-----------------------------------------------------------------------------
CollectorTypeOK ==
  /\ online \subseteq Peer /\ born \in [Outcome -> Nat]
  /\ receipts \subseteq Peer \X Outcome \X BOOLEAN
  /\ outbox \in [Peer -> SUBSET Born] /\ batch \in [Peer -> SUBSET Born]
  /\ phase \in {"sleep", "round", "stopped"} /\ todoNodes \subseteq Peer
  /\ worker \in [Peer -> {"none", "read", "record", "ack"}]
  /\ Cardinality(Working) <= Slots
  /\ asked \in BOOLEAN /\ database \in {"open", "closed"} /\ faults \in 0..MaxFaults

Kept(n, e) == <<n, e, e \notin Orphan>> \in receipts

(* No worker ever meets a closed database, and a node never forgets an     *)
(* outcome before the store has it: what it reported is in its outbox or   *)
(* in the receipts, through lost answers, failed transactions, shutdowns   *)
(* and crashes.                                                            *)
NothingForgotten ==
  /\ database = "closed" => Working = {}
  /\ \A e \in Born : \E n \in Peer : e \in outbox[n] \/ Kept(n, e)

(* Every outcome is stored in the end and its node told so, however slow   *)
(* or unreachable the other nodes are, and whatever is ahead of it in the  *)
(* outbox: an outcome of a deleted session does not hold up the others.    *)
OutcomesCollected ==
  \A n \in Peer, e \in Outcome :
    e \in outbox[n] ~> Kept(n, e) /\ e \notin outbox[n]
=============================================================================
