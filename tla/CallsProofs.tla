----------------------------- MODULE CallsProofs -----------------------------
(***************************************************************************)
(* Theorems about calls, collector and batches, for every number of them.  *)
(*                                                                         *)
(* BridgeCalls: no send to a result channel can block, and every step of   *)
(* the connection is one that NodeCall promises.  The invariant follows    *)
(* one value on its way to a call: of the pending entry, the value in      *)
(* somebody's hands and the value in the channel there is one at most      *)
(* (OneValue), each of a call that has been added (Added); and what is     *)
(* answered was carried out, once (Carried).                               *)
(*                                                                         *)
(* OutcomeCollector: workers are there in a round only and the database    *)
(* open until the collector has stopped (WorkersInRound), and a batch that *)
(* is acknowledged is in the store (StoredBeforeAck).                      *)
(*                                                                         *)
(* EmbeddingBatches: a batch that was handed out is embedded or held, or   *)
(* somebody has failed (BatchesAccounted).                                 *)
(***************************************************************************)
EXTENDS MCCalls, FiniteSetTheorems, TLAPS

(* A result is on its way to a call from one place at most.                *)
OneValue ==
  /\ \A i \in pending : channel[i] = "empty"
  /\ \A x \in hands : channel[x[1]] = "empty" /\ x[1] \notin pending
  /\ \A x, y \in hands : x[1] = y[1] => x = y

(* Nothing is on its way to a call that has not been made.                 *)
Added ==
  \A i \in Invocation : invocation[i] = "none" =>
    /\ i \notin pending /\ channel[i] = "empty"
    /\ \A x \in hands : x[1] # i

(* A request is received at most once, and only what was carried out is    *)
(* answered with a result.                                                 *)
Carried ==
  /\ \A i \in Invocation :
       /\ invocation[i] \in {"none", "added"} => wire[i] = {} /\ i \notin performed
       /\ "request" \in wire[i] => i \notin performed
       /\ channel[i] = "result" => i \in performed
  /\ replies \subseteq performed
  /\ \A x \in hands : x[2] = "result" => x[1] \in performed

BridgeInv == BridgeTypeOK /\ OneValue /\ Added /\ Carried

(* What close takes with it, in one entry per pending call.                *)
LEMMA CloseTakes ==
  ASSUME BridgeInv, ~closed
  PROVE  /\ CloseHands \subseteq Invocation \X {"result", "gone"}
         /\ \A x \in CloseHands : channel[x[1]] = "empty" /\ invocation[x[1]] # "none"
         /\ \A x, y \in CloseHands : x[1] = y[1] => x = y
         /\ \A x \in CloseHands : x[2] = "result" => x[1] \in performed
PROOF
<1> USE DEF BridgeInv, BridgeTypeOK, OneValue, Added, Carried
<1> DEFINE gone == {<<j, "gone">> : j \in pending}
<1>1. CloseHands = hands \cup gone
  BY DEF CloseHands
<1>2. \A x \in gone : x[1] \in pending /\ x[2] = "gone" /\ x \in Invocation \X {"result", "gone"}
  OBVIOUS
<1>3. \A x, y \in gone : x[1] = y[1] => x = y
  OBVIOUS
<1> HIDE DEF gone
<1>4. \A x \in hands : x \in Invocation \X {"result", "gone"} /\ x[1] \notin pending /\ x[1] \in Invocation
  OBVIOUS
<1>5. \A x \in hands \cup gone : channel[x[1]] = "empty" /\ invocation[x[1]] # "none"
  BY <1>2, <1>4
<1>6. \A x, y \in hands \cup gone : x[1] = y[1] => x = y
  BY <1>2, <1>3, <1>4
<1> QED
  BY <1>1, <1>2, <1>4, <1>5, <1>6

(* A connection that has just been opened.                                 *)
LEMMA BridgeInitInv == BridgeInit => BridgeInv
PROOF
  BY DEF BridgeInit, BridgeInv, BridgeTypeOK, OneValue, Added, Carried

(* Every step keeps the invariant.                                         *)
LEMMA BridgeStepInv == BridgeInv /\ [BridgeNext]_bridgeVars => BridgeInv'
PROOF
<1> SUFFICES ASSUME BridgeInv, [BridgeNext]_bridgeVars PROVE BridgeInv'
  OBVIOUS
<1> USE DEF BridgeInv, BridgeTypeOK, OneValue, Added, Carried
<1>1. ASSUME NEW i \in Invocation, AddPending(i) PROVE BridgeInv'
  BY <1>1 DEF AddPending, Ends
<1>2. ASSUME NEW i \in Invocation, WriteRequest(i) PROVE BridgeInv'
  BY <1>2 DEF WriteRequest
<1>3. ASSUME NEW i \in Invocation, WriteFails(i) PROVE BridgeInv'
  <2>1. CASE closed
    BY <1>3, <2>1 DEF WriteFails, CloseHands
  <2>2. CASE ~closed
    <3> DEFINE taken == CloseHands
    <3>1. /\ taken \subseteq Invocation \X {"result", "gone"}
          /\ \A x \in taken : channel[x[1]] = "empty" /\ invocation[x[1]] # "none"
          /\ \A x, y \in taken : x[1] = y[1] => x = y
          /\ \A x \in taken : x[2] = "result" => x[1] \in performed
      BY <2>2, CloseTakes
    <3>2. hands' = taken
      BY <1>3 DEF WriteFails
    <3> HIDE DEF taken
    <3> QED
      BY <1>3, <3>1, <3>2 DEF WriteFails
  <2> QED
    BY <2>1, <2>2
<1>4. ASSUME NEW i \in Invocation, Receive(i) PROVE BridgeInv'
  BY <1>4 DEF Receive, Ends
<1>5. ASSUME NEW i \in Invocation, GiveUp(i) PROVE BridgeInv'
  BY <1>5 DEF GiveUp, Ends
<1>6. ASSUME NEW i \in Invocation, NodeReceives(i) PROVE BridgeInv'
  BY <1>6 DEF NodeReceives
<1>7. ASSUME NEW i \in Invocation, NodeAnswers(i) PROVE BridgeInv'
  BY <1>7 DEF NodeAnswers
<1>8. ASSUME NEW i \in Invocation, Resolve(i) PROVE BridgeInv'
  <2>1. CASE i \in pending
    BY <1>8, <2>1 DEF Resolve, Taken
  <2>2. CASE i \notin pending
    BY <1>8, <2>2 DEF Resolve, Taken
  <2> QED
    BY <2>1, <2>2
<1>9. ASSUME Close PROVE BridgeInv'
  <2> DEFINE taken == CloseHands
  <2>1. /\ taken \subseteq Invocation \X {"result", "gone"}
        /\ \A x \in taken : channel[x[1]] = "empty" /\ invocation[x[1]] # "none"
        /\ \A x, y \in taken : x[1] = y[1] => x = y
        /\ \A x \in taken : x[2] = "result" => x[1] \in performed
    BY <1>9, CloseTakes DEF Close
  <2>2. hands' = taken
    BY <1>9 DEF Close
  <2> HIDE DEF taken
  <2> QED
    BY <1>9, <2>1, <2>2 DEF Close
<1>10. ASSUME NEW x \in Invocation \X {"result", "gone"}, Deliver(x) PROVE BridgeInv'
  BY <1>10 DEF Deliver
<1>11. CASE UNCHANGED bridgeVars
  BY <1>11 DEF bridgeVars
<1> QED
  BY <1>1, <1>2, <1>3, <1>4, <1>5, <1>6, <1>7, <1>8, <1>9, <1>10, <1>11 DEF BridgeNext

(* The map holds calls, the channels one value each (connections.go).      *)
THEOREM BridgeTypes == BridgeSpec => []BridgeTypeOK
PROOF
<1>1. BridgeInv => BridgeTypeOK
  BY DEF BridgeInv
<1> QED
  BY <1>1, BridgeInitInv, BridgeStepInv, PTL DEF BridgeSpec

(* Neither the read loop nor whoever closes the connection waits at a      *)
(* result channel, however many calls are resolved, given up or closed at  *)
(* the same time (connections.go, resolve and close).                      *)
THEOREM SendsNeverBlock == BridgeSpec => []NoSendBlocks
PROOF
<1>1. BridgeInv => NoSendBlocks
  BY DEF BridgeInv, OneValue, NoSendBlocks
<1> QED
  BY <1>1, BridgeInitInv, BridgeStepInv, PTL DEF BridgeSpec

(* ---- what Invoke promises ----------------------------------------------- *)

(* A call under way, or one that was not made, fails as the connection goes. *)
LEMMA FailsWithConnection ==
  ASSUME BridgeInv, NEW i \in Invocation, invocation[i] \in {"none", "added", "waiting"},
         invocation' = [invocation EXCEPT ![i] = "failed"], performed' = performed,
         closed => closed'
  PROVE  Remote!CallNext
PROOF
<1>1. CASE closed \/ ~closed'
  <2>1. Remote!BreakAndFail(i, {})
    BY <1>1 DEF Remote!BreakAndFail, BridgeInv, BridgeTypeOK
  <2> QED
    BY <2>1 DEF Remote!CallNext
<1>2. CASE ~closed /\ closed'
  <2>1. Remote!BreakAndFail(i, Invocation)
    BY <1>2 DEF Remote!BreakAndFail, BridgeInv, BridgeTypeOK
  <2> QED
    BY <2>1 DEF Remote!CallNext
<1> QED
  BY <1>1, <1>2

(* A step of the connection is a step of NodeCall or changes nothing there. *)
LEMMA BridgeStepRefines ==
  BridgeInv /\ [BridgeNext]_bridgeVars => [Remote!CallNext]_(Remote!callVars)
PROOF
<1> SUFFICES ASSUME BridgeInv, [BridgeNext]_bridgeVars PROVE [Remote!CallNext]_(Remote!callVars)
  OBVIOUS
<1> USE DEF BridgeInv, BridgeTypeOK
<1>1. ASSUME NEW i \in Invocation, AddPending(i) PROVE Remote!CallNext
  <2>1. CASE closed
    BY <1>1, <2>1, FailsWithConnection DEF AddPending, Ends
  <2>2. CASE ~closed
    <3>1. Remote!Start(i)
      BY <1>1, <2>2 DEF AddPending, Remote!Start
    <3> QED
      BY <3>1 DEF Remote!CallNext
  <2> QED
    BY <2>1, <2>2
<1>2. ASSUME NEW i \in Invocation, WriteRequest(i) PROVE UNCHANGED Remote!callVars
  BY <1>2 DEF WriteRequest, Remote!callVars
<1>3. ASSUME NEW i \in Invocation, WriteFails(i) PROVE Remote!CallNext
  BY <1>3, FailsWithConnection DEF WriteFails
<1>4. ASSUME NEW i \in Invocation, Receive(i) PROVE Remote!CallNext
  <2>1. CASE channel[i] = "result"
    <3>1. Remote!Answer(i)
      BY <1>4, <2>1 DEF Receive, Ends, Remote!Answer, Carried
    <3> QED
      BY <3>1 DEF Remote!CallNext
  <2>2. CASE channel[i] # "result"
    BY <1>4, <2>2, FailsWithConnection DEF Receive, Ends
  <2> QED
    BY <2>1, <2>2
<1>5. ASSUME NEW i \in Invocation, GiveUp(i) PROVE Remote!CallNext
  BY <1>5, FailsWithConnection DEF GiveUp, Ends
<1>6. ASSUME NEW i \in Invocation, NodeReceives(i)
      PROVE  Remote!CallNext \/ UNCHANGED Remote!callVars
  <2>1. CASE performed' = performed \cup {i}
    <3>1. Remote!Execute(i)
      BY <1>6, <2>1 DEF NodeReceives, Remote!Execute, Carried
    <3> QED
      BY <3>1 DEF Remote!CallNext
  <2>2. CASE UNCHANGED performed
    BY <1>6, <2>2 DEF NodeReceives, Remote!callVars
  <2> QED
    BY <1>6, <2>1, <2>2 DEF NodeReceives
<1>7. ASSUME NEW i \in Invocation, NodeAnswers(i) \/ Resolve(i) PROVE UNCHANGED Remote!callVars
  BY <1>7 DEF NodeAnswers, Resolve, Remote!callVars
<1>8. ASSUME Close PROVE Remote!CallNext
  <2>1. Remote!Break(Invocation)
    BY <1>8 DEF Close, Remote!Break
  <2> QED
    BY <2>1 DEF Remote!CallNext
<1>9. ASSUME NEW x \in Invocation \X {"result", "gone"}, Deliver(x)
      PROVE  UNCHANGED Remote!callVars
  BY <1>9 DEF Deliver, Remote!callVars
<1>10. CASE UNCHANGED bridgeVars
  BY <1>10 DEF bridgeVars, Remote!callVars
<1> QED
  BY <1>1, <1>2, <1>3, <1>4, <1>5, <1>6, <1>7, <1>8, <1>9, <1>10 DEF BridgeNext

(* A connection keeps what Invoke promises, but for the time it takes: a   *)
(* call ends once, an answer is one of an operation that was carried out,  *)
(* and no operation is carried out twice (connections.go, Invoke).         *)
THEOREM BridgeImplementsNodeCall ==
  BridgeSpec => Remote!CallInit /\ [][Remote!CallNext]_(Remote!callVars)
PROOF
<1>1. BridgeInit => Remote!CallInit
  BY DEF BridgeInit, Remote!CallInit
<1> QED
  BY <1>1, BridgeInitInv, BridgeStepInv, BridgeStepRefines, PTL DEF BridgeSpec

(* ---- the collector of command outcomes ------------------------------------ *)

CollectorTypes ==
  /\ online \subseteq Peer /\ born \in [Outcome -> Nat]
  /\ receipts \subseteq Peer \X Outcome \X BOOLEAN
  /\ outbox \in [Peer -> SUBSET Born] /\ batch \in [Peer -> SUBSET Born]
  /\ phase \in {"sleep", "round", "stopped"} /\ todoNodes \subseteq Peer
  /\ worker \in [Peer -> {"none", "read", "record", "ack"}]
  /\ asked \in BOOLEAN /\ database \in {"open", "closed"} /\ faults \in 0..MaxFaults
  /\ IsFiniteSet(Born)

(* Workers work in a round only, no more of them than there are slots, and *)
(* the database is closed when the collector has stopped.                  *)
WorkersInRound ==
  /\ phase # "round" => \A n \in Peer : worker[n] = "none"
  /\ database = "closed" => phase = "stopped"
WorkersBounded == IsFiniteSet(Working) /\ Cardinality(Working) <= Slots

(* What a worker acknowledges is in the store.                             *)
StoredBeforeAck == \A n \in Peer : worker[n] = "ack" => \A e \in batch[n] : Kept(n, e)
NoneForgotten == \A e \in Born : \E n \in Peer : e \in outbox[n] \/ Kept(n, e)

CollectorInv == CollectorTypes /\ WorkersInRound /\ WorkersBounded /\ StoredBeforeAck /\ NoneForgotten

LEMMA CommandEndsInv ==
  ASSUME CollectorInv, NEW n \in Peer, NEW e \in Outcome, CommandEnds(n, e)
  PROVE  CollectorInv'
PROOF
<1>1. /\ born' = [born EXCEPT ![e] = Cardinality(Born) + 1]
      /\ outbox' = [outbox EXCEPT ![n] = @ \cup {e}]
      /\ UNCHANGED <<online, receipts, phase, todoNodes, worker, batch, asked, database, faults>>
  BY DEF CommandEnds
<1>2. CollectorTypes /\ Cardinality(Born) \in Nat
  BY FS_CardinalityType DEF CollectorInv, CollectorTypes
<1>3. born' \in [Outcome -> Nat] /\ Born' = Born \cup {e}
  <2> DEFINE age == Cardinality(Born) + 1
  <2>1. age \in Nat /\ age > 0
    BY <1>2
  <2>2. born' = [born EXCEPT ![e] = age] /\ born \in [Outcome -> Nat]
    BY <1>1, <1>2 DEF CollectorTypes
  <2> HIDE DEF age
  <2>3. born' \in [Outcome -> Nat]
    BY <2>1, <2>2
  <2>4. ASSUME NEW x \in Outcome PROVE born'[x] > 0 <=> born[x] > 0 \/ x = e
    BY <2>1, <2>2
  <2> QED
    BY <2>3, <2>4 DEF Born
<1>4. IsFiniteSet(Born')
  BY <1>2, <1>3, FS_AddElement DEF CollectorTypes
<1>5. outbox' \in [Peer -> SUBSET Born'] /\ batch' \in [Peer -> SUBSET Born']
  BY <1>1, <1>2, <1>3 DEF CollectorTypes
<1>6. CollectorTypes'
  BY <1>1, <1>2, <1>3, <1>4, <1>5 DEF CollectorTypes
<1>7. WorkersInRound' /\ WorkersBounded' /\ StoredBeforeAck'
  BY <1>1 DEF CollectorInv, WorkersInRound, WorkersBounded, StoredBeforeAck, Working, Kept
<1>8. ASSUME NEW x \in Born' PROVE \E m \in Peer : x \in outbox'[m] \/ Kept(m, x)'
  <2>1. CASE x = e
    BY <1>1, <1>2, <2>1 DEF CollectorTypes
  <2>2. CASE x # e
    <3>1. PICK m \in Peer : x \in outbox[m] \/ Kept(m, x)
      BY <1>3, <2>2 DEF CollectorInv, NoneForgotten
    <3>2. outbox[m] \subseteq outbox'[m] /\ Kept(m, x)' = Kept(m, x)
      BY <1>1, <1>2 DEF CollectorTypes, Kept
    <3> QED
      BY <3>1, <3>2
  <2> QED
    BY <2>1, <2>2
<1> QED
  BY <1>6, <1>7, <1>8 DEF CollectorInv, NoneForgotten

(* A worker that goes on or ends takes no other slot.                      *)
LEMMA WorkerGoesOn ==
  ASSUME WorkersBounded, NEW n \in Peer, worker \in [Peer -> {"none", "read", "record", "ack"}],
         NEW step \in {"none", "read", "record", "ack"}, worker[n] # "none",
         worker' = [worker EXCEPT ![n] = step]
  PROVE  WorkersBounded'
PROOF
<1>1. Working' \subseteq Working
  BY DEF Working
<1>2. IsFiniteSet(Working') /\ Cardinality(Working') <= Cardinality(Working)
  BY <1>1, FS_Subset DEF WorkersBounded
<1>3. Cardinality(Working') \in Nat /\ Cardinality(Working) \in Nat /\ Slots \in Nat
  BY <1>2, FS_CardinalityType, CollectorConstants DEF WorkersBounded
<1> QED
  BY <1>2, <1>3 DEF WorkersBounded

LEMMA StartWorkerInv ==
  ASSUME CollectorInv, NEW n \in Peer, StartWorker(n)
  PROVE  CollectorInv'
PROOF
<1>1. /\ todoNodes' = todoNodes \ {n} /\ phase = "round"
      /\ UNCHANGED <<online, outbox, born, receipts, phase, batch, asked, database, faults>>
  BY DEF StartWorker
<1>2. /\ CollectorTypes /\ WorkersInRound /\ WorkersBounded /\ StoredBeforeAck
      /\ worker \in [Peer -> {"none", "read", "record", "ack"}]
  BY DEF CollectorInv, CollectorTypes
<1>3. NoneForgotten'
  BY <1>1 DEF CollectorInv, NoneForgotten, Born, Kept
<1>4. WorkersInRound'
  BY <1>1, <1>2 DEF WorkersInRound
<1>5. CASE n \in online
  <2>1. worker' = [worker EXCEPT ![n] = "read"] /\ Cardinality(Working) < Slots
    BY <1>5 DEF StartWorker
  <2>2. Working' = Working \cup {n}
    BY <1>2, <2>1 DEF Working
  <2>3. /\ IsFiniteSet(Working') /\ Cardinality(Working) \in Nat /\ Slots \in Nat
        /\ Cardinality(Working') = Cardinality(Working)
             \/ Cardinality(Working') = Cardinality(Working) + 1
    BY <1>2, <2>2, FS_AddElement, FS_CardinalityType, CollectorConstants DEF WorkersBounded
  <2>4. WorkersBounded'
    BY <2>1, <2>3 DEF WorkersBounded
  <2>5. StoredBeforeAck'
    BY <1>1, <1>2, <2>1 DEF StoredBeforeAck, Kept
  <2>6. CollectorTypes'
    BY <1>1, <1>2, <2>1 DEF CollectorTypes, Born
  <2> QED
    BY <1>3, <1>4, <2>4, <2>5, <2>6 DEF CollectorInv
<1>6. CASE n \notin online
  <2>1. worker' = worker
    BY <1>6 DEF StartWorker
  <2>2. CollectorTypes' /\ WorkersBounded' /\ StoredBeforeAck'
    BY <1>1, <1>2, <2>1 DEF CollectorTypes, Born, WorkersBounded, Working, StoredBeforeAck, Kept
  <2> QED
    BY <1>3, <1>4, <2>2 DEF CollectorInv
<1> QED
  BY <1>5, <1>6

(* A worker reads, records, or ends without an acknowledgement.            *)
LEMMA ReadInv ==
  ASSUME CollectorInv, NEW n \in Peer, Read(n)
  PROVE  CollectorInv'
PROOF
<1>1. /\ worker[n] = "read" /\ worker' = [worker EXCEPT ![n] = "record"]
      /\ batch' = [batch EXCEPT ![n] = Oldest(n)] /\ Oldest(n) \subseteq outbox[n]
      /\ UNCHANGED <<online, outbox, born, receipts, phase, todoNodes, asked, database, faults>>
  BY DEF Read, Oldest
<1>2. CollectorTypes /\ WorkersInRound /\ WorkersBounded /\ StoredBeforeAck
  BY DEF CollectorInv
<1>3. CollectorTypes'
  BY <1>1, <1>2 DEF CollectorTypes, Born
<1>4. WorkersInRound'
  BY <1>1, <1>2 DEF WorkersInRound
<1>5. WorkersBounded'
  BY <1>1, <1>2, WorkerGoesOn DEF CollectorTypes
<1>6. StoredBeforeAck'
  BY <1>1, <1>2 DEF StoredBeforeAck, Kept, CollectorTypes
<1>7. NoneForgotten'
  BY <1>1 DEF CollectorInv, NoneForgotten, Born, Kept
<1> QED
  BY <1>3, <1>4, <1>5, <1>6, <1>7 DEF CollectorInv

LEMMA RecordInv ==
  ASSUME CollectorInv, NEW n \in Peer, Record(n)
  PROVE  CollectorInv'
PROOF
<1> DEFINE new == {<<n, e, e \notin Orphan>> : e \in batch[n]}
           step == IF batch[n] = {} THEN "none" ELSE "ack"
<1>1. /\ worker[n] = "record" /\ worker' = [worker EXCEPT ![n] = step]
      /\ receipts' = receipts \cup new
      /\ UNCHANGED <<online, outbox, born, phase, todoNodes, batch, asked, database, faults>>
  BY DEF Record
<1>2. CollectorTypes /\ WorkersInRound /\ WorkersBounded /\ StoredBeforeAck
  BY DEF CollectorInv
<1>3. new \subseteq Peer \X Outcome \X BOOLEAN
  <2>1. ASSUME NEW e \in batch[n] PROVE <<n, e, e \notin Orphan>> \in Peer \X Outcome \X BOOLEAN
    <3>1. e \in Outcome
      BY <1>2 DEF CollectorTypes, Born
    <3>2. (e \notin Orphan) \in BOOLEAN
      OBVIOUS
    <3> QED
      BY <3>1, <3>2
  <2> QED
    BY <2>1
<1>4. \A e \in batch[n] : Kept(n, e)'
  BY <1>1 DEF Kept
<1>5. step \in {"none", "ack"}
  OBVIOUS
<1> HIDE DEF new, step
<1>6. CollectorTypes'
  BY <1>1, <1>2, <1>3, <1>5 DEF CollectorTypes, Born
<1>7. WorkersInRound'
  BY <1>1, <1>2 DEF WorkersInRound
<1>8. WorkersBounded'
  BY <1>1, <1>2, <1>5, WorkerGoesOn DEF CollectorTypes
<1>9. StoredBeforeAck'
  BY <1>1, <1>2, <1>4 DEF StoredBeforeAck, Kept, CollectorTypes
<1>10. NoneForgotten'
  BY <1>1 DEF CollectorInv, NoneForgotten, Born, Kept
<1> QED
  BY <1>6, <1>7, <1>8, <1>9, <1>10 DEF CollectorInv

LEMMA AckInv ==
  ASSUME CollectorInv, NEW n \in Peer, Ack(n)
  PROVE  CollectorInv'
PROOF
<1>1. /\ worker[n] = "ack" /\ worker' = [worker EXCEPT ![n] = "none"]
      /\ outbox' = [outbox EXCEPT ![n] = @ \ batch[n]] /\ batch' = [batch EXCEPT ![n] = {}]
      /\ UNCHANGED <<online, born, receipts, phase, todoNodes, asked, database, faults>>
  BY DEF Ack
<1>2. CollectorTypes /\ WorkersInRound /\ WorkersBounded /\ StoredBeforeAck
  BY DEF CollectorInv
<1>3. CollectorTypes'
  BY <1>1, <1>2 DEF CollectorTypes, Born
<1>4. WorkersInRound'
  BY <1>1, <1>2 DEF WorkersInRound
<1>5. WorkersBounded'
  BY <1>1, <1>2, WorkerGoesOn DEF CollectorTypes
<1>6. StoredBeforeAck'
  BY <1>1, <1>2 DEF StoredBeforeAck, Kept, CollectorTypes
<1>7. ASSUME NEW e \in Born' PROVE \E m \in Peer : e \in outbox'[m] \/ Kept(m, e)'
  <2>1. PICK m \in Peer : e \in outbox[m] \/ Kept(m, e)
    BY <1>1 DEF CollectorInv, NoneForgotten, Born
  <2>2. CASE m = n /\ e \in batch[n]
    <3>1. Kept(n, e)
      BY <1>1, <1>2, <2>2 DEF StoredBeforeAck
    <3> QED
      BY <1>1, <3>1 DEF Kept
  <2>3. CASE m # n \/ e \notin batch[n]
    BY <1>1, <1>2, <2>1, <2>3 DEF Kept, CollectorTypes
  <2> QED
    BY <2>2, <2>3
<1> QED
  BY <1>3, <1>4, <1>5, <1>6, <1>7 DEF CollectorInv, NoneForgotten

LEMMA WorkerFailsInv ==
  ASSUME CollectorInv, NEW n \in Peer, WorkerFails(n)
  PROVE  CollectorInv'
PROOF
<1>1. /\ worker[n] # "none" /\ worker' = [worker EXCEPT ![n] = "none"]
      /\ batch' = [batch EXCEPT ![n] = {}] /\ faults' \in 0..MaxFaults
      /\ UNCHANGED <<online, outbox, born, receipts, phase, todoNodes, asked, database>>
  BY CollectorConstants DEF WorkerFails, Fault, CollectorInv, CollectorTypes
<1>2. CollectorTypes /\ WorkersInRound /\ WorkersBounded /\ StoredBeforeAck
  BY DEF CollectorInv
<1>3. CollectorTypes'
  BY <1>1, <1>2 DEF CollectorTypes, Born
<1>4. WorkersInRound'
  BY <1>1, <1>2 DEF WorkersInRound, CollectorTypes
<1>5. WorkersBounded'
  BY <1>1, <1>2, WorkerGoesOn DEF CollectorTypes
<1>6. StoredBeforeAck'
  BY <1>1, <1>2 DEF StoredBeforeAck, Kept, CollectorTypes
<1>7. NoneForgotten'
  BY <1>1 DEF CollectorInv, NoneForgotten, Born, Kept
<1> QED
  BY <1>3, <1>4, <1>5, <1>6, <1>7 DEF CollectorInv

(* Steps that leave outboxes, batches, receipts and workers alone.         *)
LEMMA RoundsInv ==
  ASSUME CollectorInv,
         \/ \E n \in Peer : Connect(n) \/ Disconnected(n)
         \/ BeginRound \/ LeaveRound \/ EndRound \/ Stop \/ Stopped \/ CloseDatabase
         \/ UNCHANGED collectorVars
  PROVE  CollectorInv'
PROOF
<1>1. UNCHANGED <<outbox, born, receipts, worker, batch>>
  BY DEF Connect, Disconnected, BeginRound, LeaveRound, EndRound, Stop, Stopped, CloseDatabase,
     collectorVars
<1>2. CollectorTypes'
  <2>1. faults' \in 0..MaxFaults
    <3>1. faults \in 0..MaxFaults /\ MaxFaults \in Nat
      BY CollectorConstants DEF CollectorInv, CollectorTypes
    <3>2. faults' = faults \/ (faults < MaxFaults /\ faults' = faults + 1)
      BY DEF Fault, Connect, Disconnected, BeginRound, LeaveRound, EndRound, Stop, Stopped,
         CloseDatabase, collectorVars
    <3> QED
      BY <3>1, <3>2
  <2>2. online' \subseteq Peer /\ todoNodes' \subseteq Peer
    BY DEF CollectorInv, CollectorTypes, Connect, Disconnected, BeginRound, LeaveRound, EndRound,
       Stop, Stopped, CloseDatabase, collectorVars
  <2>3. /\ phase' \in {"sleep", "round", "stopped"} /\ asked' \in BOOLEAN
        /\ database' \in {"open", "closed"}
    BY DEF CollectorInv, CollectorTypes, Connect, Disconnected, BeginRound, LeaveRound, EndRound,
       Stop, Stopped, CloseDatabase, collectorVars
  <2> QED
    BY <1>1, <2>1, <2>2, <2>3 DEF CollectorInv, CollectorTypes, Born
<1>3. WorkersInRound'
  BY DEF CollectorInv, CollectorTypes, WorkersInRound, Connect, Disconnected, BeginRound,
     LeaveRound, EndRound, RoundOver, Stop, Stopped, CloseDatabase, Awaited, Working, collectorVars
<1>4. WorkersBounded' /\ StoredBeforeAck' /\ NoneForgotten'
  BY <1>1 DEF CollectorInv, WorkersBounded, Working, StoredBeforeAck, NoneForgotten, Born, Kept
<1> QED
  BY <1>2, <1>3, <1>4 DEF CollectorInv

LEMMA DieInv == ASSUME CollectorInv, Die PROVE CollectorInv'
PROOF
<1>1. /\ phase' = "sleep" /\ todoNodes' = {} /\ asked' = FALSE /\ database' = "open"
      /\ worker' = [n \in Peer |-> "none"] /\ batch' = [n \in Peer |-> {}]
      /\ UNCHANGED <<online, outbox, born, receipts>> /\ faults' \in 0..MaxFaults
  BY CollectorConstants DEF Die, Fault, CollectorInv, CollectorTypes
<1>2. CollectorTypes'
  BY <1>1 DEF CollectorInv, CollectorTypes, Born
<1>3. WorkersInRound' /\ StoredBeforeAck' /\ NoneForgotten'
  BY <1>1 DEF CollectorInv, WorkersInRound, StoredBeforeAck, NoneForgotten, Born, Kept
<1>4. Working' = {}
  BY <1>1 DEF Working
<1>5. WorkersBounded'
  BY <1>4, FS_EmptySet, CollectorConstants DEF WorkersBounded
<1> QED
  BY <1>2, <1>3, <1>5 DEF CollectorInv

LEMMA CollectorInitInv == CollectorInit => CollectorInv
PROOF
<1> SUFFICES ASSUME CollectorInit PROVE CollectorInv
  OBVIOUS
<1>1. Working = {} /\ Born = {}
  BY DEF CollectorInit, Working, Born
<1>2. WorkersBounded /\ IsFiniteSet(Born)
  BY <1>1, FS_EmptySet, CollectorConstants DEF WorkersBounded
<1>3. faults \in 0..MaxFaults
  BY CollectorConstants DEF CollectorInit
<1>4. CollectorTypes
  BY <1>1, <1>2, <1>3 DEF CollectorInit, CollectorTypes
<1>5. WorkersInRound /\ StoredBeforeAck /\ NoneForgotten
  BY <1>1 DEF CollectorInit, WorkersInRound, StoredBeforeAck, NoneForgotten
<1> QED
  BY <1>2, <1>4, <1>5 DEF CollectorInv

LEMMA CollectorStepInv == CollectorInv /\ [CollectorNext]_collectorVars => CollectorInv'
PROOF
  BY CommandEndsInv, StartWorkerInv, ReadInv, RecordInv, AckInv, WorkerFailsInv, RoundsInv, DieInv
  DEF CollectorNext

LEMMA CollectorInvImplies == CollectorInv => CollectorTypeOK /\ NothingForgotten
PROOF
  BY DEF CollectorInv, CollectorTypes, WorkersInRound, WorkersBounded, NoneForgotten, Working,
     CollectorTypeOK, NothingForgotten

(* No worker meets a closed database, and a node forgets no outcome before *)
(* the store has it, for any number of nodes, workers and outcomes,        *)
(* through lost answers, failed transactions, shutdowns and crashes        *)
(* (httpx/command_outcomes.go, nexusapp/app.go).                           *)
THEOREM OutcomesAreKept == CollectorSpec => [](CollectorTypeOK /\ NothingForgotten)
PROOF
  BY CollectorInitInv, CollectorStepInv, CollectorInvImplies, PTL DEF CollectorSpec

(* ---- the batches of a reindex, and the three together --------------------- *)

LEMMA BatchTypesStep == BatchTypeOK /\ [BatchNext]_batchVars => BatchTypeOK'
PROOF
<1> SUFFICES ASSUME BatchTypeOK, [BatchNext]_batchVars PROVE BatchTypeOK'
  OBVIOUS
<1> USE SomeBatches DEF BatchTypeOK, Gone
<1>1. ASSUME NEW w \in EWorker, Hand(w) PROVE BatchTypeOK'
  <2>1. offer \in 0..Gone /\ offer' \in 1..Gone
    BY <1>1 DEF Hand
  <2> QED
    BY <1>1, <2>1 DEF Hand, Holds
<1>2. ASSUME NEW w \in EWorker, Embed(w) PROVE BatchTypeOK'
  <2>1. holds[w] \in 1..Batches /\ 0 \in 0..Gone
    BY <1>2 DEF Embed
  <2>2. holds' \in [EWorker -> 0..Gone]
    BY <1>2, <2>1 DEF Embed, Holds
  <2> QED
    BY <1>2, <2>1, <2>2 DEF Embed
<1>3. ASSUME NEW w \in EWorker, FailBatch(w) \/ LeaveWorker(w) PROVE BatchTypeOK'
  <2>1. Gone \in 0..Gone
    OBVIOUS
  <2> QED
    BY <1>3, <2>1 DEF FailBatch, LeaveWorker, Holds
<1>4. CASE CloseJobs \/ CancelRequest \/ EndBatches \/ UNCHANGED batchVars
  BY <1>4 DEF CloseJobs, CancelRequest, EndBatches, Verdict, batchVars
<1> QED
  BY <1>1, <1>2, <1>3, <1>4 DEF BatchNext

(* A collector that is away forgets nothing.                               *)
CollectorAway == database = "open" /\ Born = {}

CallsInv ==
  /\ BridgeInv /\ BatchTypeOK
  /\ IF part = "collector" THEN CollectorInv ELSE CollectorAway

LEMMA CallsInitInv == CallsInit => CallsInv
PROOF
<1> SUFFICES ASSUME CallsInit PROVE CallsInv
  OBVIOUS
<1>1. BatchTypeOK
  <2>1. 0 \in 0..Gone /\ Gone \in 0..Gone /\ 1 \in 1..Gone
    BY SomeBatches DEF Gone
  <2>2. CASE part = "batches"
    BY <2>1, <2>2 DEF CallsInit, BatchInit, BatchTypeOK
  <2>3. CASE part # "batches"
    BY <2>1, <2>3 DEF CallsInit, BatchTypeOK
  <2> QED
    BY <2>2, <2>3
<1>2. IF part = "collector" THEN CollectorInv ELSE CollectorAway
  BY CollectorInitInv DEF CallsInit, CollectorAway, Born
<1> QED
  BY <1>1, <1>2, BridgeInitInv DEF CallsInit, CallsInv

LEMMA CallsStepInv ==
  CallsInv /\ [CallsNext]_<<part, bridgeVars, collectorVars, batchVars>> => CallsInv'
PROOF
<1> SUFFICES ASSUME CallsInv, [CallsNext]_<<part, bridgeVars, collectorVars, batchVars>>
             PROVE  CallsInv'
  OBVIOUS
<1>1. /\ [BridgeNext]_bridgeVars /\ [BatchNext]_batchVars /\ [CollectorNext]_collectorVars
      /\ part' = part /\ (part # "collector" => UNCHANGED collectorVars)
  BY DEF CallsNext
<1>2. BridgeInv' /\ BatchTypeOK'
  BY <1>1, BridgeStepInv, BatchTypesStep DEF CallsInv
<1>3. CASE part = "collector"
  BY <1>1, <1>2, <1>3, CollectorStepInv DEF CallsInv
<1>4. CASE part # "collector"
  BY <1>1, <1>2, <1>4 DEF CallsInv, CollectorAway, Born, collectorVars
<1> QED
  BY <1>3, <1>4

(* What the runs check of the three parts together: types, that no send of *)
(* a result blocks, and that no outcome is forgotten.                      *)
THEOREM CallsKeepAll == CallsSpec => [](CallsTypeOK /\ NoSendBlocks /\ NothingForgotten)
PROOF
<1>1. CallsInv => CallsTypeOK /\ NoSendBlocks /\ NothingForgotten
  BY CollectorInvImplies
  DEF CallsInv, CallsTypeOK, CollectorAway, NothingForgotten, BridgeInv, OneValue, NoSendBlocks
<1> QED
  BY <1>1, CallsInitInv, CallsStepInv, PTL DEF CallsSpec

(* ---- what a reindex returns ------------------------------------------------ *)

(* Without a failure no batch that was handed out is lost, and the sender  *)
(* leaves none unless the context is done.                                 *)
BatchesAccounted ==
  /\ ~failed => \A b \in 1..(offer - 1) : b \in embedded \/ \E w \in EWorker : holds[w] = b
  /\ sender = "waiting" => offer > Batches \/ cancelled
  /\ sender = "done" => embedded = 1..Batches

LEMMA BatchesStep ==
  BatchTypeOK /\ BatchesAccounted /\ [BatchNext]_batchVars => BatchesAccounted'
PROOF
<1> SUFFICES ASSUME BatchTypeOK, BatchesAccounted, [BatchNext]_batchVars PROVE BatchesAccounted'
  OBVIOUS
<1>0. /\ Batches \in Nat \ {0} /\ offer \in 1..(Batches + 1) /\ holds \in [EWorker -> 0..Gone]
      /\ embedded \subseteq 1..Batches
  BY SomeBatches DEF BatchTypeOK, Gone
<1>1. ASSUME NEW w \in EWorker, Hand(w) PROVE BatchesAccounted'
  <2>1. ASSUME NEW b \in 1..(offer' - 1), ~failed'
        PROVE  b \in embedded' \/ \E v \in EWorker : holds'[v] = b
    <3>1. CASE b = offer
      BY <1>0, <1>1, <3>1 DEF Hand, Holds
    <3>2. CASE b # offer
      <4>1. b \in 1..(offer - 1)
        BY <1>0, <1>1, <3>2 DEF Hand
      <4>2. b \in embedded \/ \E v \in EWorker : holds[v] = b
        BY <1>1, <2>1, <4>1 DEF Hand, BatchesAccounted
      <4>3. ASSUME NEW v \in EWorker, holds[v] = b PROVE holds'[v] = b
        BY <1>0, <1>1, <4>1, <4>3 DEF Hand, Holds
      <4> QED
        BY <1>1, <4>2, <4>3 DEF Hand
    <3> QED
      BY <3>1, <3>2
  <2>2. sender' # "waiting" /\ sender' # "done"
    BY <1>1 DEF Hand
  <2> QED
    BY <2>1, <2>2 DEF BatchesAccounted
<1>2. ASSUME NEW w \in EWorker, Embed(w) PROVE BatchesAccounted'
  <2>1. ASSUME NEW b \in 1..(offer' - 1), ~failed'
        PROVE  b \in embedded' \/ \E v \in EWorker : holds'[v] = b
    <3>1. b \in embedded \/ \E v \in EWorker : holds[v] = b
      BY <1>2, <2>1 DEF Embed, BatchesAccounted
    <3>2. ASSUME NEW v \in EWorker, holds[v] = b PROVE b \in embedded' \/ holds'[v] = b
      BY <1>0, <1>2, <3>2 DEF Embed, Holds
    <3> QED
      BY <1>2, <3>1, <3>2 DEF Embed
  <2>2. sender = "done" => embedded' = 1..Batches
    BY <1>0, <1>2 DEF Embed, BatchesAccounted
  <2> QED
    BY <1>2, <2>1, <2>2 DEF Embed, BatchesAccounted
<1>3. ASSUME NEW w \in EWorker, FailBatch(w) PROVE BatchesAccounted'
  BY <1>3 DEF FailBatch, BatchesAccounted
<1>4. ASSUME NEW w \in EWorker, LeaveWorker(w) PROVE BatchesAccounted'
  <2>1. ASSUME NEW b \in 1..(offer - 1), NEW v \in EWorker, holds[v] = b PROVE holds'[v] = b
    BY <1>0, <1>4, <2>1 DEF LeaveWorker, Holds
  <2> QED
    BY <1>4, <2>1 DEF LeaveWorker, BatchesAccounted
<1>5. CASE CloseJobs \/ CancelRequest \/ UNCHANGED batchVars
  BY <1>5 DEF CloseJobs, CancelRequest, batchVars, BatchesAccounted
<1>6. CASE EndBatches
  <2>1. CASE failed \/ cancelled
    BY <1>6, <2>1 DEF EndBatches, Verdict, BatchesAccounted
  <2>2. CASE ~failed /\ ~cancelled
    <3>1. offer - 1 = Batches
      BY <1>0, <1>6, <2>2 DEF EndBatches, BatchesAccounted
    <3>2. \A b \in 1..Batches : b \in embedded
      BY <1>0, <1>6, <2>2, <3>1 DEF EndBatches, BatchesAccounted, Gone
    <3>3. embedded = 1..Batches
      BY <1>0, <3>2
    <3> QED
      BY <1>6, <3>3 DEF EndBatches, BatchesAccounted
  <2> QED
    BY <2>1, <2>2
<1> QED
  BY <1>1, <1>2, <1>3, <1>4, <1>5, <1>6 DEF BatchNext

(* A reindex that reports success has the vectors of every batch, for any  *)
(* number of batches and workers, whichever fail, leave or are cancelled   *)
(* in whatever order (recall/embedding.go).                                *)
THEOREM ReindexIsComplete == BatchSpec => []BatchesComplete
PROOF
<1>1. BatchInit => BatchTypeOK /\ BatchesAccounted
  <2>1. 0 \in 0..Gone /\ 1 \in 1..Gone /\ 1..(1 - 1) = {}
    BY SomeBatches DEF Gone
  <2> QED
    BY <2>1 DEF BatchInit, BatchTypeOK, BatchesAccounted
<1>2. BatchesAccounted => BatchesComplete
  BY DEF BatchesAccounted, BatchesComplete
<1> QED
  BY <1>1, <1>2, BatchTypesStep, BatchesStep, PTL DEF BatchSpec
====================================================================================
