------------------------------ MODULE BridgeCalls ------------------------------
(***************************************************************************)
(* Calls over one connection of the hub: Invoke adds a result channel to   *)
(* the pending calls, writes the request, and waits for the channel or for *)
(* the end of its context.  The read loop resolves pending calls, and      *)
(* whoever notices that the connection is gone closes it.  Both take the   *)
(* pending entry under the mutex and send to its channel, of capacity one, *)
(* after they have released it.                                            *)
(*                                                                         *)
(* The node runs a request it has received unless the cancellation came    *)
(* first, and may answer twice.                                            *)
(***************************************************************************)
EXTENDS Naturals, FiniteSets

CONSTANT Invocation

VARIABLES
  invocation,  \* where each call is
  closed,      \* the closed flag of the connection
  pending,     \* the calls whose channel is in the pending map
  channel,     \* the result channels
  hands,       \* entries taken from the map whose result is not sent yet
  wire,        \* requests and cancellations on the way to the node
  performed,   \* requests the node has carried out
  replies      \* answers on the way to the read loop

bridgeVars == <<invocation, closed, pending, channel, hands, wire, performed, replies>>

BridgeInit ==
  /\ invocation = [i \in Invocation |-> "none"]
  /\ closed = FALSE /\ pending = {} /\ hands = {}
  /\ channel = [i \in Invocation |-> "empty"]
  /\ wire = [i \in Invocation |-> {}]
  /\ performed = {} /\ replies = {}

(* removePending, deferred by Invoke.                                      *)
Ends(i, how) == /\ invocation' = [invocation EXCEPT ![i] = how]
                /\ pending' = pending \ {i}

\* Mutant: the pending calls of a closed connection are dropped.
CloseDrops == hands

(* The entries close takes with it; a second close takes none.             *)
CloseHands == IF closed THEN hands ELSE hands \cup {<<j, "gone">> : j \in pending}

AddPending(i) ==
  /\ invocation[i] = "none"
  /\ IF closed THEN Ends(i, "failed")
     ELSE /\ invocation' = [invocation EXCEPT ![i] = "added"]
          /\ pending' = pending \cup {i}
  /\ UNCHANGED <<closed, channel, hands, wire, performed, replies>>

WriteRequest(i) ==
  /\ invocation[i] = "added" /\ ~closed
  /\ invocation' = [invocation EXCEPT ![i] = "waiting"]
  /\ wire' = [wire EXCEPT ![i] = {"request"}]
  /\ UNCHANGED <<closed, pending, channel, hands, performed, replies>>

(* The write fails: Invoke closes the connection itself.  Its own channel  *)
(* is among those the close sends to.                                      *)
WriteFails(i) ==
  /\ invocation[i] = "added"
  /\ invocation' = [invocation EXCEPT ![i] = "failed"]
  /\ closed' = TRUE
  /\ hands' = CloseHands
  /\ pending' = {}
  /\ UNCHANGED <<channel, wire, performed, replies>>

Receive(i) ==
  /\ invocation[i] = "waiting" /\ channel[i] # "empty"
  /\ Ends(i, IF channel[i] = "result" THEN "answered" ELSE "failed")
  /\ channel' = [channel EXCEPT ![i] = "empty"]
  /\ UNCHANGED <<closed, hands, wire, performed, replies>>

(* The context ends; the cancellation is not sent on a closed connection.  *)
GiveUp(i) ==
  /\ invocation[i] = "waiting"
  /\ Ends(i, "failed")
  /\ wire' = IF closed THEN wire ELSE [wire EXCEPT ![i] = @ \cup {"cancel"}]
  /\ UNCHANGED <<closed, channel, hands, performed, replies>>

(* The node.                                                               *)
NodeReceives(i) ==
  /\ "request" \in wire[i]
  /\ wire' = [wire EXCEPT ![i] = @ \ {"request"}]
  /\ \/ performed' = performed \cup {i}
     \/ "cancel" \in wire[i] /\ UNCHANGED performed
  /\ UNCHANGED <<invocation, closed, pending, channel, hands, replies>>

NodeAnswers(i) ==
  /\ i \in performed /\ ~closed
  /\ replies' = replies \cup {i}
  /\ UNCHANGED <<invocation, closed, pending, channel, hands, wire, performed>>

\* Mutant: an answered call stays in the map until Invoke removes it.
TakenLater(i) == pending

(* The read loop.  An answer it has read may meet a connection that has    *)
(* been closed meanwhile.                                                  *)
Taken(i) == pending \ {i}
Resolve(i) ==
  /\ i \in replies
  /\ replies' = replies \ {i}
  /\ hands' = IF i \in pending THEN hands \cup {<<i, "result">>} ELSE hands
  /\ pending' = Taken(i)
  /\ UNCHANGED <<invocation, closed, channel, wire, performed>>

Close ==
  /\ ~closed
  /\ closed' = TRUE
  /\ hands' = CloseHands
  /\ pending' = {}
  /\ replies' \in SUBSET replies          \* at most what has been read
  /\ UNCHANGED <<invocation, channel, wire, performed>>

(* A send blocks while the channel is full.                                *)
Deliver(x) ==
  /\ x \in hands /\ channel[x[1]] = "empty"
  /\ channel' = [channel EXCEPT ![x[1]] = x[2]]
  /\ hands' = hands \ {x}
  /\ UNCHANGED <<invocation, closed, pending, wire, performed, replies>>

BridgeNext ==
  \/ \E i \in Invocation : \/ AddPending(i) \/ WriteRequest(i) \/ WriteFails(i)
                           \/ Receive(i) \/ GiveUp(i)
                           \/ NodeReceives(i) \/ NodeAnswers(i) \/ Resolve(i)
  \/ Close
  \/ \E x \in Invocation \X {"result", "gone"} : Deliver(x)

(* Goroutines that can run do.  Nothing obliges the node to answer, the    *)
(* context to end, or the connection to break.                             *)
BridgeFairness ==
  /\ \A i \in Invocation : WF_bridgeVars(WriteRequest(i) \/ WriteFails(i)) /\ WF_bridgeVars(Receive(i))
  /\ \A x \in Invocation \X {"result", "gone"} : WF_bridgeVars(Deliver(x))

BridgeSpec == BridgeInit /\ [][BridgeNext]_bridgeVars /\ BridgeFairness

-----------------------------------------------------------------------------
BridgeTypeOK ==
  /\ invocation \in [Invocation -> {"none", "added", "waiting", "answered", "failed"}]
  /\ closed \in BOOLEAN
  /\ pending \subseteq Invocation
  /\ channel \in [Invocation -> {"empty", "result", "gone"}]
  /\ hands \subseteq Invocation \X {"result", "gone"}
  /\ wire \in [Invocation -> SUBSET {"request", "cancel"}]
  /\ performed \subseteq Invocation /\ replies \subseteq Invocation

(* A send never waits: resolve and close run in the read loop and under    *)
(* the snapshot lock of the node, where a full channel that nobody reads   *)
(* any more would stop the node for good.  One value at most is on its way *)
(* to a call or in its channel, and then its entry has left the map.       *)
NoSendBlocks ==
  /\ \A x \in hands : channel[x[1]] = "empty" /\ x[1] \notin pending
  /\ \A x, y \in hands : x[1] = y[1] => x = y

(* Invoke keeps the promise of NodeCall.                                   *)
Remote == INSTANCE NodeCall WITH
  Call <- Invocation,
  outcome <- [i \in Invocation |->
                IF invocation[i] \in {"added", "waiting"} THEN "underway" ELSE invocation[i]],
  executed <- performed,
  broken <- IF closed THEN Invocation ELSE {}
CallsAreAnswered == Remote!CallSpec
=============================================================================
