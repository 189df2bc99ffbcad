------------------------------ MODULE NodeRegistry ------------------------------
(***************************************************************************)
(* The rows of AgentDock nodes and the connections the hub publishes for   *)
(* them: pairing codes, pairing and the device token, PATCH and deletion   *)
(* of a node, the handshake of a connection, the later snapshots it sends, *)
(* and the clean-up when it ends.                                          *)
(*                                                                         *)
(* HTTP handlers hold no lock.  A handshake, a snapshot, a clean-up and a  *)
(* Disconnect take the snapshot lock of the node; the first two read and   *)
(* write the row while they hold it, so they take several steps.           *)
(*                                                                         *)
(* Of a row the model keeps the device, enabled, whether the version it    *)
(* last announced is the required one, and whether a device token exists.  *)
(* Full Access is modelled in DeploymentSync, the tools in ToolCatalog.    *)
(***************************************************************************)
EXTENDS Naturals, FiniteSets

CONSTANTS
  NodeId,    \* ids core.NewID may give to rows
  Device,    \* devices that pair
  PairCode,  \* pairing codes the operator may create
  Socket,    \* connections, reused once their goroutine has ended
  Handler,   \* node handlers that may run at once
  Unheld,    \* a free snapshot lock
  NoSocket   \* no connection

NoRow == [device |-> {}, enabled |-> FALSE, current |-> FALSE, token |-> FALSE]
Row == [device : {{d} : d \in Device} \cup {{}}, enabled : BOOLEAN,
        current : BOOLEAN, token : BOOLEAN]

ASSUME RegistryConstants == NodeId # {} /\ Unheld \notin Socket /\ NoSocket \notin Socket

VARIABLES
  pairCodes,     \* agentdock_pairing_codes
  nodes,     \* agentdock_devices, with the token and the stored snapshot
  spent,     \* ids given out so far
  socket,    \* each connection: its node, where it is, and whether the row
             \* that its last Hello returned was enabled
  hub,       \* Hub.nodes: the published connection of each node
  snapLock,  \* Hub.snapshotLocks: the handshake or snapshot that holds it
  listed,    \* nodes whose live snapshot is in the tool catalog
  request,   \* HTTP handlers
  forsaken   \* nodes whose PATCH ended between its write and its Disconnect

registryVars == <<pairCodes, nodes, spent, socket, hub, snapLock, listed, request, forsaken>>

Exists(n) == nodes[n].device # {}
Idle == [kind |-> "none", at |-> "none", node |-> CHOOSE n \in NodeId : TRUE,
         enabled |-> FALSE, want |-> "keep"]
NoDial == [at |-> "idle", node |-> CHOOSE n \in NodeId : TRUE, heard |-> FALSE]

RegistryInit ==
  /\ pairCodes = [k \in PairCode |-> "unborn"]
  /\ nodes = [n \in NodeId |-> NoRow]
  /\ spent = {}
  /\ socket = [c \in Socket |-> NoDial]
  /\ hub = [n \in NodeId |-> NoSocket]
  /\ snapLock = [n \in NodeId |-> Unheld]
  /\ listed = {}
  /\ request = [h \in Handler |-> Idle]
  /\ forsaken = {}

-----------------------------------------------------------------------------
(* Pairing.                                                                *)

CreatePairingCode(k) ==
  /\ pairCodes[k] = "unborn"
  /\ pairCodes' = [pairCodes EXCEPT ![k] = "open"]
  /\ UNCHANGED <<nodes, spent, socket, hub, snapLock, listed, request, forsaken>>

ExpireCode(k) ==
  /\ pairCodes[k] = "open"
  /\ pairCodes' = [pairCodes EXCEPT ![k] = "expired"]
  /\ UNCHANGED <<nodes, spent, socket, hub, snapLock, listed, request, forsaken>>

(* One transaction: the code is used if it is unused and unexpired, and    *)
(* the row is inserted unless the device has one; else nothing remains.    *)
Pair(h, k, d, n) ==
  /\ request[h] = Idle /\ pairCodes[k] = "open" /\ n \notin spent
  /\ \A m \in NodeId : nodes[m].device # {d}
  /\ pairCodes' = [pairCodes EXCEPT ![k] = "used"]
  /\ nodes' = [nodes EXCEPT ![n] = [NoRow EXCEPT !.device = {d}, !.enabled = TRUE]]
  /\ spent' = spent \cup {n}
  /\ request' = [request EXCEPT ![h] = [Idle EXCEPT !.kind = "pair", !.at = "paired", !.node = n]]
  /\ UNCHANGED <<socket, hub, snapLock, listed, forsaken>>

(* The token is issued after the pairing has been committed.  If that      *)
(* fails the row is deleted again, unless that fails too; an ended request *)
(* and a failed deletion leave a row no device can connect to.             *)
IssueToken(h) ==
  /\ request[h].at = "paired"
  /\ LET n == request[h].node
     IN \/ nodes' = [nodes EXCEPT ![n].token = Exists(n)]
        \/ nodes' = [nodes EXCEPT ![n] = NoRow]
        \/ UNCHANGED nodes
  /\ request' = [request EXCEPT ![h] = Idle]
  /\ UNCHANGED <<pairCodes, spent, socket, hub, snapLock, listed, forsaken>>

-----------------------------------------------------------------------------
(* Disconnect of the hub, under the snapshot lock: the published           *)
(* connection is closed, and the catalog forgets the node in any case.     *)

Closed(s, n) == IF hub[n] = NoSocket THEN s ELSE [s EXCEPT ![hub[n]].at = "leaving"]

Disconnect(n) ==
  /\ snapLock[n] = Unheld
  /\ hub' = [hub EXCEPT ![n] = NoSocket]
  /\ listed' = listed \ {n}
  /\ forsaken' = forsaken \ {n}

(* The PATCH handler: Get, write back every column, Get, Disconnect.       *)
PatchRead(h, n, w) ==
  /\ request[h] = Idle /\ Exists(n)
  /\ request' = [request EXCEPT ![h] = [kind |-> "patch", at |-> "read", node |-> n,
                                        enabled |-> nodes[n].enabled, want |-> w]]
  /\ UNCHANGED <<pairCodes, nodes, spent, socket, hub, snapLock, listed, forsaken>>

PatchWrite(h) ==
  LET n == request[h].node
      value == IF request[h].want = "keep" THEN request[h].enabled ELSE request[h].want = "on"
  IN /\ request[h].at = "read"
     /\ IF Exists(n)
        THEN /\ nodes' = [nodes EXCEPT ![n].enabled = value]
             /\ request' = [request EXCEPT ![h].at = "written"]
        ELSE request' = [request EXCEPT ![h] = Idle] /\ UNCHANGED nodes
     /\ UNCHANGED <<pairCodes, spent, socket, hub, snapLock, listed, forsaken>>

\* Mutant: a disabled node is disconnected only if it is connected now.
MustCutOnline(n) == Exists(n) /\ ~nodes[n].enabled /\ hub[n] # NoSocket

(* Whether to disconnect is decided from the row as it is read back.       *)
MustCut(n) == Exists(n) /\ ~nodes[n].enabled
PatchReread(h) ==
  /\ request[h].at = "written"
  /\ request' = [request EXCEPT ![h] = IF MustCut(@.node) THEN [@ EXCEPT !.at = "cut"] ELSE Idle]
  /\ UNCHANGED <<pairCodes, nodes, spent, socket, hub, snapLock, listed, forsaken>>

PatchCut(h) ==
  /\ request[h].kind = "patch" /\ request[h].at = "cut"
  /\ Disconnect(request[h].node)
  /\ socket' = Closed(socket, request[h].node)
  /\ request' = [request EXCEPT ![h] = Idle]
  /\ UNCHANGED <<pairCodes, nodes, spent, snapLock>>

(* The request context ends: the read after the write fails, and the       *)
(* handler returns without looking at enabled.                             *)
PatchAbandon(h) ==
  /\ request[h].at \in {"read", "written"}
  /\ forsaken' = IF request[h].at = "written" THEN forsaken \cup {request[h].node} ELSE forsaken
  /\ request' = [request EXCEPT ![h] = Idle]
  /\ UNCHANGED <<pairCodes, nodes, spent, socket, hub, snapLock, listed>>

(* Deletion: Disconnect first, the row and all that refers to it second.   *)
DeleteNode(h, n) ==
  /\ request[h] = Idle /\ Exists(n)
  /\ request' = [request EXCEPT ![h] = [Idle EXCEPT !.kind = "delete", !.at = "cut", !.node = n]]
  /\ UNCHANGED <<pairCodes, nodes, spent, socket, hub, snapLock, listed, forsaken>>

DeleteCut(h) ==
  /\ request[h].kind = "delete" /\ request[h].at = "cut"
  /\ Disconnect(request[h].node)
  /\ socket' = Closed(socket, request[h].node)
  /\ request' = [request EXCEPT ![h].at = "drop"]
  /\ UNCHANGED <<pairCodes, nodes, spent, snapLock>>

DeleteRow(h) ==
  /\ request[h].at = "drop"
  /\ \/ nodes' = [nodes EXCEPT ![request[h].node] = NoRow]
     \/ UNCHANGED nodes               \* the transaction is rolled back
  /\ request' = [request EXCEPT ![h] = Idle]
  /\ UNCHANGED <<pairCodes, spent, socket, hub, snapLock, listed, forsaken>>

-----------------------------------------------------------------------------
(* Connections.                                                            *)

(* The device token names the node; the row is read before the upgrade.    *)
Dial(c, n) ==
  /\ socket[c].at = "idle" /\ nodes[n].token /\ nodes[n].enabled
  /\ socket' = [socket EXCEPT ![c] = [at |-> "dialled", node |-> n, heard |-> FALSE]]
  /\ UNCHANGED <<pairCodes, nodes, spent, hub, snapLock, listed, request, forsaken>>

(* No Hello in time, or not one.                                           *)
DialFails(c) ==
  /\ socket[c].at = "dialled"
  /\ socket' = [socket EXCEPT ![c] = NoDial]
  /\ UNCHANGED <<pairCodes, nodes, spent, hub, snapLock, listed, request, forsaken>>

(* A Hello of another release: it is recorded, and if that succeeds the    *)
(* published connection of the node is disconnected too.                   *)
HelloRejected(c) ==
  LET n == socket[c].node
  IN /\ socket[c].at = "dialled" /\ snapLock[n] = Unheld
     /\ IF Exists(n)
        THEN /\ nodes' = [nodes EXCEPT ![n].current = FALSE]
             /\ Disconnect(n)
             /\ socket' = [Closed(socket, n) EXCEPT ![c] = NoDial]
        ELSE socket' = [socket EXCEPT ![c] = NoDial] /\ UNCHANGED <<nodes, hub, listed, forsaken>>
     /\ UNCHANGED <<pairCodes, spent, snapLock, request>>

(* UpdateHello: the row is read and checked, then written.                 *)
Acceptable(n) == Exists(n) /\ nodes[n].enabled
HelloCheck(c) ==
  LET n == socket[c].node
  IN /\ socket[c].at = "dialled" /\ snapLock[n] = Unheld
     /\ IF Acceptable(n)
        THEN /\ socket' = [socket EXCEPT ![c].at = "checked"]
             /\ snapLock' = [snapLock EXCEPT ![n] = c]
        ELSE socket' = [socket EXCEPT ![c] = NoDial] /\ UNCHANGED snapLock
     /\ UNCHANGED <<pairCodes, nodes, spent, hub, listed, request, forsaken>>

(* The snapshot refers to the row, so without it the transaction fails.    *)
HelloStore(c) ==
  LET n == socket[c].node
  IN /\ socket[c].at = "checked"
     /\ IF Exists(n)
        THEN /\ nodes' = [nodes EXCEPT ![n].current = TRUE]
             /\ socket' = [socket EXCEPT ![c].at = "stored", ![c].heard = nodes[n].enabled]
             /\ UNCHANGED snapLock
        ELSE /\ socket' = [socket EXCEPT ![c] = NoDial]
             /\ snapLock' = [snapLock EXCEPT ![n] = Unheld]
             /\ UNCHANGED nodes
     /\ UNCHANGED <<pairCodes, spent, hub, listed, request, forsaken>>

(* node.ready has been written; only then is the connection published and  *)
(* its predecessor closed.  onHello lists the tools of an enabled node.    *)
Listing(n, heard) == IF heard THEN listed \cup {n} ELSE listed \ {n}
HelloReady(c) ==
  LET n == socket[c].node
  IN /\ socket[c].at = "stored"
     /\ hub' = [hub EXCEPT ![n] = c]
     /\ socket' = [Closed(socket, n) EXCEPT ![c].at = "open"]
     /\ listed' = Listing(n, socket[c].heard)
     /\ snapLock' = [snapLock EXCEPT ![n] = Unheld]
     /\ UNCHANGED <<pairCodes, nodes, spent, request, forsaken>>

HelloUnready(c) ==
  /\ socket[c].at = "stored"
  /\ socket' = [socket EXCEPT ![c] = NoDial]
  /\ snapLock' = [snapLock EXCEPT ![socket[c].node] = Unheld]
  /\ UNCHANGED <<pairCodes, nodes, spent, hub, listed, request, forsaken>>

SocketLost(c) ==
  /\ socket[c].at = "open"
  /\ socket' = [socket EXCEPT ![c].at = "leaving"]
  /\ UNCHANGED <<pairCodes, nodes, spent, hub, snapLock, listed, request, forsaken>>

\* Mutant: the clean-up does not compare the connection.
AnyPublished(c) == hub[socket[c].node] # NoSocket

(* The deferred clean-up of the read loop.                                 *)
StillPublished(c) == hub[socket[c].node] = c
LoopEnds(c) ==
  LET n == socket[c].node
  IN /\ socket[c].at = "leaving" /\ snapLock[n] = Unheld
     /\ IF StillPublished(c)
        THEN hub' = [hub EXCEPT ![n] = NoSocket] /\ listed' = listed \ {n}
        ELSE UNCHANGED <<hub, listed>>
     /\ socket' = [socket EXCEPT ![c] = NoDial]
     /\ UNCHANGED <<pairCodes, nodes, spent, snapLock, request, forsaken>>

(* node.updated: of another release, or a new snapshot of this one.        *)
UpdateRejected(c) ==
  LET n == socket[c].node
  IN /\ socket[c].at = "open" /\ snapLock[n] = Unheld
     /\ nodes' = [nodes EXCEPT ![n].current = FALSE]
     /\ socket' = [socket EXCEPT ![c].at = "leaving"]
     /\ UNCHANGED <<pairCodes, spent, hub, snapLock, listed, request, forsaken>>

UpdateCheck(c) ==
  LET n == socket[c].node
  IN /\ socket[c].at = "open" /\ snapLock[n] = Unheld
     /\ IF Acceptable(n)
        THEN /\ socket' = [socket EXCEPT ![c].at = "refreshing"]
             /\ snapLock' = [snapLock EXCEPT ![n] = c]
        ELSE socket' = [socket EXCEPT ![c].at = "leaving"] /\ UNCHANGED snapLock
     /\ UNCHANGED <<pairCodes, nodes, spent, hub, listed, request, forsaken>>

UpdateStore(c) ==
  LET n == socket[c].node
  IN /\ socket[c].at = "refreshing"
     /\ IF Exists(n)
        THEN /\ nodes' = [nodes EXCEPT ![n].current = TRUE]
             /\ socket' = [socket EXCEPT ![c].at = "open", ![c].heard = nodes[n].enabled]
             /\ listed' = Listing(n, nodes[n].enabled)
        ELSE socket' = [socket EXCEPT ![c].at = "leaving"] /\ UNCHANGED <<nodes, listed>>
     /\ snapLock' = [snapLock EXCEPT ![n] = Unheld]
     /\ UNCHANGED <<pairCodes, spent, hub, request, forsaken>>

(* The process stops and starts again: the database is all that is left.   *)
Restart ==
  /\ socket' = [c \in Socket |-> NoDial]
  /\ hub' = [n \in NodeId |-> NoSocket]
  /\ snapLock' = [n \in NodeId |-> Unheld]
  /\ listed' = {}
  /\ request' = [h \in Handler |-> Idle]
  /\ forsaken' = {}
  /\ UNCHANGED <<pairCodes, nodes, spent>>

RegistryNext ==
  \/ \E k \in PairCode : CreatePairingCode(k) \/ ExpireCode(k)
  \/ \E h \in Handler, k \in PairCode, d \in Device, n \in NodeId : Pair(h, k, d, n)
  \/ \E h \in Handler : \/ IssueToken(h)
                        \/ PatchWrite(h) \/ PatchReread(h) \/ PatchCut(h) \/ PatchAbandon(h)
                        \/ DeleteCut(h) \/ DeleteRow(h)
  \/ \E h \in Handler, n \in NodeId, w \in {"keep", "on", "off"} : PatchRead(h, n, w)
  \/ \E h \in Handler, n \in NodeId : DeleteNode(h, n)
  \/ \E c \in Socket, n \in NodeId : Dial(c, n)
  \/ \E c \in Socket : \/ DialFails(c) \/ HelloRejected(c) \/ HelloCheck(c) \/ HelloStore(c)
                       \/ HelloReady(c) \/ HelloUnready(c)
                       \/ SocketLost(c) \/ LoopEnds(c)
                       \/ UpdateRejected(c) \/ UpdateCheck(c) \/ UpdateStore(c)
  \/ Restart

RegistrySpec == RegistryInit /\ [][RegistryNext]_registryVars

-----------------------------------------------------------------------------
RegistryTypeOK ==
  /\ pairCodes \in [PairCode -> {"unborn", "open", "used", "expired"}]
  /\ nodes \in [NodeId -> Row]
  /\ spent \subseteq NodeId
  /\ socket \in [Socket -> [at : {"idle", "dialled", "checked", "stored", "open",
                                  "refreshing", "leaving"},
                            node : NodeId, heard : BOOLEAN]]
  /\ hub \in [NodeId -> Socket \cup {NoSocket}]
  /\ snapLock \in [NodeId -> Socket \cup {Unheld}]
  /\ listed \subseteq NodeId
  /\ request \in [Handler -> [kind : {"none", "pair", "patch", "delete"},
                              at : {"none", "paired", "read", "written", "cut", "drop"},
                              node : NodeId, enabled : BOOLEAN, want : {"keep", "on", "off"}]]
  /\ forsaken \subseteq NodeId

(* A disabled node is connected only while the PATCH that disabled it is   *)
(* on its way to the Disconnect, whatever other PATCHes, handshakes and    *)
(* snapshots of the node are under way (Update writes back the enabled     *)
(* column it read, the handler decides from a row it reads back, Accept    *)
(* checked enabled before it published).                                   *)
PatchOf(n) == \E h \in Handler : /\ request[h].kind = "patch" /\ request[h].node = n
                                 /\ request[h].at \in {"written", "cut"}
DisabledIsCut ==
  \A n \in NodeId : Exists(n) /\ ~nodes[n].enabled /\ hub[n] # NoSocket
                      => PatchOf(n) \/ n \in forsaken

(* While nobody holds the snapshot lock, the catalog lists a node exactly  *)
(* when it has a published connection whose last Hello found the row       *)
(* enabled, and an open one belongs to a row of the required release: a    *)
(* replaced connection that is cleaned up late takes nothing from its      *)
(* successor, and nothing stays listed when the last one is gone.          *)
CatalogMatches ==
  \A n \in NodeId : snapLock[n] = Unheld =>
     /\ n \in listed <=> (hub[n] # NoSocket /\ socket[hub[n]].heard)
     /\ hub[n] # NoSocket => /\ socket[hub[n]].node = n
                             /\ socket[hub[n]].at \in {"open", "leaving"}
     /\ hub[n] # NoSocket /\ Exists(n) /\ socket[hub[n]].at = "open" => nodes[n].current
=============================================================================
