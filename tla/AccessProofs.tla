-------------------------------- MODULE AccessProofs --------------------------------
(***************************************************************************)
(* Theorems about what gives access: the registry of nodes, the grants of  *)
(* OAuth clients, the web sessions and the MCP token.                      *)
(*                                                                         *)
(* NodeRegistry, for every number of nodes, devices, connections and       *)
(* handlers: types, that a node which is disabled in the end is cut off,   *)
(* and that the tool catalog follows the connections.  A node may be       *)
(* disabled between the check of a handshake and its publication.  What    *)
(* saves it is that the handshake holds the snapshot lock, so that the     *)
(* Disconnect of the PATCH comes after the publication: the invariant      *)
(* speaks of every disabled node that has a connection or whose lock is    *)
(* held (CutIsDue).                                                        *)
(*                                                                         *)
(* OAuthGrants, for every number of clients and grants, all lifetimes and  *)
(* every number of rotations: a grant which was misused is over, and       *)
(* pruning spares what can be used.  The invariant ties the three tables   *)
(* together: a grant has a code that was used, of the same client          *)
(* (Granted); the history holds every generation that could be presented   *)
(* again (History); and a client was used no earlier than what is valid of *)
(* its grants was given (InUse).                                           *)
(*                                                                         *)
(* WebSessions: a request that found a session live may refresh it after   *)
(* the session has ended, so what a request knows is compared with the row *)
(* (KnowsRow): rows only go on, and a row that somebody was told has ended *)
(* is revoked.                                                             *)
(*                                                                         *)
(* AccessToken: where the file and the copy can differ, some reset is      *)
(* between its steps or ended there (TokenWhere).                          *)
(***************************************************************************)
EXTENDS NodeRegistry, OAuthGrants, WebSessions, AccessToken, FiniteSetTheorems, TLAPS

(* ---- The registry of nodes --------------------------------------------------- *)
SocketState == [at : {"idle", "dialled", "checked", "stored", "open", "refreshing", "leaving"},
                node : NodeId, heard : BOOLEAN]
RequestState == [kind : {"none", "pair", "patch", "delete"},
                 at : {"none", "paired", "read", "written", "cut", "drop"},
                 node : NodeId, enabled : BOOLEAN, want : {"keep", "on", "off"}]

(* A handshake past its check, and a snapshot past its, hold the lock.     *)
HoldsLock(r) == r.at \in {"checked", "stored", "refreshing"}
SocketsFine(s, l) ==
  /\ s \in [Socket -> SocketState] /\ l \in [NodeId -> Socket \cup {Unheld}]
  /\ \A c \in Socket : HoldsLock(s[c]) => l[s[c].node] = c

(* A PATCH that has read its row is one; from its write to its Disconnect  *)
(* it is on its way.                                                       *)
PatchIsSo(r) == r.at \in {"read", "written"} => r.kind = "patch"
OnItsWay(r, n) == r.kind = "patch" /\ r.node = n /\ r.at \in {"written", "cut"}
RequestsFine(q) == q \in [Handler -> RequestState] /\ \A h \in Handler : PatchIsSo(q[h])

TablesFine ==
  /\ pairCodes \in [PairCode -> {"unborn", "open", "used", "expired"}]
  /\ nodes \in [NodeId -> Row] /\ spent \subseteq NodeId
  /\ hub \in [NodeId -> Socket \cup {NoSocket}]
  /\ listed \subseteq NodeId /\ forsaken \subseteq NodeId

Disabled(n) == Exists(n) /\ ~nodes[n].enabled
Engaged(n) == hub[n] # NoSocket \/ snapLock[n] # Unheld
CutIsDue == \A n \in NodeId : Disabled(n) /\ Engaged(n) => PatchOf(n) \/ n \in forsaken

RegistryInv == /\ TablesFine /\ SocketsFine(socket, snapLock) /\ RequestsFine(request)
               /\ CutIsDue

(* What is at rest.                                                        *)
LEMMA RegistryAtRest ==
  /\ NoDial \in SocketState /\ NoDial.at = "idle"
  /\ Idle \in RequestState /\ Idle.kind = "none" /\ Idle.at = "none"
  /\ NoRow \in Row /\ NoRow.device = {} /\ NoRow.enabled = FALSE
PROOF
<1> DEFINE first == CHOOSE n \in NodeId : TRUE
<1>1. first \in NodeId
  BY RegistryConstants
<1>2. NoDial = [at |-> "idle", node |-> first, heard |-> FALSE]
  BY DEF NoDial
<1>3. Idle = [kind |-> "none", at |-> "none", node |-> first, enabled |-> FALSE, want |-> "keep"]
  BY DEF Idle
<1> HIDE DEF first
<1> QED
  BY <1>1, <1>2, <1>3 DEF SocketState, RequestState, NoRow, Row

(* One connection changes, and nobody takes or frees a lock.               *)
LEMMA SocketChanges ==
  ASSUME NEW s, NEW l, SocketsFine(s, l), NEW c \in Socket, NEW r \in SocketState,
         HoldsLock(r) => l[r.node] = c
  PROVE  SocketsFine([s EXCEPT ![c] = r], l)
PROOF BY DEF SocketsFine

(* One connection changes, and takes or frees the lock of a node.          *)
LEMMA SocketLocks ==
  ASSUME NEW s, NEW l, SocketsFine(s, l), NEW c \in Socket, NEW r \in SocketState,
         NEW n \in NodeId, NEW v \in Socket \cup {Unheld}, l[n] \in {Unheld, c},
         HoldsLock(r) => r.node = n /\ v = c
  PROVE  SocketsFine([s EXCEPT ![c] = r], [l EXCEPT ![n] = v])
PROOF
<1> DEFINE t == [s EXCEPT ![c] = r]
           m == [l EXCEPT ![n] = v]
<1>1. t \in [Socket -> SocketState] /\ m \in [NodeId -> Socket \cup {Unheld}]
  BY DEF SocketsFine
<1>2. ASSUME NEW d \in Socket, HoldsLock(t[d]) PROVE m[t[d].node] = d
  <2>1. CASE d = c
    BY <1>2, <2>1 DEF SocketsFine
  <2>2. CASE d # c
    <3>1. l[s[d].node] = d /\ t[d] = s[d] /\ s[d].node \in NodeId
      BY <1>2, <2>2 DEF SocketsFine, SocketState
    <3>2. s[d].node # n
      BY <2>2, <3>1, RegistryConstants
    <3> QED
      BY <3>1, <3>2 DEF SocketsFine
  <2> QED
    BY <2>1, <2>2
<1> QED
  BY <1>1, <1>2 DEF SocketsFine

(* The published connection of a node is closed.                           *)
LEMMA ClosedIsFine ==
  ASSUME NEW l, SocketsFine(socket, l), NEW n \in NodeId, hub[n] \in Socket \cup {NoSocket}
  PROVE  SocketsFine(Closed(socket, n), l)
PROOF
<1>1. CASE hub[n] = NoSocket
  BY <1>1 DEF Closed
<1>2. CASE hub[n] # NoSocket
  <2> DEFINE c == hub[n]
             r == [socket[c] EXCEPT !.at = "leaving"]
  <2>1. c \in Socket /\ r \in SocketState /\ r.at = "leaving"
    BY <1>2 DEF SocketsFine, SocketState
  <2>2. Closed(socket, n) = [socket EXCEPT ![c] = r]
    BY <1>2, <2>1 DEF Closed, SocketsFine
  <2>3. ~HoldsLock(r)
    BY <2>1 DEF HoldsLock
  <2> HIDE DEF c, r
  <2>4. SocketsFine([socket EXCEPT ![c] = r], l)
    BY <2>1, <2>3, SocketChanges
  <2> QED
    BY <2>2, <2>4
<1> QED
  BY <1>1, <1>2

(* A handler goes on.  Only a PATCH of its own that is over may be missing *)
(* afterwards.                                                             *)
LEMMA HandlerGoesOn ==
  ASSUME RequestsFine(request), NEW h \in Handler, NEW r \in RequestState, PatchIsSo(r),
         request' = [request EXCEPT ![h] = r]
  PROVE  /\ RequestsFine(request')
         /\ \A n \in NodeId : PatchOf(n) /\ ~OnItsWay(request[h], n) => PatchOf(n)'
         /\ \A n \in NodeId : OnItsWay(r, n) => PatchOf(n)'
PROOF
<1>1. \A g \in Handler : request'[g] = IF g = h THEN r ELSE request[g]
  BY DEF RequestsFine
<1> QED
  BY <1>1 DEF RequestsFine, PatchOf, OnItsWay

(* A control plane without nodes.                                          *)
LEMMA RegistryInitInv == RegistryInit => RegistryInv
PROOF
<1> SUFFICES ASSUME RegistryInit PROVE RegistryInv
  OBVIOUS
<1>1. TablesFine /\ CutIsDue
  BY RegistryAtRest DEF RegistryInit, TablesFine, CutIsDue, Disabled, Exists
<1>2. SocketsFine(socket, snapLock) /\ RequestsFine(request)
  BY RegistryAtRest DEF RegistryInit, SocketsFine, RequestsFine, HoldsLock, PatchIsSo
<1> QED
  BY <1>1, <1>2 DEF RegistryInv

(* The invariant after a step of a handler that leaves connections and     *)
(* locks alone.                                                            *)
LEMMA HandlerKeeps ==
  ASSUME RegistryInv, NEW h \in Handler, NEW r \in RequestState, PatchIsSo(r),
         request' = [request EXCEPT ![h] = r], TablesFine', UNCHANGED <<socket, hub, snapLock>>,
         forsaken \subseteq forsaken',
         \A n \in NodeId : (Disabled(n)' /\ Engaged(n)) =>
           OnItsWay(r, n) \/ n \in forsaken' \/ (Disabled(n) /\ ~OnItsWay(request[h], n))
  PROVE  RegistryInv'
PROOF
<1>1. /\ RequestsFine(request')
      /\ \A n \in NodeId : PatchOf(n) /\ ~OnItsWay(request[h], n) => PatchOf(n)'
      /\ \A n \in NodeId : OnItsWay(r, n) => PatchOf(n)'
  BY HandlerGoesOn DEF RegistryInv
<1>2. \A n \in NodeId : Engaged(n)' => Engaged(n)
  BY DEF Engaged
<1>3. ASSUME NEW n \in NodeId, Disabled(n)', Engaged(n)' PROVE PatchOf(n)' \/ n \in forsaken'
  <2>1. CASE OnItsWay(r, n) \/ n \in forsaken'
    BY <1>1, <2>1
  <2>2. CASE Disabled(n) /\ ~OnItsWay(request[h], n)
    BY <1>1, <1>2, <1>3, <2>2 DEF RegistryInv, CutIsDue
  <2> QED
    BY <1>2, <1>3, <2>1, <2>2
<1>4. CutIsDue'
  BY <1>3 DEF CutIsDue
<1> QED
  BY <1>1, <1>4 DEF RegistryInv

(* The invariant after a step of a connection, which takes a lock only of  *)
(* an enabled node and is published only with the lock.                    *)
LEMMA SocketKeeps ==
  ASSUME RegistryInv, TablesFine', SocketsFine(socket', snapLock'), UNCHANGED request,
         \A n \in NodeId : Disabled(n)' /\ Engaged(n)' =>
           (Disabled(n) /\ Engaged(n) /\ (n \in forsaken => n \in forsaken'))
  PROVE  RegistryInv'
PROOF
<1>1. \A n \in NodeId : PatchOf(n) => PatchOf(n)'
  BY DEF PatchOf
<1>2. CutIsDue'
  BY <1>1 DEF RegistryInv, CutIsDue
<1> QED
  BY <1>2 DEF RegistryInv

(* What holds of the handler that takes a step.                            *)
LEMMA HandlerFacts ==
  ASSUME RegistryInv, NEW h \in Handler
  PROVE  request[h] \in RequestState /\ PatchIsSo(request[h]) /\ request[h].node \in NodeId
PROOF BY DEF RegistryInv, RequestsFine, RequestState

(* What holds of the connection that takes a step.                         *)
LEMMA SocketFacts ==
  ASSUME RegistryInv, NEW c \in Socket
  PROVE  /\ socket[c] \in SocketState /\ socket[c].node \in NodeId
         /\ HoldsLock(socket[c]) => snapLock[socket[c].node] = c
PROOF BY DEF RegistryInv, SocketsFine, SocketState

(* The handlers of the nodes.                                              *)
LEMMA PairStep ==
  ASSUME RegistryInv, NEW h \in Handler, NEW k \in PairCode, NEW d \in Device, NEW n \in NodeId,
         Pair(h, k, d, n)
  PROVE  RegistryInv'
PROOF
<1> DEFINE r == [Idle EXCEPT !.kind = "pair", !.at = "paired", !.node = n]
           row == [NoRow EXCEPT !.device = {d}, !.enabled = TRUE]
<1>1. r \in RequestState /\ PatchIsSo(r) /\ row \in Row /\ row.enabled
  BY RegistryAtRest DEF RequestState, PatchIsSo, Row
<1>2. /\ request' = [request EXCEPT ![h] = r] /\ nodes' = [nodes EXCEPT ![n] = row]
      /\ UNCHANGED <<socket, hub, snapLock, listed, forsaken>>
      /\ pairCodes' = [pairCodes EXCEPT ![k] = "used"] /\ spent' = spent \cup {n}
  BY DEF Pair
<1>3. request[h] = Idle
  BY DEF Pair
<1> HIDE DEF r, row
<1>4. TablesFine'
  BY <1>1, <1>2 DEF RegistryInv, TablesFine
<1>5. \A x \in NodeId : Disabled(x)' => Disabled(x) /\ ~OnItsWay(request[h], x)
  BY <1>1, <1>2, <1>3, RegistryAtRest DEF Disabled, Exists, RegistryInv, TablesFine, OnItsWay
<1>6. forsaken \subseteq forsaken' /\ UNCHANGED <<socket, hub, snapLock>>
  BY <1>2
<1> QED
  BY <1>1, <1>2, <1>4, <1>5, <1>6, HandlerKeeps

(* A token is issued, or the row is removed again.                         *)
LEMMA IssueTokenStep ==
  ASSUME RegistryInv, NEW h \in Handler, IssueToken(h)
  PROVE  RegistryInv'
PROOF
<1> DEFINE n == request[h].node
<1>1. n \in NodeId /\ Idle \in RequestState /\ PatchIsSo(Idle)
  BY HandlerFacts, RegistryAtRest DEF PatchIsSo
<1>2. PICK row \in Row : /\ nodes' = [nodes EXCEPT ![n] = row]
                         /\ row.device # {} => nodes[n].device # {} /\ row.enabled = nodes[n].enabled
  <2>1. nodes \in [NodeId -> Row] /\ nodes[n] \in Row
    BY <1>1 DEF RegistryInv, TablesFine
  <2> DEFINE given == [nodes[n] EXCEPT !.token = Exists(n)]
  <2>2. given \in Row /\ given.device = nodes[n].device /\ given.enabled = nodes[n].enabled
    BY <2>1 DEF Row, Exists
  <2>3. CASE nodes' = [nodes EXCEPT ![n].token = Exists(n)]
    BY <2>1, <2>2, <2>3
  <2>4. CASE nodes' = [nodes EXCEPT ![n] = NoRow]
    BY <2>4, RegistryAtRest
  <2>5. CASE UNCHANGED nodes
    BY <2>1, <2>5
  <2> QED
    BY <2>3, <2>4, <2>5 DEF IssueToken
<1>3. /\ request' = [request EXCEPT ![h] = Idle] /\ request[h].at = "paired"
      /\ UNCHANGED <<socket, hub, snapLock, listed, forsaken, pairCodes, spent>>
  BY DEF IssueToken
<1> HIDE DEF n
<1>4. TablesFine'
  BY <1>1, <1>2, <1>3 DEF RegistryInv, TablesFine
<1>5. \A x \in NodeId : Disabled(x)' => Disabled(x) /\ ~OnItsWay(request[h], x)
  BY <1>1, <1>2, <1>3 DEF Disabled, Exists, RegistryInv, TablesFine, OnItsWay
<1>6. forsaken \subseteq forsaken' /\ UNCHANGED <<socket, hub, snapLock>>
  BY <1>3
<1> QED
  BY <1>1, <1>3, <1>4, <1>5, <1>6, HandlerKeeps

(* A PATCH reads the row.                                                  *)
LEMMA PatchReadStep ==
  ASSUME RegistryInv, NEW h \in Handler, NEW n \in NodeId, NEW w \in {"keep", "on", "off"},
         PatchRead(h, n, w)
  PROVE  RegistryInv'
PROOF
<1> DEFINE r == [kind |-> "patch", at |-> "read", node |-> n, enabled |-> nodes[n].enabled,
                 want |-> w]
<1>1. r \in RequestState /\ PatchIsSo(r)
  BY DEF RegistryInv, TablesFine, Row, RequestState, PatchIsSo
<1>2. /\ request' = [request EXCEPT ![h] = r] /\ request[h] = Idle
      /\ UNCHANGED <<nodes, socket, hub, snapLock, listed, forsaken, pairCodes, spent>>
  BY DEF PatchRead
<1> HIDE DEF r
<1>3. TablesFine'
  BY <1>2 DEF RegistryInv, TablesFine
<1>4. \A x \in NodeId : Disabled(x)' => Disabled(x) /\ ~OnItsWay(request[h], x)
  BY <1>2, RegistryAtRest DEF Disabled, Exists, OnItsWay
<1>5. forsaken \subseteq forsaken' /\ UNCHANGED <<socket, hub, snapLock>>
  BY <1>2
<1> QED
  BY <1>1, <1>2, <1>3, <1>4, <1>5, HandlerKeeps

(* It writes the row back: from here it is on its way to the Disconnect.   *)
LEMMA PatchWriteStep ==
  ASSUME RegistryInv, NEW h \in Handler, PatchWrite(h)
  PROVE  RegistryInv'
PROOF
<1> DEFINE n == request[h].node
           value == IF request[h].want = "keep" THEN request[h].enabled ELSE request[h].want = "on"
<1>1. /\ n \in NodeId /\ request[h] \in RequestState /\ PatchIsSo(request[h])
      /\ request[h].at = "read" /\ request[h].kind = "patch"
  BY HandlerFacts DEF PatchWrite, PatchIsSo
<1>2. value \in BOOLEAN
  BY <1>1 DEF RequestState
<1>3. UNCHANGED <<socket, hub, snapLock, listed, forsaken, pairCodes, spent>>
  BY DEF PatchWrite
<1>4. forsaken \subseteq forsaken' /\ UNCHANGED <<socket, hub, snapLock>>
  BY <1>3
<1>5. CASE Exists(n)
  <2> DEFINE r == [request[h] EXCEPT !.at = "written"]
             row == [nodes[n] EXCEPT !.enabled = value]
  <2>1. /\ r \in RequestState /\ PatchIsSo(r) /\ OnItsWay(r, n)
    BY <1>1 DEF RequestState, PatchIsSo, OnItsWay
  <2>2. row \in Row
    BY <1>1, <1>2 DEF RegistryInv, TablesFine, Row
  <2>3. request' = [request EXCEPT ![h] = r]
    BY <1>5 DEF PatchWrite
  <2>4. nodes' = [nodes EXCEPT ![n] = row]
    BY <1>5 DEF PatchWrite
  <2> HIDE DEF r, row, n, value
  <2>5. TablesFine'
    BY <1>3, <2>2, <2>4 DEF RegistryInv, TablesFine
  <2>6. \A x \in NodeId : Disabled(x)' => OnItsWay(r, x) \/ (Disabled(x) /\ ~OnItsWay(request[h], x))
    BY <1>1, <2>1, <2>4 DEF Disabled, Exists, RegistryInv, TablesFine, OnItsWay
  <2> QED
    BY <1>4, <2>1, <2>3, <2>5, <2>6, HandlerKeeps
<1>6. CASE ~Exists(n)
  <2>1. request' = [request EXCEPT ![h] = Idle] /\ UNCHANGED nodes
    BY <1>6 DEF PatchWrite
  <2>2. TablesFine'
    BY <1>3, <2>1 DEF RegistryInv, TablesFine
  <2>3. \A x \in NodeId : Disabled(x)' => Disabled(x) /\ ~OnItsWay(request[h], x)
    BY <1>1, <2>1 DEF Disabled, Exists, OnItsWay
  <2>4. Idle \in RequestState /\ PatchIsSo(Idle)
    BY RegistryAtRest DEF PatchIsSo
  <2> QED
    BY <1>4, <2>1, <2>2, <2>3, <2>4, HandlerKeeps
<1> QED
  BY <1>5, <1>6

(* It goes on to the Disconnect only for a disabled row.                   *)
LEMMA PatchRereadStep ==
  ASSUME RegistryInv, NEW h \in Handler, PatchReread(h)
  PROVE  RegistryInv'
PROOF
<1> DEFINE n == request[h].node
<1>1. /\ n \in NodeId /\ request[h] \in RequestState /\ request[h].kind = "patch"
      /\ request[h].at = "written"
  BY HandlerFacts DEF PatchReread, PatchIsSo
<1>2. UNCHANGED <<nodes, socket, hub, snapLock, listed, forsaken, pairCodes, spent>>
  BY DEF PatchReread
<1>3. TablesFine' /\ forsaken \subseteq forsaken' /\ UNCHANGED <<socket, hub, snapLock>>
  BY <1>2 DEF RegistryInv, TablesFine
<1>4. \A x \in NodeId : Disabled(x)' => Disabled(x)
  BY <1>2 DEF Disabled, Exists
<1>5. CASE MustCut(n)
  <2> DEFINE r == [request[h] EXCEPT !.at = "cut"]
  <2>1. /\ r \in RequestState /\ PatchIsSo(r)
        /\ \A x \in NodeId : OnItsWay(request[h], x) => OnItsWay(r, x)
    BY <1>1 DEF RequestState, PatchIsSo, OnItsWay
  <2>2. request' = [request EXCEPT ![h] = r]
    BY <1>5 DEF PatchReread
  <2> HIDE DEF r
  <2> QED
    BY <1>3, <1>4, <2>1, <2>2, HandlerKeeps
<1>6. CASE ~MustCut(n)
  <2>1. request' = [request EXCEPT ![h] = Idle]
    BY <1>6 DEF PatchReread
  <2>2. \A x \in NodeId : Disabled(x)' => ~OnItsWay(request[h], x)
    BY <1>2, <1>6 DEF Disabled, OnItsWay, MustCut, Exists
  <2>3. Idle \in RequestState /\ PatchIsSo(Idle)
    BY RegistryAtRest DEF PatchIsSo
  <2> QED
    BY <1>3, <1>4, <2>1, <2>2, <2>3, HandlerKeeps
<1> QED
  BY <1>5, <1>6

(* It ends early, and is remembered in forsaken if it has written.         *)
LEMMA PatchAbandonStep ==
  ASSUME RegistryInv, NEW h \in Handler, PatchAbandon(h)
  PROVE  RegistryInv'
PROOF
<1> DEFINE n == request[h].node
<1>1. /\ n \in NodeId /\ request[h].kind = "patch" /\ request[h].at \in {"read", "written"}
      /\ Idle \in RequestState /\ PatchIsSo(Idle)
  BY HandlerFacts, RegistryAtRest DEF PatchAbandon, PatchIsSo
<1>2. /\ request' = [request EXCEPT ![h] = Idle]
      /\ UNCHANGED <<nodes, socket, hub, snapLock, listed, pairCodes, spent>>
      /\ forsaken' = IF request[h].at = "written" THEN forsaken \cup {n} ELSE forsaken
  BY DEF PatchAbandon
<1>3. TablesFine' /\ forsaken \subseteq forsaken' /\ UNCHANGED <<socket, hub, snapLock>>
  BY <1>1, <1>2 DEF RegistryInv, TablesFine
<1>4. \A x \in NodeId : Disabled(x)' => Disabled(x)
  BY <1>2 DEF Disabled, Exists
<1>5. \A x \in NodeId : x \in forsaken' \/ ~OnItsWay(request[h], x)
  BY <1>1, <1>2 DEF OnItsWay
<1> QED
  BY <1>1, <1>2, <1>3, <1>4, <1>5, HandlerKeeps

(* A deletion begins.                                                      *)
LEMMA DeleteNodeStep ==
  ASSUME RegistryInv, NEW h \in Handler, NEW n \in NodeId, DeleteNode(h, n)
  PROVE  RegistryInv'
PROOF
<1> DEFINE r == [Idle EXCEPT !.kind = "delete", !.at = "cut", !.node = n]
<1>1. r \in RequestState /\ PatchIsSo(r)
  BY RegistryAtRest DEF RequestState, PatchIsSo
<1>2. /\ request' = [request EXCEPT ![h] = r] /\ request[h] = Idle
      /\ UNCHANGED <<nodes, socket, hub, snapLock, listed, forsaken, pairCodes, spent>>
  BY DEF DeleteNode
<1> HIDE DEF r
<1>3. TablesFine' /\ forsaken \subseteq forsaken' /\ UNCHANGED <<socket, hub, snapLock>>
  BY <1>2 DEF RegistryInv, TablesFine
<1>4. \A x \in NodeId : Disabled(x)' => Disabled(x) /\ ~OnItsWay(request[h], x)
  BY <1>2, RegistryAtRest DEF Disabled, Exists, OnItsWay
<1> QED
  BY <1>1, <1>2, <1>3, <1>4, HandlerKeeps

(* The row is deleted, or is not.                                          *)
LEMMA DeleteRowStep ==
  ASSUME RegistryInv, NEW h \in Handler, DeleteRow(h)
  PROVE  RegistryInv'
PROOF
<1> DEFINE n == request[h].node
<1>1. n \in NodeId /\ Idle \in RequestState /\ PatchIsSo(Idle)
  BY HandlerFacts, RegistryAtRest DEF PatchIsSo
<1>2. /\ request' = [request EXCEPT ![h] = Idle] /\ request[h].at = "drop"
      /\ UNCHANGED <<socket, hub, snapLock, listed, forsaken, pairCodes, spent>>
      /\ nodes' = [nodes EXCEPT ![n] = NoRow] \/ UNCHANGED nodes
  BY DEF DeleteRow
<1> HIDE DEF n
<1>3. TablesFine' /\ forsaken \subseteq forsaken' /\ UNCHANGED <<socket, hub, snapLock>>
  BY <1>1, <1>2, RegistryAtRest DEF RegistryInv, TablesFine
<1>4. \A x \in NodeId : Disabled(x)' => Disabled(x) /\ ~OnItsWay(request[h], x)
  BY <1>1, <1>2, RegistryAtRest DEF Disabled, Exists, OnItsWay, RegistryInv, TablesFine
<1> QED
  BY <1>1, <1>2, <1>3, <1>4, HandlerKeeps

(* A Disconnect: the node of the handler has neither connection nor lock   *)
(* afterwards.                                                             *)
LEMMA CutStep ==
  ASSUME RegistryInv, NEW h \in Handler, PatchCut(h) \/ DeleteCut(h)
  PROVE  RegistryInv'
PROOF
<1> DEFINE n == request[h].node
<1>1. n \in NodeId /\ request[h] \in RequestState
  BY HandlerFacts
<1>2. PICK r \in RequestState : PatchIsSo(r) /\ request' = [request EXCEPT ![h] = r]
  <2> DEFINE goesOn == [request[h] EXCEPT !.at = "drop"]
  <2>1. Idle \in RequestState /\ PatchIsSo(Idle) /\ goesOn \in RequestState /\ PatchIsSo(goesOn)
    BY <1>1, RegistryAtRest DEF RequestState, PatchIsSo
  <2> QED
    BY <2>1 DEF PatchCut, DeleteCut
<1>3. /\ snapLock[n] = Unheld /\ hub' = [hub EXCEPT ![n] = NoSocket]
      /\ listed' = listed \ {n} /\ forsaken' = forsaken \ {n}
      /\ socket' = Closed(socket, n) /\ UNCHANGED <<pairCodes, nodes, spent, snapLock>>
  BY DEF PatchCut, DeleteCut, Disconnect
<1> HIDE DEF n
<1>4. TablesFine'
  BY <1>1, <1>3 DEF RegistryInv, TablesFine
<1>5. SocketsFine(socket', snapLock')
  BY <1>1, <1>3, ClosedIsFine DEF RegistryInv, TablesFine
<1>6. /\ RequestsFine(request')
      /\ \A x \in NodeId : PatchOf(x) /\ ~OnItsWay(request[h], x) => PatchOf(x)'
  BY <1>2, HandlerGoesOn DEF RegistryInv
<1>7. ASSUME NEW x \in NodeId, Disabled(x)', Engaged(x)' PROVE PatchOf(x)' \/ x \in forsaken'
  <2>1. x # n
    BY <1>1, <1>3, <1>7 DEF Engaged, RegistryInv, TablesFine
  <2>2. Disabled(x) /\ Engaged(x)
    BY <1>1, <1>3, <1>7, <2>1 DEF Engaged, Disabled, Exists, RegistryInv, TablesFine
  <2>3. ~OnItsWay(request[h], x)
    BY <2>1 DEF OnItsWay, n
  <2> QED
    BY <1>3, <1>6, <2>1, <2>2, <2>3 DEF RegistryInv, CutIsDue
<1> QED
  BY <1>4, <1>5, <1>6, <1>7 DEF RegistryInv, CutIsDue

(* The connections.                                                        *)
LEMMA QuietSocketStep ==
  ASSUME RegistryInv, NEW c \in Socket,
         (\E n \in NodeId : Dial(c, n)) \/ DialFails(c) \/ SocketLost(c)
  PROVE  RegistryInv'
PROOF
<1>1. /\ socket[c] \in SocketState
      /\ UNCHANGED <<pairCodes, nodes, spent, hub, snapLock, listed, request, forsaken>>
  BY SocketFacts DEF Dial, DialFails, SocketLost
<1>2. PICK r \in SocketState : ~HoldsLock(r) /\ socket' = [socket EXCEPT ![c] = r]
  <2> DEFINE left == [socket[c] EXCEPT !.at = "leaving"]
  <2>1. /\ left \in SocketState /\ ~HoldsLock(left) /\ NoDial \in SocketState /\ ~HoldsLock(NoDial)
    BY <1>1, RegistryAtRest DEF SocketState, HoldsLock
  <2>2. \A n \in NodeId : /\ [at |-> "dialled", node |-> n, heard |-> FALSE] \in SocketState
                          /\ ~HoldsLock([at |-> "dialled", node |-> n, heard |-> FALSE])
    BY DEF SocketState, HoldsLock
  <2>3. ASSUME NEW n \in NodeId, Dial(c, n)
        PROVE  socket' = [socket EXCEPT ![c] = [at |-> "dialled", node |-> n, heard |-> FALSE]]
    BY <2>3 DEF Dial
  <2>4. DialFails(c) => socket' = [socket EXCEPT ![c] = NoDial]
    BY DEF DialFails
  <2>5. SocketLost(c) => socket' = [socket EXCEPT ![c] = left]
    BY DEF SocketLost
  <2> HIDE DEF left
  <2> QED
    BY <2>1, <2>2, <2>3, <2>4, <2>5
<1>3. SocketsFine(socket', snapLock')
  BY <1>1, <1>2, SocketChanges DEF RegistryInv
<1>4. TablesFine'
  BY <1>1 DEF RegistryInv, TablesFine
<1>5. \A x \in NodeId : Disabled(x)' /\ Engaged(x)' =>
                          Disabled(x) /\ Engaged(x) /\ (x \in forsaken => x \in forsaken')
  BY <1>1 DEF Disabled, Engaged, Exists
<1> QED
  BY <1>1, <1>3, <1>4, <1>5, SocketKeeps

(* A Hello of another release disconnects the node.                        *)
LEMMA HelloRejectedStep ==
  ASSUME RegistryInv, NEW c \in Socket, HelloRejected(c)
  PROVE  RegistryInv'
PROOF
<1> DEFINE n == socket[c].node
<1>1. n \in NodeId /\ NoDial \in SocketState /\ ~HoldsLock(NoDial)
  BY SocketFacts, RegistryAtRest DEF HoldsLock
<1>2. snapLock[n] = Unheld /\ UNCHANGED <<pairCodes, spent, snapLock, request>>
  BY DEF HelloRejected
<1>3. CASE Exists(n)
  <2> DEFINE row == [nodes[n] EXCEPT !.current = FALSE]
             closed == Closed(socket, n)
  <2>1. /\ nodes' = [nodes EXCEPT ![n].current = FALSE]
        /\ hub' = [hub EXCEPT ![n] = NoSocket]
        /\ listed' = listed \ {n} /\ forsaken' = forsaken \ {n}
        /\ socket' = [closed EXCEPT ![c] = NoDial]
    BY <1>3 DEF HelloRejected, Disconnect
  <2>2. row \in Row /\ row.device = nodes[n].device /\ row.enabled = nodes[n].enabled
    BY <1>1 DEF RegistryInv, TablesFine, Row
  <2>3. nodes' = [nodes EXCEPT ![n] = row]
    BY <2>1
  <2>4. SocketsFine(closed, snapLock)
    BY <1>1, ClosedIsFine DEF RegistryInv, TablesFine
  <2> HIDE DEF row, closed, n
  <2>5. SocketsFine(socket', snapLock')
    BY <1>1, <1>2, <2>1, <2>4, SocketChanges
  <2>6. TablesFine'
    BY <1>1, <1>2, <2>1, <2>2, <2>3 DEF RegistryInv, TablesFine
  <2>7. ASSUME NEW x \in NodeId, Disabled(x)', Engaged(x)'
        PROVE  Disabled(x) /\ Engaged(x) /\ (x \in forsaken => x \in forsaken')
    <3>1. x # n
      BY <1>1, <1>2, <2>1, <2>7 DEF Engaged, RegistryInv, TablesFine
    <3> QED
      BY <1>1, <1>2, <2>1, <2>3, <2>7, <3>1 DEF Disabled, Exists, Engaged, RegistryInv, TablesFine
  <2> QED
    BY <1>2, <2>5, <2>6, <2>7, SocketKeeps
<1>4. CASE ~Exists(n)
  <2>1. socket' = [socket EXCEPT ![c] = NoDial] /\ UNCHANGED <<nodes, hub, listed, forsaken>>
    BY <1>4 DEF HelloRejected
  <2>2. SocketsFine(socket', snapLock')
    BY <1>1, <1>2, <2>1, SocketChanges DEF RegistryInv
  <2>3. TablesFine'
    BY <1>2, <2>1 DEF RegistryInv, TablesFine
  <2>4. \A x \in NodeId : Disabled(x)' /\ Engaged(x)' =>
                            Disabled(x) /\ Engaged(x) /\ (x \in forsaken => x \in forsaken')
    BY <1>2, <2>1 DEF Disabled, Engaged, Exists
  <2> QED
    BY <1>2, <2>2, <2>3, <2>4, SocketKeeps
<1> QED
  BY <1>3, <1>4

(* A handshake or a snapshot takes the lock, of an enabled node only.      *)
LEMMA CheckStep ==
  ASSUME RegistryInv, NEW c \in Socket, HelloCheck(c) \/ UpdateCheck(c)
  PROVE  RegistryInv'
PROOF
<1> DEFINE n == socket[c].node
<1>1. n \in NodeId /\ socket[c] \in SocketState
  BY SocketFacts
<1>2. /\ snapLock[n] = Unheld
      /\ UNCHANGED <<pairCodes, nodes, spent, hub, listed, request, forsaken>>
  BY DEF HelloCheck, UpdateCheck
<1>3. TablesFine'
  BY <1>2 DEF RegistryInv, TablesFine
<1>4. CASE Acceptable(n)
  <2>1. PICK r \in SocketState : r.node = n /\ socket' = [socket EXCEPT ![c] = r]
    <3> DEFINE one == [socket[c] EXCEPT !.at = "checked"]
               two == [socket[c] EXCEPT !.at = "refreshing"]
    <3>1. one \in SocketState /\ one.node = n /\ two \in SocketState /\ two.node = n
      BY <1>1 DEF SocketState
    <3> QED
      BY <1>4, <3>1 DEF HelloCheck, UpdateCheck
  <2>2. snapLock' = [snapLock EXCEPT ![n] = c]
    BY <1>4 DEF HelloCheck, UpdateCheck
  <2>3. ~Disabled(n)
    BY <1>4 DEF Acceptable, Disabled
  <2> HIDE DEF n
  <2>4. SocketsFine(socket', snapLock')
    BY <1>1, <1>2, <2>1, <2>2, SocketLocks DEF RegistryInv
  <2>5. \A x \in NodeId : Disabled(x)' /\ Engaged(x)' =>
                            Disabled(x) /\ Engaged(x) /\ (x \in forsaken => x \in forsaken')
    BY <1>1, <1>2, <2>2, <2>3 DEF Disabled, Engaged, Exists, RegistryInv, SocketsFine
  <2> QED
    BY <1>2, <1>3, <2>4, <2>5, SocketKeeps
<1>5. CASE ~Acceptable(n)
  <2>1. PICK r \in SocketState : ~HoldsLock(r) /\ socket' = [socket EXCEPT ![c] = r]
    <3> DEFINE left == [socket[c] EXCEPT !.at = "leaving"]
    <3>1. left \in SocketState /\ ~HoldsLock(left) /\ NoDial \in SocketState /\ ~HoldsLock(NoDial)
      BY <1>1, RegistryAtRest DEF SocketState, HoldsLock
    <3> QED
      BY <1>5, <3>1 DEF HelloCheck, UpdateCheck
  <2>2. UNCHANGED snapLock
    BY <1>5 DEF HelloCheck, UpdateCheck
  <2>3. SocketsFine(socket', snapLock')
    BY <2>1, <2>2, SocketChanges DEF RegistryInv
  <2>4. \A x \in NodeId : Disabled(x)' /\ Engaged(x)' =>
                            Disabled(x) /\ Engaged(x) /\ (x \in forsaken => x \in forsaken')
    BY <1>2, <2>2 DEF Disabled, Engaged, Exists
  <2> QED
    BY <1>2, <1>3, <2>3, <2>4, SocketKeeps
<1> QED
  BY <1>4, <1>5

(* It writes the row, and keeps the lock or frees it.                      *)
LEMMA StoreStep ==
  ASSUME RegistryInv, NEW c \in Socket, HelloStore(c) \/ UpdateStore(c)
  PROVE  RegistryInv'
PROOF
<1> DEFINE n == socket[c].node
           row == [nodes[n] EXCEPT !.current = TRUE]
<1>1. /\ n \in NodeId /\ socket[c] \in SocketState /\ snapLock[n] = c
      /\ nodes[n] \in Row /\ nodes \in [NodeId -> Row]
  BY SocketFacts DEF HelloStore, UpdateStore, HoldsLock, RegistryInv, TablesFine
<1>2. row \in Row /\ row.device = nodes[n].device /\ row.enabled = nodes[n].enabled
  BY <1>1 DEF Row
<1>3. /\ UNCHANGED <<pairCodes, spent, hub, request, forsaken>>
      /\ nodes' = [nodes EXCEPT ![n] = row] \/ UNCHANGED nodes
  BY DEF HelloStore, UpdateStore
<1>4. listed' \subseteq NodeId
  <2>1. listed \subseteq NodeId
    BY DEF RegistryInv, TablesFine
  <2>2. HelloStore(c) => UNCHANGED listed
    BY DEF HelloStore
  <2>3. UpdateStore(c) => listed' = listed \/ listed' = listed \cup {n} \/ listed' = listed \ {n}
    BY DEF UpdateStore, Listing
  <2> QED
    BY <1>1, <2>1, <2>2, <2>3
<1>5. PICK r \in SocketState, v \in {c, Unheld} :
        /\ socket' = [socket EXCEPT ![c] = r] /\ (HoldsLock(r) => r.node = n /\ v = c)
        /\ snapLock' = [snapLock EXCEPT ![n] = v]
  <2> DEFINE stored == [socket[c] EXCEPT !.at = "stored", !.heard = nodes[n].enabled]
             open == [socket[c] EXCEPT !.at = "open", !.heard = nodes[n].enabled]
             left == [socket[c] EXCEPT !.at = "leaving"]
  <2>1. /\ stored \in SocketState /\ stored.node = n
        /\ open \in SocketState /\ ~HoldsLock(open) /\ left \in SocketState /\ ~HoldsLock(left)
        /\ NoDial \in SocketState /\ ~HoldsLock(NoDial)
    BY <1>1, RegistryAtRest DEF SocketState, HoldsLock, Row
  <2>2. [snapLock EXCEPT ![n] = c] = snapLock
    BY <1>1 DEF RegistryInv, SocketsFine
  <2>3. /\ HelloStore(c) /\ Exists(n) => socket' = [socket EXCEPT ![c] = stored] /\ UNCHANGED snapLock
        /\ HelloStore(c) /\ ~Exists(n) => /\ socket' = [socket EXCEPT ![c] = NoDial]
                                          /\ snapLock' = [snapLock EXCEPT ![n] = Unheld]
    BY <1>1 DEF HelloStore, RegistryInv, SocketsFine
  <2>4. /\ UpdateStore(c) => snapLock' = [snapLock EXCEPT ![n] = Unheld]
        /\ UpdateStore(c) /\ Exists(n) => socket' = [socket EXCEPT ![c] = open]
        /\ UpdateStore(c) /\ ~Exists(n) => socket' = [socket EXCEPT ![c] = left]
    BY <1>1 DEF UpdateStore, RegistryInv, SocketsFine
  <2> HIDE DEF stored, open, left, n
  <2> QED
    BY <2>1, <2>2, <2>3, <2>4
<1> HIDE DEF n, row
<1>6. SocketsFine(socket', snapLock')
  BY <1>1, <1>5, SocketLocks DEF RegistryInv
<1>7. TablesFine'
  BY <1>1, <1>2, <1>3, <1>4 DEF RegistryInv, TablesFine
<1>8. \A x \in NodeId : Disabled(x)' => Disabled(x)
  BY <1>1, <1>2, <1>3 DEF Disabled, Exists
<1>9. \A x \in NodeId : Engaged(x)' => Engaged(x)
  BY <1>1, <1>3, <1>5, RegistryConstants DEF Engaged, RegistryInv, SocketsFine
<1> QED
  BY <1>3, <1>6, <1>7, <1>8, <1>9, SocketKeeps

(* The connection is published, with the lock that it then frees.          *)
LEMMA HelloReadyStep ==
  ASSUME RegistryInv, NEW c \in Socket, HelloReady(c)
  PROVE  RegistryInv'
PROOF
<1> DEFINE n == socket[c].node
           closed == Closed(socket, n)
           r == [closed[c] EXCEPT !.at = "open"]
<1>1. n \in NodeId /\ snapLock[n] = c
  BY SocketFacts DEF HelloReady, HoldsLock
<1>2. SocketsFine(closed, snapLock)
  BY <1>1, ClosedIsFine DEF RegistryInv, TablesFine
<1>3. r \in SocketState /\ ~HoldsLock(r)
  BY <1>2 DEF SocketsFine, SocketState, HoldsLock
<1>4. /\ hub' = [hub EXCEPT ![n] = c] /\ snapLock' = [snapLock EXCEPT ![n] = Unheld]
      /\ socket' = [closed EXCEPT ![c] = r]
      /\ listed' = listed \cup {n} \/ listed' = listed \ {n}
      /\ UNCHANGED <<pairCodes, nodes, spent, request, forsaken>>
  <2>1. socket' = [closed EXCEPT ![c].at = "open"]
    BY DEF HelloReady
  <2>2. socket' = [closed EXCEPT ![c] = r]
    BY <2>1
  <2> QED
    BY <2>2 DEF HelloReady, Listing
<1> HIDE DEF n, closed, r
<1>5. SocketsFine(socket', snapLock')
  BY <1>1, <1>2, <1>3, <1>4, SocketLocks
<1>6. TablesFine'
  BY <1>1, <1>4 DEF RegistryInv, TablesFine
<1>7. \A x \in NodeId : Disabled(x)' => Disabled(x)
  BY <1>4 DEF Disabled, Exists
<1>8. \A x \in NodeId : Engaged(x)' => Engaged(x)
  BY <1>1, <1>4, RegistryConstants DEF Engaged, RegistryInv, SocketsFine, TablesFine
<1> QED
  BY <1>4, <1>5, <1>6, <1>7, <1>8, SocketKeeps

(* The answer to the Hello could not be written.                           *)
LEMMA HelloUnreadyStep ==
  ASSUME RegistryInv, NEW c \in Socket, HelloUnready(c)
  PROVE  RegistryInv'
PROOF
<1> DEFINE n == socket[c].node
<1>1. n \in NodeId /\ snapLock[n] = c /\ NoDial \in SocketState /\ ~HoldsLock(NoDial)
  BY SocketFacts, RegistryAtRest DEF HelloUnready, HoldsLock
<1>2. /\ socket' = [socket EXCEPT ![c] = NoDial] /\ snapLock' = [snapLock EXCEPT ![n] = Unheld]
      /\ UNCHANGED <<pairCodes, nodes, spent, hub, listed, request, forsaken>>
  BY DEF HelloUnready
<1> HIDE DEF n
<1>3. SocketsFine(socket', snapLock')
  BY <1>1, <1>2, SocketLocks DEF RegistryInv
<1>4. TablesFine'
  BY <1>2 DEF RegistryInv, TablesFine
<1>5. \A x \in NodeId : Disabled(x)' /\ Engaged(x)' =>
                          Disabled(x) /\ Engaged(x) /\ (x \in forsaken => x \in forsaken')
  BY <1>1, <1>2, RegistryConstants DEF Disabled, Exists, Engaged, RegistryInv, SocketsFine
<1> QED
  BY <1>2, <1>3, <1>4, <1>5, SocketKeeps

(* The read loop of a connection has ended.                                *)
LEMMA LoopEndsStep ==
  ASSUME RegistryInv, NEW c \in Socket, LoopEnds(c)
  PROVE  RegistryInv'
PROOF
<1> DEFINE n == socket[c].node
<1>1. n \in NodeId /\ NoDial \in SocketState /\ ~HoldsLock(NoDial)
  BY SocketFacts, RegistryAtRest DEF HoldsLock
<1>2. /\ socket' = [socket EXCEPT ![c] = NoDial]
      /\ UNCHANGED <<pairCodes, nodes, spent, snapLock, request, forsaken>>
      /\ \/ hub' = [hub EXCEPT ![n] = NoSocket] /\ listed' = listed \ {n}
         \/ UNCHANGED <<hub, listed>>
  BY DEF LoopEnds
<1> HIDE DEF n
<1>3. SocketsFine(socket', snapLock')
  BY <1>1, <1>2, SocketChanges DEF RegistryInv
<1>4. TablesFine'
  BY <1>1, <1>2 DEF RegistryInv, TablesFine
<1>5. \A x \in NodeId : Disabled(x)' /\ Engaged(x)' =>
                          Disabled(x) /\ Engaged(x) /\ (x \in forsaken => x \in forsaken')
  BY <1>1, <1>2 DEF Disabled, Exists, Engaged, RegistryInv, TablesFine
<1> QED
  BY <1>2, <1>3, <1>4, <1>5, SocketKeeps

(* A snapshot of another release.                                          *)
LEMMA UpdateRejectedStep ==
  ASSUME RegistryInv, NEW c \in Socket, UpdateRejected(c)
  PROVE  RegistryInv'
PROOF
<1> DEFINE n == socket[c].node
           row == [nodes[n] EXCEPT !.current = FALSE]
           left == [socket[c] EXCEPT !.at = "leaving"]
<1>1. n \in NodeId /\ left \in SocketState /\ ~HoldsLock(left)
  BY SocketFacts DEF SocketState, HoldsLock
<1>2. row \in Row /\ row.device = nodes[n].device /\ row.enabled = nodes[n].enabled
  BY <1>1 DEF RegistryInv, TablesFine, Row
<1>3. /\ socket' = [socket EXCEPT ![c] = left] /\ nodes' = [nodes EXCEPT ![n] = row]
      /\ UNCHANGED <<pairCodes, spent, hub, snapLock, listed, request, forsaken>>
  BY DEF UpdateRejected
<1> HIDE DEF n, row, left
<1>4. SocketsFine(socket', snapLock')
  BY <1>1, <1>3, SocketChanges DEF RegistryInv
<1>5. TablesFine'
  BY <1>1, <1>2, <1>3 DEF RegistryInv, TablesFine
<1>6. \A x \in NodeId : Disabled(x)' => Disabled(x)
  BY <1>1, <1>2, <1>3 DEF Disabled, Exists, RegistryInv, TablesFine
<1>7. \A x \in NodeId : Engaged(x)' => Engaged(x)
  BY <1>3 DEF Engaged
<1> QED
  BY <1>3, <1>4, <1>5, <1>6, <1>7, SocketKeeps

(* After a restart nothing is connected and nobody holds a lock.           *)
LEMMA RestartStep == RegistryInv /\ Restart => RegistryInv'
PROOF
<1> SUFFICES ASSUME RegistryInv, Restart PROVE RegistryInv'
  OBVIOUS
<1>1. TablesFine' /\ CutIsDue'
  BY DEF Restart, RegistryInv, TablesFine, CutIsDue, Engaged
<1>2. SocketsFine(socket', snapLock')
  BY RegistryAtRest DEF Restart, SocketsFine, HoldsLock
<1>3. RequestsFine(request')
  BY RegistryAtRest DEF Restart, RequestsFine, PatchIsSo
<1> QED
  BY <1>1, <1>2, <1>3 DEF RegistryInv

(* A pairing code is created or expires, or nothing happens.               *)
LEMMA AsideStep ==
  ASSUME RegistryInv,
         (\E k \in PairCode : CreatePairingCode(k) \/ ExpireCode(k)) \/ UNCHANGED registryVars
  PROVE  RegistryInv'
PROOF
<1>1. UNCHANGED <<nodes, spent, socket, hub, snapLock, listed, request, forsaken>>
  BY DEF CreatePairingCode, ExpireCode, registryVars
<1>2. pairCodes' \in [PairCode -> {"unborn", "open", "used", "expired"}]
  BY DEF CreatePairingCode, ExpireCode, registryVars, RegistryInv, TablesFine
<1>3. TablesFine' /\ SocketsFine(socket', snapLock')
  BY <1>1, <1>2 DEF RegistryInv, TablesFine
<1>4. \A x \in NodeId : Disabled(x)' /\ Engaged(x)' =>
                          Disabled(x) /\ Engaged(x) /\ (x \in forsaken => x \in forsaken')
  BY <1>1 DEF Disabled, Exists, Engaged
<1> QED
  BY <1>1, <1>3, <1>4, SocketKeeps

(* Every step keeps the invariant.                                         *)
LEMMA RegistryStepInv == RegistryInv /\ [RegistryNext]_registryVars => RegistryInv'
PROOF
<1> SUFFICES ASSUME RegistryInv, [RegistryNext]_registryVars PROVE RegistryInv'
  OBVIOUS
<1>1. CASE (\E k \in PairCode : CreatePairingCode(k) \/ ExpireCode(k)) \/ UNCHANGED registryVars
  BY <1>1, AsideStep
<1>2. CASE \E h \in Handler, k \in PairCode, d \in Device, n \in NodeId : Pair(h, k, d, n)
  BY <1>2, PairStep
<1>3. CASE \E h \in Handler : IssueToken(h) \/ PatchWrite(h) \/ PatchReread(h) \/ PatchAbandon(h)
  BY <1>3, IssueTokenStep, PatchWriteStep, PatchRereadStep, PatchAbandonStep
<1>4. CASE \E h \in Handler : PatchCut(h) \/ DeleteCut(h) \/ DeleteRow(h)
  BY <1>4, CutStep, DeleteRowStep
<1>5. CASE \/ \E h \in Handler, n \in NodeId, w \in {"keep", "on", "off"} : PatchRead(h, n, w)
           \/ \E h \in Handler, n \in NodeId : DeleteNode(h, n)
  BY <1>5, PatchReadStep, DeleteNodeStep
<1>6. CASE \E c \in Socket : (\E n \in NodeId : Dial(c, n)) \/ DialFails(c) \/ SocketLost(c)
  BY <1>6, QuietSocketStep
<1>7. CASE \E c \in Socket : HelloCheck(c) \/ UpdateCheck(c) \/ HelloStore(c) \/ UpdateStore(c)
  BY <1>7, CheckStep, StoreStep
<1>8. CASE \E c \in Socket : HelloRejected(c) \/ HelloReady(c) \/ HelloUnready(c)
                             \/ LoopEnds(c) \/ UpdateRejected(c)
  BY <1>8, HelloRejectedStep, HelloReadyStep, HelloUnreadyStep, LoopEndsStep, UpdateRejectedStep
<1>9. CASE Restart
  BY <1>9, RestartStep
<1> QED
  BY <1>1, <1>2, <1>3, <1>4, <1>5, <1>6, <1>7, <1>8, <1>9 DEF RegistryNext

(* Rows, connections, locks and handlers (agentdock/connections.go).       *)
THEOREM RegistryTypes == RegistrySpec => []RegistryTypeOK
PROOF
<1>1. RegistryInv => RegistryTypeOK
  BY DEF RegistryInv, TablesFine, SocketsFine, RequestsFine, SocketState, RequestState, RegistryTypeOK
<1> QED
  BY <1>1, RegistryInitInv, RegistryStepInv, PTL DEF RegistrySpec

(* A disabled node has no connection, unless the PATCH that disabled it is *)
(* still on its way to the Disconnect or was ended before it, whatever     *)
(* other handlers, handshakes and snapshots are under way (Accept,         *)
(* updateAgentDockNode).                                                   *)
THEOREM DisabledNodesAreCutOff == RegistrySpec => []DisabledIsCut
PROOF
<1>1. RegistryInv => DisabledIsCut
  BY DEF RegistryInv, CutIsDue, Disabled, Engaged, DisabledIsCut
<1> QED
  BY <1>1, RegistryInitInv, RegistryStepInv, PTL DEF RegistrySpec
(* ---- the tool catalog and the connections ------------------------------- *)

(* The published connection of a node is the node's own, and the catalog   *)
(* lists the node as its last Hello found the row, locked or not.  Who     *)
(* holds a lock is a handshake or a snapshot of that node.                 *)
Wired ==
  \A n \in NodeId :
    /\ hub[n] # NoSocket => /\ socket[hub[n]].node = n
                            /\ socket[hub[n]].at \in {"open", "refreshing", "leaving"}
    /\ n \in listed <=> (hub[n] # NoSocket /\ socket[hub[n]].heard)
    /\ snapLock[n] # Unheld => socket[snapLock[n]].node = n /\ HoldsLock(socket[snapLock[n]])

(* An open connection is the published one; from the stored Hello on the   *)
(* row, if there still is one, is of the required release; and connections *)
(* belong to ids that were given out, which are given out once.            *)
Serving ==
  \A c \in Socket :
    /\ socket[c].at \in {"open", "refreshing"} => hub[socket[c].node] = c
    /\ socket[c].at \in {"open", "stored"} /\ Exists(socket[c].node) => nodes[socket[c].node].current
    /\ socket[c].at # "idle" => socket[c].node \in spent
RowsAreSpent == \A n \in NodeId : nodes[n] # NoRow => n \in spent

CatalogInv == RegistryInv /\ Wired /\ Serving /\ RowsAreSpent

(* The values a step of a connection or a handler starts from.             *)
LEMMA RegistryValues ==
  ASSUME RegistryInv
  PROVE  /\ socket \in [Socket -> SocketState] /\ snapLock \in [NodeId -> Socket \cup {Unheld}]
         /\ nodes \in [NodeId -> Row] /\ spent \subseteq NodeId
         /\ hub \in [NodeId -> Socket \cup {NoSocket}] /\ listed \subseteq NodeId
         /\ \A c \in Socket : socket[c].node \in NodeId
         /\ \A c \in Socket : HoldsLock(socket[c]) => snapLock[socket[c].node] = c
PROOF
<1>1. socket \in [Socket -> SocketState]
  BY DEF RegistryInv, SocketsFine
<1>2. \A c \in Socket : socket[c].node \in NodeId
  BY <1>1 DEF SocketState
<1> QED
  BY <1>1, <1>2 DEF RegistryInv, SocketsFine, TablesFine

(* Rows change under the connections: no row that existed comes back, or   *)
(* changes its release.                                                    *)
LEMMA RowsChange ==
  ASSUME CatalogInv, UNCHANGED <<socket, hub, snapLock, listed>>, spent \subseteq spent',
         \A n \in NodeId : nodes'[n] # NoRow => n \in spent',
         \A n \in spent : Exists(n)' => Exists(n) /\ nodes'[n].current = nodes[n].current
  PROVE  Wired' /\ Serving' /\ RowsAreSpent'
PROOF
<1>1. Wired'
  BY DEF CatalogInv, Wired
<1>2. Serving'
  BY DEF CatalogInv, Serving, Exists
<1> QED
  BY <1>1, <1>2 DEF RowsAreSpent

(* The handlers of pairing, PATCH and deletion that leave connections      *)
(* alone.                                                                  *)
LEMMA HandlerWires ==
  ASSUME CatalogInv, NEW h \in Handler,
         \/ \E k \in PairCode, d \in Device, n \in NodeId : Pair(h, k, d, n)
         \/ IssueToken(h) \/ PatchWrite(h) \/ PatchReread(h) \/ PatchAbandon(h) \/ DeleteRow(h)
         \/ \E n \in NodeId, w \in {"keep", "on", "off"} : PatchRead(h, n, w)
         \/ \E n \in NodeId : DeleteNode(h, n)
  PROVE  Wired' /\ Serving' /\ RowsAreSpent'
PROOF
<1>1. /\ nodes \in [NodeId -> Row] /\ request[h].node \in NodeId
      /\ RowsAreSpent
  BY RegistryValues, HandlerFacts DEF CatalogInv
<1>2. UNCHANGED <<socket, hub, snapLock, listed>>
  BY DEF Pair, IssueToken, PatchWrite, PatchReread, PatchAbandon, DeleteRow, PatchRead, DeleteNode
<1>3. ASSUME NEW k \in PairCode, NEW d \in Device, NEW n \in NodeId, Pair(h, k, d, n)
      PROVE  Wired' /\ Serving' /\ RowsAreSpent'
  <2>1. /\ n \notin spent /\ spent' = spent \cup {n}
        /\ \A x \in NodeId : x # n => nodes'[x] = nodes[x]
    BY <1>1, <1>3 DEF Pair
  <2>2. \A x \in spent : Exists(x)' => Exists(x) /\ nodes'[x].current = nodes[x].current
    BY <2>1, RegistryValues DEF Exists, CatalogInv
  <2>3. \A x \in NodeId : nodes'[x] # NoRow => x \in spent'
    BY <1>1, <2>1 DEF RowsAreSpent
  <2> QED
    BY <1>2, <2>1, <2>2, <2>3, RowsChange
<1>4. ASSUME \/ IssueToken(h) \/ PatchWrite(h) \/ PatchReread(h) \/ PatchAbandon(h) \/ DeleteRow(h)
             \/ \E n \in NodeId, w \in {"keep", "on", "off"} : PatchRead(h, n, w)
             \/ \E n \in NodeId : DeleteNode(h, n)
      PROVE  Wired' /\ Serving' /\ RowsAreSpent'
  <2> DEFINE m == request[h].node
  <2>1. spent' = spent
    BY <1>4 DEF IssueToken, PatchWrite, PatchReread, PatchAbandon, DeleteRow, PatchRead, DeleteNode
  <2>2. \/ nodes' = nodes \/ nodes' = [nodes EXCEPT ![m] = NoRow]
        \/ \E v : nodes' = [nodes EXCEPT ![m].token = v] /\ IssueToken(h)
        \/ \E v : nodes' = [nodes EXCEPT ![m].enabled = v] /\ Exists(m)
    BY <1>4 DEF IssueToken, PatchWrite, PatchReread, PatchAbandon, DeleteRow, PatchRead, DeleteNode
  <2>3. IssueToken(h) => \/ UNCHANGED nodes \/ nodes' = [nodes EXCEPT ![m] = NoRow]
                         \/ nodes' = [nodes EXCEPT ![m].token = Exists(m)]
    BY DEF IssueToken
  <2>4. \A x \in NodeId : \/ nodes'[x] = nodes[x] \/ nodes'[x] = NoRow
                          \/ nodes[x] # NoRow /\ nodes'[x].device = nodes[x].device
                                              /\ nodes'[x].current = nodes[x].current
    <3>1. nodes' = [nodes EXCEPT ![m].token = Exists(m)] /\ nodes[m] = NoRow => nodes'[m] = NoRow
      <4>1. [NoRow EXCEPT !.token = FALSE] = NoRow
        <5> DEFINE row == [NoRow EXCEPT !.token = FALSE]
        <5>1. /\ row \in Row /\ NoRow \in Row
              /\ row.device = NoRow.device /\ row.enabled = NoRow.enabled
              /\ row.current = NoRow.current /\ row.token = NoRow.token
          BY DEF NoRow, Row
        <5>2. \A r, s \in Row : (/\ r.device = s.device /\ r.enabled = s.enabled
                                /\ r.current = s.current /\ r.token = s.token) => r = s
          BY DEF Row
        <5> QED
          BY <5>1, <5>2
      <4>2. nodes[m] = NoRow => Exists(m) = FALSE
        BY DEF NoRow, Exists
      <4>3. nodes' = [nodes EXCEPT ![m].token = Exists(m)]
              => nodes'[m] = [nodes[m] EXCEPT !.token = Exists(m)]
        BY <1>1
      <4> QED
        BY <4>1, <4>2, <4>3
    <3>2. (\E v : nodes' = [nodes EXCEPT ![m].enabled = v] /\ Exists(m)) => nodes[m] # NoRow
      BY DEF NoRow, Exists
    <3>3. \A v : nodes' = [nodes EXCEPT ![m].token = v] \/ nodes' = [nodes EXCEPT ![m].enabled = v] =>
            /\ nodes'[m].device = nodes[m].device /\ nodes'[m].current = nodes[m].current
            /\ \A x \in NodeId : x # m => nodes'[x] = nodes[x]
      BY <1>1 DEF Row
    <3>4. nodes' = [nodes EXCEPT ![m] = NoRow] =>
            nodes'[m] = NoRow /\ \A x \in NodeId : x # m => nodes'[x] = nodes[x]
      BY <1>1
    <3> HIDE DEF m
    <3> QED
      BY <2>2, <2>3, <3>1, <3>2, <3>3, <3>4
  <2>5. \A x \in spent : Exists(x)' => Exists(x) /\ nodes'[x].current = nodes[x].current
    BY <2>4, RegistryAtRest, RegistryValues DEF Exists, CatalogInv
  <2>6. \A x \in NodeId : nodes'[x] # NoRow => x \in spent'
    BY <1>1, <2>1, <2>4, RegistryAtRest DEF RowsAreSpent, Exists
  <2> QED
    BY <1>2, <2>1, <2>5, <2>6, RowsChange
<1> QED
  BY <1>3, <1>4

(* A Disconnect: the published connection of the node leaves, and with it  *)
(* the node's tools, in a step that may also reject a Hello.               *)
LEMMA DisconnectWires ==
  ASSUME CatalogInv, NEW n \in NodeId, snapLock[n] = Unheld, UNCHANGED <<snapLock, spent>>,
         hub' = [hub EXCEPT ![n] = NoSocket], listed' = listed \ {n},
         \A d \in Socket : \/ d = hub[n] /\ socket'[d] = [socket[d] EXCEPT !.at = "leaving"]
                           \/ d # hub[n] /\ socket'[d] = socket[d]
                           \/ d # hub[n] /\ socket[d].at = "dialled" /\ socket'[d] = NoDial,
         \A m \in NodeId : m # n => nodes'[m] = nodes[m], nodes'[n] # NoRow => n \in spent
  PROVE  Wired' /\ Serving' /\ RowsAreSpent'
PROOF
<1>1. /\ socket \in [Socket -> SocketState] /\ hub \in [NodeId -> Socket \cup {NoSocket}]
      /\ snapLock \in [NodeId -> Socket \cup {Unheld}]
      /\ \A d \in Socket : HoldsLock(socket[d]) => snapLock[socket[d].node] = d
      /\ Wired /\ Serving /\ RowsAreSpent /\ NoDial.at = "idle"
  BY RegistryValues, RegistryAtRest DEF CatalogInv
<1>2. \A d \in Socket : d = hub[n] => /\ socket'[d].at = "leaving"
                                      /\ socket'[d].node = socket[d].node
  BY <1>1 DEF SocketState
<1>3. ASSUME NEW m \in NodeId, m # n, NEW d \in Socket,
             hub[m] = d \/ snapLock[m] = d
      PROVE  socket'[d] = socket[d]
  <2>1. d # hub[n]
    BY <1>1, <1>3, RegistryConstants DEF Wired
  <2>2. socket[d].at # "dialled"
    BY <1>1, <1>3, RegistryConstants DEF Wired, HoldsLock
  <2> QED
    BY <2>1, <2>2
<1>4. Wired'
  <2> SUFFICES ASSUME NEW m \in NodeId
               PROVE  /\ hub'[m] # NoSocket => /\ socket'[hub'[m]].node = m
                                               /\ socket'[hub'[m]].at \in {"open", "refreshing", "leaving"}
                      /\ m \in listed' <=> (hub'[m] # NoSocket /\ socket'[hub'[m]].heard)
                      /\ snapLock'[m] # Unheld => socket'[snapLock'[m]].node = m
                                                   /\ HoldsLock(socket'[snapLock'[m]])
    BY DEF Wired, HoldsLock
  <2>1. CASE m = n
    BY <1>1, <2>1
  <2>2. CASE m # n
    <3>1. hub'[m] = hub[m] /\ (m \in listed' <=> m \in listed) /\ snapLock'[m] = snapLock[m]
      BY <1>1, <2>2
    <3>2. hub[m] # NoSocket => hub[m] \in Socket /\ socket'[hub[m]] = socket[hub[m]]
      BY <1>1, <1>3, <2>2
    <3>3. snapLock[m] # Unheld => snapLock[m] \in Socket /\ socket'[snapLock[m]] = socket[snapLock[m]]
      BY <1>1, <1>3, <2>2
    <3> QED
      BY <1>1, <3>1, <3>2, <3>3 DEF Wired
  <2> QED
    BY <2>1, <2>2
<1>5. Serving'
  <2> SUFFICES ASSUME NEW d \in Socket
               PROVE  /\ socket'[d].at \in {"open", "refreshing"} => hub'[socket'[d].node] = d
                      /\ socket'[d].at \in {"open", "stored"} /\ nodes'[socket'[d].node].device # {}
                           => nodes'[socket'[d].node].current
                      /\ socket'[d].at # "idle" => socket'[d].node \in spent
    BY DEF Serving, Exists
  <2>1. CASE d = hub[n]
    BY <1>1, <1>2, <2>1, RegistryConstants DEF Serving, Wired
  <2>2. CASE socket'[d] = NoDial
    BY <1>1, <2>2
  <2>3. CASE d # hub[n] /\ socket'[d] = socket[d]
    <3>1. /\ socket[d].node \in NodeId
          /\ socket[d].at \in {"open", "refreshing", "stored"} => socket[d].node # n
      BY <1>1, <2>3, RegistryConstants DEF Serving, HoldsLock, SocketState
    <3>2. socket[d].at \in {"open", "stored"} => nodes'[socket[d].node] = nodes[socket[d].node]
      BY <3>1
    <3>3. socket[d].at \in {"open", "refreshing"} => hub'[socket[d].node] = hub[socket[d].node]
      BY <1>1, <3>1
    <3>4. /\ socket[d].at \in {"open", "refreshing"} => hub[socket[d].node] = d
          /\ socket[d].at \in {"open", "stored"} /\ nodes[socket[d].node].device # {}
               => nodes[socket[d].node].current
          /\ socket[d].at # "idle" => socket[d].node \in spent
      BY <1>1 DEF Serving, Exists
    <3> QED
      BY <2>3, <3>2, <3>3, <3>4
  <2> QED
    BY <2>1, <2>2, <2>3
<1>6. RowsAreSpent'
  BY <1>1 DEF RowsAreSpent
<1> QED
  BY <1>4, <1>5, <1>6

(* Any other step is about one node: what belongs to the others stays.     *)
WiredAt(n) ==
  /\ hub[n] # NoSocket => /\ socket[hub[n]].node = n
                          /\ socket[hub[n]].at \in {"open", "refreshing", "leaving"}
  /\ n \in listed <=> (hub[n] # NoSocket /\ socket[hub[n]].heard)
  /\ snapLock[n] # Unheld => socket[snapLock[n]].node = n /\ HoldsLock(socket[snapLock[n]])
ServingAt(n) ==
  \A d \in Socket : socket[d].node = n =>
    /\ socket[d].at \in {"open", "refreshing"} => hub[n] = d
    /\ socket[d].at \in {"open", "stored"} /\ Exists(n) => nodes[n].current

LEMMA OneNodeWires ==
  ASSUME CatalogInv, NEW n \in NodeId, n \in spent, spent' = spent, WiredAt(n)', ServingAt(n)',
         \A m \in NodeId : m # n => /\ hub'[m] = hub[m] /\ snapLock'[m] = snapLock[m]
                                    /\ (m \in listed' <=> m \in listed) /\ nodes'[m] = nodes[m],
         \A d \in Socket : \/ socket'[d] = socket[d]
                           \/ /\ socket[d].at = "idle" \/ socket[d].node = n
                              /\ socket'[d].at = "idle" \/ socket'[d].node = n
  PROVE  Wired' /\ Serving' /\ RowsAreSpent'
PROOF
<1>1. /\ socket \in [Socket -> SocketState] /\ hub \in [NodeId -> Socket \cup {NoSocket}]
      /\ snapLock \in [NodeId -> Socket \cup {Unheld}]
      /\ Wired /\ Serving /\ RowsAreSpent
      /\ \A d \in Socket : socket[d].node \in NodeId
  BY RegistryValues DEF CatalogInv
<1>2. ASSUME NEW m \in NodeId, m # n PROVE WiredAt(m)'
  <2>1. /\ hub'[m] = hub[m] /\ snapLock'[m] = snapLock[m] /\ (m \in listed' <=> m \in listed)
    BY <1>2
  <2>2. hub[m] # NoSocket => hub[m] \in Socket /\ socket'[hub[m]] = socket[hub[m]]
    BY <1>1, <1>2 DEF Wired
  <2>3. snapLock[m] # Unheld => snapLock[m] \in Socket /\ socket'[snapLock[m]] = socket[snapLock[m]]
    BY <1>1, <1>2 DEF Wired, HoldsLock
  <2>4. WiredAt(m)
    BY <1>1 DEF Wired, WiredAt
  <2> QED
    BY <2>1, <2>2, <2>3, <2>4 DEF WiredAt, HoldsLock
<1>3. Wired'
  <2>1. \A m \in NodeId : WiredAt(m)'
    BY <1>2
  <2> QED
    BY <2>1 DEF Wired, WiredAt
<1>4. ASSUME NEW d \in Socket
      PROVE  /\ socket'[d].at \in {"open", "refreshing"} => hub'[socket'[d].node] = d
             /\ socket'[d].at \in {"open", "stored"} /\ nodes'[socket'[d].node].device # {}
                  => nodes'[socket'[d].node].current
             /\ socket'[d].at # "idle" => socket'[d].node \in spent
  <2>1. CASE socket'[d].node = n
    BY <2>1 DEF ServingAt, Exists
  <2>2. CASE socket'[d].at = "idle"
    BY <2>2
  <2>3. CASE socket'[d] = socket[d] /\ socket[d].node # n
    <3>1. hub'[socket[d].node] = hub[socket[d].node] /\ nodes'[socket[d].node] = nodes[socket[d].node]
      BY <1>1, <2>3
    <3> QED
      BY <1>1, <2>3, <3>1 DEF Serving, Exists
  <2> QED
    BY <2>1, <2>2, <2>3
<1>5. Serving'
  BY <1>4 DEF Serving, Exists
<1>6. RowsAreSpent'
  BY <1>1 DEF RowsAreSpent
<1> QED
  BY <1>3, <1>5, <1>6

(* One connection of a node, and what the steps below start from.          *)
LEMMA ConnectionWires ==
  ASSUME CatalogInv, NEW c \in Socket, socket[c].at # "idle"
  PROVE  /\ socket[c].node \in NodeId /\ socket[c].node \in spent
         /\ WiredAt(socket[c].node) /\ ServingAt(socket[c].node)
         /\ socket[c].at \notin {"open", "refreshing", "leaving"} => hub[socket[c].node] # c
         /\ HoldsLock(socket[c]) => snapLock[socket[c].node] = c
PROOF
<1>1. socket[c].node \in NodeId /\ socket[c].node \in spent
  BY RegistryValues DEF CatalogInv, Serving
<1>2. /\ WiredAt(socket[c].node) /\ ServingAt(socket[c].node)
      /\ HoldsLock(socket[c]) => snapLock[socket[c].node] = c
  BY <1>1, RegistryValues DEF CatalogInv, Wired, Serving, WiredAt, ServingAt
<1>3. socket[c].at \notin {"open", "refreshing", "leaving"} => hub[socket[c].node] # c
  BY <1>2, RegistryConstants DEF WiredAt
<1> QED
  BY <1>1, <1>2, <1>3

(* The steps of a connection that take or free no lock and write no row.   *)
LEMMA QuietWires ==
  ASSUME CatalogInv, NEW c \in Socket,
         (\E n \in NodeId : Dial(c, n)) \/ DialFails(c) \/ SocketLost(c)
  PROVE  Wired' /\ Serving' /\ RowsAreSpent'
PROOF
<1>1. /\ socket \in [Socket -> SocketState] /\ nodes \in [NodeId -> Row]
      /\ NoDial \in SocketState /\ NoDial.at = "idle" /\ NoRow.token = FALSE
      /\ hub \in [NodeId -> Socket \cup {NoSocket}]
      /\ snapLock \in [NodeId -> Socket \cup {Unheld}]
  BY RegistryValues, RegistryAtRest DEF CatalogInv, NoRow
<1>2. UNCHANGED <<nodes, spent, hub, snapLock, listed>>
  BY DEF Dial, DialFails, SocketLost
<1>3. ASSUME NEW n \in NodeId, n \in spent, WiredAt(n), ServingAt(n),
             NEW r \in SocketState, socket' = [socket EXCEPT ![c] = r],
             socket[c].at = "idle" \/ socket[c].node = n, r.at = "idle" \/ r.node = n,
             r.at \in {"idle", "dialled", "leaving"}, snapLock[n] # c,
             hub[n] = c => r.at = "leaving" /\ r.node = n /\ r.heard = socket[c].heard
      PROVE  Wired' /\ Serving' /\ RowsAreSpent'
  <2>1. socket'[c] = r /\ \A d \in Socket : d # c => socket'[d] = socket[d]
    BY <1>1, <1>3
  <2>2. WiredAt(n)'
    <3>1. hub[n] = c => socket'[hub[n]].node = n /\ socket'[hub[n]].at = "leaving"
                          /\ socket'[hub[n]].heard = socket[hub[n]].heard
      BY <1>3, <2>1
    <3>2. hub[n] # NoSocket /\ hub[n] # c => socket'[hub[n]] = socket[hub[n]]
      BY <1>1, <2>1
    <3>3. snapLock[n] # Unheld => socket'[snapLock[n]] = socket[snapLock[n]]
      BY <1>1, <1>3, <2>1
    <3> QED
      BY <1>2, <1>3, <3>1, <3>2, <3>3 DEF WiredAt
  <2>3. ServingAt(n)'
    BY <1>2, <1>3, <2>1 DEF ServingAt, Exists
  <2> QED
    BY <1>2, <1>3, <2>1, <2>2, <2>3, OneNodeWires
<1>4. ASSUME NEW n \in NodeId, Dial(c, n) PROVE Wired' /\ Serving' /\ RowsAreSpent'
  <2> DEFINE r == [at |-> "dialled", node |-> n, heard |-> FALSE]
  <2>1. /\ r \in SocketState /\ r.at = "dialled" /\ r.node = n
        /\ socket' = [socket EXCEPT ![c] = r] /\ socket[c].at = "idle"
    BY <1>4 DEF Dial, SocketState
  <2>2. n \in spent /\ WiredAt(n) /\ ServingAt(n)
    BY <1>1, <1>4, RegistryValues DEF Dial, CatalogInv, RowsAreSpent, Wired, Serving, WiredAt, ServingAt
  <2>3. hub[n] # c /\ snapLock[n] # c
    BY <2>1, <2>2, RegistryConstants DEF WiredAt, HoldsLock
  <2> HIDE DEF r
  <2> QED
    BY <1>3, <2>1, <2>2, <2>3
<1>5. ASSUME DialFails(c) \/ SocketLost(c) PROVE Wired' /\ Serving' /\ RowsAreSpent'
  <2> DEFINE n == socket[c].node
             r == socket'[c]
  <2>1. /\ socket' = [socket EXCEPT ![c] = r] /\ r \in SocketState
        /\ \/ r = NoDial /\ socket[c].at = "dialled"
           \/ r.at = "leaving" /\ r.node = n /\ r.heard = socket[c].heard /\ socket[c].at = "open"
    BY <1>1, <1>5 DEF DialFails, SocketLost, SocketState
  <2>2. n \in NodeId /\ n \in spent /\ WiredAt(n) /\ ServingAt(n)
        /\ (socket[c].at = "dialled" => hub[n] # c)
    BY <2>1, ConnectionWires
  <2>3. snapLock[n] # c
    BY <2>1, <2>2, RegistryConstants DEF WiredAt, HoldsLock
  <2> HIDE DEF n, r
  <2>4. socket[c].node = n
    BY DEF n
  <2> QED
    BY <1>1, <1>3, <2>1, <2>2, <2>3, <2>4
<1> QED
  BY <1>4, <1>5

(* One connection changes, and may take or free the lock, leave the hub,   *)
(* or write the row of its node.                                           *)
LEMMA OneSocketWires ==
  ASSUME CatalogInv, NEW c \in Socket, socket[c].at # "idle", NEW n \in NodeId, n = socket[c].node,
         NEW r \in SocketState, socket' = [socket EXCEPT ![c] = r], r.at = "idle" \/ r.node = n,
         spent' = spent,
         \A m \in NodeId : m # n => /\ hub'[m] = hub[m] /\ snapLock'[m] = snapLock[m]
                                    /\ (m \in listed' <=> m \in listed) /\ nodes'[m] = nodes[m],
         hub'[n] = hub[n] \/ hub'[n] = NoSocket,
         hub'[n] = c => r.node = n /\ r.at \in {"open", "refreshing", "leaving"},
         n \in listed' <=> (hub'[n] # NoSocket /\ IF hub'[n] = c THEN r.heard ELSE n \in listed),
         snapLock'[n] \in {snapLock[n], Unheld, c}, snapLock'[n] = c => r.node = n /\ HoldsLock(r),
         r.at \in {"open", "refreshing"} => hub'[n] = c,
         hub'[n] = NoSocket => hub[n] \in {c, NoSocket},
         r.at \in {"open", "stored"} /\ Exists(n)' => nodes'[n].current,
         \/ Exists(n)' => Exists(n) /\ nodes'[n].current = nodes[n].current
         \/ nodes'[n].current
         \/ \A d \in Socket : d # c /\ socket[d].node = n => socket[d].at \notin {"open", "stored"}
  PROVE  Wired' /\ Serving' /\ RowsAreSpent'
PROOF
<1>1. /\ socket \in [Socket -> SocketState] /\ hub \in [NodeId -> Socket \cup {NoSocket}]
      /\ snapLock \in [NodeId -> Socket \cup {Unheld}]
      /\ n \in spent /\ WiredAt(n) /\ ServingAt(n)
  BY RegistryValues, ConnectionWires DEF CatalogInv
<1>2. socket'[c] = r /\ \A d \in Socket : d # c => socket'[d] = socket[d]
  BY <1>1
<1>3. WiredAt(n)'
  <2>1. hub'[n] # NoSocket /\ hub'[n] # c => hub'[n] = hub[n] /\ socket'[hub'[n]] = socket[hub[n]]
    BY <1>1, <1>2
  <2>2. snapLock'[n] # Unheld /\ snapLock'[n] # c =>
          snapLock'[n] = snapLock[n] /\ socket'[snapLock'[n]] = socket[snapLock[n]]
    BY <1>1, <1>2
  <2>3. /\ hub'[n] = c => socket'[hub'[n]] = r
        /\ snapLock'[n] = c => socket'[snapLock'[n]] = r
    BY <1>2
  <2>4. hub'[n] # NoSocket => /\ socket'[hub'[n]].node = n
                             /\ socket'[hub'[n]].at \in {"open", "refreshing", "leaving"}
    BY <1>1, <2>1, <2>3 DEF WiredAt
  <2>5. n \in listed' <=> (hub'[n] # NoSocket /\ socket'[hub'[n]].heard)
    BY <1>1, <2>1, <2>3 DEF WiredAt
  <2>6. snapLock'[n] # Unheld => socket'[snapLock'[n]].node = n /\ HoldsLock(socket'[snapLock'[n]])
    BY <1>1, <2>2, <2>3 DEF WiredAt
  <2> QED
    BY <2>4, <2>5, <2>6 DEF WiredAt, HoldsLock
<1>4. ServingAt(n)'
  <2>1. ASSUME NEW d \in Socket, socket'[d].node = n
        PROVE  /\ socket'[d].at \in {"open", "refreshing"} => hub'[n] = d
               /\ socket'[d].at \in {"open", "stored"} /\ nodes'[n].device # {} => nodes'[n].current
    <3>1. CASE d = c
      BY <1>2, <3>1 DEF Exists
    <3>2. CASE d # c
      <4>1. socket'[d] = socket[d]
        BY <1>2, <3>2
      <4>2. socket[d].at \in {"open", "refreshing"} => hub[n] = d
        BY <1>1, <2>1, <4>1 DEF ServingAt
      <4>3. socket[d].at \in {"open", "refreshing"} => hub'[n] = d
        BY <3>2, <4>2, RegistryConstants
      <4>4. socket[d].at \in {"open", "stored"} /\ nodes[n].device # {} => nodes[n].current
        BY <1>1, <2>1, <4>1 DEF ServingAt, Exists
      <4> QED
        BY <2>1, <3>2, <4>1, <4>3, <4>4 DEF Exists
    <3> QED
      BY <3>1, <3>2
  <2> QED
    BY <2>1 DEF ServingAt, Exists
<1>5. \A d \in Socket : \/ socket'[d] = socket[d]
                        \/ socket[d].node = n /\ (socket'[d].at = "idle" \/ socket'[d].node = n)
  BY <1>2
<1> QED
  BY <1>1, <1>3, <1>4, <1>5, OneNodeWires

LEMMA CheckWires ==
  ASSUME CatalogInv, NEW c \in Socket, HelloCheck(c) \/ UpdateCheck(c)
  PROVE  Wired' /\ Serving' /\ RowsAreSpent'
PROOF
<1>0. socket[c].node \in NodeId
  BY RegistryValues DEF CatalogInv
<1> SUFFICES ASSUME NEW n \in NodeId, n = socket[c].node, NEW r, r = socket'[c]
             PROVE  Wired' /\ Serving' /\ RowsAreSpent'
  BY <1>0
<1>1. /\ socket \in [Socket -> SocketState] /\ NoDial \in SocketState /\ NoDial.at = "idle"
      /\ snapLock \in [NodeId -> Socket \cup {Unheld}]
  BY RegistryValues, RegistryAtRest DEF CatalogInv
<1>2. /\ UNCHANGED <<nodes, spent, hub, listed>> /\ snapLock[n] = Unheld
      /\ socket[c].at \in {"dialled", "open"}
  BY DEF HelloCheck, UpdateCheck
<1>3. /\ WiredAt(n) /\ ServingAt(n)
      /\ socket[c].at = "open" => hub[n] = c
      /\ socket[c].at = "dialled" => hub[n] # c
  BY <1>2, ConnectionWires DEF ServingAt
<1>4. /\ socket' = [socket EXCEPT ![c] = r] /\ r \in SocketState
      /\ \/ r = NoDial /\ socket[c].at = "dialled" /\ snapLock' = snapLock
         \/ r.at = "leaving" /\ r.node = n /\ r.heard = socket[c].heard /\ socket[c].at = "open"
             /\ snapLock' = snapLock
         \/ /\ r.at \in {"checked", "refreshing"} /\ r.node = n /\ r.heard = socket[c].heard
            /\ snapLock' = [snapLock EXCEPT ![n] = c]
            /\ r.at = "refreshing" <=> socket[c].at = "open"
  BY <1>1 DEF HelloCheck, UpdateCheck, SocketState
<1>5. /\ snapLock'[n] \in {Unheld, c} /\ (snapLock'[n] = c => r.node = n /\ HoldsLock(r))
      /\ \A m \in NodeId : m # n => snapLock'[m] = snapLock[m]
  BY <1>1, <1>2, <1>3, <1>4, RegistryConstants DEF HoldsLock
<1>6. n \in listed' <=> (hub'[n] # NoSocket /\ IF hub'[n] = c THEN r.heard ELSE n \in listed)
  BY <1>2, <1>3, <1>4, RegistryConstants DEF WiredAt
<1>7. r.at = "idle" \/ r.node = n
  BY <1>1, <1>4
<1>8. /\ hub'[n] = c => r.node = n /\ r.at \in {"open", "refreshing", "leaving"}
      /\ r.at \in {"open", "refreshing"} => hub'[n] = c
      /\ r.at \notin {"open", "stored"}
  BY <1>1, <1>2, <1>3, <1>4
<1>9. /\ Exists(n)' => Exists(n) /\ nodes'[n].current = nodes[n].current
       /\ hub'[n] = hub[n] /\ spent' = spent
       /\ \A m \in NodeId : hub'[m] = hub[m] /\ (m \in listed' <=> m \in listed) /\ nodes'[m] = nodes[m]
  BY <1>2 DEF Exists
<1> QED
  BY <1>2, <1>3, <1>4, <1>5, <1>6, <1>7, <1>8, <1>9, OneSocketWires

(* The row is written as the current release, or is gone.                  *)
LEMMA StoreWires ==
  ASSUME CatalogInv, NEW c \in Socket, HelloStore(c) \/ UpdateStore(c)
  PROVE  Wired' /\ Serving' /\ RowsAreSpent'
PROOF
<1>0. socket[c].node \in NodeId
  BY RegistryValues DEF CatalogInv
<1> SUFFICES ASSUME NEW n \in NodeId, n = socket[c].node, NEW r, r = socket'[c]
             PROVE  Wired' /\ Serving' /\ RowsAreSpent'
  BY <1>0
<1>1. /\ socket \in [Socket -> SocketState] /\ NoDial \in SocketState /\ NoDial.at = "idle"
      /\ snapLock \in [NodeId -> Socket \cup {Unheld}] /\ nodes \in [NodeId -> Row]
  BY RegistryValues, RegistryAtRest DEF CatalogInv
<1>2. UNCHANGED <<spent, hub>> /\ socket[c].at \in {"checked", "refreshing"}
  BY DEF HelloStore, UpdateStore
<1>3. /\ WiredAt(n) /\ snapLock[n] = c
      /\ socket[c].at = "refreshing" => hub[n] = c
      /\ socket[c].at = "checked" => hub[n] # c
  BY <1>2, ConnectionWires DEF ServingAt, HoldsLock
<1>4. /\ socket' = [socket EXCEPT ![c] = r] /\ r \in SocketState
      /\ \/ r = NoDial /\ socket[c].at = "checked" /\ snapLock' = [snapLock EXCEPT ![n] = Unheld]
             /\ UNCHANGED <<nodes, listed>>
         \/ r.at = "leaving" /\ r.node = n /\ r.heard = socket[c].heard /\ socket[c].at = "refreshing"
             /\ snapLock' = [snapLock EXCEPT ![n] = Unheld] /\ UNCHANGED <<nodes, listed>>
         \/ r.at = "stored" /\ r.node = n /\ socket[c].at = "checked"
             /\ nodes' = [nodes EXCEPT ![n].current = TRUE] /\ UNCHANGED <<snapLock, listed>>
         \/ r.at = "open" /\ r.node = n /\ socket[c].at = "refreshing"
             /\ nodes' = [nodes EXCEPT ![n].current = TRUE] /\ listed' = Listing(n, r.heard)
             /\ snapLock' = [snapLock EXCEPT ![n] = Unheld]
  <2>1. nodes[n].enabled \in BOOLEAN
    BY <1>1 DEF Row
  <2>2. CASE HelloStore(c)
    BY <1>1, <2>1, <2>2 DEF HelloStore, SocketState
  <2>3. CASE UpdateStore(c)
    BY <1>1, <2>1, <2>3 DEF UpdateStore, SocketState
  <2> QED
    BY <2>2, <2>3
<1>5. /\ snapLock'[n] \in {Unheld, c} /\ (snapLock'[n] = c => r.node = n /\ HoldsLock(r))
      /\ \A m \in NodeId : m # n => snapLock'[m] = snapLock[m]
  BY <1>1, <1>3, <1>4, RegistryConstants DEF HoldsLock
<1>6. /\ n \in listed' <=> (hub'[n] # NoSocket /\ IF hub'[n] = c THEN r.heard ELSE n \in listed)
      /\ \A m \in NodeId : m # n => (m \in listed' <=> m \in listed)
  BY <1>2, <1>3, <1>4, RegistryConstants DEF WiredAt, Listing
<1>7. /\ r.at = "idle" \/ r.node = n
      /\ hub'[n] = c => r.node = n /\ r.at \in {"open", "refreshing", "leaving"}
      /\ r.at \in {"open", "refreshing"} => hub'[n] = c
  BY <1>1, <1>2, <1>3, <1>4
<1>8. /\ nodes' = nodes \/ nodes'[n].current
      /\ r.at \in {"open", "stored"} => nodes'[n].current
      /\ \A m \in NodeId : m # n => nodes'[m] = nodes[m]
  BY <1>1, <1>4 DEF Row
<1>9. (Exists(n)' => Exists(n) /\ nodes'[n].current = nodes[n].current) \/ nodes'[n].current
  BY <1>8 DEF Exists
<1>10. hub' = hub /\ spent' = spent
  BY <1>2
<1> QED
  BY <1>2, <1>3, <1>4, <1>5, <1>6, <1>7, <1>8, <1>9, <1>10, OneSocketWires

(* The lock is freed without a publication, or a loop ends, or a snapshot  *)
(* of another release arrives.                                             *)
LEMMA LeavingWires ==
  ASSUME CatalogInv, NEW c \in Socket,
         HelloUnready(c) \/ LoopEnds(c) \/ UpdateRejected(c)
  PROVE  Wired' /\ Serving' /\ RowsAreSpent'
PROOF
<1>0. socket[c].node \in NodeId
  BY RegistryValues DEF CatalogInv
<1> SUFFICES ASSUME NEW n \in NodeId, n = socket[c].node, NEW r, r = socket'[c]
             PROVE  Wired' /\ Serving' /\ RowsAreSpent'
  BY <1>0
<1>1. /\ socket \in [Socket -> SocketState] /\ NoDial \in SocketState /\ NoDial.at = "idle"
      /\ snapLock \in [NodeId -> Socket \cup {Unheld}] /\ nodes \in [NodeId -> Row]
      /\ hub \in [NodeId -> Socket \cup {NoSocket}]
      /\ \A d \in Socket : HoldsLock(socket[d]) => snapLock[socket[d].node] = d
  BY RegistryValues, RegistryAtRest DEF CatalogInv
<1>2. spent' = spent /\ socket[c].at \in {"stored", "leaving", "open"}
  BY DEF HelloUnready, LoopEnds, UpdateRejected
<1>3. /\ WiredAt(n) /\ ServingAt(n)
      /\ socket[c].at = "stored" => hub[n] # c /\ snapLock[n] = c
      /\ socket[c].at = "open" => hub[n] = c
  BY <1>2, ConnectionWires DEF ServingAt, HoldsLock
<1>4. /\ socket' = [socket EXCEPT ![c] = r] /\ r \in SocketState
      /\ \/ r = NoDial /\ socket[c].at = "stored" /\ snapLock' = [snapLock EXCEPT ![n] = Unheld]
             /\ UNCHANGED <<nodes, hub, listed>>
         \/ r = NoDial /\ socket[c].at = "leaving" /\ hub[n] # c
             /\ UNCHANGED <<nodes, hub, listed, snapLock>>
         \/ r = NoDial /\ socket[c].at = "leaving" /\ hub[n] = c
             /\ hub' = [hub EXCEPT ![n] = NoSocket] /\ listed' = listed \ {n}
             /\ UNCHANGED <<nodes, snapLock>>
         \/ r.at = "leaving" /\ r.node = n /\ r.heard = socket[c].heard /\ socket[c].at = "open"
             /\ nodes' = [nodes EXCEPT ![n].current = FALSE] /\ UNCHANGED <<hub, listed, snapLock>>
      /\ socket[c].at # "stored" => snapLock[n] = Unheld
  BY <1>1, <1>2 DEF HelloUnready, LoopEnds, UpdateRejected, StillPublished, SocketState
<1>5. /\ snapLock'[n] = Unheld
      /\ \A m \in NodeId : m # n => snapLock'[m] = snapLock[m]
  BY <1>1, <1>2, <1>4
<1>6. /\ hub'[n] = hub[n] \/ (hub'[n] = NoSocket /\ hub[n] = c)
      /\ \A m \in NodeId : m # n => hub'[m] = hub[m] /\ (m \in listed' <=> m \in listed)
      /\ hub'[n] = c => r.node = n /\ r.at = "leaving"
  BY <1>1, <1>3, <1>4, RegistryConstants
<1>7. n \in listed' <=> (hub'[n] # NoSocket /\ IF hub'[n] = c THEN r.heard ELSE n \in listed)
  BY <1>1, <1>3, <1>4, <1>6, RegistryConstants DEF WiredAt
<1>8. /\ r.at \in {"idle", "leaving"} /\ (r.at = "idle" \/ r.node = n)
      /\ \A m \in NodeId : m # n => nodes'[m] = nodes[m]
  BY <1>1, <1>4
<1>9. \/ nodes' = nodes
      \/ \A d \in Socket : d # c /\ socket[d].node = n => socket[d].at \notin {"open", "stored"}
  <2>1. CASE socket[c].at = "open"
    BY <1>1, <1>3, <1>4, <2>1, RegistryConstants DEF ServingAt, HoldsLock
  <2>2. CASE socket[c].at # "open"
    BY <1>4, <2>2
  <2> QED
    BY <2>1, <2>2
<1>10. \/ Exists(n)' => Exists(n) /\ nodes'[n].current = nodes[n].current
       \/ \A d \in Socket : d # c /\ socket[d].node = n => socket[d].at \notin {"open", "stored"}
  BY <1>9 DEF Exists
<1> QED
  BY <1>2, <1>4, <1>5, <1>6, <1>7, <1>8, <1>10, RegistryConstants, OneSocketWires

(* node.ready is out: the connection is published, and its predecessor     *)
(* closed.                                                                 *)
LEMMA ReadyWires ==
  ASSUME CatalogInv, NEW c \in Socket, HelloReady(c)
  PROVE  Wired' /\ Serving' /\ RowsAreSpent'
PROOF
<1>0. socket[c].node \in NodeId
  BY RegistryValues DEF CatalogInv
<1> SUFFICES ASSUME NEW n \in NodeId, n = socket[c].node
             PROVE  Wired' /\ Serving' /\ RowsAreSpent'
  BY <1>0
<1>1. /\ socket \in [Socket -> SocketState] /\ snapLock \in [NodeId -> Socket \cup {Unheld}]
      /\ hub \in [NodeId -> Socket \cup {NoSocket}] /\ listed \subseteq NodeId
      /\ \A d \in Socket : HoldsLock(socket[d]) => snapLock[socket[d].node] = d
  BY RegistryValues DEF CatalogInv
<1>2. /\ UNCHANGED <<nodes, spent>> /\ socket[c].at = "stored"
      /\ hub' = [hub EXCEPT ![n] = c] /\ snapLock' = [snapLock EXCEPT ![n] = Unheld]
      /\ listed' = Listing(n, socket[c].heard)
      /\ socket' = [Closed(socket, n) EXCEPT ![c].at = "open"]
  BY DEF HelloReady
<1>3. WiredAt(n) /\ ServingAt(n) /\ hub[n] # c /\ snapLock[n] = c /\ n \in spent
  BY <1>2, ConnectionWires DEF HoldsLock
<1>4. /\ socket'[c].at = "open" /\ socket'[c].node = n /\ socket'[c].heard = socket[c].heard
      /\ \A d \in Socket : d # c =>
           \/ d # hub[n] /\ socket'[d] = socket[d]
           \/ d = hub[n] /\ socket'[d].at = "leaving" /\ socket'[d].node = socket[d].node
  <2>1. CASE hub[n] = NoSocket
    BY <1>1, <1>2, <1>3, <2>1, RegistryConstants DEF Closed, SocketState
  <2>2. CASE hub[n] # NoSocket
    <3>1. /\ hub[n] \in Socket /\ hub[n] # c
          /\ socket' = [[socket EXCEPT ![hub[n]].at = "leaving"] EXCEPT ![c].at = "open"]
      BY <1>1, <1>2, <1>3, <2>2 DEF Closed
    <3> QED
      BY <1>1, <1>3, <3>1 DEF SocketState
  <2> QED
    BY <2>1, <2>2
<1>5. WiredAt(n)'
  BY <1>1, <1>2, <1>3, <1>4, RegistryConstants DEF WiredAt, Listing
<1>6. ServingAt(n)'
  <2>1. ASSUME NEW d \in Socket, socket'[d].node = n
        PROVE  /\ socket'[d].at \in {"open", "refreshing"} => hub'[n] = d
               /\ socket'[d].at \in {"open", "stored"} /\ nodes[n].device # {} => nodes[n].current
    <3>1. nodes[n].device # {} => nodes[n].current
      BY <1>2, <1>3 DEF ServingAt, Exists
    <3>2. hub'[n] = c
      BY <1>1, <1>2
    <3>3. d # c => socket'[d].at \notin {"open", "refreshing"}
      BY <1>3, <1>4, <2>1, RegistryConstants DEF ServingAt
    <3> QED
      BY <3>1, <3>2, <3>3
  <2> QED
    BY <1>2, <2>1 DEF ServingAt, Exists
<1>7. \A d \in Socket : \/ socket'[d] = socket[d]
                        \/ socket[d].node = n /\ socket'[d].node = n
  BY <1>1, <1>3, <1>4, RegistryConstants DEF WiredAt
<1>8. \A m \in NodeId : m # n => /\ hub'[m] = hub[m] /\ snapLock'[m] = snapLock[m]
                                /\ (m \in listed' <=> m \in listed) /\ nodes'[m] = nodes[m]
  BY <1>1, <1>2 DEF Listing
<1> QED
  BY <1>2, <1>3, <1>5, <1>6, <1>7, <1>8, OneNodeWires

(* The Disconnects of the handlers, and of a Hello of another release.     *)
LEMMA CutWires ==
  ASSUME CatalogInv, \/ \E h \in Handler : PatchCut(h) \/ DeleteCut(h)
                     \/ \E c \in Socket : HelloRejected(c)
  PROVE  Wired' /\ Serving' /\ RowsAreSpent'
PROOF
<1>1. /\ socket \in [Socket -> SocketState] /\ hub \in [NodeId -> Socket \cup {NoSocket}]
      /\ nodes \in [NodeId -> Row] /\ RowsAreSpent
      /\ \A h \in Handler : request[h].node \in NodeId
  BY RegistryValues, HandlerFacts DEF CatalogInv
<1>2. ASSUME NEW n \in NodeId
      PROVE  \A d \in Socket : Closed(socket, n)[d] =
               IF d = hub[n] THEN [socket[d] EXCEPT !.at = "leaving"] ELSE socket[d]
  BY <1>1, RegistryConstants DEF Closed
<1>3. ASSUME NEW h \in Handler, PatchCut(h) \/ DeleteCut(h)
      PROVE  Wired' /\ Serving' /\ RowsAreSpent'
  <2>0. request[h].node \in NodeId
    BY <1>1
  <2> SUFFICES ASSUME NEW n \in NodeId, n = request[h].node
               PROVE  Wired' /\ Serving' /\ RowsAreSpent'
    BY <2>0
  <2>1. /\ snapLock[n] = Unheld /\ UNCHANGED <<snapLock, spent, nodes>>
        /\ hub' = [hub EXCEPT ![n] = NoSocket] /\ listed' = listed \ {n}
        /\ socket' = Closed(socket, n)
    BY <1>3 DEF PatchCut, DeleteCut, Disconnect
  <2>2. \A d \in Socket : \/ d = hub[n] /\ socket'[d] = [socket[d] EXCEPT !.at = "leaving"]
                          \/ d # hub[n] /\ socket'[d] = socket[d]
    <3>1. \A d \in Socket : socket'[d] = IF d = hub[n] THEN [socket[d] EXCEPT !.at = "leaving"]
                                                       ELSE socket[d]
      BY <1>2, <2>1
    <3> QED
      BY <3>1
  <2>3. /\ \A m \in NodeId : m # n => nodes'[m] = nodes[m]
        /\ nodes'[n] # NoRow => n \in spent
    BY <1>1, <2>1 DEF RowsAreSpent
  <2> QED
    BY <2>1, <2>2, <2>3, DisconnectWires
<1>4. ASSUME NEW c \in Socket, HelloRejected(c)
      PROVE  Wired' /\ Serving' /\ RowsAreSpent'
  <2>0. socket[c].node \in NodeId
    BY RegistryValues DEF CatalogInv
  <2> SUFFICES ASSUME NEW n \in NodeId, n = socket[c].node
               PROVE  Wired' /\ Serving' /\ RowsAreSpent'
    BY <2>0
  <2>1. /\ socket[c].at = "dialled" /\ snapLock[n] = Unheld /\ UNCHANGED <<snapLock, spent>>
    BY <1>4 DEF HelloRejected
  <2>2. WiredAt(n) /\ ServingAt(n) /\ hub[n] # c /\ n \in spent
    BY <2>1, ConnectionWires
  <2>3. CASE Exists(n)
    <3>1. /\ nodes' = [nodes EXCEPT ![n].current = FALSE]
          /\ hub' = [hub EXCEPT ![n] = NoSocket] /\ listed' = listed \ {n}
          /\ socket' = [Closed(socket, n) EXCEPT ![c] = NoDial]
      BY <1>4, <2>3 DEF HelloRejected, Disconnect
    <3>2. \A d \in Socket : \/ d = hub[n] /\ socket'[d] = [socket[d] EXCEPT !.at = "leaving"]
                            \/ d # hub[n] /\ socket'[d] = socket[d]
                            \/ d # hub[n] /\ socket[d].at = "dialled" /\ socket'[d] = NoDial
      <4>1. Closed(socket, n) \in [Socket -> SocketState]
        BY <1>1 DEF Closed, SocketState
      <4> QED
        BY <1>2, <2>1, <2>2, <3>1, <4>1
    <3>3. \A m \in NodeId : m # n => nodes'[m] = nodes[m]
      BY <1>1, <3>1
    <3> QED
      BY <2>1, <2>2, <3>1, <3>2, <3>3, DisconnectWires
  <2>4. CASE ~Exists(n)
    <3>1. socket' = [socket EXCEPT ![c] = NoDial] /\ UNCHANGED <<nodes, hub, listed, snapLock, spent>>
      BY <1>4, <2>4 DEF HelloRejected
    <3>2. /\ NoDial \in SocketState /\ NoDial.at = "idle"
          /\ Exists(n)' => Exists(n) /\ nodes'[n].current = nodes[n].current
      BY <3>1, RegistryAtRest DEF Exists
    <3>3. n \in listed' <=> (hub'[n] # NoSocket /\ n \in listed)
      BY <2>2, <3>1 DEF WiredAt
    <3>4. snapLock'[n] # c /\ hub'[n] # c /\ snapLock'[n] = Unheld
      BY <2>1, <2>2, <3>1, RegistryConstants
    <3> QED
      BY <2>1, <2>2, <3>1, <3>2, <3>3, <3>4, RegistryConstants, OneSocketWires
  <2> QED
    BY <2>3, <2>4
<1> QED
  BY <1>3, <1>4

(* Nothing is connected at the start, nor after a restart.                 *)
LEMMA NothingWired ==
  ASSUME RowsAreSpent, hub = [n \in NodeId |-> NoSocket], listed = {},
         snapLock = [n \in NodeId |-> Unheld], socket = [c \in Socket |-> NoDial]
  PROVE  Wired /\ Serving
PROOF
<1>1. Wired
  BY DEF Wired
<1>2. \A c \in Socket : socket[c].at = "idle"
  BY RegistryAtRest
<1> QED
  BY <1>1, <1>2 DEF Serving

LEMMA CatalogStepInv == CatalogInv /\ [RegistryNext]_registryVars => CatalogInv'
PROOF
<1> SUFFICES ASSUME CatalogInv, [RegistryNext]_registryVars PROVE CatalogInv'
  OBVIOUS
<1>1. RegistryInv'
  BY RegistryStepInv DEF CatalogInv
<1>2. CASE \/ \E h \in Handler, k \in PairCode, d \in Device, n \in NodeId : Pair(h, k, d, n)
           \/ \E h \in Handler : \/ IssueToken(h) \/ PatchWrite(h) \/ PatchReread(h)
                                \/ PatchAbandon(h) \/ DeleteRow(h)
           \/ \E h \in Handler, n \in NodeId, w \in {"keep", "on", "off"} : PatchRead(h, n, w)
           \/ \E h \in Handler, n \in NodeId : DeleteNode(h, n)
  BY <1>1, <1>2, HandlerWires DEF CatalogInv
<1>3. CASE (\E h \in Handler : PatchCut(h) \/ DeleteCut(h)) \/ \E c \in Socket : HelloRejected(c)
  BY <1>1, <1>3, CutWires DEF CatalogInv
<1>4. CASE \E c \in Socket : (\E n \in NodeId : Dial(c, n)) \/ DialFails(c) \/ SocketLost(c)
  BY <1>1, <1>4, QuietWires DEF CatalogInv
<1>5. CASE \E c \in Socket : HelloCheck(c) \/ UpdateCheck(c)
  BY <1>1, <1>5, CheckWires DEF CatalogInv
<1>6. CASE \E c \in Socket : HelloStore(c) \/ UpdateStore(c)
  BY <1>1, <1>6, StoreWires DEF CatalogInv
<1>7. CASE \E c \in Socket : HelloUnready(c) \/ LoopEnds(c) \/ UpdateRejected(c)
  BY <1>1, <1>7, LeavingWires DEF CatalogInv
<1>8. CASE \E c \in Socket : HelloReady(c)
  BY <1>1, <1>8, ReadyWires DEF CatalogInv
<1>9. CASE Restart
  <2>1. RowsAreSpent'
    BY <1>9 DEF Restart, CatalogInv, RowsAreSpent
  <2>2. Wired' /\ Serving'
    <3>1. \A n \in NodeId : hub'[n] = NoSocket /\ n \notin listed' /\ snapLock'[n] = Unheld
      BY <1>9 DEF Restart
    <3>2. \A c \in Socket : socket'[c].at = "idle"
      BY <1>9, RegistryAtRest DEF Restart
    <3> QED
      BY <3>1, <3>2 DEF Wired, Serving
  <2> QED
    BY <1>1, <2>1, <2>2 DEF CatalogInv
<1>10. CASE (\E k \in PairCode : CreatePairingCode(k) \/ ExpireCode(k)) \/ UNCHANGED registryVars
  <2>1. UNCHANGED <<socket, hub, snapLock, listed, nodes, spent>>
    BY <1>10 DEF CreatePairingCode, ExpireCode, registryVars
  <2>2. /\ spent \subseteq spent' /\ \A n \in NodeId : nodes'[n] # NoRow => n \in spent'
        /\ \A n \in spent : Exists(n)' => Exists(n) /\ nodes'[n].current = nodes[n].current
    BY <2>1 DEF CatalogInv, RowsAreSpent, Exists
  <2> QED
    BY <1>1, <2>1, <2>2, RowsChange DEF CatalogInv
<1> QED
  BY <1>2, <1>3, <1>4, <1>5, <1>6, <1>7, <1>8, <1>9, <1>10 DEF RegistryNext

(* Whatever handshakes, snapshots, clean-ups, PATCHes and deletions of a   *)
(* node are under way, and however often the process restarts: while       *)
(* nobody holds its snapshot lock, the catalog lists the node exactly when *)
(* its published connection found the row enabled, and an open connection  *)
(* serves a row of the required release (acceptAgentDock, onHello,         *)
(* Disconnect).                                                            *)
THEOREM CatalogFollowsConnections == RegistrySpec => []CatalogMatches
PROOF
<1>1. RegistryInit => CatalogInv
  <2> SUFFICES ASSUME RegistryInit PROVE CatalogInv
    OBVIOUS
  <2>1. RegistryInv
    BY RegistryInitInv
  <2>2. RowsAreSpent
    BY DEF RegistryInit, RowsAreSpent
  <2> QED
    BY <2>1, <2>2, NothingWired DEF RegistryInit, CatalogInv
<1>2. CatalogInv => CatalogMatches
  <2> SUFFICES ASSUME CatalogInv, NEW n \in NodeId, snapLock[n] = Unheld
               PROVE  /\ n \in listed <=> (hub[n] # NoSocket /\ socket[hub[n]].heard)
                      /\ hub[n] # NoSocket => /\ socket[hub[n]].node = n
                                              /\ socket[hub[n]].at \in {"open", "leaving"}
                      /\ hub[n] # NoSocket /\ Exists(n) /\ socket[hub[n]].at = "open" => nodes[n].current
    BY DEF CatalogMatches
  <2>1. /\ hub \in [NodeId -> Socket \cup {NoSocket}] /\ Wired /\ Serving
        /\ \A c \in Socket : HoldsLock(socket[c]) => snapLock[socket[c].node] = c
    BY RegistryValues DEF CatalogInv
  <2> QED
    BY <2>1, RegistryConstants DEF Wired, Serving, HoldsLock, Exists
<1> QED
  BY <1>1, <1>2, CatalogStepInv, PTL DEF RegistrySpec

(* ---- the grants of OAuth clients ---------------------------------------------- *)
Somebody == Client \cup {"nobody"}
CodeN == [at : {"none", "open", "used", "gone"}, client : Somebody, until : Nat]
GrantN == [at : {"none", "live", "revoked", "gone"}, client : Somebody, gen : Nat,
           access : Nat, refresh : Nat]

OAuthTyped ==
  /\ clock \in Nat
  /\ clients \in [Client -> {"new", "registered", "removed"}]
  /\ used \in [Client -> Nat]
  /\ codes \in [Grant -> CodeN]
  /\ grants \in [Grant -> GrantN]
  /\ misused \subseteq Grant

(* A code that has gone, though it would still be valid, took its grant    *)
(* with it.                                                                *)
Granted(g) ==
  /\ codes[g].at = "open" => codes[g].client \in Client
  /\ codes[g].at \in {"none", "open"} => grants[g].at = "none"
  /\ grants[g].at # "none" => grants[g].client = codes[g].client /\ codes[g].client \in Client
  /\ codes[g].at = "gone" => codes[g].until <= clock \/ grants[g].at \in {"none", "gone"}

History(g) ==
  grants[g].at \in {"live", "revoked"} /\ clock < grants[g].refresh =>
    \A n \in Nat : n < grants[g].gen =>
      [grant |-> g, gen |-> n, until |-> grants[g].refresh] \in rotated

InUse(g) ==
  grants[g].at \in {"live", "revoked"} =>
    /\ grants[g].access <= used[grants[g].client] + AccessLife
    /\ grants[g].refresh <= used[grants[g].client] + RefreshLife

Past(c) == used[c] <= clock
MisusedIsOver(g) == g \in misused => grants[g].at \in {"revoked", "gone"}

OAuthInv == /\ OAuthTyped
            /\ \A g \in Grant : Granted(g) /\ History(g) /\ InUse(g) /\ MisusedIsOver(g)
            /\ \A c \in Client : Past(c)

(* A server without clients.                                               *)
LEMMA OAuthInitInv == OAuthInit => OAuthInv
PROOF
  BY DEF OAuthInit, OAuthInv, OAuthTyped, NoCode, NoGrant, CodeN, GrantN, Somebody, Granted,
         History, InUse, Past, MisusedIsOver

(* One grant before and after a registration prunes.                       *)
LEMMA RegisterKeeps == ASSUME OAuthInv, NEW c \in Client, RegisterClient(c) PROVE OAuthInv'
PROOF
<1> USE LifeTimes
<1>1. /\ clock' = clock /\ misused' = misused /\ used' = Touched(c)
      /\ clients' = [d \in Client |-> IF d = c THEN "registered"
                                      ELSE IF d \in Idlers THEN "removed" ELSE clients[d]]
      /\ codes' = [g \in Grant |-> IF codes[g].at # "none"
                                    /\ (codes[g].client \in Idlers \/ codes[g].until <= clock)
                               THEN [codes[g] EXCEPT !.at = "gone"] ELSE codes[g]]
      /\ grants' = [g \in Grant |-> IF grants[g].at # "none" /\ grants[g].client \in Idlers
                                THEN [grants[g] EXCEPT !.at = "gone"] ELSE grants[g]]
      /\ rotated' = {h \in rotated : h.until > clock /\ grants'[h.grant].at # "gone"}
  BY DEF RegisterClient
<1>2. ASSUME NEW g \in Grant
      PROVE  /\ codes'[g] \in CodeN /\ grants'[g] \in GrantN
             /\ Granted(g)' /\ History(g)' /\ InUse(g)' /\ MisusedIsOver(g)'
  <2>1. codes[g] \in CodeN /\ grants[g] \in GrantN /\ clock \in Nat /\ used \in [Client -> Nat]
    BY DEF OAuthInv, OAuthTyped
  <2>2. Granted(g) /\ History(g) /\ InUse(g) /\ MisusedIsOver(g) /\ \A d \in Client : Past(d)
    BY DEF OAuthInv
  <2>3. codes'[g] = IF codes[g].at # "none" /\ (codes[g].client \in Idlers \/ codes[g].until <= clock)
                    THEN [codes[g] EXCEPT !.at = "gone"] ELSE codes[g]
    BY <1>1
  <2>4. grants'[g] = IF grants[g].at # "none" /\ grants[g].client \in Idlers
                     THEN [grants[g] EXCEPT !.at = "gone"] ELSE grants[g]
    BY <1>1
  <2>5. codes'[g] \in CodeN /\ grants'[g] \in GrantN
    BY <2>1, <2>3, <2>4 DEF CodeN, GrantN
  <2>6. Granted(g)'
    BY <1>1, <2>1, <2>2, <2>3, <2>4 DEF Granted, CodeN, GrantN
  <2>7. History(g)'
    <3> SUFFICES ASSUME grants'[g].at \in {"live", "revoked"}, clock < grants'[g].refresh,
                        NEW n \in Nat, n < grants'[g].gen
                 PROVE  [grant |-> g, gen |-> n, until |-> grants'[g].refresh] \in rotated'
      BY <1>1 DEF History
    <3>1. grants'[g] = grants[g]
      BY <2>1, <2>4 DEF GrantN
    <3>2. [grant |-> g, gen |-> n, until |-> grants[g].refresh] \in rotated
      BY <2>2, <3>1 DEF History
    <3> DEFINE h == [grant |-> g, gen |-> n, until |-> grants[g].refresh]
    <3>3. h.until > clock /\ grants'[h.grant].at # "gone"
      BY <2>1, <3>1 DEF GrantN
    <3> QED
      BY <1>1, <3>1, <3>2, <3>3
  <2>8. InUse(g)'
    <3>1. CASE grants'[g].at \in {"live", "revoked"}
      <4>1. grants'[g] = grants[g]
        BY <2>1, <2>4, <3>1 DEF GrantN
      <4>2. grants[g].client \in Client
        BY <2>2, <3>1, <4>1 DEF Granted
      <4>3. used'[grants[g].client] \in Nat /\ used[grants[g].client] <= used'[grants[g].client]
        BY <1>1, <2>1, <2>2, <4>2 DEF Touched, Past
      <4> QED
        BY <2>1, <2>2, <3>1, <4>1, <4>2, <4>3 DEF InUse, GrantN
    <3> QED
      BY <3>1 DEF InUse
  <2>9. MisusedIsOver(g)'
    BY <1>1, <2>1, <2>2, <2>4 DEF MisusedIsOver, GrantN
  <2> QED
    BY <2>5, <2>6, <2>7, <2>8, <2>9
<1>3. OAuthTyped'
  <2>1. codes' \in [Grant -> CodeN] /\ grants' \in [Grant -> GrantN]
    <3>1. codes' = [g \in Grant |-> codes'[g]] /\ grants' = [g \in Grant |-> grants'[g]]
      BY <1>1
    <3> QED
      BY <1>2, <3>1
  <2> QED
    BY <1>1, <2>1 DEF OAuthInv, OAuthTyped, Touched
<1>4. \A d \in Client : Past(d)'
  BY <1>1 DEF OAuthInv, OAuthTyped, Past, Touched
<1> QED
  BY <1>2, <1>3, <1>4 DEF OAuthInv

(* Every step keeps the invariant.                                         *)
LEMMA OAuthStepInv == OAuthInv /\ [OAuthNext]_oauthVars => OAuthInv'
PROOF
<1> SUFFICES ASSUME OAuthInv, [OAuthNext]_oauthVars PROVE OAuthInv'
  OBVIOUS
<1> USE LifeTimes
<1> USE DEF OAuthInv, OAuthTyped, Granted, History, InUse, Past, MisusedIsOver
<1>1. CASE Passes
  BY <1>1 DEF Passes, GrantN, CodeN
<1>2. CASE RevokeUserGrants
  BY <1>2 DEF RevokeUserGrants, GrantN
<1>3. ASSUME NEW g \in Grant, NEW c \in Client, IssueAuthorizationCode(g, c) PROVE OAuthInv'
  BY <1>3 DEF IssueAuthorizationCode, CodeN, Somebody, Registered
<1>4. ASSUME NEW g \in Grant, ExchangeAuthorizationCode(g) PROVE OAuthInv'
  BY <1>4 DEF ExchangeAuthorizationCode, CodeN, GrantN, Somebody, Touched
<1>5. ASSUME NEW g \in Grant, ReplayCode(g) PROVE OAuthInv'
  BY <1>5 DEF ReplayCode, CodeKnown, Revoked, CodeN, GrantN
<1>6. ASSUME NEW g \in Grant, Refresh(g) PROVE OAuthInv'
  <2> DEFINE h == [grant |-> g, gen |-> grants[g].gen, until |-> grants[g].refresh]
             new == [grants[g] EXCEPT !.gen = @ + 1, !.access = clock + AccessLife]
             client == grants[g].client
  <2>1. /\ grants[g].at = "live" /\ clock < grants[g].refresh /\ rotated' = rotated \cup {h}
        /\ grants' = [grants EXCEPT ![g] = new] /\ used' = [used EXCEPT ![client] = clock]
        /\ UNCHANGED <<clock, clients, codes, misused>>
    BY <1>6 DEF Refresh, Touched
  <2>2. /\ grants[g] \in GrantN /\ client \in Client /\ used[client] \in Nat /\ used[client] <= clock
        /\ grants[g].gen \in Nat /\ grants[g].refresh \in Nat /\ clock \in Nat /\ AccessLife \in Nat
    BY <2>1 DEF GrantN
  <2>3. /\ new \in GrantN /\ new.at = "live" /\ new.client = client /\ new.gen = grants[g].gen + 1
        /\ new.access = clock + AccessLife /\ new.refresh = grants[g].refresh
    <3> HIDE DEF OAuthInv, OAuthTyped, Granted, History, InUse, Past, MisusedIsOver
    <3>1. clock + AccessLife \in Nat /\ grants[g].gen + 1 \in Nat
      BY <2>2
    <3> QED
      BY <2>1, <2>2, <3>1 DEF GrantN
  <2> HIDE DEF new, client
  <2>4. \A x \in Grant : grants'[x] = IF x = g THEN new ELSE grants[x]
    BY <2>1
  <2>5. \A c \in Client : used'[c] \in Nat /\ used[c] <= used'[c] /\ used'[c] <= clock
    BY <2>1, <2>2
  <2>6. used'[client] = clock
    BY <2>1, <2>2
  <2>7. OAuthTyped'
    BY <2>1, <2>2, <2>3
  <2>8. ASSUME NEW x \in Grant PROVE Granted(x)' /\ MisusedIsOver(x)'
    <3>1. CASE x # g
      BY <2>1, <2>4, <3>1
    <3>2. CASE x = g
      <4>1. codes'[g] = codes[g] /\ grants'[g].at = "live" /\ grants'[g].client = client
        BY <2>1, <2>3, <2>4
      <4>2. codes[g].client = client /\ codes[g].at \notin {"none", "open"}
        BY <2>1 DEF client
      <4> QED
        BY <2>1, <2>2, <3>2, <4>1, <4>2 DEF client
    <3> QED
      BY <3>1, <3>2
  <2>9. ASSUME NEW x \in Grant PROVE History(x)'
    <3>1. CASE x # g
      BY <2>1, <2>4, <3>1
    <3>2. CASE x = g
      <4> SUFFICES ASSUME NEW n \in Nat, n < new.gen
                   PROVE  [grant |-> g, gen |-> n, until |-> grants[g].refresh] \in rotated'
        BY <2>1, <2>3, <2>4, <3>2
      <4>1. CASE n = grants[g].gen
        BY <2>1, <4>1
      <4>2. CASE n # grants[g].gen
        <5>1. n < grants[g].gen
          BY <2>2, <2>3, <4>2
        <5> QED
          BY <2>1, <5>1
      <4> QED
        BY <4>1, <4>2
    <3> QED
      BY <3>1, <3>2
  <2>10. ASSUME NEW x \in Grant PROVE InUse(x)'
    <3>1. CASE x # g
      BY <2>4, <2>5, <3>1 DEF GrantN
    <3>2. CASE x = g
      <4>1. grants[g].refresh <= used[client] + RefreshLife
        BY <2>1 DEF client
      <4>2. new.refresh <= used'[client] + RefreshLife
        BY <2>2, <2>3, <2>6, <4>1
      <4> QED
        BY <2>3, <2>4, <2>6, <3>2, <4>2
    <3> QED
      BY <3>1, <3>2
  <2> QED
    BY <2>1, <2>5, <2>7, <2>8, <2>9, <2>10
<1>7. ASSUME NEW g \in Grant, NEW n \in 0..MaxRotations, ReplayRefresh(g, n) PROVE OAuthInv'
  <2>1. /\ grants[g].at \in {"live", "revoked"} /\ clock < grants[g].refresh /\ n < grants[g].gen
        /\ n \in Nat /\ misused' = misused \cup {g} /\ UNCHANGED <<clock, clients, used, codes, rotated>>
    BY <1>7 DEF ReplayRefresh
  <2> DEFINE h == [grant |-> g, gen |-> n, until |-> grants[g].refresh]
  <2>2. h \in rotated /\ h.grant = g /\ h.gen = n /\ h.until > clock
    BY <2>1 DEF GrantN
  <2>3. Remembered(g, n)
    BY <2>2 DEF Remembered
  <2>4. grants' = [grants EXCEPT ![g] = [grants[g] EXCEPT !.at = "revoked"]]
    BY <1>7, <2>3 DEF ReplayRefresh, Revoked
  <2> QED
    BY <2>1, <2>4 DEF GrantN
<1>8. CASE UNCHANGED oauthVars
  BY <1>8 DEF oauthVars
<1> QED
  BY <1>1, <1>2, <1>3, <1>4, <1>5, <1>6, <1>7, <1>8, RegisterKeeps DEF OAuthNext

(* A code or a refresh token that is presented a second time ends its      *)
(* grant for good (auth/oauth.go, ExchangeAuthorizationCode, Refresh).     *)
THEOREM MisuseIsFinal == OAuthSpec => []MisuseEndsGrant
PROOF
<1>1. OAuthInv => MisuseEndsGrant
  BY DEF OAuthInv, MisusedIsOver, MisuseEndsGrant, OAuthTyped
<1> QED
  BY <1>1, OAuthInitInv, OAuthStepInv, PTL DEF OAuthSpec

(* A registration prunes no grant whose access or refresh token could      *)
(* still be used, and nothing else removes one (auth/oauth.go,             *)
(* RegisterClient).                                                        *)
THEOREM PruningTakesNothingInUse == OAuthSpec => PruningSparesLive
PROOF
<1>1. ASSUME OAuthInv, NEW c \in Client, RegisterClient(c), NEW g \in Grant, Usable(g)
      PROVE  grants'[g].at # "gone"
  <2>1. /\ grants[g] \in GrantN /\ clock \in Nat /\ used \in [Client -> Nat]
        /\ grants[g].at = "live" /\ Granted(g) /\ InUse(g)
    BY <1>1 DEF OAuthInv, OAuthTyped, Usable
  <2>2. grants[g].client \in Client /\ used[grants[g].client] \in Nat
    BY <2>1 DEF Granted
  <2>3. used[grants[g].client] + ClientIdle >= clock
    BY <1>1, <2>1, <2>2, LifeTimes DEF Usable, InUse, GrantN
  <2>4. grants[g].client \notin Idlers
    BY <2>1, <2>2, <2>3, LifeTimes DEF Idlers
  <2> QED
    BY <1>1, <2>1, <2>4 DEF RegisterClient
<1>2. ASSUME OAuthInv, [OAuthNext]_oauthVars, NEW g \in Grant, Usable(g)
      PROVE  grants'[g].at # "gone"
  <2>1. CASE \E c \in Client : RegisterClient(c)
    BY <1>1, <1>2, <2>1
  <2>2. CASE ~\E c \in Client : RegisterClient(c)
    <3>1. grants[g] \in GrantN /\ grants[g].at = "live" /\ grants \in [Grant -> GrantN]
      BY <1>2 DEF OAuthInv, OAuthTyped, Usable
    <3>2. CASE Passes \/ UNCHANGED oauthVars \/ \E x \in Grant, c \in Client : IssueAuthorizationCode(x, c)
      BY <3>1, <3>2 DEF Passes, oauthVars, IssueAuthorizationCode
    <3>3. CASE RevokeUserGrants
      BY <3>1, <3>3 DEF RevokeUserGrants, GrantN
    <3>4. ASSUME NEW x \in Grant, ExchangeAuthorizationCode(x) PROVE grants'[g].at # "gone"
      BY <3>1, <3>4 DEF ExchangeAuthorizationCode
    <3>5. ASSUME NEW x \in Grant, ReplayCode(x) PROVE grants'[g].at # "gone"
      BY <3>1, <3>5 DEF ReplayCode, Revoked, GrantN
    <3>6. ASSUME NEW x \in Grant, Refresh(x) PROVE grants'[g].at # "gone"
      BY <3>1, <3>6 DEF Refresh, GrantN
    <3>7. ASSUME NEW x \in Grant, NEW n \in 0..MaxRotations, ReplayRefresh(x, n)
          PROVE  grants'[g].at # "gone"
      BY <3>1, <3>7 DEF ReplayRefresh, Revoked, GrantN
    <3> QED
      BY <1>2, <2>2, <3>2, <3>3, <3>4, <3>5, <3>6, <3>7 DEF OAuthNext
  <2> QED
    BY <2>1, <2>2
<1>3. OAuthInv /\ [OAuthNext]_oauthVars
        => [\A g \in Grant : Usable(g) => grants'[g].at # "gone"]_oauthVars
  BY <1>2
<1> QED
  BY <1>3, OAuthInitInv, OAuthStepInv, PTL DEF OAuthSpec, PruningSparesLive

(* What the types say beyond that: the clients that are registered are no  *)
(* more than the limit, what is not over belongs to one of them, and the   *)
(* history is that of such grants.                                         *)
OAuthTables ==
  /\ clock <= MaxTime /\ \A c \in Client : used[c] <= MaxTime
  /\ IsFiniteSet(Registered) /\ Cardinality(Registered) <= ClientLimit
  /\ \A g \in Grant : /\ codes[g].at = "open" => codes[g].client \in Registered
                      /\ grants[g].at \in {"live", "revoked"} => grants[g].client \in Registered
                      /\ grants[g].gen <= MaxRotations
  /\ \A h \in rotated : /\ h.grant \in Grant /\ h.gen \in Nat
                        /\ grants[h.grant].at \in {"live", "revoked"} /\ h.gen < grants[h.grant].gen

(* A registration removes idle clients with all that is theirs, and adds   *)
(* one where there is room.                                                *)
LEMMA RegistrationKeepsTables ==
  ASSUME OAuthInv, OAuthTables, NEW c \in Client, RegisterClient(c)
  PROVE  OAuthTables'
PROOF
<1>1. /\ clock' = clock /\ used' = Touched(c)
      /\ clients' = [d \in Client |-> IF d = c THEN "registered"
                                      ELSE IF d \in Idlers THEN "removed" ELSE clients[d]]
      /\ codes' = [g \in Grant |-> IF codes[g].at # "none"
                                    /\ (codes[g].client \in Idlers \/ codes[g].until <= clock)
                               THEN [codes[g] EXCEPT !.at = "gone"] ELSE codes[g]]
      /\ grants' = [g \in Grant |-> IF grants[g].at # "none" /\ grants[g].client \in Idlers
                                THEN [grants[g] EXCEPT !.at = "gone"] ELSE grants[g]]
      /\ rotated' = {h \in rotated : h.until > clock /\ grants'[h.grant].at # "gone"}
      /\ clients[c] = "new" /\ Cardinality(Registered \ Idlers) < ClientLimit
  BY DEF RegisterClient
<1>2. /\ clock \in Nat /\ used \in [Client -> Nat] /\ \A g \in Grant : codes[g] \in CodeN /\ grants[g] \in GrantN
  BY DEF OAuthInv, OAuthTyped
<1>3. Registered' = (Registered \ Idlers) \cup {c}
  BY <1>1 DEF Registered, Idlers
<1>4. c \notin Registered
  BY <1>1 DEF Registered
<1>5. IsFiniteSet(Registered') /\ Cardinality(Registered') <= ClientLimit
  <2> DEFINE R == Registered  K == R \ Idlers
  <2>1. IsFiniteSet(R)
    BY DEF OAuthTables
  <2>2. K \in SUBSET R
    OBVIOUS
  <2>3. IsFiniteSet(K) /\ Cardinality(K) \in Nat
    <3> HIDE DEF K, R
    <3> QED
      BY <2>1, <2>2, FS_Subset, FS_CardinalityType
  <2>4. c \notin K /\ Registered' = K \cup {c} /\ Cardinality(K) < ClientLimit
    BY <1>1, <1>3, <1>4
  <2> HIDE DEF K, R
  <2>5. IsFiniteSet(K \cup {c}) /\ Cardinality(K \cup {c}) = Cardinality(K) + 1
    BY <2>3, <2>4, FS_AddElement
  <2> QED
    BY <2>3, <2>4, <2>5, LifeTimes
<1>6. clock' <= MaxTime /\ \A d \in Client : used'[d] <= MaxTime
  BY <1>1, <1>2 DEF OAuthTables, Touched
<1>7. ASSUME NEW g \in Grant
      PROVE  /\ codes'[g].at = "open" => codes'[g].client \in Registered'
             /\ grants'[g].at \in {"live", "revoked"} => grants'[g].client \in Registered'
             /\ grants'[g].gen <= MaxRotations
  <2>1. codes'[g] = IF codes[g].at # "none" /\ (codes[g].client \in Idlers \/ codes[g].until <= clock)
                    THEN [codes[g] EXCEPT !.at = "gone"] ELSE codes[g]
    BY <1>1
  <2>2. grants'[g] = IF grants[g].at # "none" /\ grants[g].client \in Idlers
                     THEN [grants[g] EXCEPT !.at = "gone"] ELSE grants[g]
    BY <1>1
  <2>3. codes[g] \in CodeN /\ grants[g] \in GrantN
    BY <1>2
  <2>4. ASSUME codes'[g].at = "open" PROVE codes'[g].client \in Registered'
    BY <1>3, <2>1, <2>3, <2>4 DEF CodeN, OAuthTables
  <2>5. ASSUME grants'[g].at \in {"live", "revoked"} PROVE grants'[g].client \in Registered'
    BY <1>3, <2>2, <2>3, <2>5 DEF GrantN, OAuthTables
  <2>6. grants'[g].gen = grants[g].gen
    BY <2>2, <2>3 DEF GrantN
  <2> QED
    BY <2>4, <2>5, <2>6 DEF OAuthTables
<1>8. ASSUME NEW h \in rotated'
      PROVE  /\ h.grant \in Grant /\ h.gen \in Nat
             /\ grants'[h.grant].at \in {"live", "revoked"} /\ h.gen < grants'[h.grant].gen
  <2>1. h \in rotated /\ grants'[h.grant].at # "gone"
    BY <1>1
  <2>2. /\ h.grant \in Grant /\ h.gen \in Nat
        /\ grants[h.grant].at \in {"live", "revoked"} /\ h.gen < grants[h.grant].gen
    BY <2>1 DEF OAuthTables
  <2>3. grants[h.grant] \in GrantN
    BY <1>2, <2>2
  <2>4. grants'[h.grant] = grants[h.grant]
    BY <1>1, <2>1, <2>2, <2>3 DEF GrantN
  <2> QED
    BY <2>2, <2>4
<1> QED
  BY <1>5, <1>6, <1>7, <1>8 DEF OAuthTables

(* No step leaves a code or a grant of a client that is gone, or a         *)
(* generation in the history that its grant has not passed.                *)
LEMMA TablesKept ==
  ASSUME OAuthInv, OAuthTables, [OAuthNext]_oauthVars
  PROVE  OAuthTables'
PROOF
<1>1. /\ clock \in Nat /\ used \in [Client -> Nat]
      /\ codes \in [Grant -> CodeN] /\ grants \in [Grant -> GrantN]
      /\ \A g \in Grant : codes[g] \in CodeN /\ grants[g] \in GrantN /\ Granted(g)
      /\ MaxTime \in Nat /\ MaxRotations \in Nat
  BY LifeTimes DEF OAuthInv, OAuthTyped
<1>2. CASE Passes
  <2>1. Registered' = Registered
    BY <1>2 DEF Passes, Registered
  <2>2. clock' <= MaxTime
    BY <1>1, <1>2 DEF Passes
  <2> QED
    BY <1>2, <2>1, <2>2 DEF Passes, OAuthTables
<1>3. CASE RevokeUserGrants
  <2>1. Registered' = Registered
    BY <1>3 DEF RevokeUserGrants, Registered
  <2>2. \A g \in Grant : /\ grants'[g].at \in {"live", "revoked"} <=> grants[g].at \in {"live", "revoked"}
                         /\ grants'[g].client = grants[g].client /\ grants'[g].gen = grants[g].gen
    BY <1>1, <1>3 DEF RevokeUserGrants, GrantN
  <2> QED
    BY <1>3, <2>1, <2>2 DEF RevokeUserGrants, OAuthTables
<1>4. ASSUME NEW c \in Client, RegisterClient(c) PROVE OAuthTables'
  BY <1>4, RegistrationKeepsTables
<1>5. ASSUME NEW c \in Client, NEW g \in Grant, IssueAuthorizationCode(g, c) PROVE OAuthTables'
  <2>1. Registered' = Registered
    BY <1>5 DEF IssueAuthorizationCode, Registered
  <2>2. \A f \in Grant : codes'[f].at = "open" => codes'[f].client \in Registered
    BY <1>1, <1>5 DEF IssueAuthorizationCode, OAuthTables
  <2> QED
    BY <1>5, <2>1, <2>2 DEF IssueAuthorizationCode, OAuthTables
<1>6. ASSUME NEW g \in Grant, ExchangeAuthorizationCode(g) PROVE OAuthTables'
  <2>1. Registered' = Registered
    BY <1>6 DEF ExchangeAuthorizationCode, Registered
  <2>2. codes[g].client \in Registered /\ grants[g].at = "none"
    BY <1>1, <1>6 DEF ExchangeAuthorizationCode, OAuthTables, Granted
  <2>3. \A f \in Grant : codes'[f].at = "open" => codes'[f].client \in Registered
    BY <1>1, <1>6 DEF ExchangeAuthorizationCode, OAuthTables
  <2>4. /\ grants'[g].client \in Registered /\ grants'[g].gen = 0
        /\ \A f \in Grant : f # g => grants'[f] = grants[f]
    BY <1>1, <1>6, <2>2 DEF ExchangeAuthorizationCode
  <2>5. \A d \in Client : used'[d] <= MaxTime
    BY <1>1, <1>6 DEF ExchangeAuthorizationCode, OAuthTables, Touched
  <2>6. \A h \in rotated : h.grant # g
    BY <2>2 DEF OAuthTables
  <2> QED
    BY <1>1, <1>6, <2>1, <2>3, <2>4, <2>5, <2>6 DEF ExchangeAuthorizationCode, OAuthTables
<1>7. ASSUME NEW g \in Grant, ReplayCode(g) \/ \E n \in 0..MaxRotations : ReplayRefresh(g, n)
      PROVE  OAuthTables'
  <2>1. /\ UNCHANGED <<clock, clients, used, codes, rotated>> /\ (grants' = grants \/ grants' = Revoked(g))
        /\ grants[g].at \in {"live", "revoked"}
    BY <1>7 DEF ReplayCode, ReplayRefresh
  <2>2. Registered' = Registered
    BY <2>1 DEF Registered
  <2>3. \A f \in Grant : /\ grants'[f].at \in {"live", "revoked"} <=> grants[f].at \in {"live", "revoked"}
                         /\ grants'[f].client = grants[f].client /\ grants'[f].gen = grants[f].gen
    BY <1>1, <2>1 DEF Revoked, GrantN
  <2> QED
    BY <2>1, <2>2, <2>3 DEF OAuthTables
<1>8. ASSUME NEW g \in Grant, Refresh(g) PROVE OAuthTables'
  <2>1. Registered' = Registered
    BY <1>8 DEF Refresh, Registered
  <2>2. /\ grants[g].at = "live" /\ grants[g].gen < MaxRotations /\ grants[g].gen \in Nat
        /\ grants'[g].at = grants[g].at /\ grants'[g].client = grants[g].client
        /\ grants'[g].gen = grants[g].gen + 1
        /\ \A f \in Grant : f # g => grants'[f] = grants[f]
    BY <1>1, <1>8 DEF Refresh, GrantN
  <2>3. \A d \in Client : used'[d] <= MaxTime
    BY <1>1, <1>8 DEF Refresh, OAuthTables, Touched
  <2>4. ASSUME NEW h \in rotated'
        PROVE  /\ h.grant \in Grant /\ h.gen \in Nat
               /\ grants'[h.grant].at \in {"live", "revoked"} /\ h.gen < grants'[h.grant].gen
    <3>1. CASE h \in rotated
      BY <1>1, <2>2, <3>1 DEF OAuthTables
    <3>2. CASE h = [grant |-> g, gen |-> grants[g].gen, until |-> grants[g].refresh]
      BY <2>2, <3>2
    <3> QED
      BY <1>8, <3>1, <3>2 DEF Refresh
  <2>5. \A f \in Grant : grants'[f].gen <= MaxRotations
    BY <1>1, <2>2 DEF OAuthTables
  <2>6. \A f \in Grant : grants'[f].at \in {"live", "revoked"} => grants'[f].client \in Registered
    BY <1>1, <2>2 DEF OAuthTables
  <2>7. UNCHANGED <<clock, codes>>
    BY <1>8 DEF Refresh
  <2> QED
    BY <2>1, <2>3, <2>4, <2>5, <2>6, <2>7 DEF OAuthTables
<1>9. CASE UNCHANGED oauthVars
  BY <1>9 DEF oauthVars, OAuthTables, Registered
<1> QED
  BY <1>2, <1>3, <1>4, <1>5, <1>6, <1>7, <1>8, <1>9 DEF OAuthNext

(* At first every table is empty.                                          *)
LEMMA TablesAtFirst == OAuthInit => OAuthTables
PROOF
<1> SUFFICES ASSUME OAuthInit PROVE OAuthTables
  OBVIOUS
<1>1. Registered = {}
  BY DEF OAuthInit, Registered
<1>2. IsFiniteSet(Registered) /\ Cardinality(Registered) = 0
  BY <1>1, FS_EmptySet
<1> QED
  BY <1>2, LifeTimes DEF OAuthInit, OAuthTables, NoCode, NoGrant

(* The tables of the grants keep their types and their limits              *)
(* (auth/oauth.go).                                                        *)
LEMMA OAuthTypesHold == OAuthSpec => []OAuthTypeOK
PROOF
<1>1. OAuthInv /\ OAuthTables => OAuthTypeOK
  BY LifeTimes DEF OAuthInv, OAuthTyped, OAuthTables, OAuthTypeOK, CodeN, GrantN, Somebody
<1>2. OAuthSpec => []OAuthInv
  BY OAuthInitInv, OAuthStepInv, PTL DEF OAuthSpec
<1> QED
  BY <1>1, <1>2, TablesAtFirst, TablesKept, PTL DEF OAuthSpec

(* ---- web sessions --------------------------------------------------------- *)

SessionN == [at : {"none", "live", "revoked"}, seen : Nat, idle : Nat, absolute : Nat]
VisitN == [at : {"free", "initialize", "login", "authenticate", "expire", "refresh", "replace"},
           session : Session \cup {"none"}, copy : SessionN, now : Nat, late : BOOLEAN]

(* The expiries of a row are in order.                                     *)
InOrder(row) == row.seen <= row.idle /\ row.idle <= row.absolute

(* A row is created once, keeps its absolute expiry, and stays revoked.    *)
GoesOn(row, next) ==
  /\ row.at # "none" => next.at # "none" /\ next.absolute = row.absolute
  /\ row.at = "revoked" => next.at = "revoked"

(* What a request that authenticates knows of its session's row.           *)
KnowsRow(r, row) ==
  /\ row.at # "none" /\ r.copy.at # "none" /\ r.copy.absolute = row.absolute
  /\ r.copy.at = "revoked" => row.at = "revoked"
  /\ r.late => r.copy.at = "revoked"
  /\ r.at \in {"expire", "refresh"} => r.copy.at = "live"
  /\ r.at = "refresh" => r.now < r.copy.absolute
VisitIsSo(r, rows) ==
  r.at \in {"authenticate", "expire", "refresh"} => r.session \in Session /\ KnowsRow(r, rows[r.session])

WebTyped ==
  /\ hour \in 0..LastHour /\ admins \in 0..1 /\ password \in Nat
  /\ sessions \in [Session -> SessionN] /\ visit \in [Visit -> VisitN]
  /\ over \subseteq Session

WebInv ==
  /\ WebTyped /\ revived = {}
  /\ \A s \in Session : InOrder(sessions[s]) /\ (s \in over => sessions[s].at = "revoked")
  /\ \A v \in Visit : VisitIsSo(visit[v], sessions)

(* A step in which rows go on, and a request that moved knows its row.     *)
LEMMA WebGoesOn ==
  ASSUME WebInv, WebTyped', revived' = {},
         \A s \in Session : /\ GoesOn(sessions[s], sessions'[s]) /\ InOrder(sessions'[s])
                            /\ s \in over' => sessions'[s].at = "revoked",
         \A v \in Visit : visit'[v] = visit[v] \/ VisitIsSo(visit'[v], sessions')
  PROVE  WebInv'
PROOF
<1>1. ASSUME NEW v \in Visit PROVE VisitIsSo(visit'[v], sessions')
  <2>1. CASE visit'[v] = visit[v]
    <3>1. VisitIsSo(visit[v], sessions)
      BY DEF WebInv
    <3> QED
      BY <2>1, <3>1 DEF VisitIsSo, KnowsRow, GoesOn
  <2> QED
    BY <2>1
<1> QED
  BY <1>1 DEF WebInv

LEMMA WebAtRest ==
  /\ NoSession \in SessionN /\ NoSession.at = "none" /\ InOrder(NoSession)
  /\ Free \in VisitN /\ Free.at = "free"
  /\ \A at \in {"initialize", "login", "replace"} :
       [Free EXCEPT !.at = at] \in VisitN /\ [Free EXCEPT !.at = at].at = at
PROOF
<1>1. NoSession \in SessionN /\ NoSession.at = "none" /\ InOrder(NoSession)
  BY DEF NoSession, SessionN, InOrder
<1>2. Free \in VisitN /\ Free.at = "free"
  BY <1>1 DEF Free, VisitN
<1>3. ASSUME NEW at \in {"initialize", "login", "replace"}
      PROVE  [Free EXCEPT !.at = at] \in VisitN /\ [Free EXCEPT !.at = at].at = at
  BY <1>2 DEF VisitN
<1> QED
  BY <1>1, <1>2, <1>3

(* A request goes on, and nothing else changes but who has ended.          *)
LEMMA VisitMoves ==
  ASSUME WebInv, NEW v \in Visit, NEW r \in VisitN, visit' = [visit EXCEPT ![v] = r],
         VisitIsSo(r, sessions), UNCHANGED <<hour, sessions, revived>>,
         admins' \in 0..1, password' \in Nat,
         over' \subseteq Session, \A s \in Session : s \in over' => sessions[s].at = "revoked"
  PROVE  WebInv'
PROOF
<1>1. WebTyped'
  BY DEF WebInv, WebTyped
<1>2. \A s \in Session : GoesOn(sessions[s], sessions'[s]) /\ InOrder(sessions'[s])
  BY DEF WebInv, GoesOn
<1>3. \A u \in Visit : visit'[u] = visit[u] \/ VisitIsSo(visit'[u], sessions')
  BY DEF WebInv, WebTyped
<1> QED
  BY <1>1, <1>2, <1>3, WebGoesOn DEF WebInv

(* One row changes, and the request that changed it is over.               *)
LEMMA RowMoves ==
  ASSUME WebInv, NEW v \in Visit, NEW s \in Session, NEW row \in SessionN,
         visit' = [visit EXCEPT ![v] = Free] \/ visit' = visit,
         sessions' = [sessions EXCEPT ![s] = row],
         GoesOn(sessions[s], row), InOrder(row), UNCHANGED <<hour, admins, password, revived>>,
         over' = over \/ (over' = over \cup {s} /\ row.at = "revoked")
  PROVE  WebInv'
PROOF
<1>1. WebTyped'
  BY WebAtRest DEF WebInv, WebTyped
<1>2. ASSUME NEW x \in Session
      PROVE  /\ GoesOn(sessions[x], sessions'[x]) /\ InOrder(sessions'[x])
             /\ x \in over' => sessions'[x].at = "revoked"
  <2>1. CASE x = s
    BY <2>1 DEF WebInv, WebTyped, GoesOn
  <2>2. CASE x # s
    BY <2>2 DEF WebInv, WebTyped, GoesOn
  <2> QED
    BY <2>1, <2>2
<1>3. \A u \in Visit : visit'[u] = visit[u] \/ VisitIsSo(visit'[u], sessions')
  BY WebAtRest DEF WebInv, WebTyped, VisitIsSo
<1> QED
  BY <1>1, <1>2, <1>3, WebGoesOn DEF WebInv

(* What a request that authenticates goes on as.                           *)
LEMMA JudgeStep == ASSUME WebInv, NEW v \in Visit, Judge(v) PROVE WebInv'
PROOF
<1> DEFINE c == visit[v].copy
<1>1. /\ visit[v] \in VisitN /\ VisitIsSo(visit[v], sessions) /\ visit[v].at = "authenticate"
      /\ UNCHANGED <<hour, admins, password, sessions>> /\ revived = {} /\ hour \in Nat
      /\ admins \in 0..1 /\ password \in Nat /\ over \subseteq Session
      /\ \A s \in Session : s \in over => sessions[s].at = "revoked"
  BY DEF Judge, At, WebInv, WebTyped
<1>2. visit[v].session \in Session /\ KnowsRow(visit[v], sessions[visit[v].session])
  BY <1>1 DEF VisitIsSo
<1>3. CASE c.at = "revoked" /\ Set(v, Free) /\ over' = over \cup {visit[v].session} /\ UNCHANGED revived
  BY <1>1, <1>2, <1>3, WebAtRest, VisitMoves DEF Set, KnowsRow, VisitIsSo
<1>4. CASE c.at = "live" /\ Expired(c) /\ Set(v, [visit[v] EXCEPT !.at = "expire"])
            /\ UNCHANGED <<over, revived>>
  <2> DEFINE r == [visit[v] EXCEPT !.at = "expire"]
  <2>1. r \in VisitN /\ r.at = "expire" /\ r.session = visit[v].session /\ r.copy = c /\ r.late = visit[v].late
    BY <1>1 DEF VisitN
  <2>2. VisitIsSo(r, sessions)
    BY <1>2, <1>4, <2>1 DEF KnowsRow, VisitIsSo
  <2> HIDE DEF r
  <2>3. visit' = [visit EXCEPT ![v] = r]
    BY <1>4 DEF Set, r
  <2> QED
    BY <1>1, <1>4, <2>1, <2>2, <2>3, VisitMoves
<1>5. CASE c.at = "live" /\ ~Expired(c) /\ Set(v, [visit[v] EXCEPT !.at = "refresh", !.now = hour])
            /\ UNCHANGED <<over, revived>>
  <2> DEFINE r == [visit[v] EXCEPT !.at = "refresh", !.now = hour]
  <2>1. /\ r \in VisitN /\ r.at = "refresh" /\ r.session = visit[v].session /\ r.copy = c
        /\ r.late = visit[v].late /\ r.now = hour
    BY <1>1 DEF VisitN
  <2>2. hour < c.absolute
    BY <1>1, <1>5 DEF Expired, VisitN, SessionN
  <2>3. VisitIsSo(r, sessions)
    BY <1>2, <1>5, <2>1, <2>2 DEF KnowsRow, VisitIsSo
  <2> HIDE DEF r
  <2>4. visit' = [visit EXCEPT ![v] = r]
    BY <1>5 DEF Set, r
  <2> QED
    BY <1>1, <1>5, <2>1, <2>3, <2>4, VisitMoves
<1>6. CASE c.at = "live" /\ Set(v, Free) /\ UNCHANGED over /\ Answered(v)
  <2>1. ~visit[v].late
    BY <1>2, <1>6 DEF KnowsRow
  <2>2. revived' = revived
    BY <1>6, <2>1 DEF Answered
  <2> QED
    BY <1>1, <1>6, <2>2, WebAtRest, VisitMoves DEF Set, VisitIsSo
<1> QED
  BY <1>3, <1>4, <1>5, <1>6 DEF Judge

(* The steps of a request that write one row.                              *)
LEMMA RowStep ==
  ASSUME WebInv, NEW v \in Visit,
         Expire(v) \/ RefreshSession(v) \/ \E s \in Session : CreateSession(v, s)
  PROVE  WebInv'
PROOF
<1>1. /\ hour \in Nat /\ sessions \in [Session -> SessionN] /\ visit[v] \in VisitN
      /\ VisitIsSo(visit[v], sessions) /\ \A s \in Session : InOrder(sessions[s])
  BY DEF WebInv, WebTyped
<1>2. ASSUME NEW s \in Session, CreateSession(v, s) PROVE WebInv'
  <2> DEFINE row == [at |-> "live", seen |-> hour, idle |-> hour + IdleWindow,
                     absolute |-> hour + AbsoluteWindow]
  <2>1. row \in SessionN /\ InOrder(row) /\ GoesOn(sessions[s], row)
    BY <1>1, <1>2, Windows DEF SessionN, InOrder, GoesOn, CreateSession, Unborn
  <2>2. /\ sessions' = [sessions EXCEPT ![s] = row] /\ visit' = [visit EXCEPT ![v] = Free]
        /\ UNCHANGED <<hour, admins, password, over, revived>>
    BY <1>2 DEF CreateSession, Set
  <2> HIDE DEF row
  <2> QED
    BY <2>1, <2>2, RowMoves
<1>3. CASE Expire(v)
  <2> DEFINE s == visit[v].session
             row == Ended(sessions[s])
  <2>1. s \in Session /\ KnowsRow(visit[v], sessions[s]) /\ sessions[s] \in SessionN
    BY <1>1, <1>3 DEF Expire, At, VisitIsSo
  <2>2. /\ row \in SessionN /\ row.at = "revoked" /\ InOrder(row) /\ GoesOn(sessions[s], row)
    BY <1>1, <2>1 DEF SessionN, InOrder, GoesOn, Ended, RevokedRow, KnowsRow
  <2>3. /\ sessions' = [sessions EXCEPT ![s] = row] /\ visit' = [visit EXCEPT ![v] = Free]
        /\ over' = over \cup {s} /\ UNCHANGED <<hour, admins, password, revived>>
    BY <1>3 DEF Expire, Set
  <2> HIDE DEF row, s
  <2> QED
    BY <2>1, <2>2, <2>3, RowMoves
<1>4. CASE RefreshSession(v)
  <2> DEFINE s == visit[v].session
             row == Extended(sessions[s], visit[v].now)
  <2>1. /\ s \in Session /\ KnowsRow(visit[v], sessions[s]) /\ sessions[s] \in SessionN
        /\ visit[v].now \in Nat /\ visit[v].now < sessions[s].absolute /\ ~visit[v].late
    BY <1>1, <1>4 DEF RefreshSession, At, VisitIsSo, KnowsRow, VisitN
  <2>2. /\ row \in SessionN /\ InOrder(row) /\ GoesOn(sessions[s], row)
    <3>1. CASE sessions[s].at = "live"
      <4> DEFINE idle == IF visit[v].now + IdleWindow < sessions[s].absolute
                         THEN visit[v].now + IdleWindow ELSE sessions[s].absolute
      <4>1. idle \in Nat /\ visit[v].now <= idle /\ idle <= sessions[s].absolute
        BY <2>1, Windows DEF SessionN
      <4>2. row = [sessions[s] EXCEPT !.seen = visit[v].now, !.idle = idle]
        BY <3>1 DEF Extended
      <4> HIDE DEF idle, row
      <4>3. /\ row \in SessionN /\ row.at = "live" /\ row.seen = visit[v].now /\ row.idle = idle
            /\ row.absolute = sessions[s].absolute
        BY <2>1, <3>1, <4>1, <4>2 DEF SessionN
      <4> QED
        BY <3>1, <4>1, <4>3 DEF InOrder, GoesOn
    <3>2. CASE sessions[s].at # "live"
      BY <1>1, <2>1, <3>2 DEF GoesOn, Extended
    <3> QED
      BY <3>1, <3>2
  <2>3. /\ sessions' = [sessions EXCEPT ![s] = row] /\ visit' = [visit EXCEPT ![v] = Free]
        /\ UNCHANGED <<hour, admins, password, over, revived>>
    BY <1>4, <2>1 DEF RefreshSession, Set, Answered
  <2> HIDE DEF row, s
  <2> QED
    BY <2>1, <2>2, <2>3, RowMoves
<1> QED
  BY <1>2, <1>3, <1>4

LEMMA WebInitInv == WebInit => WebInv
PROOF
<1> SUFFICES ASSUME WebInit PROVE WebInv
  OBVIOUS
<1>1. WebTyped
  BY WebAtRest, Windows DEF WebInit, WebTyped
<1> QED
  BY <1>1, WebAtRest DEF WebInit, WebInv, VisitIsSo

LEMMA WebStepInv == WebInv /\ [WebNext]_webVars => WebInv'
PROOF
<1> SUFFICES ASSUME WebInv, [WebNext]_webVars PROVE WebInv'
  OBVIOUS
<1>1. /\ WebTyped /\ revived = {} /\ sessions \in [Session -> SessionN]
      /\ \A s \in Session : InOrder(sessions[s]) /\ (s \in over => sessions[s].at = "revoked")
      /\ over \subseteq Session /\ hour \in Nat /\ password \in Nat /\ admins \in 0..1
  BY DEF WebInv, WebTyped
<1>2. ASSUME HourPasses \/ UNCHANGED webVars PROVE WebInv'
  BY <1>1, <1>2, Windows DEF HourPasses, webVars, WebInv, WebTyped
<1>3. ASSUME NEW v \in Visit,
             BeginInitialize(v) \/ CreateAdmin(v) \/ Login(v) \/ UpdateSecret(v)
      PROVE  WebInv'
  <2>1. \E r \in VisitN : visit' = [visit EXCEPT ![v] = r] /\ r.at \in {"free", "initialize", "login", "replace"}
    BY <1>3, WebAtRest DEF BeginInitialize, CreateAdmin, Login, UpdateSecret, Set
  <2>2. /\ UNCHANGED <<hour, sessions, revived, over, password>> /\ admins' \in 0..1
    BY <1>1, <1>3 DEF BeginInitialize, CreateAdmin, Login, UpdateSecret, NoAdmin
  <2> QED
    BY <1>1, <2>1, <2>2, VisitMoves DEF VisitIsSo
<1>4. ASSUME NEW v \in Visit, NEW s \in Session, ReadSession(v, s) PROVE WebInv'
  <2> DEFINE r == [Free EXCEPT !.at = "authenticate", !.session = s, !.copy = sessions[s],
                               !.late = s \in over]
  <2>1. ASSUME NEW b \in BOOLEAN, NEW q,
               q = [Free EXCEPT !.at = "authenticate", !.session = s, !.copy = sessions[s], !.late = b]
        PROVE  /\ q \in VisitN /\ q.at = "authenticate" /\ q.session = s /\ q.copy = sessions[s]
               /\ q.late = b
    BY <1>1, <2>1, WebAtRest DEF VisitN
  <2>2. /\ r \in VisitN /\ r.at = "authenticate" /\ r.session = s /\ r.copy = sessions[s]
        /\ r.late <=> s \in over
    <3>1. (s \in over) \in BOOLEAN
      OBVIOUS
    <3> QED
      BY <2>1, <3>1
  <2>3. visit' = [visit EXCEPT ![v] = r] /\ UNCHANGED <<hour, admins, password, sessions, over, revived>>
    BY <1>4 DEF ReadSession, Set
  <2>4. sessions[s].at # "none"
    BY <1>4 DEF ReadSession, Unborn
  <2> HIDE DEF r
  <2>5. VisitIsSo(r, sessions)
    BY <1>1, <2>2, <2>4 DEF VisitIsSo, KnowsRow
  <2> QED
    BY <1>1, <2>2, <2>3, <2>5, VisitMoves
<1>5. ASSUME NEW s \in Session, Revoke(s) PROVE WebInv'
  <2> DEFINE row == RevokedRow(sessions[s])
  <2>1. row \in SessionN /\ row.at = "revoked" /\ InOrder(row) /\ GoesOn(sessions[s], row)
    BY <1>1, <1>5 DEF Revoke, RevokedRow, SessionN, InOrder, GoesOn
  <2>2. /\ sessions' = [sessions EXCEPT ![s] = row] /\ over' = over \cup {s}
        /\ UNCHANGED <<hour, admins, password, visit, revived>>
    BY <1>5 DEF Revoke
  <2> HIDE DEF row
  <2>3. CASE Visit # {}
    <3>1. PICK v \in Visit : TRUE
      BY <2>3
    <3> QED
      BY <2>1, <2>2, <3>1, RowMoves
  <2>4. CASE Visit = {}
    BY <1>1, <2>1, <2>2, <2>4 DEF WebInv, WebTyped
  <2> QED
    BY <2>3, <2>4
<1>6. ASSUME NEW S \in SUBSET Session, EndAll(S), UNCHANGED <<hour, admins, revived>>,
             password' \in Nat, visit' = visit \/ \E v \in Visit : Set(v, Free)
      PROVE  WebInv'
  <2>1. WebTyped'
    BY <1>1, <1>6, WebAtRest DEF WebTyped, EndAll, Set, Ended, RevokedRow, SessionN
  <2>2. ASSUME NEW s \in Session
        PROVE  /\ GoesOn(sessions[s], sessions'[s]) /\ InOrder(sessions'[s])
               /\ s \in over' => sessions'[s].at = "revoked"
    <3>1. /\ sessions[s] \in SessionN /\ sessions'[s] = (IF s \in S THEN Ended(sessions[s]) ELSE sessions[s])
          /\ s \in over' => s \in over \/ (s \in S /\ sessions[s].at # "none")
      BY <1>1, <1>6 DEF EndAll, Unborn
    <3> QED
      BY <1>1, <3>1 DEF Ended, RevokedRow, SessionN, GoesOn, InOrder
  <2>3. \A v \in Visit : visit'[v] = visit[v] \/ VisitIsSo(visit'[v], sessions')
    BY <1>1, <1>6, WebAtRest DEF Set, WebTyped, VisitIsSo
  <2> QED
    BY <1>1, <1>6, <2>1, <2>2, <2>3, WebGoesOn
<1>7. ASSUME NEW s \in Session, RevokeOthers(s) PROVE WebInv'
  BY <1>1, <1>6, <1>7 DEF RevokeOthers
<1>8. ASSUME NEW v \in Visit, ReplacePassword(v) PROVE WebInv'
  BY <1>1, <1>6, <1>8 DEF ReplacePassword
<1> QED
  BY <1>2, <1>3, <1>4, <1>5, <1>7, <1>8, JudgeStep, RowStep DEF WebNext

(* For any number of sessions and requests: there is one administrator,    *)
(* and a session that somebody was told has ended answers no request that  *)
(* begins afterwards (auth/web.go, AuthenticateWebSession, replacePassword,*)
(* createAdmin).                                                           *)
THEOREM EndedSessionsStayEnded == WebSpec => []EndedIsFinal
PROOF
<1>1. WebInv => EndedIsFinal
  BY DEF WebInv, WebTyped, EndedIsFinal
<1> QED
  BY <1>1, WebInitInv, WebStepInv, PTL DEF WebSpec

(* Every request that is about to replace the password may add one to the  *)
(* number of those that were replaced.                                     *)
Replacers == {v \in Visit : visit[v].at = "replace"}
PasswordsBounded == password + Cardinality(Replacers) <= MaxPassword + Cardinality(Visit)

(* No more requests are about to replace the password than there are.      *)
LEMMA ReplacersAreFew ==
  /\ IsFiniteSet(Replacers) /\ Cardinality(Replacers) \in Nat /\ Cardinality(Visit) \in Nat
  /\ \A v \in Visit : v \notin Replacers => Cardinality(Replacers) < Cardinality(Visit)
PROOF
<1>1. Replacers \in SUBSET Visit /\ IsFiniteSet(Visit)
  BY Windows DEF Replacers
<1>2. /\ IsFiniteSet(Replacers) /\ Cardinality(Replacers) \in Nat /\ Cardinality(Visit) \in Nat
      /\ Cardinality(Replacers) <= Cardinality(Visit)
      /\ Cardinality(Replacers) = Cardinality(Visit) => Replacers = Visit
  BY <1>1, FS_Subset, FS_CardinalityType
<1> QED
  BY <1>2

(* A replacement that is counted was about to be made before.              *)
LEMMA PasswordsStayBounded ==
  ASSUME WebInv, PasswordsBounded, [WebNext]_webVars
  PROVE  PasswordsBounded'
PROOF
<1>1. password \in Nat /\ MaxPassword \in Nat /\ visit \in [Visit -> VisitN]
  BY Windows DEF WebInv, WebTyped
<1>2. ASSUME password' = password, Replacers' \in SUBSET Replacers PROVE PasswordsBounded'
  <2>1. Cardinality(Replacers') \in Nat /\ Cardinality(Replacers') <= Cardinality(Replacers)
    BY <1>2, ReplacersAreFew, FS_Subset, FS_CardinalityType
  <2> QED
    BY <1>1, <1>2, <2>1, ReplacersAreFew DEF PasswordsBounded
<1>3. ASSUME password' = password, NEW v \in Visit,
             \A w \in Visit : w # v => visit'[w] = visit[w], visit'[v].at # "replace"
      PROVE  PasswordsBounded'
  <2>1. Replacers' \in SUBSET Replacers
    BY <1>1, <1>3 DEF Replacers
  <2> QED
    BY <1>2, <1>3, <2>1
<1>4. ASSUME NEW v \in Visit, UpdateSecret(v) PROVE PasswordsBounded'
  <2>1. v \notin Replacers /\ Replacers' = Replacers \cup {v} /\ password' = password /\ password < MaxPassword
    BY <1>1, <1>4 DEF UpdateSecret, At, Set, Free, Replacers
  <2>2. Cardinality(Replacers') = Cardinality(Replacers) + 1
    BY <2>1, ReplacersAreFew, FS_AddElement
  <2>3. Cardinality(Replacers) < Cardinality(Visit)
    BY <2>1, ReplacersAreFew
  <2> QED
    BY <1>1, <2>1, <2>2, <2>3, ReplacersAreFew DEF PasswordsBounded
<1>5. ASSUME NEW v \in Visit, ReplacePassword(v) PROVE PasswordsBounded'
  <2>1. v \in Replacers /\ Replacers' = Replacers \ {v} /\ password' = password + 1
    BY <1>1, <1>5 DEF ReplacePassword, At, Set, Free, Replacers
  <2>2. Cardinality(Replacers') = Cardinality(Replacers) - 1
    BY <2>1, ReplacersAreFew, FS_RemoveElement
  <2> QED
    BY <1>1, <2>1, <2>2, ReplacersAreFew DEF PasswordsBounded
<1>6. ASSUME NEW v \in Visit,
             \/ BeginInitialize(v) \/ CreateAdmin(v) \/ Login(v) \/ Judge(v) \/ Expire(v)
             \/ RefreshSession(v) \/ \E s \in Session : CreateSession(v, s) \/ ReadSession(v, s)
      PROVE  PasswordsBounded'
  <2>1. password' = password
    BY <1>6 DEF BeginInitialize, CreateAdmin, Login, Judge, Expire, RefreshSession, CreateSession, ReadSession
  <2>2. visit[v] \in VisitN
    BY <1>1
  <2>3. (\A w \in Visit : w # v => visit'[w] = visit[w]) /\ visit'[v].at # "replace"
    <3>1. CASE BeginInitialize(v)
      BY <1>1, <3>1 DEF BeginInitialize, Set, Free
    <3>2. CASE CreateAdmin(v) \/ Login(v) \/ Expire(v) \/ RefreshSession(v)
      BY <1>1, <3>2 DEF CreateAdmin, Login, Expire, RefreshSession, Set, Free
    <3>3. CASE Judge(v)
      <4> DEFINE c == visit[v].copy
                 expire == [visit[v] EXCEPT !.at = "expire"]
                 refresh == [visit[v] EXCEPT !.at = "refresh", !.now = hour]
      <4>1. expire.at = "expire" /\ refresh.at = "refresh" /\ Free.at = "free"
        BY <2>2 DEF VisitN, Free
      <4>2. \/ visit' = [visit EXCEPT ![v] = Free] \/ visit' = [visit EXCEPT ![v] = expire]
            \/ visit' = [visit EXCEPT ![v] = refresh]
        BY <3>3 DEF Judge, Set
      <4> HIDE DEF expire, refresh
      <4> QED
        BY <1>1, <4>1, <4>2
    <3>4. CASE \E s \in Session : CreateSession(v, s) \/ ReadSession(v, s)
      <4>1. PICK s \in Session : CreateSession(v, s) \/ ReadSession(v, s)
        BY <3>4
      <4> DEFINE read == [Free EXCEPT !.at = "authenticate", !.session = s, !.copy = sessions[s],
                                      !.late = s \in over]
      <4>2. visit' = [visit EXCEPT ![v] = Free] \/ visit' = [visit EXCEPT ![v] = read]
        BY <4>1 DEF CreateSession, ReadSession, Set
      <4>3. Free.at = "free" /\ read.at = "authenticate"
        BY DEF Free
      <4> HIDE DEF read
      <4> QED
        BY <1>1, <4>2, <4>3
    <3> QED
      BY <1>6, <3>1, <3>2, <3>3, <3>4
  <2>4. \A w \in Visit : w # v => visit'[w] = visit[w]
    BY <2>3
  <2>5. visit'[v].at # "replace"
    BY <2>3
  <2> QED
    BY <1>3, <2>1, <2>4, <2>5
<1>7. CASE HourPasses \/ (\E s \in Session : Revoke(s) \/ RevokeOthers(s)) \/ UNCHANGED webVars
  <2>1. password' = password /\ visit' = visit
    BY <1>7 DEF HourPasses, Revoke, RevokeOthers, webVars
  <2>2. Replacers' \in SUBSET Replacers
    BY <2>1 DEF Replacers
  <2> QED
    BY <1>2, <2>1, <2>2
<1> QED
  BY <1>4, <1>5, <1>6, <1>7 DEF WebNext

(* The rows of the sessions keep their types and the order of their        *)
(* expiries (auth/web.go).                                                 *)
LEMMA WebTypesHold == WebSpec => []WebTypeOK
PROOF
<1>1. WebInit => PasswordsBounded
  <2> SUFFICES ASSUME WebInit PROVE PasswordsBounded
    OBVIOUS
  <2>1. Replacers = {} /\ password = 0
    BY DEF WebInit, Replacers, Free
  <2>2. Cardinality(Replacers) = 0
    BY <2>1, FS_EmptySet
  <2> QED
    BY <2>1, <2>2, ReplacersAreFew, Windows DEF PasswordsBounded
<1>2. WebInv /\ PasswordsBounded => WebTypeOK
  <2> SUFFICES ASSUME WebInv, PasswordsBounded PROVE WebTypeOK
    OBVIOUS
  <2>1. password \in 0..(MaxPassword + Cardinality(Visit))
    BY ReplacersAreFew, Windows DEF WebInv, WebTyped, PasswordsBounded
  <2> QED
    BY <2>1 DEF WebInv, WebTyped, WebTypeOK, InOrder, SessionN, VisitN
<1>3. WebSpec => []WebInv
  BY WebInitInv, WebStepInv, PTL DEF WebSpec
<1> QED
  BY <1>1, <1>2, <1>3, PasswordsStayBounded, PTL DEF WebSpec

(* ---- the MCP token -------------------------------------------------------- *)

TokenTyped ==
  /\ file \in Token \cup {NoToken, "empty"} /\ copy \in Token \cup {NoToken}
  /\ starting \in Token \cup {NoToken} /\ told \in Token \cup {NoToken}
  /\ resetting \in [token : Token, at : {"write", "renamed"}] \cup {NoReset}
  /\ made \subseteq Token /\ unsure \subseteq Token

(* A reset, a start and a stop exclude each other.  Until a first start    *)
(* has written its token nobody was given one; then the file is a token    *)
(* that was made, and until the rename not that of the reset.              *)
TokenWhere ==
  /\ resetting # NoReset => copy # NoToken
  /\ starting # NoToken => file = "empty" /\ copy = NoToken
  /\ copy # NoToken => file \in Token
  /\ told # NoToken => file \in Token
  /\ {file, starting, resetting.token} \cap Token \subseteq made
  /\ resetting.at = "write" => file # resetting.token
  /\ resetting.at = "renamed" => file = resetting.token

TokenInv == TokenTyped /\ TokenWhere /\ TokenKept

LEMMA TokenStepInv == TokenInv /\ [TokenNext]_tokenVars => TokenInv'
PROOF
<1> SUFFICES ASSUME TokenInv, [TokenNext]_tokenVars PROVE TokenInv'
  OBVIOUS
<1> USE TokenConstants DEF TokenInv, TokenTyped, TokenWhere, TokenKept, NoReset, Stopped, Replacing
<1>1. CASE StartFromFile \/ WriteFile \/ Show \/ UNCHANGED tokenVars
  <2>1. CASE StartFromFile
    BY <2>1 DEF StartFromFile
  <2>2. CASE WriteFile
    BY <2>2 DEF WriteFile
  <2>3. CASE Show
    BY <2>3 DEF Show
  <2>4. CASE UNCHANGED tokenVars
    BY <2>4 DEF tokenVars
  <2> QED
    BY <1>1, <2>1, <2>2, <2>3, <2>4
<1>2. CASE Rename \/ ResetFails
  <2>1. resetting.at = "write" /\ resetting \in [token : Token, at : {"write", "renamed"}]
    BY <1>2 DEF Rename, ResetFails
  <2>2. [resetting EXCEPT !.at = "renamed"] = [token |-> resetting.token, at |-> "renamed"]
    BY <2>1
  <2>3. CASE Rename
    BY <2>1, <2>2, <2>3 DEF Rename
  <2>4. CASE ResetFails
    BY <2>1, <2>4 DEF ResetFails
  <2> QED
    BY <1>2, <2>3, <2>4
<1>3. CASE FinishReset \/ Dies
  BY <1>3 DEF FinishReset, Dies
<1>4. ASSUME NEW t \in Token, CreateFile(t) \/ Reset(t) PROVE TokenInv'
  BY <1>4 DEF CreateFile, Reset
<1> QED
  BY <1>1, <1>2, <1>3, <1>4 DEF TokenNext

(* Whatever died or failed, the server serves what the file holds, and the *)
(* file holds the token the operator was last given or that of a reset     *)
(* that never answered (mcp_token.go, Reset).                              *)
THEOREM TokenIsKept == TokenSpec => []TokenKept
PROOF
<1>1. TokenInit => TokenInv
  BY TokenConstants DEF TokenInit, TokenInv, TokenTyped, TokenWhere, TokenKept, NoReset
<1>2. TokenInv => TokenKept
  BY DEF TokenInv
<1> QED
  BY <1>1, <1>2, TokenStepInv, PTL DEF TokenSpec

(* The token's file and its copies keep their types (mcp_token.go).        *)
LEMMA TokenTypesHold == TokenSpec => []TokenTypeOK
PROOF
<1>1. TokenInv => TokenTypeOK
  BY DEF TokenInv, TokenTyped, TokenTypeOK, NoReset
<1>2. TokenInit => TokenInv
  BY TokenConstants DEF TokenInit, TokenInv, TokenTyped, TokenWhere, TokenKept, NoReset
<1> QED
  BY <1>1, <1>2, TokenStepInv, PTL DEF TokenSpec
====================================================================================
