-------------------------- MODULE DeploymentSyncProofs --------------------------
(***************************************************************************)
(* Theorems about DeploymentSync, for every number of Deployments and of   *)
(* concurrent handlers, every revision bound and every kind and number of  *)
(* faults: what a row says is current, what it says is applied is what the *)
(* node holds, and no revision passes its bound.                           *)
(*                                                                         *)
(* The inductive invariant is built in layers, each with the layers below  *)
(* it as hypotheses: the types; who works on what under which lock; which  *)
(* Deployments work may still refer to; the order of the connection; and   *)
(* what an answer and an applied row say of the node.                      *)
(*                                                                         *)
(* The types with their bounds need an argument of their own: the revision *)
(* of a row, and the handlers that may still give it a new one, are        *)
(* together no more than the bound (Room).                                 *)
(***************************************************************************)
EXTENDS DeploymentSync, FiniteSetTheorems, TLAPS

\* The types, without the bounds of the instances.
RowN == [state : {"none", "live", "gone"}, rev : Nat, applied : Nat,
         enabled : BOOLEAN, status : {"pending", "applied", "disabled", "failed"}]
TaskN == [op : {"none", "apply", "remove", "bump"},
          d : Deployment \cup {Nothing}, rev : Nat]
RequestN == [from : Worker \cup {Nobody}, op : {"apply", "remove"},
             d : Deployment, rev : Nat, full : BOOLEAN]
CopyN == [rev : Nat, full : BOOLEAN]

\* Places of a handler that has a Deployment in hand, and those of them where
\* an apply holds the lock.
Busy == {"lock", "reread", "node", "check", "defer", "send", "wait", "reply",
         "succeed", "fail"}
Under == Busy \ {"lock"}

Typed ==
  /\ row \in [Deployment -> RowN]
  /\ removal \subseteq Deployment
  /\ settings \in Settings
  /\ wire \in Seq(RequestN)
  /\ held \in [Deployment -> CopyN]
  /\ lock \in [Deployment -> Worker \cup {Nobody}]
  /\ pc \in [Worker -> Places]
  /\ task \in [Worker -> TaskN]
  /\ todo \in [Worker -> SUBSET TaskN]
  /\ view \in [Worker -> Settings]
  /\ \A w \in Worker :
       /\ pc[w] \in {"lock", "reread", "node", "defer"} => task[w].op = "apply"
       /\ pc[w] \in Busy => task[w].op \in {"apply", "remove"} /\ task[w].d \in Deployment
       /\ \A t \in todo[w] : t.op \in {"apply", "remove", "bump"} /\ t.d \in Deployment

\* A request that somebody waits for is the only one that worker has on the
\* connection.
Queued ==
  \A i \in 1..Len(wire) : wire[i].from \in Worker =>
    /\ pc[wire[i].from] = "wait"
    /\ \A j \in 1..Len(wire) : wire[j].from = wire[i].from => j = i

\* Whoever is past the lock with an apply in hand has the lock.
Holding(w, d) == pc[w] \in Under /\ task[w].op = "apply" /\ task[w].d = d
Locked == \A w \in Worker, d \in Deployment : Holding(w, d) => lock[d] = w

\* Work refers to Deployments that exist or existed; removals to deleted ones.
May(op, d) == row[d].state # "none" /\ (op = "remove" => row[d].state = "gone")
Known ==
  /\ \A d \in removal : row[d].state = "gone"
  /\ \A w \in Worker :
       /\ pc[w] \in Busy => May(task[w].op, task[w].d)
       /\ \A t \in todo[w] : May(t.op, t.d)
  /\ \A i \in 1..Len(wire) : May(wire[i].op, wire[i].d)

\* An awaited request is the one its handler has in hand, and the last one of
\* its Deployment.
Ordered ==
  \A i \in 1..Len(wire) : wire[i].from \in Worker =>
    /\ wire[i].op = task[wire[i].from].op
    /\ wire[i].d = task[wire[i].from].d
    /\ wire[i].op = "apply" => wire[i].rev = task[wire[i].from].rev
    /\ Live(wire[i].d) => \A j \in 1..Len(wire) : wire[j].d = wire[i].d => j <= i

\* The node holds what it has acknowledged, and nothing is on its way that
\* would change that.
Clear(d) == \A i \in 1..Len(wire) : wire[i].d # d
Confirmed ==
  \A w \in Worker, d \in Deployment :
    pc[w] \in {"reply", "succeed"} /\ Holding(w, d) /\ Live(d) =>
      held[d].rev = task[w].rev /\ Clear(d)

\* Of a row in step the node holds the desired revision, and every request that
\* is on its way or may still be sent is for the same revision.
Ready == Under \ {"reread"}
Synced ==
  \A d \in Deployment : Live(d) /\ InSync(row[d]) =>
    /\ held[d].rev = row[d].rev
    /\ \A i \in 1..Len(wire) : wire[i].d = d => wire[i].rev = row[d].rev
    /\ \A w \in Worker : Holding(w, d) /\ pc[w] \in Ready => task[w].rev = row[d].rev

--------------------------------------------------------------------------------
\* What the operations on a row and on the connection return.

\* The statements that change a row keep its type and never create or delete it.
LEMMA RowFacts ==
  ASSUME NEW r \in RowN, NEW rev \in Nat, NEW b \in BOOLEAN, NEW ok \in BOOLEAN
  PROVE  /\ Bumped(r, b) \in RowN /\ Recorded(r, rev, ok) \in RowN
         /\ Deferred(r, rev) \in RowN
         /\ Bumped(r, b).state = r.state /\ Recorded(r, rev, ok).state = r.state
         /\ Deferred(r, rev).state = r.state
<1>1. Bumped(r, b) \in RowN /\ Bumped(r, b).state = r.state
  <2> DEFINE n == r.rev + 1
  <2>1. n \in Nat
    BY DEF RowN
  <2>2. Bumped(r, b) = [r EXCEPT !.rev = n, !.enabled = b, !.status = "pending"]
    BY DEF Bumped
  <2> HIDE DEF n
  <2>3. [r EXCEPT !.rev = n, !.enabled = b, !.status = "pending"] \in RowN
    BY <2>1 DEF RowN
  <2>4. [r EXCEPT !.rev = n, !.enabled = b, !.status = "pending"].state = r.state
    BY DEF RowN
  <2> QED  BY <2>2, <2>3, <2>4
<1>2. Deferred(r, rev) \in RowN /\ Deferred(r, rev).state = r.state
  BY DEF RowN, Deferred
<1>3. CASE r.state # "live" \/ r.rev # rev
  BY <1>1, <1>2, <1>3 DEF Recorded
<1>4. CASE ok /\ r.state = "live" /\ r.rev = rev
  <2> DEFINE st == IF r.enabled THEN "applied" ELSE "disabled"
  <2>1. st \in {"pending", "applied", "disabled", "failed"}
    OBVIOUS
  <2>2. Recorded(r, rev, ok) = [r EXCEPT !.applied = rev, !.status = st]
    BY <1>4 DEF Recorded
  <2> HIDE DEF st
  <2> QED  BY <1>1, <1>2, <2>1, <2>2 DEF RowN
<1>5. CASE ~ok /\ r.state = "live" /\ r.rev = rev
  <2>1. Recorded(r, rev, ok) = [r EXCEPT !.status = "failed"]
    BY <1>5 DEF Recorded
  <2> QED  BY <1>1, <1>2, <2>1 DEF RowN
<1> QED  BY <1>3, <1>4, <1>5

\* Giving up on an answer leaves every request of the connection in its place.
LEMMA AbandonedFacts ==
  ASSUME wire \in Seq(RequestN), NEW w \in Worker
  PROVE  /\ Abandoned(w) \in Seq(RequestN) /\ Len(Abandoned(w)) = Len(wire)
         /\ \A i \in 1..Len(wire) :
              /\ Abandoned(w)[i].from = IF wire[i].from = w THEN Nobody ELSE wire[i].from
              /\ Abandoned(w)[i].op = wire[i].op /\ Abandoned(w)[i].d = wire[i].d
              /\ Abandoned(w)[i].rev = wire[i].rev
<1>1. \A i \in 1..Len(wire) : wire[i] \in RequestN
  OBVIOUS
<1>2. ASSUME NEW i \in 1..Len(wire)
      PROVE  Abandoned(w)[i] \in RequestN
  <2>1. Abandoned(w)[i] = IF wire[i].from = w THEN [wire[i] EXCEPT !.from = Nobody] ELSE wire[i]
    BY DEF Abandoned
  <2>2. [wire[i] EXCEPT !.from = Nobody] \in RequestN
    BY <1>1 DEF RequestN
  <2> QED  BY <1>1, <2>1, <2>2
<1>3. Abandoned(w) = [i \in 1..Len(wire) |-> Abandoned(w)[i]]
  BY DEF Abandoned
<1>4. Abandoned(w) \in Seq(RequestN) /\ Len(Abandoned(w)) = Len(wire)
  BY <1>2, <1>3
<1> QED  BY <1>1, <1>4 DEF Abandoned, RequestN

--------------------------------------------------------------------------------
\* The types.

\* The initial state is typed.
LEMMA TypedInit == Init => Typed
  BY DEF Init, Typed, RowN, Absent, Settings, CopyN, NoCopy, Places, TaskN, NoTask,
         NoView, Busy

\* Every step of a handler, of the connection and of the node keeps the types,
\* and a handler with an apply or a removal in hand keeps a Deployment in hand.
LEMMA TypedStep ==
  ASSUME SyncConstants, Typed, Queued, [Next]_vars
  PROVE  Typed'
<1> USE DEF Typed, Busy
<1>1. ASSUME NEW w \in Worker, NEW d \in Deployment, NEW b \in BOOLEAN, Create(w, d, b)
      PROVE  Typed'
  BY <1>1 DEF Create, Begin, Apply, RowN, TaskN, Places, bridge
<1>2. ASSUME NEW w \in Worker, NEW d \in Deployment, NEW b \in BOOLEAN, Update(w, d, b)
      PROVE  Typed'
  <2>1. Bumped(row[d], b) \in RowN /\ row[d].rev + 1 \in Nat
    <3>1. row[d] \in RowN
      OBVIOUS
    <3>2. Bumped(row[d], b) \in RowN
      BY <3>1, RowFacts
    <3>3. row[d].rev \in Nat
      BY <3>1 DEF RowN
    <3> QED  BY <3>2, <3>3
  <2> QED  BY <1>2, <2>1 DEF Update, Begin, Apply, TaskN, Places, bridge
<1>3. ASSUME NEW w \in Worker, NEW d \in Deployment, Reapply(w, d)
      PROVE  Typed'
  BY <1>3 DEF Reapply, Begin, Apply, RowN, TaskN, Places, bridge, db
<1>4. ASSUME NEW w \in Worker, NEW d \in Deployment, Delete(w, d)
      PROVE  Typed'
  BY <1>4 DEF Delete, Begin, Remove, Absent, RowN, TaskN, Places, bridge
<1>5. ASSUME NEW w \in Worker, Lock(w)
      PROVE  Typed'
  BY <1>5 DEF Lock, Goto, Places, bridge, db, local
<1>6. ASSUME NEW w \in Worker, Reread(w)
      PROVE  Typed'
  <2>1. CASE pc' = [pc EXCEPT ![w] = "node"] /\ UNCHANGED <<lock, local>>
    BY <1>6, <2>1 DEF Reread, Places, bridge, db, local
  <2>2. CASE Unlocked(task[w].d) /\ Return(w)
    BY <1>6, <2>2 DEF Reread, Goto, Unlocked, Return, NoTask, NoView, TaskN, Settings, Places, bridge, db
  <2> QED  BY <1>6, <2>1, <2>2 DEF Reread, Goto
<1>7. ASSUME NEW w \in Worker, ReadNode(w)
      PROVE  Typed'
  BY <1>7 DEF ReadNode, Goto, Places, bridge, db
<1>8. ASSUME NEW w \in Worker, Check(w)
      PROVE  Typed'
  BY <1>8 DEF Check, Goto, Places, bridge, db, local
<1>9. ASSUME NEW w \in Worker, Defer(w)
      PROVE  Typed'
  <2>1. task[w].d \in Deployment /\ task[w].rev \in Nat
    BY <1>9 DEF Defer, TaskN
  <2>2. Deferred(row[task[w].d], task[w].rev) \in RowN
    BY <2>1, RowFacts
  <2> QED  BY <1>9, <2>1, <2>2 DEF Defer, Goto, Unlocked, Return, NoTask, NoView, TaskN, Settings, Places, bridge
<1>10. ASSUME NEW w \in Worker, Miss(w)
       PROVE  Typed'
  BY <1>10 DEF Miss, Goto, Places, bridge, db, local
<1>11. ASSUME NEW w \in Worker, Send(w)
       PROVE  Typed'
  <2>1. [from |-> w, op |-> task[w].op, d |-> task[w].d, rev |-> task[w].rev,
         full |-> view[w].full] \in RequestN
    BY <1>11 DEF Send, RequestN, TaskN, Settings
  <2> QED  BY <1>11, <2>1 DEF Send, Goto, Places, db, local
<1>12. ASSUME NEW w \in Worker, RecordApply(w)
       PROVE  Typed'
  <2>1. task[w].d \in Deployment /\ task[w].rev \in Nat
    BY <1>12 DEF RecordApply, TaskN
  <2>2. Recorded(row[task[w].d], task[w].rev, pc[w] = "succeed") \in RowN
    BY <2>1, RowFacts
  <2> QED  BY <1>12, <2>1, <2>2 DEF RecordApply, Goto, Unlocked, Return, NoTask, NoView, TaskN, Settings, Places, bridge
<1>13. ASSUME NEW w \in Worker, RecordRemoval(w)
       PROVE  Typed'
  BY <1>13 DEF RecordRemoval, Goto, Return, NoTask, NoView, TaskN, Settings, Places, bridge
<1>14. ASSUME NEW w \in Worker, StartReconcile(w), UNCHANGED <<row, removal, settings, wire, held, lock>>
       PROVE  Typed'
  BY <1>14 DEF StartReconcile, Begin, Remove, NoTask, TaskN, Places
<1>15. ASSUME NEW w \in Worker, ListRows(w)
       PROVE  Typed'
  <2> DEFINE found == {Apply(d, row[d].rev) : d \in {e \in Deployment : Live(e) /\ ~InSync(row[e])}}
  <2>1. found \in SUBSET TaskN /\ \A t \in found : t.op = "apply" /\ t.d \in Deployment
    BY DEF Apply, TaskN, RowN
  <2>2. todo' = [todo EXCEPT ![w] = found] /\ pc' = [pc EXCEPT ![w] = IF found = {} THEN "idle" ELSE "next"]
    BY <1>15 DEF ListRows, Goto
  <2> HIDE DEF found
  <2> QED  BY <1>15, <2>1, <2>2 DEF ListRows, Places, bridge, db
<1>16. ASSUME NEW w \in Worker, Pick(w)
       PROVE  Typed'
  BY <1>16 DEF Pick, Goto, Places, bridge, db
<1>17. ASSUME wire # <<>>
       PROVE  /\ Head(wire) \in RequestN /\ Head(wire).d \in Deployment
              /\ Tail(wire) \in Seq(RequestN)
              /\ Head(wire).from \in Worker => pc[Head(wire).from] = "wait"
  <2>1. Head(wire) \in RequestN /\ Tail(wire) \in Seq(RequestN) /\ Head(wire) = wire[1]
        /\ 1 \in 1..Len(wire)
    BY <1>17
  <2> QED  BY <2>1 DEF RequestN, Queued
<1>18. ASSUME Handle
       PROVE  Typed'
  <2>1. Kept(Head(wire)) \in CopyN
    BY <1>17, <1>18 DEF Handle, Kept, RequestN, CopyN, NoCopy
  <2>2. pc' = IF Head(wire).from \in Worker THEN [pc EXCEPT ![Head(wire).from] = "reply"] ELSE pc
    BY <1>18 DEF Handle
  <2>3. pc' \in [Worker -> Places]
    BY <2>2 DEF Places
  <2>4. \A w \in Worker : pc'[w] = pc[w] \/ (pc'[w] = "reply" /\ pc[w] = "wait")
    BY <1>17, <1>18, <2>2 DEF Handle
  <2>5. wire' \in Seq(RequestN) /\ held' \in [Deployment -> CopyN]
    BY <1>17, <1>18, <2>1 DEF Handle
  <2> QED  BY <1>18, <2>3, <2>4, <2>5 DEF Handle, db, local
<1>19. ASSUME Cancelled
       PROVE  Typed'
  BY <1>17, <1>19 DEF Cancelled, db, local
<1>20. ASSUME NEW w \in Worker, Reply(w)
       PROVE  Typed'
  BY <1>20 DEF Reply, Goto, Places, bridge, db, local
<1>21. ASSUME NEW w \in Worker, NEW form \in Patches, StartPatch(w, form)
       PROVE  Typed'
  BY <1>21 DEF StartPatch, Begin, NoTask, TaskN, Places, bridge, db
<1>22. ASSUME NEW w \in Worker, ReadCopy(w) \/ ReadResult(w)
       PROVE  Typed'
  BY <1>22 DEF ReadCopy, ReadResult, Goto, Places, bridge, db
<1>23. ASSUME NEW w \in Worker, WriteCopy(w)
       PROVE  Typed'
  <2>1. settings' \in Settings
    <3>1. \A c, old : old \in BOOLEAN => Changed(c, old) \in BOOLEAN
      BY DEF Changed
    <3> QED  BY <1>23, <3>1 DEF WriteCopy, Settings
  <2> QED  BY <1>23, <2>1 DEF WriteCopy, Goto, Places, bridge, local
<1>24. ASSUME NEW w \in Worker, React(w)
       PROVE  Typed'
  <2> DEFINE there == [pc EXCEPT ![w] = IF AccessChanged(patch[w], view[w]) THEN "list" ELSE "idle"]
  <2>1. /\ there \in [Worker -> Places]
        /\ \A x \in Worker : there[x] \in Busy => there[x] = pc[x]
    BY DEF Places
  <2>2. /\ Interrupted(there) \in [Worker -> Places]
        /\ \A x \in Worker : Interrupted(there)[x] \in Busy => pc[x] \in Busy /\ Interrupted(there)[x] \in {pc[x], "fail"}
    BY <2>1 DEF Interrupted, Places
  <2>3. (pc' = there /\ wire' = wire) \/ (pc' = Interrupted(there) /\ wire' = <<>>)
    BY <1>24 DEF React
  <2>4. /\ UNCHANGED <<row, removal, settings, held, lock, task, todo>>
        /\ view' = [view EXCEPT ![w] = NoView]
    BY <1>24 DEF React, db
  <2>5. pc' \in [Worker -> Places] /\ wire' \in Seq(RequestN) /\ view' \in [Worker -> Settings]
    <3>1. <<>> \in Seq(RequestN)
      OBVIOUS
    <3>2. pc' \in [Worker -> Places] /\ wire' \in Seq(RequestN)
      BY <2>1, <2>2, <2>3, <3>1
    <3>3. view' \in [Worker -> Settings]
      BY <2>4 DEF NoView, Settings
    <3> QED  BY <3>2, <3>3
  <2>6. \A x \in Worker : pc'[x] \in Busy => pc[x] \in Busy /\ pc'[x] \in {pc[x], "fail"}
    BY <2>1, <2>2, <2>3
  <2> HIDE DEF there
  <2> QED  BY <2>4, <2>5, <2>6
<1>25. ASSUME NEW w \in Worker, ListForAccess(w)
       PROVE  Typed'
  <2> DEFINE found == {Bump(d, row[d].rev) : d \in {e \in Deployment : Live(e)}}
  <2>1. found \in SUBSET TaskN /\ \A t \in found : t.op = "bump" /\ t.d \in Deployment
    BY DEF Bump, TaskN, RowN
  <2>2. todo' = [todo EXCEPT ![w] = found] /\ pc' = [pc EXCEPT ![w] = IF found = {} THEN "idle" ELSE "next"]
    BY <1>25 DEF ListForAccess, Goto
  <2> HIDE DEF found
  <2> QED  BY <1>25, <2>1, <2>2 DEF ListForAccess, Places, bridge, db
<1>26. ASSUME NEW w \in Worker, BumpRow(w)
       PROVE  Typed'
  <2>1. PICK t \in todo[w] : BumpRow(w)!2!(t)
    BY <1>26 DEF BumpRow
  <2>2. t.d \in Deployment /\ t \in TaskN /\ t.rev + 1 \in Nat
    BY DEF TaskN
  <2>3. row[t.d] \in RowN /\ row[t.d].enabled \in BOOLEAN
    BY <2>2 DEF RowN
  <2>4. Bumped(row[t.d], row[t.d].enabled) \in RowN
    BY <2>3, RowFacts
  <2>5. Apply(t.d, t.rev + 1) \in TaskN /\ Apply(t.d, t.rev + 1).op = "apply" /\ Apply(t.d, t.rev + 1).d = t.d
    BY <2>2 DEF Apply, TaskN
  <2>6. CASE Live(t.d) /\ row[t.d].rev = t.rev
    BY <1>26, <2>1, <2>2, <2>4, <2>5, <2>6 DEF BumpRow, Goto, Places, bridge
  <2>7. CASE ~(Live(t.d) /\ row[t.d].rev = t.rev)
    BY <1>26, <2>1, <2>2, <2>7 DEF BumpRow, Goto, Places, bridge
  <2> QED  BY <2>6, <2>7
<1>27. ASSUME Disconnect
       PROVE  Typed'
  <2>1. /\ Interrupted(pc) \in [Worker -> Places]
        /\ \A x \in Worker : Interrupted(pc)[x] \in Busy => pc[x] \in Busy /\ Interrupted(pc)[x] \in {pc[x], "fail"}
    BY DEF Interrupted, Places
  <2> QED  BY <1>27, <2>1 DEF Disconnect, db, local
<1>28. ASSUME NEW w \in Worker, Timeout(w)
       PROVE  Typed'
  BY <1>28, AbandonedFacts DEF Timeout, Goto, Places, db, local
<1>29. ASSUME NEW w \in Worker, Abort(w)
       PROVE  Typed'
  BY <1>29, AbandonedFacts DEF Abort, Goto, Places, NoTask, NoView, TaskN, Settings, db
<1>30. ASSUME Refuse
       PROVE  Typed'
  <2>1. Head(wire).from \in Worker /\ wire # <<>> /\ wire' = Tail(wire)
    BY <1>30 DEF Refuse
  <2>2. pc' = [pc EXCEPT ![Head(wire).from] = "fail"]
    BY <1>30 DEF Refuse
  <2>3. UNCHANGED <<row, removal, settings, held, lock, task, todo, view>>
    BY <1>30 DEF Refuse, db, local
  <2>4. pc' \in [Worker -> Places] /\ wire' \in Seq(RequestN)
    BY <1>17, <2>1, <2>2 DEF Places
  <2>5. \A w \in Worker : pc'[w] = pc[w] \/ (pc'[w] = "fail" /\ pc[w] = "wait")
    BY <1>17, <2>1, <2>2
  <2> QED  BY <2>3, <2>4, <2>5
<1>31. ASSUME Restart
       PROVE  Typed'
  BY <1>31 DEF Restart, NoTask, NoView, TaskN, Settings, Places, db
<1>32. CASE UNCHANGED vars
  BY <1>32 DEF vars
<1>33. ASSUME NEW w \in Worker, Connect(w) \/ NodeUpdated(w)
       PROVE  Typed'
  BY <1>14, <1>33 DEF Connect, NodeUpdated, bridge, db
<1>34. ASSUME NEW w \in Worker, Start(w)
       PROVE  Typed'
  BY <1>1, <1>2, <1>3, <1>4, <1>21, <1>33, <1>34 DEF Start
<1>35. ASSUME NEW w \in Worker, Step(w)
       PROVE  Typed'
  BY <1>6, <1>7, <1>8, <1>9, <1>10, <1>11, <1>12, <1>13, <1>15, <1>16, <1>20, <1>22, <1>23,
     <1>24, <1>25, <1>26, <1>35 DEF Step
<1> HIDE DEF Typed, Busy
<1> QED  BY <1>5, <1>18, <1>19, <1>27, <1>28, <1>29, <1>30, <1>31, <1>32, <1>33, <1>34, <1>35 DEF Next

--------------------------------------------------------------------------------
\* The connection.

\* No request is queued at first.
LEMMA QueuedInit == Init => Queued
  BY DEF Init, Queued

\* A step that leaves the connection alone and moves no waiting handler keeps
\* every queued request awaited.
LEMMA QueuedKept ==
  ASSUME Queued, UNCHANGED wire, \A w \in Worker : pc[w] = "wait" => pc'[w] = "wait"
  PROVE  Queued'
  BY DEF Queued

\* A step that empties the connection.
LEMMA QueuedClosed ==
  ASSUME wire' = <<>>
  PROVE  Queued'
  BY DEF Queued

\* Taking the first request off the connection moves at most its sender.
LEMMA QueuedTail ==
  ASSUME Typed, Queued, wire # <<>>, wire' = Tail(wire),
         \A w \in Worker : w # Head(wire).from => pc'[w] = pc[w]
  PROVE  Queued'
<1>1. /\ Head(wire) = wire[1] /\ 1 \in 1..Len(wire)
      /\ Len(wire') = Len(wire) - 1
      /\ \A i \in 1..Len(wire') : i + 1 \in 1..Len(wire) /\ wire'[i] = wire[i + 1]
  BY DEF Typed
<1> QED  BY <1>1 DEF Queued, Typed

\* Every step keeps at most one awaited request per handler on the connection.
LEMMA QueuedStep ==
  ASSUME Typed, Queued, [Next]_vars
  PROVE  Queued'
<1> DEFINE Quiet == UNCHANGED wire /\ \A w \in Worker : pc[w] = "wait" => pc'[w] = "wait"
<1> USE DEF Typed
<1>1. ASSUME NEW w \in Worker, Start(w)
      PROVE  Quiet
  BY <1>1 DEF Start, Create, Update, Reapply, Delete, StartPatch, NodeUpdated, StartReconcile,
              Begin, bridge
<1>2. ASSUME NEW w \in Worker, Connect(w) \/ Lock(w)
      PROVE  Quiet
  BY <1>2 DEF Connect, Lock, StartReconcile, Begin, Goto, bridge
<1>3. ASSUME NEW w \in Worker, Reread(w) \/ ReadNode(w) \/ Check(w) \/ Defer(w) \/ Miss(w)
      PROVE  Quiet
  BY <1>3 DEF Reread, ReadNode, Check, Defer, Miss, Return, Goto, bridge
<1>4. ASSUME NEW w \in Worker, Reply(w) \/ RecordApply(w) \/ RecordRemoval(w) \/ ListRows(w)
      PROVE  Quiet
  BY <1>4 DEF Reply, RecordApply, RecordRemoval, ListRows, Return, Goto, bridge
<1>5. ASSUME NEW w \in Worker, Pick(w) \/ ReadCopy(w) \/ WriteCopy(w) \/ ReadResult(w)
      PROVE  Quiet
  BY <1>5 DEF Pick, ReadCopy, WriteCopy, ReadResult, Goto, bridge
<1>6. ASSUME NEW w \in Worker, ListForAccess(w) \/ BumpRow(w)
      PROVE  Quiet
  BY <1>6 DEF ListForAccess, BumpRow, Goto, bridge
<1>7. CASE UNCHANGED vars
  BY <1>7, QueuedKept DEF vars
<1>8. ASSUME NEW w \in Worker, Send(w)
      PROVE  Queued'
  <2> DEFINE r == [from |-> w, op |-> task[w].op, d |-> task[w].d, rev |-> task[w].rev,
                   full |-> view[w].full]
  <2>1. wire' = Append(wire, r) /\ pc[w] = "send" /\ pc' = [pc EXCEPT ![w] = "wait"]
    BY <1>8 DEF Send, Goto
  <2>2. r.from = w
    OBVIOUS
  <2> HIDE DEF r
  <2>3. /\ Len(wire') = Len(wire) + 1 /\ wire'[Len(wire) + 1] = r
        /\ \A i \in 1..Len(wire) : wire'[i] = wire[i] /\ wire[i].from # w
    BY <2>1 DEF Queued
  <2> QED  BY <2>1, <2>2, <2>3 DEF Queued
<1>9. ASSUME NEW w \in Worker, React(w)
      PROVE  Queued'
  <2>1. CASE view[w].enabled
    BY <1>9, <2>1, QueuedKept DEF React
  <2>2. CASE ~view[w].enabled
    BY <1>9, <2>2, QueuedClosed DEF React
  <2> QED  BY <2>1, <2>2
<1>10. CASE Disconnect \/ Restart
  BY <1>10, QueuedClosed DEF Disconnect, Restart
<1>11. ASSUME NEW w \in Worker, Timeout(w) \/ Abort(w)
       PROVE  Queued'
  <2>1. wire' = Abandoned(w) /\ \A v \in Worker : v # w => pc'[v] = pc[v]
    BY <1>11 DEF Timeout, Abort, Goto
  <2>2. /\ Len(wire') = Len(wire)
        /\ \A i \in 1..Len(wire) :
             wire'[i].from = IF wire[i].from = w THEN Nobody ELSE wire[i].from
    BY <2>1, AbandonedFacts
  <2>3. \A i \in 1..Len(wire') : wire'[i].from \in Worker =>
          wire[i].from = wire'[i].from /\ wire[i].from # w
    BY <2>2, SyncConstants
  <2> QED  BY <2>1, <2>2, <2>3 DEF Queued
<1>12. CASE Handle
  BY <1>12, QueuedTail DEF Handle
<1>13. CASE Cancelled \/ Refuse
  BY <1>13, QueuedTail DEF Cancelled, Refuse
<1>14. ASSUME NEW w \in Worker, Step(w)
       PROVE  Queued'
  <2>1. Quiet \/ Send(w) \/ React(w)
    BY <1>3, <1>4, <1>5, <1>6, <1>14 DEF Step
  <2> QED  BY <1>8, <1>9, <2>1, QueuedKept
<1> HIDE DEF Typed
<1> QED  BY <1>1, <1>2, <1>7, <1>10, <1>11, <1>12, <1>13, <1>14, QueuedKept DEF Next

--------------------------------------------------------------------------------
\* What a row says.

\* Every step leaves a row alone, makes it pending, records an answer in it or
\* defers it; a row is created once and deleted for good.
LEMMA RowSteps ==
  ASSUME Typed, [Next]_vars, NEW d \in Deployment
  PROVE  \/ row'[d] = row[d]
         \/ /\ row'[d].status = "pending"
            /\ \/ row[d].state = "live" /\ row'[d].state \in {"live", "gone"}
               \/ row[d].state = "none" /\ row'[d].state = "live"
         \/ \E w \in Worker : /\ RecordApply(w) /\ task[w].d = d
                             /\ row'[d] = Recorded(row[d], task[w].rev, pc[w] = "succeed")
         \/ \E rev \in Nat : row'[d] = Deferred(row[d], rev)
<1> USE DEF Typed
<1> DEFINE Touched == /\ row'[d].status = "pending"
                      /\ \/ row[d].state = "live" /\ row'[d].state \in {"live", "gone"}
                         \/ row[d].state = "none" /\ row'[d].state = "live"
<1>1. ASSUME NEW r \in RowN, NEW b \in BOOLEAN
      PROVE  Bumped(r, b).status = "pending" /\ Bumped(r, b).state = r.state
  BY DEF Bumped, RowN
<1>2. ASSUME NEW w \in Worker, NEW e \in Deployment, NEW b \in BOOLEAN, Create(w, e, b)
      PROVE  row'[d] = row[d] \/ Touched
  BY <1>2 DEF Create
<1>3. ASSUME NEW w \in Worker, NEW e \in Deployment, NEW b \in BOOLEAN, Update(w, e, b)
      PROVE  row'[d] = row[d] \/ Touched
  BY <1>1, <1>3 DEF Update, Live
<1>4. ASSUME NEW w \in Worker, NEW e \in Deployment, Delete(w, e)
      PROVE  row'[d] = row[d] \/ Touched
  BY <1>4 DEF Delete, Absent, Live
<1>5. ASSUME NEW w \in Worker, Start(w)
      PROVE  row'[d] = row[d] \/ Touched
  <2>1. CASE \E e \in Deployment : Reapply(w, e)
    BY <2>1 DEF Reapply, db
  <2>2. CASE (\E form \in Patches : StartPatch(w, form)) \/ NodeUpdated(w)
    BY <2>2 DEF StartPatch, NodeUpdated, db
  <2> QED  BY <1>2, <1>3, <1>4, <1>5, <2>1, <2>2 DEF Start
<1>6. ASSUME NEW w \in Worker, Defer(w)
      PROVE  row'[d] = row[d] \/ \E rev \in Nat : row'[d] = Deferred(row[d], rev)
  BY <1>6 DEF Defer, TaskN, Busy
<1>7. ASSUME NEW w \in Worker, RecordApply(w)
      PROVE  \/ row'[d] = row[d]
             \/ task[w].d = d /\ row'[d] = Recorded(row[d], task[w].rev, pc[w] = "succeed")
  <2> DEFINE ok == pc[w] = "succeed"
  <2>1. row' = [row EXCEPT ![task[w].d] = Recorded(row[task[w].d], task[w].rev, ok)]
    BY <1>7 DEF RecordApply
  <2> HIDE DEF ok
  <2>2. row'[d] = row[d] \/ (task[w].d = d /\ row'[d] = Recorded(row[d], task[w].rev, ok))
    BY <2>1
  <2> QED  BY <2>2 DEF ok
<1>8. ASSUME NEW w \in Worker, BumpRow(w)
      PROVE  row'[d] = row[d] \/ Touched
  <2>1. PICK t \in todo[w] : BumpRow(w)!2!(t)
    BY <1>8 DEF BumpRow
  <2>2. \/ row' = row
        \/ Live(t.d) /\ row' = [row EXCEPT ![t.d] = Bumped(row[t.d], row[t.d].enabled)]
    BY <2>1
  <2>3. Bumped(row[d], row[d].enabled).status = "pending" /\ Bumped(row[d], row[d].enabled).state = row[d].state
    BY <1>1 DEF RowN
  <2> QED  BY <2>2, <2>3 DEF Live
<1>9. ASSUME NEW w \in Worker, Step(w)
      PROVE  row' = row \/ Defer(w) \/ RecordApply(w) \/ BumpRow(w)
  BY <1>9 DEF Step, Reread, ReadNode, Check, Miss, Send, Reply, RecordRemoval, ListRows, Pick,
              ReadCopy, WriteCopy, ReadResult, React, ListForAccess, db
<1>10. ASSUME NEW w \in Worker, Connect(w) \/ Lock(w) \/ Timeout(w) \/ Abort(w)
       PROVE  row' = row
  BY <1>10 DEF Connect, Lock, Timeout, Abort, db
<1>11. CASE Handle \/ Cancelled \/ Disconnect \/ Refuse \/ Restart
  BY <1>11 DEF Handle, Cancelled, Disconnect, Refuse, Restart, db
<1>12. CASE UNCHANGED vars
  BY <1>12 DEF vars
<1> HIDE DEF Typed
<1> QED  BY <1>5, <1>6, <1>7, <1>8, <1>9, <1>10, <1>11, <1>12 DEF Next

\* One row of StatusIsCurrent.
CurrentRow(r) ==
  r.status \in {"applied", "disabled"} =>
    /\ r.applied = r.rev
    /\ (r.status = "applied") <=> r.enabled

\* An answer is recorded only at the revision it answers, with the status of
\* the row's own enabled flag.
LEMMA RecordedIsCurrent ==
  ASSUME NEW r \in RowN, CurrentRow(r), NEW rev \in Nat, NEW ok \in BOOLEAN
  PROVE  CurrentRow(Recorded(r, rev, ok)) /\ CurrentRow(Deferred(r, rev))
<1>1. CurrentRow(Deferred(r, rev))
  BY DEF Deferred, CurrentRow, RowN
<1>2. CASE r.state # "live" \/ r.rev # rev
  BY <1>1, <1>2 DEF Recorded
<1>3. CASE ok /\ r.state = "live" /\ r.rev = rev
  <2> DEFINE st == IF r.enabled THEN "applied" ELSE "disabled"
             s == [r EXCEPT !.applied = rev, !.status = st]
  <2>1. Recorded(r, rev, ok) = s
    BY <1>3 DEF Recorded
  <2>2. s.applied = rev /\ s.rev = r.rev /\ s.status = st /\ s.enabled = r.enabled
    BY DEF RowN
  <2>3. (st = "applied") <=> r.enabled
    OBVIOUS
  <2> HIDE DEF s, st
  <2> QED  BY <1>1, <1>3, <2>1, <2>2, <2>3 DEF CurrentRow
<1>4. CASE ~ok /\ r.state = "live" /\ r.rev = rev
  BY <1>1, <1>4 DEF Recorded, CurrentRow, RowN
<1> QED  BY <1>2, <1>3, <1>4

\* Every step keeps what the rows say current.
LEMMA StatusStep ==
  ASSUME Typed, StatusIsCurrent, [Next]_vars
  PROVE  StatusIsCurrent'
<1> SUFFICES ASSUME NEW d \in Deployment
             PROVE  CurrentRow(row'[d])
  BY DEF StatusIsCurrent, CurrentRow
<1>1. row[d] \in RowN /\ CurrentRow(row[d])
  BY DEF Typed, StatusIsCurrent, CurrentRow
<1>2. \A rev \in Nat, ok \in BOOLEAN :
        CurrentRow(Recorded(row[d], rev, ok)) /\ CurrentRow(Deferred(row[d], rev))
  BY <1>1, RecordedIsCurrent
<1>3. row'[d].status = "pending" => CurrentRow(row'[d])
  BY DEF CurrentRow
<1>4. ASSUME NEW w \in Worker, RecordApply(w), task[w].d = d,
             row'[d] = Recorded(row[d], task[w].rev, pc[w] = "succeed")
      PROVE  CurrentRow(row'[d])
  <2> DEFINE ok == pc[w] = "succeed"
  <2>1. ok \in BOOLEAN /\ row'[d] = Recorded(row[d], task[w].rev, ok)
    BY <1>4
  <2>2. task[w].rev \in Nat
    BY DEF Typed, TaskN
  <2> HIDE DEF ok
  <2> QED  BY <1>2, <2>1, <2>2
<1> QED  BY <1>1, <1>2, <1>3, <1>4, RowSteps

\* The gateway routes by the row: for any number of handlers, answers and
\* faults, a row that says applied or disabled says so of its own desired
\* revision and enabled flag (RecordApplyResult).
THEOREM RowsStayCurrent == Spec => []StatusIsCurrent
<1>1. Init => StatusIsCurrent
  BY DEF Init, StatusIsCurrent, Absent
<1>2. Typed /\ Queued /\ StatusIsCurrent /\ [Next]_vars => (Typed /\ Queued /\ StatusIsCurrent)'
  BY SyncConstants, TypedStep, QueuedStep, StatusStep
<1> QED  BY <1>1, <1>2, TypedInit, QueuedInit, PTL DEF Spec

--------------------------------------------------------------------------------
\* Who may change what.

\* A step changes the connection by emptying it, by taking its first request
\* off, by one Send, or by giving up on an answer.
LEMMA WireSteps ==
  ASSUME [Next]_vars
  PROVE  \/ wire' = wire
         \/ wire' = <<>>
         \/ wire # <<>> /\ wire' = Tail(wire)
         \/ \E w \in Worker : Send(w)
         \/ \E w \in Worker : wire' = Abandoned(w)
<1>1. ASSUME NEW w \in Worker, Start(w) \/ Connect(w) \/ Lock(w)
      PROVE  wire' = wire
  BY <1>1 DEF Start, Create, Update, Reapply, Delete, StartPatch, NodeUpdated, Connect, Lock, bridge
<1>2. ASSUME NEW w \in Worker, Step(w)
      PROVE  wire' = wire \/ wire' = <<>> \/ Send(w)
  BY <1>2 DEF Step, Reread, ReadNode, Check, Defer, Miss, Reply, RecordApply, RecordRemoval,
              ListRows, Pick, ReadCopy, WriteCopy, ReadResult, React, ListForAccess, BumpRow, bridge
<1>3. ASSUME NEW w \in Worker, Timeout(w) \/ Abort(w)
      PROVE  wire' = Abandoned(w)
  BY <1>3 DEF Timeout, Abort
<1>4. CASE Handle \/ Cancelled \/ Disconnect \/ Refuse \/ Restart
  BY <1>4 DEF Handle, Cancelled, Disconnect, Refuse, Restart
<1>5. CASE UNCHANGED vars
  BY <1>5 DEF vars
<1> QED  BY <1>1, <1>2, <1>3, <1>4, <1>5 DEF Next

\* Only the node changes what it holds.
LEMMA HeldSteps ==
  ASSUME [Next]_vars
  PROVE  held' = held \/ Handle
<1>1. ASSUME NEW w \in Worker, Start(w) \/ Connect(w) \/ Lock(w)
      PROVE  held' = held
  BY <1>1 DEF Start, Create, Update, Reapply, Delete, StartPatch, NodeUpdated, Connect, Lock, bridge
<1>2. ASSUME NEW w \in Worker, Step(w)
      PROVE  held' = held
  BY <1>2 DEF Step, Reread, ReadNode, Check, Defer, Miss, Send, Reply, RecordApply, RecordRemoval,
              ListRows, Pick, ReadCopy, WriteCopy, ReadResult, React, ListForAccess, BumpRow, bridge
<1>3. ASSUME NEW w \in Worker, Timeout(w) \/ Abort(w)
      PROVE  held' = held
  BY <1>3 DEF Timeout, Abort
<1>4. CASE Cancelled \/ Disconnect \/ Refuse \/ Restart
  BY <1>4 DEF Cancelled, Disconnect, Refuse, Restart
<1>5. CASE UNCHANGED vars
  BY <1>5 DEF vars
<1> QED  BY <1>1, <1>2, <1>3, <1>4, <1>5 DEF Next

\* What a step of worker v does to v, as far as an apply under way goes: it
\* takes the lock, passes the re-read, gets its answer, moves on somewhere else,
\* or is not under way any more.
Moves(v) ==
  \/ pc'[v] = pc[v] /\ task'[v] = task[v]
  \/ task'[v] = task[v] /\ pc[v] \in Under /\ Reread(v) /\ pc'[v] = "node"
  \/ task'[v] = task[v] /\ pc[v] \in Under /\ Reply(v)
  \/ task'[v] = task[v] /\ pc[v] = "wait" /\ Handle /\ Head(wire).from = v /\ wire # <<>>
  \/ task'[v] = task[v] /\ pc[v] \in Ready /\ pc'[v] \in Ready \ {"reply", "succeed"}
  \/ task'[v] = task[v] /\ Lock(v)
  \/ pc'[v] \notin Under
  \/ pc'[v] = "check" /\ task'[v].op # "apply"

\* Every handler moves in one of these ways in every step.
LEMMA WorkerSteps ==
  ASSUME Typed, Queued, [Next]_vars, NEW v \in Worker
  PROVE  Moves(v)
<1> USE DEF Typed, Moves, Under, Ready, Busy
<1>1. ASSUME NEW w \in Worker, Start(w) \/ Connect(w)
      PROVE  Moves(v)
  BY <1>1 DEF Start, Create, Update, Reapply, Delete, StartPatch, NodeUpdated, Connect,
              StartReconcile, Begin, Remove, bridge
<1>2. ASSUME NEW w \in Worker, Lock(w)
      PROVE  Moves(v)
  BY <1>2 DEF Lock, Goto, local
<1>3. ASSUME NEW w \in Worker, Reread(w)
      PROVE  Moves(v)
  <2>1. CASE Live(task[w].d) /\ row[task[w].d].rev = task[w].rev
    BY <1>3, <2>1 DEF Reread, Goto, local
  <2>2. CASE ~(Live(task[w].d) /\ row[task[w].d].rev = task[w].rev)
    BY <1>3, <2>2 DEF Reread, Return, Goto
  <2> QED  BY <2>1, <2>2
<1>4. ASSUME NEW w \in Worker, ReadNode(w) \/ Check(w) \/ Miss(w) \/ Send(w)
      PROVE  Moves(v)
  BY <1>4 DEF ReadNode, Check, Miss, Send, Goto, local
<1>5. ASSUME NEW w \in Worker, Defer(w) \/ RecordApply(w) \/ RecordRemoval(w)
      PROVE  Moves(v)
  BY <1>5 DEF Defer, RecordApply, RecordRemoval, Return, Goto
<1>6. ASSUME NEW w \in Worker, Reply(w)
      PROVE  Moves(v)
  BY <1>6 DEF Reply, Goto, local
<1>7. ASSUME NEW w \in Worker, ListRows(w) \/ Pick(w)
      PROVE  Moves(v)
  BY <1>7 DEF ListRows, Pick, Goto
<1>8. ASSUME NEW w \in Worker, ReadCopy(w) \/ WriteCopy(w) \/ ReadResult(w)
      PROVE  Moves(v)
  BY <1>8 DEF ReadCopy, WriteCopy, ReadResult, Goto, local
<1>9. ASSUME NEW w \in Worker, ListForAccess(w) \/ BumpRow(w)
      PROVE  Moves(v)
  BY <1>9 DEF ListForAccess, BumpRow, Goto
<1>10. ASSUME NEW w \in Worker, React(w)
       PROVE  Moves(v)
  <2>1. task' = task
    BY <1>10 DEF React
  <2>2. v # w => pc'[v] = pc[v] \/ (pc[v] \in {"wait", "reply"} /\ pc'[v] = "fail")
    BY <1>10 DEF React, Interrupted
  <2>3. v = w => pc'[v] \in {"list", "idle"}
    BY <1>10 DEF React, Interrupted
  <2> QED  BY <2>1, <2>2, <2>3
<1>11. ASSUME NEW w \in Worker, Timeout(w) \/ Abort(w)
       PROVE  Moves(v)
  BY <1>11 DEF Timeout, Abort, Goto, local
<1>12. CASE Handle
  <2>1. wire # <<>> /\ task' = task
    BY <1>12 DEF Handle, local
  <2>2. Head(wire) = wire[1] /\ 1 \in 1..Len(wire)
    BY <2>1
  <2>3. CASE Head(wire).from = v
    BY <1>12, <2>1, <2>2, <2>3 DEF Queued
  <2>4. CASE Head(wire).from # v
    BY <1>12, <2>1, <2>4 DEF Handle
  <2> QED  BY <2>3, <2>4
<1>13. CASE Disconnect
  BY <1>13 DEF Disconnect, Interrupted, local
<1>14. CASE Refuse
  <2>1. wire # <<>> /\ task' = task /\ Head(wire).from \in Worker
        /\ pc' = [pc EXCEPT ![Head(wire).from] = "fail"]
    BY <1>14 DEF Refuse, local
  <2>2. Head(wire) = wire[1] /\ 1 \in 1..Len(wire)
    BY <2>1
  <2> QED  BY <2>1, <2>2 DEF Queued
<1>15. CASE Cancelled \/ UNCHANGED vars
  BY <1>15 DEF Cancelled, vars, local
<1>16. CASE Restart
  BY <1>16 DEF Restart
<1>17. ASSUME NEW w \in Worker, Step(w)
       PROVE  Moves(v)
  BY <1>3, <1>4, <1>5, <1>6, <1>7, <1>8, <1>9, <1>10, <1>17 DEF Step
<1> HIDE DEF Typed, Moves, Under, Ready, Busy
<1> QED  BY <1>1, <1>2, <1>11, <1>12, <1>13, <1>14, <1>15, <1>16, <1>17 DEF Next

--------------------------------------------------------------------------------
\* The lock.

\* Nobody is under way at first.
LEMMA LockedInit == Init => Locked
  BY DEF Init, Locked, Holding, Under, Busy

\* Whoever holds the lock keeps it until it is done with its apply: the lock is
\* released only by the handler that has it, which is then no longer under way.
LEMMA LockedStep ==
  ASSUME SyncConstants, Typed, Queued, Locked, [Next]_vars
  PROVE  Locked'
<1> SUFFICES ASSUME NEW v \in Worker, NEW d \in Deployment, Holding(v, d)'
             PROVE  lock'[d] = v
  BY DEF Locked
<1>1. task'[v] = task[v] /\ pc'[v] \in Under /\ task[v].op = "apply" /\ task[v].d = d
      /\ (pc[v] \in Under \/ Lock(v))
  <2>1. Moves(v)
    BY WorkerSteps
  <2> QED  BY <2>1 DEF Moves, Holding, Ready, Under, Busy
<1>2. CASE Lock(v)
  BY <1>1, <1>2 DEF Lock, Typed
<1>3. CASE pc[v] \in Under
  <2> SUFFICES lock'[d] = lock[d]
    BY <1>1, <1>3 DEF Locked, Holding
  <2>1. lock[d] = v
    BY <1>1, <1>3 DEF Locked, Holding
  <2> USE DEF Typed
  <2>2. ASSUME NEW w \in Worker, Lock(w)
        PROVE  lock'[d] = lock[d]
    BY <2>1, <2>2, SyncConstants DEF Lock, Free
  <2>3. ASSUME NEW w \in Worker, pc[w] \in Under, task[w].op = "apply", task[w].d \in Deployment,
               Unlocked(task[w].d), pc'[w] \notin Under
        PROVE  lock'[d] = lock[d]
    <3>1. w # v
      BY <1>1, <2>3
    <3>2. lock[task[w].d] = w
      BY <2>3 DEF Locked, Holding
    <3> QED  BY <2>1, <2>3, <3>1, <3>2 DEF Unlocked
  <2>4. ASSUME NEW w \in Worker, Return(w)
        PROVE  pc'[w] \notin Under
    BY <2>4 DEF Return, Goto, Under, Busy
  <2>5. ASSUME NEW w \in Worker, Reread(w)
        PROVE  lock'[d] = lock[d]
    BY <2>3, <2>4, <2>5 DEF Reread, Under, Busy
  <2>6. ASSUME NEW w \in Worker, Defer(w) \/ RecordApply(w)
        PROVE  lock'[d] = lock[d]
    BY <2>3, <2>4, <2>6 DEF Defer, RecordApply, Under, Busy
  <2>7. ASSUME NEW w \in Worker, Abort(w)
        PROVE  lock'[d] = lock[d]
    <3>1. w # v
      BY <1>1, <2>7 DEF Abort, Goto, Under, Busy
    <3> QED  BY <2>1, <2>7, <3>1 DEF Abort
  <2>8. ~Restart
    BY <1>1 DEF Restart, Under, Busy
  <2>9. ASSUME NEW w \in Worker, Step(w)
        PROVE  lock'[d] = lock[d]
    <3>1. \/ Reread(w) \/ Defer(w) \/ RecordApply(w)
          \/ lock' = lock
      BY <2>9 DEF Step, ReadNode, Check, Miss, Send, Reply, RecordRemoval, ListRows, Pick,
                  ReadCopy, WriteCopy, ReadResult, React, ListForAccess, BumpRow
    <3> QED  BY <2>5, <2>6, <3>1
  <2>10. ASSUME NEW w \in Worker, Start(w) \/ Connect(w) \/ Timeout(w)
         PROVE  lock' = lock
    BY <2>10 DEF Start, Create, Update, Reapply, Delete, StartPatch, NodeUpdated, Connect, Timeout
  <2>11. CASE Handle \/ Cancelled \/ Disconnect \/ Refuse
    BY <2>11 DEF Handle, Cancelled, Disconnect, Refuse
  <2>12. CASE UNCHANGED vars
    BY <2>12 DEF vars
  <2> HIDE DEF Typed
  <2> QED  BY <2>2, <2>7, <2>8, <2>9, <2>10, <2>11, <2>12 DEF Next
<1> QED  BY <1>1, <1>2, <1>3

--------------------------------------------------------------------------------
\* What work refers to.

\* There is no work at first.
LEMMA KnownInit == Init => Known
  BY DEF Init, Known, Busy

\* What work may refer to, it may refer to for good.
LEMMA MayStay ==
  ASSUME Typed, [Next]_vars, NEW d \in Deployment, NEW op, May(op, d)
  PROVE  May(op, d)' /\ (Live(d)' => Live(d))
<1>1. row[d] \in RowN
  BY DEF Typed
<1>2. ASSUME NEW w \in Worker, RecordApply(w), row'[d] = Recorded(row[d], task[w].rev, pc[w] = "succeed")
      PROVE  row'[d].state = row[d].state
  <2> DEFINE ok == pc[w] = "succeed"
  <2>1. ok \in BOOLEAN /\ row'[d] = Recorded(row[d], task[w].rev, ok)
    BY <1>2
  <2>2. task[w].rev \in Nat
    BY DEF Typed, TaskN
  <2> HIDE DEF ok
  <2> QED  BY <1>1, <2>1, <2>2, RowFacts
<1>3. \A rev \in Nat : row'[d] = Deferred(row[d], rev) => row'[d].state = row[d].state
  BY <1>1, RowFacts
<1>4. \/ row'[d].state = row[d].state
      \/ row[d].state = "live" /\ row'[d].state \in {"live", "gone"}
      \/ row[d].state = "none"
  BY <1>2, <1>3, RowSteps
<1> QED  BY <1>4 DEF May, Live

\* A handler only takes up Deployments that exist, and only removes deleted ones.
LEMMA KnownStep ==
  ASSUME Typed, Queued, Known, [Next]_vars
  PROVE  Known'
<1> DEFINE Then(op, d) == row'[d].state # "none" /\ (op = "remove" => row'[d].state = "gone")
<1>1. \A d \in Deployment : \A op : May(op, d) => Then(op, d)
  BY MayStay DEF May
<1> HIDE DEF Then
<1>2. \A d \in removal' : row'[d].state = "gone"
  <2>1. \A d \in removal : row'[d].state = "gone"
    <3>1. \A d \in removal : d \in Deployment /\ May("remove", d)
      BY DEF Known, May, Typed
    <3>2. \A d \in removal : Then("remove", d)
      BY <1>1, <3>1
    <3> QED  BY <3>2 DEF Then
  <2>2. ASSUME NEW w \in Worker, NEW d \in Deployment, Delete(w, d)
        PROVE  \A e \in removal' : e \in removal \/ row'[e].state = "gone"
    BY <2>2 DEF Delete, Absent, Typed
  <2>3. ASSUME NEW w \in Worker, Start(w)
        PROVE  \A e \in removal' : e \in removal \/ row'[e].state = "gone"
    BY <2>2, <2>3 DEF Start, Create, Update, Reapply, StartPatch, NodeUpdated, db
  <2>4. ASSUME NEW w \in Worker, Step(w)
        PROVE  removal' \subseteq removal
    BY <2>4 DEF Step, Reread, ReadNode, Check, Defer, Miss, Send, Reply, RecordApply, RecordRemoval,
                ListRows, Pick, ReadCopy, WriteCopy, ReadResult, React, ListForAccess, BumpRow, db
  <2>5. ASSUME NEW w \in Worker, Connect(w) \/ Lock(w) \/ Timeout(w) \/ Abort(w)
        PROVE  removal' = removal
    BY <2>5 DEF Connect, Lock, Timeout, Abort, db
  <2>6. CASE Handle \/ Cancelled \/ Disconnect \/ Refuse \/ Restart
    BY <2>1, <2>6 DEF Handle, Cancelled, Disconnect, Refuse, Restart, db
  <2>7. CASE UNCHANGED vars
    BY <2>1, <2>7 DEF vars
  <2> QED  BY <2>1, <2>3, <2>4, <2>5, <2>6, <2>7 DEF Next
<1>3. ASSUME NEW v \in Worker
      PROVE  /\ pc'[v] \in Busy => Then(task'[v].op, task'[v].d)
             /\ \A t \in todo'[v] : Then(t.op, t.d)
  <2> DEFINE Same == task'[v] = task[v] /\ todo'[v] = todo[v] /\ (pc'[v] \in Busy => pc[v] \in Busy)
             Goal == /\ pc'[v] \in Busy => Then(task'[v].op, task'[v].d)
                     /\ \A t \in todo'[v] : Then(t.op, t.d)
  <2>1. \A t \in todo[v] : t.d \in Deployment /\ May(t.op, t.d)
    BY DEF Known, Typed
  <2>2. Same => Goal
    <3>1. pc[v] \in Busy => task[v].d \in Deployment /\ May(task[v].op, task[v].d)
      BY DEF Known, Typed
    <3>2. \A t \in todo[v] : Then(t.op, t.d)
      BY <1>1, <2>1
    <3>3. pc[v] \in Busy => Then(task[v].op, task[v].d)
      BY <1>1, <3>1
    <3> QED  BY <3>2, <3>3
  <2>3. ASSUME pc'[v] \notin Busy, \A t \in todo'[v] : t.d \in Deployment /\ May(t.op, t.d)
        PROVE  Goal
    BY <1>1, <2>3
  <2>4. ASSUME NEW w \in Worker, Start(w) \/ Connect(w), w # v
        PROVE  Same
    BY <2>4 DEF Start, Create, Update, Reapply, Delete, StartPatch, NodeUpdated, Connect,
                StartReconcile, Begin, bridge, Typed
  <2>5. ASSUME NEW d \in Deployment, NEW b \in BOOLEAN, Create(v, d, b) \/ Update(v, d, b)
        PROVE  Goal
    <3>1. task'[v].d = d /\ task'[v].op = "apply" /\ todo' = todo /\ row'[d].state = "live"
      BY <2>5, RowFacts DEF Create, Update, Begin, Apply, Typed, Live
    <3> QED  BY <1>1, <2>1, <3>1 DEF Then
  <2>6. ASSUME NEW d \in Deployment, Reapply(v, d) \/ Delete(v, d)
        PROVE  Goal
    <3>1. task'[v].d = d /\ todo' = todo
          /\ \/ task'[v].op = "apply" /\ row'[d].state = "live"
             \/ task'[v].op = "remove" /\ row'[d].state = "gone"
      BY <2>6 DEF Reapply, Delete, Begin, Apply, Remove, Absent, Typed, Live, db
    <3> QED  BY <1>1, <2>1, <3>1 DEF Then
  <2>7. ASSUME NEW form \in Patches, StartPatch(v, form)
        PROVE  Goal
    BY <2>1, <2>3, <2>7 DEF StartPatch, Begin, Typed, Busy
  <2>8. ASSUME Connect(v) \/ NodeUpdated(v)
        PROVE  Goal
    <3>1. pc'[v] = "next" /\ todo'[v] = {Remove(d) : d \in removal}
      BY <2>8 DEF Connect, NodeUpdated, StartReconcile, Begin, Typed
    <3>2. \A d \in removal : d \in Deployment /\ May("remove", d)
      BY DEF Known, May, Typed
    <3> QED  BY <2>3, <3>1, <3>2 DEF Remove, Busy
  <2>9. ASSUME NEW w \in Worker, Start(w) \/ Connect(w)
        PROVE  Goal
    BY <2>2, <2>4, <2>5, <2>6, <2>7, <2>8, <2>9 DEF Start
  <2>10. ASSUME NEW w \in Worker, Lock(w) \/ ReadNode(w) \/ Check(w) \/ Miss(w) \/ Send(w) \/ Reply(w)
                                   \/ Timeout(w)
         PROVE  Same
    BY <2>10 DEF Lock, ReadNode, Check, Miss, Send, Reply, Timeout, Goto, local, Typed, Busy
  <2>11. ASSUME NEW w \in Worker, Return(w)
         PROVE  Goal
    <3>1. w # v => Same
      BY <2>11 DEF Return, Goto, Typed
    <3>2. w = v => pc'[v] \notin Busy /\ todo' = todo
      BY <2>11 DEF Return, Goto, Typed, Busy
    <3> QED  BY <2>1, <2>2, <2>3, <3>1, <3>2
  <2>12. ASSUME NEW w \in Worker, Reread(w) \/ Defer(w) \/ RecordApply(w) \/ RecordRemoval(w)
         PROVE  Goal
    <3>1. Return(w) \/ Same
      BY <2>12 DEF Reread, Defer, RecordApply, RecordRemoval, Goto, local, Typed, Busy
    <3> QED  BY <2>2, <2>11, <3>1
  <2>13. ASSUME NEW w \in Worker, ListRows(w) \/ ListForAccess(w)
         PROVE  Goal
    <3>1. w # v => Same
      BY <2>13 DEF ListRows, ListForAccess, Goto, Typed
    <3>2. w = v => pc'[v] \in {"idle", "next"}
      BY <2>13 DEF ListRows, ListForAccess, Goto, Typed
    <3>3. w = v => \A t \in todo'[v] : t.d \in Deployment /\ May(t.op, t.d)
      BY <2>13 DEF ListRows, ListForAccess, Apply, Bump, Live, May, Typed
    <3> QED  BY <2>2, <2>3, <3>1, <3>2, <3>3 DEF Busy
  <2>14. ASSUME NEW w \in Worker, Pick(w)
         PROVE  Goal
    <3>1. w # v => Same
      BY <2>14 DEF Pick, Goto, Typed
    <3>2. w = v => task'[v] \in todo[v] /\ todo'[v] \subseteq todo[v]
      BY <2>14 DEF Pick, Typed
    <3> QED  BY <1>1, <2>1, <2>2, <3>1, <3>2
  <2>15. ASSUME NEW w \in Worker, BumpRow(w)
         PROVE  Goal
    <3>1. w # v => Same
      BY <2>15 DEF BumpRow, Goto, Typed
    <3>2. CASE w = v
      <4>1. PICK t \in todo[v] : BumpRow(w)!2!(t)
        BY <2>15, <3>2 DEF BumpRow
      <4>2. todo'[v] \subseteq todo[v] /\ t.d \in Deployment
        BY <2>1, <4>1, <3>2 DEF Typed
      <4>3. CASE Live(t.d) /\ row[t.d].rev = t.rev
        <5>1. task'[v] = Apply(t.d, t.rev + 1)
          BY <3>2, <4>1, <4>3 DEF Typed
        <5>2. task'[v].op = "apply" /\ task'[v].d = t.d
          BY <5>1 DEF Apply
        <5>3. Then("apply", t.d)
          BY <1>1, <4>2, <4>3 DEF May, Live
        <5> QED  BY <1>1, <2>1, <4>2, <5>2, <5>3
      <4>4. CASE ~(Live(t.d) /\ row[t.d].rev = t.rev)
        <5>1. pc'[v] \in {"idle", "next"}
          BY <3>2, <4>1, <4>4 DEF Goto, Typed
        <5> QED  BY <2>1, <2>3, <4>2, <5>1 DEF Busy
      <4> QED  BY <4>3, <4>4
    <3> QED  BY <2>2, <3>1, <3>2
  <2>16. ASSUME NEW w \in Worker, ReadCopy(w) \/ WriteCopy(w) \/ ReadResult(w)
         PROVE  Same
    BY <2>16 DEF ReadCopy, WriteCopy, ReadResult, Goto, local, Typed, Busy
  <2>17. ASSUME NEW w \in Worker, React(w)
         PROVE  Same
    BY <2>17 DEF React, Interrupted, Typed, Busy
  <2>18. ASSUME NEW w \in Worker, Abort(w)
         PROVE  Goal
    <3>1. w # v => Same
      BY <2>18 DEF Abort, Goto, Typed
    <3>2. w = v => pc'[v] \notin Busy /\ todo'[v] = {}
      BY <2>18 DEF Abort, Goto, Typed, Busy
    <3> QED  BY <2>2, <2>3, <3>1, <3>2
  <2>19. ASSUME Handle \/ Refuse
         PROVE  Goal
    <3>1. wire # <<>> /\ UNCHANGED local
      BY <2>19 DEF Handle, Refuse
    <3>2. Head(wire) = wire[1] /\ 1 \in 1..Len(wire)
      BY <3>1 DEF Typed
    <3>3. pc'[v] = pc[v] \/ pc[v] = "wait"
      BY <2>19, <3>2 DEF Handle, Refuse, Queued, Typed
    <3>4. Same
      BY <3>1, <3>3 DEF local, Busy
    <3> QED  BY <2>2, <3>4
  <2>20. ASSUME Cancelled \/ Disconnect \/ UNCHANGED vars
         PROVE  Goal
    <3>1. Same
      BY <2>20 DEF Cancelled, Disconnect, Interrupted, vars, local, Typed, Busy
    <3> QED  BY <2>2, <3>1
  <2>21. ASSUME Restart
         PROVE  Goal
    BY <2>3, <2>21 DEF Restart, Busy
  <2>22. ASSUME NEW w \in Worker, Step(w)
         PROVE  Goal
    BY <2>2, <2>10, <2>12, <2>13, <2>14, <2>15, <2>16, <2>17, <2>22 DEF Step
  <2> HIDE DEF Same, Goal
  <2>23. ASSUME NEW w \in Worker, Lock(w) \/ Timeout(w)
         PROVE  Goal
    BY <2>2, <2>10, <2>23
  <2>24. Goal
    BY <2>9, <2>18, <2>19, <2>20, <2>21, <2>22, <2>23 DEF Next
  <2> QED  BY <2>24 DEF Goal
<1>4. \A i \in 1..Len(wire') : Then(wire'[i].op, wire'[i].d)
  <2>1. ASSUME NEW i \in 1..Len(wire)
        PROVE  wire[i].d \in Deployment /\ Then(wire[i].op, wire[i].d)
    <3>1. wire[i] \in RequestN
      BY DEF Typed
    <3> QED  BY <1>1, <3>1 DEF Known, RequestN
  <2>2. CASE wire' = wire \/ wire' = <<>>
    BY <2>1, <2>2
  <2>3. CASE wire # <<>> /\ wire' = Tail(wire)
    <3>1. \A i \in 1..Len(wire') : i + 1 \in 1..Len(wire) /\ wire'[i] = wire[i + 1]
      BY <2>3 DEF Typed
    <3> QED  BY <2>1, <3>1
  <2>4. ASSUME NEW w \in Worker, Send(w)
        PROVE  \A i \in 1..Len(wire') : Then(wire'[i].op, wire'[i].d)
    <3> DEFINE r == [from |-> w, op |-> task[w].op, d |-> task[w].d, rev |-> task[w].rev,
                     full |-> view[w].full]
    <3>1. wire' = Append(wire, r) /\ pc[w] = "send"
      BY <2>4 DEF Send
    <3>2. r.op = task[w].op /\ r.d = task[w].d
      OBVIOUS
    <3>3. task[w].d \in Deployment /\ Then(task[w].op, task[w].d)
      BY <1>1, <3>1 DEF Known, Typed, Busy
    <3> HIDE DEF r
    <3>4. \A i \in 1..Len(wire') : (i \in 1..Len(wire) /\ wire'[i] = wire[i]) \/ wire'[i] = r
      BY <3>1 DEF Typed
    <3> QED  BY <2>1, <3>2, <3>3, <3>4
  <2>5. ASSUME NEW w \in Worker, wire' = Abandoned(w)
        PROVE  \A i \in 1..Len(wire') : Then(wire'[i].op, wire'[i].d)
    <3>1. Len(wire') = Len(wire) /\ \A i \in 1..Len(wire) : wire'[i].op = wire[i].op /\ wire'[i].d = wire[i].d
      BY <2>5, AbandonedFacts DEF Typed
    <3> QED  BY <2>1, <3>1
  <2> QED  BY <2>2, <2>3, <2>4, <2>5, WireSteps
<1> QED  BY <1>2, <1>3, <1>4 DEF Known, May, Then

--------------------------------------------------------------------------------
\* The order of the connection.

\* While a live Deployment's lock is held, nobody else sends a request for it.
LEMMA OnlyHolderSends ==
  ASSUME Typed, Known, Locked, NEW w \in Worker, Send(w), Live(task[w].d)
  PROVE  Holding(w, task[w].d) /\ lock[task[w].d] = w
<1>1. pc[w] = "send"
  BY DEF Send
<1>2. task[w].op \in {"apply", "remove"} /\ task[w].d \in Deployment /\ May(task[w].op, task[w].d)
  BY <1>1 DEF Typed, Known, Busy
<1>3. task[w].op = "apply"
  BY <1>2 DEF May, Live
<1> QED  BY <1>1, <1>2, <1>3 DEF Locked, Holding, Under, Busy

\* What Send puts on the connection.
LEMMA SentLast ==
  ASSUME Typed, NEW w \in Worker, Send(w)
  PROVE  /\ Len(wire') = Len(wire) + 1
         /\ \A i \in 1..Len(wire) : wire'[i] = wire[i]
         /\ wire'[Len(wire) + 1].from = w
         /\ wire'[Len(wire) + 1].op = task[w].op
         /\ wire'[Len(wire) + 1].d = task[w].d
         /\ wire'[Len(wire) + 1].rev = task[w].rev
<1> DEFINE r == [from |-> w, op |-> task[w].op, d |-> task[w].d, rev |-> task[w].rev,
                 full |-> view[w].full]
<1>1. wire' = Append(wire, r)
  BY DEF Send
<1>2. r.from = w /\ r.op = task[w].op /\ r.d = task[w].d /\ r.rev = task[w].rev
  OBVIOUS
<1> HIDE DEF r
<1>3. Len(wire') = Len(wire) + 1 /\ wire'[Len(wire) + 1] = r
      /\ \A i \in 1..Len(wire) : wire'[i] = wire[i]
  BY <1>1 DEF Typed
<1> QED  BY <1>2, <1>3

\* No request is queued at first.
LEMMA OrderedInit == Init => Ordered
  BY DEF Init, Ordered

\* An awaited request stays the last one of its Deployment: its sender has the
\* lock, and a Deployment that exists is not being removed.
LEMMA OrderedStep ==
  ASSUME SyncConstants, Typed, Queued, Known, Locked, Ordered, [Next]_vars
  PROVE  Ordered'
<1>1. Queued' /\ Typed'
  BY QueuedStep, TypedStep
<1>2. ASSUME NEW v \in Worker, pc'[v] = "wait"
      PROVE  task'[v] = task[v]
  <2>1. Moves(v)
    BY WorkerSteps
  <2> QED  BY <1>2, <2>1 DEF Moves, Under, Busy, Ready, Reread, Goto, Reply, Lock, local
<1>3. \A d \in Deployment : \A op : May(op, d) => (row'[d].state = "live" => row[d].state = "live")
  BY MayStay DEF Live
<1>4. ASSUME NEW i \in 1..Len(wire)
      PROVE  /\ wire[i] \in RequestN /\ wire[i].d \in Deployment
             /\ row'[wire[i].d].state = "live" => row[wire[i].d].state = "live"
             /\ Live(wire[i].d) => wire[i].op = "apply"
  <2>1. wire[i] \in RequestN
    BY DEF Typed
  <2>2. wire[i].d \in Deployment /\ May(wire[i].op, wire[i].d) /\ wire[i].op \in {"apply", "remove"}
    BY <2>1 DEF Known, RequestN
  <2> QED  BY <1>3, <2>1, <2>2 DEF May, Live
<1> DEFINE Fits(q, i) ==
      /\ q[i].op = task'[q[i].from].op
      /\ q[i].d = task'[q[i].from].d
      /\ q[i].op = "apply" => q[i].rev = task'[q[i].from].rev
      /\ row'[q[i].d].state = "live" => \A j \in 1..Len(q) : q[j].d = q[i].d => j <= i
<1>5. SUFFICES ASSUME NEW i \in 1..Len(wire'), wire'[i].from \in Worker
               PROVE  Fits(wire', i)
  BY DEF Ordered, Live
<1>6. task'[wire'[i].from] = task[wire'[i].from]
  BY <1>1, <1>2, <1>5 DEF Queued
<1>7. CASE wire' = wire \/ wire' = <<>>
  BY <1>4, <1>5, <1>6, <1>7 DEF Ordered, Live
<1>8. CASE wire # <<>> /\ wire' = Tail(wire)
  <2>1. /\ Len(wire') = Len(wire) - 1 /\ i \in Nat
        /\ \A k \in 1..Len(wire') : k \in Nat /\ k + 1 \in 1..Len(wire) /\ wire'[k] = wire[k + 1]
    BY <1>8 DEF Typed
  <2>2. \A j \in 1..Len(wire') : j + 1 <= i + 1 => j <= i
    BY <2>1
  <2> QED  BY <1>4, <1>5, <1>6, <2>1, <2>2 DEF Ordered, Live
<1>9. ASSUME NEW w \in Worker, Send(w)
      PROVE  Fits(wire', i)
  <2> DEFINE n == Len(wire) + 1
  <2>1. /\ n \in Nat /\ Len(wire') = n /\ \A k \in 1..Len(wire') : k \in Nat /\ (k \in 1..Len(wire) \/ k = n)
        /\ \A k \in 1..Len(wire) : wire'[k] = wire[k]
    BY <1>9, SentLast DEF Typed
  <2>2. wire'[n].op = task[w].op /\ wire'[n].d = task[w].d /\ wire'[n].rev = task[w].rev
        /\ wire'[n].from = w
    BY <1>9, SentLast
  <2> HIDE DEF n
  <2>3. CASE i = n
    BY <1>6, <2>1, <2>2, <2>3
  <2>4. CASE i \in 1..Len(wire)
    <3>1. wire'[i] = wire[i] /\ pc[wire[i].from] = "wait" /\ wire[i].from \in Worker
      BY <1>5, <2>1, <2>4 DEF Queued
    <3>2. /\ wire[i].op = task[wire[i].from].op /\ wire[i].d = task[wire[i].from].d
          /\ wire[i].op = "apply" => wire[i].rev = task[wire[i].from].rev
          /\ Live(wire[i].d) => \A j \in 1..Len(wire) : wire[j].d = wire[i].d => j <= i
      BY <2>4, <3>1 DEF Ordered
    <3>3. ASSUME row'[wire[i].d].state = "live", wire'[n].d = wire[i].d
          PROVE  FALSE
      <4>1. Live(wire[i].d) /\ wire[i].op = "apply"
        BY <1>4, <2>4, <3>3 DEF Live
      <4>2. lock[wire[i].d] = wire[i].from
        BY <1>4, <2>4, <3>1, <3>2, <4>1 DEF Locked, Holding, Under, Busy
      <4>3. task[w].d = wire[i].d
        BY <2>2, <3>3
      <4>4. lock[wire[i].d] = w
        BY <1>9, <4>1, <4>3, OnlyHolderSends
      <4>5. pc[w] = "send"
        BY <1>9 DEF Send
      <4> QED  BY <3>1, <4>2, <4>4, <4>5
    <3>4. ASSUME row'[wire[i].d].state = "live", NEW j \in 1..Len(wire'), wire'[j].d = wire[i].d
          PROVE  j <= i
      <4>1. j # n
        BY <3>3, <3>4
      <4>2. j \in 1..Len(wire) /\ wire'[j] = wire[j]
        BY <2>1, <4>1
      <4>3. Live(wire[i].d)
        BY <1>4, <2>4, <3>4 DEF Live
      <4> QED  BY <3>2, <3>4, <4>2, <4>3
    <3> QED  BY <1>6, <3>1, <3>2, <3>4
  <2> QED  BY <2>1, <2>3, <2>4
<1>10. ASSUME NEW w \in Worker, wire' = Abandoned(w)
       PROVE  Fits(wire', i)
  <2>1. /\ Len(wire') = Len(wire)
        /\ \A k \in 1..Len(wire) :
             /\ wire'[k].from = IF wire[k].from = w THEN Nobody ELSE wire[k].from
             /\ wire'[k].op = wire[k].op /\ wire'[k].d = wire[k].d /\ wire'[k].rev = wire[k].rev
    <3>1. wire \in Seq(RequestN)
      BY DEF Typed
    <3> QED  BY <1>10, <3>1, AbandonedFacts
  <2>2. wire'[i].from = wire[i].from /\ i \in 1..Len(wire)
    BY <1>5, <2>1, SyncConstants
  <2>3. Live(wire[i].d) => \A j \in 1..Len(wire) : wire[j].d = wire[i].d => j <= i
    BY <1>5, <2>2 DEF Ordered
  <2>4. row'[wire[i].d].state = "live" => \A j \in 1..Len(wire') : wire'[j].d = wire[i].d => j <= i
    BY <1>4, <2>1, <2>2, <2>3 DEF Live
  <2> QED  BY <1>5, <1>6, <2>1, <2>2, <2>4 DEF Ordered
<1> QED  BY <1>7, <1>8, <1>9, <1>10, WireSteps

--------------------------------------------------------------------------------
\* What answers and rows say of the node.

\* A live Deployment after a step existed before it, or has just been created.
LEMMA LiveBefore ==
  ASSUME Typed, [Next]_vars, NEW d \in Deployment, Live(d)', row[d].state # "none"
  PROVE  Live(d)
<1>1. May("apply", d)
  BY DEF May
<1> QED  BY <1>1, MayStay

\* A request of a live Deployment is an apply.
LEMMA LiveRequests ==
  ASSUME Typed, Known, NEW d \in Deployment, Live(d), NEW i \in 1..Len(wire), wire[i].d = d
  PROVE  wire[i].op = "apply" /\ wire[i].rev \in Nat
<1>1. wire[i] \in RequestN
  BY DEF Typed
<1> QED  BY <1>1 DEF Known, May, Live, RequestN

\* The step of the node on the request at the head.
LEMMA HandleHead ==
  ASSUME Typed, Known, Handle, NEW d \in Deployment, Live(d)
  PROVE  /\ wire # <<>> /\ 1 \in 1..Len(wire) /\ Head(wire) = wire[1]
         /\ wire[1].d # d => held'[d] = held[d]
         /\ wire[1].d = d => held'[d].rev = wire[1].rev
         /\ Len(wire') = Len(wire) - 1
         /\ \A i \in 1..Len(wire') : i + 1 \in 1..Len(wire) /\ wire'[i] = wire[i + 1]
<1>1. wire # <<>> /\ wire' = Tail(wire) /\ held' = [held EXCEPT ![Head(wire).d] = Kept(Head(wire))]
  BY DEF Handle
<1>2. 1 \in 1..Len(wire) /\ Head(wire) = wire[1]
  BY <1>1 DEF Typed
<1>3. wire[1].d = d => Kept(wire[1]).rev = wire[1].rev
  BY <1>2, LiveRequests DEF Kept
<1>4. wire[1].d # d => held'[d] = held[d]
  BY <1>1, <1>2 DEF Typed
<1>5. wire[1].d = d => held'[d].rev = wire[1].rev
  BY <1>1, <1>2, <1>3 DEF Typed
<1> QED  BY <1>1, <1>2, <1>4, <1>5 DEF Typed

\* Nobody has an answer at first.
LEMMA ConfirmedInit == Init => Confirmed
  BY DEF Init, Confirmed

\* From the answer of the node to the end of the apply, the node keeps what it
\* acknowledged: no other request of the Deployment is on the connection, and
\* the lock lets none be sent.
LEMMA ConfirmedStep ==
  ASSUME SyncConstants, Typed, Queued, Known, Locked, Ordered, Confirmed, [Next]_vars
  PROVE  Confirmed'
<1> SUFFICES ASSUME NEW v \in Worker, NEW d \in Deployment,
                    pc'[v] \in {"reply", "succeed"}, Holding(v, d)', Live(d)'
             PROVE  held'[d].rev = task'[v].rev /\ Clear(d)'
  BY DEF Confirmed
<1>1. Moves(v)
  BY WorkerSteps
<1>2. /\ task'[v] = task[v] /\ task[v].op = "apply" /\ task[v].d = d
      /\ \/ pc'[v] = pc[v]
         \/ Reply(v)
         \/ pc[v] = "wait" /\ Handle /\ Head(wire).from = v
  BY <1>1 DEF Moves, Holding, Under, Busy, Ready, Reread, Lock, Goto, Typed
<1>3. pc[v] \in {"reply", "succeed", "wait"} /\ Holding(v, d)
  BY <1>2 DEF Reply, Holding, Under, Busy
<1>4. row[d].state # "none" /\ lock[d] = v
  BY <1>2, <1>3 DEF Known, May, Locked, Under, Holding
<1>5. Live(d)
  BY <1>4, LiveBefore
<1>6. CASE pc[v] \in {"reply", "succeed"}
  <2>1. held[d].rev = task[v].rev /\ Clear(d)
    BY <1>3, <1>5, <1>6 DEF Confirmed
  <2>2. held'[d] = held[d]
    <3>1. CASE Handle
      BY <1>5, <2>1, <3>1, HandleHead DEF Clear
    <3>2. CASE held' = held
      BY <3>2
    <3> QED  BY <3>1, <3>2, HeldSteps
  <2>3. Clear(d)'
    <3>1. CASE wire' = wire \/ wire' = <<>>
      BY <2>1, <3>1 DEF Clear
    <3>2. CASE wire # <<>> /\ wire' = Tail(wire)
      <4>1. \A i \in 1..Len(wire') : i + 1 \in 1..Len(wire) /\ wire'[i] = wire[i + 1]
        BY <3>2 DEF Typed
      <4> QED  BY <2>1, <4>1 DEF Clear
    <3>3. ASSUME NEW w \in Worker, Send(w)
          PROVE  Clear(d)'
      <4>1. task[w].d # d
        <5>1. SUFFICES ASSUME task[w].d = d
                       PROVE  FALSE
          OBVIOUS
        <5>2. lock[d] = w /\ pc[w] = "send"
          BY <1>5, <3>3, <5>1, OnlyHolderSends DEF Send
        <5> QED  BY <1>4, <1>6, <5>2
      <4>2. \A i \in 1..Len(wire') : (i \in 1..Len(wire) /\ wire'[i] = wire[i]) \/ wire'[i].d = task[w].d
        BY <3>3, SentLast DEF Typed
      <4> QED  BY <2>1, <4>1, <4>2 DEF Clear
    <3>4. ASSUME NEW w \in Worker, wire' = Abandoned(w)
          PROVE  Clear(d)'
      <4>1. Len(wire') = Len(wire) /\ \A i \in 1..Len(wire) : wire'[i].d = wire[i].d
        BY <3>4, AbandonedFacts DEF Typed
      <4> QED  BY <2>1, <4>1 DEF Clear
    <3> QED  BY <3>1, <3>2, <3>3, <3>4, WireSteps
  <2> QED  BY <1>2, <2>1, <2>2, <2>3
<1>7. CASE pc[v] = "wait"
  <2>1. Handle /\ Head(wire).from = v
    BY <1>2, <1>7 DEF Reply
  <2>2. /\ 1 \in 1..Len(wire) /\ wire[1].from = v
        /\ wire[1].d = d => held'[d].rev = wire[1].rev
        /\ \A i \in 1..Len(wire') : i \in Nat /\ i >= 1 /\ i + 1 \in 1..Len(wire) /\ wire'[i] = wire[i + 1]
    BY <1>5, <2>1, HandleHead
  <2>3. wire[1].d = d /\ wire[1].op = "apply" /\ wire[1].rev = task[v].rev
        /\ \A j \in 1..Len(wire) : wire[j].d = d => j <= 1
    BY <1>2, <1>5, <2>2 DEF Ordered
  <2>4. Clear(d)'
    <3>1. ASSUME NEW i \in 1..Len(wire'), wire'[i].d = d
          PROVE  FALSE
      <4>1. i + 1 <= 1
        BY <2>2, <2>3, <3>1
      <4> QED  BY <2>2, <4>1
    <3> QED  BY <3>1 DEF Clear
  <2> QED  BY <1>2, <2>2, <2>3, <2>4
<1> QED  BY <1>3, <1>6, <1>7

\* No row is in step at first.
LEMMA SyncedInit == Init => Synced
  BY DEF Init, Synced, Live, Absent

\* A row comes into step only by the record of an answer, and stays in step only
\* until its revision moves; in between everything under way is for its revision.
LEMMA SyncedStep ==
  ASSUME SyncConstants, Typed, Queued, Known, Locked, Ordered, Confirmed, Synced, [Next]_vars
  PROVE  Synced'
<1> SUFFICES ASSUME NEW d \in Deployment, Live(d)', InSync(row[d])'
             PROVE  /\ held'[d].rev = row'[d].rev
                    /\ \A i \in 1..Len(wire') : wire'[i].d = d => wire'[i].rev = row'[d].rev
                    /\ \A w \in Worker : Holding(w, d)' /\ pc'[w] \in Ready => task'[w].rev = row'[d].rev
  BY DEF Synced
<1>1. row[d] \in RowN /\ row'[d].status \in {"applied", "disabled"}
  BY DEF Typed, InSync
<1>2. ASSUME NEW v \in Worker, Holding(v, d)', pc'[v] \in Ready
      PROVE  /\ task'[v] = task[v] /\ Holding(v, d)
             /\ \/ pc[v] \in Ready
                \/ Reread(v) /\ pc'[v] = "node"
  <2>1. Moves(v)
    BY WorkerSteps
  <2> QED  BY <1>2, <2>1 DEF Moves, Holding, Under, Busy, Ready, Lock, Reply, Goto, Typed
<1>3. CASE row'[d] = row[d]
  <2>1. Live(d) /\ InSync(row[d])
    BY <1>3 DEF Live, InSync
  <2>2. /\ held[d].rev = row[d].rev
        /\ \A i \in 1..Len(wire) : wire[i].d = d => wire[i].rev = row[d].rev
        /\ \A w \in Worker : Holding(w, d) /\ pc[w] \in Ready => task[w].rev = row[d].rev
    BY <2>1 DEF Synced
  <2>3. held'[d].rev = row[d].rev
    <3>1. CASE Handle
      BY <2>1, <2>2, <3>1, HandleHead
    <3>2. CASE held' = held
      BY <2>2, <3>2
    <3> QED  BY <3>1, <3>2, HeldSteps
  <2>4. \A i \in 1..Len(wire') : wire'[i].d = d => wire'[i].rev = row[d].rev
    <3>1. CASE wire' = wire \/ wire' = <<>>
      BY <2>2, <3>1
    <3>2. CASE wire # <<>> /\ wire' = Tail(wire)
      <4>1. \A i \in 1..Len(wire') : i + 1 \in 1..Len(wire) /\ wire'[i] = wire[i + 1]
        BY <3>2 DEF Typed
      <4> QED  BY <2>2, <4>1
    <3>3. ASSUME NEW w \in Worker, Send(w)
          PROVE  \A i \in 1..Len(wire') : wire'[i].d = d => wire'[i].rev = row[d].rev
      <4>1. task[w].d = d => task[w].rev = row[d].rev
        <5>1. pc[w] \in Ready
          BY <3>3 DEF Send, Ready, Under, Busy
        <5> QED  BY <2>1, <2>2, <3>3, <5>1, OnlyHolderSends
      <4>2. \A i \in 1..Len(wire') :
              \/ i \in 1..Len(wire) /\ wire'[i] = wire[i]
              \/ wire'[i].d = task[w].d /\ wire'[i].rev = task[w].rev
        BY <3>3, SentLast DEF Typed
      <4> QED  BY <2>2, <4>1, <4>2
    <3>4. ASSUME NEW w \in Worker, wire' = Abandoned(w)
          PROVE  \A i \in 1..Len(wire') : wire'[i].d = d => wire'[i].rev = row[d].rev
      <4>1. Len(wire') = Len(wire)
            /\ \A i \in 1..Len(wire) : wire'[i].d = wire[i].d /\ wire'[i].rev = wire[i].rev
        BY <3>4, AbandonedFacts DEF Typed
      <4> QED  BY <2>2, <4>1
    <3> QED  BY <3>1, <3>2, <3>3, <3>4, WireSteps
  <2>5. ASSUME NEW v \in Worker, Holding(v, d)', pc'[v] \in Ready
        PROVE  task'[v].rev = row[d].rev
    <3>1. CASE pc[v] \in Ready
      BY <1>2, <2>2, <2>5, <3>1
    <3>2. CASE Reread(v) /\ pc'[v] = "node"
      <4>1. task[v].d = d /\ row[task[v].d].rev = task[v].rev
        BY <1>2, <2>5, <3>2 DEF Reread, Return, Goto, Holding, Typed
      <4> QED  BY <1>2, <2>5, <4>1
    <3> QED  BY <1>2, <2>5, <3>1, <3>2
  <2> QED  BY <1>3, <2>3, <2>4, <2>5
<1>4. ASSUME NEW w \in Worker, RecordApply(w), task[w].d = d,
             row'[d] = Recorded(row[d], task[w].rev, pc[w] = "succeed"), row'[d] # row[d]
      PROVE  /\ held'[d].rev = row'[d].rev
             /\ \A i \in 1..Len(wire') : wire'[i].d = d => wire'[i].rev = row'[d].rev
             /\ \A v \in Worker : Holding(v, d)' /\ pc'[v] \in Ready => task'[v].rev = row'[d].rev
  <2>1. Live(d) /\ row[d].rev = task[w].rev /\ pc[w] = "succeed"
    <3> DEFINE ok == pc[w] = "succeed"
    <3>1. row'[d] = Recorded(row[d], task[w].rev, ok)
      BY <1>4
    <3> HIDE DEF ok
    <3>2. row[d].state = "live" /\ row[d].rev = task[w].rev
      BY <1>4, <3>1 DEF Recorded
    <3>3. ok
      BY <1>1, <3>1, <3>2 DEF Recorded, RowN
    <3> QED  BY <3>2, <3>3 DEF ok, Live
  <2>2. row'[d].rev = row[d].rev
    <3> DEFINE st == IF row[d].enabled THEN "applied" ELSE "disabled"
    <3>1. row'[d] = [row[d] EXCEPT !.applied = task[w].rev, !.status = st]
      BY <1>4, <2>1 DEF Recorded, Live
    <3> HIDE DEF st
    <3> QED  BY <1>1, <3>1 DEF RowN
  <2>3. Holding(w, d) /\ lock[d] = w /\ wire' = wire /\ held' = held
    BY <1>4, <2>1 DEF RecordApply, Holding, Under, Busy, Locked, bridge
  <2>4. held[d].rev = task[w].rev /\ Clear(d)
    BY <2>1, <2>3 DEF Confirmed
  <2>5. ASSUME NEW v \in Worker, Holding(v, d)', pc'[v] \in Ready
        PROVE  FALSE
    <3>1. Holding(v, d)
      BY <1>2, <2>5
    <3>2. v = w
      BY <2>3, <3>1 DEF Locked
    <3>3. pc'[w] \in {"idle", "next"}
      BY <1>4 DEF RecordApply, Return, Goto, Typed
    <3> QED  BY <2>5, <3>2, <3>3 DEF Ready, Under, Busy
  <2> QED  BY <2>1, <2>2, <2>3, <2>4, <2>5 DEF Clear
<1>5. ASSUME NEW rev \in Nat, row'[d] = Deferred(row[d], rev)
      PROVE  row'[d] = row[d]
  BY <1>1, <1>5 DEF Deferred, RowN
<1>6. row'[d].status # "pending"
  BY <1>1
<1> QED  BY <1>3, <1>4, <1>5, <1>6, RowSteps

\* The inductive invariant.
SyncInv == Typed /\ Queued /\ Locked /\ Known /\ Ordered /\ Confirmed /\ Synced

\* Every reachable state is typed, every apply under way holds its lock, and
\* whoever has an answer, and every row that is in step, speaks of what the node
\* really holds.
THEOREM InvariantKept == Spec => []SyncInv
<1>1. Init => SyncInv
  BY TypedInit, QueuedInit, LockedInit, KnownInit, OrderedInit, ConfirmedInit, SyncedInit DEF SyncInv
<1>2. SyncInv /\ [Next]_vars => SyncInv'
  BY SyncConstants, TypedStep, QueuedStep, LockedStep, KnownStep, OrderedStep, ConfirmedStep,
     SyncedStep DEF SyncInv
<1> QED  BY <1>1, <1>2, PTL DEF Spec

\* A row recorded as applied is what the node really holds, whatever was
\* delayed, timed out, abandoned, answered late or lost (tryApplyProjectDeployment).
THEOREM AppliedRowsAreHeld == Spec => []AppliedIsHeld
<1>1. SyncInv => AppliedIsHeld
  BY DEF SyncInv, Synced, AppliedIsHeld
<1> QED  BY <1>1, InvariantKept, PTL

--------------------------------------------------------------------------------
\* The bounds: every PATCH under way has a revision of each row to itself.

\* Handlers that may still give the row a new revision.
Counting == {"copy", "write", "result", "react", "list"}
BumpLeft(w, d) == \E t \in todo[w] : t.op = "bump" /\ t.d = d
Bumping(d) == {w \in Worker : pc[w] \in Counting \/ BumpLeft(w, d)}

Room == \A d \in Deployment : row[d].rev + Cardinality(Bumping(d)) <= MaxRevision
BumpOnce ==
  \A w \in Worker : \A s, t \in todo[w] : s.op = "bump" /\ t.op = "bump" /\ s.d = t.d => s = t

Shaped ==
  /\ online \in BOOLEAN /\ listing \in [Worker -> BOOLEAN]
  /\ patch \in [Worker -> [form : Form, previous : BOOLEAN]] /\ faults \in 0..MaxFaults

RowsBounded == \A d \in Deployment : row[d].applied <= MaxRevision
HeldBounded == \A d \in Deployment : held[d].rev <= MaxRevision
WorkBounded ==
  \A w \in Worker : task[w].rev <= MaxRevision /\ \A t \in todo[w] : t.rev <= MaxRevision
WireBounded == \A i \in 1..Len(wire) : wire[i].rev <= MaxRevision
Bounded == RowsBounded /\ HeldBounded /\ WorkBounded /\ WireBounded

BoundsInv == Typed /\ Queued /\ Shaped /\ BumpOnce /\ Room /\ Bounded

\* The set of these handlers is finite, and a CanGrow that holds leaves room for
\* one more revision than they may still take.
LEMMA BumpingCounted ==
  ASSUME SyncConstants, Typed, NEW d \in Deployment
  PROVE  /\ IsFiniteSet(Bumping(d)) /\ Cardinality(Bumping(d)) \in Nat
         /\ CanGrow(d) => row[d].rev + Cardinality(Bumping(d)) < MaxRevision
<1> DEFINE P == {w \in Worker : Patching(w)}
<1>1. IsFiniteSet(P) /\ Bumping(d) \subseteq P
  <2>1. P \subseteq Worker /\ IsFiniteSet(Worker)
    BY SyncConstants DEF SyncConstants
  <2>2. Bumping(d) \subseteq P
    BY DEF Bumping, Patching, Counting, BumpLeft
  <2> QED  BY <2>1, <2>2, FS_Subset
<1>2. IsFiniteSet(Bumping(d)) /\ Cardinality(Bumping(d)) <= Cardinality(P)
  BY <1>1, FS_Subset
<1>3. Cardinality(Bumping(d)) \in Nat /\ Cardinality(P) \in Nat
  BY <1>1, <1>2, FS_CardinalityType
<1>4. CanGrow(d) => row[d].rev + Cardinality(P) < MaxRevision
  BY DEF CanGrow
<1>5. row[d].rev \in Nat /\ MaxRevision \in Nat
  BY SyncConstants DEF SyncConstants, Typed, RowN
<1> HIDE DEF P
<1> QED  BY <1>2, <1>3, <1>4, <1>5

\* Fewer handlers, and a revision that has not grown: there is room as before.
LEMMA RoomStays ==
  ASSUME SyncConstants, Typed, Typed', NEW d \in Deployment, Room,
         Bumping(d)' \subseteq Bumping(d), row'[d].rev <= row[d].rev
  PROVE  row'[d].rev + Cardinality(Bumping(d)') <= MaxRevision
<1> DEFINE A == Bumping(d)  B == Bumping(d)'
<1>1. IsFiniteSet(A) /\ Cardinality(A) \in Nat
  BY BumpingCounted
<1>2. B \subseteq A
  OBVIOUS
<1>3. row[d].rev + Cardinality(A) <= MaxRevision
  BY DEF Room
<1>4. row[d].rev \in Nat /\ row'[d].rev \in Nat /\ MaxRevision \in Nat
  BY SyncConstants DEF SyncConstants, Typed, RowN
<1> HIDE DEF A, B
<1>5. Cardinality(B) \in Nat /\ Cardinality(B) <= Cardinality(A)
  BY <1>1, <1>2, FS_Subset, FS_CardinalityType
<1>6. row'[d].rev + Cardinality(B) <= MaxRevision
  BY <1>1, <1>3, <1>4, <1>5
<1> QED  BY <1>6 DEF B

\* One handler less, and one revision more.
LEMMA RoomTaken ==
  ASSUME SyncConstants, Typed, Typed', NEW d \in Deployment, Room, NEW w \in Bumping(d),
         Bumping(d)' \subseteq Bumping(d) \ {w}, row'[d].rev = row[d].rev + 1
  PROVE  row'[d].rev + Cardinality(Bumping(d)') <= MaxRevision
<1> DEFINE A == Bumping(d)  B == Bumping(d)'
<1>1. IsFiniteSet(A) /\ Cardinality(A) \in Nat /\ w \in A
  BY BumpingCounted
<1>2. B \subseteq A \ {w}
  OBVIOUS
<1>3. row[d].rev + Cardinality(A) <= MaxRevision
  BY DEF Room
<1>4. row[d].rev \in Nat /\ row'[d].rev = row[d].rev + 1 /\ MaxRevision \in Nat
  BY SyncConstants DEF SyncConstants, Typed, RowN
<1> HIDE DEF A, B
<1>5. IsFiniteSet(A \ {w}) /\ Cardinality(A \ {w}) = Cardinality(A) - 1
  BY <1>1, FS_RemoveElement
<1>6. Cardinality(B) \in Nat /\ Cardinality(B) <= Cardinality(A \ {w})
  BY <1>2, <1>5, FS_Subset, FS_CardinalityType
<1>7. row'[d].rev + Cardinality(B) <= MaxRevision
  BY <1>1, <1>3, <1>4, <1>5, <1>6
<1> QED  BY <1>7 DEF B

\* A CanGrow that was checked pays for a new revision, or for a new handler.
LEMMA RoomGranted ==
  ASSUME SyncConstants, Typed, Typed', NEW d \in Deployment, CanGrow(d), NEW w \in Worker,
         \/ Bumping(d)' \subseteq Bumping(d) /\ row'[d].rev = row[d].rev + 1
         \/ Bumping(d)' \subseteq Bumping(d) \cup {w} /\ row'[d].rev = row[d].rev
  PROVE  row'[d].rev + Cardinality(Bumping(d)') <= MaxRevision
<1> DEFINE A == Bumping(d)  B == Bumping(d)'
<1>1. IsFiniteSet(A) /\ Cardinality(A) \in Nat /\ row[d].rev + Cardinality(A) < MaxRevision
  BY BumpingCounted
<1>2. \/ B \subseteq A /\ row'[d].rev = row[d].rev + 1
      \/ B \subseteq A \cup {w} /\ row'[d].rev = row[d].rev
  OBVIOUS
<1>3. row[d].rev \in Nat /\ MaxRevision \in Nat
  BY SyncConstants DEF SyncConstants, Typed, RowN
<1> HIDE DEF A, B
<1>4. /\ IsFiniteSet(A \cup {w}) /\ Cardinality(A \cup {w}) \in Nat
      /\ Cardinality(A \cup {w}) <= Cardinality(A) + 1
  <2>1. /\ IsFiniteSet(A \cup {w})
        /\ Cardinality(A \cup {w}) = IF w \in A THEN Cardinality(A) ELSE Cardinality(A) + 1
    BY <1>1, FS_AddElement
  <2> QED  BY <1>1, <2>1
<1>5. B \subseteq A => Cardinality(B) \in Nat /\ Cardinality(B) <= Cardinality(A)
  BY <1>1, FS_Subset, FS_CardinalityType
<1>6. B \subseteq A \cup {w} => Cardinality(B) \in Nat /\ Cardinality(B) <= Cardinality(A \cup {w})
  BY <1>4, FS_Subset, FS_CardinalityType
<1>7. row'[d].rev + Cardinality(B) <= MaxRevision
  BY <1>1, <1>2, <1>3, <1>4, <1>5, <1>6
<1> QED  BY <1>7 DEF B

\* A handler that counts was counted before, unless it is a PATCH that has just
\* begun: a list of new revisions is made by a PATCH that was counted.
Counts(v, d) == pc[v] \in Counting \/ BumpLeft(v, d)
Remains(v) == \A d \in Deployment : Counts(v, d)' => Counts(v, d)

LEMMA CountingSteps ==
  ASSUME Typed, Queued, [Next]_vars, NEW v \in Worker
  PROVE  Remains(v) \/ \E form \in Patches : StartPatch(v, form)
<1> DEFINE Less == /\ pc'[v] \in Counting => pc[v] \in Counting
                   /\ \A t \in todo'[v] : t.op = "bump" => t \in todo[v]
<1> USE DEF Typed, Counting
<1>0. Less => Remains(v)
  BY DEF Remains, Counts, BumpLeft
<1>1. ASSUME NEW w \in Worker, NEW d \in Deployment, NEW b \in BOOLEAN,
             Create(w, d, b) \/ Update(w, d, b) \/ Reapply(w, d) \/ Delete(w, d)
      PROVE  Less
  BY <1>1 DEF Create, Update, Reapply, Delete, Begin
<1>2. ASSUME NEW w \in Worker, NEW form \in Patches, StartPatch(w, form), w # v
      PROVE  Less
  BY <1>2 DEF StartPatch, Begin
<1>3. ASSUME NEW w \in Worker, Connect(w) \/ NodeUpdated(w)
      PROVE  Less
  BY <1>3 DEF Connect, NodeUpdated, StartReconcile, Begin, Remove
<1>4. ASSUME NEW w \in Worker, Lock(w) \/ ReadNode(w) \/ Check(w) \/ Miss(w) \/ Send(w) \/ Reply(w)
      PROVE  Less
  BY <1>4 DEF Lock, ReadNode, Check, Miss, Send, Reply, Goto, local
<1>5. ASSUME NEW w \in Worker, Reread(w)
      PROVE  Less
  BY <1>5 DEF Reread, Return, Goto, local
<1>6. ASSUME NEW w \in Worker, Defer(w) \/ RecordApply(w) \/ RecordRemoval(w)
      PROVE  Less
  BY <1>6 DEF Defer, RecordApply, RecordRemoval, Return, Goto
<1>7. ASSUME NEW w \in Worker, ListRows(w)
      PROVE  Less
  <2> DEFINE found == {Apply(d, row[d].rev) : d \in {e \in Deployment : Live(e) /\ ~InSync(row[e])}}
  <2>1. \A t \in found : t.op = "apply"
    BY DEF Apply
  <2>2. todo' = [todo EXCEPT ![w] = found] /\ pc' = [pc EXCEPT ![w] = IF found = {} THEN "idle" ELSE "next"]
    BY <1>7 DEF ListRows, Goto
  <2> HIDE DEF found
  <2> QED  BY <2>1, <2>2
<1>8. ASSUME NEW w \in Worker, Pick(w)
      PROVE  Less
  <2>1. PICK t \in todo[w] : /\ todo' = [todo EXCEPT ![w] = @ \ {t}]
                             /\ pc' = [pc EXCEPT ![w] = IF t.op = "apply" THEN "lock" ELSE "check"]
    BY <1>8 DEF Pick, Goto
  <2> QED  BY <2>1
<1>9. ASSUME NEW w \in Worker, ReadCopy(w) \/ WriteCopy(w) \/ ReadResult(w)
      PROVE  Less
  BY <1>9 DEF ReadCopy, WriteCopy, ReadResult, Goto, local
<1>10. \A places : Interrupted(places)[v] \in {places[v], "fail"}
  BY DEF Interrupted
<1>11. ASSUME NEW w \in Worker, React(w)
       PROVE  Less
  <2> DEFINE there == [pc EXCEPT ![w] = IF AccessChanged(patch[w], view[w]) THEN "list" ELSE "idle"]
  <2>1. pc[w] = "react" /\ todo' = todo /\ (pc' = there \/ pc' = Interrupted(there))
    BY <1>11 DEF React
  <2>2. (there[v] \in {"list", "idle"} /\ v = w) \/ there[v] = pc[v]
    OBVIOUS
  <2> HIDE DEF there
  <2>3. pc'[v] \in {there[v], "fail"}
    BY <1>10, <2>1
  <2> QED  BY <2>1, <2>2, <2>3
<1>12. ASSUME NEW w \in Worker, ListForAccess(w)
       PROVE  Remains(v)
  <2>1. pc[w] = "list" /\ \A x \in Worker : x # w => pc'[x] = pc[x] /\ todo'[x] = todo[x]
    BY <1>12 DEF ListForAccess, Goto
  <2>2. CASE v = w
    BY <2>1, <2>2 DEF Remains, Counts
  <2>3. CASE v # w
    BY <2>1, <2>3, <1>0
  <2> QED  BY <2>2, <2>3
<1>13. ASSUME NEW w \in Worker, BumpRow(w)
       PROVE  Less
  <2>1. PICK t \in todo[w] : BumpRow(w)!2!(t)
    BY <1>13 DEF BumpRow
  <2>2. pc'[v] = pc[v] \/ pc'[v] \in {"lock", "idle", "next"}
    BY <2>1 DEF Goto
  <2>3. todo' = [todo EXCEPT ![w] = @ \ {t}]
    BY <2>1
  <2> QED  BY <2>2, <2>3
<1>14. CASE Handle
  <2>1. pc' = IF Head(wire).from \in Worker THEN [pc EXCEPT ![Head(wire).from] = "reply"] ELSE pc
    BY <1>14 DEF Handle
  <2>2. pc'[v] \in {pc[v], "reply"} /\ todo' = todo
    BY <1>14, <2>1 DEF Handle, local
  <2> QED  BY <1>0, <2>2
<1>15. CASE Cancelled \/ Disconnect \/ Refuse
  <2>1. todo' = todo /\ pc'[v] \in {pc[v], "fail"}
    BY <1>10, <1>15 DEF Cancelled, Disconnect, Refuse, local
  <2> QED  BY <1>0, <2>1
<1>16. ASSUME NEW w \in Worker, Timeout(w)
       PROVE  Less
  BY <1>16 DEF Timeout, Goto, local
<1>17. ASSUME NEW w \in Worker, Abort(w)
       PROVE  Less
  BY <1>17 DEF Abort, Goto
<1>18. CASE Restart
  BY <1>0, <1>18 DEF Restart
<1>19. CASE UNCHANGED vars
  BY <1>0, <1>19 DEF vars
<1>20. ASSUME NEW w \in Worker, Start(w)
       PROVE  Less \/ \E form \in Patches : StartPatch(v, form)
  BY <1>1, <1>2, <1>3, <1>20 DEF Start
<1>21. ASSUME NEW w \in Worker, Step(w)
       PROVE  Less \/ Remains(v)
  BY <1>4, <1>5, <1>6, <1>7, <1>8, <1>9, <1>11, <1>12, <1>13, <1>21 DEF Step
<1> HIDE DEF Less, Typed, Counting
<1> QED  BY <1>0, <1>3, <1>4, <1>14, <1>15, <1>16, <1>17, <1>18, <1>19, <1>20, <1>21 DEF Next

\* A revision grows by one at a time: by a Create or Update that has found room,
\* or for a PATCH that then has one row less to go.
LEMMA RevisionSteps ==
  ASSUME Typed, Queued, BumpOnce, [Next]_vars, NEW d \in Deployment
  PROVE  \/ row'[d].rev <= row[d].rev
         \/ \E w \in Worker, b \in BOOLEAN : Create(w, d, b) \/ Update(w, d, b)
         \/ \E w \in Worker : BumpRow(w) /\ Counts(w, d) /\ ~Counts(w, d)'
                                /\ row'[d].rev = row[d].rev + 1
<1> USE DEF Typed
<1>1. row[d] \in RowN /\ row[d].rev \in Nat
  BY DEF RowN
<1>2. ASSUME row'[d] = row[d]
      PROVE  row'[d].rev <= row[d].rev
  BY <1>1, <1>2
<1>3. ASSUME NEW w \in Worker, Start(w)
      PROVE  row'[d].rev <= row[d].rev \/ \E b \in BOOLEAN : Create(w, d, b) \/ Update(w, d, b)
  <2>1. ASSUME NEW e \in Deployment, NEW b \in BOOLEAN, Create(w, e, b) \/ Update(w, e, b), e # d
        PROVE  row'[d] = row[d]
    BY <2>1 DEF Create, Update
  <2>2. ASSUME NEW e \in Deployment, Delete(w, e)
        PROVE  row'[d] = row[d] \/ row'[d].rev = 0
    BY <2>2 DEF Delete, Absent
  <2>3. ASSUME NEW e \in Deployment, Reapply(w, e)
        PROVE  row'[d] = row[d]
    BY <2>3 DEF Reapply, db
  <2>4. ASSUME NEW form \in Patches, StartPatch(w, form)
        PROVE  row'[d] = row[d]
    BY <2>4 DEF StartPatch, db
  <2>5. ASSUME NodeUpdated(w)
        PROVE  row'[d] = row[d]
    BY <2>5 DEF NodeUpdated, db
  <2>6. row'[d].rev = 0 => row'[d].rev <= row[d].rev
    BY <1>1
  <2> QED  BY <1>2, <1>3, <2>1, <2>2, <2>3, <2>4, <2>5, <2>6 DEF Start
<1>4. ASSUME NEW w \in Worker, Defer(w)
      PROVE  row'[d].rev = row[d].rev
  BY <1>4 DEF Defer, Deferred, RowN, Busy
<1>5. ASSUME NEW w \in Worker, RecordApply(w)
      PROVE  row'[d].rev = row[d].rev
  <2> DEFINE ok == pc[w] = "succeed"
  <2>1. task[w].d \in Deployment
    BY <1>5 DEF RecordApply, Busy
  <2>2. row' = [row EXCEPT ![task[w].d] = Recorded(row[task[w].d], task[w].rev, ok)]
    BY <1>5 DEF RecordApply
  <2> HIDE DEF ok
  <2>3. \A r \in RowN : Recorded(r, task[w].rev, ok).rev = r.rev
    BY DEF Recorded, RowN
  <2> QED  BY <1>1, <2>1, <2>2, <2>3
<1>6. ASSUME NEW w \in Worker, BumpRow(w)
      PROVE  \/ row'[d] = row[d]
             \/ Counts(w, d) /\ ~Counts(w, d)' /\ row'[d].rev = row[d].rev + 1
  <2>1. PICK t \in todo[w] : BumpRow(w)!2!(t)
    BY <1>6 DEF BumpRow
  <2>2. row'[d] = row[d] \/ (t.d = d /\ row'[d] = Bumped(row[d], row[d].enabled) /\ pc' = [pc EXCEPT ![w] = "lock"])
    BY <2>1 DEF Goto
  <2>3. Bumped(row[d], row[d].enabled).rev = row[d].rev + 1
    <3> DEFINE n == row[d].rev + 1  e == row[d].enabled
    <3>1. n \in Nat /\ e \in BOOLEAN
      BY <1>1 DEF RowN
    <3>2. Bumped(row[d], e) = [row[d] EXCEPT !.rev = n, !.enabled = e, !.status = "pending"]
      BY DEF Bumped
    <3> HIDE DEF n, e
    <3>3. Bumped(row[d], e).rev = n
      BY <1>1, <3>1, <3>2 DEF RowN
    <3> QED  BY <3>3 DEF n, e
  <2>4. t.op = "bump" /\ todo' = [todo EXCEPT ![w] = @ \ {t}]
    BY <2>1
  <2>5. ASSUME t.d = d, pc' = [pc EXCEPT ![w] = "lock"]
        PROVE  Counts(w, d) /\ ~Counts(w, d)'
    <3>1. Counts(w, d)
      BY <2>4, <2>5 DEF Counts, BumpLeft
    <3>2. pc'[w] = "lock" /\ \A s \in todo'[w] : s \in todo[w] /\ s # t
      BY <2>4, <2>5
    <3>3. \A s \in todo'[w] : ~(s.op = "bump" /\ s.d = d)
      BY <2>4, <2>5, <3>2 DEF BumpOnce
    <3> QED  BY <3>1, <3>2, <3>3 DEF Counts, BumpLeft, Counting
  <2> QED  BY <2>2, <2>3, <2>5
<1>7. ASSUME NEW w \in Worker, Step(w)
      PROVE  row' = row \/ Defer(w) \/ RecordApply(w) \/ BumpRow(w)
  BY <1>7 DEF Step, Reread, ReadNode, Check, Miss, Send, Reply, RecordRemoval, ListRows, Pick,
              ReadCopy, WriteCopy, ReadResult, React, ListForAccess, db
<1>8. ASSUME NEW w \in Worker, Connect(w) \/ Lock(w) \/ Timeout(w) \/ Abort(w)
      PROVE  row' = row
  BY <1>8 DEF Connect, Lock, Timeout, Abort, db
<1>9. CASE Handle \/ Cancelled \/ Disconnect \/ Refuse \/ Restart \/ UNCHANGED vars
  BY <1>2, <1>9 DEF Handle, Cancelled, Disconnect, Refuse, Restart, db, vars
<1>10. ASSUME NEW w \in Worker, Step(w)
       PROVE  \/ row'[d].rev <= row[d].rev
              \/ BumpRow(w) /\ Counts(w, d) /\ ~Counts(w, d)' /\ row'[d].rev = row[d].rev + 1
  <2>1. CASE Defer(w) \/ RecordApply(w)
    BY <1>1, <1>4, <1>5, <2>1
  <2>2. CASE BumpRow(w)
    BY <1>2, <1>6, <2>2
  <2> QED  BY <1>2, <1>7, <1>10, <2>1, <2>2
<1> HIDE DEF Typed
<1> QED  BY <1>2, <1>3, <1>8, <1>9, <1>10 DEF Next

\* Initially there is room for everything.
LEMMA BoundsInit ==
  ASSUME SyncConstants, Init
  PROVE  BoundsInv
<1>1. Typed /\ Queued
  BY TypedInit, QueuedInit
<1>2. Shaped
  <2>1. NoPatch \in [form : Form, previous : BOOLEAN]
    BY DEF NoPatch, Form, Change
  <2>2. 0 \in 0..MaxFaults
    BY SyncConstants DEF SyncConstants
  <2> QED  BY <2>1, <2>2 DEF Init, Shaped
<1>3. BumpOnce /\ Bounded
  <2>1. MaxRevision \in Nat
    BY SyncConstants DEF SyncConstants
  <2> QED  BY <2>1 DEF Init, BumpOnce, Bounded, RowsBounded, HeldBounded, WorkBounded, WireBounded,
                     Absent, NoCopy, NoTask
<1>4. ASSUME NEW d \in Deployment
      PROVE  row[d].rev + Cardinality(Bumping(d)) <= MaxRevision
  <2>1. Bumping(d) = {} /\ row[d].rev = 0
    BY DEF Init, Bumping, Counting, BumpLeft, Absent
  <2> QED  BY <2>1, FS_EmptySet, SyncConstants DEF SyncConstants
<1> QED  BY <1>1, <1>2, <1>3, <1>4 DEF BoundsInv, Room

\* Every step leaves room for those who count.
LEMMA RoomStep ==
  ASSUME SyncConstants, Typed, Queued, BumpOnce, Room, [Next]_vars
  PROVE  Room'
<1> SUFFICES ASSUME NEW d \in Deployment
             PROVE  row'[d].rev + Cardinality(Bumping(d)') <= MaxRevision
  BY DEF Room
<1>1. Typed'
  BY TypedStep
<1>2. \A v \in Worker : Remains(v) \/ \E form \in Patches : StartPatch(v, form)
  BY CountingSteps
<1>3. /\ Bumping(d) = {v \in Worker : Counts(v, d)}
      /\ Bumping(d)' = {v \in Worker : Counts(v, d)'}
  BY DEF Bumping, Counts
<1>4. ASSUME NEW w \in Worker, NEW form \in Patches, StartPatch(w, form)
      PROVE  row'[d].rev + Cardinality(Bumping(d)') <= MaxRevision
  <2>1. CanGrow(d) /\ row'[d].rev = row[d].rev
    BY <1>4 DEF StartPatch, db
  <2>2. \A v \in Worker : v # w => (Counts(v, d)' => Counts(v, d))
    BY <1>4 DEF StartPatch, Begin, Counts, BumpLeft, Typed
  <2>3. Bumping(d)' \subseteq Bumping(d) \cup {w}
    BY <1>3, <2>2
  <2> QED  BY <1>1, <2>1, <2>3, RoomGranted
<1>5. ASSUME \A v \in Worker : Remains(v)
      PROVE  row'[d].rev + Cardinality(Bumping(d)') <= MaxRevision
  <2>1. Bumping(d)' \subseteq Bumping(d)
    BY <1>3, <1>5 DEF Remains
  <2>2. CASE row'[d].rev <= row[d].rev
    BY <1>1, <2>1, <2>2, RoomStays
  <2>3. ASSUME NEW w \in Worker, NEW b \in BOOLEAN, Create(w, d, b) \/ Update(w, d, b)
        PROVE  row'[d].rev + Cardinality(Bumping(d)') <= MaxRevision
    <3>1. CanGrow(d) /\ row[d] \in RowN
      BY <2>3 DEF Create, Update, Typed
    <3>2. CASE Create(w, d, b)
      <4>1. row'[d].rev = 1
        BY <3>2 DEF Create, Typed
      <4>2. row'[d].rev <= row[d].rev \/ row'[d].rev = row[d].rev + 1
        BY <3>1, <4>1 DEF RowN
      <4> QED  BY <1>1, <2>1, <2>2, <3>1, <4>2, RoomGranted
    <3>3. CASE Update(w, d, b)
      <4>1. row'[d] = Bumped(row[d], b)
        BY <3>3 DEF Update, Typed
      <4>2. row'[d].rev = row[d].rev + 1
        <5> DEFINE n == row[d].rev + 1
        <5>1. n \in Nat /\ Bumped(row[d], b) = [row[d] EXCEPT !.rev = n, !.enabled = b, !.status = "pending"]
          BY <3>1 DEF Bumped, RowN
        <5> HIDE DEF n
        <5>2. Bumped(row[d], b).rev = n
          BY <3>1, <5>1 DEF RowN
        <5> QED  BY <4>1, <5>2 DEF n
      <4> QED  BY <1>1, <2>1, <3>1, <4>2, RoomGranted
    <3> QED  BY <2>3, <3>2, <3>3
  <2>4. ASSUME NEW w \in Worker, Counts(w, d), ~Counts(w, d)', row'[d].rev = row[d].rev + 1
        PROVE  row'[d].rev + Cardinality(Bumping(d)') <= MaxRevision
    <3>1. w \in Bumping(d) /\ Bumping(d)' \subseteq Bumping(d) \ {w}
      BY <1>3, <2>1, <2>4
    <3> QED  BY <1>1, <2>4, <3>1, RoomTaken
  <2> QED  BY <2>2, <2>3, <2>4, RevisionSteps
<1> QED  BY <1>2, <1>4, <1>5

\* A list of work gets shorter, or is made anew from the rows and tombstones of the
\* moment; a handler takes its work from its list or from a row it has just written.
Fresh(t) == \/ t = Remove(t.d) \/ t = Apply(t.d, row[t.d].rev) \/ t = Bump(t.d, row[t.d].rev)
Listed(v) == todo'[v] \subseteq todo[v] \/ \A t \in todo'[v] : Fresh(t)
Tasked(v) == \/ task'[v] = task[v] \/ task'[v].rev = 0 \/ task'[v] \in todo[v]
             \/ \E d \in Deployment : task'[v].rev = row'[d].rev

LEMMA WorkSteps ==
  ASSUME Typed, Typed', [Next]_vars, NEW v \in Worker
  PROVE  Listed(v) /\ Tasked(v)
<1> USE DEF Typed
<1>1. ASSUME NEW w \in Worker, NEW d \in Deployment, NEW b \in BOOLEAN, Create(w, d, b)
      PROVE  Listed(v) /\ Tasked(v)
  <2>1. row'[d].rev = 1 /\ (task'[v] = task[v] \/ task'[v] = Apply(d, 1)) /\ todo' = todo
    BY <1>1 DEF Create, Begin
  <2> QED  BY <2>1 DEF Listed, Tasked, Apply
<1>2. ASSUME NEW w \in Worker, NEW d \in Deployment, NEW b \in BOOLEAN, Update(w, d, b)
      PROVE  Listed(v) /\ Tasked(v)
  <2>1. /\ row'[d] = Bumped(row[d], b) /\ todo' = todo
        /\ task'[v] = task[v] \/ task'[v] = Apply(d, row[d].rev + 1)
    BY <1>2 DEF Update, Begin
  <2>2. Bumped(row[d], b).rev = row[d].rev + 1
    <3> DEFINE n == row[d].rev + 1
    <3>1. /\ row[d] \in RowN /\ n \in Nat
          /\ Bumped(row[d], b) = [row[d] EXCEPT !.rev = n, !.enabled = b, !.status = "pending"]
      BY DEF Bumped, RowN
    <3> HIDE DEF n
    <3>2. Bumped(row[d], b).rev = n
      BY <3>1 DEF RowN
    <3> QED  BY <3>2 DEF n
  <2> QED  BY <2>1, <2>2 DEF Listed, Tasked, Apply
<1>3. ASSUME NEW w \in Worker, NEW d \in Deployment, Reapply(w, d)
      PROVE  Listed(v) /\ Tasked(v)
  <2>1. /\ row' = row /\ todo' = todo /\ (task'[v] = task[v] \/ task'[v] = Apply(d, row[d].rev))
    BY <1>3 DEF Reapply, Begin, db
  <2> QED  BY <2>1 DEF Listed, Tasked, Apply
<1>4. ASSUME NEW w \in Worker, NEW d \in Deployment, Delete(w, d)
      PROVE  Listed(v) /\ Tasked(v)
  BY <1>4 DEF Delete, Begin, Remove, Listed, Tasked
<1>5. ASSUME NEW w \in Worker, NEW form \in Patches, StartPatch(w, form)
      PROVE  Listed(v) /\ Tasked(v)
  BY <1>5 DEF StartPatch, Begin, NoTask, Listed, Tasked
<1>6. ASSUME NEW w \in Worker, Connect(w) \/ NodeUpdated(w)
      PROVE  Listed(v) /\ Tasked(v)
  <2>1. \A t \in {Remove(d) : d \in removal} : t = Remove(t.d)
    BY DEF Remove
  <2>2. /\ todo' = [todo EXCEPT ![w] = {Remove(d) : d \in removal}]
        /\ task'[v] = task[v] \/ task'[v].rev = 0
    BY <1>6 DEF Connect, NodeUpdated, StartReconcile, Begin, NoTask
  <2> QED  BY <2>1, <2>2 DEF Listed, Tasked, Fresh
<1>7. ASSUME NEW w \in Worker, Lock(w) \/ ReadNode(w) \/ Check(w) \/ Miss(w) \/ Send(w) \/ Reply(w)
      PROVE  Listed(v) /\ Tasked(v)
  BY <1>7 DEF Lock, ReadNode, Check, Miss, Send, Reply, local, Listed, Tasked
<1>8. ASSUME NEW w \in Worker, Reread(w) \/ Defer(w) \/ RecordApply(w) \/ RecordRemoval(w)
      PROVE  Listed(v) /\ Tasked(v)
  BY <1>8 DEF Reread, Defer, RecordApply, RecordRemoval, Return, NoTask, local, Listed, Tasked
<1>9. ASSUME NEW w \in Worker, ListRows(w)
      PROVE  Listed(v) /\ Tasked(v)
  <2> DEFINE found == {Apply(d, row[d].rev) : d \in {e \in Deployment : Live(e) /\ ~InSync(row[e])}}
  <2>1. \A t \in found : t = Apply(t.d, row[t.d].rev)
    BY DEF Apply
  <2>2. todo' = [todo EXCEPT ![w] = found] /\ task' = task
    BY <1>9 DEF ListRows
  <2> HIDE DEF found
  <2> QED  BY <2>1, <2>2 DEF Listed, Tasked, Fresh
<1>10. ASSUME NEW w \in Worker, Pick(w)
       PROVE  Listed(v) /\ Tasked(v)
  <2>1. PICK t \in todo[w] : todo' = [todo EXCEPT ![w] = @ \ {t}] /\ task' = [task EXCEPT ![w] = t]
    BY <1>10 DEF Pick
  <2> QED  BY <2>1 DEF Listed, Tasked
<1>11. ASSUME NEW w \in Worker, ReadCopy(w) \/ WriteCopy(w) \/ ReadResult(w) \/ React(w) \/ Timeout(w)
       PROVE  Listed(v) /\ Tasked(v)
  BY <1>11 DEF ReadCopy, WriteCopy, ReadResult, React, Timeout, local, Listed, Tasked
<1>12. ASSUME NEW w \in Worker, ListForAccess(w)
       PROVE  Listed(v) /\ Tasked(v)
  <2> DEFINE found == {Bump(d, row[d].rev) : d \in {e \in Deployment : Live(e)}}
  <2>1. \A t \in found : t = Bump(t.d, row[t.d].rev)
    BY DEF Bump
  <2>2. todo' = [todo EXCEPT ![w] = found] /\ task' = task
    BY <1>12 DEF ListForAccess
  <2> HIDE DEF found
  <2> QED  BY <2>1, <2>2 DEF Listed, Tasked, Fresh
<1>13. ASSUME NEW w \in Worker, BumpRow(w)
       PROVE  Listed(v) /\ Tasked(v)
  <2>1. PICK t \in todo[w] : BumpRow(w)!2!(t)
    BY <1>13 DEF BumpRow
  <2>2. t.d \in Deployment /\ row[t.d] \in RowN /\ row[t.d].enabled \in BOOLEAN
    BY DEF RowN
  <2>3. \/ task' = task
        \/ /\ row'[t.d] = Bumped(row[t.d], row[t.d].enabled) /\ row[t.d].rev = t.rev
           /\ task' = [task EXCEPT ![w] = Apply(t.d, t.rev + 1)]
    BY <2>1, <2>2
  <2>4. Bumped(row[t.d], row[t.d].enabled).rev = row[t.d].rev + 1
    <3> DEFINE n == row[t.d].rev + 1  e == row[t.d].enabled
    <3>1. n \in Nat /\ Bumped(row[t.d], e) = [row[t.d] EXCEPT !.rev = n, !.enabled = e, !.status = "pending"]
      BY <2>2 DEF Bumped, RowN
    <3> HIDE DEF n, e
    <3>2. Bumped(row[t.d], e).rev = n
      BY <2>2, <3>1 DEF RowN
    <3> QED  BY <3>2 DEF n, e
  <2>5. task'[v] = task[v] \/ task'[v].rev = row'[t.d].rev
    BY <2>3, <2>4 DEF Apply
  <2>6. todo' = [todo EXCEPT ![w] = @ \ {t}]
    BY <2>1
  <2> QED  BY <2>2, <2>5, <2>6 DEF Listed, Tasked
<1>14. CASE Handle \/ Cancelled \/ Disconnect \/ Refuse \/ UNCHANGED vars
  BY <1>14 DEF Handle, Cancelled, Disconnect, Refuse, local, vars, Listed, Tasked
<1>15. ASSUME NEW w \in Worker, Abort(w)
       PROVE  Listed(v) /\ Tasked(v)
  BY <1>15 DEF Abort, NoTask, Listed, Tasked
<1>16. CASE Restart
  BY <1>16 DEF Restart, NoTask, Listed, Tasked
<1>17. ASSUME NEW w \in Worker, Start(w)
       PROVE  Listed(v) /\ Tasked(v)
  BY <1>1, <1>2, <1>3, <1>4, <1>5, <1>6, <1>17 DEF Start
<1>18. ASSUME NEW w \in Worker, Step(w)
       PROVE  Listed(v) /\ Tasked(v)
  BY <1>7, <1>8, <1>9, <1>10, <1>11, <1>12, <1>13, <1>18 DEF Step
<1> HIDE DEF Typed
<1> QED  BY <1>6, <1>7, <1>11, <1>14, <1>15, <1>16, <1>17, <1>18 DEF Next

\* A list names each row once for a new revision.
LEMMA BumpOnceStep ==
  ASSUME Typed, Typed', BumpOnce, [Next]_vars
  PROVE  BumpOnce'
<1> SUFFICES ASSUME NEW v \in Worker, NEW s \in todo'[v], NEW t \in todo'[v],
                    s.op = "bump", t.op = "bump", s.d = t.d
             PROVE  s = t
  BY DEF BumpOnce
<1>1. CASE todo'[v] \subseteq todo[v]
  BY <1>1 DEF BumpOnce
<1>2. ASSUME Fresh(s), Fresh(t)
      PROVE  s = t
  <2>1. s = Bump(s.d, row[s.d].rev) /\ t = Bump(t.d, row[t.d].rev)
    BY <1>2 DEF Fresh, Remove, Apply
  <2> QED  BY <2>1
<1> QED  BY <1>1, <1>2, WorkSteps DEF Listed

\* The connection, the lists, the PATCH bodies and the faults keep their types.
LEMMA ShapedStep ==
  ASSUME SyncConstants, Typed, Shaped, [Next]_vars
  PROVE  Shaped'
<1> USE DEF Shaped
<1>1. ASSUME NEW w \in Worker, NEW d \in Deployment, NEW b \in BOOLEAN,
             Create(w, d, b) \/ Update(w, d, b) \/ Reapply(w, d) \/ Delete(w, d)
      PROVE  Shaped'
  BY <1>1 DEF Create, Update, Reapply, Delete, bridge
<1>2. ASSUME NEW w \in Worker, NEW form \in Patches, StartPatch(w, form)
      PROVE  Shaped'
  <2>1. [form |-> form, previous |-> settings.full] \in [form : Form, previous : BOOLEAN]
    BY <1>2, SyncConstants DEF SyncConstants, Settings, Typed
  <2> QED  BY <1>2, <2>1 DEF StartPatch, bridge
<1>3. ASSUME NEW w \in Worker, Connect(w) \/ NodeUpdated(w)
      PROVE  Shaped'
  BY <1>3 DEF Connect, NodeUpdated, StartReconcile, bridge
<1>4. ASSUME NEW w \in Worker, Lock(w) \/ ReadNode(w) \/ Check(w) \/ Miss(w) \/ Send(w) \/ Reply(w)
      PROVE  Shaped'
  BY <1>4 DEF Lock, ReadNode, Check, Miss, Send, Reply, bridge, local
<1>5. ASSUME NEW w \in Worker, Reread(w) \/ Defer(w) \/ RecordApply(w) \/ RecordRemoval(w)
      PROVE  Shaped'
  BY <1>5 DEF Reread, Defer, RecordApply, RecordRemoval, Return, bridge, local
<1>6. ASSUME NEW w \in Worker, ListRows(w) \/ Pick(w) \/ ListForAccess(w) \/ BumpRow(w)
      PROVE  Shaped'
  BY <1>6 DEF ListRows, Pick, ListForAccess, BumpRow, bridge
<1>7. ASSUME NEW w \in Worker, ReadCopy(w) \/ WriteCopy(w) \/ ReadResult(w)
      PROVE  Shaped'
  BY <1>7 DEF ReadCopy, WriteCopy, ReadResult, bridge, local
<1>8. NoPatch \in [form : Form, previous : BOOLEAN]
  BY DEF NoPatch, Form, Change
<1>9. ASSUME NEW w \in Worker, React(w)
      PROVE  Shaped'
  BY <1>8, <1>9 DEF React
<1>10. \A kind \in FaultKinds : Fault(kind) => faults' \in 0..MaxFaults
  <2>1. faults < MaxFaults /\ faults' = faults + 1 => faults' \in 0..MaxFaults
    BY SyncConstants DEF SyncConstants
  <2> QED  BY <2>1 DEF Fault
<1>11. ASSUME NEW w \in Worker, Timeout(w) \/ Abort(w)
       PROVE  Shaped'
  <2>1. faults' \in 0..MaxFaults
    BY <1>10, <1>11 DEF Timeout, Abort, FaultKinds
  <2>2. CASE Timeout(w)
    BY <2>1, <2>2 DEF Timeout, local
  <2>3. CASE Abort(w)
    BY <1>8, <2>1, <2>3 DEF Abort
  <2> QED  BY <1>11, <2>2, <2>3
<1>12. CASE Disconnect \/ Refuse \/ Restart
  <2>1. faults' \in 0..MaxFaults
    BY <1>10, <1>12 DEF Disconnect, Refuse, Restart, FaultKinds
  <2>2. CASE Disconnect \/ Refuse
    BY <2>1, <2>2 DEF Disconnect, Refuse, local
  <2>3. CASE Restart
    BY <1>8, <2>1, <2>3 DEF Restart
  <2> QED  BY <1>12, <2>2, <2>3
<1>13. CASE Handle \/ Cancelled \/ UNCHANGED vars
  BY <1>13 DEF Handle, Cancelled, local, vars
<1>14. ASSUME NEW w \in Worker, Step(w)
       PROVE  Shaped'
  BY <1>4, <1>5, <1>6, <1>7, <1>9, <1>14 DEF Step
<1>15. ASSUME NEW w \in Worker, Start(w)
       PROVE  Shaped'
  BY <1>1, <1>2, <1>3, <1>15 DEF Start
<1> HIDE DEF Shaped
<1> QED  BY <1>3, <1>4, <1>11, <1>12, <1>13, <1>14, <1>15 DEF Next

\* A revision is within its bound wherever it has been copied to.
LEMMA RowsBoundedStep ==
  ASSUME SyncConstants, Typed, RowsBounded, WorkBounded, [Next]_vars
  PROVE  RowsBounded'
<1> SUFFICES ASSUME NEW d \in Deployment
             PROVE  row'[d].applied <= MaxRevision
  BY DEF RowsBounded
<1> USE DEF Typed
<1>1. row[d] \in RowN /\ row[d].applied <= MaxRevision /\ MaxRevision \in Nat
  BY SyncConstants DEF RowsBounded, SyncConstants
<1>2. ASSUME row'[d] = row[d] \/ row'[d].applied = 0 \/ row'[d].applied = row[d].applied
      PROVE  row'[d].applied <= MaxRevision
  BY <1>1, <1>2
<1>3. \A b \in BOOLEAN : Bumped(row[d], b).applied = row[d].applied
  <2> DEFINE n == row[d].rev + 1
  <2> TAKE b \in BOOLEAN
  <2>1. n \in Nat /\ Bumped(row[d], b) = [row[d] EXCEPT !.rev = n, !.enabled = b, !.status = "pending"]
    BY <1>1 DEF Bumped, RowN
  <2> HIDE DEF n
  <2>2. Bumped(row[d], b).applied = row[d].applied
    BY <1>1, <2>1 DEF RowN
  <2> QED  BY <2>2
<1>4. ASSUME NEW w \in Worker, NEW e \in Deployment, NEW b \in BOOLEAN,
             Create(w, e, b) \/ Update(w, e, b) \/ Reapply(w, e) \/ Delete(w, e)
      PROVE  row'[d].applied <= MaxRevision
  <2>1. CASE Create(w, e, b) \/ Delete(w, e)
    BY <1>2, <2>1 DEF Create, Delete, Absent
  <2>2. CASE Update(w, e, b)
    BY <1>2, <1>3, <2>2 DEF Update
  <2>3. CASE Reapply(w, e)
    BY <1>2, <2>3 DEF Reapply, db
  <2> QED  BY <1>4, <2>1, <2>2, <2>3
<1>5. ASSUME NEW w \in Worker, Start(w)
      PROVE  row'[d].applied <= MaxRevision
  <2>1. ASSUME NEW form \in Patches, StartPatch(w, form)
        PROVE  row'[d] = row[d]
    BY <2>1 DEF StartPatch, db
  <2>2. ASSUME NodeUpdated(w)
        PROVE  row'[d] = row[d]
    BY <2>2 DEF NodeUpdated, db
  <2>3. ASSUME NEW e \in Deployment, Reapply(w, e) \/ Delete(w, e)
        PROVE  row'[d].applied <= MaxRevision
    BY <1>4, <2>3
  <2> QED  BY <1>2, <1>4, <1>5, <2>1, <2>2, <2>3 DEF Start
<1>6. ASSUME NEW w \in Worker, Defer(w)
      PROVE  row'[d].applied = row[d].applied
  BY <1>6 DEF Defer, Deferred, RowN, Busy
<1>7. ASSUME NEW w \in Worker, RecordApply(w)
      PROVE  row'[d].applied <= MaxRevision
  <2> DEFINE ok == pc[w] = "succeed"
  <2>1. task[w].d \in Deployment /\ task[w].rev <= MaxRevision
    BY <1>7 DEF RecordApply, Busy, WorkBounded
  <2>2. row' = [row EXCEPT ![task[w].d] = Recorded(row[task[w].d], task[w].rev, ok)]
    BY <1>7 DEF RecordApply
  <2> HIDE DEF ok
  <2>3. \A r \in RowN : Recorded(r, task[w].rev, ok).applied \in {r.applied, task[w].rev}
    BY DEF Recorded, RowN
  <2> QED  BY <1>1, <2>1, <2>2, <2>3
<1>8. ASSUME NEW w \in Worker, BumpRow(w)
      PROVE  row'[d].applied = row[d].applied
  <2>1. PICK t \in todo[w] : BumpRow(w)!2!(t)
    BY <1>8 DEF BumpRow
  <2>2. row'[d] = row[d] \/ row'[d] = Bumped(row[d], row[d].enabled)
    BY <2>1
  <2>3. row[d].enabled \in BOOLEAN
    BY <1>1 DEF RowN
  <2> QED  BY <1>3, <2>2, <2>3
<1>9. ASSUME NEW w \in Worker, Step(w)
      PROVE  row' = row \/ Defer(w) \/ RecordApply(w) \/ BumpRow(w)
  BY <1>9 DEF Step, Reread, ReadNode, Check, Miss, Send, Reply, RecordRemoval, ListRows, Pick,
              ReadCopy, WriteCopy, ReadResult, React, ListForAccess, db
<1>10. ASSUME NEW w \in Worker, Connect(w) \/ Lock(w) \/ Timeout(w) \/ Abort(w)
       PROVE  row' = row
  BY <1>10 DEF Connect, Lock, Timeout, Abort, db
<1>11. CASE Handle \/ Cancelled \/ Disconnect \/ Refuse \/ Restart \/ UNCHANGED vars
  BY <1>2, <1>11 DEF Handle, Cancelled, Disconnect, Refuse, Restart, db, vars
<1> HIDE DEF Typed
<1> QED  BY <1>2, <1>5, <1>6, <1>7, <1>8, <1>9, <1>10, <1>11 DEF Next

LEMMA BoundedStep ==
  ASSUME SyncConstants, Typed, Queued, Room, Room', Bounded, [Next]_vars
  PROVE  Bounded'
<1>1. Typed'
  BY TypedStep
<1>2. MaxRevision \in Nat
  BY SyncConstants DEF SyncConstants
<1>3. \A d \in Deployment : row[d].rev <= MaxRevision /\ row'[d].rev <= MaxRevision
  <2> TAKE d \in Deployment
  <2>1. Cardinality(Bumping(d)) \in Nat /\ row[d].rev + Cardinality(Bumping(d)) <= MaxRevision
    BY BumpingCounted DEF Room
  <2>2. Cardinality(Bumping(d)') \in Nat
    <3>1. IsFiniteSet(Worker) /\ Bumping(d)' \subseteq Worker
      BY SyncConstants DEF SyncConstants, Bumping
    <3> HIDE DEF Bumping
    <3> QED  BY <3>1, FS_Subset, FS_CardinalityType
  <2>3. row'[d].rev + Cardinality(Bumping(d)') <= MaxRevision
    BY DEF Room
  <2>4. row[d].rev \in Nat /\ row'[d].rev \in Nat
    BY <1>1 DEF Typed, RowN
  <2> QED  BY <1>2, <2>1, <2>2, <2>3, <2>4
<1>4. WorkBounded'
  <2> SUFFICES ASSUME NEW v \in Worker
               PROVE  task'[v].rev <= MaxRevision /\ \A t \in todo'[v] : t.rev <= MaxRevision
    BY DEF WorkBounded
  <2>1. Listed(v) /\ Tasked(v)
    BY <1>1, WorkSteps
  <2>2. task[v].rev <= MaxRevision /\ \A t \in todo[v] : t.rev <= MaxRevision
    BY DEF Bounded, WorkBounded
  <2>3. task'[v].rev <= MaxRevision
    BY <1>2, <1>3, <2>1, <2>2 DEF Tasked
  <2>4. ASSUME NEW t \in todo'[v], Fresh(t)
        PROVE  t.rev <= MaxRevision
    <3>1. t.d \in Deployment
      BY <1>1 DEF Typed
    <3>2. t.rev = 0 \/ t.rev = row[t.d].rev
      BY <2>4 DEF Fresh, Remove, Apply, Bump
    <3> QED  BY <1>2, <1>3, <3>1, <3>2
  <2> QED  BY <2>1, <2>2, <2>3, <2>4 DEF Listed
<1>5. WireBounded'
  <2>1. wire \in Seq(RequestN) /\ \A i \in 1..Len(wire) : wire[i].rev <= MaxRevision
    BY DEF Typed, Bounded, WireBounded
  <2>2. CASE wire' = wire \/ wire' = <<>>
    BY <2>1, <2>2 DEF WireBounded
  <2>3. CASE wire # <<>> /\ wire' = Tail(wire)
    <3>1. \A i \in 1..Len(wire') : i + 1 \in 1..Len(wire) /\ wire'[i] = wire[i + 1]
      BY <2>1, <2>3
    <3> QED  BY <2>1, <3>1 DEF WireBounded
  <2>4. ASSUME NEW w \in Worker, Send(w)
        PROVE  WireBounded'
    <3>1. /\ Len(wire') = Len(wire) + 1 /\ wire'[Len(wire) + 1].rev = task[w].rev
          /\ \A i \in 1..Len(wire) : wire'[i] = wire[i]
      BY <2>4, SentLast
    <3>2. task[w].rev <= MaxRevision
      BY DEF Bounded, WorkBounded
    <3>3. \A i \in 1..Len(wire') : i \in 1..Len(wire) \/ i = Len(wire) + 1
      BY <2>1, <3>1
    <3> QED  BY <2>1, <3>1, <3>2, <3>3 DEF WireBounded
  <2>5. ASSUME NEW w \in Worker, wire' = Abandoned(w)
        PROVE  WireBounded'
    <3>1. Len(wire') = Len(wire) /\ \A i \in 1..Len(wire) : wire'[i].rev = wire[i].rev
      BY <2>1, <2>5, AbandonedFacts
    <3> QED  BY <2>1, <3>1 DEF WireBounded
  <2> QED  BY <2>2, <2>3, <2>4, <2>5, WireSteps
<1>6. HeldBounded'
  <2>1. CASE held' = held
    BY <2>1 DEF Bounded, HeldBounded
  <2>2. CASE Handle
    <3>1. /\ wire # <<>> /\ held' = [held EXCEPT ![Head(wire).d] = Kept(Head(wire))]
      BY <2>2 DEF Handle
    <3>2. Head(wire) = wire[1] /\ 1 \in 1..Len(wire)
      BY <3>1 DEF Typed
    <3>3. Kept(Head(wire)).rev <= MaxRevision
      BY <1>2, <3>2 DEF Kept, NoCopy, Bounded, WireBounded
    <3> QED  BY <3>1, <3>3 DEF Typed, Bounded, HeldBounded
  <2> QED  BY <2>1, <2>2, HeldSteps
<1>7. RowsBounded'
  BY RowsBoundedStep DEF Bounded
<1> QED  BY <1>4, <1>5, <1>6, <1>7 DEF Bounded

\* The types with the bounds of the instances.
LEMMA BoundsGiveTypes ==
  ASSUME SyncConstants, BoundsInv
  PROVE  TypeOK
<1>1. MaxRevision \in Nat
  BY SyncConstants DEF SyncConstants
<1> USE DEF BoundsInv, Typed, Bounded
<1>2. row \in [Deployment -> Rows]
  <2>1. ASSUME NEW d \in Deployment
        PROVE  row[d] \in Rows
    <3>1. row[d] \in RowN /\ Cardinality(Bumping(d)) \in Nat
      BY BumpingCounted
    <3>2. row[d].rev \in 0..MaxRevision /\ row[d].applied \in 0..MaxRevision
      BY <1>1, <3>1 DEF Room, RowsBounded, RowN
    <3> QED  BY <3>1, <3>2 DEF RowN, Rows
  <2> QED  BY <2>1
<1>3. \A t \in TaskN : t.rev <= MaxRevision => t \in Task
  BY <1>1 DEF TaskN, Task
<1>4. task \in [Worker -> Task] /\ todo \in [Worker -> SUBSET Task]
  BY <1>3 DEF WorkBounded
<1>5. held \in [Deployment -> Copy]
  BY <1>1 DEF HeldBounded, CopyN, Copy
<1>6. wire \in Seq(Request)
  <2>1. \A r \in RequestN : r.rev <= MaxRevision => r \in Request
    BY <1>1 DEF RequestN, Request
  <2>2. \A i \in 1..Len(wire) : wire[i] \in Request
    BY <2>1 DEF WireBounded
  <2> QED  BY <2>2
<1> QED  BY <1>2, <1>4, <1>5, <1>6 DEF TypeOK, Shaped

\* However many PATCHes, updates and reconciliations overlap, no revision passes its
\* bound and no row, request or copy at the node leaves its type.
THEOREM SyncTypes == Spec => []TypeOK
<1>1. Init => BoundsInv
  BY SyncConstants, BoundsInit
<1>2. BoundsInv /\ [Next]_vars => BoundsInv'
  <2> SUFFICES ASSUME BoundsInv, [Next]_vars
               PROVE  BoundsInv'
    OBVIOUS
  <2>1. Typed' /\ Queued'
    BY SyncConstants, TypedStep, QueuedStep DEF BoundsInv
  <2>2. Shaped' /\ BumpOnce' /\ Room'
    BY SyncConstants, <2>1, ShapedStep, BumpOnceStep, RoomStep DEF BoundsInv
  <2>3. Bounded'
    BY SyncConstants, <2>2, BoundedStep DEF BoundsInv
  <2> QED  BY <2>1, <2>2, <2>3 DEF BoundsInv
<1>3. BoundsInv => TypeOK
  BY SyncConstants, BoundsGiveTypes
<1> QED  BY <1>1, <1>2, <1>3, PTL DEF Spec
================================================================================
