----------------------------- MODULE DeploymentSync -----------------------------
(***************************************************************************)
(* How the Deployments of one AgentDock node reach the node: the rows and  *)
(* removal tombstones of the project store, the HTTP handlers that change  *)
(* them, the handler of a node PATCH (enabled, Full Access), the           *)
(* reconciliation a node's Hello starts, and the Bridge connection that    *)
(* carries apply and remove requests.                                      *)
(*                                                                         *)
(* Handlers run concurrently.  A worker is a goroutine in a handler; each  *)
(* of its database statements, its lock operation, its Bridge send and the *)
(* answer it waits for is a step of its own, so every interleaving of      *)
(* handlers between two statements is explored.                            *)
(*                                                                         *)
(* The configuration of a Deployment is represented by its revision: a row *)
(* changes its fields only together with desired_revision, by a statement  *)
(* guarded by the expected revision.  What the node holds is the revision  *)
(* it was sent and the Full Access flag that went into the permissions.    *)
(*                                                                         *)
(* The node is external: it handles the requests of a connection in order, *)
(* forgets those of a connection that is gone, and keeps what it holds.    *)
(***************************************************************************)
EXTENDS Naturals, Sequences, FiniteSets

CONSTANTS
  Deployment,   \* Deployments of the node, each of a project of its own
  Worker,       \* handlers that may run at once
  Nobody,       \* no worker: a free lock, a request whose sender gave up
  Nothing,      \* no Deployment
  Patches,      \* node PATCH bodies this instance sends
  MaxRevision,  \* bound: desired revisions of a Deployment
  Faults,       \* kinds of fault this instance has
  MaxFaults     \* bound: faults in a behaviour

Change == {"keep", "on", "off"}       \* an optional boolean of a PATCH body
Form == [enabled : Change, full : Change]
FaultKinds == {"disconnect", "timeout", "abort", "refuse", "restart"}

ASSUME SyncConstants ==
  /\ IsFiniteSet(Worker) /\ Nobody \notin Worker /\ Nothing \notin Deployment
  /\ Patches \subseteq Form /\ Faults \subseteq FaultKinds
  /\ MaxRevision \in Nat \ {0} /\ MaxFaults \in Nat

VARIABLES
  row,       \* project_deployments
  removal,   \* project_deployment_removals: Deployments still to be removed
  settings,  \* the node's enabled and full_access columns
  online,    \* whether the hub has a connection of the node
  wire,      \* requests of that connection the node has not handled yet
  held,      \* what the node holds of each Deployment
  lock,      \* operation lock "deployment_apply" of each Deployment
  pc,        \* where each worker is in its handler
  task,      \* the Deployment and revision it is working on
  todo,      \* what is left of the list it read
  listing,   \* whether a reconciliation has still to list the Deployments
  view,      \* the node settings it read last
  patch,     \* its PATCH body, and full_access before the PATCH
  faults     \* faults so far

db == <<row, removal, settings>>
bridge == <<online, wire, held>>
local == <<task, todo, listing, view, patch>>
vars == <<row, removal, settings, online, wire, held, lock, pc, task, todo,
          listing, view, patch, faults>>

Rows == [state : {"none", "live", "gone"}, rev : 0..MaxRevision,
         applied : 0..MaxRevision, enabled : BOOLEAN,
         status : {"pending", "applied", "disabled", "failed"}]
Settings == [enabled : BOOLEAN, full : BOOLEAN]
Task == [op : {"none", "apply", "remove", "bump"},
         d : Deployment \cup {Nothing}, rev : 0..MaxRevision]
Request == [from : Worker \cup {Nobody}, op : {"apply", "remove"},
            d : Deployment, rev : 0..MaxRevision, full : BOOLEAN]
Copy == [rev : 0..MaxRevision, full : BOOLEAN]   \* rev 0: the node holds nothing
Places == {"idle", "next", "lock", "reread", "node", "check", "defer", "send",
           "wait", "reply", "succeed", "fail", "copy", "write", "result", "react", "list"}

NoTask == [op |-> "none", d |-> Nothing, rev |-> 0]
NoView == [enabled |-> FALSE, full |-> FALSE]
NoPatch == [form |-> [enabled |-> "keep", full |-> "keep"], previous |-> FALSE]
NoCopy == [rev |-> 0, full |-> FALSE]
Absent(s) == [state |-> s, rev |-> 0, applied |-> 0, enabled |-> FALSE,
              status |-> "pending"]

Init ==
  /\ row = [d \in Deployment |-> Absent("none")]
  /\ removal = {}
  /\ settings = [enabled |-> TRUE, full |-> FALSE]
  /\ online = FALSE
  /\ wire = <<>>
  /\ held = [d \in Deployment |-> NoCopy]
  /\ lock = [d \in Deployment |-> Nobody]
  /\ pc = [w \in Worker |-> "idle"]
  /\ task = [w \in Worker |-> NoTask]
  /\ todo = [w \in Worker |-> {}]
  /\ listing = [w \in Worker |-> FALSE]
  /\ view = [w \in Worker |-> NoView]
  /\ patch = [w \in Worker |-> NoPatch]
  /\ faults = 0

(***************************************************************************)
(* Rows.                                                                   *)
(***************************************************************************)
Live(d) == row[d].state = "live"

\* UpdateDeployment on a row whose revision is the expected one.
Bumped(r, enabled) ==
  [r EXCEPT !.rev = @ + 1, !.enabled = enabled, !.status = "pending"]

\* Mutant: the result is recorded whatever the desired revision is by now.
RecordedAnyway(r, rev, ok) ==
  IF r.state # "live" THEN r
  ELSE IF ok THEN [r EXCEPT !.applied = rev,
                            !.status = IF r.enabled THEN "applied" ELSE "disabled"]
  ELSE [r EXCEPT !.status = "failed"]

\* Mutant: a failure stores the revision -1 that marks it in the handler.
RecordedFailure(r, rev, ok) ==
  IF r.state # "live" \/ r.rev # rev THEN r
  ELSE [r EXCEPT !.applied = IF ok THEN rev ELSE 0 - 1,
                 !.status = IF ok THEN IF r.enabled THEN "applied" ELSE "disabled"
                            ELSE "failed"]

\* RecordApplyResult: only the revision the request was made for.
Recorded(r, rev, ok) ==
  IF r.state # "live" \/ r.rev # rev THEN r
  ELSE IF ok THEN [r EXCEPT !.applied = rev,
                            !.status = IF r.enabled THEN "applied" ELSE "disabled"]
  ELSE [r EXCEPT !.status = "failed"]

\* MarkPending.
Deferred(r, rev) ==
  IF r.state = "live" /\ r.rev = rev THEN [r EXCEPT !.status = "pending"] ELSE r

\* Mutant: a row that was tried is left alone.
InSyncOrTried(r) == r.status # "pending"

\* Rows a reconciliation leaves alone.
InSync(r) == r.applied = r.rev /\ r.status \in {"applied", "disabled"}

\* Bound: every PATCH under way may still give each row one more revision.
Patching(w) ==
  \/ pc[w] \in {"copy", "write", "result", "react", "list"}
  \/ \E t \in todo[w] : t.op = "bump"
CanGrow(d) == row[d].rev + Cardinality({w \in Worker : Patching(w)}) < MaxRevision

(***************************************************************************)
(* Handlers.  Begin puts an idle worker to work, Goto moves it on, Return  *)
(* ends what it does for one Deployment.                                   *)
(***************************************************************************)
Begin(w, t, p) ==
  /\ pc[w] = "idle"
  /\ pc' = [pc EXCEPT ![w] = p]
  /\ task' = [task EXCEPT ![w] = t]

Goto(w, p) == pc' = [pc EXCEPT ![w] = p]

Return(w) ==
  /\ Goto(w, IF todo[w] = {} /\ ~listing[w] THEN "idle" ELSE "next")
  /\ task' = [task EXCEPT ![w] = NoTask]
  /\ view' = [view EXCEPT ![w] = NoView]
  /\ UNCHANGED <<todo, listing, patch>>

Unlocked(d) == lock' = [lock EXCEPT ![d] = Nobody]

Apply(d, rev) == [op |-> "apply", d |-> d, rev |-> rev]
Remove(d) == [op |-> "remove", d |-> d, rev |-> 0]
Bump(d, rev) == [op |-> "bump", d |-> d, rev |-> rev]

\* deploymentCreate.
Create(w, d, enabled) ==
  /\ row[d].state = "none" /\ CanGrow(d)
  /\ row' = [row EXCEPT ![d] = [state |-> "live", rev |-> 1, applied |-> 0,
                                enabled |-> enabled, status |-> "pending"]]
  /\ Begin(w, Apply(d, 1), "lock")
  /\ UNCHANGED <<removal, settings, bridge, lock, todo, listing, view, patch, faults>>

\* deploymentUpdate with the current expected_revision (any other is refused).
Update(w, d, enabled) ==
  /\ Live(d) /\ CanGrow(d)
  /\ row' = [row EXCEPT ![d] = Bumped(@, enabled)]
  /\ Begin(w, Apply(d, row[d].rev + 1), "lock")
  /\ UNCHANGED <<removal, settings, bridge, lock, todo, listing, view, patch, faults>>

\* deploymentApply: the operator's retry.
Reapply(w, d) ==
  /\ Live(d)
  /\ Begin(w, Apply(d, row[d].rev), "lock")
  /\ UNCHANGED <<db, bridge, lock, todo, listing, view, patch, faults>>

\* deploymentDelete: the row becomes a tombstone in one transaction.
Delete(w, d) ==
  /\ Live(d)
  /\ row' = [row EXCEPT ![d] = Absent("gone")]
  /\ removal' = removal \cup {d}
  /\ Begin(w, Remove(d), "check")
  /\ UNCHANGED <<settings, bridge, lock, todo, listing, view, patch, faults>>

(***************************************************************************)
(* tryApplyProjectDeployment.                                              *)
(***************************************************************************)
\* Mutant: applies of one Deployment are not serialised.
FreeForAll(d) == d \in Deployment

Free(d) == lock[d] = Nobody

Lock(w) ==
  /\ pc[w] = "lock" /\ Free(task[w].d)
  /\ lock' = [lock EXCEPT ![task[w].d] = w]
  /\ Goto(w, "reread")
  /\ UNCHANGED <<db, bridge, local, faults>>

\* The row has moved on, or is gone: whoever changed it applies or removes it.
Reread(w) ==
  LET t == task[w] IN
  /\ pc[w] = "reread"
  /\ IF Live(t.d) /\ row[t.d].rev = t.rev
     THEN Goto(w, "node") /\ UNCHANGED <<lock, local>>
     ELSE Unlocked(t.d) /\ Return(w)
  /\ UNCHANGED <<db, bridge, faults>>

\* The node's row decides what is sent; a disabled or absent node ends the
\* attempt here.
ReadNode(w) ==
  /\ pc[w] = "node"
  /\ view' = [view EXCEPT ![w] = settings]
  /\ Goto(w, IF settings.enabled THEN "check" ELSE "fail")
  /\ UNCHANGED <<db, bridge, lock, task, todo, listing, patch, faults>>

\* Hub.Online; an apply to an offline node stays pending, a removal is noted
\* as failed.
Check(w) ==
  /\ pc[w] = "check"
  /\ Goto(w, IF online THEN "send"
             ELSE IF task[w].op = "apply" THEN "defer" ELSE "fail")
  /\ UNCHANGED <<db, bridge, lock, local, faults>>

Defer(w) ==
  /\ pc[w] = "defer"
  /\ row' = [row EXCEPT ![task[w].d] = Deferred(@, task[w].rev)]
  /\ Unlocked(task[w].d) /\ Return(w)
  /\ UNCHANGED <<removal, settings, bridge, faults>>

\* Hub.Invoke takes the connection of the moment, if there still is one.
Miss(w) ==
  /\ pc[w] = "send" /\ ~online
  /\ Goto(w, "fail")
  /\ UNCHANGED <<db, bridge, lock, local, faults>>

Send(w) ==
  /\ pc[w] = "send" /\ online
  /\ wire' = Append(wire, [from |-> w, op |-> task[w].op, d |-> task[w].d,
                           rev |-> task[w].rev, full |-> view[w].full])
  /\ Goto(w, "wait")
  /\ UNCHANGED <<db, online, held, lock, local, faults>>

\* RecordApplyResult, then the deferred unlock.
RecordApply(w) ==
  LET t == task[w] IN
  /\ pc[w] \in {"succeed", "fail"} /\ t.op = "apply"
  /\ row' = [row EXCEPT ![t.d] = Recorded(@, t.rev, pc[w] = "succeed")]
  /\ Unlocked(t.d) /\ Return(w)
  /\ UNCHANGED <<removal, settings, bridge, faults>>

(***************************************************************************)
(* tryRemoveProjectDeployment goes from Check to Send like an apply, but   *)
(* takes no lock and does not ask whether the node is enabled.             *)
(***************************************************************************)
\* RecordRemovalResult: only an acknowledged removal clears the tombstone.
RecordRemoval(w) ==
  /\ pc[w] \in {"succeed", "fail"} /\ task[w].op = "remove"
  /\ removal' = IF pc[w] = "succeed" THEN removal \ {task[w].d} ELSE removal
  /\ Return(w)
  /\ UNCHANGED <<row, settings, bridge, lock, faults>>

(***************************************************************************)
(* The connection and the node.                                            *)
(***************************************************************************)
\* Everyone still waiting when a connection closes gets an error.
Interrupted(places) ==
  [w \in Worker |-> IF places[w] \in {"wait", "reply"} THEN "fail" ELSE places[w]]

\* Mutant: the Hello only brings the rows up to date.
StartReconcileRows(w) ==
  /\ Begin(w, NoTask, "next")
  /\ listing' = [listing EXCEPT ![w] = TRUE]
  /\ UNCHANGED <<todo, view, patch>>

\* reconcileProjectNode starts with the tombstones; the rows are listed when
\* the removals are done.
StartReconcile(w) ==
  /\ Begin(w, NoTask, "next")
  /\ todo' = [todo EXCEPT ![w] = {Remove(d) : d \in removal}]
  /\ listing' = [listing EXCEPT ![w] = TRUE]
  /\ UNCHANGED <<view, patch>>

Connect(w) ==
  /\ settings.enabled /\ ~online
  /\ online' = TRUE
  /\ StartReconcile(w)
  /\ UNCHANGED <<db, wire, held, lock, faults>>

\* A changed Hello snapshot of the live connection.
NodeUpdated(w) ==
  /\ online
  /\ StartReconcile(w)
  /\ UNCHANGED <<db, bridge, lock, faults>>

ListRows(w) ==
  /\ pc[w] = "next" /\ todo[w] = {} /\ listing[w]
  /\ LET found == {Apply(d, row[d].rev) : d \in {e \in Deployment : Live(e) /\ ~InSync(row[e])}}
     IN /\ todo' = [todo EXCEPT ![w] = found]
        /\ Goto(w, IF found = {} THEN "idle" ELSE "next")
  /\ listing' = [listing EXCEPT ![w] = FALSE]
  /\ UNCHANGED <<db, bridge, lock, task, view, patch, faults>>

\* The code goes through a list in the order of its query; here in any order.
Pick(w) ==
  /\ pc[w] = "next"
  /\ \E t \in todo[w] :
       /\ t.op # "bump"
       /\ todo' = [todo EXCEPT ![w] = @ \ {t}]
       /\ task' = [task EXCEPT ![w] = t]
       /\ Goto(w, IF t.op = "apply" THEN "lock" ELSE "check")
  /\ UNCHANGED <<db, bridge, lock, listing, view, patch, faults>>

\* The node handles the request at the head of the connection; one its sender
\* gave up on may have been cancelled in time.
Kept(request) ==
  IF request.op = "apply" THEN [rev |-> request.rev, full |-> request.full] ELSE NoCopy

Handle ==
  /\ wire # <<>>
  /\ LET r == Head(wire) IN
       /\ held' = [held EXCEPT ![r.d] = Kept(r)]
       /\ pc' = IF r.from \in Worker THEN [pc EXCEPT ![r.from] = "reply"] ELSE pc
  /\ wire' = Tail(wire)
  /\ UNCHANGED <<db, online, lock, local, faults>>

Cancelled ==
  /\ wire # <<>> /\ Head(wire).from = Nobody
  /\ wire' = Tail(wire)
  /\ UNCHANGED <<db, online, held, lock, pc, local, faults>>

Reply(w) ==
  /\ pc[w] = "reply"
  /\ Goto(w, "succeed")
  /\ UNCHANGED <<db, bridge, lock, local, faults>>

(***************************************************************************)
(* agentDockNodeUpdate.                                                    *)
(***************************************************************************)
StartPatch(w, form) ==
  /\ \A d \in Deployment : CanGrow(d)
  /\ Begin(w, NoTask, "copy")
  /\ patch' = [patch EXCEPT ![w] = [form |-> form, previous |-> settings.full]]
  /\ UNCHANGED <<db, bridge, lock, todo, listing, view, faults>>

\* Store.Update reads the row, changes the fields it was given and writes all
\* of them back.
ReadCopy(w) ==
  /\ pc[w] = "copy"
  /\ view' = [view EXCEPT ![w] = settings]
  /\ Goto(w, "write")
  /\ UNCHANGED <<db, bridge, lock, task, todo, listing, patch, faults>>

Changed(change, old) == IF change = "keep" THEN old ELSE change = "on"

WriteCopy(w) ==
  /\ pc[w] = "write"
  /\ LET form == patch[w].form IN
       settings' = [enabled |-> Changed(form.enabled, view[w].enabled),
                    full |-> Changed(form.full, view[w].full)]
  /\ Goto(w, "result")
  /\ UNCHANGED <<row, removal, bridge, lock, local, faults>>

ReadResult(w) ==
  /\ pc[w] = "result"
  /\ view' = [view EXCEPT ![w] = settings]
  /\ Goto(w, "react")
  /\ UNCHANGED <<db, bridge, lock, task, todo, listing, patch, faults>>

\* The form named full_access and the row read back differs from the one
\* before the PATCH.
AccessChanged(p, seen) == p.form.full # "keep" /\ p.previous # seen.full

React(w) ==
  LET changed == AccessChanged(patch[w], view[w])
      there == [pc EXCEPT ![w] = IF changed THEN "list" ELSE "idle"]
  IN
  /\ pc[w] = "react"
  /\ IF view[w].enabled
     THEN pc' = there /\ UNCHANGED <<online, wire>>
     ELSE pc' = Interrupted(there) /\ online' = FALSE /\ wire' = <<>>
  /\ view' = [view EXCEPT ![w] = NoView]
  /\ patch' = [patch EXCEPT ![w] = NoPatch]
  /\ UNCHANGED <<db, held, lock, task, todo, listing, faults>>

\* reapplyProjectDeploymentsForNodeAccessChange gives every row a new revision
\* and applies it.
ListForAccess(w) ==
  /\ pc[w] = "list"
  /\ LET found == {Bump(d, row[d].rev) : d \in {e \in Deployment : Live(e)}}
     IN /\ todo' = [todo EXCEPT ![w] = found]
        /\ Goto(w, IF found = {} THEN "idle" ELSE "next")
  /\ UNCHANGED <<db, bridge, lock, task, listing, view, patch, faults>>

BumpRow(w) ==
  /\ pc[w] = "next"
  /\ \E t \in todo[w] :
       /\ t.op = "bump"
       /\ todo' = [todo EXCEPT ![w] = @ \ {t}]
       /\ IF Live(t.d) /\ row[t.d].rev = t.rev
          THEN /\ row' = [row EXCEPT ![t.d] = Bumped(@, row[t.d].enabled)]
               /\ task' = [task EXCEPT ![w] = Apply(t.d, t.rev + 1)]
               /\ Goto(w, "lock")
          ELSE /\ Goto(w, IF todo[w] = {t} THEN "idle" ELSE "next")
               /\ UNCHANGED <<row, task>>
  /\ UNCHANGED <<removal, settings, bridge, lock, listing, view, patch, faults>>

(***************************************************************************)
(* Faults.                                                                 *)
(***************************************************************************)
Fault(kind) ==
  /\ kind \in Faults /\ faults < MaxFaults
  /\ faults' = faults + 1

Disconnect ==
  /\ Fault("disconnect") /\ online
  /\ online' = FALSE /\ wire' = <<>> /\ pc' = Interrupted(pc)
  /\ UNCHANGED <<db, held, lock, local>>

\* A request whose sender no longer waits.
Abandoned(w) ==
  [i \in DOMAIN wire |-> IF wire[i].from = w THEN [wire[i] EXCEPT !.from = Nobody]
                         ELSE wire[i]]

\* projectNodeApplyTimeout: the handler goes on and records the failure.
Timeout(w) ==
  /\ Fault("timeout") /\ pc[w] \in {"wait", "reply"}
  /\ wire' = Abandoned(w) /\ Goto(w, "fail")
  /\ UNCHANGED <<db, online, held, lock, local>>

\* The handler's context ends: its next statement fails and it returns.
Abort(w) ==
  /\ Fault("abort") /\ pc[w] # "idle"
  /\ wire' = Abandoned(w) /\ Goto(w, "idle")
  /\ lock' = [d \in Deployment |-> IF lock[d] = w THEN Nobody ELSE lock[d]]
  /\ task' = [task EXCEPT ![w] = NoTask]
  /\ todo' = [todo EXCEPT ![w] = {}]
  /\ listing' = [listing EXCEPT ![w] = FALSE]
  /\ view' = [view EXCEPT ![w] = NoView]
  /\ patch' = [patch EXCEPT ![w] = NoPatch]
  /\ UNCHANGED <<db, online, held>>

\* The node answers an error, or an acknowledgment that does not match.
Refuse ==
  /\ Fault("refuse") /\ wire # <<>> /\ Head(wire).from \in Worker
  /\ wire' = Tail(wire)
  /\ pc' = [pc EXCEPT ![Head(wire).from] = "fail"]
  /\ UNCHANGED <<db, online, held, lock, local>>

\* The server stops and starts: the database and the node remain.
Restart ==
  /\ Fault("restart")
  /\ online' = FALSE /\ wire' = <<>>
  /\ lock' = [d \in Deployment |-> Nobody]
  /\ pc' = [w \in Worker |-> "idle"]
  /\ task' = [w \in Worker |-> NoTask]
  /\ todo' = [w \in Worker |-> {}]
  /\ listing' = [w \in Worker |-> FALSE]
  /\ view' = [w \in Worker |-> NoView]
  /\ patch' = [w \in Worker |-> NoPatch]
  /\ UNCHANGED <<db, held>>

(***************************************************************************)
(* The specification.                                                      *)
(***************************************************************************)
Start(w) ==
  \/ \E d \in Deployment :
       \/ \E enabled \in BOOLEAN : Create(w, d, enabled) \/ Update(w, d, enabled)
       \/ Reapply(w, d) \/ Delete(w, d)
  \/ \E form \in Patches : StartPatch(w, form)
  \/ NodeUpdated(w)

Step(w) ==
  \/ Reread(w) \/ ReadNode(w) \/ Check(w) \/ Defer(w) \/ Miss(w) \/ Send(w)
  \/ Reply(w) \/ RecordApply(w) \/ RecordRemoval(w)
  \/ ListRows(w) \/ Pick(w)
  \/ ReadCopy(w) \/ WriteCopy(w) \/ ReadResult(w) \/ React(w)
  \/ ListForAccess(w) \/ BumpRow(w)

Next ==
  \/ \E w \in Worker : Start(w) \/ Connect(w) \/ Lock(w) \/ Step(w)
                        \/ Timeout(w) \/ Abort(w)
  \/ Handle \/ Cancelled \/ Disconnect \/ Refuse \/ Restart

\* Go runs every handler that can run; waiters of an operation lock are served
\* in turn (a channel send), so a lock that is free again and again is taken;
\* the node handles what it receives and an enabled node dials again and again.
Fairness ==
  /\ \A w \in Worker : WF_vars(Step(w)) /\ SF_vars(Lock(w))
  /\ WF_vars(Handle)
  /\ SF_vars(\E w \in Worker : Connect(w))

Spec == Init /\ [][Next]_vars
FairSpec == Spec /\ Fairness

(***************************************************************************)
(* Properties.                                                             *)
(***************************************************************************)
\* The rows, the connection, the node and every handler stay in their domains;
\* no sequence of updates and PATCHes takes a revision past its bound.
TypeOK ==
  /\ row \in [Deployment -> Rows]
  /\ removal \subseteq Deployment
  /\ settings \in Settings /\ online \in BOOLEAN
  /\ wire \in Seq(Request)
  /\ held \in [Deployment -> Copy]
  /\ lock \in [Deployment -> Worker \cup {Nobody}]
  /\ pc \in [Worker -> Places]
  /\ task \in [Worker -> Task]
  /\ todo \in [Worker -> SUBSET Task]
  /\ listing \in [Worker -> BOOLEAN]
  /\ view \in [Worker -> Settings]
  /\ patch \in [Worker -> [form : Form, previous : BOOLEAN]]
  /\ faults \in 0..MaxFaults

\* The gateway routes calls by the row: a row that says applied, or disabled,
\* says so of its current desired revision and of its own enabled flag, however
\* late the answer of an earlier apply is (RecordApplyResult).
StatusIsCurrent ==
  \A d \in Deployment :
    row[d].status \in {"applied", "disabled"} =>
      /\ row[d].applied = row[d].rev
      /\ (row[d].status = "applied") <=> row[d].enabled

\* A row recorded as applied is what the node really holds, whatever older
\* requests were delayed, timed out, abandoned or answered late
\* (tryApplyProjectDeployment).
AppliedIsHeld ==
  \A d \in Deployment :
    Live(d) /\ InSync(row[d]) => held[d].rev = row[d].rev

\* Nothing left to do: every handler is done, the node is connected, and every
\* row is recorded as applied.
Settled ==
  /\ online /\ settings.enabled /\ wire = <<>>
  /\ \A w \in Worker : pc[w] = "idle"
  /\ \A d \in Deployment : Live(d) => InSync(row[d])

\* Once Full Access is off and everything is applied, the node executes with
\* the fine-grained permissions of every Deployment again.
FullAccessOffIsHeld ==
  Settled /\ ~settings.full =>
    \A d \in Deployment : Live(d) => ~held[d].full

Unapplied(d, rev) == Live(d) /\ row[d].rev = rev /\ row[d].applied # rev

\* A new desired revision reaches the node or is superseded, even if the node
\* was away or the server was restarted (reconcileProjectNode).
RevisionsArrive ==
  \A d \in Deployment, rev \in 1..MaxRevision : Unapplied(d, rev) ~> ~Unapplied(d, rev)

\* A removal is acknowledged in the end, even if the node was away when the
\* Deployment was deleted (reconcileProjectNode).
RemovalsArrive ==
  \A d \in Deployment : (d \in removal) ~> (d \notin removal)

\* Whatever was committed while the node was away, it gets to know (both of these).
NodesCatchUp == RevisionsArrive /\ RemovalsArrive
================================================================================
