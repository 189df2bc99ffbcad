------------------------------- MODULE WorkTargets -------------------------------
(***************************************************************************)
(* WorkSessions and their Targets: what project_open, node_open and        *)
(* project_context prepare, what the gateway admits a tool call on, and    *)
(* what an operator's changes revoke in between.                           *)
(*                                                                         *)
(* One Project and the one node its Deployments are on: either a Project   *)
(* of a user, or the container of the node's temporary sessions (kind).    *)
(* Each handler reads and writes row by row and calls the node in between; *)
(* every such statement is a step, except where a read only leads to an    *)
(* early return that the next read leads to as well.                       *)
(*                                                                         *)
(* A Deployment's configuration is its revision, as in DeploymentSync; how *)
(* a revision reaches the node is left to that module, and an apply is     *)
(* here the step that records its result.  Prompts, working directories    *)
(* and context revisions are left out: no check of the gateway reads them. *)
(* The revocation that the node gets is left out too: it is best effort,   *)
(* and Bind may fail or succeed whatever the node has been told.           *)
(* So are the control calls (list, kill, close, cancel), which the gateway *)
(* lets through on any stored Target, and which write nothing here.        *)
(* Whether the node is enabled, current and online is an answer a handler  *)
(* gets when it asks, either way.                                          *)
(***************************************************************************)
EXTENDS Naturals, FiniteSets

CONSTANTS
  Kinds,         \* kinds of Project this instance has
  Deployment,    \* Deployments of a user's Project
  NodeDeployment,\* the Deployment of a node's container
  Session,       \* WorkSessions: pairs of an owner and a client_request_id
  Worker,        \* handlers that may run at once
  Nobody,        \* no worker
  MaxRevision,   \* bound: desired revisions of a Deployment
  MaxFaults      \* bound: handlers that end early

ASSUME TargetConstants ==
  /\ Kinds \subseteq {"project", "node"}
  /\ NodeDeployment \in Deployment /\ Nobody \notin Worker /\ IsFiniteSet(Worker)
  /\ MaxRevision \in Nat \ {0} /\ MaxFaults \in Nat

VARIABLES
  kind,       \* what kind of Project this is
  project,    \* the row of projects
  row,        \* project_deployments
  fullAccess, \* the node's full_access column
  session,    \* work_sessions
  target,     \* work_targets, one for each session and Deployment
  lock,       \* operation lock "node_open" of each owner and request
  pc,         \* where each worker is in its handler
  job,        \* what its handler has read so far
  confirmed,  \* history: the revisions of each Deployment that were ever applied
  withdrawn,  \* history: the Targets a revocation has marked
  faults      \* handlers that ended early so far

config == <<kind, project, row, fullAccess, confirmed>>
work == <<session, target, withdrawn>>
vars == <<kind, project, row, fullAccess, session, target, lock, pc, job,
          confirmed, withdrawn, faults>>

\* synced: apply_status is that of an acknowledged apply, and applied_revision
\* is desired_revision.
Rows == [state : {"none", "live", "gone"}, rev : 0..MaxRevision,
         enabled : BOOLEAN, synced : BOOLEAN]
Projects == [state : {"none", "live", "gone"}, enabled : BOOLEAN]
Sessions == [status : {"none", "preparing", "ready", "partial", "failed", "cancelled"},
             request : SUBSET Deployment]
Targets == [status : {"none", "preparing", "ready", "unavailable", "context_error", "revoked"},
            rev : 0..MaxRevision, full : BOOLEAN]
Ops == {"none", "open", "enter", "context", "call", "project", "deployment",
        "stale", "access", "delete"}
Places == {"idle", "session", "target", "node", "project", "list", "config", "lock", "begin",
           "targets", "reserve", "prepare", "access", "bind", "put", "sum", "refresh",
           "row", "send", "rows", "bump", "revoke", "clean"}

NoRow(s) == [state |-> s, rev |-> 0, enabled |-> FALSE, synced |-> FALSE]
NoRows == [d \in Deployment |-> NoRow("none")]
NoSession == [status |-> "none", request |-> {}]
NoTarget == [status |-> "none", rev |-> 0, full |-> FALSE]
NoTargets == [d \in Deployment |-> NoTarget]
NoJob == [op |-> "none", s |-> Nobody, d |-> NodeDeployment, todo |-> {}, rows |-> NoRows,
          target |-> NoTarget, full |-> FALSE, status |-> "none",
          floor |-> 0, late |-> FALSE, seen |-> {}]

Jobs == [op : Ops, s : Session \cup {Nobody}, d : Deployment, todo : SUBSET Deployment,
         rows : [Deployment -> Rows], target : Targets, full : BOOLEAN,
         status : {"none", "ready", "partial", "failed"},
         floor : 0..(MaxRevision + 1), late : BOOLEAN, seen : SUBSET BOOLEAN]

Init ==
  /\ kind \in Kinds
  /\ project = IF kind = "project" THEN [state |-> "live", enabled |-> TRUE]
               ELSE [state |-> "none", enabled |-> TRUE]
  /\ row = NoRows
  /\ fullAccess = FALSE
  /\ session = [s \in Session |-> NoSession]
  /\ target = [s \in Session |-> NoTargets]
  /\ lock = [s \in Session |-> Nobody]
  /\ pc = [w \in Worker |-> "idle"]
  /\ job = [w \in Worker |-> NoJob]
  /\ confirmed = [d \in Deployment |-> {}]
  /\ withdrawn = {}
  /\ faults = 0

(***************************************************************************)
(* Rows.                                                                   *)
(***************************************************************************)
Live(d) == row[d].state = "live"

\* Mutant: the last apply need not have succeeded.
ExecutableUnapplied(r) == r.state = "live" /\ r.enabled

\* What the gateway and project_context ask of a Deployment, and what makes it
\* a candidate to prepare a Target on.
Executable(r) == r.state = "live" /\ r.enabled /\ r.synced

Bumped(r, enabled) == [r EXCEPT !.rev = @ + 1, !.enabled = enabled, !.synced = FALSE]

\* Bound: every Full Access change under way may still bump each row once.
CanGrow(d) == row[d].rev + Cardinality({w \in Worker : job[w].op = "access"}) < MaxRevision

Exists(s) == session[s].status # "none"

\* Mutant: a session without a ready Target is taken for one whose Targets are
\* still being prepared.
StatusOfUnfinished(ts) ==
  LET there == {d \in Deployment : ts[d].status # "none"}
      ready == {d \in there : ts[d].status = "ready"}
  IN IF ready = {} THEN "preparing" ELSE IF ready = there THEN "ready" ELSE "partial"

\* workSessionStatusForTargets and workSessionStatusAfterRevocation.
StatusOf(ts) ==
  LET there == {d \in Deployment : ts[d].status # "none"}
      ready == {d \in there : ts[d].status = "ready"}
  IN IF ready = {} THEN "failed" ELSE IF ready = there THEN "ready" ELSE "partial"

(***************************************************************************)
(* Handlers.                                                               *)
(***************************************************************************)
Goto(w, p) == pc' = [pc EXCEPT ![w] = p]

Begin(w, j, p) == pc[w] = "idle" /\ Goto(w, p) /\ job' = [job EXCEPT ![w] = j]

\* The handler answers; a deferred unlock runs.
Return(w) ==
  /\ Goto(w, "idle")
  /\ job' = [job EXCEPT ![w] = NoJob]
  /\ lock' = [s \in Session |-> IF lock[s] = w THEN Nobody ELSE lock[s]]

\* Early return unless ok.
Check(w, ok, p, j) ==
  IF ok THEN Goto(w, p) /\ job' = [job EXCEPT ![w] = j] /\ UNCHANGED lock ELSE Return(w)

OpenProject(w, s) ==
  /\ kind = "project"
  /\ Begin(w, [NoJob EXCEPT !.op = "open", !.s = s], "project")
  /\ UNCHANGED <<config, work, lock, faults>>

OpenNode(w, s) ==
  /\ kind = "node"
  /\ Begin(w, [NoJob EXCEPT !.op = "enter", !.s = s], "node")
  /\ UNCHANGED <<config, work, lock, faults>>

ProjectContext(w, s, d) ==
  /\ Begin(w, [NoJob EXCEPT !.op = "context", !.s = s, !.d = d], "session")
  /\ UNCHANGED <<config, work, lock, faults>>

\* History: a call cannot rightly run under a revision below the one that was
\* desired when it arrived.
Floor(d) == IF row[d].state = "gone" THEN MaxRevision + 1 ELSE row[d].rev

CallTool(w, s, d) ==
  /\ Begin(w, [NoJob EXCEPT !.op = "call", !.s = s, !.d = d, !.floor = Floor(d),
                            !.late = <<s, d>> \in withdrawn, !.seen = {fullAccess}],
           "target")
  /\ UNCHANGED <<config, work, lock, faults>>

(***************************************************************************)
(* What the handlers read.                                                 *)
(***************************************************************************)
ReadSession(w) ==
  LET s == job[w].s IN
  /\ pc[w] = "session"
  /\ Check(w, Exists(s) /\ session[s].status # "cancelled", "target", job[w])
  /\ UNCHANGED <<config, work, faults>>

\* project_context turns revoked Targets away after it has looked at the node.
ReadTarget(w) ==
  LET j == job[w]
      t == target[j.s][j.d]
  IN
  /\ pc[w] = "target"
  /\ Check(w, t.status # "none" /\ (j.op = "context" => t.status # "revoked"),
           "node", [j EXCEPT !.target = t])
  /\ UNCHANGED <<config, work, faults>>

ReadNode(w) ==
  LET j == job[w] IN
  /\ pc[w] = "node"
  /\ \E current \in BOOLEAN :
       Check(w, current /\ (j.op = "call" => j.target.status = "ready"),
             IF j.op = "enter" THEN "config" ELSE "project",
             IF j.op = "call" THEN [j EXCEPT !.full = fullAccess] ELSE j)
  /\ UNCHANGED <<config, work, faults>>

ReadProject(w) ==
  LET j == job[w] IN
  /\ pc[w] = "project"
  /\ Check(w, project.state = "live" /\ project.enabled,
           IF j.op = "open" THEN "list" ELSE "row", j)
  /\ UNCHANGED <<config, work, faults>>

\* Mutants: the gateway, and project_context, do not compare revisions; the
\* gateway does not compare Full Access.
ReadRowOfAnyRevision(w) ==
  LET j == job[w] IN
  /\ pc[w] = "row"
  /\ Check(w, Executable(row[j.d]) /\ (j.op = "call" => j.target.full = j.full),
           IF j.op = "call" THEN "send" ELSE "access", j)
  /\ UNCHANGED <<config, work, faults>>

ReadRowOfAnyAccess(w) ==
  LET j == job[w] IN
  /\ pc[w] = "row"
  /\ Check(w, Executable(row[j.d]) /\ row[j.d].rev = j.target.rev,
           IF j.op = "call" THEN "send" ELSE "access", j)
  /\ UNCHANGED <<config, work, faults>>

\* The Deployment is applied, at the revision the Target was prepared from; a
\* call also needs a Target of the node's present Full Access.
ReadRow(w) ==
  LET j == job[w]
      r == row[j.d]
  IN
  /\ pc[w] = "row"
  /\ Check(w, /\ Executable(r) /\ r.rev = j.target.rev
              /\ j.op = "call" => j.target.full = j.full,
           IF j.op = "call" THEN "send" ELSE "access", j)
  /\ UNCHANGED <<config, work, faults>>

ReadAccess(w) ==
  /\ pc[w] = "access"
  /\ job' = [job EXCEPT ![w].full = fullAccess]
  /\ Goto(w, "bind")
  /\ UNCHANGED <<config, work, lock, faults>>

\* The call leaves for the node, with the Target's revision.
Send(w) ==
  /\ pc[w] = "send" /\ Return(w)
  /\ UNCHANGED <<config, work, faults>>

\* project_open: the Deployments of a node that is enabled, and the selection:
\* some of them, or by default those that are enabled.
ListDeployments(w) ==
  /\ pc[w] = "list"
  /\ \E visible \in {{}, {d \in Deployment : Live(d)}} :
       \E chosen \in (SUBSET visible \ {{}}) \cup {{d \in visible : row[d].enabled}} :
          job' = [job EXCEPT ![w].todo = chosen,
                             ![w].rows = [d \in Deployment |-> IF d \in chosen THEN row[d]
                                                               ELSE NoRow("none")]]
  /\ Goto(w, "begin")
  /\ UNCHANGED <<config, work, lock, faults>>

\* node_open: GetNodeSession.
ReadConfiguration(w) ==
  /\ pc[w] = "config"
  /\ Check(w, project.state = "live" /\ Live(NodeDeployment) /\ row[NodeDeployment].enabled,
           "lock", [job[w] EXCEPT !.todo = {NodeDeployment},
                                  !.rows[NodeDeployment] = row[NodeDeployment]])
  /\ UNCHANGED <<config, work, faults>>

Lock(w) ==
  /\ pc[w] = "lock" /\ lock[job[w].s] = Nobody
  /\ lock' = [lock EXCEPT ![job[w].s] = w]
  /\ Goto(w, "begin")
  /\ UNCHANGED <<config, work, job, faults>>

(***************************************************************************)
(* Preparing Targets.                                                      *)
(***************************************************************************)
\* Mutant: the session is inserted whether or not the Project is still there.
CreatableAnyway(s) == ~Exists(s)

\* INSERT ... SELECT FROM projects.
Creatable(s) == ~Exists(s) /\ project.state = "live"

\* BeginWorkSession: a request creates its session once; the same request finds
\* it again, another request under the same id is a conflict.  Only node_open
\* goes on with a session that it found.
BeginWorkSession(w) ==
  LET j == job[w] IN
  /\ pc[w] = "begin"
  /\ IF Creatable(j.s)
     THEN /\ session' = [session EXCEPT ![j.s] = [status |-> "preparing", request |-> j.todo]]
          /\ Goto(w, CASE j.op = "enter" -> "targets"
                       [] j.op = "open" /\ j.todo = {} -> "sum"
                       [] OTHER -> "prepare")
          /\ UNCHANGED <<job, lock>>
     ELSE /\ Check(w, Exists(j.s) /\ session[j.s].request = j.todo /\ j.op = "enter", "targets", j)
          /\ UNCHANGED session
  /\ UNCHANGED <<config, target, withdrawn, faults>>

\* Mutant: only a request that creates the session prepares its Target.
ListTargetsOnce(w) ==
  LET j == job[w]
      t == target[j.s][NodeDeployment]
  IN
  /\ pc[w] = "targets"
  /\ Goto(w, IF t.status = "none" THEN "reserve" ELSE "refresh")
  /\ job' = [job EXCEPT ![w].status = IF t.status = "none" THEN "none" ELSE StatusOf(target[j.s])]
  /\ UNCHANGED <<config, work, lock, faults>>

\* node_open: a Target that is still being prepared is prepared again.
ListTargets(w) ==
  LET j == job[w]
      t == target[j.s][NodeDeployment]
  IN
  /\ pc[w] = "targets"
  /\ Goto(w, CASE t.status = "none" -> "reserve"
               [] t.status = "preparing" -> "prepare"
               [] OTHER -> "refresh")
  /\ job' = [job EXCEPT ![w].status = IF t.status \in {"none", "preparing"} THEN "none"
                                      ELSE StatusOf(target[j.s])]
  /\ UNCHANGED <<config, work, lock, faults>>

\* PutWorkTarget, which needs the session.
Stored(s, d, t) ==
  IF Exists(s) THEN [target EXCEPT ![s][d] = t] ELSE target

\* node_open: the Target's id is stored before the node is called.
Reserve(w) ==
  LET j == job[w]
      t == [status |-> "preparing", rev |-> j.rows[NodeDeployment].rev, full |-> fullAccess]
  IN
  /\ pc[w] = "reserve"
  /\ target' = Stored(j.s, NodeDeployment, t)
  /\ Check(w, Exists(j.s), "prepare", j)
  /\ UNCHANGED <<config, session, withdrawn, faults>>

\* prepareProjectTargetWithID: permissions as they are now, the Deployment as it
\* was read before; no call of the node for one that is not a candidate.
Prepare(w) ==
  LET j == job[w] IN
  /\ pc[w] = "prepare"
  /\ \E d \in j.todo :
       LET r == j.rows[d]
           t == [status |-> IF Executable(r) THEN "ready" ELSE "unavailable",
                 rev |-> r.rev, full |-> fullAccess]
           done == [j EXCEPT !.d = d, !.target = t, !.rows[d] = NoRow("none"),
                             !.full = Executable(r) /\ fullAccess]
       IN /\ job' = [job EXCEPT ![w] = done]
          /\ Goto(w, IF Executable(r) THEN "bind" ELSE "put")
  /\ UNCHANGED <<config, work, lock, faults>>

\* The calls that load the Prompt and bind, or rebind, the Target.  A failed
\* rebind ends project_context.
Bind(w) ==
  LET j == job[w] IN
  /\ pc[w] = "bind"
  /\ \E answer \in {"ready", "unavailable", "context_error"} :
       Check(w, j.op = "context" => answer = "ready", "put",
             [j EXCEPT !.target.status = answer, !.target.full = j.full])
  /\ UNCHANGED <<config, work, faults>>

\* PutWorkTarget; node_open computes the session's status from this Target.
Put(w) ==
  LET j == job[w]
      left == j.todo \ {j.d}
  IN
  /\ pc[w] = "put"
  /\ target' = Stored(j.s, j.d, j.target)
  /\ Check(w, Exists(j.s),
           CASE j.op = "enter" -> "refresh"
             [] j.op = "open" /\ left # {} -> "prepare"
             [] OTHER -> "sum",
           [j EXCEPT !.todo = left, !.target = NoTarget, !.full = FALSE,
                     !.status = IF j.op = "enter" THEN StatusOf([NoTargets EXCEPT ![j.d] = j.target])
                                ELSE "none"])
  /\ UNCHANGED <<config, session, withdrawn, faults>>

ListResults(w) ==
  LET j == job[w] IN
  /\ pc[w] = "sum"
  /\ job' = [job EXCEPT ![w].status = StatusOf(target[j.s])]
  /\ Goto(w, "refresh")
  /\ UNCHANGED <<config, work, lock, faults>>

\* UpdateWorkSessionContext.
Refresh(w) ==
  LET j == job[w] IN
  /\ pc[w] = "refresh"
  /\ session' = IF Exists(j.s) THEN [session EXCEPT ![j.s].status = j.status] ELSE session
  /\ Return(w)
  /\ UNCHANGED <<config, target, withdrawn, faults>>

(***************************************************************************)
(* Operators.                                                              *)
(***************************************************************************)
Revoker(op, d, rev) == [NoJob EXCEPT !.op = op, !.d = d, !.rows[d].rev = rev]

\* projectUpdate; only disabling revokes.
DisableProject(w) ==
  /\ kind = "project" /\ project.state = "live"
  /\ project' = [project EXCEPT !.enabled = FALSE]
  /\ Begin(w, Revoker("project", NodeDeployment, 0), "revoke")
  /\ UNCHANGED <<kind, row, fullAccess, confirmed, work, lock, faults>>

EnableProject ==
  /\ kind = "project" /\ project.state = "live" /\ ~project.enabled
  /\ project' = [project EXCEPT !.enabled = TRUE]
  /\ UNCHANGED <<kind, row, fullAccess, confirmed, work, lock, pc, job, faults>>

\* projectDelete: the Deployments go in the same transaction.
Gone == [d \in Deployment |-> IF Live(d) THEN NoRow("gone") ELSE row[d]]

DeleteProject(w) ==
  /\ kind = "project" /\ project.state = "live"
  /\ project' = [state |-> "gone", enabled |-> FALSE]
  /\ row' = Gone
  /\ Begin(w, Revoker("project", NodeDeployment, 0), "revoke")
  /\ UNCHANGED <<kind, fullAccess, confirmed, work, lock, faults>>

CreateDeployment(d, enabled) ==
  /\ kind = "project" /\ project.state = "live" /\ row[d].state = "none" /\ CanGrow(d)
  /\ row' = [row EXCEPT ![d] = [state |-> "live", rev |-> 1, enabled |-> enabled, synced |-> FALSE]]
  /\ UNCHANGED <<kind, project, fullAccess, confirmed, work, lock, pc, job, faults>>

\* deploymentUpdate with the current expected_revision.
UpdateDeployment(w, d, enabled) ==
  /\ kind = "project" /\ Live(d) /\ CanGrow(d)
  /\ row' = [row EXCEPT ![d] = Bumped(@, enabled)]
  /\ Begin(w, Revoker("deployment", d, 0), "revoke")
  /\ UNCHANGED <<kind, project, fullAccess, confirmed, work, lock, faults>>

DeleteDeployment(w, d) ==
  /\ kind = "project" /\ Live(d)
  /\ row' = [row EXCEPT ![d] = NoRow("gone")]
  /\ Begin(w, Revoker("deployment", d, 0), "revoke")
  /\ UNCHANGED <<kind, project, fullAccess, confirmed, work, lock, faults>>

\* PutNodeSessionConfiguration: the container, and its Deployment, are created
\* on first use; the revision grows only if the configuration changes.  A
\* container made after one was deleted is another Project.
PutNodeSession(w, enabled, changed) ==
  LET d == NodeDeployment
      r == row[d]
      next == CASE r.state = "none" -> [state |-> "live", rev |-> 1, enabled |-> enabled, synced |-> FALSE]
                [] r.state = "live" /\ (changed \/ enabled # r.enabled) -> Bumped(r, enabled)
                [] OTHER -> r
  IN
  /\ kind = "node" /\ project.state # "gone" /\ CanGrow(d)
  /\ project' = [project EXCEPT !.state = "live"]
  /\ row' = [row EXCEPT ![d] = next]
  /\ Begin(w, Revoker("stale", d, next.rev), "revoke")
  /\ UNCHANGED <<kind, fullAccess, confirmed, work, lock, faults>>

\* agentDockNodeDelete of a node with a container.
DeleteNode(w) ==
  /\ kind = "node" /\ project.state = "live"
  /\ Begin(w, Revoker("delete", NodeDeployment, 0), "revoke")
  /\ UNCHANGED <<config, work, lock, faults>>

\* Which Targets a revocation is about.
Scope(j) ==
  CASE j.op \in {"project", "delete"} -> Session \X Deployment
    [] j.op = "stale" -> {p \in Session \X {j.d} : target[p[1]][j.d].rev # j.rows[j.d].rev}
    [] OTHER -> Session \X {j.d}

\* RevokeStaleTargetsForDeployment gives up if its revision is no longer the
\* desired one.
Current(j) == j.op = "stale" => Live(j.d) /\ row[j.d].rev = j.rows[j.d].rev

\* revokeTargetsGuarded, in one transaction.
Revoke(w) ==
  LET j == job[w]
      hit == {p \in Scope(j) : target[p[1]][p[2]].status \notin {"none", "revoked"}}
      after == [s \in Session |-> [d \in Deployment |->
                  IF <<s, d>> \in hit THEN [target[s][d] EXCEPT !.status = "revoked"]
                  ELSE target[s][d]]]
  IN
  /\ pc[w] = "revoke"
  /\ IF Current(j)
     THEN /\ target' = after
          /\ withdrawn' = withdrawn \cup hit
          /\ session' = [s \in Session |->
               IF \A d \in Deployment : <<s, d>> \notin hit THEN session[s]
               ELSE [session[s] EXCEPT !.status = IF j.op \in {"project", "delete"} THEN "cancelled"
                                                  ELSE StatusOf(after[s])]]
     ELSE UNCHANGED work
  /\ Check(w, j.op = "delete" \/ (j.op = "access" /\ j.todo # {}),
           IF j.op = "delete" THEN "clean" ELSE "bump", j)
  /\ UNCHANGED <<config, faults>>

\* A Full Access change goes on with the next Deployment if a revocation fails.
RevokeFails(w) ==
  /\ pc[w] = "revoke" /\ job[w].op = "access" /\ faults < MaxFaults
  /\ faults' = faults + 1
  /\ Check(w, job[w].todo # {}, "bump", job[w])
  /\ UNCHANGED <<config, work>>

\* DeleteNodeSession: work_targets go with their session.
Clean(w) ==
  /\ pc[w] = "clean"
  /\ project' = [state |-> "gone", enabled |-> FALSE]
  /\ row' = Gone
  /\ session' = [s \in Session |-> NoSession]
  /\ target' = [s \in Session |-> NoTargets]
  /\ Return(w)
  /\ UNCHANGED <<kind, fullAccess, confirmed, withdrawn, faults>>

\* A PATCH of full_access.  Whether its handler goes on to the Deployments
\* depends on overlapping PATCHes (DeploymentSync).
PatchFull(w) ==
  /\ \A d \in Deployment : CanGrow(d)
  /\ fullAccess' = ~fullAccess
  /\ pc[w] = "idle" /\ Goto(w, "rows")
  /\ job' = [v \in Worker |->
       IF v = w THEN [NoJob EXCEPT !.op = "access"]
       ELSE IF job[v].op = "call" THEN [job[v] EXCEPT !.seen = @ \cup {~fullAccess}]
       ELSE job[v]]
  /\ UNCHANGED <<kind, project, row, confirmed, work, lock, faults>>

ListForAccess(w) ==
  LET live == {d \in Deployment : Live(d)} IN
  /\ pc[w] = "rows"
  /\ \E reapply \in BOOLEAN :
       Check(w, reapply /\ live # {}, "bump",
             [job[w] EXCEPT !.todo = live, !.rows = [d \in Deployment |-> [NoRow("none") EXCEPT !.rev = row[d].rev]]])
  /\ UNCHANGED <<config, work, faults>>

BumpRow(w) ==
  LET j == job[w] IN
  /\ pc[w] = "bump"
  /\ \E d \in j.todo :
       IF Live(d) /\ row[d].rev = j.rows[d].rev
       THEN /\ row' = [row EXCEPT ![d] = Bumped(@, row[d].enabled)]
            /\ Check(w, TRUE, "revoke", [j EXCEPT !.d = d, !.todo = @ \ {d}])
       ELSE /\ Check(w, j.todo # {d}, "bump", [j EXCEPT !.todo = @ \ {d}])
            /\ UNCHANGED row
  /\ UNCHANGED <<kind, project, fullAccess, confirmed, work, faults>>

\* The result of an apply of the desired revision is recorded; every other
\* result leaves the row alone.
RecordApply(d, ok) ==
  /\ Live(d) /\ row[d].synced # ok
  /\ row' = [row EXCEPT ![d].synced = ok]
  /\ confirmed' = IF ok THEN [confirmed EXCEPT ![d] = @ \cup {row[d].rev}] ELSE confirmed
  /\ UNCHANGED <<kind, project, fullAccess, work, lock, pc, job, faults>>

\* A handler's context ends, or the server restarts.
Abandon(w) ==
  /\ pc[w] # "idle" /\ faults < MaxFaults
  /\ faults' = faults + 1
  /\ Return(w)
  /\ UNCHANGED <<config, work>>

(***************************************************************************)
(* The specification.                                                      *)
(***************************************************************************)
Client(w) ==
  \E s \in Session :
    \/ OpenProject(w, s) \/ OpenNode(w, s)
    \/ \E d \in Deployment :
         ProjectContext(w, s, d) \/ CallTool(w, s, d)

Operator(w) ==
  \/ DisableProject(w) \/ DeleteProject(w) \/ DeleteNode(w) \/ PatchFull(w)
  \/ \E d \in Deployment :
       \/ DeleteDeployment(w, d)
       \/ \E enabled \in BOOLEAN : UpdateDeployment(w, d, enabled)
  \/ \E enabled, changed \in BOOLEAN : PutNodeSession(w, enabled, changed)

Step(w) ==
  \/ ReadSession(w) \/ ReadTarget(w) \/ ReadNode(w) \/ ReadProject(w) \/ ReadRow(w)
  \/ ReadAccess(w) \/ Send(w)
  \/ ListDeployments(w) \/ ReadConfiguration(w) \/ Lock(w)
  \/ BeginWorkSession(w) \/ ListTargets(w) \/ Reserve(w) \/ Prepare(w) \/ Bind(w)
  \/ Put(w) \/ ListResults(w) \/ Refresh(w)
  \/ Revoke(w) \/ RevokeFails(w) \/ Clean(w) \/ ListForAccess(w) \/ BumpRow(w)

Next ==
  \/ \E w \in Worker : Client(w) \/ Operator(w) \/ Step(w) \/ Abandon(w)
  \/ EnableProject
  \/ \E d \in Deployment :
       \E b \in BOOLEAN : CreateDeployment(d, b) \/ RecordApply(d, b)

Spec == Init /\ [][Next]_vars

(***************************************************************************)
(* Properties.                                                             *)
(***************************************************************************)
\* The database, the handlers and the history stay in their domains; no sequence
\* of updates and PATCHes takes a revision past its bound.
TypeOK ==
  /\ kind \in Kinds
  /\ project \in Projects
  /\ row \in [Deployment -> Rows]
  /\ fullAccess \in BOOLEAN
  /\ session \in [Session -> Sessions]
  /\ target \in [Session -> [Deployment -> Targets]]
  /\ lock \in [Session -> Worker \cup {Nobody}]
  /\ pc \in [Worker -> Places]
  /\ job \in [Worker -> Jobs \cup {NoJob}]
  /\ confirmed \in [Deployment -> SUBSET (1..MaxRevision)]
  /\ withdrawn \subseteq Session \X Deployment
  /\ faults \in 0..MaxFaults

\* A tool call that the gateway is about to send.
Admitted(w) == pc[w] = "send" /\ job[w].op = "call"

\* A call never runs under a configuration that was replaced, or deleted, before
\* it arrived, even if the handler that replaced it has not revoked anything yet,
\* or never will, and even if a project_open or project_context that was under
\* way has stored its Target afterwards (callNodeTool).
NoStaleRouting ==
  \A w \in Worker : Admitted(w) => job[w].target.rev >= job[w].floor

\* A call's Target shows a Full Access that was in force at some moment since the
\* call arrived, even if the PATCH that changed it stopped half way (callNodeTool).
AccessIsCurrent ==
  \A w \in Worker : Admitted(w) => job[w].target.full \in job[w].seen

\* A Target is ready only under a revision that the node has acknowledged, though
\* the Deployment was read long before the Target is stored (projectDeploymentAvailability).
ReadyWasApplied ==
  \A s \in Session, d \in Deployment :
    target[s][d].status = "ready" => target[s][d].rev \in confirmed[d]

\* Nothing is left of the temporary sessions of a deleted node, and nothing that
\* was under way brings any of it back (agentDockNodeDelete).
DeletedNodeIsClean ==
  kind = "node" /\ project.state = "gone" =>
    \A s \in Session :
      /\ ~Exists(s)
      /\ \A d \in Deployment : target[s][d].status = "none" /\ ~Live(d)

\* A node_open that comes to its end has a Target that was prepared, also when it
\* is the retry of one that was interrupted after it had stored the Target's id
\* (callNodeOpen).
ResumedIsPrepared ==
  \A w \in Worker : pc[w] = "refresh" /\ job[w].op = "enter" =>
    target[job[w].s][NodeDeployment].status # "preparing"

\* A Target that a revocation has marked is not executed by calls that come later
\* (RevokeTargetsForDeployment, RevokeTargetsForProject).
RevokedNeverRouted ==
  \A w \in Worker : Admitted(w) => ~job[w].late
================================================================================
