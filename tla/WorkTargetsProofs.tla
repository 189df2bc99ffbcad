--------------------------- MODULE WorkTargetsProofs ---------------------------
(***************************************************************************)
(* Theorems about WorkTargets, for every number of Deployments, sessions   *)
(* and handlers, every number of revisions and of handlers that end early: *)
(* what a call is admitted on, what a ready Target stands for, what is     *)
(* left of a deleted node, and what a retried node_open ends with.         *)
(*                                                                         *)
(* The inductive invariant says of every handler what it may know from its *)
(* earlier reads (Known), of every node_open what its lock is worth        *)
(* (Resuming), and of the rows what they stand for.  A step of a handler   *)
(* changes one worker's place and notes; what it has to establish about    *)
(* them is the same for every action (Stepping).                           *)
(*                                                                         *)
(* The types with their bounds rest on one more invariant: the revision of *)
(* a row and the Full Access changes that may still raise it are together  *)
(* no more than the bound (Room), and what is noted or stored was read     *)
(* from such a row (Fits).                                                 *)
(***************************************************************************)
EXTENDS WorkTargets, FiniteSetTheorems, TLAPS

\* The types, without the bounds of the instances.
RowN == [state : {"none", "live", "gone"}, rev : Nat, enabled : BOOLEAN, synced : BOOLEAN]
TargetN == [status : {"none", "preparing", "ready", "unavailable", "context_error", "revoked"},
            rev : Nat, full : BOOLEAN]
JobN == [op : Ops, s : Session \cup {Nobody}, d : Deployment, todo : SUBSET Deployment,
         rows : [Deployment -> RowN], target : TargetN, full : BOOLEAN,
         status : {"none", "ready", "partial", "failed"},
         floor : Nat, late : BOOLEAN, seen : SUBSET BOOLEAN]

\* Where a handler may be.
PlacesOf(op) ==
  CASE op = "none" -> {"idle"}
    [] op = "open" -> {"project", "list", "begin", "prepare", "bind", "put", "sum", "refresh"}
    [] op = "enter" -> {"node", "config", "lock", "begin", "targets", "reserve", "prepare",
                        "bind", "put", "refresh"}
    [] op = "context" -> {"session", "target", "node", "project", "row", "access", "bind",
                          "put", "sum", "refresh"}
    [] op = "call" -> {"target", "node", "project", "row", "send"}
    [] op \in {"project", "deployment", "stale"} -> {"revoke"}
    [] op = "access" -> {"rows", "bump", "revoke"}
    [] op = "delete" -> {"revoke", "clean"}
    [] OTHER -> {}

Working(j, p) ==
  /\ p \in PlacesOf(j.op)
  /\ j.op \in {"open", "enter", "context", "call"} => j.s \in Session

TypedRows ==
  /\ kind \in {"project", "node"}
  /\ project \in Projects
  /\ row \in [Deployment -> RowN]
  /\ fullAccess \in BOOLEAN
  /\ confirmed \in [Deployment -> SUBSET Nat]

TypedWork ==
  /\ session \in [Session -> Sessions]
  /\ target \in [Session -> [Deployment -> TargetN]]

TypedWorkers ==
  /\ pc \in [Worker -> Places] /\ job \in [Worker -> JobN]
  /\ lock \in [Session -> Worker \cup {Nobody}]
  /\ \A v \in Worker : Working(job[v], pc[v])

Typed == TypedRows /\ TypedWork /\ TypedWorkers

\* A call, at place p with notes j, against rows r: no row has fallen below the
\* call's floor, and the revision it leaves with is not below it.
Floored(j, p, r) ==
  j.op = "call" =>
    /\ r[j.d].state = "live" => j.floor <= r[j.d].rev
    /\ r[j.d].state = "none" => j.floor = 0
    /\ p = "send" => j.floor <= j.target.rev

\* A call has seen every value of Full Access since it arrived, f the present one.
Fresh(j, p, f) ==
  j.op = "call" =>
    /\ f \in j.seen
    /\ p \in {"project", "row"} => j.full \in j.seen
    /\ p = "send" => j.target.full \in j.seen

\* A Deployment that was read in step, and the Target that is being made from it,
\* have a revision among those acknowledged, c.
Acked(j, p, c) ==
  /\ \A d \in Deployment : Executable(j.rows[d]) => j.rows[d].rev \in c[d]
  /\ p \in {"access", "bind"} => j.target.rev \in c[j.d]
  /\ p = "put" /\ j.target.status = "ready" => j.target.rev \in c[j.d]

\* node_open holds its lock l from its first write on, so that nobody else turns
\* the Target it leaves, among the Targets t, back into one that is being prepared.
Held == {"begin", "targets", "reserve", "prepare", "bind", "put", "refresh"}
Resumed(w, j, p, l, t) ==
  /\ p = "put" => j.target.status # "preparing"
  /\ j.op = "enter" =>
       /\ j.d = NodeDeployment /\ j.todo \subseteq {NodeDeployment}
       /\ p \in Held => l[j.s] = w
       /\ p = "refresh" => t[j.s][NodeDeployment].status # "preparing"

Known(j, p, r, f, c) == Floored(j, p, r) /\ Fresh(j, p, f) /\ Acked(j, p, c)

Knowing == \A w \in Worker : Known(job[w], pc[w], row, fullAccess, confirmed)
Resuming == \A w \in Worker : Resumed(w, job[w], pc[w], lock, target)

RowsSound ==
  \A d \in Deployment :
    /\ row[d].state = "none" => row[d].rev = 0
    /\ Live(d) /\ row[d].synced => row[d].rev \in confirmed[d]

TargetInv ==
  /\ Typed /\ Knowing /\ Resuming /\ RowsSound /\ ReadyWasApplied /\ DeletedNodeIsClean

\* Rows r1 after rows r: revisions grow, and what is gone stays gone.
Grows(r, r1) ==
  \A d \in Deployment :
    /\ r[d].state = "gone" => r1[d].state = "gone"
    /\ r[d].state = "live" /\ r1[d].state # "gone" => r1[d].state = "live" /\ r[d].rev <= r1[d].rev
    /\ r1[d].state = "none" => r[d].state = "none"

--------------------------------------------------------------------------------
\* A worker that has nothing to do knows nothing.
LEMMA NoJobFacts ==
  ASSUME NEW w, NEW r, NEW f, NEW c, NEW l, NEW t
  PROVE  /\ NoJob \in JobN /\ "idle" \in Places /\ Working(NoJob, "idle")
         /\ Known(NoJob, "idle", r, f, c) /\ Resumed(w, NoJob, "idle", l, t)
<1>1. NoJob \in JobN /\ "idle" \in Places /\ Working(NoJob, "idle") /\ NoJob.op = "none"
  BY TargetConstants
  DEF NoJob, JobN, Ops, RowN, NoRows, NoRow, NoTarget, TargetN, Working, PlacesOf, Places
<1>2. \A d \in Deployment : NoJob.rows[d].state = "none"
  BY DEF NoJob, NoRows, NoRow
<1> QED  BY <1>1, <1>2 DEF Known, Floored, Fresh, Acked, Executable, Resumed

\* What a worker knows stays true while rows grow and more is acknowledged.
LEMMA KnownLater ==
  ASSUME NEW j \in JobN, NEW p, NEW f, NEW r, NEW r1, NEW c, NEW c1,
         r \in [Deployment -> RowN], r1 \in [Deployment -> RowN],
         Grows(r, r1), \A d \in Deployment : c[d] \subseteq c1[d], Known(j, p, r, f, c)
  PROVE  Known(j, p, r1, f, c1)
<1>1. j.d \in Deployment /\ j.floor \in Nat
  BY DEF JobN
<1>2. r[j.d] \in RowN /\ r1[j.d] \in RowN
  BY <1>1
<1>3. Floored(j, p, r1)
  <2> DEFINE x == r[j.d]
             y == r1[j.d]
  <2>1. /\ x.state = "gone" => y.state = "gone"
        /\ x.state = "live" /\ y.state # "gone" => y.state = "live" /\ x.rev <= y.rev
        /\ y.state = "none" => x.state = "none"
    BY <1>1 DEF Grows
  <2>2. /\ x.state \in {"none", "live", "gone"} /\ x.rev \in Nat
        /\ y.state \in {"none", "live", "gone"} /\ y.rev \in Nat
    BY <1>2 DEF RowN
  <2>3. j.op = "call" =>
          /\ x.state = "live" => j.floor <= x.rev
          /\ x.state = "none" => j.floor = 0
          /\ p = "send" => j.floor <= j.target.rev
    BY DEF Known, Floored
  <2> SUFFICES j.op = "call" =>
                 /\ y.state = "live" => j.floor <= y.rev
                 /\ y.state = "none" => j.floor = 0
                 /\ p = "send" => j.floor <= j.target.rev
    BY DEF Floored
  <2> HIDE DEF x, y
  <2> QED  BY <1>1, <2>1, <2>2, <2>3
<1>4. Acked(j, p, c1)
  BY <1>1 DEF Known, Acked
<1> QED  BY <1>3, <1>4 DEF Known

\* A step of a handler: it goes on with notes j at place p, or returns.  The rows
\* may grow and Targets may change as long as none goes back to "preparing".
LEMMA Stepping ==
  ASSUME TargetInv, NEW w \in Worker, NEW ok \in BOOLEAN, NEW p, NEW j, Check(w, ok, p, j),
         TypedRows', TypedWork', RowsSound', ReadyWasApplied', DeletedNodeIsClean',
         Grows(row, row'), fullAccess' = fullAccess,
         \A d \in Deployment : confirmed[d] \subseteq confirmed'[d],
         \A s \in Session : target'[s][NodeDeployment].status = "preparing" =>
                              target[s][NodeDeployment].status = "preparing",
         ok => /\ p \in Places /\ j \in JobN /\ Working(j, p)
               /\ Known(j, p, row, fullAccess, confirmed)
               /\ Resumed(w, j, p, lock, target')
  PROVE  TargetInv'
<1> USE DEF TargetInv, Typed
<1>1. \E q \in Places, k \in JobN :
        /\ pc' = [pc EXCEPT ![w] = q] /\ job' = [job EXCEPT ![w] = k]
        /\ Working(k, q) /\ Known(k, q, row, fullAccess, confirmed)
        /\ Resumed(w, k, q, lock', target')
  <2>1. CASE ok
    BY <2>1 DEF Check, Goto
  <2>2. CASE ~ok
    <3>1. pc' = [pc EXCEPT ![w] = "idle"] /\ job' = [job EXCEPT ![w] = NoJob]
      BY <2>2 DEF Check, Return, Goto
    <3> QED  BY <3>1, NoJobFacts
  <2> QED  BY <2>1, <2>2
<1>2. PICK q \in Places, k \in JobN :
        /\ pc' = [pc EXCEPT ![w] = q] /\ job' = [job EXCEPT ![w] = k]
        /\ Working(k, q) /\ Known(k, q, row, fullAccess, confirmed)
        /\ Resumed(w, k, q, lock', target')
  BY <1>1
<1>3. /\ pc' \in [Worker -> Places] /\ job' \in [Worker -> JobN]
      /\ pc'[w] = q /\ job'[w] = k
      /\ \A v \in Worker \ {w} : pc'[v] = pc[v] /\ job'[v] = job[v]
  BY <1>2 DEF TypedWorkers
<1>4. /\ lock' \in [Session -> Worker \cup {Nobody}]
      /\ \A s \in Session : lock[s] # w => lock'[s] = lock[s]
  BY DEF Check, Return, TypedWorkers
<1>5. TypedWorkers'
  BY <1>2, <1>3, <1>4 DEF TypedWorkers
<1>6. Knowing'
  <2>1. ASSUME NEW v \in Worker
        PROVE  Known(job'[v], pc'[v], row, fullAccess, confirmed) /\ job'[v] \in JobN
    BY <1>2, <1>3 DEF Knowing
  <2>2. row \in [Deployment -> RowN] /\ row' \in [Deployment -> RowN]
    BY DEF TypedRows
  <2>3. ASSUME NEW v \in Worker
        PROVE  Known(job'[v], pc'[v], row', fullAccess', confirmed')
    BY <2>1, <2>2, KnownLater
  <2> QED  BY <2>3 DEF Knowing
<1>7. Resuming'
  <2>1. ASSUME NEW v \in Worker \ {w}
        PROVE  Resumed(v, job[v], pc[v], lock', target')
    <3>1. Resumed(v, job[v], pc[v], lock, target)
      BY DEF Resuming
    <3>2. job[v].op = "enter" => job[v].s \in Session
      BY DEF TypedWorkers, Working
    <3> QED  BY <3>1, <3>2, <1>4 DEF Resumed
  <2> QED  BY <2>1, <1>2, <1>3 DEF Resuming
<1> QED  BY <1>5, <1>6, <1>7

\* What the invariant says of one worker.
LEMMA AtPlace ==
  ASSUME TargetInv, NEW w \in Worker
  PROVE  /\ pc[w] \in Places /\ job[w] \in JobN /\ Working(job[w], pc[w])
         /\ Known(job[w], pc[w], row, fullAccess, confirmed)
         /\ Resumed(w, job[w], pc[w], lock, target)
  BY DEF TargetInv, Typed, TypedWorkers, Knowing, Resuming

\* A step of a handler that writes nothing.
LEMMA Reading ==
  ASSUME TargetInv, NEW w \in Worker, NEW ok \in BOOLEAN, NEW p, NEW j, Check(w, ok, p, j),
         UNCHANGED <<config, work>>,
         ok => /\ p \in Places /\ j \in JobN /\ Working(j, p)
               /\ Known(j, p, row, fullAccess, confirmed)
               /\ Resumed(w, j, p, lock, target)
  PROVE  TargetInv'
<1>1. /\ kind' = kind /\ project' = project /\ row' = row /\ fullAccess' = fullAccess
      /\ confirmed' = confirmed /\ session' = session /\ target' = target
  BY DEF config, work
<1>2. TypedRows' /\ TypedWork' /\ RowsSound'
  BY <1>1 DEF TargetInv, Typed, TypedRows, TypedWork, RowsSound, Live
<1>3. ReadyWasApplied' /\ DeletedNodeIsClean'
  BY <1>1 DEF TargetInv, ReadyWasApplied, DeletedNodeIsClean, Exists, Live
<1>4. Grows(row, row')
  <2>1. \A d \in Deployment : row[d].rev \in Nat
    BY DEF TargetInv, Typed, TypedRows, RowN
  <2> QED  BY <1>1, <2>1 DEF Grows
<1> QED  BY <1>1, <1>2, <1>3, <1>4, Stepping

\* The first step of a handler.
LEMMA Begun ==
  ASSUME NEW w, NEW j, NEW p, Begin(w, j, p), UNCHANGED lock
  PROVE  Check(w, TRUE, p, j)
  BY DEF Begin, Check

\* A client's request: which handler starts where.
LEMMA ClientKeeps ==
  ASSUME TargetInv, NEW w \in Worker, NEW s \in Session, NEW d \in Deployment,
         OpenProject(w, s) \/ OpenNode(w, s) \/ ProjectContext(w, s, d) \/ CallTool(w, s, d)
  PROVE  TargetInv'
<1> DEFINE lt == <<s, d>> \in withdrawn
           fl == Floor(d)
<1>1. NoJob \in JobN /\ (\A e \in Deployment : NoJob.rows[e].state = "none")
      /\ NoJob.d = NodeDeployment /\ NoJob.todo = {} /\ NoJob.op = "none"
  BY NoJobFacts DEF NoJob, NoRows, NoRow
<1>2. CASE OpenProject(w, s)
  <2> DEFINE j == [NoJob EXCEPT !.op = "open", !.s = s]
  <2>1. Check(w, TRUE, "project", j) /\ UNCHANGED <<config, work>>
    BY <1>2, Begun DEF OpenProject
  <2>2. j \in JobN /\ j.op = "open" /\ j.s = s /\ j.rows = NoJob.rows
    BY <1>1 DEF JobN, Ops
  <2> HIDE DEF j
  <2> QED
    BY <1>1, <2>1, <2>2, Reading
    DEF Working, PlacesOf, Places, Known, Floored, Fresh, Acked, Executable, Resumed
<1>3. CASE OpenNode(w, s)
  <2> DEFINE j == [NoJob EXCEPT !.op = "enter", !.s = s]
  <2>1. Check(w, TRUE, "node", j) /\ UNCHANGED <<config, work>>
    BY <1>3, Begun DEF OpenNode
  <2>2. /\ j \in JobN /\ j.op = "enter" /\ j.s = s /\ j.rows = NoJob.rows
        /\ j.d = NodeDeployment /\ j.todo = {}
    BY <1>1 DEF JobN, Ops
  <2> HIDE DEF j
  <2> QED
    BY <1>1, <2>1, <2>2, Reading
    DEF Working, PlacesOf, Places, Known, Floored, Fresh, Acked, Executable, Resumed, Held
<1>4. CASE ProjectContext(w, s, d)
  <2> DEFINE j == [NoJob EXCEPT !.op = "context", !.s = s, !.d = d]
  <2>1. Check(w, TRUE, "session", j) /\ UNCHANGED <<config, work>>
    BY <1>4, Begun DEF ProjectContext
  <2>2. j \in JobN /\ j.op = "context" /\ j.s = s /\ j.rows = NoJob.rows
    BY <1>1 DEF JobN, Ops
  <2> HIDE DEF j
  <2> QED
    BY <1>1, <2>1, <2>2, Reading
    DEF Working, PlacesOf, Places, Known, Floored, Fresh, Acked, Executable, Resumed
<1>5. CASE CallTool(w, s, d)
  <2> DEFINE j == [NoJob EXCEPT !.op = "call", !.s = s, !.d = d, !.floor = fl, !.late = lt,
                                !.seen = {fullAccess}]
  <2>1. Check(w, TRUE, "target", j) /\ UNCHANGED <<config, work>>
    BY <1>5, Begun DEF CallTool
  <2>2. fl \in Nat /\ lt \in BOOLEAN /\ fullAccess \in BOOLEAN
    BY TargetConstants DEF Floor, TargetInv, Typed, TypedRows, RowN
  <2>3. /\ row[d].state = "live" => fl <= row[d].rev
        /\ row[d].state = "none" => fl = 0
    BY DEF Floor, TargetInv, Typed, TypedRows, RowN, RowsSound
  <2> HIDE DEF fl, lt
  <2>4. /\ j \in JobN /\ j.op = "call" /\ j.s = s /\ j.rows = NoJob.rows
        /\ j.d = d /\ j.floor = fl /\ j.seen = {fullAccess}
    BY <1>1, <2>2 DEF JobN, Ops
  <2> HIDE DEF j
  <2> QED
    BY <1>1, <2>1, <2>3, <2>4, Reading
    DEF Working, PlacesOf, Places, Known, Floored, Fresh, Acked, Executable, Resumed
<1> QED  BY <1>2, <1>3, <1>4, <1>5

\* Reads of the session, the Target and the node.
LEMMA ReadSessionKeeps ==
  ASSUME TargetInv, NEW w \in Worker, ReadSession(w)
  PROVE  TargetInv'
<1> DEFINE j == job[w]
           ok == Exists(j.s) /\ session[j.s].status # "cancelled"
<1>1. Check(w, ok, "target", j) /\ UNCHANGED <<config, work>> /\ pc[w] = "session"
  BY DEF ReadSession
<1>2. /\ j \in JobN /\ Working(j, "session") /\ Resumed(w, j, "session", lock, target)
      /\ Known(j, "session", row, fullAccess, confirmed)
  BY <1>1, AtPlace
<1>3. ok \in BOOLEAN
  OBVIOUS
<1> HIDE DEF j, ok
<1>4. j.op = "context" /\ j.s \in Session
  BY <1>2 DEF Working, PlacesOf, JobN, Ops
<1> QED
  BY <1>1, <1>2, <1>3, <1>4, Reading
  DEF Working, PlacesOf, Places, Known, Floored, Fresh, Acked, Resumed

\* The read of the Target: what the handler learns of it is what the row says.
LEMMA ReadTargetKeeps ==
  ASSUME TargetInv, NEW w \in Worker, ReadTarget(w)
  PROVE  TargetInv'
<1> DEFINE j == job[w]
           t == target[j.s][j.d]
           ok == t.status # "none" /\ (j.op = "context" => t.status # "revoked")
           new == [j EXCEPT !.target = t]
<1>1. Check(w, ok, "node", new) /\ UNCHANGED <<config, work>> /\ pc[w] = "target"
  BY DEF ReadTarget
<1>2. /\ j \in JobN /\ Working(j, "target")
      /\ Known(j, "target", row, fullAccess, confirmed)
  BY <1>1, AtPlace
<1>3. ok \in BOOLEAN
  OBVIOUS
<1>4. j.op \in {"context", "call"} /\ j.s \in Session /\ j.d \in Deployment
  BY <1>2 DEF Working, PlacesOf, JobN, Ops
<1>5. t \in TargetN
  BY <1>4 DEF TargetInv, Typed, TypedWork
<1> HIDE DEF j, t, ok
<1>6. /\ new \in JobN /\ new.op = j.op /\ new.s = j.s /\ new.d = j.d /\ new.rows = j.rows
      /\ new.floor = j.floor /\ new.seen = j.seen
  BY <1>2, <1>5 DEF JobN
<1> HIDE DEF new
<1> QED
  BY <1>1, <1>2, <1>3, <1>4, <1>6, Reading
  DEF Working, PlacesOf, Places, Known, Floored, Fresh, Acked, Resumed

\* The check that the node is enabled.
LEMMA ReadNodeKeeps ==
  ASSUME TargetInv, NEW w \in Worker, ReadNode(w)
  PROVE  TargetInv'
<1> DEFINE j == job[w]
           p == IF j.op = "enter" THEN "config" ELSE "project"
           new == IF j.op = "call" THEN [j EXCEPT !.full = fullAccess] ELSE j
<1>1. PICK current \in BOOLEAN :
        Check(w, current /\ (j.op = "call" => j.target.status = "ready"), p, new)
  BY DEF ReadNode
<1>2. UNCHANGED <<config, work>> /\ pc[w] = "node"
  BY DEF ReadNode
<1>3. /\ j \in JobN /\ Working(j, "node") /\ Resumed(w, j, "node", lock, target)
      /\ Known(j, "node", row, fullAccess, confirmed)
  BY <1>2, AtPlace
<1> DEFINE ok == current /\ (j.op = "call" => j.target.status = "ready")
<1>4. ok \in BOOLEAN
  OBVIOUS
<1>5. fullAccess \in BOOLEAN
  BY DEF TargetInv, Typed, TypedRows
<1>6. Check(w, ok, p, new)
  BY <1>1
<1> HIDE DEF j, ok
<1>7. j.op \in {"enter", "context", "call"} /\ j.s \in Session
  BY <1>3 DEF Working, PlacesOf, JobN, Ops
<1>8. /\ new \in JobN /\ new.op = j.op /\ new.s = j.s /\ new.d = j.d /\ new.rows = j.rows
      /\ new.floor = j.floor /\ new.seen = j.seen /\ new.todo = j.todo
      /\ j.op = "call" => new.full = fullAccess
  BY <1>3, <1>5 DEF JobN
<1>9. p \in Places /\ Working(new, p)
  BY <1>7, <1>8 DEF Working, PlacesOf, Places
<1>10. Known(new, p, row, fullAccess, confirmed) /\ Resumed(w, new, p, lock, target)
  BY <1>3, <1>7, <1>8 DEF Known, Floored, Fresh, Acked, Resumed, Held
<1> HIDE DEF new, p
<1> QED  BY <1>2, <1>4, <1>6, <1>8, <1>9, <1>10, Reading

\* Reads of the Project, the Deployment and the node's Full Access.
LEMMA ReadProjectKeeps ==
  ASSUME TargetInv, NEW w \in Worker, ReadProject(w)
  PROVE  TargetInv'
<1> DEFINE j == job[w]
           ok == project.state = "live" /\ project.enabled
           p == IF j.op = "open" THEN "list" ELSE "row"
<1>1. Check(w, ok, p, j) /\ UNCHANGED <<config, work>> /\ pc[w] = "project"
  BY DEF ReadProject
<1>2. /\ j \in JobN /\ Working(j, "project") /\ Resumed(w, j, "project", lock, target)
      /\ Known(j, "project", row, fullAccess, confirmed)
  BY <1>1, AtPlace
<1>3. ok \in BOOLEAN
  BY DEF TargetInv, Typed, TypedRows, Projects
<1> HIDE DEF j, ok
<1>4. j.op \in {"open", "context", "call"} /\ j.s \in Session
  BY <1>2 DEF Working, PlacesOf, JobN, Ops
<1>5. p \in Places /\ Working(j, p)
  BY <1>4 DEF Working, PlacesOf, Places
<1>6. Known(j, p, row, fullAccess, confirmed) /\ Resumed(w, j, p, lock, target)
  BY <1>2, <1>4 DEF Known, Floored, Fresh, Acked, Resumed
<1> HIDE DEF p
<1> QED  BY <1>1, <1>2, <1>3, <1>5, <1>6, Reading

\* The check that lets a call, or a rebind, through: here the call's floor and
\* its Full Access are compared.
LEMMA ReadRowKeeps ==
  ASSUME TargetInv, NEW w \in Worker, ReadRow(w)
  PROVE  TargetInv'
<1> DEFINE j == job[w]
           r == row[j.d]
           ok == /\ Executable(r) /\ r.rev = j.target.rev
                 /\ j.op = "call" => j.target.full = j.full
           p == IF j.op = "call" THEN "send" ELSE "access"
<1>1. Check(w, ok, p, j) /\ UNCHANGED <<config, work>> /\ pc[w] = "row"
  BY DEF ReadRow
<1>2. /\ j \in JobN /\ Working(j, "row") /\ Resumed(w, j, "row", lock, target)
      /\ Known(j, "row", row, fullAccess, confirmed)
  BY <1>1, AtPlace
<1>3. j.op \in {"context", "call"} /\ j.s \in Session /\ j.d \in Deployment
  BY <1>2 DEF Working, PlacesOf, JobN, Ops
<1>4. r \in RowN
  BY <1>3 DEF TargetInv, Typed, TypedRows
<1>5. ok \in BOOLEAN
  BY <1>4 DEF RowN, Executable
<1>6. Executable(r) => r.rev \in confirmed[j.d]
  BY <1>3 DEF TargetInv, RowsSound, Live, Executable
<1>7. /\ j.op = "call" => (r.state = "live" => j.floor <= r.rev)
      /\ j.op = "call" => j.full \in j.seen /\ fullAccess \in j.seen
      /\ j.op = "call" => (r.state = "none" => j.floor = 0)
      /\ \A d \in Deployment : Executable(j.rows[d]) => j.rows[d].rev \in confirmed[d]
  BY <1>2 DEF Known, Floored, Fresh, Acked
<1>8. p \in Places /\ Working(j, p)
  BY <1>2, <1>3 DEF Working, PlacesOf, Places
<1>9. ASSUME ok
      PROVE  Known(j, p, row, fullAccess, confirmed) /\ Resumed(w, j, p, lock, target)
  <2>1. Executable(r) /\ r.rev = j.target.rev /\ (j.op = "call" => j.target.full = j.full)
        /\ r.state = "live"
    BY <1>9 DEF Executable
  <2>2. Floored(j, p, row)
    BY <1>7, <2>1 DEF Floored
  <2>3. Fresh(j, p, fullAccess)
    BY <1>7, <2>1 DEF Fresh
  <2>4. Acked(j, p, confirmed)
    BY <1>6, <1>7, <2>1 DEF Acked
  <2>5. Resumed(w, j, p, lock, target)
    BY <1>3 DEF Resumed
  <2> QED  BY <2>2, <2>3, <2>4, <2>5 DEF Known
<1> HIDE DEF p, ok, j
<1> QED  BY <1>1, <1>2, <1>5, <1>8, <1>9, Reading

\* The read of Full Access.
LEMMA ReadAccessKeeps ==
  ASSUME TargetInv, NEW w \in Worker, ReadAccess(w)
  PROVE  TargetInv'
<1> DEFINE j == job[w]
           new == [j EXCEPT !.full = fullAccess]
<1>1. Check(w, TRUE, "bind", new) /\ UNCHANGED <<config, work>> /\ pc[w] = "access"
  BY DEF ReadAccess, Goto, Check, TargetInv, Typed, TypedWorkers
<1>2. /\ j \in JobN /\ Working(j, "access") /\ Resumed(w, j, "access", lock, target)
      /\ Known(j, "access", row, fullAccess, confirmed)
  BY <1>1, AtPlace
<1>3. fullAccess \in BOOLEAN
  BY DEF TargetInv, Typed, TypedRows
<1> HIDE DEF j
<1>4. j.op = "context" /\ j.s \in Session
  BY <1>2 DEF Working, PlacesOf, JobN, Ops
<1>5. /\ new \in JobN /\ new.op = j.op /\ new.s = j.s /\ new.d = j.d /\ new.rows = j.rows
      /\ new.target = j.target
  BY <1>2, <1>3 DEF JobN
<1> HIDE DEF new
<1> QED
  BY <1>1, <1>2, <1>4, <1>5, Reading
  DEF Working, PlacesOf, Places, Known, Floored, Fresh, Acked, Resumed

--------------------------------------------------------------------------------
\* Preparing Targets.

\* What a session's status may be computed to.
LEMMA StatusOfFacts ==
  ASSUME NEW ts
  PROVE  StatusOf(ts) \in {"ready", "partial", "failed"}
  BY DEF StatusOf

\* The call to the node, and a handler that ends early.
LEMMA SendKeeps ==
  ASSUME TargetInv, NEW w \in Worker, Send(w) \/ Abandon(w)
  PROVE  TargetInv'
<1>1. Check(w, FALSE, "idle", NoJob) /\ UNCHANGED <<config, work>>
  BY DEF Send, Abandon, Check
<1> QED  BY <1>1, Reading

\* A revocation whose message to the node fails goes on with the next Target.
LEMMA RevokeFailsKeeps ==
  ASSUME TargetInv, NEW w \in Worker, RevokeFails(w)
  PROVE  TargetInv'
<1> DEFINE j == job[w]
           ok == j.todo # {}
<1>1. Check(w, ok, "bump", j) /\ UNCHANGED <<config, work>> /\ pc[w] = "revoke"
      /\ j.op = "access"
  BY DEF RevokeFails
<1>2. j \in JobN /\ Known(j, "revoke", row, fullAccess, confirmed)
  BY <1>1, AtPlace
<1>3. ok \in BOOLEAN
  OBVIOUS
<1> HIDE DEF j, ok
<1> QED
  BY <1>1, <1>2, <1>3, Reading
  DEF Working, PlacesOf, Places, Known, Floored, Fresh, Acked, Resumed

\* The list of Deployments a project_open works through.
LEMMA ListDeploymentsKeeps ==
  ASSUME TargetInv, NEW w \in Worker, ListDeployments(w)
  PROVE  TargetInv'
<1> DEFINE j == job[w]
<1>1. UNCHANGED <<config, work>> /\ pc[w] = "list"
  BY DEF ListDeployments
<1>2. j \in JobN /\ Working(j, "list")
  BY <1>1, AtPlace
<1>3. j.op = "open" /\ j.s \in Session
  BY <1>2 DEF Working, PlacesOf, JobN, Ops
<1>4. PICK chosen \in SUBSET Deployment :
        /\ Goto(w, "begin") /\ UNCHANGED lock
        /\ job' = [job EXCEPT ![w].todo = chosen,
                              ![w].rows = [d \in Deployment |-> IF d \in chosen THEN row[d]
                                                                ELSE NoRow("none")]]
  BY DEF ListDeployments
<1> DEFINE rows == [d \in Deployment |-> IF d \in chosen THEN row[d] ELSE NoRow("none")]
           new == [j EXCEPT !.todo = chosen, !.rows = rows]
<1>5. rows \in [Deployment -> RowN]
  BY DEF TargetInv, Typed, TypedRows, NoRow, RowN
<1>6. \A d \in Deployment : Executable(rows[d]) => rows[d].rev \in confirmed[d]
  BY DEF TargetInv, RowsSound, Live, Executable, NoRow
<1>7. Check(w, TRUE, "begin", new)
  BY <1>4 DEF Check, TargetInv, Typed, TypedWorkers
<1> HIDE DEF j, rows
<1>8. new \in JobN /\ new.op = "open" /\ new.s = j.s /\ new.rows = rows
  BY <1>2, <1>3, <1>5 DEF JobN
<1> HIDE DEF new
<1> QED
  BY <1>1, <1>3, <1>6, <1>7, <1>8, Reading
  DEF Working, PlacesOf, Places, Known, Floored, Fresh, Acked, Resumed

\* The read of a Deployment's configuration revision.
LEMMA ReadConfigurationKeeps ==
  ASSUME TargetInv, NEW w \in Worker, ReadConfiguration(w)
  PROVE  TargetInv'
<1> DEFINE j == job[w]
           n == NodeDeployment
           ok == project.state = "live" /\ Live(n) /\ row[n].enabled
           rows == [j.rows EXCEPT ![n] = row[n]]
           new == [j EXCEPT !.todo = {n}, !.rows = rows]
<1>1. UNCHANGED <<config, work>> /\ pc[w] = "config" /\ Check(w, ok, "lock", new)
  BY DEF ReadConfiguration
<1>2. /\ j \in JobN /\ Working(j, "config") /\ Resumed(w, j, "config", lock, target)
      /\ Known(j, "config", row, fullAccess, confirmed)
  BY <1>1, AtPlace
<1>3. j.op = "enter" /\ j.s \in Session /\ j.d = n /\ n \in Deployment
  BY <1>2, TargetConstants DEF Working, PlacesOf, JobN, Ops, Resumed
<1>4. row[n] \in RowN /\ project \in Projects
  BY <1>3 DEF TargetInv, Typed, TypedRows
<1>5. ok \in BOOLEAN
  BY <1>4 DEF RowN, Projects, Live
<1>6. j.rows \in [Deployment -> RowN]
  BY <1>2 DEF JobN
<1>7. rows \in [Deployment -> RowN]
  BY <1>4, <1>6
<1>8. \A d \in Deployment : Executable(rows[d]) => rows[d].rev \in confirmed[d]
  <2>1. Executable(row[n]) => row[n].rev \in confirmed[n]
    BY <1>3 DEF TargetInv, RowsSound, Live, Executable
  <2>2. \A d \in Deployment : rows[d] = IF d = n THEN row[n] ELSE j.rows[d]
    BY <1>3, <1>6
  <2> QED  BY <1>2, <2>1, <2>2 DEF Known, Acked
<1> HIDE DEF j, rows, ok, n
<1>9. /\ new \in JobN /\ new.op = "enter" /\ new.s = j.s /\ new.rows = rows
      /\ new.d = n /\ new.todo = {n}
  BY <1>2, <1>3, <1>7 DEF JobN
<1> HIDE DEF new
<1> QED
  BY <1>1, <1>3, <1>5, <1>8, <1>9, Reading
  DEF Working, PlacesOf, Places, Known, Floored, Fresh, Acked, Resumed, Held, n

\* The lock is free, so nobody else relies on it.
LEMMA LockKeeps ==
  ASSUME TargetInv, NEW w \in Worker, Lock(w)
  PROVE  TargetInv'
<1> USE DEF TargetInv, Typed
<1> DEFINE j == job[w]
<1>1. /\ pc[w] = "lock" /\ lock[j.s] = Nobody /\ lock' = [lock EXCEPT ![j.s] = w]
      /\ pc' = [pc EXCEPT ![w] = "begin"] /\ job' = job
      /\ UNCHANGED <<config, work>>
  BY DEF Lock, Goto
<1>2. /\ j \in JobN /\ Working(j, "lock") /\ Resumed(w, j, "lock", lock, target)
      /\ Known(j, "lock", row, fullAccess, confirmed)
  BY <1>1, AtPlace
<1>3. j.op = "enter" /\ j.s \in Session
  BY <1>2 DEF Working, PlacesOf, JobN, Ops
<1>4. TypedRows' /\ TypedWork' /\ RowsSound' /\ ReadyWasApplied' /\ DeletedNodeIsClean'
  BY <1>1 DEF config, work, TypedRows, TypedWork, RowsSound, Live, ReadyWasApplied,
              DeletedNodeIsClean, Exists
<1>5. TypedWorkers'
  <2>1. "begin" \in Places /\ Working(j, "begin")
    BY <1>3 DEF Places, Working, PlacesOf
  <2> QED  BY <1>1, <1>3, <2>1 DEF TypedWorkers
<1>6. Knowing'
  <2>1. Known(j, "begin", row, fullAccess, confirmed)
    BY <1>2, <1>3 DEF Known, Floored, Fresh, Acked
  <2>2. \A v \in Worker : Known(job[v], pc'[v], row, fullAccess, confirmed)
    BY <1>1, <2>1 DEF Knowing, TypedWorkers
  <2> QED  BY <1>1, <2>2 DEF Knowing, config
<1>7. Resuming'
  <2>1. Resumed(w, j, "begin", lock', target)
    BY <1>1, <1>2, <1>3 DEF Resumed, TypedWorkers
  <2>2. ASSUME NEW v \in Worker \ {w}
        PROVE  Resumed(v, job[v], pc[v], lock', target)
    <3>1. Resumed(v, job[v], pc[v], lock, target) /\ (job[v].op = "enter" => job[v].s \in Session)
      BY DEF Resuming, TypedWorkers, Working
    <3>2. v # Nobody
      BY TargetConstants
    <3> QED  BY <1>1, <1>3, <3>1, <3>2 DEF Resumed, TypedWorkers
  <2>3. \A v \in Worker : Resumed(v, job[v], pc'[v], lock', target)
    BY <1>1, <2>1, <2>2 DEF TypedWorkers
  <2> QED  BY <1>1, <2>3 DEF Resuming, work
<1> QED  BY <1>4, <1>5, <1>6, <1>7

\* A step of a handler that writes sessions or Targets, and no configuration.
LEMMA Writing ==
  ASSUME TargetInv, NEW w \in Worker, NEW ok \in BOOLEAN, NEW p, NEW j, Check(w, ok, p, j),
         UNCHANGED config, TypedWork', ReadyWasApplied', DeletedNodeIsClean',
         \A s \in Session : target'[s][NodeDeployment].status = "preparing" =>
                              target[s][NodeDeployment].status = "preparing",
         ok => /\ p \in Places /\ j \in JobN /\ Working(j, p)
               /\ Known(j, p, row, fullAccess, confirmed)
               /\ Resumed(w, j, p, lock, target')
  PROVE  TargetInv'
<1>1. /\ kind' = kind /\ project' = project /\ row' = row /\ fullAccess' = fullAccess
      /\ confirmed' = confirmed
  BY DEF config
<1>2. TypedRows' /\ RowsSound'
  BY <1>1 DEF TargetInv, Typed, TypedRows, RowsSound, Live
<1>3. Grows(row, row')
  <2>1. \A d \in Deployment : row[d].rev \in Nat
    BY DEF TargetInv, Typed, TypedRows, RowN
  <2> QED  BY <1>1, <2>1 DEF Grows
<1> QED  BY <1>1, <1>2, <1>3, Stepping

\* A session is created only while the Project is there.
LEMMA BeginWorkSessionKeeps ==
  ASSUME TargetInv, NEW w \in Worker, BeginWorkSession(w)
  PROVE  TargetInv'
<1> DEFINE j == job[w]
           found == Exists(j.s) /\ session[j.s].request = j.todo /\ j.op = "enter"
           first == CASE j.op = "enter" -> "targets"
                      [] j.op = "open" /\ j.todo = {} -> "sum"
                      [] OTHER -> "prepare"
           fresh == [status |-> "preparing", request |-> j.todo]
<1>1. pc[w] = "begin" /\ UNCHANGED <<config, target>>
  BY DEF BeginWorkSession
<1>2. /\ j \in JobN /\ Working(j, "begin") /\ Resumed(w, j, "begin", lock, target)
      /\ Known(j, "begin", row, fullAccess, confirmed)
  BY <1>1, AtPlace
<1>3. j.op \in {"open", "enter"} /\ j.s \in Session /\ j.todo \subseteq Deployment
  BY <1>2 DEF Working, PlacesOf, JobN, Ops
<1>4. ReadyWasApplied' /\ target' = target
      /\ target \in [Session -> [Deployment -> TargetN]]
      /\ session \in [Session -> Sessions]
  BY <1>1 DEF config, TargetInv, ReadyWasApplied, Typed, TypedWork
<1>5. CASE Creatable(j.s)
  <2>1. session' = [session EXCEPT ![j.s] = fresh] /\ Goto(w, first) /\ job' = job
        /\ lock' = lock
    BY <1>5 DEF BeginWorkSession
  <2>2. Check(w, TRUE, first, j)
    BY <2>1 DEF Check, TargetInv, Typed, TypedWorkers
  <2>3. TypedWork'
    BY <1>3, <1>4, <2>1 DEF TypedWork, Sessions
  <2>4. DeletedNodeIsClean'
    BY <1>1, <1>5 DEF DeletedNodeIsClean, Creatable, config
  <2>5. first \in Places /\ Working(j, first)
    BY <1>3 DEF Places, Working, PlacesOf
  <2>6. Known(j, first, row, fullAccess, confirmed)
    BY <1>2, <1>3 DEF Known, Floored, Fresh, Acked
  <2>7. Resumed(w, j, first, lock, target)
    BY <1>2, <1>3 DEF Resumed, Held
  <2> HIDE DEF j, first
  <2> QED  BY <1>1, <1>2, <1>4, <2>2, <2>3, <2>4, <2>5, <2>6, <2>7, Writing
<1>6. CASE ~Creatable(j.s)
  <2>1. Check(w, found, "targets", j) /\ UNCHANGED session
    BY <1>6 DEF BeginWorkSession
  <2>2. UNCHANGED <<config, work>>
    BY <2>1 DEF BeginWorkSession, work
  <2>3. found \in BOOLEAN
    OBVIOUS
  <2>4. found => j.op = "enter"
    OBVIOUS
  <2> HIDE DEF j, found
  <2> QED
    BY <1>2, <1>3, <2>1, <2>2, <2>3, <2>4, Reading
    DEF Working, PlacesOf, Places, Known, Floored, Fresh, Acked, Resumed, Held
<1> QED  BY <1>5, <1>6

\* node_open goes on with the Target it finds, unless it has to be prepared.
LEMMA ListTargetsKeeps ==
  ASSUME TargetInv, NEW w \in Worker, ListTargets(w)
  PROVE  TargetInv'
<1> DEFINE j == job[w]
           t == target[j.s][NodeDeployment]
           p == CASE t.status = "none" -> "reserve"
                  [] t.status = "preparing" -> "prepare"
                  [] OTHER -> "refresh"
           st == IF t.status \in {"none", "preparing"} THEN "none" ELSE StatusOf(target[j.s])
           new == [j EXCEPT !.status = st]
<1>1. pc[w] = "targets" /\ UNCHANGED <<config, work>> /\ Check(w, TRUE, p, new)
  BY DEF ListTargets, Check, TargetInv, Typed, TypedWorkers
<1>2. /\ j \in JobN /\ Working(j, "targets") /\ Resumed(w, j, "targets", lock, target)
      /\ Known(j, "targets", row, fullAccess, confirmed)
  BY <1>1, AtPlace
<1>3. j.op = "enter" /\ j.s \in Session
  BY <1>2 DEF Working, PlacesOf, JobN, Ops
<1>4. st \in {"none", "ready", "partial", "failed"}
  BY StatusOfFacts
<1>5. p \in {"reserve", "prepare", "refresh"} /\ (p = "refresh" => t.status # "preparing")
  OBVIOUS
<1>6. t = target[j.s][NodeDeployment]
  OBVIOUS
<1> HIDE DEF j, t, p, st
<1>7. /\ new \in JobN /\ new.op = "enter" /\ new.s = j.s /\ new.d = j.d /\ new.rows = j.rows
      /\ new.todo = j.todo
  BY <1>2, <1>3, <1>4 DEF JobN
<1> HIDE DEF new
<1>8. p \in Places /\ Working(new, p)
  BY <1>3, <1>5, <1>7 DEF Working, PlacesOf, Places
<1>9. Known(new, p, row, fullAccess, confirmed)
  BY <1>2, <1>5, <1>7 DEF Known, Floored, Fresh, Acked
<1>10. Resumed(w, new, p, lock, target)
  BY <1>2, <1>3, <1>5, <1>6, <1>7 DEF Resumed, Held
<1> QED  BY <1>1, <1>7, <1>8, <1>9, <1>10, Reading

\* The Target's id is stored; the lock keeps every other node_open of this request away.
LEMMA ReserveKeeps ==
  ASSUME TargetInv, NEW w \in Worker, Reserve(w)
  PROVE  TargetInv'
<1> DEFINE j == job[w]
           n == NodeDeployment
           t == [status |-> "preparing", rev |-> j.rows[n].rev, full |-> fullAccess]
           ok == Exists(j.s)
<1>1. /\ pc[w] = "reserve" /\ UNCHANGED <<config, session>> /\ Check(w, ok, "prepare", j)
      /\ target' = IF ok THEN [target EXCEPT ![j.s][n] = t] ELSE target
      /\ UNCHANGED withdrawn
  BY DEF Reserve, Stored
<1>2. /\ j \in JobN /\ Working(j, "reserve") /\ Resumed(w, j, "reserve", lock, target)
      /\ Known(j, "reserve", row, fullAccess, confirmed)
  BY <1>1, AtPlace
<1>3. j.op = "enter" /\ j.s \in Session /\ n \in Deployment /\ lock[j.s] = w
      /\ j.d = n /\ j.todo \subseteq {n}
  BY <1>2, TargetConstants DEF Working, PlacesOf, JobN, Ops, Resumed, Held
<1>4. t \in TargetN
  BY <1>2, <1>3 DEF JobN, RowN, TargetN, TargetInv, Typed, TypedRows
<1>5. CASE ~ok
  <2>1. Check(w, FALSE, "prepare", j) /\ UNCHANGED <<config, work>>
    BY <1>1, <1>5 DEF work, Check
  <2> HIDE DEF j, ok
  <2> QED  BY <2>1, Reading
<1>6. CASE ok
  <2> USE DEF TargetInv, Typed
  <2>1. /\ pc' = [pc EXCEPT ![w] = "prepare"] /\ job' = job /\ lock' = lock
        /\ target' = [target EXCEPT ![j.s][n] = t]
        /\ UNCHANGED <<config, session>>
    BY <1>1, <1>6 DEF Check, Goto, TypedWorkers
  <2>2. ~(kind = "node" /\ project.state = "gone")
    BY <1>3, <1>6 DEF DeletedNodeIsClean
  <2>3. TypedRows' /\ RowsSound' /\ DeletedNodeIsClean'
    BY <2>1, <2>2 DEF config, TypedRows, RowsSound, Live, DeletedNodeIsClean
  <2> HIDE DEF t
  <2>4. TypedWork'
    BY <1>3, <1>4, <2>1 DEF TypedWork
  <2>5. t.status # "ready"
    BY DEF t
  <2>6. /\ \A s \in Session, d \in Deployment :
             target'[s][d] = IF s = j.s /\ d = n THEN t ELSE target[s][d]
    BY <1>3, <2>1 DEF TypedWork
  <2>7. ReadyWasApplied'
    BY <2>1, <2>5, <2>6 DEF ReadyWasApplied, config
  <2>8. TypedWorkers'
    <3>1. "prepare" \in Places /\ Working(j, "prepare")
      BY <1>3 DEF Places, Working, PlacesOf
    <3> QED  BY <2>1, <3>1 DEF TypedWorkers
  <2>9. Knowing'
    <3>1. Known(j, "prepare", row, fullAccess, confirmed)
      BY <1>2, <1>3 DEF Known, Floored, Fresh, Acked
    <3>2. \A v \in Worker : Known(job[v], pc'[v], row, fullAccess, confirmed)
      BY <2>1, <3>1 DEF Knowing, TypedWorkers
    <3> QED  BY <2>1, <3>2 DEF Knowing, config
  <2>10. Resuming'
    <3>1. Resumed(w, j, "prepare", lock, target')
      BY <1>3 DEF Resumed, Held
    <3>2. ASSUME NEW v \in Worker \ {w}
          PROVE  Resumed(v, job[v], pc[v], lock, target')
      <4>1. Resumed(v, job[v], pc[v], lock, target)
            /\ (job[v].op = "enter" => job[v].s \in Session)
        BY DEF Resuming, TypedWorkers, Working
      <4>2. job[v].op = "enter" /\ pc[v] = "refresh" => job[v].s # j.s
        BY <1>3, <4>1 DEF Resumed, Held
      <4> HIDE DEF j
      <4> QED  BY <1>3, <2>6, <4>1, <4>2 DEF Resumed
    <3>3. \A v \in Worker : Resumed(v, job[v], pc'[v], lock, target')
      BY <2>1, <3>1, <3>2 DEF TypedWorkers
    <3> QED  BY <2>1, <3>3 DEF Resuming
  <2> QED  BY <2>3, <2>4, <2>7, <2>8, <2>9, <2>10
<1> QED  BY <1>5, <1>6

\* The Deployment as it was read is a candidate, or its Target is unavailable.
LEMMA PrepareKeeps ==
  ASSUME TargetInv, NEW w \in Worker, Prepare(w)
  PROVE  TargetInv'
<1> DEFINE j == job[w]
<1>1. pc[w] = "prepare" /\ UNCHANGED <<config, work>>
  BY DEF Prepare
<1>2. /\ j \in JobN /\ Working(j, "prepare") /\ Resumed(w, j, "prepare", lock, target)
      /\ Known(j, "prepare", row, fullAccess, confirmed)
  BY <1>1, AtPlace
<1>3. j.op \in {"open", "enter"} /\ j.s \in Session /\ j.todo \subseteq Deployment
  BY <1>2 DEF Working, PlacesOf, JobN, Ops
<1>4. PICK d \in j.todo :
        LET r == j.rows[d]
            t == [status |-> IF Executable(r) THEN "ready" ELSE "unavailable",
                  rev |-> r.rev, full |-> fullAccess]
            done == [j EXCEPT !.d = d, !.target = t, !.rows[d] = NoRow("none"),
                              !.full = Executable(r) /\ fullAccess]
        IN /\ job' = [job EXCEPT ![w] = done]
           /\ Goto(w, IF Executable(r) THEN "bind" ELSE "put")
  BY DEF Prepare
<1> DEFINE r == j.rows[d]
           t == [status |-> IF Executable(r) THEN "ready" ELSE "unavailable",
                 rev |-> r.rev, full |-> fullAccess]
           f == Executable(r) /\ fullAccess
           rows == [j.rows EXCEPT ![d] = NoRow("none")]
           p == IF Executable(r) THEN "bind" ELSE "put"
           new == [j EXCEPT !.d = d, !.target = t, !.rows = rows, !.full = f]
<1>5. Check(w, TRUE, p, new)
  <2> DEFINE done == [j EXCEPT !.d = d, !.target = t, !.rows[d] = NoRow("none"), !.full = f]
  <2>1. job' = [job EXCEPT ![w] = done] /\ Goto(w, p) /\ UNCHANGED lock
    BY <1>4 DEF Prepare
  <2>2. done = new
    <3> HIDE DEF t, f
    <3> QED  BY <1>2 DEF JobN
  <2> QED  BY <2>1, <2>2 DEF Check
<1>6. d \in Deployment /\ j.rows \in [Deployment -> RowN] /\ r \in RowN
  BY <1>2, <1>3 DEF JobN
<1>7. rows \in [Deployment -> RowN] /\ \A e \in Deployment : rows[e] = IF e = d THEN NoRow("none") ELSE j.rows[e]
  BY <1>6 DEF NoRow, RowN
<1>8. f \in BOOLEAN /\ t \in TargetN
  BY <1>6 DEF RowN, TargetN, TargetInv, Typed, TypedRows
<1>9. /\ t.status = "ready" => Executable(r)
      /\ t.status # "preparing" /\ t.rev = r.rev
      /\ Executable(r) => r.rev \in confirmed[d]
      /\ p \in {"bind", "put"} /\ (p = "bind" => Executable(r))
  BY <1>2, <1>6 DEF Known, Acked
<1>10. \A e \in Deployment : Executable(rows[e]) => rows[e].rev \in confirmed[e]
  BY <1>2, <1>7 DEF Known, Acked, Executable, NoRow
<1>11. j.op = "enter" => d = NodeDeployment
  BY <1>2 DEF Resumed
<1> HIDE DEF j, r, t, f, p, rows
<1>12. /\ new \in JobN /\ new.op = j.op /\ new.s = j.s /\ new.d = d /\ new.rows = rows
       /\ new.todo = j.todo /\ new.target = t
  BY <1>2, <1>6, <1>7, <1>8 DEF JobN
<1> HIDE DEF new
<1>13. p \in Places /\ Working(new, p)
  BY <1>3, <1>9, <1>12 DEF Working, PlacesOf, Places
<1>14. Known(new, p, row, fullAccess, confirmed)
  BY <1>3, <1>9, <1>10, <1>12 DEF Known, Floored, Fresh, Acked
<1>15. Resumed(w, new, p, lock, target)
  BY <1>2, <1>3, <1>9, <1>11, <1>12 DEF Resumed, Held
<1> QED  BY <1>1, <1>5, <1>12, <1>13, <1>14, <1>15, Reading

\* The node's answer decides the Target's status, not its revision.
LEMMA BindKeeps ==
  ASSUME TargetInv, NEW w \in Worker, Bind(w)
  PROVE  TargetInv'
<1> DEFINE j == job[w]
<1>1. pc[w] = "bind" /\ UNCHANGED <<config, work>>
  BY DEF Bind
<1>2. /\ j \in JobN /\ Working(j, "bind") /\ Resumed(w, j, "bind", lock, target)
      /\ Known(j, "bind", row, fullAccess, confirmed)
  BY <1>1, AtPlace
<1>3. j.op \in {"open", "enter", "context"} /\ j.s \in Session
  BY <1>2 DEF Working, PlacesOf, JobN, Ops
<1>4. PICK answer \in {"ready", "unavailable", "context_error"} :
        Check(w, j.op = "context" => answer = "ready", "put",
              [j EXCEPT !.target.status = answer, !.target.full = j.full])
  BY DEF Bind
<1> DEFINE t == [j.target EXCEPT !.status = answer, !.full = j.full]
           ok == j.op = "context" => answer = "ready"
           new == [j EXCEPT !.target = t]
<1>5. j.target \in TargetN /\ j.full \in BOOLEAN
  BY <1>2 DEF JobN
<1>6. Check(w, ok, "put", new) /\ ok \in BOOLEAN
  <2>1. [j EXCEPT !.target.status = answer, !.target.full = j.full] = new
    BY <1>2, <1>5 DEF JobN
  <2> QED  BY <1>4, <2>1
<1>7. t \in TargetN /\ t.rev = j.target.rev /\ t.status # "preparing"
  BY <1>5 DEF TargetN
<1> HIDE DEF j, t, ok
<1>8. /\ new \in JobN /\ new.op = j.op /\ new.s = j.s /\ new.d = j.d /\ new.rows = j.rows
      /\ new.todo = j.todo /\ new.target = t
  BY <1>2, <1>7 DEF JobN
<1> HIDE DEF new
<1>9. "put" \in Places /\ Working(new, "put")
  BY <1>3, <1>8 DEF Working, PlacesOf, Places
<1>10. Known(new, "put", row, fullAccess, confirmed)
  BY <1>2, <1>3, <1>7, <1>8 DEF Known, Floored, Fresh, Acked
<1>11. Resumed(w, new, "put", lock, target)
  BY <1>2, <1>7, <1>8 DEF Resumed, Held
<1> QED  BY <1>1, <1>6, <1>8, <1>9, <1>10, <1>11, Reading

\* The Target is stored if its session is still there, and it is one the node has
\* acknowledged the revision of.
LEMMA PutKeeps ==
  ASSUME TargetInv, NEW w \in Worker, Put(w)
  PROVE  TargetInv'
<1> DEFINE j == job[w]
           left == j.todo \ {j.d}
           ok == Exists(j.s)
           p == CASE j.op = "enter" -> "refresh"
                  [] j.op = "open" /\ left # {} -> "prepare"
                  [] OTHER -> "sum"
           st == IF j.op = "enter" THEN StatusOf([NoTargets EXCEPT ![j.d] = j.target])
                 ELSE "none"
           new == [j EXCEPT !.todo = left, !.target = NoTarget, !.full = FALSE, !.status = st]
<1>1. /\ pc[w] = "put" /\ UNCHANGED <<config, session>> /\ Check(w, ok, p, new)
      /\ target' = IF ok THEN [target EXCEPT ![j.s][j.d] = j.target] ELSE target
      /\ UNCHANGED withdrawn
  BY DEF Put, Stored
<1>2. /\ j \in JobN /\ Working(j, "put") /\ Resumed(w, j, "put", lock, target)
      /\ Known(j, "put", row, fullAccess, confirmed)
  BY <1>1, AtPlace
<1>3. j.op \in {"open", "enter", "context"} /\ j.s \in Session /\ j.d \in Deployment
      /\ j.todo \subseteq Deployment
  BY <1>2 DEF Working, PlacesOf, JobN, Ops
<1>4. j.target \in TargetN /\ j.target.status # "preparing"
      /\ (j.target.status = "ready" => j.target.rev \in confirmed[j.d])
  BY <1>2 DEF JobN, Resumed, Known, Acked
<1>5. CASE ~ok
  <2>1. Check(w, FALSE, p, new) /\ UNCHANGED <<config, work>>
    BY <1>1, <1>5 DEF work, Check
  <2> HIDE DEF j, ok, p, new
  <2> QED  BY <2>1, Reading
<1>6. CASE ok
  <2>1. ~(kind = "node" /\ project.state = "gone")
    BY <1>3, <1>6 DEF TargetInv, DeletedNodeIsClean
  <2>2. DeletedNodeIsClean'
    BY <1>1, <2>1 DEF config, DeletedNodeIsClean
  <2>3. /\ Check(w, TRUE, p, new)
        /\ target' = [target EXCEPT ![j.s][j.d] = j.target]
    BY <1>1, <1>6 DEF Check
  <2>4. st \in {"none", "ready", "partial", "failed"}
    BY StatusOfFacts
  <2>5. /\ p \in {"refresh", "prepare", "sum"}
        /\ j.op = "enter" <=> p = "refresh"
        /\ j.op # "open" => p # "prepare"
    BY <1>3
  <2>6. left \subseteq j.todo
    OBVIOUS
  <2> HIDE DEF j, ok, p, st, left
  <2>7. TypedWork'
    BY <1>1, <1>3, <1>4, <2>3 DEF TypedWork, TargetInv, Typed
  <2>8. \A s \in Session, d \in Deployment :
          target'[s][d] = IF s = j.s /\ d = j.d THEN j.target ELSE target[s][d]
    BY <1>3, <2>3 DEF TargetInv, Typed, TypedWork
  <2>9. ReadyWasApplied'
    BY <1>1, <1>4, <2>8 DEF TargetInv, ReadyWasApplied, config
  <2>10. /\ new \in JobN /\ new.op = j.op /\ new.s = j.s /\ new.d = j.d /\ new.rows = j.rows
         /\ new.todo = left
    BY <1>2, <2>4, <1>3, <2>6 DEF JobN, NoTarget, TargetN
  <2> HIDE DEF new
  <2>11. p \in Places /\ Working(new, p)
    BY <1>3, <2>5, <2>10 DEF Working, PlacesOf, Places
  <2>12. Known(new, p, row, fullAccess, confirmed)
    BY <1>2, <1>3, <2>5, <2>10 DEF Known, Floored, Fresh, Acked
  <2>13. Resumed(w, new, p, lock, target')
    BY <1>2, <1>3, <1>4, <2>5, <2>6, <2>8, <2>10 DEF Resumed, Held
  <2>14. \A s \in Session : target'[s][NodeDeployment].status = "preparing" =>
                              target[s][NodeDeployment].status = "preparing"
    BY <1>4, <2>8, TargetConstants
  <2> QED
    BY <1>1, <2>2, <2>3, <2>7, <2>9, <2>10, <2>11, <2>12, <2>13, <2>14, Writing
<1> QED  BY <1>5, <1>6

\* The status of the session, derived from the Targets it was opened with.
LEMMA ListResultsKeeps ==
  ASSUME TargetInv, NEW w \in Worker, ListResults(w)
  PROVE  TargetInv'
<1> DEFINE j == job[w]
           st == StatusOf(target[j.s])
           new == [j EXCEPT !.status = st]
<1>1. pc[w] = "sum" /\ UNCHANGED <<config, work>> /\ Check(w, TRUE, "refresh", new)
  BY DEF ListResults, Check, TargetInv, Typed, TypedWorkers
<1>2. /\ j \in JobN /\ Working(j, "sum") /\ Known(j, "sum", row, fullAccess, confirmed)
  BY <1>1, AtPlace
<1>3. j.op \in {"open", "context"} /\ j.s \in Session
  BY <1>2 DEF Working, PlacesOf, JobN, Ops
<1>4. st \in {"none", "ready", "partial", "failed"}
  BY StatusOfFacts
<1> HIDE DEF j, st
<1>5. new \in JobN /\ new.op = j.op /\ new.s = j.s /\ new.d = j.d /\ new.rows = j.rows
  BY <1>2, <1>4 DEF JobN
<1> HIDE DEF new
<1> QED
  BY <1>1, <1>2, <1>3, <1>5, Reading
  DEF Working, PlacesOf, Places, Known, Floored, Fresh, Acked, Resumed

\* The last look at the Target before a call returns.
LEMMA RefreshKeeps ==
  ASSUME TargetInv, NEW w \in Worker, Refresh(w)
  PROVE  TargetInv'
<1> DEFINE j == job[w]
<1>1. /\ pc[w] = "refresh" /\ UNCHANGED <<config, target>> /\ Check(w, FALSE, "idle", NoJob)
      /\ session' = IF Exists(j.s) THEN [session EXCEPT ![j.s].status = j.status] ELSE session
  BY DEF Refresh, Check
<1>2. j \in JobN /\ Working(j, "refresh")
  BY <1>1, AtPlace
<1>3. j.s \in Session /\ j.status \in {"none", "ready", "partial", "failed"}
  BY <1>2 DEF Working, PlacesOf, JobN, Ops
<1>4. TypedWork' /\ ReadyWasApplied' /\ target' = target
  BY <1>1, <1>3 DEF TypedWork, Sessions, TargetInv, Typed, ReadyWasApplied, config
<1>5. DeletedNodeIsClean'
  BY <1>1, <1>3 DEF TargetInv, DeletedNodeIsClean, Exists, Live, config
<1> HIDE DEF j
<1> QED  BY <1>1, <1>4, <1>5, Writing

--------------------------------------------------------------------------------
\* Operators.

\* The first step of a handler that changes the configuration and then revokes.
LEMMA Revoking ==
  ASSUME TargetInv, NEW w \in Worker, NEW op \in {"project", "deployment", "stale", "delete"},
         NEW d \in Deployment, NEW n \in Nat, Begin(w, Revoker(op, d, n), "revoke"),
         UNCHANGED <<work, lock, fullAccess, confirmed>>,
         TypedRows', RowsSound', DeletedNodeIsClean', Grows(row, row')
  PROVE  TargetInv'
<1> DEFINE rows == [NoJob.rows EXCEPT ![d].rev = n]
           new == [NoJob EXCEPT !.op = op, !.d = d, !.rows = rows]
<1>1. NoJob \in JobN /\ NoJob.rows \in [Deployment -> RowN]
      /\ \A e \in Deployment : NoJob.rows[e].state = "none"
  BY NoJobFacts DEF NoJob, NoRows, NoRow, JobN
<1>2. rows \in [Deployment -> RowN] /\ \A e \in Deployment : rows[e].state = "none"
  BY <1>1 DEF RowN
<1>3. Revoker(op, d, n) = new
  BY <1>1 DEF Revoker, JobN
<1> HIDE DEF rows
<1>4. new \in JobN /\ new.op = op /\ new.rows = rows
  BY <1>1, <1>2 DEF JobN, Ops
<1> HIDE DEF new
<1>5. Check(w, TRUE, "revoke", new)
  BY <1>3, Begun
<1>6. TypedWork' /\ ReadyWasApplied' /\ target' = target
  BY DEF work, TargetInv, Typed, TypedWork, ReadyWasApplied
<1>7. "revoke" \in Places /\ Working(new, "revoke")
  BY <1>4 DEF Places, Working, PlacesOf
<1>8. Known(new, "revoke", row, fullAccess, confirmed)
  BY <1>2, <1>4 DEF Known, Floored, Fresh, Acked, Executable
<1>9. Resumed(w, new, "revoke", lock, target')
  BY <1>4 DEF Resumed
<1> QED  BY <1>4, <1>5, <1>6, <1>7, <1>8, <1>9, Stepping

\* Rows that do not change grow, in the sense of Grows.
LEMMA SameRows ==
  ASSUME row \in [Deployment -> RowN], row' = row
  PROVE  Grows(row, row')
<1>1. \A d \in Deployment : row[d].rev \in Nat
  BY DEF RowN
<1> QED  BY <1>1 DEF Grows

\* One row that is replaced by a later one.
LEMMA OneRow ==
  ASSUME row \in [Deployment -> RowN], NEW d \in Deployment, NEW r \in RowN,
         row' = [row EXCEPT ![d] = r],
         row[d].state = "gone" => r.state = "gone",
         row[d].state = "live" /\ r.state # "gone" => r.state = "live" /\ row[d].rev <= r.rev,
         r.state = "none" => row[d].state = "none"
  PROVE  Grows(row, row')
<1>1. \A e \in Deployment : row[e].rev \in Nat /\ row'[e] = IF e = d THEN r ELSE row[e]
  BY DEF RowN
<1> QED  BY <1>1 DEF Grows

\* Deleting every live row.
LEMMA GoneRows ==
  ASSUME TargetInv, row' = Gone
  PROVE  /\ row' \in [Deployment -> RowN] /\ Grows(row, row')
         /\ \A d \in Deployment : row'[d].state # "live"
         /\ \A d \in Deployment : row'[d].state = "none" => row'[d].rev = 0
<1>1. row \in [Deployment -> RowN]
  BY DEF TargetInv, Typed, TypedRows
<1>2. \A d \in Deployment : row[d] \in RowN /\ row'[d] = IF Live(d) THEN NoRow("gone") ELSE row[d]
  BY <1>1 DEF Gone
<1>3. row' \in [Deployment -> RowN]
  BY <1>1 DEF Gone, NoRow, RowN
<1>4. \A d \in Deployment : row'[d].state = "none" => row'[d].rev = 0
  BY <1>2 DEF TargetInv, RowsSound, NoRow, Live
<1>5. \A d \in Deployment : row'[d].state # "live"
  BY <1>2 DEF NoRow, Live
<1>6. Grows(row, row')
  <2> SUFFICES ASSUME NEW d \in Deployment
               PROVE  /\ row[d].state = "gone" => row'[d].state = "gone"
                      /\ row[d].state = "live" /\ row'[d].state # "gone" =>
                           row'[d].state = "live" /\ row[d].rev <= row'[d].rev
                      /\ row'[d].state = "none" => row[d].state = "none"
    BY DEF Grows
  <2> QED  BY <1>2 DEF NoRow, Live, RowN
<1> QED  BY <1>3, <1>4, <1>5, <1>6

\* A Project that is disabled or deleted, and a node whose container is deleted.
LEMMA ProjectChangesKeep ==
  ASSUME TargetInv, NEW w \in Worker, DisableProject(w) \/ DeleteProject(w) \/ DeleteNode(w)
  PROVE  TargetInv'
<1>1. TypedRows /\ NodeDeployment \in Deployment
  BY TargetConstants DEF TargetInv, Typed
<1>2. CASE DisableProject(w)
  <2>1. /\ Begin(w, Revoker("project", NodeDeployment, 0), "revoke")
        /\ UNCHANGED <<work, lock, fullAccess, confirmed>>
        /\ row' = row /\ kind' = kind /\ kind = "project"
        /\ project' = [project EXCEPT !.enabled = FALSE]
    BY <1>2 DEF DisableProject
  <2>2. TypedRows' /\ RowsSound' /\ DeletedNodeIsClean' /\ Grows(row, row')
    <3>1. TypedRows' /\ RowsSound'
      BY <1>1, <2>1 DEF TypedRows, RowsSound, Live, TargetInv, Projects
    <3> QED  BY <1>1, <2>1, <3>1, SameRows DEF TypedRows, DeletedNodeIsClean
  <2> QED  BY <1>1, <2>1, <2>2, Revoking
<1>3. CASE DeleteProject(w)
  <2>1. /\ Begin(w, Revoker("project", NodeDeployment, 0), "revoke")
        /\ UNCHANGED <<work, lock, fullAccess, confirmed>>
        /\ row' = Gone /\ kind' = kind /\ kind = "project"
        /\ project' = [state |-> "gone", enabled |-> FALSE]
    BY <1>3 DEF DeleteProject
  <2>2. TypedRows' /\ RowsSound' /\ DeletedNodeIsClean' /\ Grows(row, row')
    BY <1>1, <2>1, GoneRows DEF TypedRows, RowsSound, Live, DeletedNodeIsClean, Projects
  <2> QED  BY <1>1, <2>1, <2>2, Revoking
<1>4. CASE DeleteNode(w)
  <2>1. /\ Begin(w, Revoker("delete", NodeDeployment, 0), "revoke")
        /\ UNCHANGED <<work, lock, fullAccess, confirmed>>
        /\ row' = row /\ UNCHANGED <<kind, project, session, target>>
    BY <1>4 DEF DeleteNode, config, work
  <2>2. TypedRows' /\ RowsSound' /\ DeletedNodeIsClean' /\ Grows(row, row')
    <3>1. TypedRows' /\ RowsSound' /\ DeletedNodeIsClean'
      BY <1>1, <2>1 DEF TypedRows, RowsSound, Live, TargetInv, DeletedNodeIsClean, Exists
    <3> QED  BY <1>1, <2>1, <3>1, SameRows DEF TypedRows
  <2> QED  BY <1>1, <2>1, <2>2, Revoking
<1> QED  BY <1>2, <1>3, <1>4

\* A bumped row: a later revision, that nobody has applied.
LEMMA BumpedFacts ==
  ASSUME NEW r \in RowN, NEW b \in BOOLEAN
  PROVE  /\ Bumped(r, b) \in RowN /\ Bumped(r, b).state = r.state
         /\ Bumped(r, b).rev = r.rev + 1 /\ ~Bumped(r, b).synced
         /\ r.rev <= r.rev + 1 /\ r.rev \in Nat
<1> DEFINE n == r.rev + 1
           x == [r EXCEPT !.rev = n, !.enabled = b, !.synced = FALSE]
<1>1. r.rev \in Nat /\ n \in Nat /\ r.rev <= n
  BY DEF RowN
<1>2. Bumped(r, b) = x
  BY DEF Bumped
<1>3. n = r.rev + 1
  OBVIOUS
<1> HIDE DEF n
<1>4. x \in RowN
  BY <1>1 DEF RowN
<1>5. x.state = r.state /\ x.rev = n
  BY DEF RowN
<1>6. ~x.synced
  BY Zenon DEF RowN
<1> QED  BY <1>1, <1>2, <1>3, <1>4, <1>5, <1>6

\* A row that is replaced by a later one: what has to hold of the new row.
LEMMA RowKeeps ==
  ASSUME TargetInv, NEW d \in Deployment, NEW r \in RowN,
         row' = [row EXCEPT ![d] = r], UNCHANGED <<kind, fullAccess, confirmed>>,
         project' \in Projects,
         row[d].state = "gone" => r.state = "gone",
         row[d].state = "live" /\ r.state # "gone" => r.state = "live" /\ row[d].rev <= r.rev,
         r.state = "none" => row[d].state = "none" /\ r.rev = 0,
         r.state = "live" /\ r.synced => r.rev \in confirmed[d]
  PROVE  TypedRows' /\ RowsSound' /\ Grows(row, row')
<1>1. row \in [Deployment -> RowN]
  BY DEF TargetInv, Typed, TypedRows
<1>2. Grows(row, row')
  BY <1>1, OneRow
<1>3. TypedRows'
  BY <1>1 DEF TargetInv, Typed, TypedRows
<1>4. \A e \in Deployment : row'[e] = IF e = d THEN r ELSE row[e]
  BY <1>1
<1>5. RowsSound'
  BY <1>4 DEF TargetInv, RowsSound, Live
<1> QED  BY <1>2, <1>3, <1>5

\* A Deployment that is updated or deleted.
LEMMA DeploymentChangesKeep ==
  ASSUME TargetInv, NEW w \in Worker, NEW d \in Deployment, NEW b \in BOOLEAN,
         UpdateDeployment(w, d, b) \/ DeleteDeployment(w, d)
  PROVE  TargetInv'
<1> DEFINE r == IF UpdateDeployment(w, d, b) THEN Bumped(row[d], b) ELSE NoRow("gone")
<1>1. row[d] \in RowN /\ project \in Projects
  BY DEF TargetInv, Typed, TypedRows
<1>2. /\ Begin(w, Revoker("deployment", d, 0), "revoke")
      /\ UNCHANGED <<work, lock, fullAccess, confirmed>>
      /\ row[d].state = "live" /\ UNCHANGED <<kind, project>> /\ kind = "project"
  BY DEF UpdateDeployment, DeleteDeployment, Live
<1>3. row' = [row EXCEPT ![d] = r]
  BY <1>1 DEF UpdateDeployment, DeleteDeployment
<1>4. /\ r \in RowN /\ r.state # "none" /\ (r.state = "live" => ~r.synced)
      /\ r.state # "gone" => r.state = "live" /\ row[d].rev <= r.rev
  <2>1. CASE UpdateDeployment(w, d, b)
    <3>1. r = Bumped(row[d], b)
      BY <2>1
    <3> HIDE DEF r
    <3> QED  BY <1>1, <1>2, <3>1, BumpedFacts
  <2>2. CASE ~UpdateDeployment(w, d, b)
    BY <2>2 DEF RowN, NoRow
  <2> QED  BY <2>1, <2>2
<1> HIDE DEF r
<1>5. TypedRows' /\ RowsSound' /\ Grows(row, row')
  BY <1>1, <1>2, <1>3, <1>4, RowKeeps
<1>6. DeletedNodeIsClean'
  BY <1>2 DEF DeletedNodeIsClean
<1> QED  BY <1>2, <1>5, <1>6, Revoking

\* The Deployment row of a node container that node_open writes.
LEMMA PutNodeSessionKeeps ==
  ASSUME TargetInv, NEW w \in Worker, NEW b \in BOOLEAN, NEW ch \in BOOLEAN,
         PutNodeSession(w, b, ch)
  PROVE  TargetInv'
<1> DEFINE d == NodeDeployment
           r == row[d]
           next == CASE r.state = "none" -> [state |-> "live", rev |-> 1, enabled |-> b, synced |-> FALSE]
                     [] r.state = "live" /\ (ch \/ b # r.enabled) -> Bumped(r, b)
                     [] OTHER -> r
<1>1. d \in Deployment /\ r \in RowN /\ project \in Projects /\ row \in [Deployment -> RowN]
  BY TargetConstants DEF TargetInv, Typed, TypedRows
<1>2. /\ Begin(w, Revoker("stale", d, next.rev), "revoke")
      /\ UNCHANGED <<work, lock, fullAccess, confirmed>>
      /\ row' = [row EXCEPT ![d] = next] /\ kind' = kind
      /\ project' = [project EXCEPT !.state = "live"]
  BY DEF PutNodeSession
<1>3. project' \in Projects /\ project'.state = "live"
  BY <1>1, <1>2 DEF Projects
<1>4. r.state = "live" /\ r.synced => r.rev \in confirmed[d]
  BY <1>1 DEF TargetInv, RowsSound, Live
<1>5. /\ next \in RowN /\ next.state # "none"
      /\ r.state = "gone" => next.state = "gone"
      /\ r.state = "live" => next.state = "live" /\ r.rev <= next.rev
      /\ next.state = "live" /\ next.synced => next.rev \in confirmed[d]
  <2>1. CASE r.state = "none"
    BY <1>1, <2>1 DEF RowN
  <2>2. CASE r.state = "live" /\ (ch \/ b # r.enabled)
    <3>1. next = Bumped(r, b)
      BY <2>2
    <3> HIDE DEF next, r
    <3> QED  BY <1>1, <2>2, <3>1, BumpedFacts
  <2>3. CASE r.state = "live" /\ ~(ch \/ b # r.enabled)
    <3>1. next = r
      BY <2>3
    <3> QED  BY <1>1, <1>4, <2>3, <3>1 DEF RowN
  <2>4. CASE r.state = "gone"
    <3>1. next = r
      BY <2>4
    <3> QED  BY <1>1, <2>4, <3>1 DEF RowN
  <2> QED  BY <1>1, <2>1, <2>2, <2>3, <2>4 DEF RowN
<1>6. next.rev \in Nat
  BY <1>5 DEF RowN
<1>7. row[d].state = r.state /\ row[d].rev = r.rev
  OBVIOUS
<1> HIDE DEF next, r, d
<1>8. TypedRows' /\ RowsSound' /\ Grows(row, row')
  BY <1>1, <1>2, <1>3, <1>5, <1>7, RowKeeps
<1>9. DeletedNodeIsClean'
  BY <1>3 DEF DeletedNodeIsClean
<1> QED  BY <1>1, <1>2, <1>6, <1>8, <1>9, Revoking

\* A revocation only ever takes Targets away.
LEMMA RevokeKeeps ==
  ASSUME TargetInv, NEW w \in Worker, Revoke(w)
  PROVE  TargetInv'
<1> DEFINE j == job[w]
           hit == {q \in Scope(j) : target[q[1]][q[2]].status \notin {"none", "revoked"}}
           after == [s \in Session |-> [d \in Deployment |->
                       IF <<s, d>> \in hit THEN [target[s][d] EXCEPT !.status = "revoked"]
                       ELSE target[s][d]]]
           ended == [s \in Session |->
                       IF \A d \in Deployment : <<s, d>> \notin hit THEN session[s]
                       ELSE [session[s] EXCEPT !.status =
                               IF j.op \in {"project", "delete"} THEN "cancelled"
                               ELSE StatusOf(after[s])]]
           ok == j.op = "delete" \/ (j.op = "access" /\ j.todo # {})
           p == IF j.op = "delete" THEN "clean" ELSE "bump"
<1>1. /\ pc[w] = "revoke" /\ UNCHANGED config /\ Check(w, ok, p, j)
      /\ \/ target' = after /\ session' = ended
         \/ target' = target /\ session' = session
  BY DEF Revoke, work
<1>2. j \in JobN /\ Working(j, "revoke") /\ Known(j, "revoke", row, fullAccess, confirmed)
  BY <1>1, AtPlace
<1>3. ok \in BOOLEAN
  OBVIOUS
<1>4. TypedWork /\ ReadyWasApplied /\ DeletedNodeIsClean
  BY DEF TargetInv, Typed
<1>5. \A s \in Session, d \in Deployment :
        /\ <<s, d>> \in hit => target[s][d].status \notin {"none", "revoked"}
        /\ after[s][d] = IF <<s, d>> \in hit THEN [target[s][d] EXCEPT !.status = "revoked"]
                         ELSE target[s][d]
  OBVIOUS
<1>6. \A s \in Session : ended[s] = session[s] \/ \E d \in Deployment : <<s, d>> \in hit
  OBVIOUS
<1>7. after \in [Session -> [Deployment -> TargetN]]
  <2> SUFFICES ASSUME NEW s \in Session, NEW d \in Deployment
               PROVE  after[s][d] \in TargetN
    OBVIOUS
  <2>1. target[s][d] \in TargetN
    BY <1>4 DEF TypedWork
  <2>2. [target[s][d] EXCEPT !.status = "revoked"] \in TargetN
    BY <2>1 DEF TargetN
  <2> HIDE DEF after, hit
  <2> QED  BY <1>5, <2>1, <2>2
<1>8. ended \in [Session -> Sessions]
  <2> HIDE DEF after, hit
  <2> SUFFICES ASSUME NEW s \in Session
               PROVE  ended[s] \in Sessions
    OBVIOUS
  <2> DEFINE st == IF j.op \in {"project", "delete"} THEN "cancelled" ELSE StatusOf(after[s])
  <2>1. session[s] \in Sessions
    BY <1>4 DEF TypedWork
  <2>2. st \in {"cancelled", "ready", "partial", "failed"}
    BY StatusOfFacts
  <2>3. ended[s] = session[s] \/ ended[s] = [session[s] EXCEPT !.status = st]
    OBVIOUS
  <2> HIDE DEF st, ended
  <2> QED  BY <2>1, <2>2, <2>3 DEF Sessions
<1>9. \A s \in Session, d \in Deployment :
        /\ after[s][d] = target[s][d] \/ after[s][d].status = "revoked"
        /\ target[s][d].status = "none" => after[s][d] = target[s][d]
  <2> SUFFICES ASSUME NEW s \in Session, NEW d \in Deployment
               PROVE  /\ after[s][d] = target[s][d] \/ after[s][d].status = "revoked"
                      /\ target[s][d].status = "none" => after[s][d] = target[s][d]
    OBVIOUS
  <2>1. target[s][d] \in TargetN
    BY <1>4 DEF TypedWork
  <2>2. [target[s][d] EXCEPT !.status = "revoked"].status = "revoked"
    BY <2>1 DEF TargetN
  <2> HIDE DEF after, hit
  <2> QED  BY <1>5, <2>2
<1> HIDE DEF after, ended, hit
<1>10. TypedWork'
  BY <1>1, <1>4, <1>7, <1>8 DEF TypedWork
<1>11. /\ \A s \in Session, d \in Deployment :
            target'[s][d] = target[s][d] \/ target'[s][d].status = "revoked"
  BY <1>1, <1>9
<1>12. ReadyWasApplied'
  BY <1>1, <1>4, <1>11 DEF ReadyWasApplied, config
<1>13. DeletedNodeIsClean'
  <2> SUFFICES ASSUME kind = "node", project.state = "gone", NEW s \in Session
               PROVE  /\ session'[s].status = "none"
                      /\ \A d \in Deployment : target'[s][d].status = "none" /\ row[d].state # "live"
    BY <1>1 DEF config, DeletedNodeIsClean, Exists, Live
  <2>1. /\ session[s].status = "none"
        /\ \A d \in Deployment : target[s][d].status = "none" /\ row[d].state # "live"
    BY <1>4 DEF DeletedNodeIsClean, Exists, Live
  <2>2. \A d \in Deployment : <<s, d>> \notin hit
    BY <1>5, <2>1
  <2>3. ended[s] = session[s]
    BY <1>6, <2>2
  <2> QED  BY <1>1, <1>9, <2>1, <2>3
<1>14. ok => (j.op = "delete" /\ p = "clean") \/ (j.op = "access" /\ p = "bump")
  OBVIOUS
<1> HIDE DEF j, ok, p
<1>15. ASSUME ok
       PROVE  /\ p \in Places /\ Working(j, p)
              /\ Known(j, p, row, fullAccess, confirmed)
              /\ Resumed(w, j, p, lock, target')
  <2>1. p \in Places /\ Working(j, p)
    BY <1>14, <1>15 DEF Working, PlacesOf, Places
  <2>2. Known(j, p, row, fullAccess, confirmed)
    BY <1>2, <1>14, <1>15 DEF Known, Floored, Fresh, Acked
  <2>3. Resumed(w, j, p, lock, target')
    BY <1>14, <1>15 DEF Resumed
  <2> QED  BY <2>1, <2>2, <2>3
<1>16. \A s \in Session : target'[s][NodeDeployment].status = "preparing" =>
                            target[s][NodeDeployment].status = "preparing"
  BY <1>11, TargetConstants
<1> QED  BY <1>1, <1>2, <1>3, <1>10, <1>12, <1>13, <1>15, <1>16, Writing

\* The container goes with all that hangs on it.
LEMMA CleanKeeps ==
  ASSUME TargetInv, NEW w \in Worker, Clean(w)
  PROVE  TargetInv'
<1>1. /\ Check(w, FALSE, "idle", NoJob) /\ row' = Gone /\ UNCHANGED <<kind, fullAccess, confirmed>>
      /\ project' = [state |-> "gone", enabled |-> FALSE]
      /\ session' = [s \in Session |-> NoSession] /\ target' = [s \in Session |-> NoTargets]
  BY DEF Clean, Check
<1>2. TypedRows' /\ RowsSound' /\ Grows(row, row')
  BY <1>1, GoneRows DEF TargetInv, Typed, TypedRows, Projects, RowsSound, Live
<1>3. /\ \A s \in Session : session'[s].status = "none"
      /\ \A s \in Session, d \in Deployment : target'[s][d].status = "none"
  BY <1>1 DEF NoSession, NoTargets, NoTarget
<1>4. TypedWork'
  BY <1>1 DEF TypedWork, NoSession, NoTargets, NoTarget, Sessions, TargetN
<1>5. ReadyWasApplied'
  BY <1>3 DEF ReadyWasApplied
<1>6. DeletedNodeIsClean'
  BY <1>1, <1>3, GoneRows DEF DeletedNodeIsClean, Exists, Live
<1>7. \A s \in Session : target'[s][NodeDeployment].status # "preparing"
  BY <1>3, TargetConstants
<1> QED  BY <1>1, <1>2, <1>4, <1>5, <1>6, <1>7, Stepping

\* The list of Targets that a change of Full Access revokes.
LEMMA ListForAccessKeeps ==
  ASSUME TargetInv, NEW w \in Worker, ListForAccess(w)
  PROVE  TargetInv'
<1> DEFINE j == job[w]
           live == {d \in Deployment : Live(d)}
           rows == [d \in Deployment |-> [NoRow("none") EXCEPT !.rev = row[d].rev]]
           new == [j EXCEPT !.todo = live, !.rows = rows]
<1>1. /\ pc[w] = "rows" /\ UNCHANGED <<config, work>>
      /\ \E ok \in BOOLEAN : Check(w, ok, "bump", new)
  <2>1. PICK reapply \in BOOLEAN : Check(w, reapply /\ live # {}, "bump", new)
    BY DEF ListForAccess
  <2>2. (reapply /\ live # {}) \in BOOLEAN
    OBVIOUS
  <2> QED  BY <2>1, <2>2 DEF ListForAccess
<1>2. j \in JobN /\ Working(j, "rows")
  BY <1>1, AtPlace
<1>3. j.op = "access"
  BY <1>2 DEF Working, PlacesOf, JobN, Ops
<1>4. rows \in [Deployment -> RowN] /\ \A d \in Deployment : rows[d].state = "none"
  <2>1. \A d \in Deployment : row[d].rev \in Nat
    BY DEF TargetInv, Typed, TypedRows, RowN
  <2> QED  BY <2>1 DEF NoRow, RowN
<1>5. live \subseteq Deployment
  OBVIOUS
<1> HIDE DEF j, rows, live
<1>6. new \in JobN /\ new.op = "access" /\ new.rows = rows
  BY <1>2, <1>3, <1>4, <1>5 DEF JobN
<1> HIDE DEF new
<1> QED
  BY <1>1, <1>4, <1>6, Reading
  DEF Working, PlacesOf, Places, Known, Floored, Fresh, Acked, Resumed, Executable

\* A row that a Full Access change reaches before anything else changed it.
LEMMA BumpRowKeeps ==
  ASSUME TargetInv, NEW w \in Worker, BumpRow(w)
  PROVE  TargetInv'
<1> DEFINE j == job[w]
<1>1. pc[w] = "bump" /\ UNCHANGED <<kind, project, fullAccess, confirmed, work>>
  BY DEF BumpRow
<1>2. j \in JobN /\ Working(j, "bump") /\ Known(j, "bump", row, fullAccess, confirmed)
  BY <1>1, AtPlace
<1>3. j.op = "access" /\ j.todo \subseteq Deployment
  BY <1>2 DEF Working, PlacesOf, JobN, Ops
<1>4. PICK d \in j.todo :
        IF Live(d) /\ row[d].rev = j.rows[d].rev
        THEN /\ row' = [row EXCEPT ![d] = Bumped(@, row[d].enabled)]
             /\ Check(w, TRUE, "revoke", [j EXCEPT !.d = d, !.todo = @ \ {d}])
        ELSE /\ Check(w, j.todo # {d}, "bump", [j EXCEPT !.todo = @ \ {d}])
             /\ UNCHANGED row
  BY DEF BumpRow
<1> DEFINE left == j.todo \ {d}
<1>5. d \in Deployment /\ left \subseteq Deployment
  BY <1>3
<1>6. row \in [Deployment -> RowN] /\ row[d] \in RowN /\ project \in Projects
  BY <1>5 DEF TargetInv, Typed, TypedRows
<1>7. TypedWork' /\ ReadyWasApplied' /\ target' = target
  BY <1>1 DEF work, TargetInv, Typed, TypedWork, ReadyWasApplied
<1>8. CASE Live(d) /\ row[d].rev = j.rows[d].rev
  <2> DEFINE new == [j EXCEPT !.d = d, !.todo = left]
             r == Bumped(row[d], row[d].enabled)
  <2>1. Check(w, TRUE, "revoke", new) /\ row' = [row EXCEPT ![d] = r]
    BY <1>4, <1>8
  <2>2. row[d].enabled \in BOOLEAN
    BY <1>6 DEF RowN
  <2>3. /\ r \in RowN /\ r.state = "live" /\ ~r.synced /\ row[d].rev <= r.rev
    BY <1>6, <1>8, <2>2, BumpedFacts DEF Live
  <2> HIDE DEF r
  <2>4. TypedRows' /\ RowsSound' /\ Grows(row, row')
    BY <1>1, <1>5, <1>6, <1>8, <2>1, <2>3, RowKeeps DEF Live
  <2>5. ~(kind = "node" /\ project.state = "gone") \/ Session = {}
    BY <1>5, <1>8 DEF TargetInv, DeletedNodeIsClean
  <2>6. DeletedNodeIsClean'
    BY <1>1, <2>5 DEF DeletedNodeIsClean
  <2> HIDE DEF j, left
  <2>7. new \in JobN /\ new.op = "access" /\ new.rows = j.rows
    BY <1>2, <1>3, <1>5 DEF JobN
  <2> HIDE DEF new
  <2>8. "revoke" \in Places /\ Working(new, "revoke")
    BY <2>7 DEF Places, Working, PlacesOf
  <2>9. Known(new, "revoke", row, fullAccess, confirmed) /\ Resumed(w, new, "revoke", lock, target')
    BY <1>2, <2>7 DEF Known, Floored, Fresh, Acked, Resumed
  <2> QED
    BY <1>1, <1>7, <2>1, <2>4, <2>6, <2>7, <2>8, <2>9, Stepping
<1>9. CASE ~(Live(d) /\ row[d].rev = j.rows[d].rev)
  <2> DEFINE new == [j EXCEPT !.todo = left]
             ok == j.todo # {d}
  <2>1. Check(w, ok, "bump", new) /\ UNCHANGED <<config, work>> /\ ok \in BOOLEAN
    BY <1>1, <1>4, <1>9 DEF config
  <2> HIDE DEF j, left, ok
  <2>2. new \in JobN /\ new.op = "access" /\ new.rows = j.rows
    BY <1>2, <1>3, <1>5 DEF JobN
  <2> HIDE DEF new
  <2> QED
    BY <1>2, <2>1, <2>2, Reading
    DEF Working, PlacesOf, Places, Known, Floored, Fresh, Acked, Resumed
<1> QED  BY <1>8, <1>9

\* Every call under way sees the new value.
LEMMA PatchFullKeeps ==
  ASSUME TargetInv, NEW w \in Worker, PatchFull(w)
  PROVE  TargetInv'
<1> USE DEF TargetInv, Typed
<1> DEFINE mine == [NoJob EXCEPT !.op = "access"]
           wider(v) == [job[v] EXCEPT !.seen = @ \cup {~fullAccess}]
<1>1. /\ pc' = [pc EXCEPT ![w] = "rows"] /\ fullAccess' = ~fullAccess
      /\ job' = [v \in Worker |-> IF v = w THEN mine
                                  ELSE IF job[v].op = "call" THEN wider(v) ELSE job[v]]
      /\ UNCHANGED <<kind, project, row, confirmed, session, target, lock>>
  BY DEF PatchFull, Goto, work
<1>2. TypedRows' /\ TypedWork' /\ RowsSound' /\ ReadyWasApplied' /\ DeletedNodeIsClean'
  BY <1>1 DEF TypedRows, TypedWork, RowsSound, Live, ReadyWasApplied, DeletedNodeIsClean, Exists
<1>3. /\ NoJob \in JobN /\ NoJob.op = "none"
      /\ \A e \in Deployment : NoJob.rows[e].state = "none"
  BY NoJobFacts DEF NoJob, NoRows, NoRow
<1>4. mine \in JobN /\ mine.op = "access" /\ mine.rows = NoJob.rows
  BY <1>3 DEF JobN, Ops
<1>5. \A v \in Worker : job[v] \in JobN /\ pc[v] \in Places
  BY DEF TypedWorkers
<1>6. ASSUME NEW v \in Worker
      PROVE  /\ wider(v) \in JobN /\ wider(v).op = job[v].op /\ wider(v).s = job[v].s
             /\ wider(v).d = job[v].d /\ wider(v).rows = job[v].rows
             /\ wider(v).todo = job[v].todo /\ wider(v).target = job[v].target
             /\ wider(v).floor = job[v].floor /\ wider(v).full = job[v].full
             /\ wider(v).seen = job[v].seen \cup {~fullAccess}
  <2> DEFINE j == job[v]
             f == ~fullAccess
  <2>1. j \in JobN /\ f \in BOOLEAN
    BY <1>5
  <2> HIDE DEF j, f
  <2>2. /\ [j EXCEPT !.seen = @ \cup {f}] \in JobN
        /\ [j EXCEPT !.seen = @ \cup {f}].op = j.op
        /\ [j EXCEPT !.seen = @ \cup {f}].s = j.s
        /\ [j EXCEPT !.seen = @ \cup {f}].d = j.d
        /\ [j EXCEPT !.seen = @ \cup {f}].rows = j.rows
        /\ [j EXCEPT !.seen = @ \cup {f}].todo = j.todo
        /\ [j EXCEPT !.seen = @ \cup {f}].target = j.target
        /\ [j EXCEPT !.seen = @ \cup {f}].floor = j.floor
        /\ [j EXCEPT !.seen = @ \cup {f}].full = j.full
        /\ [j EXCEPT !.seen = @ \cup {f}].seen = j.seen \cup {f}
    BY <2>1 DEF JobN
  <2> QED  BY <2>2 DEF j, f
<1> HIDE DEF mine, wider
<1>7. /\ job'[w] = mine /\ pc'[w] = "rows"
      /\ \A v \in Worker \ {w} :
           /\ pc'[v] = pc[v]
           /\ job'[v] = IF job[v].op = "call" THEN wider(v) ELSE job[v]
  BY <1>1 DEF TypedWorkers
<1>8. "rows" \in Places /\ Working(mine, "rows")
  BY <1>4 DEF Places, Working, PlacesOf
<1>9. TypedWorkers'
  <2>1. pc' \in [Worker -> Places] /\ job' \in [Worker -> JobN] /\ lock' = lock
    BY <1>1, <1>4, <1>5, <1>6, <1>8 DEF TypedWorkers
  <2>2. \A v \in Worker : Working(job'[v], pc'[v])
    BY <1>6, <1>7, <1>8 DEF TypedWorkers, Working
  <2> QED  BY <2>1, <2>2 DEF TypedWorkers
<1>10. Knowing'
  <2>1. Known(mine, "rows", row, ~fullAccess, confirmed)
    BY <1>3, <1>4 DEF Known, Floored, Fresh, Acked, Executable
  <2>2. ASSUME NEW v \in Worker \ {w}
        PROVE  Known(job'[v], pc[v], row, ~fullAccess, confirmed)
    <3>1. Known(job[v], pc[v], row, fullAccess, confirmed)
      BY DEF Knowing
    <3>2. CASE job[v].op = "call"
      <4>1. Floored(wider(v), pc[v], row) /\ Acked(wider(v), pc[v], confirmed)
        BY <1>6, <3>1 DEF Known, Floored, Acked
      <4>2. Fresh(wider(v), pc[v], ~fullAccess)
        BY <1>6, <3>1 DEF Known, Fresh
      <4> QED  BY <1>7, <3>2, <4>1, <4>2 DEF Known
    <3>3. CASE job[v].op # "call"
      BY <1>7, <3>1, <3>3 DEF Known, Floored, Fresh
    <3> QED  BY <3>2, <3>3
  <2> QED  BY <1>1, <1>7, <2>1, <2>2 DEF Knowing
<1>11. Resuming'
  <2>1. Resumed(w, mine, "rows", lock, target)
    BY <1>4 DEF Resumed
  <2>2. ASSUME NEW v \in Worker \ {w}
        PROVE  Resumed(v, job'[v], pc[v], lock, target)
    <3>1. Resumed(v, job[v], pc[v], lock, target)
      BY DEF Resuming
    <3> QED  BY <1>6, <1>7, <3>1 DEF Resumed
  <2> QED  BY <1>1, <1>7, <2>1, <2>2 DEF Resuming
<1> QED  BY <1>2, <1>9, <1>10, <1>11

\* A step that no handler takes.
LEMMA Standing ==
  ASSUME TargetInv, UNCHANGED <<work, pc, job, lock, fullAccess>>,
         TypedRows', RowsSound', Grows(row, row'),
         \A d \in Deployment : confirmed[d] \subseteq confirmed'[d], DeletedNodeIsClean'
  PROVE  TargetInv'
<1> USE DEF TargetInv, Typed
<1>1. TypedWork' /\ TypedWorkers' /\ Resuming' /\ ReadyWasApplied'
  BY DEF work, TypedWork, TypedWorkers, Resuming, ReadyWasApplied
<1>2. Knowing'
  <2>1. \A v \in Worker : Known(job[v], pc[v], row, fullAccess, confirmed) /\ job[v] \in JobN
    BY DEF Knowing, TypedWorkers
  <2>2. row \in [Deployment -> RowN] /\ row' \in [Deployment -> RowN]
    BY DEF TypedRows
  <2>3. \A v \in Worker : Known(job[v], pc[v], row', fullAccess, confirmed')
    BY <2>1, <2>2, KnownLater
  <2> QED  BY <2>3 DEF Knowing
<1> QED  BY <1>1, <1>2

\* Changes that take nothing away: a Project enabled, a Deployment created or applied.
LEMMA StandingKeeps ==
  ASSUME TargetInv, NEW d \in Deployment, NEW b \in BOOLEAN,
         EnableProject \/ CreateDeployment(d, b) \/ RecordApply(d, b)
  PROVE  TargetInv'
<1>1. /\ TypedRows /\ row \in [Deployment -> RowN] /\ row[d] \in RowN /\ project \in Projects
      /\ row[d].rev \in Nat
  BY DEF TargetInv, Typed, TypedRows, RowN
<1>2. CASE EnableProject
  <2>1. /\ UNCHANGED <<work, pc, job, lock, fullAccess>> /\ row' = row /\ confirmed' = confirmed
        /\ kind' = kind /\ kind = "project" /\ project' = [project EXCEPT !.enabled = TRUE]
    BY <1>2 DEF EnableProject
  <2>2. TypedRows' /\ RowsSound' /\ DeletedNodeIsClean'
    BY <1>1, <2>1 DEF TypedRows, Projects, TargetInv, RowsSound, Live, DeletedNodeIsClean
  <2> QED  BY <1>1, <2>1, <2>2, SameRows, Standing
<1>3. CASE CreateDeployment(d, b)
  <2> DEFINE r == [state |-> "live", rev |-> 1, enabled |-> b, synced |-> FALSE]
  <2>1. /\ UNCHANGED <<work, pc, job, lock, fullAccess>> /\ UNCHANGED <<kind, project, confirmed>>
        /\ kind = "project" /\ row' = [row EXCEPT ![d] = r] /\ row[d].state = "none"
    BY <1>3 DEF CreateDeployment
  <2>2. r \in RowN /\ r.state = "live" /\ ~r.synced
    BY DEF RowN
  <2> HIDE DEF r
  <2>3. TypedRows' /\ RowsSound' /\ Grows(row, row')
    BY <1>1, <2>1, <2>2, RowKeeps
  <2>4. DeletedNodeIsClean'
    BY <2>1 DEF DeletedNodeIsClean
  <2> QED  BY <2>1, <2>3, <2>4, Standing
<1>4. CASE RecordApply(d, b)
  <2> DEFINE n == row[d].rev
             r == [row[d] EXCEPT !.synced = b]
  <2>1. /\ UNCHANGED <<work, pc, job, lock, fullAccess>> /\ UNCHANGED <<kind, project>>
        /\ row[d].state = "live" /\ row' = [row EXCEPT ![d] = r]
        /\ confirmed' = IF b THEN [confirmed EXCEPT ![d] = @ \cup {n}] ELSE confirmed
    BY <1>4 DEF RecordApply, Live
  <2>2. r \in RowN /\ r.rev = n /\ r.state = "live" /\ r.synced = b
    BY <1>1, <2>1 DEF RowN
  <2>3. confirmed \in [Deployment -> SUBSET Nat]
    BY <1>1 DEF TypedRows
  <2> HIDE DEF r
  <2>4. /\ \A e \in Deployment : confirmed[e] \subseteq confirmed'[e]
        /\ confirmed' \in [Deployment -> SUBSET Nat]
        /\ b => n \in confirmed'[d]
    BY <1>1, <2>1, <2>3
  <2>5. \A e \in Deployment : row'[e] = IF e = d THEN r ELSE row[e]
    BY <1>1, <2>1
  <2>6. RowsSound'
    BY <2>2, <2>4, <2>5 DEF TargetInv, RowsSound, Live
  <2>7. TypedRows'
    BY <1>1, <2>1, <2>2, <2>4 DEF TypedRows
  <2>8. Grows(row, row')
    <3>1. n <= r.rev
      BY <1>1, <2>2
    <3> QED  BY <1>1, <2>1, <2>2, <3>1, OneRow
  <2>9. DeletedNodeIsClean'
    <3>1. ~(kind = "node" /\ project.state = "gone") \/ Session = {}
      BY <2>1 DEF TargetInv, DeletedNodeIsClean, Live
    <3> QED  BY <2>1, <3>1 DEF DeletedNodeIsClean
  <2> QED  BY <2>1, <2>4, <2>6, <2>7, <2>8, <2>9, Standing
<1> QED  BY <1>2, <1>3, <1>4

--------------------------------------------------------------------------------
\* The first state.
LEMMA InitTargetInv == Init => TargetInv
<1> SUFFICES ASSUME Init PROVE TargetInv
  OBVIOUS
<1>1. TypedRows
  BY TargetConstants DEF Init, TypedRows, Projects, NoRows, NoRow, RowN
<1>2. TypedWork
  BY DEF Init, TypedWork, NoSession, NoTargets, NoTarget, Sessions, TargetN
<1>3. \A v \in Worker : pc[v] = "idle" /\ job[v] = NoJob
  BY DEF Init
<1>4. TypedWorkers
  BY <1>3, NoJobFacts DEF Init, TypedWorkers
<1>5. Knowing /\ Resuming
  BY <1>3, NoJobFacts DEF Knowing, Resuming
<1>6. RowsSound /\ ReadyWasApplied /\ DeletedNodeIsClean
  BY DEF Init, RowsSound, Live, ReadyWasApplied, DeletedNodeIsClean, NoRows, NoRow, NoTargets,
         NoTarget, Exists, NoSession
<1> QED  BY <1>1, <1>2, <1>4, <1>5, <1>6 DEF TargetInv, Typed

\* Every step.
LEMMA NextTargetInv == TargetInv /\ [Next]_vars => TargetInv'
<1> SUFFICES ASSUME TargetInv, [Next]_vars PROVE TargetInv'
  OBVIOUS
<1>1. ASSUME NEW w \in Worker, Client(w)
      PROVE  TargetInv'
  BY <1>1, ClientKeeps, TargetConstants DEF Client
<1>2. ASSUME NEW w \in Worker, Operator(w)
      PROVE  TargetInv'
  BY <1>2, ProjectChangesKeep, DeploymentChangesKeep, PutNodeSessionKeeps, PatchFullKeeps
  DEF Operator
<1>3. ASSUME NEW w \in Worker, Step(w)
      PROVE  TargetInv'
  <2>1. CASE ReadSession(w) \/ ReadTarget(w) \/ ReadNode(w) \/ ReadProject(w) \/ ReadRow(w)
             \/ ReadAccess(w) \/ Send(w) \/ ListDeployments(w) \/ ReadConfiguration(w) \/ Lock(w)
    BY <2>1, ReadSessionKeeps, ReadTargetKeeps, ReadNodeKeeps, ReadProjectKeeps, ReadRowKeeps,
       ReadAccessKeeps, SendKeeps, ListDeploymentsKeeps, ReadConfigurationKeeps, LockKeeps
  <2>2. CASE BeginWorkSession(w) \/ ListTargets(w) \/ Reserve(w) \/ Prepare(w) \/ Bind(w)
             \/ Put(w) \/ ListResults(w) \/ Refresh(w)
    BY <2>2, BeginWorkSessionKeeps, ListTargetsKeeps, ReserveKeeps, PrepareKeeps, BindKeeps,
       PutKeeps, ListResultsKeeps, RefreshKeeps
  <2>3. CASE Revoke(w) \/ RevokeFails(w) \/ Clean(w) \/ ListForAccess(w) \/ BumpRow(w)
    BY <2>3, RevokeKeeps, RevokeFailsKeeps, CleanKeeps, ListForAccessKeeps, BumpRowKeeps
  <2> QED  BY <1>3, <2>1, <2>2, <2>3 DEF Step
<1>4. ASSUME NEW w \in Worker, Abandon(w)
      PROVE  TargetInv'
  BY <1>4, SendKeeps
<1>5. ASSUME EnableProject \/ \E d \in Deployment : \E b \in BOOLEAN :
               CreateDeployment(d, b) \/ RecordApply(d, b)
      PROVE  TargetInv'
  BY <1>5, StandingKeeps, TargetConstants
<1>6. CASE UNCHANGED vars
  BY <1>6 DEF vars, TargetInv, Typed, TypedRows, TypedWork, TypedWorkers, Knowing, Resuming,
              RowsSound, Live, ReadyWasApplied, DeletedNodeIsClean, Exists
<1> QED  BY <1>1, <1>2, <1>3, <1>4, <1>5, <1>6 DEF Next

\* The inductive invariant holds in every state that can be reached.
THEOREM TargetInvariant == Spec => []TargetInv
<1>1. Init => TargetInv
  BY InitTargetInv
<1>2. TargetInv /\ [Next]_vars => TargetInv'
  BY NextTargetInv
<1> QED  BY <1>1, <1>2, PTL DEF Spec

\* No call is sent under a configuration that was replaced, or deleted, before it
\* arrived at callNodeTool, however reads, writes and revocations interleave.
THEOREM NeverStale == Spec => []NoStaleRouting
<1>1. TargetInv => NoStaleRouting
  <2> SUFFICES ASSUME TargetInv, NEW w \in Worker, Admitted(w)
               PROVE  job[w].target.rev >= job[w].floor
    BY DEF NoStaleRouting
  <2>1. job[w].floor <= job[w].target.rev /\ job[w] \in JobN
    BY AtPlace DEF Admitted, Known, Floored
  <2>2. job[w].floor \in Nat /\ job[w].target.rev \in Nat
    BY <2>1 DEF JobN, TargetN
  <2> QED  BY <2>1, <2>2
<1> QED  BY <1>1, TargetInvariant, PTL

\* A call is sent only under a Full Access that was in force since it arrived at
\* callNodeTool.
THEOREM AccessInForce == Spec => []AccessIsCurrent
<1>1. TargetInv => AccessIsCurrent
  BY AtPlace DEF AccessIsCurrent, Admitted, Known, Fresh
<1> QED  BY <1>1, TargetInvariant, PTL

\* What prepareProjectTargetWithID and project_context store as ready has a revision
\* that the node has acknowledged.
THEOREM ReadyApplied == Spec => []ReadyWasApplied
<1>1. TargetInv => ReadyWasApplied
  BY DEF TargetInv
<1> QED  BY <1>1, TargetInvariant, PTL

\* Once agentDockNodeDelete has removed a node's container, no handler that was under
\* way brings back a session, a Target or the Deployment.
THEOREM DeletionIsFinal == Spec => []DeletedNodeIsClean
<1>1. TargetInv => DeletedNodeIsClean
  BY DEF TargetInv
<1> QED  BY <1>1, TargetInvariant, PTL

\* Under its lock, a node_open (callNodeOpen) ends with a Target that was prepared.
THEOREM ResumptionPrepares == Spec => []ResumedIsPrepared
<1>1. TargetInv => ResumedIsPrepared
  BY AtPlace DEF ResumedIsPrepared, Resumed
<1> QED  BY <1>1, TargetInvariant, PTL

--------------------------------------------------------------------------------
\* The bounds: every Full Access change under way has a revision of each row, that
\* it may still reach, to itself.

\* Handlers that may still give the row a new revision.
Changes(w, d) == job[w].op = "access" /\ (pc[w] = "rows" \/ d \in job[w].todo)
Changing(d) == {w \in Worker : Changes(w, d)}

Room == \A d \in Deployment : row[d].rev + Cardinality(Changing(d)) <= MaxRevision

Started == \A d \in Deployment : Live(d) => row[d].rev >= 1

\* What a handler has read, or what is stored, has a revision a row may have.
Fits(j) ==
  /\ \A d \in Deployment : j.rows[d].rev <= MaxRevision
  /\ j.target.rev <= MaxRevision /\ j.floor <= MaxRevision + 1

JobsFit == \A w \in Worker : Fits(job[w])
TargetsFit == \A s \in Session, d \in Deployment : target[s][d].rev <= MaxRevision

Recorded ==
  /\ kind \in Kinds /\ faults \in 0..MaxFaults
  /\ confirmed \in [Deployment -> SUBSET (1..MaxRevision)]
  /\ withdrawn \subseteq Session \X Deployment

BoundsInv == Room /\ Started /\ JobsFit /\ TargetsFit /\ Recorded

\* No handler comes to count for a row.
NoneMore == \A v \in Worker, d \in Deployment : Changes(v, d)' => Changes(v, d)

\* These handlers are finitely many, and a CanGrow that holds leaves room for one
\* more revision than they may still take.
LEMMA ChangingCounted ==
  ASSUME TargetInv, NEW d \in Deployment
  PROVE  /\ IsFiniteSet(Changing(d)) /\ Cardinality(Changing(d)) \in Nat
         /\ row[d].rev \in Nat /\ MaxRevision \in Nat
         /\ CanGrow(d) => row[d].rev + Cardinality(Changing(d)) < MaxRevision
<1> DEFINE P == {w \in Worker : job[w].op = "access"}
<1>1. P \subseteq Worker /\ IsFiniteSet(Worker) /\ Changing(d) \subseteq P
  BY TargetConstants DEF Changing, Changes
<1>2. IsFiniteSet(P)
  BY <1>1, FS_Subset
<1>3. IsFiniteSet(Changing(d)) /\ Cardinality(Changing(d)) <= Cardinality(P)
  BY <1>1, <1>2, FS_Subset
<1>4. Cardinality(Changing(d)) \in Nat /\ Cardinality(P) \in Nat
  BY <1>2, <1>3, FS_CardinalityType
<1>5. CanGrow(d) => row[d].rev + Cardinality(P) < MaxRevision
  BY DEF CanGrow
<1>6. row[d].rev \in Nat /\ MaxRevision \in Nat
  BY TargetConstants DEF TargetInv, Typed, TypedRows, RowN
<1> HIDE DEF P
<1> QED  BY <1>3, <1>4, <1>5, <1>6

\* What pays for a new revision, or for a new handler: nothing is needed when
\* neither comes; a handler that counted makes one of its own; CanGrow allows either.
LEMMA RoomFor ==
  ASSUME TargetInv, TargetInv', NEW d \in Deployment, NEW w \in Worker,
         row[d].rev + Cardinality(Changing(d)) <= MaxRevision,
         \/ Changing(d)' \subseteq Changing(d) /\ row'[d].rev <= row[d].rev
         \/ /\ w \in Changing(d) /\ Changing(d)' \subseteq Changing(d) \ {w}
            /\ row'[d].rev = row[d].rev + 1
         \/ /\ CanGrow(d) /\ Changing(d)' \subseteq Changing(d)
            /\ row'[d].rev = row[d].rev + 1
         \/ /\ CanGrow(d) /\ Changing(d)' \subseteq Changing(d) \cup {w}
            /\ row'[d].rev = row[d].rev
  PROVE  row'[d].rev + Cardinality(Changing(d)') <= MaxRevision
<1> DEFINE A == Changing(d)  B == Changing(d)'  n == row[d].rev  m == row'[d].rev
           a == Cardinality(A)  b == Cardinality(B)
<1>1. /\ IsFiniteSet(A) /\ a \in Nat /\ n \in Nat /\ MaxRevision \in Nat
      /\ CanGrow(d) => n + a < MaxRevision
  BY ChangingCounted
<1>2. m \in Nat
  BY DEF TargetInv, Typed, TypedRows, RowN
<1>3. /\ n + a <= MaxRevision
      /\ \/ B \subseteq A /\ m <= n
         \/ w \in A /\ B \subseteq A \ {w} /\ m = n + 1
         \/ CanGrow(d) /\ B \subseteq A /\ m = n + 1
         \/ CanGrow(d) /\ B \subseteq A \cup {w} /\ m = n
  OBVIOUS
<1>4. a = Cardinality(A) /\ b = Cardinality(B)
  OBVIOUS
<1> HIDE DEF A, B, n, m, a, b
<1>5. B \subseteq A => b \in Nat /\ b <= a
  BY <1>1, <1>4, FS_Subset, FS_CardinalityType
<1>6. w \in A /\ B \subseteq A \ {w} => b \in Nat /\ b <= a - 1
  <2> SUFFICES ASSUME w \in A, B \subseteq A \ {w}
               PROVE  b \in Nat /\ b <= a - 1
    OBVIOUS
  <2>1. IsFiniteSet(A \ {w}) /\ Cardinality(A \ {w}) = a - 1
    BY <1>1, <1>4, FS_RemoveElement
  <2> QED  BY <1>4, <2>1, FS_Subset, FS_CardinalityType
<1>7. B \subseteq A \cup {w} => b \in Nat /\ b <= a + 1
  <2>1. /\ IsFiniteSet(A \cup {w})
        /\ Cardinality(A \cup {w}) = IF w \in A THEN a ELSE a + 1
    BY <1>1, <1>4, FS_AddElement
  <2>2. Cardinality(A \cup {w}) <= a + 1
    BY <1>1, <2>1
  <2>3. B \subseteq A \cup {w} =>
          b \in Nat /\ Cardinality(A \cup {w}) \in Nat /\ b <= Cardinality(A \cup {w})
    BY <1>4, <2>1, FS_Subset, FS_CardinalityType
  <2> QED  BY <1>1, <2>2, <2>3
<1>8. m + b <= MaxRevision
  BY <1>1, <1>2, <1>3, <1>5, <1>6, <1>7
<1> QED  BY <1>8 DEF m, b, B

\* A handler that has nothing to do holds no revision, and counts for no row.
LEMMA NoJobFits == Fits(NoJob) /\ NoJob.op = "none" /\ NoJob.todo = {}
  BY TargetConstants DEF Fits, NoJob, NoRows, NoRow, NoTarget

\* A step of a handler that goes on with notes j, or returns.
LEMMA Noting ==
  ASSUME TargetInv, JobsFit, NEW w \in Worker, NEW ok, NEW p, NEW j, Check(w, ok, p, j),
         ok => /\ Fits(j)
               /\ j.op = "access" =>
                    /\ job[w].op = "access" /\ p # "rows"
                    /\ pc[w] = "rows" \/ j.todo \subseteq job[w].todo
  PROVE  JobsFit' /\ NoneMore
<1> DEFINE Sound(k, q) ==
             /\ Fits(k)
             /\ k.op = "access" =>
                  /\ job[w].op = "access" /\ q # "rows"
                  /\ pc[w] = "rows" \/ k.todo \subseteq job[w].todo
<1>1. \E q, k : Goto(w, q) /\ job' = [job EXCEPT ![w] = k] /\ Sound(k, q)
  <2>1. CASE ok
    BY <2>1 DEF Check
  <2>2. CASE ~ok
    <3>1. Goto(w, "idle") /\ job' = [job EXCEPT ![w] = NoJob]
      BY <2>2 DEF Check, Return
    <3>2. Sound(NoJob, "idle")
      BY NoJobFits
    <3> HIDE DEF Sound
    <3> QED  BY <3>1, <3>2
  <2> QED  BY <2>1, <2>2
<1>2. PICK q, k : pc' = [pc EXCEPT ![w] = q] /\ job' = [job EXCEPT ![w] = k] /\ Sound(k, q)
  BY <1>1 DEF Goto
<1>3. pc \in [Worker -> Places] /\ job \in [Worker -> JobN]
  BY DEF TargetInv, Typed, TypedWorkers
<1>4. /\ pc'[w] = q /\ job'[w] = k
      /\ \A v \in Worker \ {w} : pc'[v] = pc[v] /\ job'[v] = job[v]
  BY <1>2, <1>3
<1>5. JobsFit'
  BY <1>2, <1>4 DEF JobsFit, Fits
<1>6. NoneMore
  BY <1>2, <1>4 DEF NoneMore, Changes
<1> QED  BY <1>5, <1>6

\* Notes that keep their revisions, or take one of the Targets or rows.
LEMMA Reread ==
  ASSUME TargetInv, JobsFit, NEW w \in Worker, NEW ok, NEW p, NEW j, Check(w, ok, p, j),
         ok => /\ p # "rows" /\ j.op = job[w].op /\ j.rows = job[w].rows
               /\ j.floor = job[w].floor /\ j.target.rev <= MaxRevision
               /\ j.todo \subseteq job[w].todo
  PROVE  JobsFit' /\ NoneMore
  BY Noting DEF JobsFit, Fits

\* A client's request holds no revision but its floor.
LEMMA ClientNotes ==
  ASSUME TargetInv, JobsFit, Room, NEW w \in Worker, NEW s \in Session, NEW d \in Deployment,
         OpenProject(w, s) \/ OpenNode(w, s) \/ ProjectContext(w, s, d) \/ CallTool(w, s, d)
  PROVE  JobsFit' /\ NoneMore
<1> DEFINE lt == <<s, d>> \in withdrawn
           fl == Floor(d)
           no == FALSE
           new(op, e, floor, late, seen) ==
             [NoJob EXCEPT !.op = op, !.s = s, !.d = e, !.floor = floor, !.late = late, !.seen = seen]
<1>1. NoJob \in JobN /\ Fits(NoJob) /\ NoJob.d = NodeDeployment /\ NoJob.floor = 0
      /\ NoJob.late = no /\ NoJob.seen = {}
  BY NoJobFacts, NoJobFits DEF NoJob
<1>2. ASSUME NEW op \in {"open", "enter", "context", "call"}, NEW e, NEW floor, NEW late, NEW seen,
             floor <= MaxRevision + 1
      PROVE  Fits(new(op, e, floor, late, seen)) /\ new(op, e, floor, late, seen).op # "access"
  BY <1>1, <1>2 DEF Fits, JobN
<1>3. ASSUME NEW op \in {"open", "enter", "context", "call"}, NEW e, NEW floor, NEW late, NEW seen,
             floor <= MaxRevision + 1, NEW p, Check(w, TRUE, p, new(op, e, floor, late, seen))
      PROVE  JobsFit' /\ NoneMore
  <2> HIDE DEF new
  <2> QED  BY <1>2, <1>3, Noting
<1>4. fl <= MaxRevision + 1 /\ 0 <= MaxRevision + 1
  <2>1. row[d].rev \in Nat /\ Cardinality(Changing(d)) \in Nat /\ MaxRevision \in Nat
        /\ row[d].rev + Cardinality(Changing(d)) <= MaxRevision
    BY ChangingCounted DEF Room
  <2> QED  BY <2>1 DEF Floor
<1> HIDE DEF fl, lt, no
<1>5. CASE OpenProject(w, s)
  <2>1. Check(w, TRUE, "project", [NoJob EXCEPT !.op = "open", !.s = s])
    BY <1>5, Begun DEF OpenProject
  <2>2. [NoJob EXCEPT !.op = "open", !.s = s] = new("open", NodeDeployment, 0, no, {})
    BY <1>1 DEF JobN
  <2>3. Check(w, TRUE, "project", new("open", NodeDeployment, 0, no, {}))
    BY <2>1, <2>2
  <2> HIDE DEF new
  <2> QED  BY <1>3, <1>4, <2>3
<1>6. CASE OpenNode(w, s)
  <2>1. Check(w, TRUE, "node", [NoJob EXCEPT !.op = "enter", !.s = s])
    BY <1>6, Begun DEF OpenNode
  <2>2. [NoJob EXCEPT !.op = "enter", !.s = s] = new("enter", NodeDeployment, 0, no, {})
    BY <1>1 DEF JobN
  <2>3. Check(w, TRUE, "node", new("enter", NodeDeployment, 0, no, {}))
    BY <2>1, <2>2
  <2> HIDE DEF new
  <2> QED  BY <1>3, <1>4, <2>3
<1>7. CASE ProjectContext(w, s, d)
  <2>1. Check(w, TRUE, "session", [NoJob EXCEPT !.op = "context", !.s = s, !.d = d])
    BY <1>7, Begun DEF ProjectContext
  <2>2. [NoJob EXCEPT !.op = "context", !.s = s, !.d = d] = new("context", d, 0, no, {})
    BY <1>1 DEF JobN
  <2>3. Check(w, TRUE, "session", new("context", d, 0, no, {}))
    BY <2>1, <2>2
  <2> HIDE DEF new
  <2> QED  BY <1>3, <1>4, <2>3
<1>8. CASE CallTool(w, s, d)
  <2>1. Check(w, TRUE, "target", new("call", d, fl, lt, {fullAccess}))
    BY <1>8, Begun DEF CallTool, fl, lt
  <2> HIDE DEF new
  <2> QED  BY <1>3, <1>4, <2>1
<1> QED  BY <1>5, <1>6, <1>7, <1>8

\* What the handlers read before they write anything.
LEMMA ReadNotes ==
  ASSUME TargetInv, JobsFit, TargetsFit, NEW w \in Worker,
         \/ ReadSession(w) \/ ReadTarget(w) \/ ReadNode(w) \/ ReadProject(w) \/ ReadRow(w)
         \/ ReadAccess(w) \/ Send(w) \/ Lock(w) \/ Abandon(w)
  PROVE  JobsFit' /\ NoneMore
<1> DEFINE j == job[w]
<1>1. /\ j \in JobN /\ Fits(j) /\ Working(j, pc[w])
      /\ job \in [Worker -> JobN] /\ fullAccess \in BOOLEAN
  BY AtPlace DEF JobsFit, TargetInv, Typed, TypedRows, TypedWorkers
<1>2. CASE ReadSession(w) \/ ReadProject(w) \/ ReadRow(w)
  <2>1. \E ok, p : Check(w, ok, p, j) /\ p # "rows"
    <3>1. CASE ReadSession(w)
      BY <3>1 DEF ReadSession
    <3>2. CASE ReadProject(w)
      <4> DEFINE p == IF j.op = "open" THEN "list" ELSE "row"
      <4>1. Check(w, project.state = "live" /\ project.enabled, p, j) /\ p # "rows"
        BY <3>2 DEF ReadProject
      <4> HIDE DEF p
      <4> QED  BY <4>1
    <3>3. CASE ReadRow(w)
      <4> DEFINE p == IF j.op = "call" THEN "send" ELSE "access"
      <4>1. p # "rows" /\ \E ok : Check(w, ok, p, j)
        BY <3>3 DEF ReadRow
      <4> HIDE DEF p
      <4> QED  BY <4>1
    <3> QED  BY <1>2, <3>1, <3>2, <3>3
  <2> HIDE DEF j
  <2> QED  BY <1>1, <2>1, Reread DEF Fits, j
<1>3. CASE ReadTarget(w)
  <2> DEFINE t == target[j.s][j.d]
             new == [j EXCEPT !.target = t]
  <2>1. \E ok : Check(w, ok, "node", new)
    BY <1>3 DEF ReadTarget
  <2>2. t \in TargetN /\ t.rev <= MaxRevision
    <3>1. j.op \in {"context", "call"}
      BY <1>1, <1>3 DEF ReadTarget, Working, PlacesOf, JobN, Ops
    <3>2. j.s \in Session /\ j.d \in Deployment
      BY <1>1, <3>1 DEF Working, JobN
    <3> HIDE DEF j
    <3> QED  BY <3>2 DEF TargetsFit, TargetInv, Typed, TypedWork
  <2> HIDE DEF t
  <2>3. /\ new.op = j.op /\ new.rows = j.rows /\ new.floor = j.floor /\ new.todo = j.todo
        /\ new.target = t
    BY <1>1 DEF JobN
  <2> HIDE DEF new
  <2> QED  BY <2>1, <2>2, <2>3, Reread
<1>4. CASE ReadNode(w) \/ ReadAccess(w)
  <2> DEFINE new == [j EXCEPT !.full = fullAccess]
  <2>1. \E ok, p, k : Check(w, ok, p, k) /\ p # "rows" /\ k \in {j, new}
    <3>1. CASE ReadNode(w)
      <4>1. PICK current \in BOOLEAN :
              Check(w, current /\ (j.op = "call" => j.target.status = "ready"),
                    IF j.op = "enter" THEN "config" ELSE "project",
                    IF j.op = "call" THEN new ELSE j)
        BY <3>1 DEF ReadNode
      <4> QED  BY <4>1
    <3>2. CASE ReadAccess(w)
      <4>1. Check(w, TRUE, "bind", new)
        BY <3>2, <1>1 DEF ReadAccess, Check
      <4> QED  BY <4>1
    <3> QED  BY <1>4, <3>1, <3>2
  <2>2. /\ new.op = j.op /\ new.rows = j.rows /\ new.floor = j.floor /\ new.todo = j.todo
        /\ new.target = j.target
    BY <1>1 DEF JobN
  <2> HIDE DEF j, new
  <2>3. PICK ok, p, k : Check(w, ok, p, k) /\ p # "rows" /\ k \in {j, new}
    BY <2>1
  <2>4. /\ k.op = j.op /\ k.rows = j.rows /\ k.floor = j.floor /\ k.todo = j.todo
        /\ k.target = j.target
    BY <2>2, <2>3
  <2> QED  BY <1>1, <2>3, <2>4, Reread DEF Fits, j
<1>5. CASE Send(w) \/ Abandon(w)
  <2>1. Check(w, FALSE, "idle", NoJob)
    BY <1>5 DEF Send, Abandon, Check
  <2> QED  BY <2>1, Noting
<1>6. CASE Lock(w)
  <2>1. job' = job /\ pc' = [pc EXCEPT ![w] = "begin"]
    BY <1>6 DEF Lock, Goto
  <2>2. \A v \in Worker : pc'[v] = "rows" => pc[v] = "rows"
    BY <2>1 DEF TargetInv, Typed, TypedWorkers
  <2> QED  BY <2>1, <2>2 DEF JobsFit, Fits, NoneMore, Changes
<1> QED  BY <1>2, <1>3, <1>4, <1>5, <1>6

\* The rows that project_open, node_open and a Full Access change list.
LEMMA ListNotes ==
  ASSUME TargetInv, JobsFit, Room, NEW w \in Worker,
         ListDeployments(w) \/ ReadConfiguration(w) \/ ListForAccess(w)
  PROVE  JobsFit' /\ NoneMore
<1> DEFINE j == job[w]
<1>1. /\ j \in JobN /\ Fits(j) /\ Working(j, pc[w])
      /\ job \in [Worker -> JobN] /\ NodeDeployment \in Deployment
  BY AtPlace, TargetConstants DEF JobsFit, TargetInv, Typed, TypedWorkers
<1>2. \A d \in Deployment : row[d].rev \in Nat /\ row[d].rev <= MaxRevision
  <2> SUFFICES ASSUME NEW d \in Deployment
               PROVE  row[d].rev \in Nat /\ row[d].rev <= MaxRevision
    OBVIOUS
  <2>1. row[d].rev \in Nat /\ Cardinality(Changing(d)) \in Nat /\ MaxRevision \in Nat
        /\ row[d].rev + Cardinality(Changing(d)) <= MaxRevision
    BY ChangingCounted DEF Room
  <2> QED  BY <2>1
<1>3. 0 <= MaxRevision
  BY TargetConstants
<1>4. CASE ListDeployments(w)
  <2>1. PICK chosen : job' = [job EXCEPT ![w].todo = chosen,
                                ![w].rows = [d \in Deployment |-> IF d \in chosen THEN row[d]
                                                                  ELSE NoRow("none")]]
    BY <1>4 DEF ListDeployments
  <2> DEFINE rows == [d \in Deployment |-> IF d \in chosen THEN row[d] ELSE NoRow("none")]
             new == [j EXCEPT !.todo = chosen, !.rows = rows]
  <2>2. \A d \in Deployment : rows[d].rev <= MaxRevision
    BY <1>2, <1>3 DEF NoRow
  <2> HIDE DEF rows
  <2>3. job' = [job EXCEPT ![w] = new]
    BY <1>1, <2>1 DEF rows
  <2>4. Check(w, TRUE, "begin", new)
    BY <1>4, <2>3 DEF ListDeployments, Check
  <2>5. j.op = "open"
    BY <1>1, <1>4 DEF ListDeployments, Working, PlacesOf, JobN, Ops
  <2>6. new.op = "open" /\ new.rows = rows /\ new.target = j.target /\ new.floor = j.floor
    BY <1>1, <2>5 DEF JobN
  <2> HIDE DEF new
  <2>7. Fits(new)
    BY <1>1, <2>2, <2>6 DEF Fits
  <2> QED  BY <2>4, <2>6, <2>7, Noting
<1>5. CASE ReadConfiguration(w)
  <2> DEFINE n == NodeDeployment
             rows == [j.rows EXCEPT ![n] = row[n]]
             new == [j EXCEPT !.todo = {n}, !.rows = rows]
  <2>1. \E ok : Check(w, ok, "lock", [j EXCEPT !.todo = {n}, !.rows[n] = row[n]])
    BY <1>5 DEF ReadConfiguration
  <2>2. [j EXCEPT !.todo = {n}, !.rows[n] = row[n]] = new
    BY <1>1 DEF JobN
  <2>3. \A d \in Deployment : rows[d].rev <= MaxRevision
    BY <1>1, <1>2 DEF Fits, JobN
  <2>4. j.op = "enter"
    BY <1>1, <1>5 DEF ReadConfiguration, Working, PlacesOf, JobN, Ops
  <2> HIDE DEF rows
  <2>5. new.op = "enter" /\ new.rows = rows /\ new.target = j.target /\ new.floor = j.floor
    BY <1>1, <2>4 DEF JobN
  <2>6. \E ok : Check(w, ok, "lock", new)
    BY <2>1, <2>2
  <2> HIDE DEF new
  <2>7. Fits(new)
    BY <1>1, <2>3, <2>5 DEF Fits
  <2> QED  BY <2>5, <2>6, <2>7, Noting
<1>6. CASE ListForAccess(w)
  <2> DEFINE rows == [d \in Deployment |-> [NoRow("none") EXCEPT !.rev = row[d].rev]]
             live == {d \in Deployment : Live(d)}
             new == [j EXCEPT !.todo = live, !.rows = rows]
  <2>1. pc[w] = "rows" /\ \E ok : Check(w, ok, "bump", new)
    BY <1>6 DEF ListForAccess
  <2>2. \A d \in Deployment : rows[d].rev <= MaxRevision
    BY <1>2 DEF NoRow
  <2>3. j.op = "access"
    BY <1>1, <2>1 DEF Working, PlacesOf, JobN, Ops
  <2> HIDE DEF rows, live
  <2>4. new.op = "access" /\ new.rows = rows /\ new.target = j.target /\ new.floor = j.floor
    BY <1>1, <2>3 DEF JobN
  <2> HIDE DEF new
  <2>5. Fits(new)
    BY <1>1, <2>2, <2>4 DEF Fits
  <2> QED  BY <2>1, <2>3, <2>4, <2>5, Noting
<1> QED  BY <1>4, <1>5, <1>6

\* Storing a Target.
LEMMA StoringFits ==
  ASSUME TargetInv, TargetsFit, NEW s \in Session, NEW d \in Deployment, NEW t,
         t.rev <= MaxRevision, target' = Stored(s, d, t)
  PROVE  TargetsFit'
<1>1. target \in [Session -> [Deployment -> TargetN]]
  BY DEF TargetInv, Typed, TypedWork
<1>2. \A r \in Session, e \in Deployment :
        target'[r][e] = target[r][e] \/ target'[r][e] = t
  BY <1>1 DEF Stored
<1> QED  BY <1>2 DEF TargetsFit

\* The writes of the session and its Targets.
LEMMA WriteNotes ==
  ASSUME TargetInv, JobsFit, TargetsFit, NEW w \in Worker,
         \/ BeginWorkSession(w) \/ ListTargets(w) \/ Reserve(w) \/ Prepare(w) \/ Bind(w)
         \/ Put(w) \/ ListResults(w) \/ Refresh(w)
  PROVE  JobsFit' /\ NoneMore /\ TargetsFit'
<1> DEFINE j == job[w]
<1>1. /\ j \in JobN /\ Fits(j) /\ Working(j, pc[w])
      /\ job \in [Worker -> JobN] /\ pc \in [Worker -> Places]
      /\ NodeDeployment \in Deployment /\ fullAccess \in BOOLEAN
  BY AtPlace, TargetConstants DEF JobsFit, TargetInv, Typed, TypedRows, TypedWorkers
<1>2. /\ j.rows \in [Deployment -> RowN] /\ j.target \in TargetN /\ j.todo \subseteq Deployment
      /\ (\A d \in Deployment : j.rows[d].rev <= MaxRevision) /\ j.target.rev <= MaxRevision
  BY <1>1 DEF JobN, Fits
<1>3. CASE BeginWorkSession(w)
  <2>1. target' = target
    BY <1>3 DEF BeginWorkSession
  <2>2. CASE Creatable(j.s)
    <3> DEFINE p == CASE j.op = "enter" -> "targets"
                      [] j.op = "open" /\ j.todo = {} -> "sum"
                      [] OTHER -> "prepare"
    <3>1. Goto(w, p) /\ job' = job /\ p # "rows"
      BY <1>3, <2>2 DEF BeginWorkSession
    <3> HIDE DEF p
    <3>2. \A v \in Worker : pc'[v] = "rows" => pc[v] = "rows"
      BY <1>1, <3>1 DEF Goto
    <3> QED  BY <2>1, <3>1, <3>2 DEF JobsFit, Fits, NoneMore, Changes, TargetsFit
  <2>3. CASE ~Creatable(j.s)
    <3>1. \E ok : Check(w, ok, "targets", j)
      BY <1>3, <2>3 DEF BeginWorkSession
    <3> HIDE DEF j
    <3> QED  BY <1>2, <2>1, <3>1, Reread DEF TargetsFit, j
  <2> QED  BY <2>2, <2>3
<1>4. CASE ListTargets(w) \/ ListResults(w)
  <2>1. target' = target
    BY <1>4 DEF ListTargets, ListResults, work
  <2>2. \E p, st : Goto(w, p) /\ UNCHANGED lock /\ p # "rows" /\ job' = [job EXCEPT ![w].status = st]
    <3>1. CASE ListTargets(w)
      <4> DEFINE t == target[j.s][NodeDeployment]
                 p == CASE t.status = "none" -> "reserve"
                        [] t.status = "preparing" -> "prepare"
                        [] OTHER -> "refresh"
                 st == IF t.status \in {"none", "preparing"} THEN "none" ELSE StatusOf(target[j.s])
      <4>1. Goto(w, p) /\ UNCHANGED lock /\ p # "rows" /\ job' = [job EXCEPT ![w].status = st]
        BY <3>1 DEF ListTargets
      <4> HIDE DEF p, st
      <4> QED  BY <4>1
    <3>2. CASE ListResults(w)
      BY <3>2 DEF ListResults
    <3> QED  BY <1>4, <3>1, <3>2
  <2>3. PICK p, st : Goto(w, p) /\ UNCHANGED lock /\ p # "rows" /\ job' = [job EXCEPT ![w].status = st]
    BY <2>2
  <2> DEFINE new == [j EXCEPT !.status = st]
  <2>4. Check(w, TRUE, p, new)
    BY <2>3 DEF Check
  <2>5. /\ new.op = j.op /\ new.rows = j.rows /\ new.floor = j.floor /\ new.todo = j.todo
        /\ new.target = j.target
    BY <1>1 DEF JobN
  <2> HIDE DEF new
  <2>6. JobsFit' /\ NoneMore
    BY <1>2, <2>3, <2>4, <2>5, Reread
  <2> QED  BY <2>1, <2>6 DEF TargetsFit
<1>5. CASE Reserve(w)
  <2> DEFINE n == NodeDeployment
             t == [status |-> "preparing", rev |-> j.rows[n].rev, full |-> fullAccess]
  <2>1. (\E ok : Check(w, ok, "prepare", j)) /\ target' = Stored(j.s, n, t)
    BY <1>5 DEF Reserve
  <2>2. j.s \in Session /\ t.rev <= MaxRevision
    BY <1>1, <1>2, <1>5 DEF Reserve, Working, PlacesOf, JobN, Ops
  <2> HIDE DEF j, t, n
  <2>3. n \in Deployment
    BY <1>1 DEF n
  <2> QED  BY <1>2, <2>1, <2>2, <2>3, StoringFits, Reread DEF j
<1>6. CASE Prepare(w)
  <2>1. PICK d \in j.todo :
          \E st, full, p :
            /\ job' = [job EXCEPT ![w] =
                 [j EXCEPT !.d = d, !.target = [status |-> st, rev |-> j.rows[d].rev, full |-> fullAccess],
                           !.rows[d] = NoRow("none"), !.full = full]]
            /\ Goto(w, p) /\ p # "rows" /\ target' = target /\ lock' = lock
    <3>1. PICK d \in j.todo :
            LET r == j.rows[d]
                t == [status |-> IF Executable(r) THEN "ready" ELSE "unavailable",
                      rev |-> r.rev, full |-> fullAccess]
                done == [j EXCEPT !.d = d, !.target = t, !.rows[d] = NoRow("none"),
                                  !.full = Executable(r) /\ fullAccess]
            IN /\ job' = [job EXCEPT ![w] = done]
               /\ Goto(w, IF Executable(r) THEN "bind" ELSE "put")
      BY <1>6 DEF Prepare
    <3> DEFINE r == j.rows[d]
               st == IF Executable(r) THEN "ready" ELSE "unavailable"
               full == Executable(r) /\ fullAccess
               p == IF Executable(r) THEN "bind" ELSE "put"
    <3>2. /\ job' = [job EXCEPT ![w] =
               [j EXCEPT !.d = d, !.target = [status |-> st, rev |-> j.rows[d].rev, full |-> fullAccess],
                         !.rows[d] = NoRow("none"), !.full = full]]
          /\ Goto(w, p) /\ p # "rows" /\ target' = target /\ lock' = lock
      BY <1>6, <3>1 DEF Prepare, work
    <3> HIDE DEF j, st, full, p
    <3> QED  BY <3>2
  <2>2. PICK st, full, p :
            /\ job' = [job EXCEPT ![w] =
                 [j EXCEPT !.d = d, !.target = [status |-> st, rev |-> j.rows[d].rev, full |-> fullAccess],
                           !.rows[d] = NoRow("none"), !.full = full]]
            /\ Goto(w, p) /\ p # "rows" /\ target' = target /\ lock' = lock
    BY <2>1
  <2> DEFINE t == [status |-> st, rev |-> j.rows[d].rev, full |-> fullAccess]
             rows == [j.rows EXCEPT ![d] = NoRow("none")]
             new == [j EXCEPT !.d = d, !.target = t, !.rows = rows, !.full = full]
  <2>3. d \in Deployment /\ t.rev <= MaxRevision
    BY <1>2
  <2>4. 0 <= MaxRevision
    BY TargetConstants
  <2>5. \A e \in Deployment : rows[e].rev <= MaxRevision
    BY <1>2, <2>3, <2>4 DEF NoRow
  <2>6. [j EXCEPT !.d = d, !.target = t, !.rows[d] = NoRow("none"), !.full = full] = new
    <3> HIDE DEF t
    <3> QED  BY <1>1 DEF JobN
  <2>7. Check(w, TRUE, p, new)
    <3> HIDE DEF new
    <3> QED  BY <2>2, <2>6 DEF Check
  <2> HIDE DEF t, rows
  <2>8. /\ new.op = j.op /\ new.rows = rows /\ new.floor = j.floor /\ new.todo = j.todo
        /\ new.target = t
    BY <1>1 DEF JobN
  <2> HIDE DEF new
  <2>9. Fits(new)
    BY <1>1, <2>3, <2>5, <2>8 DEF Fits
  <2>10. JobsFit' /\ NoneMore
    BY <2>2, <2>7, <2>8, <2>9, Noting
  <2> QED  BY <2>2, <2>10 DEF TargetsFit
<1>7. CASE Bind(w)
  <2>1. PICK answer : \E ok : Check(w, ok, "put", [j EXCEPT !.target.status = answer, !.target.full = j.full])
    BY <1>7 DEF Bind
  <2> DEFINE t == [j.target EXCEPT !.status = answer, !.full = j.full]
             new == [j EXCEPT !.target = t]
  <2>2. [j EXCEPT !.target.status = answer, !.target.full = j.full] = new
    BY <1>1, <1>2 DEF JobN
  <2>3. t.rev = j.target.rev
    BY <1>2 DEF TargetN
  <2>4. \E ok : Check(w, ok, "put", new)
    BY <2>1, <2>2
  <2> HIDE DEF t
  <2>5. /\ new.op = j.op /\ new.rows = j.rows /\ new.floor = j.floor /\ new.todo = j.todo
        /\ new.target = t
    BY <1>1 DEF JobN
  <2> HIDE DEF new
  <2>6. JobsFit' /\ NoneMore
    BY <1>2, <2>3, <2>4, <2>5, Reread
  <2> QED  BY <1>7, <2>6 DEF Bind, work, TargetsFit
<1>8. CASE Put(w)
  <2> DEFINE left == j.todo \ {j.d}
             p == CASE j.op = "enter" -> "refresh"
                    [] j.op = "open" /\ left # {} -> "prepare"
                    [] OTHER -> "sum"
             st == IF j.op = "enter" THEN StatusOf([NoTargets EXCEPT ![j.d] = j.target]) ELSE "none"
             new == [j EXCEPT !.todo = left, !.target = NoTarget, !.full = FALSE, !.status = st]
  <2>1. (\E ok : Check(w, ok, p, new)) /\ p # "rows" /\ target' = Stored(j.s, j.d, j.target)
    BY <1>8 DEF Put
  <2>2. j.s \in Session /\ j.d \in Deployment
    BY <1>1, <1>8 DEF Put, Working, PlacesOf, JobN, Ops
  <2>3. left \subseteq j.todo
    OBVIOUS
  <2> HIDE DEF st, p, left
  <2>4. /\ new.op = j.op /\ new.rows = j.rows /\ new.floor = j.floor /\ new.todo = left
        /\ new.target = NoTarget
    BY <1>1 DEF JobN
  <2>5. NoTarget.rev <= MaxRevision
    BY TargetConstants DEF NoTarget
  <2> HIDE DEF j, new
  <2>6. JobsFit' /\ NoneMore
    BY <2>1, <2>3, <2>4, <2>5, Reread DEF j
  <2>7. TargetsFit'
    BY <1>2, <2>1, <2>2, StoringFits
  <2> QED  BY <2>6, <2>7
<1>9. CASE Refresh(w)
  <2>1. Check(w, FALSE, "idle", NoJob) /\ target' = target
    BY <1>9 DEF Refresh, Check
  <2> QED  BY <2>1, Noting DEF TargetsFit
<1> QED  BY <1>3, <1>4, <1>5, <1>6, <1>7, <1>8, <1>9

\* A handler that first changes the configuration, and then revokes, counts for no row.
LEMMA RevokerNotes ==
  ASSUME TargetInv, JobsFit, NEW w \in Worker, NEW op \in {"project", "deployment", "stale", "delete"},
         NEW d \in Deployment, NEW n \in Nat, n <= MaxRevision,
         Begin(w, Revoker(op, d, n), "revoke"), UNCHANGED lock
  PROVE  JobsFit' /\ NoneMore
<1> DEFINE rows == [NoJob.rows EXCEPT ![d].rev = n]
           new == [NoJob EXCEPT !.op = op, !.d = d, !.rows = rows]
<1>1. NoJob \in JobN /\ NoJob.rows \in [Deployment -> RowN] /\ Fits(NoJob)
  BY NoJobFacts, NoJobFits DEF JobN
<1>2. \A e \in Deployment : rows[e].rev <= MaxRevision
  BY <1>1 DEF Fits, RowN
<1>3. Revoker(op, d, n) = new
  BY <1>1 DEF Revoker, JobN
<1> HIDE DEF rows
<1>4. new.op = op /\ new.rows = rows /\ new.target = NoJob.target /\ new.floor = NoJob.floor
  BY <1>1 DEF JobN
<1> HIDE DEF new
<1>5. Fits(new)
  BY <1>1, <1>2, <1>4 DEF Fits
<1>6. Check(w, TRUE, "revoke", new)
  BY <1>3, Begun
<1> QED  BY <1>4, <1>5, <1>6, Noting

\* The operators' changes of the configuration: a revision grows only where CanGrow
\* allows one more.
LEMMA OperatorNotes ==
  ASSUME TargetInv, TargetInv', JobsFit, Room, Started, NEW w \in Worker, NEW d \in Deployment,
         NEW b \in BOOLEAN, NEW ch \in BOOLEAN,
         \/ DisableProject(w) \/ DeleteProject(w) \/ DeleteNode(w) \/ DeleteDeployment(w, d)
         \/ UpdateDeployment(w, d, b) \/ PutNodeSession(w, b, ch)
  PROVE  /\ JobsFit' /\ NoneMore /\ Started'
         /\ \A e \in Deployment :
              row'[e].rev <= row[e].rev \/ (CanGrow(e) /\ row'[e].rev = row[e].rev + 1)
<1>1. /\ row \in [Deployment -> RowN] /\ NodeDeployment \in Deployment
      /\ 0 \in Nat /\ 0 <= MaxRevision
      /\ \A e \in Deployment : row[e].rev \in Nat /\ row[e].rev <= row[e].rev
  BY TargetConstants DEF TargetInv, Typed, TypedRows, RowN
<1>2. CASE DisableProject(w) \/ DeleteNode(w)
  <2>1. row' = row /\ UNCHANGED lock
        /\ \E op \in {"project", "delete"} : Begin(w, Revoker(op, NodeDeployment, 0), "revoke")
    BY <1>2 DEF DisableProject, DeleteNode, config
  <2>2. JobsFit' /\ NoneMore
    BY <1>1, <2>1, RevokerNotes
  <2> QED  BY <1>1, <2>1, <2>2 DEF Started, Live
<1>3. CASE DeleteProject(w) \/ DeleteDeployment(w, d)
  <2>1. UNCHANGED lock /\ \E op \in {"project", "deployment"}, e \in Deployment :
                            Begin(w, Revoker(op, e, 0), "revoke")
    BY <1>1, <1>3 DEF DeleteProject, DeleteDeployment
  <2>2. \A e \in Deployment : row'[e] \in {row[e], NoRow("gone")}
    BY <1>1, <1>3 DEF DeleteProject, DeleteDeployment, Gone
  <2>3. \A e \in Deployment : row'[e].rev <= row[e].rev /\ (Live(e)' => row'[e] = row[e])
    BY <1>1, <2>2 DEF NoRow, Live
  <2>4. JobsFit' /\ NoneMore
    BY <1>1, <2>1, RevokerNotes
  <2> QED  BY <2>3, <2>4 DEF Started, Live
<1>4. CASE UpdateDeployment(w, d, b)
  <2>1. /\ CanGrow(d) /\ row' = [row EXCEPT ![d] = Bumped(row[d], b)] /\ UNCHANGED lock
        /\ Begin(w, Revoker("deployment", d, 0), "revoke")
    BY <1>4 DEF UpdateDeployment
  <2>2. Bumped(row[d], b).rev = row[d].rev + 1 /\ Bumped(row[d], b).rev >= 1
    BY <1>1, BumpedFacts
  <2>3. JobsFit' /\ NoneMore
    BY <1>1, <2>1, RevokerNotes
  <2>4. \A e \in Deployment : row'[e] = IF e = d THEN Bumped(row[d], b) ELSE row[e]
    BY <1>1, <2>1
  <2> QED  BY <1>1, <2>1, <2>2, <2>3, <2>4 DEF Started, Live
<1>5. CASE PutNodeSession(w, b, ch)
  <2> DEFINE n == NodeDeployment
             r == row[n]
             next == CASE r.state = "none" -> [state |-> "live", rev |-> 1, enabled |-> b, synced |-> FALSE]
                       [] r.state = "live" /\ (ch \/ b # r.enabled) -> Bumped(r, b)
                       [] OTHER -> r
  <2>1. /\ CanGrow(n) /\ row' = [row EXCEPT ![n] = next] /\ UNCHANGED lock
        /\ Begin(w, Revoker("stale", n, next.rev), "revoke")
    BY <1>5 DEF PutNodeSession
  <2>2. r \in RowN /\ (r.state = "none" => r.rev = 0) /\ (r.state = "live" => r.rev >= 1)
    BY <1>1 DEF TargetInv, RowsSound, Started, Live
  <2>3. /\ next.rev = r.rev \/ next.rev = r.rev + 1
        /\ next.state = "live" => next.rev >= 1
    <3>1. CASE r.state = "none"
      BY <2>2, <3>1
    <3>2. CASE r.state = "live" /\ (ch \/ b # r.enabled)
      <4>1. next = Bumped(r, b)
        BY <3>2
      <4> HIDE DEF next, r
      <4> QED  BY <2>2, <4>1, BumpedFacts
    <3>3. CASE r.state # "none" /\ ~(r.state = "live" /\ (ch \/ b # r.enabled))
      <4>1. next = r
        BY <3>3
      <4> QED  BY <2>2, <4>1
    <3> QED  BY <3>1, <3>2, <3>3
  <2>4. r = row[n] /\ n \in Deployment
    BY <1>1
  <2> HIDE DEF next, r, n
  <2>5. row'[n] = next /\ \A e \in Deployment : e # n => row'[e] = row[e]
    BY <1>1, <2>1, <2>4
  <2>6. next.rev \in Nat /\ next.rev <= MaxRevision
    <3>1. /\ row[n].rev \in Nat /\ Cardinality(Changing(n)) \in Nat /\ MaxRevision \in Nat
          /\ row[n].rev + Cardinality(Changing(n)) < MaxRevision
      BY <2>1, <2>4, ChangingCounted
    <3> QED  BY <2>3, <2>4, <3>1
  <2>7. JobsFit' /\ NoneMore
    BY <2>1, <2>4, <2>6, RevokerNotes
  <2>8. Started'
    BY <2>3, <2>5 DEF Started, Live
  <2>9. \A e \in Deployment : row'[e].rev <= row[e].rev \/ (CanGrow(e) /\ row'[e].rev = row[e].rev + 1)
    BY <1>1, <2>1, <2>3, <2>4, <2>5
  <2> QED  BY <2>7, <2>8, <2>9
<1> QED  BY <1>2, <1>3, <1>4, <1>5

\* A revocation marks Targets of the sessions there are, and goes on with its list.
LEMMA RevokeNotes ==
  ASSUME TargetInv, JobsFit, TargetsFit, withdrawn \subseteq Session \X Deployment,
         NEW w \in Worker, Revoke(w) \/ RevokeFails(w) \/ Clean(w)
  PROVE  JobsFit' /\ NoneMore /\ TargetsFit' /\ withdrawn' \subseteq Session \X Deployment
<1> DEFINE j == job[w]
<1>1. j \in JobN /\ Fits(j) /\ target \in [Session -> [Deployment -> TargetN]]
  BY AtPlace DEF JobsFit, TargetInv, Typed, TypedWork
<1>2. CASE Revoke(w)
  <2> DEFINE hit == {q \in Scope(j) : target[q[1]][q[2]].status \notin {"none", "revoked"}}
             after == [s \in Session |-> [d \in Deployment |->
                         IF <<s, d>> \in hit THEN [target[s][d] EXCEPT !.status = "revoked"]
                         ELSE target[s][d]]]
             p == IF j.op = "delete" THEN "clean" ELSE "bump"
  <2>1. /\ (\E ok : Check(w, ok, p, j)) /\ p # "rows"
        /\ target' \in {after, target} /\ withdrawn' \in {withdrawn \cup hit, withdrawn}
    BY <1>2 DEF Revoke, work
  <2>2. hit \subseteq Session \X Deployment
    BY <1>1 DEF Scope, JobN
  <2>3. \A s \in Session, d \in Deployment : target[s][d].rev <= MaxRevision
    BY DEF TargetsFit
  <2>4. ASSUME NEW s \in Session, NEW d \in Deployment
        PROVE  after[s][d].rev = target[s][d].rev
    <3>1. [target[s][d] EXCEPT !.status = "revoked"].rev = target[s][d].rev
      BY <1>1 DEF TargetN
    <3>2. after[s][d] \in {target[s][d], [target[s][d] EXCEPT !.status = "revoked"]}
      <4> HIDE DEF hit
      <4> QED  OBVIOUS
    <3> QED  BY <3>1, <3>2
  <2> HIDE DEF hit, after, p, j
  <2>5. TargetsFit'
    BY <2>1, <2>3, <2>4 DEF TargetsFit
  <2>6. JobsFit' /\ NoneMore
    BY <1>1, <2>1, Reread DEF Fits, j
  <2> QED  BY <2>1, <2>2, <2>5, <2>6
<1>3. CASE RevokeFails(w)
  <2>1. (\E ok : Check(w, ok, "bump", j)) /\ UNCHANGED <<target, withdrawn>>
    BY <1>3 DEF RevokeFails, work
  <2> HIDE DEF j
  <2> QED  BY <1>1, <2>1, Reread DEF Fits, TargetsFit, j
<1>4. CASE Clean(w)
  <2>1. /\ Check(w, FALSE, "idle", NoJob) /\ withdrawn' = withdrawn
        /\ target' = [s \in Session |-> NoTargets]
    BY <1>4 DEF Clean, Check
  <2>2. TargetsFit'
    BY <2>1, TargetConstants DEF TargetsFit, NoTargets, NoTarget
  <2> QED  BY <2>1, <2>2, Noting
<1> QED  BY <1>2, <1>3, <1>4

\* The new revision that a Full Access change gives a row, it gives once.
LEMMA BumpNotes ==
  ASSUME TargetInv, JobsFit, Started, NEW w \in Worker, BumpRow(w)
  PROVE  /\ JobsFit' /\ NoneMore /\ Started'
         /\ \A e \in Deployment :
              \/ row'[e] = row[e]
              \/ Changes(w, e) /\ ~Changes(w, e)' /\ row'[e].rev = row[e].rev + 1
<1> DEFINE j == job[w]
<1>1. pc[w] = "bump"
  BY DEF BumpRow
<1>2. /\ j \in JobN /\ Fits(j) /\ Working(j, "bump") /\ row \in [Deployment -> RowN]
      /\ pc \in [Worker -> Places] /\ job \in [Worker -> JobN]
  BY <1>1, AtPlace DEF JobsFit, TargetInv, Typed, TypedRows, TypedWorkers
<1>3. j.op = "access" /\ j.todo \subseteq Deployment
  BY <1>2 DEF Working, PlacesOf, JobN, Ops
<1>4. PICK d \in j.todo :
        IF Live(d) /\ row[d].rev = j.rows[d].rev
        THEN /\ row' = [row EXCEPT ![d] = Bumped(@, row[d].enabled)]
             /\ Check(w, TRUE, "revoke", [j EXCEPT !.d = d, !.todo = @ \ {d}])
        ELSE /\ Check(w, j.todo # {d}, "bump", [j EXCEPT !.todo = @ \ {d}])
             /\ UNCHANGED row
  BY DEF BumpRow
<1> DEFINE left == j.todo \ {d}
<1>5. d \in Deployment /\ left \subseteq j.todo /\ d \notin left
  BY <1>3
<1>6. CASE Live(d) /\ row[d].rev = j.rows[d].rev
  <2> DEFINE new == [j EXCEPT !.d = d, !.todo = left]
             r == Bumped(row[d], row[d].enabled)
  <2>1. Check(w, TRUE, "revoke", new) /\ row' = [row EXCEPT ![d] = r]
    BY <1>4, <1>6
  <2>2. r.rev = row[d].rev + 1 /\ r.rev >= 1
    <3>1. row[d] \in RowN /\ row[d].enabled \in BOOLEAN
      BY <1>2, <1>5 DEF RowN
    <3> QED  BY <3>1, BumpedFacts
  <2> HIDE DEF r, left
  <2>3. /\ new.op = j.op /\ new.rows = j.rows /\ new.floor = j.floor /\ new.todo = left
        /\ new.target = j.target
    BY <1>2 DEF JobN
  <2> HIDE DEF new, j
  <2>4. JobsFit' /\ NoneMore
    BY <1>2, <1>5, <2>1, <2>3, Reread DEF Fits, j
  <2>5. row'[d] = r /\ \A e \in Deployment : e # d => row'[e] = row[e]
    BY <1>2, <1>5, <2>1
  <2>6. Started'
    BY <2>2, <2>5 DEF Started, Live
  <2>7. job'[w] = new /\ pc'[w] = "revoke"
    BY <1>2, <2>1 DEF Check, Goto
  <2>8. Changes(w, d) /\ ~Changes(w, d)'
    BY <1>3, <1>4, <1>5, <2>3, <2>7 DEF Changes, j
  <2> QED  BY <2>2, <2>4, <2>5, <2>6, <2>8
<1>7. CASE ~(Live(d) /\ row[d].rev = j.rows[d].rev)
  <2> DEFINE new == [j EXCEPT !.todo = left]
  <2>1. (\E ok : Check(w, ok, "bump", new)) /\ row' = row
    BY <1>4, <1>7
  <2> HIDE DEF left
  <2>2. /\ new.op = j.op /\ new.rows = j.rows /\ new.floor = j.floor /\ new.todo = left
        /\ new.target = j.target
    BY <1>2 DEF JobN
  <2> HIDE DEF new, j
  <2>3. JobsFit' /\ NoneMore
    BY <1>2, <1>5, <2>1, <2>2, Reread DEF Fits, j
  <2> QED  BY <2>1, <2>3 DEF Started, Live
<1> QED  BY <1>6, <1>7

\* A new Full Access change has a revision of every row to itself.
LEMMA PatchNotes ==
  ASSUME TargetInv, JobsFit, NEW w \in Worker, PatchFull(w)
  PROVE  /\ JobsFit' /\ row' = row /\ \A d \in Deployment : CanGrow(d)
         /\ \A v \in Worker, d \in Deployment : v # w => (Changes(v, d)' => Changes(v, d))
<1> DEFINE mine == [NoJob EXCEPT !.op = "access"]
           wider(v) == [job[v] EXCEPT !.seen = @ \cup {~fullAccess}]
<1>1. /\ pc' = [pc EXCEPT ![w] = "rows"] /\ row' = row /\ \A d \in Deployment : CanGrow(d)
      /\ job' = [v \in Worker |-> IF v = w THEN mine
                                  ELSE IF job[v].op = "call" THEN wider(v) ELSE job[v]]
  BY DEF PatchFull, Goto
<1>2. pc \in [Worker -> Places] /\ \A v \in Worker : job[v] \in JobN /\ Fits(job[v])
  BY DEF JobsFit, TargetInv, Typed, TypedWorkers
<1>3. Fits(mine)
  BY NoJobFacts, NoJobFits DEF JobN, Fits
<1>4. ASSUME NEW v \in Worker
      PROVE  /\ wider(v).op = job[v].op /\ wider(v).rows = job[v].rows
             /\ wider(v).target = job[v].target /\ wider(v).floor = job[v].floor
             /\ wider(v).todo = job[v].todo
  BY <1>2 DEF JobN
<1> HIDE DEF mine, wider
<1>5. /\ job'[w] = mine
      /\ \A v \in Worker \ {w} : pc'[v] = pc[v] /\ job'[v] \in {job[v], wider(v)}
  BY <1>1, <1>2
<1>6. JobsFit'
  BY <1>2, <1>3, <1>4, <1>5 DEF JobsFit, Fits
<1>7. \A v \in Worker, d \in Deployment : v # w => (Changes(v, d)' => Changes(v, d))
  BY <1>4, <1>5 DEF Changes
<1> QED  BY <1>1, <1>6, <1>7

\* What any step does to the handlers' notes, and to those that count for a row.
LEMMA NotesStep ==
  ASSUME TargetInv, TargetInv', BoundsInv, [Next]_vars
  PROVE  /\ JobsFit' /\ TargetsFit' /\ withdrawn' \subseteq Session \X Deployment
         /\ NoneMore \/ \E w \in Worker : PatchFull(w)
<1> USE DEF BoundsInv, Recorded
<1>1. ASSUME NEW w \in Worker, Client(w)
      PROVE  JobsFit' /\ NoneMore /\ UNCHANGED <<target, withdrawn>>
  <2>1. NodeDeployment \in Deployment
    BY TargetConstants
  <2>2. JobsFit' /\ NoneMore
    BY <1>1, <2>1, ClientNotes DEF Client
  <2> QED  BY <1>1, <2>1, <2>2 DEF Client, OpenProject, OpenNode, ProjectContext, CallTool, work
<1>2. ASSUME NEW w \in Worker, Operator(w)
      PROVE  JobsFit' /\ (NoneMore \/ PatchFull(w)) /\ UNCHANGED <<target, withdrawn>>
  <2>1. NodeDeployment \in Deployment
    BY TargetConstants
  <2>2. JobsFit' /\ (NoneMore \/ PatchFull(w))
    BY <1>2, <2>1, OperatorNotes, PatchNotes DEF Operator
  <2> QED
    BY <1>2, <2>2
    DEF Operator, DisableProject, DeleteProject, DeleteNode, PatchFull, DeleteDeployment,
        UpdateDeployment, PutNodeSession, work
<1>3. ASSUME NEW w \in Worker, Step(w) \/ Abandon(w)
      PROVE  JobsFit' /\ NoneMore /\ TargetsFit' /\ withdrawn' \subseteq Session \X Deployment
  <2>1. CASE ReadSession(w) \/ ReadTarget(w) \/ ReadNode(w) \/ ReadProject(w) \/ ReadRow(w)
             \/ ReadAccess(w) \/ Send(w) \/ Lock(w) \/ Abandon(w)
    <3>1. UNCHANGED <<target, withdrawn>>
      BY <2>1 DEF ReadSession, ReadTarget, ReadNode, ReadProject, ReadRow, ReadAccess, Send, Lock,
                  Abandon, work
    <3> QED  BY <2>1, <3>1, ReadNotes DEF TargetsFit
  <2>2. CASE ListDeployments(w) \/ ReadConfiguration(w) \/ ListForAccess(w)
    <3>1. UNCHANGED <<target, withdrawn>>
      BY <2>2 DEF ListDeployments, ReadConfiguration, ListForAccess, work
    <3> QED  BY <2>2, <3>1, ListNotes DEF TargetsFit
  <2>3. CASE BeginWorkSession(w) \/ ListTargets(w) \/ Reserve(w) \/ Prepare(w) \/ Bind(w)
             \/ Put(w) \/ ListResults(w) \/ Refresh(w)
    <3>1. UNCHANGED withdrawn
      BY <2>3 DEF BeginWorkSession, ListTargets, Reserve, Prepare, Bind, Put, ListResults,
                  Refresh, work
    <3> QED  BY <2>3, <3>1, WriteNotes
  <2>4. CASE Revoke(w) \/ RevokeFails(w) \/ Clean(w)
    BY <2>4, RevokeNotes
  <2>5. CASE BumpRow(w)
    <3>1. UNCHANGED <<target, withdrawn>>
      BY <2>5 DEF BumpRow, work
    <3> QED  BY <2>5, <3>1, BumpNotes DEF TargetsFit
  <2> QED  BY <1>3, <2>1, <2>2, <2>3, <2>4, <2>5 DEF Step
<1>4. CASE UNCHANGED <<work, pc, job>>
  BY <1>4 DEF work, JobsFit, Fits, NoneMore, Changes, TargetsFit
<1>5. (\E d \in Deployment : \E b \in BOOLEAN : CreateDeployment(d, b) \/ RecordApply(d, b))
      \/ EnableProject \/ UNCHANGED vars => UNCHANGED <<work, pc, job>>
  BY DEF CreateDeployment, RecordApply, EnableProject, vars, work
<1>6. UNCHANGED <<target, withdrawn>> => TargetsFit' /\ withdrawn' \subseteq Session \X Deployment
  BY DEF TargetsFit
<1> HIDE DEF BoundsInv, Recorded
<1> QED  BY <1>1, <1>2, <1>3, <1>4, <1>5, <1>6 DEF Next

\* A revision grows by one: for a Full Access change that then has one row less to
\* go, or where CanGrow allows it.
LEMMA RevisionStep ==
  ASSUME TargetInv, TargetInv', BoundsInv, [Next]_vars
  PROVE  /\ Started'
         /\ \A d \in Deployment :
              \/ row'[d].rev <= row[d].rev
              \/ CanGrow(d) /\ NoneMore /\ row'[d].rev = row[d].rev + 1
              \/ \E w \in Worker : /\ Changes(w, d) /\ ~Changes(w, d)' /\ NoneMore
                                   /\ row'[d].rev = row[d].rev + 1
<1> DEFINE Grown(d) == \/ row'[d].rev <= row[d].rev
                       \/ CanGrow(d) /\ NoneMore /\ row'[d].rev = row[d].rev + 1
                       \/ \E w \in Worker : /\ Changes(w, d) /\ ~Changes(w, d)' /\ NoneMore
                                            /\ row'[d].rev = row[d].rev + 1
           Goal == Started' /\ \A d \in Deployment : Grown(d)
<1>1. /\ row \in [Deployment -> RowN] /\ NodeDeployment \in Deployment
      /\ \A d \in Deployment : row[d].rev \in Nat /\ row[d].rev <= row[d].rev
      /\ JobsFit /\ Room /\ Started
  BY TargetConstants DEF TargetInv, Typed, TypedRows, RowN, BoundsInv
<1>2. row' = row => Goal
  BY <1>1 DEF Started, Live
<1>3. ASSUME NEW w \in Worker, Client(w)
      PROVE  row' = row
  BY <1>1, <1>3 DEF Client, OpenProject, OpenNode, ProjectContext, CallTool, config
<1>4. ASSUME NEW w \in Worker, Operator(w)
      PROVE  Goal
  <2>1. CASE PatchFull(w)
    BY <1>2, <2>1 DEF PatchFull
  <2>2. CASE ~PatchFull(w)
    <3>1. PICK d \in Deployment, b \in BOOLEAN, ch \in BOOLEAN :
            \/ DisableProject(w) \/ DeleteProject(w) \/ DeleteNode(w) \/ DeleteDeployment(w, d)
            \/ UpdateDeployment(w, d, b) \/ PutNodeSession(w, b, ch)
      BY <1>1, <1>4, <2>2 DEF Operator
    <3> QED  BY <1>1, <3>1, OperatorNotes
  <2> QED  BY <2>1, <2>2
<1>5. ASSUME NEW w \in Worker, Step(w) \/ Abandon(w)
      PROVE  Goal
  <2>1. CASE BumpRow(w)
    BY <1>1, <2>1, BumpNotes
  <2>2. CASE Clean(w)
    <3>1. \A d \in Deployment : row'[d] \in {row[d], NoRow("gone")}
      BY <1>1, <2>2 DEF Clean, Gone
    <3>2. \A d \in Deployment : row'[d].rev <= row[d].rev /\ (Live(d)' => row'[d] = row[d])
      BY <1>1, <3>1 DEF NoRow, Live
    <3> QED  BY <1>1, <3>2 DEF Started, Live
  <2>3. CASE ~BumpRow(w) /\ ~Clean(w)
    <3>1. row' = row
      BY <1>5, <2>3
      DEF Step, Abandon, ReadSession, ReadTarget, ReadNode, ReadProject, ReadRow, ReadAccess, Send,
          ListDeployments, ReadConfiguration, Lock, BeginWorkSession, ListTargets, Reserve,
          Prepare, Bind, Put, ListResults, Refresh, Revoke, RevokeFails, ListForAccess, config
    <3> QED  BY <1>2, <3>1
  <2> QED  BY <2>1, <2>2, <2>3
<1>6. ASSUME NEW d \in Deployment, NEW b \in BOOLEAN, CreateDeployment(d, b)
      PROVE  Goal
  <2>1. /\ CanGrow(d) /\ row[d].state = "none" /\ UNCHANGED <<pc, job>>
        /\ row' = [row EXCEPT ![d] = [state |-> "live", rev |-> 1, enabled |-> b, synced |-> FALSE]]
    BY <1>6 DEF CreateDeployment
  <2>2. row[d].rev = 0
    BY <2>1 DEF TargetInv, RowsSound
  <2>3. row'[d].rev = 1 /\ \A e \in Deployment : e # d => row'[e] = row[e]
    BY <1>1, <2>1
  <2>4. NoneMore
    BY <2>1 DEF NoneMore, Changes
  <2> QED  BY <1>1, <2>1, <2>2, <2>3, <2>4 DEF Started, Live
<1>7. ASSUME NEW d \in Deployment, NEW b \in BOOLEAN, RecordApply(d, b)
      PROVE  Goal
  <2>1. /\ row' = [row EXCEPT ![d] = [row[d] EXCEPT !.synced = b]] /\ row[d].state = "live"
    BY <1>7 DEF RecordApply, Live
  <2>2. [row[d] EXCEPT !.synced = b].rev = row[d].rev
    BY <1>1 DEF RowN
  <2>3. row'[d].rev = row[d].rev /\ \A e \in Deployment : e # d => row'[e] = row[e]
    BY <1>1, <2>1, <2>2
  <2> QED  BY <1>1, <2>1, <2>3 DEF Started, Live
<1>8. EnableProject \/ UNCHANGED vars => row' = row
  BY DEF EnableProject, vars
<1>9. Goal
  <2> HIDE DEF Goal
  <2> QED  BY <1>2, <1>3, <1>4, <1>5, <1>6, <1>7, <1>8 DEF Next
<1> QED  BY <1>9

\* Every step leaves each row room for those who count.
LEMMA RoomStep ==
  ASSUME TargetInv, TargetInv', BoundsInv, [Next]_vars
  PROVE  Room'
<1> SUFFICES ASSUME NEW d \in Deployment
             PROVE  row'[d].rev + Cardinality(Changing(d)') <= MaxRevision
  BY DEF Room
<1>1. row[d].rev + Cardinality(Changing(d)) <= MaxRevision
  BY DEF BoundsInv, Room
<1>2. NoneMore => Changing(d)' \subseteq Changing(d)
  BY DEF NoneMore, Changing
<1>3. ASSUME NEW w \in Worker, PatchFull(w)
      PROVE  row'[d].rev + Cardinality(Changing(d)') <= MaxRevision
  <2>1. /\ CanGrow(d) /\ row' = row
        /\ \A v \in Worker : v # w => (Changes(v, d)' => Changes(v, d))
    BY <1>3, PatchNotes DEF BoundsInv
  <2>2. Changing(d)' \subseteq Changing(d) \cup {w}
    BY <2>1 DEF Changing
  <2> QED  BY <1>1, <2>1, <2>2, RoomFor
<1>4. ASSUME NEW w \in Worker, NoneMore, Changes(w, d), ~Changes(w, d)', row'[d].rev = row[d].rev + 1
      PROVE  row'[d].rev + Cardinality(Changing(d)') <= MaxRevision
  <2>1. w \in Changing(d) /\ Changing(d)' \subseteq Changing(d) \ {w}
    BY <1>2, <1>4 DEF Changing
  <2> QED  BY <1>1, <1>4, <2>1, RoomFor
<1>5. ASSUME NoneMore, CanGrow(d), row'[d].rev = row[d].rev + 1
      PROVE  row'[d].rev + Cardinality(Changing(d)') <= MaxRevision
  <2>1. CASE Worker = {}
    <3>1. Changing(d)' = {}
      BY <2>1 DEF Changing
    <3>2. Changing(d) = {}
      BY <2>1 DEF Changing
    <3> QED  BY <1>5, <3>1, <3>2, ChangingCounted
  <2>2. ASSUME NEW w \in Worker
        PROVE  row'[d].rev + Cardinality(Changing(d)') <= MaxRevision
    BY <1>1, <1>2, <1>5, RoomFor
  <2> QED  BY <2>1, <2>2
<1>6. ASSUME NoneMore, row'[d].rev <= row[d].rev
      PROVE  row'[d].rev + Cardinality(Changing(d)') <= MaxRevision
  <2>1. CASE Worker = {}
    <3>1. Changing(d)' = Changing(d)
      BY <2>1 DEF Changing
    <3>2. row'[d].rev \in Nat
      BY DEF TargetInv, Typed, TypedRows, RowN
    <3> QED  BY <1>1, <1>6, <3>1, <3>2, ChangingCounted
  <2>2. ASSUME NEW w \in Worker
        PROVE  row'[d].rev + Cardinality(Changing(d)') <= MaxRevision
    BY <1>1, <1>2, <1>6, RoomFor
  <2> QED  BY <2>1, <2>2
<1> QED  BY <1>3, <1>4, <1>5, <1>6, NotesStep, RevisionStep

\* What only RecordApply, Abandon and RevokeFails change.
LEMMA FrameStep ==
  ASSUME [Next]_vars
  PROVE  /\ kind' = kind
         /\ faults' = faults \/ (faults < MaxFaults /\ faults' = faults + 1)
         /\ confirmed' = confirmed \/ \E d \in Deployment, b \in BOOLEAN : RecordApply(d, b)
<1> DEFINE Same == kind' = kind /\ confirmed' = confirmed
           One == faults < MaxFaults /\ faults' = faults + 1
<1>1. ASSUME NEW w \in Worker, Client(w)
      PROVE  Same /\ faults' = faults
  BY <1>1 DEF Client, OpenProject, OpenNode, ProjectContext, CallTool, config
<1>2. ASSUME NEW w \in Worker, Operator(w)
      PROVE  Same /\ faults' = faults
  BY <1>2 DEF Operator, DisableProject, DeleteProject, DeleteNode, PatchFull, DeleteDeployment,
              UpdateDeployment, PutNodeSession, config
<1>3. ASSUME NEW w \in Worker, Step(w)
      PROVE  Same /\ (faults' = faults \/ One)
  <2>1. CASE RevokeFails(w)
    BY <2>1 DEF RevokeFails, config
  <2>2. CASE Revoke(w) \/ Clean(w) \/ ListForAccess(w)
    BY <2>2 DEF Revoke, Clean, ListForAccess, config
  <2>3. CASE BumpRow(w)
    BY <2>3 DEF BumpRow
  <2>4. CASE ReadSession(w) \/ ReadTarget(w) \/ ReadNode(w) \/ ReadProject(w) \/ ReadRow(w)
             \/ ReadAccess(w) \/ Send(w) \/ ListDeployments(w) \/ ReadConfiguration(w) \/ Lock(w)
    BY <2>4 DEF ReadSession, ReadTarget, ReadNode, ReadProject, ReadRow, ReadAccess, Send,
                ListDeployments, ReadConfiguration, Lock, config
  <2>5. CASE BeginWorkSession(w) \/ ListTargets(w) \/ Reserve(w) \/ Prepare(w) \/ Bind(w)
             \/ Put(w) \/ ListResults(w) \/ Refresh(w)
    BY <2>5 DEF BeginWorkSession, ListTargets, Reserve, Prepare, Bind, Put, ListResults, Refresh,
                config
  <2> QED  BY <1>3, <2>1, <2>2, <2>3, <2>4, <2>5 DEF Step
<1>4. ASSUME NEW w \in Worker, Abandon(w)
      PROVE  Same /\ One
  BY <1>4 DEF Abandon, config
<1>5. ASSUME NEW d \in Deployment, NEW b \in BOOLEAN, CreateDeployment(d, b) \/ RecordApply(d, b)
      PROVE  /\ kind' = kind /\ faults' = faults
             /\ confirmed' = confirmed \/ RecordApply(d, b)
  BY <1>5 DEF CreateDeployment, RecordApply
<1>6. EnableProject \/ UNCHANGED vars => Same /\ faults' = faults
  BY DEF EnableProject, vars
<1> HIDE DEF One
<1>7. /\ kind' = kind
      /\ faults' = faults \/ One
      /\ confirmed' = confirmed \/ \E d \in Deployment, b \in BOOLEAN : RecordApply(d, b)
  BY <1>1, <1>2, <1>3, <1>4, <1>5, <1>6 DEF Next
<1> QED  BY <1>7 DEF One

\* The history, and the handlers that ended early.
LEMMA RecordedStep ==
  ASSUME TargetInv, BoundsInv, [Next]_vars
  PROVE  /\ kind' \in Kinds /\ faults' \in 0..MaxFaults
         /\ confirmed' \in [Deployment -> SUBSET (1..MaxRevision)]
<1>1. /\ kind \in Kinds /\ faults \in 0..MaxFaults /\ MaxFaults \in Nat
      /\ confirmed \in [Deployment -> SUBSET (1..MaxRevision)]
  BY TargetConstants DEF BoundsInv, Recorded
<1>2. kind' \in Kinds /\ faults' \in 0..MaxFaults
  BY <1>1, FrameStep
<1>3. ASSUME NEW d \in Deployment, NEW b \in BOOLEAN, RecordApply(d, b)
      PROVE  confirmed' \in [Deployment -> SUBSET (1..MaxRevision)]
  <2> DEFINE n == row[d].rev
  <2>1. n \in 1..MaxRevision
    <3>1. n >= 1
      BY <1>3 DEF RecordApply, BoundsInv, Started
    <3>2. n \in Nat /\ Cardinality(Changing(d)) \in Nat /\ MaxRevision \in Nat
          /\ n + Cardinality(Changing(d)) <= MaxRevision
      BY ChangingCounted DEF BoundsInv, Room
    <3> QED  BY <3>1, <3>2
  <2>2. confirmed' = IF b THEN [confirmed EXCEPT ![d] = @ \cup {n}] ELSE confirmed
    BY <1>3 DEF RecordApply
  <2> HIDE DEF n
  <2> QED  BY <1>1, <2>1, <2>2
<1> QED  BY <1>1, <1>2, <1>3, FrameStep

\* Every step keeps the bounds.
LEMMA BoundsStep ==
  ASSUME TargetInv, TargetInv', BoundsInv, [Next]_vars
  PROVE  BoundsInv'
<1>1. Room' /\ Started' /\ JobsFit' /\ TargetsFit'
  BY RoomStep, RevisionStep, NotesStep
<1>2. Recorded'
  BY RecordedStep, NotesStep DEF Recorded
<1> QED  BY <1>1, <1>2 DEF BoundsInv

\* Initially nothing has a revision.
LEMMA InitBounds == Init => BoundsInv
<1> SUFFICES ASSUME Init PROVE BoundsInv
  OBVIOUS
<1>1. MaxRevision \in Nat /\ MaxFaults \in Nat
  BY TargetConstants
<1>2. Room
  <2> SUFFICES ASSUME NEW d \in Deployment
               PROVE  row[d].rev + Cardinality(Changing(d)) <= MaxRevision
    BY DEF Room
  <2>1. \A w \in Worker : job[w].op = "none"
    BY DEF Init, NoJob
  <2>2. Changing(d) = {}
    BY <2>1 DEF Changing, Changes
  <2>3. row[d].rev = 0
    BY DEF Init, NoRows, NoRow
  <2> QED  BY <1>1, <2>2, <2>3, FS_EmptySet
<1>3. Started /\ TargetsFit
  BY <1>1 DEF Init, Started, Live, NoRows, NoRow, TargetsFit, NoTargets, NoTarget
<1>4. JobsFit
  BY NoJobFits DEF Init, JobsFit
<1>5. Recorded
  BY <1>1 DEF Init, Recorded
<1> QED  BY <1>2, <1>3, <1>4, <1>5 DEF BoundsInv

\* The domains of the state, and that no number of updates and Full Access changes
\* takes a revision past its bound: what CanGrow grants is enough for all that follows.
THEOREM TargetTypes == Spec => []TypeOK
<1>1. TargetInv /\ BoundsInv => TypeOK
  <2> SUFFICES ASSUME TargetInv, BoundsInv PROVE TypeOK
    OBVIOUS
  <2>1. /\ project \in Projects /\ fullAccess \in BOOLEAN
        /\ session \in [Session -> Sessions] /\ pc \in [Worker -> Places]
        /\ lock \in [Session -> Worker \cup {Nobody}]
    BY DEF TargetInv, Typed, TypedRows, TypedWork, TypedWorkers
  <2>2. \A x \in Nat : x <= MaxRevision => x \in 0..MaxRevision
    BY TargetConstants
  <2>3. row \in [Deployment -> Rows]
    <3>1. row \in [Deployment -> RowN]
      BY DEF TargetInv, Typed, TypedRows
    <3>2. ASSUME NEW d \in Deployment
          PROVE  row[d] \in Rows
      <4>1. /\ row[d].rev \in Nat /\ Cardinality(Changing(d)) \in Nat /\ MaxRevision \in Nat
            /\ row[d].rev + Cardinality(Changing(d)) <= MaxRevision
        BY ChangingCounted DEF BoundsInv, Room
      <4>2. row[d] \in RowN /\ row[d].rev \in 0..MaxRevision
        BY <3>1, <4>1
      <4> QED  BY <4>2 DEF RowN, Rows
    <3> QED  BY <3>1, <3>2
  <2>4. \A t \in TargetN : t.rev <= MaxRevision => t \in Targets
    BY <2>2 DEF TargetN, Targets
  <2>5. target \in [Session -> [Deployment -> Targets]]
    <3>1. target \in [Session -> [Deployment -> TargetN]]
      BY DEF TargetInv, Typed, TypedWork
    <3> QED  BY <2>4, <3>1 DEF BoundsInv, TargetsFit
  <2>6. job \in [Worker -> Jobs \cup {NoJob}]
    <3>1. job \in [Worker -> JobN]
      BY DEF TargetInv, Typed, TypedWorkers
    <3>2. ASSUME NEW w \in Worker
          PROVE  job[w] \in Jobs
      <4> DEFINE j == job[w]
      <4>1. j \in JobN /\ Fits(j)
        BY <3>1 DEF BoundsInv, JobsFit
      <4> HIDE DEF j
      <4>2. \A r \in RowN : r.rev <= MaxRevision => r \in Rows
        BY <2>2 DEF RowN, Rows
      <4>3. j.rows \in [Deployment -> Rows]
        <5>1. j.rows \in [Deployment -> RowN]
          BY <4>1 DEF JobN
        <5> QED  BY <4>1, <4>2, <5>1 DEF Fits
      <4>4. j.target \in Targets
        BY <2>4, <4>1 DEF Fits, JobN
      <4>5. j.floor \in 0..(MaxRevision + 1)
        BY <4>1, TargetConstants DEF Fits, JobN
      <4>6. j \in Jobs
        BY <4>1, <4>3, <4>4, <4>5 DEF JobN, Jobs
      <4> QED  BY <4>6 DEF j
    <3> QED  BY <3>1, <3>2
  <2>7. kind \in Kinds /\ faults \in 0..MaxFaults /\ withdrawn \subseteq Session \X Deployment
        /\ confirmed \in [Deployment -> SUBSET (1..MaxRevision)]
    BY DEF BoundsInv, Recorded
  <2> QED  BY <2>1, <2>3, <2>5, <2>6, <2>7 DEF TypeOK
<1>2. Init => BoundsInv
  BY InitBounds
<1>3. TargetInv /\ TargetInv' /\ BoundsInv /\ [Next]_vars => BoundsInv'
  BY BoundsStep
<1> QED  BY <1>1, <1>2, <1>3, TargetInvariant, PTL DEF Spec
================================================================================
