------------------------------- MODULE ContextFleet -------------------------------
(***************************************************************************)
(* agentdock_context: the server asks every enabled node for its context,  *)
(* a bounded number of them at a time, and answers with one entry for each *)
(* node and with what is shared by all of them.  The list of nodes is read *)
(* once; nodes come and go, are slow or answer nonsense meanwhile.  The    *)
(* workers share one array: each writes the entry of the node it asked.    *)
(***************************************************************************)
EXTENDS Naturals, Sequences, FiniteSets, SequencesExt

CONSTANTS FleetNode,      \* nodes that may be registered
          FleetWorkers,   \* maxFleetContextConcurrency
          NoEntryYet

ASSUME FleetConstants == IsFiniteSet(FleetNode) /\ FleetWorkers \in Nat

VARIABLES
  able,      \* for each node: "absent", "plain" (no context tool) or "capable"
  online,    \* the nodes that are connected
  call,      \* the call under way: its nodes in order, its jobs and workers
  entries    \* the entries of the answer, by position

fleetVars == <<able, online, call, entries>>

NoFleetCall == [step |-> "idle", nodes |-> <<>>, tools |-> <<>>, queue |-> {}, busy |-> {},
                workers |-> 0, shared |-> "none"]
Empty(n) == [i \in 1..n |-> NoEntryYet]

FleetInit ==
  /\ able = [n \in FleetNode |-> "capable"] /\ online = {}
  /\ call = NoFleetCall /\ entries = <<>>

(* A node dials, goes away, or is updated with or without the tool.        *)
NodeChanges(n, tool, up) ==
  /\ able' = [able EXCEPT ![n] = tool]
  /\ online' = IF up THEN online \cup {n} ELSE online \ {n}
  /\ UNCHANGED <<call, entries>>

Enabled == {n \in FleetNode : able[n] # "absent"}

(* The rows, with what each node can do, in an order of their own.         *)
ListNodes ==
  /\ call.step = "idle"
  /\ \E nodes \in SetToSeqs(Enabled) :
       /\ call' = [NoFleetCall EXCEPT !.step = "shared", !.nodes = nodes, !.tools = able]
       /\ entries' = Empty(Len(nodes))
  /\ UNCHANGED <<able, online>>

(* Templates, and the compact index of Recall: an index that is not there, *)
(* or leaves something out, is answered with a warning.                    *)
BuildShared ==
  /\ call.step = "shared"
  /\ \E shared \in {"whole", "warned"} :
       call' = [call EXCEPT !.step = "sorting", !.shared = shared]
  /\ UNCHANGED <<able, online, entries>>

NodeEntry(n, status, of) == [node |-> n, status |-> status, of |-> of]

(* The entry of a node that is not asked, and the positions that are.      *)
Unasked(n) ==
  IF call.tools[n] # "capable" THEN NodeEntry(n, "unsupported", NoEntryYet)
  ELSE IF n \notin online THEN NodeEntry(n, "offline", NoEntryYet)
  ELSE NodeEntry(n, "unavailable", NoEntryYet)

Asked(nodes) ==
  {i \in 1..Len(nodes) : call.tools[nodes[i]] = "capable" /\ nodes[i] \in online}

(* What each node can do was listed, whether it is online is asked now.    *)
SortJobs ==
  /\ call.step = "sorting"
  /\ entries' = [i \in 1..Len(call.nodes) |-> Unasked(call.nodes[i])]
  /\ LET jobs == Asked(call.nodes)
     IN call' = [call EXCEPT !.step = "asking", !.queue = jobs,
                   !.workers = IF Cardinality(jobs) < FleetWorkers THEN Cardinality(jobs)
                               ELSE FleetWorkers]
  /\ UNCHANGED <<able, online>>

\* Mutant: a job is the position among those that are asked.
TakeJobNth(i) ==
  /\ call.step = "asking" /\ i \in call.queue /\ \A j \in call.queue : i <= j
  /\ Cardinality(call.busy) < call.workers
  /\ call' = [call EXCEPT !.queue = @ \ {i}, !.busy = @ \cup
       {[at |-> Len(entries) - Cardinality(call.queue) + 1, node |-> call.nodes[i]]}]
  /\ UNCHANGED <<able, online, entries>>

(* The channel gives the jobs out in the order of their positions.         *)
TakeJob(i) ==
  /\ call.step = "asking" /\ i \in call.queue /\ \A j \in call.queue : i <= j
  /\ Cardinality(call.busy) < call.workers
  /\ call' = [call EXCEPT !.queue = @ \ {i}, !.busy = @ \cup
       {[at |-> i, node |-> call.nodes[i]]}]
  /\ UNCHANGED <<able, online, entries>>

FinishJob(job, status, of) ==
  /\ job \in call.busy
  /\ call' = [call EXCEPT !.busy = @ \ {job}]
  /\ entries' = [entries EXCEPT ![job.at].status = status, ![job.at].of = of]
  /\ UNCHANGED <<able, online>>

(* The node answers with a context of the current contract.                *)
NodeAnswered(job) == job.node \in online /\ FinishJob(job, "ready", job.node)

(* A tool error, a field that is missing: the context is not taken over.   *)
Malformed(job) == job.node \in online /\ FinishJob(job, "malformed", NoEntryYet)

(* Eight seconds are over, or the connection is.                           *)
Unanswered(job) ==
  \/ FinishJob(job, "timeout", NoEntryYet)
  \/ job.node \notin online /\ FinishJob(job, "unavailable", NoEntryYet)

AnswerFleet ==
  /\ call.step = "asking" /\ call.queue = {} /\ call.busy = {}
  /\ call' = [call EXCEPT !.step = "answered"]
  /\ UNCHANGED <<able, online, entries>>

NextCall ==
  /\ call.step = "answered"
  /\ call' = NoFleetCall /\ entries' = <<>>
  /\ UNCHANGED <<able, online>>

FleetNext ==
  \/ \E n \in FleetNode, tool \in {"absent", "plain", "capable"}, up \in BOOLEAN :
       NodeChanges(n, tool, up)
  \/ ListNodes \/ BuildShared \/ SortJobs \/ AnswerFleet \/ NextCall
  \/ \E i \in call.queue : TakeJob(i)
  \/ \E job \in call.busy : NodeAnswered(job) \/ Malformed(job) \/ Unanswered(job)

FleetSpec == FleetInit /\ [][FleetNext]_fleetVars
-----------------------------------------------------------------------------------
(* The values the variables take; no more nodes are asked at a time than   *)
(* there are workers.                                                      *)
FleetTypeOK ==
  /\ able \in [FleetNode -> {"absent", "plain", "capable"}] /\ online \subseteq FleetNode
  /\ call.step \in {"idle", "shared", "sorting", "asking", "answered"}
  /\ Cardinality(call.busy) <= FleetWorkers
  /\ Len(entries) = Len(call.nodes)

(* An answer has an entry for every node that was listed, each entry says  *)
(* of its own node what became of it, and a context is there exactly if    *)
(* the entry is ready: whichever worker was fastest, and whoever came or   *)
(* went in between (mcp_context.go, runBoundedFleetContextJobs).           *)
EntriesAreTheirOwn ==
  call.step = "answered" =>
    \A i \in 1..Len(entries) :
      /\ entries[i].node = call.nodes[i]
      /\ entries[i].of = IF entries[i].status = "ready" THEN call.nodes[i] ELSE NoEntryYet
===================================================================================
