# TLA+ models of NexusDock

NexusDock is a hub: remote nodes (AgentDock) keep a Bridge connection to it, an MCP
client (a model host such as ChatGPT) calls its tools, and people use its web pages.
It routes tool calls to nodes, keeps Projects and where they are deployed, opens
WorkSessions that bind a conversation to working directories on nodes, wakes a
conversation up when commands that it started have ended, and keeps notes, templates
and a memory (Recall) for its nodes.  This directory holds TLA+ models of the parts of
it where order, failure and time matter, the TLC configurations that check them, and
proofs that hold for every size of the system.

    tlc -workers 2 -config continuation_views.cfg MCContinuation
    tlc -workers 2 -config sync_rows.cfg MCDeploymentSync
    tlc -workers 2 -config targets.cfg MCWorkTargets
    tlc -workers 2 -config calls.cfg MCCalls
    tlc -workers 2 -config control_plane.cfg MCControlPlane
    tlc -workers 2 -config documents.cfg MCDocuments
    tlc -workers 2 -config apps.cfg MCToolCatalog
    tlapm ContinuationProofs.tla        # and the seven other *Proofs modules

## 1. The system

Everything that must be consistent is in one SQLite database, and a transaction of the
stores is one `BEGIN IMMEDIATE` transaction, so the models take one transaction as one
step.  What is not one step is a handler: it commits, calls a node over the Bridge, and
commits again, and other handlers run in between.  Notes, templates, Recall's documents,
their indexes and the MCP token are files; there every replacement of a file is a step.

| Component | State | Operations | What is hard | What makes it correct |
|---|---|---|---|---|
| **WorkSession Continuation** `project/continuation.go`, `httpx/mcp_continuation.go` | a document per session (switch, budgets, awaited sources, endpoint, wakes, attempts) and the table of command receipts | enable, pause, recover, await, settle, status; present; bind, heartbeat, pause, acquire, prepare, finish, state; consume; report of outcomes | several views of one conversation; leases; a message whose fate is unknown; outcomes that are reported again; retention | an outcome is delivered at most once and never lost once awaited; one wake at a time |
| **Outcome collection** `httpx/command_outcomes.go`, `nexusapp/app.go` | none of its own | a periodic pass over connected nodes: fetch, record, acknowledge; shutdown | an acknowledgement that is lost, a node that goes away, a database that closes | acknowledged implies recorded; every outcome is eventually recorded |
| **Bridge hub** `agentdock/connections.go` | connections, their pending calls, the published connection of each node | accept, disconnect, read loop, call, replace | a reconnect that races calls and clean-up of the old connection | each call ends once, by its own connection; a late clean-up takes nothing from a successor |
| **Node registry** `agentdock/nodes.go`, `httpx/agentdock_nodes.go` | nodes, pairing codes, device tokens, Hello columns | pairing code, pair, authenticate, hello, patch, delete | overlapping PATCHes and handshakes | a disabled node is cut off |
| **Project and deployment store** `project/store.go` | desired and applied revision of each deployment, node session configuration | create, update, mark pending, record result, remove | results that come late or not at all | applied never claims a revision the node was not given |
| **Reconciliation** `httpx/projects.go` | per-deployment locks | push to the node, retry on Hello, removal while offline | two pushes at once; a node that disconnects halfway | the node converges to what is desired |
| **WorkSessions and WorkTargets** `project/session.go`, `httpx/mcp_projects.go` | sessions, their targets, bindings | project_open, node_open, project_context, revoke, delete | a node call between the check and the write | nothing runs under a configuration or access that was replaced |
| **MCP gateway** `httpx/mcp_gateway.go`, `httpx/mcp_context.go` | the setting of MCP Apps | admission and routing of a tool call, registration of tools, fleet context | state that changes between admission and call | no call on a target that is not current; each answer is of its own node |
| **Tool contracts** `httpx/mcp_tool_contract.go`, `agentdock/published_contracts.go` | live and stored snapshots, published merges | merge, publish, withdraw | several nodes change at once | a published contract holds of every node that provides the tool |
| **Context delivery** `project/delivery.go`, `httpx/mcp_project_delivery.go` | what context each client has been handed, and acknowledged | returned, consumed | calls that overlap, an older revision acknowledged late | consumed implies acknowledged |
| **OAuth** `auth/oauth.go` | clients, codes, grants, refresh history | register, authorize, exchange, refresh, revoke, prune | a code or a refresh token used twice | misuse ends the grant; pruning spares what is in use |
| **Web sessions, MCP token** `auth/web.go`, `auth/mcp_token.go` | the administrator, sessions; a token file and its copy | initialise, login, use, logout, revoke, replace the password; create and reset the token | statements that overlap; a crash between file and copy | what was ended stays ended; the token given out last is the one in force |
| **Workflow templates** `httpx/workflow_template_registry.go` | files of versions, a vector index | publish, retire, list, reindex | a crash or failure between two files | one active version, always one |
| **Recall** `recall/*.go`, `httpx/mcp_gateway.go` | Markdown documents, lifecycle records | edit sections and facts, start index, lifecycle operations | an edit of what has changed since it was read; repeated requests; quotas | edits stay in their section; an operation is applied once; what the quotas and the budget leave out shows |
| **Recall embeddings** `recall/embedding.go` | the embedding index | reindex, search, parse answers | overlapping reindexes, a document or model that changes, answers in any order | a score is of the text and by the model it claims |
| **Private notes** `privatenotes/store.go` | plaintext notes and encrypted backups, the identity | write, delete, encrypt all; list, search, read | failure and crash between two files; paths | the backup opens and is the note; every note is found |
| **Versioning** `versioning/versioning.go` | a git work tree, index and history | record a version, undo staging, guards | git commands of several handlers interleave | what succeeded is in a version, private files never |
| **Settings** `settings/runtime.go`, `httpx/runtime_settings.go` | settings row, sealed API keys, key file, prompt | start, show, save | two servers on one directory; a save of what another changed | keys open and are as last given; nothing unseen is replaced |
| **Evolution (stage 3)** `httpx/evolution_stage3.go` | settings in memory, the scheduler, proposals | save, wake, run, propose | a wake-up lost, two saves applied in the other order | it runs by the saved settings; evidence stays with its node |
| **Artifacts** `httpx/artifacts.go` | links, download slots | sign, open, stream | a node that fails or changes the artifact halfway | a body of the announced length is the artifact |
| **Runtime API, audit log, schema, result shaping, web interface** | - | forwarding, appending, migrating, formatting, rendering | - | not modelled, see section 6 |

All paths are below `src/internal/`.

Interactions: the collector asks the hub for a node's outcomes and hands them to the
continuation store, which acknowledges only what it committed; the continuation store
reads the targets, deployments and nodes that the project store owns when it decides
whether a wake is still valid; reconciliation writes deployments and revokes targets;
the gateway reads targets and calls the hub; a handshake of the hub stores the node's
row and publishes its tools to the gateway's catalog; stage 3 reads the settings and
asks the registry which nodes may review.

## 2. Modules

| Module | Models | Proofs |
|---|---|---|
| `OutcomeDelivery` | abstract: what continuation promises about one command outcome | |
| `Continuation` | the continuation protocol; implements `OutcomeDelivery` | `ContinuationProofs` |
| `DeploymentSync` | how the Deployments of one node reach it: store, handlers, lock, reconciliation, connection | `DeploymentSyncProofs` |
| `WorkTargets` | sessions and Targets: what opens, prepares, revokes and admits | `WorkTargetsProofs` |
| `NodeCall` | abstract: what a call of a node promises its caller | |
| `BridgeCalls` | the calls over one connection; implements `NodeCall` | `CallsProofs` |
| `NodeRegistry` | pairing, rows, handshakes, publication and clean-up of connections | `AccessProofs` |
| `OutcomeCollector` | rounds, workers, shutdown of the collector | `CallsProofs` |
| `ToolCatalog` | merging, publication and registration of node tools, the Apps setting | `DataProofs` |
| `OAuthGrants` | clients, codes, grants and refresh tokens | `AccessProofs` |
| `WebSessions`, `AccessToken` | browser sessions and the password; the token file | `AccessProofs` |
| `ContextDelivery` | context deliveries of a session | `StoreProofs` |
| `ContextFleet` | the context gathered from all nodes | `StoreProofs` |
| `PrivateNotes`, `NoteSearch` | notes and their backups; paths, listing and search | `StoreProofs`; `DataProofs` (search) |
| `Versioning` | recording of versions by several handlers | `StoreProofs` |
| `TemplateRegistry` | publication of a template, its vectors | `StoreProofs` |
| `RecallIndex`, `EmbeddingAnswers`, `EmbeddingBatches` | index and search; parsing of answers; the workers of a reindex | `StoreProofs`; `CallsProofs` (workers) |
| `RecallEdits`, `ContextIndex`, `LifecycleRecord` | edits of a document; the index a session starts with; lifecycle operations | `DataProofs`; `StoreProofs` (operations) |
| `RuntimeSecrets` | settings row, API keys, key file, prompt | `StoreProofs` |
| `Evolution`, `Proposals` | the scheduler of stage 3 and its settings; whom a proposal goes to | `StoreProofs` |
| `ArtifactDownload` | links, slots and the stream of a download | `StoreProofs` |
| `MCContinuation`, `MCDeploymentSync`, `MCWorkTargets`, `MCToolCatalog` | instances for TLC of one module | |
| `MCCalls` | instance of `BridgeCalls`, `OutcomeCollector`, `EmbeddingBatches` | `CallsProofs` |
| `MCControlPlane` | instance of the eighteen parts with a state of their own | `ControlPlaneProofs` |
| `MCDocuments` | instance of `RecallEdits` and `ContextIndex` | |

`DeploymentSync`, `WorkTargets` and `NodeRegistry` compose components: the first has the
project store, the handlers, the reconciliation, the operation lock, the connection and
the node in one state; the second has the gateway, the session tools and the operator's
handlers; the third has the registry, its HTTP handlers and the hub.  The parts of
`MCControlPlane`, `MCCalls` and `MCDocuments` share no state in the program either, and are put into
one instance only so that one run explores them, one part at a time.

In the modules, an operator with `\* Mutant:` above it is a definition as a plausible
mistake would have it; it is used by no action.  It stands before the definition it
would replace, and with it in that place TLC finds the property violated.

### Continuation

One WorkSession.  The variables are the parts of the stored document, the receipts,
the environment and two pieces of history:

| Variable | In the code |
|---|---|
| `ctl` | `continuationDocument.State`: enabled, phase, rounds used and allowed, failures counted and allowed, awaited sources |
| `ep` | `continuationDocument.Endpoint` and the binding: generation, holder, lease, the user's consent |
| `state`, `stamp`, `held` | a wake's `State`, `ControllerGeneration`, `Sources`; wakes are numbered in the order they are created, `"none"` is one not created yet and `"gone"` one that compaction has pruned |
| `att` | the latest attempt of a wake (`attemptForWake` looks from the end): its number, its view, whether it is prepared, finished, consumed, and whether its consume credential is still valid |
| `receipt`, `rank` | rows of `command_source_receipts`: `eligible` 1 is `"stored"`, 0 `"settled"`, 2 `"expired"`; `rank` is the order of `received_at, event_id` |
| `usable`, `stale` | targets that pass `validateContinuationTarget`; outcomes whose context revision is no longer their target's |
| `mail` | history: every message that `prepare` returned. It is never emptied: a message may reach the host at any time, or twice, or never |
| `returned` | history: how often each outcome was handed out by `consume_work_wake` |

An action is a transaction.  It computes the document after the expiry pass (`Seen`,
`SeenCtl`), applies its guard to that, changes it, and saves it compacted (`Save`); a
call that is refused is rolled back with its expiry pass and is therefore no step.
`Poll` is `status` or a view's `state`, which save only if something expired.  Calls
that the code answers without changing anything but the expiry pass (settling a
settled wake, acquiring a wake the same view has already claimed, repeating `finish`)
are `Poll`.  The callers are adversaries only in timing: every view may use any
generation and any attempt number that ever existed, so late and repeated calls are
ordinary inputs.

Deadlines are countdowns: a deadline of now + D is a timer set to D that `Tick`
lowers, and it has passed at 0.  Only the order of deadlines matters to the document,
and the instances give them different lengths.  A restart of NexusDock needs no action:
the document and the receipts are in the database and the process keeps nothing else
about them.

Left out, and why it does not matter to the properties: texts of errors and
timestamps; attempts before the latest (the code never reads them); `attempt.State`,
which no guard reads; the encoding of outcomes (`Oversized` names the sets whose
encoding would exceed the limit of a batch); receipts that name no target of the
session; an authenticated session owner (the caller has been identified before).  A
report records one outcome, the code records a batch of them in one transaction: every
prefix of a batch is a batch the node could have sent.  The retention window of a node
(its newest 1024 receipts, or 30 days) is a prefix of the arrivals chosen freely with
every report.

### OutcomeDelivery

Each outcome moves forward through running, stored, queued, offered, delivered, done
(or expired, or dropped by a person), and a batch leaves the queue only when nothing
is offered or delivered and unsettled.  `Continuation!Status` is the refinement
mapping, and `Delivery` says that every behaviour of the protocol is one of this
specification: no sequence of expiries, retries, recoveries, prunings and repeated
reports ever moves an outcome back.  `Delivery` also says to whom: an outcome is put into a
message, and later handed to the model, only while its target is usable and still in the
context of the command (`NothingFromGoneContexts`).  The target may be revoked or move
between any two of these steps; both look again (`Valid`).

### DeploymentSync

One node and its Deployments.  A *worker* is a goroutine in a handler, and each of its
database statements, the acquisition of the operation lock, the Bridge send and the
answer is a step of its own:

| Variable | In the code |
|---|---|
| `row` | a row of `project_deployments`: `desired_revision`, `applied_revision`, `enabled`, `apply_status`; `"none"` is a Deployment not created yet, `"gone"` a deleted one |
| `removal` | `project_deployment_removals` |
| `settings` | the node's `enabled` and `full_access` columns |
| `online`, `wire` | the hub's connection of the node and the requests on it |
| `held` | external: the revision a node holds of each Deployment and whether it was sent with Full Access; revision 0 is nothing |
| `lock` | the operation lock `deployment_apply` of a Deployment |
| `pc`, `task`, `todo`, `listing`, `view`, `patch` | where a worker is; the Deployment and revision it read; the rest of its list; whether `reconcileProjectNode` has still to list the rows; the node row it read last; its PATCH body and the `previous` row |

| Actions | In the code |
|---|---|
| `Create`, `Update`, `Reapply`, `Delete` | the first statement of the four HTTP handlers, with a current `expected_revision`; a stale one changes nothing |
| `Lock`, `Reread`, `ReadNode`, `Check`, `Defer`, `Miss`, `Send`, `RecordApply` | `tryApplyProjectDeployment` in its order |
| `Check`, `Miss`, `Send`, `RecordRemoval` | `tryRemoveProjectDeployment`, which takes no lock |
| `Connect`, `NodeUpdated`, `ListRows`, `Pick` | `Hub.Accept` and a changed `node.updated`, each of which starts a `reconcileProjectNode` |
| `StartPatch`, `ReadCopy`, `WriteCopy`, `ReadResult`, `React`, `ListForAccess`, `BumpRow` | `agentDockNodeUpdate`, `Store.Update` and `reapplyProjectDeploymentsForNodeAccessChange` |
| `Handle`, `Cancelled`, `Reply` | the node handles requests in order, or cancels one whose sender gave up; the read loop passes the answer on |
| `Disconnect`, `Timeout`, `Abort`, `Refuse`, `Restart` | faults: the connection breaks; the 15 seconds pass; the handler's context ends; the node answers an error; the server stops and starts |

What is abstracted.  The configuration of a Deployment is its revision: only statements
guarded by the revision change the fields, and each of them raises it.  A connection
that replaces another is `Disconnect` then `Connect`.  The hub forgets the requests of a
connection that is gone, and the model lets the node forget them too; what it has
already handled it keeps.  `Accept` checks `enabled` and publishes in one step here: the
race between the two is in `NodeRegistry`.  Revocation of Targets on the
way from an update to its apply changes nothing these properties look at (it is in
`WorkTargets`).  A Project has at most one Deployment on a node, so the deletion of a
Project is a `Delete` of it.

### WorkTargets

One Project with its Deployments, sessions and Targets; `kind` says whether it is a
user's Project or the container of a node's temporary sessions, which are created and
deleted by different handlers.  A worker is a goroutine in a handler; every read and
every write of the database is a step, and so is every exchange with the node.

| Variable | In the code |
|---|---|
| `project`, `row` | the row of `projects` and those of `project_deployments`; `synced` is `apply_status` and `applied_revision` in step with `desired_revision` |
| `fullAccess` | the node's `full_access` column |
| `session`, `target` | `work_sessions`, named by owner and `client_request_id`, with what the request selected (its hash); `work_targets`, unique for a session and a Deployment, with status, `deployment_revision` and the Full Access of its permissions |
| `lock` | the operation lock `node_open` |
| `pc`, `job` | where a worker is, and what it has read so far |
| `confirmed`, `withdrawn` | history: revisions that were ever applied; Targets that a revocation has marked |
| `job.floor`, `job.seen`, `job.late` | history of a call: the revision desired when it arrived, the values of `fullAccess` since, whether its Target had been revoked by then |

| Actions | In the code |
|---|---|
| `OpenProject`, `ReadProject`, `ListDeployments`, `BeginWorkSession`, `Prepare`, `Bind`, `Put`, `ListResults`, `Refresh` | `callProjectOpen` |
| `OpenNode`, `ReadNode`, `ReadConfiguration`, `Lock`, `BeginWorkSession`, `ListTargets`, `Reserve`, `Prepare`, `Bind`, `Put`, `Refresh` | `callNodeOpen` |
| `ProjectContext`, `ReadSession`, `ReadTarget`, `ReadNode`, `ReadProject`, `ReadRow`, `ReadAccess`, `Bind`, `Put`, `ListResults`, `Refresh` | `callProjectContext` |
| `CallTool`, `ReadTarget`, `ReadNode`, `ReadProject`, `ReadRow`, `Send` | `callNodeTool` |
| `DisableProject`, `EnableProject`, `DeleteProject`, `CreateDeployment`, `UpdateDeployment`, `DeleteDeployment`, `PutNodeSession`, then `Revoke` | the operator's handlers |
| `PatchFull`, `ListForAccess`, `BumpRow`, `Revoke`, `RevokeFails` | a PATCH of Full Access |
| `DeleteNode`, `Revoke`, `Clean` | `agentDockNodeDelete` |
| `RecordApply` | an apply of `DeploymentSync` that records its result |
| `Abandon` | a handler's context ends, or the server stops and starts, between two statements |

What is abstracted.  Prompts, working directories and context revisions, which no check
of the gateway reads; so `project_context` keeps its Target's revision and gives it a new
status and new permissions.  Control calls (list, kill, close, cancel) are let through
on any stored Target and write nothing.  The revocation sent to a node is best effort:
`Bind` may succeed or fail whatever the node was told.  Whether a node is enabled,
current and online is an answer a handler gets when it asks, either way.  How a
revision gets to a node is `DeploymentSync`.  A container that is created after one was
deleted is another Project.  `running` and `idle`, which nothing in the code sets, are
left out; so is `completed`.

### BridgeCalls and NodeCall

One connection and the calls over it (`Hub.Invoke`, the read loop, `close`).  A call adds
its result channel to the pending map under the mutex, writes the request and waits;
`Resolve` and `Close` take the entry out of the map under the mutex and hand the result
over after they have released it, so `hands` holds what has been taken and not been sent.
`Deliver` is that send to the channel of capacity one.  The node is external: it runs a
request unless its cancellation came first, and may answer twice, late, or never.
`NodeCall` is the promise: a call ends once, an operation is carried out at most once, an
answer implies that it was, an error says nothing, and a call to a broken connection
ends.  `CallsAreAnswered` is that specification, its fairness included.

### NodeRegistry

Rows of nodes with their pairing codes and device tokens, connections from dial to
clean-up, and the HTTP handlers.  A handshake (`Dial`, `HelloCheck`, `HelloStore`,
`HelloReady` or `HelloUnready`) and a later snapshot (`UpdateCheck`, `UpdateStore`) hold
the node's snapshot lock over several steps; PATCH (`PatchRead`, `PatchWrite`,
`PatchReread`, `PatchCut`) holds nothing, reads the row, writes back every column it read,
reads it again and decides from that whether to disconnect.  `listed` is which nodes the
tool catalog knows.  A handler may end after its write (`PatchAbandon`, remembered in
`forsaken`).  The tools themselves are in `ToolCatalog`, Full Access in `DeploymentSync`.

### OutcomeCollector

The collector's rounds over connected nodes, its `Slots` workers (`Read`, `Record`, `Ack`),
the shutdown that stops it, waits, and closes the database, and a process that dies.  The
node (external) reports its oldest outcomes first and forgets what is acknowledged; its
outbox is a set of events, and `born` gives the order in which they came about.  An
outcome whose session was deleted (`Orphan`) is recorded as not eligible.  What the store
makes of an outcome is in `Continuation`.

### ToolCatalog

Every connection brings the contracts of its tools.  A reconciliation of a name merges the
contracts of the nodes that are connected (`MergeFleet`), publishes the merge, withdraws it if
they conflict, saves it (`Persist`, which may fail) and registers the tools as the Apps
setting shows them (`Face`); a restart begins with the saved contracts.  A contract is its
schema, visibility, meta, binding and safety hints; titles are left out.  A change of the
setting stores it, and then registers all tools by its own argument.  `MergeFleet` goes through
the contracts in the order of the nodes, as a recursive function, and so do `Clean`
(`NoteSearch`), `LevelIn` (`RecallEdits`) and `EncodedLength` and `AppendItems`
(`ContextIndex`) through theirs; the proofs are about these functions.

### OAuthGrants, WebSessions, AccessToken

`OAuthGrants`: each operation is one transaction of `auth/oauth.go`.  Any code or refresh
token that was ever issued may be presented at any time, because answers are lost and
clients retry.  `misused` remembers the grants for which that happened within its expiry.
Requests for another client, resource or verifier are refused and left out.

`WebSessions`: the statements of login, use, logout, revocation and of the change of a
password, each a step; `over` is what somebody was told has ended, `revived` what answered
a request that began after that.

`AccessToken`: the token file is written, synced, renamed, and the copy in memory replaced;
the process may die between the steps.  `told` is the token the operator was given last.

### ContextDelivery, ContextFleet

`ContextDelivery`: a call acknowledges what the host names, reads the context, records that
it returned it, and answers, each in its own statement, and calls overlap.  `acked` is
history: the revisions that the host has acknowledged.  `Record` is the upsert; the code
reads the row once more after it, so that its answer may carry the status of another
revision when two calls overlap.  The model does not follow that last read: `says` is the
status prepared with the context.

`ContextFleet`: `agentdock_context` lists the nodes once, gives those it can ask to a
bounded number of workers, and each worker writes its own position of the answer.  The
queue is the set of positions nobody has taken: the workers may finish in any order, so the
order in which they take them tells nothing.

### PrivateNotes, NoteSearch

`PrivateNotes`: a write replaces plaintext, then backup; a deletion removes both; an
encryption of all notes goes through them; each replacement may fail and is then rolled
back, which may fail too (`torn`), and the process may die between any two.  The cipher is
external: a backup is its content and the key it was made for.

`NoteSearch`: how a path is normalised and what makes it a note, the walk that listing,
search, status and encryption share, and the match of words.  The metadata block of a note
is closed, damaged or too long: `Write` does not bound it (store.go:708), and one such note
makes listing, search and encryption fail as a whole; the model has that as the code has it.
A search answers the best of its matches, as many as were asked for: a number outside
1..`MaxSearchResults` becomes `DefaultResults` (8 in the code), and what lies behind the
limit is cut off without a mark.  A match is scored by the fields that have the word; the
code orders equal scores by path, which the model leaves open.  So `NotesAreFound` does not
promise that every note with the word is answered: it promises that an answer below its
limit has all of them, and that a note with the word in its title is never cut off for one
that has it in its summary only.  Only listing, which backups are made from, has every note.

### Versioning

The data repository as three maps from files to contents: work tree, index, last version.  A
handler changes files and records a version by a row of git commands (status, guard, add,
guard, commit, ...), each under the mutex and others in between; commands may fail, and the
operator may edit `.gitignore`.  git is external: staging and committing are copies between the maps.

### TemplateRegistry

One template: a file per version, the version being published, what is still to be retired
and what a rollback would put back, and the vector index with its reindexes.  A write may
fail before or after it changed its file; the process may stop anywhere.

### RecallIndex, EmbeddingAnswers, EmbeddingBatches

`RecallIndex`: documents, the configured model, the index, reindexes and searches.  A vector
is modelled as what it was computed from: model and text.  A reindex lists, loads the old
index, reuses, embeds, and writes whole; a search scores what it loaded and reads each
document again.  `EmbeddingAnswers`: the three shapes of an answer, with and without an
index beside each vector, for both users of the service.  `EmbeddingBatches`: the
goroutines of one reindex with their unbuffered channel, failure and cancellation.

### RecallEdits, ContextIndex, LifecycleRecord

`RecallEdits`: a document is a sequence of headings and facts; an edit reads the document,
computes the new text and writes it whole or shows a preview.  A patch replaces a text
literally, then the lines below a heading, then appends, any of the three or all; an update
sets the facts of one key or of several, in a section or in the whole document.  What a
patch puts in is inserted verbatim, with any lines and any headings (edit.go:69).  The text
that is replaced literally is a whole line here; the code replaces any substring.

What the code does with a heading in such a text is modelled as it is, and `EditsAreLocal`
says how far locality goes.  In every case the lines below the heading, and no others, are
replaced by exactly what was given.  But a heading of the section's level or above, in the
body, ends the section there: the lines behind it belong to another section from then on.
Only if the body has none (`Deeper`) are the lines outside of the section the same as
before, and that is what is claimed.  The same goes for a value of a fact that has headings
in its further lines.

Two more things are modelled as they are and no property speaks against them.  The comment of
`UpdateMarkdownFacts` says that facts are updated only inside the section that was asked
for; when there is no such section the code appends one at the end (edit.go:146), so the
property speaks of sections that exist.  And an edit writes the text it computed over
whatever the document has become since (mcp_gateway.go:721): the properties are about
the text that was read, `base` or `was`, not about the text that is overwritten.

`ContextIndex`: the categories in their order, each looked for in its folders, filtered,
sorted, cut to its quota and appended within one budget of bytes, and the mark of omissions.
A folder is listed by a walk in the order of its paths, which counts folders and files of
other types too (`"other"`) and stops at `ListLimit` entries (1000 in the code,
context_index.go:223 and 293, store.go:163).  That cut leaves no mark, so an index without
one may lack documents; `OmissionsShow` claims the rest: whatever is missing without a mark
has at least `ListLimit` entries before it in its folder.  The walk orders a folder before what
is in it and names by their bytes; here it is any fixed order (`PathOrder`).  The profile and
the project's own documents, which come before the categories and have no quota, are left out.

`LifecycleRecord`: one record, its revision and its last applied operations; any request
may arrive any number of times and at any time.

### RuntimeSecrets, Evolution, Proposals

`RuntimeSecrets`: servers that start over one data directory and make or find the key file,
browsers that show and save settings, the row, the sealed keys and the prompt.  `given` is
what each key was last set to; `unseen` is a save with a revision that replaced what its
browser had not seen.  Sealing is external: a sealed key is its master key, name and value.

`Evolution`: saves of the stage 3 settings, their application under `aiApplyMu`, the wake-up
channel and the scheduler with its clock.  `Proposals`: for each candidate of a run, which
references are valid, whose they are, and the node it is proposed to.

### ArtifactDownload

Signing and opening of a link, the slot of the node, the first chunk, further chunks held
back by one, and the checksum at the end.  The node may answer any chunk of the right shape;
a byte is modelled as the content it belongs to.

## 3. Runs

| Run | Instance | What it shows |
|---|---|---|
| `continuation_views` | 2 sources, 2 views, 2 generations, 2 wakes claimed once each or 2 attempts of one | a message that may still be redeemed always finds what it is compared with (`EnvelopeHonoured`), no wake has two messages, one wake is in flight at a time (`SingleFlight`), and all open wakes have the current generation; types |
| `continuation_outcomes` | 2 sources, 2 wakes, settled wakes pruned at once, retention, a target that may move or be revoked, limits changed by enable | delivered at most once; while it is owed, stored and queued (`NoOutcomeLost`); sources frozen at the fence; the refinement of `OutcomeDelivery` and nothing from a context that is gone (`Delivery`) |
| `continuation_failures` | 1 source, 2 views, 2 attempts | finding: one dispatch may cost two failures (section 5) |
| `sync_rows` | 1 Deployment, 3 workers, 3 revisions, 2 faults of any kind | a row that says applied is current (`StatusIsCurrent`) and is what the node holds (`AppliedIsHeld`) |
| `sync_reconnect` | 1 Deployment, 2 workers, 2 revisions, Full Access PATCHes, one disconnect or restart | liveness: every revision is applied or superseded, every removal is acknowledged (`NodesCatchUp`) |
| `sync_access` | 1 Deployment, 2 workers, 3 revisions, Full Access PATCHes, no fault | finding: Full Access off, every row applied, and the node still has Full Access (section 5) |
| `targets` | a user's Project and a node's container, 1 Deployment, 2 revisions, 1 session, 2 workers, 1 handler that ends early | no call under a configuration that was replaced before it arrived (`NoStaleRouting`), nor under a Full Access that was not in force since (`AccessIsCurrent`); ready means acknowledged (`ReadyWasApplied`); a deleted node leaves nothing behind (`DeletedNodeIsClean`); an interrupted `node_open` is resumed (`ResumedIsPrepared`); types |
| `targets_revoked` | a user's Project, 1 revision, no fault | finding: a revoked Target is executed again (section 5) |
| `calls` | 3 calls of a connection; 2 nodes, 2 outcomes (one of a deleted session), 1 slot, batches of 1, 2 faults; 4 batches, 2 workers | no send to a result channel can block (`NoSendBlocks`), `BridgeCalls` implements `NodeCall` with its liveness (`CallsAreAnswered`); an outcome is never lost (`NothingForgotten`) and is recorded and acknowledged in the end (`OutcomesCollected`); a reindex comes back (`EmbeddingEnds`) |
| `control_plane` | eighteen parts, see below | thirteen properties, see below |
| `documents` | edits: every document of at most 3 lines with 2 levels of headings, 2 headings, 2 keys and 2 values, 1 edit at a time; index: 3 files of 2 categories, quota 1, 2 read of one, listings of 2 entries, 6 bytes | an edit replaces its section and nothing else, as far as headings in it allow (`EditsAreLocal`); what the index leaves out shows, but for what the listing cut off (`OmissionsShow`) |
| `apps` | 1 tool for Apps only, 2 overlapping changes of the setting | finding: the tools do not follow the setting (section 5) |

The run `control_plane` explores one part in each behaviour:

| Part | Instance | Property |
|---|---|---|
| registry | 1 node id, 1 device, 1 pairing code, 2 connections, 2 handlers | `DisabledIsCut` and `CatalogMatches` in `ConnectionsAreCurrent`: a node disabled by any overlap of PATCHes, handshakes and snapshots loses its connection, and a late clean-up takes nothing from a successor |
| catalog | 2 nodes, 1 tool, 3 contracts, two compatible and one in conflict | `CatalogIsTrue`: when all is quiet, what is published is the merge of what is connected, and holds of each node |
| oauth | 2 clients, 2 grants, limit of 1 client, lifetimes 1, 1, 2, idle 3, 5 ticks, 2 rotations | `MisuseEndsGrant` in `AccessEnds`; `PruningSparesLive` |
| web | 2 sessions, 2 requests, windows 2 and 3, 3 hours, 1 password change | `EndedIsFinal` in `AccessEnds` |
| token | 3 tokens | `TokenKept` in `FilesSurvive` |
| notes | 2 notes, 2 texts, 2 keys, 1 creation of each path | `BackupsRecover` in `FilesSurvive` |
| search | paths of at most 2 segments (directory, hidden, `..`, file), 2 notes, 1 or 2 results | `NotesAreFound` in `FilesSurvive` |
| versions | 1 public and 1 private file, 2 contents, 2 handlers | `VersionsAreComplete` |
| templates | 3 versions, 2 bodies, 2 reindexes | `PublishIsAtomic`; `VectorsMatch` in `ScoresAreTrue` |
| recall | 2 documents, 2 models, 1 reindex, 1 search | `HitsAreTrue` in `ScoresAreTrue` |
| answers | batches of 2 texts, vectors of length 1 or 2 | `VectorsOfTheirText` in `ScoresAreTrue` |
| lifecycle | 3 operations, 2 wishes, 2 operations kept, 4 transitions | `AppliedOnce` |
| fleet | 2 nodes, 1 worker | `EntriesAreTheirOwn` in `AnswersAreHonest` |
| artifacts | 2 downloads, 2 contents, 2 chunks of 1 byte, 1 slot | `WholeOrAborted` in `AnswersAreHonest` |
| delivery | 2 Targets, 2 revisions, 2 overlapping calls | `ConsumedWasAcked` |
| evolution | 2 editors, 2 intervals, 2 saves, 3 ticks | `SchedulerFollows` in `StageIsSafe` |
| proposals | 2 nodes, 2 references | `EvidenceStaysHome` in `StageIsSafe` |
| settings | 2 servers, 2 browsers, 2 keys, 1 review node, 2 saves of 4 kinds | `SecretsOpen`, `NothingUnseen` in `StageIsSafe` |

`ControlTypeOK` holds the types of the part that is explored.  The combined properties put
together what is promised of the same thing in several components (what ends stays ended,
what files hold after a failure, what a score is of); each conjunct speaks about one part
and is evaluated in all of them.  The same model values serve several parts, so that the
symmetry of two pairs of values is used in all of them; where an order is chosen (nodes of
a merge, notes, documents) the values have no symmetry.

Three of these instances are narrower than their modules, and what they leave open rests on a
theorem: overlapping reindexes of Recall on `HitsOfTheirText`, several workers of one fleet
context on `EntriesOfTheirNodes`, a deletion below the limit of `BulkFiles` and files of the
runtime on `RecordedMeansVersioned` (the run has `BulkFiles` 1, so that the guard refuses
every deletion, and no such file).

Bounds of `Continuation`.  A wake needs a source of its own, so as many wakes as sources never run out.
Two sources are enough for a batch of two, for two wakes, and for an outcome that
arrives after the fence of another; two views and two generations for every race
between a current and a former controller; two attempts for a claim that lapses, or a
message whose deadline passes, and is taken again.  `continuation_views` claims a wake again only while the
other has never been claimed (`RetriedAlone`): two wakes, each claimed once, and two attempts of
one wake are both in it, and the theorems cover the rest.  `continuation_outcomes` has one view,
since who controls changes nothing about which outcomes a wake holds.  `MaxClaims`, `MaxGenerations`, `MaxWakes` are bounds of the model (they
stand in guards, or in the set of wakes), and so are `Ticking` and `Movable`, which
switch parts of the environment off; the theorems hold for every value of them.  No
deadlock is checked for: a session that has used its rounds may stop.  No fairness is
assumed: these are safety properties, and a person or a host may never come back.

Bounds of `DeploymentSync`.  Rows, locks and revisions of different Deployments do not
meet: a worker has one Deployment in hand at a time, and only the connection and the
node's switches are shared; one Deployment is enough to see every interleaving of its
own handlers.  Three workers are an update, a second update or retry that overtakes it,
and a reconciliation; three revisions are two that may be confused and one that
supersedes both.  `MaxRevision` stands in a guard that leaves every PATCH under way one
revision of each row (`CanGrow`), so that no handler is cut off halfway by the bound.
The runs find no deadlock.

Bounds of `WorkTargets`.  Each property but one is about one session's Target of one
Deployment, and handlers of other sessions or Deployments touch neither.  Two workers
are every pair of handlers: a client's against an operator's, two opens, a call against
either; each may do its work many times over, and one that ends early anywhere leaves
what it has written to the next.  Two revisions are the one a Target was prepared from
and the one that replaced it.  `MaxRevision` leaves every Full Access change under way
one revision of each row, as in `DeploymentSync`.  A session with several Targets, and
so the status `partial`, is not reached in these runs; the theorems hold for it.

Bounds of `calls`.  Three calls are one that is answered, one that is given up and one
that meets the close.  One slot for two nodes and batches of one make the second node
wait for the first and the second outcome for the one in front of it, which is of a
deleted session.  `MaxFaults` counts lost connections, crashes, calls and transactions that fail.  Four
batches for two workers let both fail while the sender still has one to offer.  The run may
stop where everything is done, so deadlock is not checked.

Bounds of `control_plane`.  Two of what races (connections, handlers, requests, reindexes,
servers, editors) and one more of what is chosen among (tokens, versions, operations).
Bounds in guards are `MaxTime`, `MaxRotations`, `LastHour`, `MaxPassword`, `MaxCreated`,
`MaxContent`, `MaxRevision`, `MaxSaves`, `MaxNow`, `MaxProposals`, `MaxNotes`, `MaxUpdates`
and `LastStep`; the others are limits of the code, made small (a quota of 1, a
client limit of 1, two kept operations, two chunks), so that each is reached.

Bounds of `documents`.  Three lines are a heading, a line below it and what follows: another
section, a nested one, or a second one of the same name; two levels tell nested from next.
`MaxLines` stands in the guard of a write only, so proposals longer than that are computed
and checked.  The patches of the run have bodies that are empty, a fact, or a heading of
either level with or without a fact below it; one edit at a time is enough, because an edit is
compared with the text it read, and other writes happen between its reading and its writing
(`CreateText`, `DeleteText`).  Three files and listings of two entries are one file that a
listing cuts off, or one that the quota does, or that is not read, or that has no room.  Deadlock
is checked.

Fairness of `DeploymentSync` (`FairSpec`, used by `sync_reconnect` only).  A handler that
can take its next step takes it (WF of `Step`): goroutines run.  A free operation lock
is taken by everyone who keeps waiting (SF of `Lock`): the waiters are senders of one
channel, served in turn.  The node handles what it has received (WF of `Handle`).  An
enabled node dials again and again (SF of `Connect`); no fairness is assumed of
operators, and no fault has to end, but the number of faults is bounded.  The PATCHes
of that run keep the node enabled: the revisions of a node that an operator disables
do not arrive.

Fairness of `calls`.  `BridgeFairness`: a request that has been added is written or fails, a
result that was taken from the map is sent, and whoever waits at a channel with a value
receives it; nothing obliges the node to answer, a context to end or a connection to break.
`CollectorFairness`: the ticker and the goroutines run, a call on a broken connection ends, a
node dials again, and a server that was stopped is started again.  `BatchFairness`: the
goroutines run, and the embedding client has a time limit, so a request is answered or
fails.  No other run assumes fairness.

## 4. Proofs

`ContinuationProofs` proves, for every set of sources, targets and views and every
limit, lease and bound that satisfies `ConstantsOK`:

| Theorem | States |
|---|---|
| `TypeCorrect` | `TypeOK` |
| `FlowCorrect`, `ControllerOwnsWakes` | `SingleFlight`, `BelongsToController` |
| `BooksKept` | `BooksInv`, the inductive invariant about sources, wakes and receipts |
| `NoLostWake`, `RetentionSparesOwed` | `NoOutcomeLost`, and its part `OwedIsKept` |
| `DeliveryKept` | `DeliveryInv`, the inductive invariant about messages and attempts |
| `ReturnedOnce` | `AtMostOnce` |
| `OneEnvelope`, `MessageKeepsSources`, `EnvelopeStaysValid` | `OneMessagePerWake`, `SourcesFrozen`, `EnvelopeHonoured` |
| `OnlyPresentContexts` | `NothingFromGoneContexts` |
| `ContinuationKeepsPromise` | `Delivery`: the protocol implements `OutcomeDelivery`, and both look at the context again |

The argument is in four layers, each inductive relative to the ones below.  *Types*
first.  *Flow*: one wake is in flight, open wakes carry the endpoint's generation, and
a wake that is claimed or past its fence has an attempt of the right shape; the expiry
pass never makes a wake in flight, so every action sees the same invariant after it.
*Books*: a source is in one wake only (merging looks through every wake that is
present, and a wake that is gone has settled receipts, which merging never reads); a
receipt is `"stored"` as long as an open wake holds its source; awaited and stored
implies held.  `AtMostOnce` cannot be inductive without this: once a settled wake has
left the document nothing but the receipt remembers the delivery.  *Delivery*: each
message was prepared by the attempt that its wake still has, a wake with a message is
never claimable again, and the count of an outcome is 1 exactly if its wake's attempt
has been consumed.

The refinement rests on all of them.  `StatusLaw` says of every outcome what its receipt and
the one wake that holds it make of its status (one, by *Books*), so that a step need only
be looked at wake by wake: every transaction leaves each wake in its *group* (queued,
offered, delivered, closed) or moves exactly one of them (`Shift`), and merging only fills
queued wakes.  A wake that is offered is the only one that is out (*Flow*), which is the
guard of `Offer`; a wake that is closed was consumed exactly if it was delivered
(`DeliveredInv` and *Delivery*), which tells `CloseDelivered` from `CloseOffered`; and
retention takes no outcome that a wake holds (*Books*).  A wake that holds nothing moves
without a step of the promise.

The assumptions are `ConstantsOK` and nothing else.

`DeploymentSyncProofs` proves from `SyncConstants`, for every number of Deployments,
workers, revisions and faults:

| Theorem | States |
|---|---|
| `RowsStayCurrent` | `StatusIsCurrent` |
| `InvariantKept` | `SyncInv`, the inductive invariant |
| `AppliedRowsAreHeld` | `AppliedIsHeld` |
| `SyncTypes` | `TypeOK`, with the bounds of the instances |

`AppliedIsHeld` is not inductive: it does not exclude that an older apply, given up on a
timeout but still on the connection, reaches the node after the newer one was recorded.
`SyncInv` excludes it in seven layers.  *Typed*: the types, without the bounds of the
instances.  *Queued*: a handler that waits has one request on the connection, and only
waiting handlers are named there.  *Locked*: an apply that is past the operation lock
holds it.  *Known*: work refers to Deployments that exist or existed, removals only to
deleted ones; so no removal is ever on its way to a row that is live.  *Ordered*: the
request somebody waits for is the last one of its Deployment, because the lock lets
nobody send another; whatever was abandoned lies before it.  *Confirmed*: hence, when
the answer comes, nothing of that Deployment follows it, and until the result is recorded
the node keeps the revision it acknowledged.  *Synced*: of a row in step the node holds
the desired revision, and every request queued, and every apply past its re-read, is for
that revision.  The last clause is where the re-read under the lock is needed: a handler
that waited for the lock must not send the revision it was started with.

`SyncTypes` adds that the bound on revisions is one the handlers respect, so that it cuts
off no step in the middle of a handler.  A PATCH raises the revisions of rows long after it
was admitted, and several may overlap, so `row[d].rev <= MaxRevision` is not inductive.
*Room* is: the revision of a row, and the number of handlers that may still raise it, are
together within the bound.  `CanGrow` asks for room for everyone when a handler starts, and a
handler counts for a row until it has raised it, once (*BumpOnce*).

The assumption is `SyncConstants` and nothing else; it says that there are finitely many
workers at a time, which the counting needs.  That the node handles the requests
of its connection one at a time and in order belongs to the model of the external
node (section 2).  Model-checked only: `NodesCatchUp`, which is
liveness, and the run `sync_access`, which finds a violation.

`WorkTargetsProofs` proves from `TargetConstants`, for every number of Deployments,
sessions, handlers and revisions, for both kinds of Project:

| Theorem | States |
|---|---|
| `TargetInvariant` | `TargetInv`, the inductive invariant |
| `NeverStale` | `NoStaleRouting` |
| `AccessInForce` | `AccessIsCurrent` |
| `ReadyApplied` | `ReadyWasApplied` |
| `DeletionIsFinal` | `DeletedNodeIsClean` |
| `ResumptionPrepares` | `ResumedIsPrepared` |
| `TargetTypes` | `TypeOK`, with the bounds of the instances |

Two of the five properties are inductive once the handlers' notes are known to be true;
all need those.  *Known* says what each handler may rely on.  Of a call: its floor is not
above the revision of the row as long as the row lives (*Floored*), because rows only
grow (`Grows`); the Full Access it has read is one it has seen, and the present one is
among those (*Fresh*).  So the comparisons in `ReadRow` suffice, although the row and the
node's column are read in different statements, and the Target before both.  Of a
handler that prepares: a Deployment read as applied has a revision among the
acknowledged ones, which never become fewer (*Acked*).  *Resuming*: a `node_open` holds
its lock from its first write to its last, so nobody turns the Target that it leaves
back into one that is being prepared.  *RowsSound*: a row in step has been acknowledged.
`DeletedNodeIsClean` is kept because every insert looks for the Project, or for the
session, in its own statement.  `Stepping` carries all of this through one worker's step,
so that each action has only to say what its new notes are worth.

`TargetTypes` is the counting argument of `SyncTypes` again (*Room*), with what the handlers
have noted: whatever has been read of a row, or stored in a Target, is a revision that a row
has had (*Fits*), and a row that exists began at revision 1 (*Started*).

The assumption is `TargetConstants` and nothing else, which includes that there are finitely
many workers at a time.  Model-checked only: the run `targets_revoked`, which finds a
violation.

The other five proof modules prove, from the assumptions on the constants of the modules
they are about and from nothing else, for every number of the actors:

| Module | About | Theorem | States |
|---|---|---|---|
| `AccessProofs` | `NodeRegistry` | `RegistryTypes`, `DisabledNodesAreCutOff` | `RegistryTypeOK`, `DisabledIsCut` |
| | | `CatalogFollowsConnections` | `CatalogMatches` |
| | `OAuthGrants` | `MisuseIsFinal`, `PruningTakesNothingInUse` | `MisuseEndsGrant`, `PruningSparesLive` |
| | `WebSessions` | `EndedSessionsStayEnded` | `EndedIsFinal` |
| | `AccessToken` | `TokenIsKept` | `TokenKept` |
| `CallsProofs` | `BridgeCalls` | `BridgeTypes`, `SendsNeverBlock` | `BridgeTypeOK`, `NoSendBlocks` |
| | | `BridgeImplementsNodeCall` | the safety part of `CallsAreAnswered` |
| | `OutcomeCollector` | `OutcomesAreKept` | `CollectorTypeOK`, `NothingForgotten` |
| | `EmbeddingBatches` | `ReindexIsComplete` | `BatchesComplete` |
| | `MCCalls` | `CallsKeepAll` | `CallsTypeOK` of the three together |
| `StoreProofs` | `RuntimeSecrets` | `SecretsAreReadAsGiven`, `SavesReplaceWhatWasShown` | `SecretsOpen`, `NothingUnseen` |
| | `ContextDelivery` | `DeliveryTypes`, `ConsumptionIsAcknowledged` | `DeliveryTypeOK`, `ConsumedWasAcked` |
| | `Evolution`, `Proposals` | `SchedulerLivesBySettings`, `EvidenceStays` | `SchedulerFollows`, `EvidenceStaysHome` |
| | `Versioning` | `RecordedMeansVersioned` | `VersionsAreComplete` |
| | `TemplateRegistry` | `PublishOneOrNone`, `VectorsOfTemplates` | `PublishIsAtomic`, `VectorsMatch` |
| | `RecallIndex` | `HitsOfTheirText` | `HitsAreTrue` |
| | `EmbeddingAnswers` | `VectorsFindTheirText` | `VectorsOfTheirText` |
| | `PrivateNotes` | `NotesTypes`, `BackupsOpen` | `NotesTypeOK`, `BackupsRecover` |
| | `LifecycleRecord` | `TransitionsApplyOnce` | `AppliedOnce` |
| | `ArtifactDownload` | `BodiesAreWhole` | `WholeOrAborted` |
| | `ContextFleet` | `EntriesOfTheirNodes` | `EntriesAreTheirOwn` |
| `DataProofs` | `ToolCatalog` | `CatalogStaysTrue` | `CatalogIsTrue`, `CatalogTypeOK` |
| | `NoteSearch` | `NotesStayFound` | `NotesAreFound`, `SearchTypeOK` |
| | `RecallEdits` | `EditsStayLocal` | `EditsAreLocal`, `EditsTypeOK` |
| | `ContextIndex` | `OmissionsAlwaysShow` | `OmissionsShow`, `ContextTypeOK` |
| `ControlPlaneProofs` | `MCControlPlane` | `ConnectionsStayCurrent`, `AccessEndsForGood` | `ConnectionsAreCurrent`, `AccessEnds` |
| | | `FilesStay`, `ScoresStayTrue` | `FilesSurvive`, `ScoresAreTrue` |
| | | `AnswersStayHonest`, `StageStaysSafe` | `AnswersAreHonest`, `StageIsSafe` |
| | | `ControlTypes` | `ControlTypeOK` |

The types of the other modules of `AccessProofs` and `StoreProofs` are lemmas there
(`OAuthTypesHold`, `SecretsTypesHold` and so on), and `ControlTypes` rests on all of them.

The assumptions on constants are the `ASSUME`s of the modules. They give the numbers their
domains and keep apart model values that stand for different things; those with more content
say that there are finitely many nodes (`CatalogConstants`, `FleetConstants`), requests at a
time (`Windows`) or downloads (`ArtifactConstants`), where something is counted; that a budget
has room for an empty list and each category is listed once (`ContextConstants`).

`DataProofs` is about computations that go through a sequence step by step.  The induction it
needs is proved in its first section: a set of numbers has a least element (`LeastNatural`,
from the well-foundedness of the natural numbers), hence what holds of 0 and is passed on
holds up to n (`InductionUpTo`), hence a recursive equation has a solution and the function
that TLA+ chooses is one (`RecursionUpTo`).  These are stated of a *set* of numbers and of a
*function* for the step, as the induction theorems of the library, which take an operator,
cannot be used by these provers.  `CatalogStaysTrue` and the others are therefore about
contracts, paths, documents and folders of any size.

What has to be strengthened in each, and why:

- **Registry.**  `DisabledIsCut` alone is not inductive, because a handshake that was checked
  while the node was enabled may publish after the PATCH has committed.  *CutIsDue* says it of
  every disabled node that is connected *or whose snapshot lock is held*: its PATCH is still on
  its way to the Disconnect, which waits for the lock, or was ended before (`forsaken`).
  `CatalogMatches` speaks of nodes whose lock is free; *Wired* says the same while a lock is
  held, and by whom: a handshake or a snapshot of that node.  With it, an open connection is
  the published one (*Serving*), and an id is given out once (*RowsAreSpent*), so that a late
  clean-up takes nothing from a successor.
- **Grants.**  `OAuthInv` ties three tables together: a grant has a code that was used, of the
  same client (*Granted*); the history keeps every generation that may be presented again
  (*History*); a client was used no earlier than what is valid of its grants was given
  (*InUse*), so the pruning by last use cannot take it.
- **Web sessions.**  A request keeps the row it read while others revoke it.  *KnowsRow*
  compares the two: a row keeps its absolute expiry and stays revoked (*GoesOn*), so that
  the refresh by a late request never brings one back.
- **Token.**  *TokenWhere*: resets, starts and stops exclude each other; the file is a token
  that was made from the first start on, and that of a reset from its rename on, not before.
- **Bridge.**  `BridgeInv` follows one value on its way to a call: of the entry in the map, the
  value in somebody's hands and the value in the channel there is one at most (*OneValue*),
  which is what makes a capacity of one enough.  *Carried* says that an answer in any of these
  places is of a request the node has carried out, once.
- **Collector.**  The database is open as long as a worker may record (*WorkersInRound*), and
  what a worker acknowledges is in the store (*StoredBeforeAck*); then an outcome is in the
  node's outbox until it is kept (*NoneForgotten*).
- **Reindex workers.**  A batch that was handed out is embedded or with a worker, or somebody
  has failed; and the sender leaves none unless its context is done (*BatchesAccounted*).
- **Settings and keys.**  Whoever is ready has the key of the file, every sealed key was sealed
  with it and holds what was given last (*KeyHeld*, *SealedAsGiven*); what a browser shows is
  of an older revision or is what is stored (*ShownOrOlder*).
- **Deliveries.**  What a call has established between its comparison and its update
  (*Acknowledging*) is of a revision that was acknowledged, and that set only grows.
- **Stage 3.**  One request applies settings at a time (*OneApplies*); once all that saved have
  loaded, memory holds the row or whoever applies is about to put it there (*MemoryFollows*);
  a scheduler that sleeps by old settings has a wake-up in its channel or somebody who is
  about to put one there (*SleepsBy*).
- **Versions.**  Contents grow older from work tree to index to last version (*NewerAtSource*);
  hidden files are in no list and no index; what a recorder may still rely on at each git
  command is in the index at that point *or the work tree has gone on since*
  (*StagedInOrder*), which is why an overlapping record does no harm.
- **Templates.**  For each stage of a publication, what the files say compared with before it
  (*WritingOnly*, *RetiringSome*, *UndoingSome*, *RemovingOnly*), and what they say when it is
  settled; a body that was listed is that of a file which no publication can remove
  (*ListingInv*).
- **Recall.**  Every index, stored or loaded, holds for each document a vector of some text it
  had, by the index's model (*TrueIndex*); a search remembers every text a document has had
  since it was scored (*Watching*).
- **Notes.**  A half-finished replacement keeps the previous content to roll back to
  (*OpHolds*), and a backup is of the content *before* that operation (*BackedUp*).
- **Lifecycle.**  The applied operations of the record are the newest of its history, all
  different (*NewestApplied*, *Distinct*), and the history has one entry for each revision
  (*OneEach*), so that a repetition which the record has forgotten fails on its revision.
- **Downloads.**  What is sent lags behind what is read, and is less than the announced size
  until everything has been verified (*OneStepLate*).
- **Fleet.**  A worker holds a position of the list and writes only there (*JobsInPlace*,
  *EntriesInPlace*).
- **Catalog.**  `CatalogIsTrue` speaks of the quiet moments and `ToolsInv` of all: of every tool,
  either somebody has still to reconcile it (*Behind*), or what is being published, or is
  published, is the merge of what the nodes provide now (*MergedNow*).  Every change of what a
  node provides leaves the tool to do for that node, so the second case is never entered with
  an old merge; one reconciliation at a time (*OneReconciles*) keeps a late one from
  publishing over a newer.  What is stored is what is published, or is about to be, or could
  not be written (*StoredNow*).
- **Merging.**  `MergeFleetIs` says what the merge of a sequence of contracts is: they agree two
  by two, and it has what they have in common; `AnyOrderMerges`, that the order does not matter
  and only the set of contracts counts; `MergeIsSound`, that the merge keeps its promise about
  each of them (the same callers, no hint of its own, every property with its schema).
- **Search.**  Cleaning leaves a path without dots alone (`CleanPathIsKept`), and the path of a
  note has none left, so that normalizing it again changes nothing (`NormalizedAgain`).  *SearchInv*
  keeps the notes under such paths, and an answer in step with them.  `ScoresShow` says that the
score tells which notes have the word, and which have it in their title; `BestAreHaving`, that
what the limit leaves is of those, and all of them if it leaves room.
- **Edits.**  *EditsInv* says what each edit under way has computed, and of which text.  What
  it claims is then a fact about texts.  Two texts are *Spliced* if they are the same before a
  place and behind one; `SplicedOutside` and `SplicedPlain` say when lines that are put in
  between leave those outside of a section alone.  A section ends where the next heading of
  its level begins (`EndIs`), so a replacement is such a splice (`ReplacedIs`, `ReplacedOutside`),
  and a patch as a whole does what it should (`PatchIsLocal`).  A line that `LevelIn` gives a
  level lies in a section of that name (`LevelShowsSection`), so an updated fact stays in its
  section (`FactStepHolds`); going through the keys one after the other, each update keeps what
  those before it have set, because it touches a line of its own key only (`FactsRun`,
  `FactsAreUpdated`).
- **Index.**  *ContextInv* describes an index half made: of the categories that are done it has,
  without the mark, every document that counts and that a listing must have reached, because fewer than
  its limit come before it (`EarlyAreListed`), and nothing of the others.  One category adds at
  most its quota (*Added*), and `AppendedAll` follows the items one by one; `TakenOf` and
  `SortedAreAll` say that sorting loses and repeats nothing, because every document has a rank
  of its own (`RanksAreOne`).
- **Types with bounds.**  Most types are in the invariants above.  Three need counting again: the
  password was replaced as often as the requests that are about to replace it leave room for
  (*PasswordsBounded*); the slots taken are the downloads that run (*SlotsInv*); the jobs under
  way are no more than the workers (*BusyFew*).  The tables of OAuth refer to clients that are
  registered, of whom there are no more than the limit (*OAuthTables*).

`ControlPlaneProofs` carries the results over to the specification that TLC explores: a step
of the control plane is a step of each part or leaves that part alone.  `CallsKeepAll` does
the same for `MCCalls`.

### What only TLC checks

- Liveness: `CallsAreAnswered` beyond its safety part, `OutcomesCollected`, `EmbeddingEnds`
  (run `calls`), `NodesCatchUp` (run `sync_reconnect`).  TLAPS has no rules
  for fairness and `ENABLED` here.
- The properties of the four runs that find a violation.

Every invariant and every action property of the other runs is stated by a theorem.  The types
of `RecallEdits` and `ContextIndex` are proved (`EditsStayLocal`, `OmissionsAlwaysShow`) and in
no run.

## 5. Findings

`continuation_failures`: the documentation counts one round for each dispatch and
calls `maxFailures` a limit of consecutive failures.  If the deadline of a dispatch
passes while the session is paused, the expiry pass charges a failure and leaves the
phase at `paused`; when the host's receipt `delivery_rejected` of the same attempt
comes, the guard that should prevent a second charge looks at the phase and lets it
through.  One dispatch has then cost two failures and a limit of two is exhausted.

`sync_access`: README.md:171 of the repository says that with Full Access off execution
returns to the permissions of each Deployment.  The PATCH handler decides whether to
apply the Deployments again by comparing the row it read first with the row it read
back.  An off PATCH that has read `full_access = 0` before an overlapping on PATCH
commits sees 0 twice and re-applies nothing, while the on PATCH has the node hold its
Deployments with Full Access.  The rows are all applied, so no reconciliation repairs
it.

`targets_revoked`: the comments of `session.go` (lines 390 and 427) promise that after a
revocation Nexus never routes an old Target, and that a disabled Project's Targets keep
no execution authority.  `project_context` checks Target, Project and Deployment, waits
for the node, and stores the Target as ready with an upsert that looks at its id only.
If the Project is disabled meanwhile, the revocation is overwritten, and so is the
cancelled session; when the Project is enabled again the gateway executes on the Target.
A newer Deployment revision or a changed Full Access would have stopped the call
(`NoStaleRouting`, `AccessIsCurrent`): the Project's own revision is not compared.

`apps`: docs/work-session-continuation.md:170 and the comment at mcp_gateway.go:155 say
that tools for Apps only are taken down when MCP Apps is switched off.
`setMCPAppsEnabled` stores the setting under one mutex and registers the tools under
another, by its own argument.  Of two overlapping requests, on and off, each may be the
last to do one of the two: the setting says off and the tools stay registered.

Things the models reach, against which no document speaks.  `DeploymentSync`: an apply that has
passed its re-read may be sent after the removal of the same Deployment was
acknowledged, and the node then holds a Deployment that has neither row nor tombstone (a
hazard without a property); and a retry of an applied row that a reconnect interrupts
leaves the row `failed`, with the revision in step, until the next Hello.  `NoteSearch`:
one note with an overlong metadata block makes every listing fail, and a search does not say
that it has cut off matches.  `RecallEdits`: an edit writes over what has changed since it
read, and a body with a heading of the section's level moves what follows into another
section.  `ContextIndex`: a folder with more than 1000 entries loses the documents behind them,
without the mark that the index has for every other omission (store.go:163).

## 6. Not modelled

- **Runtime management API** (`httpx/runtime.go`, `runtime_tasks.go`, `runtime_mcp.go`,
  `agentdock_runtime_bridge.go`, beyond the settings): one request is one call to a node,
  and its answer is passed on; nothing is kept.  The calls are `BridgeCalls`.
- **Audit log**: rows are appended and pruned by age; nothing reads them to decide.
- **Schema and database**: migrations, and SQLite's own transactions, which every module
  takes as one step.
- **Outcomes that the store refuses for good** (continuation.go:777-808: an incomplete identity,
  output beyond its limit, a wrong node, an event id used twice).  The transaction fails, nothing
  of the batch is acknowledged, and the collector asks for the same batch in every round, so that
  what is behind it in that node's outbox waits.  A node that keeps the protocol sends none of
  these; `OutcomesCollected` is about such nodes, and a store fails there finitely often.
- **The last read of a context delivery** (mcp_project_delivery.go:113-122): the row is read once
  more after the update, so the answer that is sent may carry the status of another revision.
  `ConsumedWasAcked` is about the rows and about the status that was prepared.
- **Result shaping**, **web interface**, the route table, argument checking, the texts of
  pages, prompts and errors: functions of one input without state.
- Parts of modelled components: names, policies and field validation of Projects and
  Deployments; prompts, budgets and the read-only pages of sessions; redirect URIs, scopes
  and login pages of OAuth; cookies, CSRF and origins; login throttling, which only refuses; the
  manifest of a template; scores by words and the layout of Recall's files; what the
  reviewing model of stage 3 is told; URLs and dimensions of the embedding settings.  These
  are checks of one request, or formatting, and no order or failure reaches them.

The statuses of components in `PROJECT.json` say the same; a component is `partly` modelled
when one of these parts is in it.
