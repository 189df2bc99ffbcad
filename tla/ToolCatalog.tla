------------------------------ MODULE ToolCatalog ------------------------------
(***************************************************************************)
(* The catalog of node tools: every connection brings a snapshot of the    *)
(* contracts of its tools, and each tool is published as the merge of the  *)
(* contracts of the nodes that are connected, or not at all if they        *)
(* conflict.  Snapshots of different nodes, and changes of the MCP Apps    *)
(* setting, run at the same time; a reconciliation and a re-registration   *)
(* hold mcpReconcileMu.                                                    *)
(*                                                                         *)
(* A contract is its schema (required properties, properties with their    *)
(* schemas, other keywords), its visibility ({} if it is not valid), the   *)
(* rest of its execution meta, its display binding and the safety hints it *)
(* gives (readOnly, idempotent, not destructive, not openWorld; a missing  *)
(* hint is the unsafe value).  Titles and descriptions are left out.       *)
(***************************************************************************)
EXTENDS Naturals, Sequences, FiniteSets, SequencesExt

CONSTANTS Provider, ToolName, Contract, Setter,
          NoContract,   \* no contract, and a tool that is not registered
          Nobody        \* a free mcpReconcileMu

(* The contracts that those of nodes may be merged to.                     *)
PropertyNames == UNION {DOMAIN c.props : c \in Contract}
PropertySchemas == UNION {{c.props[x] : x \in DOMAIN c.props} : c \in Contract}
AnyContract ==
  [required : {c.required : c \in Contract},
   props : UNION {[D -> PropertySchemas] : D \in SUBSET PropertyNames},
   other : {c.other : c \in Contract}, vis : {c.vis : c \in Contract},
   meta : {c.meta : c \in Contract}, binding : {c.binding : c \in Contract} \cup {"none"},
   safe : SUBSET UNION {c.safe : c \in Contract}]

ASSUME CatalogConstants ==
  /\ Contract \subseteq AnyContract /\ NoContract \notin AnyContract
  /\ IsFiniteSet(Provider) /\ Nobody \notin Provider /\ ToolName # {}

VARIABLES
  live,        \* mcpNodeTools: the last snapshot of each connected node
  todo,        \* names the snapshot or disconnect of a node has to reconcile
  reconciling, \* the tool and the merge a node's reconciliation works with
  catalogLock, \* mcpReconcileMu
  publishedTools,   \* mcpTools
  registered,  \* the tools of the MCP server
  contracts,   \* agentdock_published_tool_contracts
  unsaved,     \* tools whose last save or deletion failed
  apps,        \* cfg.MCPAppsEnabled
  saved,       \* mcp_settings
  setter       \* requests that change the setting

catalogVars == <<live, todo, reconciling, catalogLock, publishedTools, registered, contracts,
                 unsaved, apps, saved, setter>>

NoTools == [t \in ToolName |-> NoContract]
NoWork == [tool |-> CHOOSE t \in ToolName : TRUE, at |-> "none", value |-> NoContract]

CatalogInit ==
  /\ live = [p \in Provider |-> NoTools]
  /\ todo = [p \in Provider |-> {}]
  /\ reconciling = [p \in Provider |-> NoWork]
  /\ catalogLock = Nobody
  /\ publishedTools = NoTools /\ registered = NoTools /\ contracts = NoTools
  /\ unsaved = {}
  /\ apps \in BOOLEAN /\ saved = apps
  /\ setter = [h \in Setter |-> [at |-> "none", value |-> FALSE]]

-----------------------------------------------------------------------------
(* Merging.                                                                *)

SchemasAgree(a, b) ==
  /\ a.required = b.required /\ a.other = b.other
  /\ \A x \in DOMAIN a.props \cap DOMAIN b.props : a.props[x] = b.props[x]
  /\ \A x \in a.required : x \in DOMAIN a.props <=> x \in DOMAIN b.props

MergeSchemas(a, b) ==
  [a EXCEPT !.props = [x \in DOMAIN a.props \cup DOMAIN b.props |->
                         IF x \in DOMAIN a.props THEN a.props[x] ELSE b.props[x]]]

\* Mutant: the merge keeps the hints of the first node.
CommonFirst(a, b) ==
  [MergeSchemas(a, b) EXCEPT !.binding = IF a.binding = b.binding THEN @ ELSE "none"]

Common(a, b) ==
  [MergeSchemas(a, b) EXCEPT !.binding = IF a.binding = b.binding THEN @ ELSE "none",
                             !.safe = a.safe \cap b.safe]

MergeTwo(a, b) ==
  IF a = NoContract \/ a.vis # b.vis \/ a.meta # b.meta \/ ~SchemasAgree(a, b)
  THEN NoContract ELSE Common(a, b)

(* mergeFleetToolDescriptors: nothing is published if any contract is      *)
(* invalid or two of them conflict.                                        *)
MergeFleet(ds) ==
  LET merged[i \in 1..Len(ds)] == IF i = 1 THEN ds[1] ELSE MergeTwo(merged[i - 1], ds[i])
  IN  IF ds = <<>> \/ \E i \in DOMAIN ds : ds[i].vis = {} THEN NoContract ELSE merged[Len(ds)]

ProvidersOf(t) == {p \in Provider : live[p][t] # NoContract}
(* In the order of the node ids.                                           *)
LiveContracts(t) == LET ps == SetToSeq(ProvidersOf(t)) IN [i \in DOMAIN ps |-> live[ps[i]][t]]

(* What a client sees of it: without Apps, no tool that is not for the     *)
(* model, and no display binding.                                          *)
Face(c, on) ==
  IF c = NoContract \/ (~on /\ "model" \notin c.vis) THEN NoContract
  ELSE IF on THEN c ELSE [c EXCEPT !.binding = "none"]

-----------------------------------------------------------------------------
Names(snapshot) == {t \in ToolName : snapshot[t] # NoContract}

(* handleAgentDockHello of an enabled node, under the snapshot lock of the *)
(* node: the snapshot, then one name after the other.                      *)
Snapshot(p, s) ==
  /\ todo[p] = {}
  /\ live' = [live EXCEPT ![p] = s]
  /\ todo' = [todo EXCEPT ![p] = Names(live[p]) \cup Names(s) \cup Names(publishedTools)]
  /\ UNCHANGED <<reconciling, catalogLock, publishedTools, registered, contracts, unsaved, apps, saved, setter>>

(* handleAgentDockDisconnect.                                              *)
Forget(p) ==
  /\ todo[p] = {}
  /\ live' = [live EXCEPT ![p] = NoTools]
  /\ todo' = [todo EXCEPT ![p] = Names(live[p])]
  /\ UNCHANGED <<reconciling, catalogLock, publishedTools, registered, contracts, unsaved, apps, saved, setter>>

(* A PATCH of enabled and a deletion reconcile the stored tools of the     *)
(* node once more.                                                         *)
ReconcileStored(p, ts) ==
  /\ todo' = [todo EXCEPT ![p] = @ \cup ts]
  /\ UNCHANGED <<live, reconciling, catalogLock, publishedTools, registered, contracts, unsaved, apps,
                 saved, setter>>

\* Mutant: reconciliations of several nodes overlap.
CatalogShared == TRUE

CatalogFree == catalogLock = Nobody

(* One name: whatever held the lock before, the merge is of what is live   *)
(* now.                                                                    *)
Reconcile(p, t) ==
  /\ t \in todo[p] /\ reconciling[p].at = "none" /\ CatalogFree
  /\ catalogLock' = p
  /\ reconciling' = [reconciling EXCEPT ![p] = [tool |-> t, at |-> "merged",
                                                value |-> MergeFleet(LiveContracts(t))]]
  /\ UNCHANGED <<live, todo, publishedTools, registered, contracts, unsaved, apps, saved, setter>>

(* Registered again only if the published descriptor changes.              *)
Publish(p) ==
  LET t == reconciling[p].tool  c == reconciling[p].value
  IN /\ reconciling[p].at = "merged"
     /\ publishedTools' = [publishedTools EXCEPT ![t] = c]
     /\ registered' = IF c # NoContract /\ c = publishedTools[t] THEN registered
                      ELSE [registered EXCEPT ![t] = Face(c, apps)]
     /\ reconciling' = [reconciling EXCEPT ![p].at = "published"]
     /\ UNCHANGED <<live, todo, catalogLock, contracts, unsaved, apps, saved, setter>>

Persist(p) ==
  LET t == reconciling[p].tool
  IN /\ reconciling[p].at = "published"
     /\ \/ /\ contracts' = [contracts EXCEPT ![t] = reconciling[p].value]
           /\ unsaved' = unsaved \ {t}
        \/ unsaved' = unsaved \cup {t} /\ UNCHANGED contracts
     /\ catalogLock' = Nobody
     /\ todo' = [todo EXCEPT ![p] = @ \ {t}]
     /\ reconciling' = [reconciling EXCEPT ![p] = NoWork]
     /\ UNCHANGED <<live, publishedTools, registered, apps, saved, setter>>

-----------------------------------------------------------------------------
(* A change of the MCP Apps setting: saved, then set, then applied.        *)
SaveSetting(h, v) ==
  /\ setter[h].at = "none"
  /\ saved' = v
  /\ setter' = [setter EXCEPT ![h] = [at |-> "saved", value |-> v]]
  /\ UNCHANGED <<live, todo, reconciling, catalogLock, publishedTools, registered, contracts, unsaved, apps>>

SetApps(h) ==
  /\ setter[h].at = "saved"
  /\ apps' = setter[h].value
  /\ setter' = [setter EXCEPT ![h].at = IF apps = setter[h].value THEN "none" ELSE "set"]
  /\ UNCHANGED <<live, todo, reconciling, catalogLock, publishedTools, registered, contracts, unsaved, saved>>

(* Every published tool is registered with the value of the request.       *)
ApplyApps(h) ==
  /\ setter[h].at = "set" /\ CatalogFree
  /\ registered' = [t \in ToolName |-> IF publishedTools[t] = NoContract THEN registered[t]
                                       ELSE Face(publishedTools[t], setter[h].value)]
  /\ setter' = [setter EXCEPT ![h].at = "none"]
  /\ UNCHANGED <<live, todo, reconciling, catalogLock, publishedTools, contracts, unsaved, apps, saved>>

(* A restart: the catalog begins empty, and the contracts of the last      *)
(* process are deleted unless that fails.                                  *)
ProcessRestart ==
  /\ live' = [p \in Provider |-> NoTools] /\ todo' = [p \in Provider |-> {}]
  /\ reconciling' = [p \in Provider |-> NoWork] /\ catalogLock' = Nobody
  /\ publishedTools' = NoTools /\ registered' = NoTools
  /\ \/ contracts' = NoTools /\ unsaved' = {}
     \/ unsaved' = Names(contracts) /\ UNCHANGED contracts
  /\ apps' = saved
  /\ setter' = [h \in Setter |-> [at |-> "none", value |-> FALSE]]
  /\ UNCHANGED saved

CatalogNext ==
  \/ \E p \in Provider : \/ Forget(p) \/ Publish(p) \/ Persist(p)
                         \/ \E s \in [ToolName -> Contract \cup {NoContract}] : Snapshot(p, s)
                         \/ \E ts \in SUBSET ToolName : ReconcileStored(p, ts)
                         \/ \E t \in ToolName : Reconcile(p, t)
  \/ \E h \in Setter : \/ SetApps(h) \/ ApplyApps(h)
                       \/ \E v \in BOOLEAN : SaveSetting(h, v)
  \/ ProcessRestart

CatalogSpec == CatalogInit /\ [][CatalogNext]_catalogVars

-----------------------------------------------------------------------------
Quiet(t) == \A p \in Provider : t \notin todo[p]
Offered(t) == publishedTools[t] # NoContract

(* Once no snapshot or disconnect is at work on a tool, whatever their     *)
(* order was, it is published as the merge of what the connected nodes     *)
(* provide, in whatever order they are merged; the stored contract agrees  *)
(* unless its save failed, and so does what the MCP server offers, up to   *)
(* the Apps setting.                                                       *)
CatalogConverges ==
  \A t \in ToolName : Quiet(t) =>
     /\ \A ps \in SetToSeqs(ProvidersOf(t)) :
          publishedTools[t] = MergeFleet([i \in DOMAIN ps |-> live[ps[i]][t]])
     /\ t \notin unsaved => contracts[t] = publishedTools[t]
     /\ \E on \in BOOLEAN : registered[t] = Face(publishedTools[t], on)

(* A published tool is a promise about every node a call may be sent to:   *)
(* it is visible to exactly the same callers, it claims no safety hint a   *)
(* node does not give, it accepts every property a node accepts and names  *)
(* every property a node requires.                                         *)
OfferIsSound ==
  \A t \in ToolName : Quiet(t) /\ Offered(t) => \A p \in ProvidersOf(t) :
     LET c == publishedTools[t]  d == live[p][t]
     IN /\ c.vis = d.vis /\ c.safe \subseteq d.safe /\ c.required = d.required
        /\ \A x \in DOMAIN d.props : x \in DOMAIN c.props /\ c.props[x] = d.props[x]

(* The catalog is what the connected nodes provide, and sound for each.    *)
CatalogIsTrue == CatalogConverges /\ OfferIsSound

(* With no request and no reconciliation under way, the tools that are     *)
(* registered are those of the setting in force: without Apps no tool that *)
(* only Apps may call, and no display binding.                             *)
AppsFollowSetting ==
  \A t \in ToolName : Quiet(t) /\ (\A h \in Setter : setter[h].at = "none")
     => registered[t] = Face(publishedTools[t], apps)

CatalogTypeOK ==
  /\ live \in [Provider -> [ToolName -> Contract \cup {NoContract}]]
  /\ todo \in [Provider -> SUBSET ToolName]
  /\ \A p \in Provider : /\ reconciling[p].tool \in ToolName
                         /\ reconciling[p].at \in {"none", "merged", "published"}
                         /\ reconciling[p].at # "none" <=> catalogLock = p
  /\ DOMAIN publishedTools = ToolName /\ DOMAIN registered = ToolName /\ DOMAIN contracts = ToolName
  /\ unsaved \subseteq ToolName
  /\ apps \in BOOLEAN /\ saved \in BOOLEAN
  /\ setter \in [Setter -> [at : {"none", "saved", "set"}, value : BOOLEAN]]
=============================================================================
