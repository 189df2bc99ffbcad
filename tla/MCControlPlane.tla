------------------------------ MODULE MCControlPlane ------------------------------
(* Small instances of the parts of the control plane that keep a state of their  *)
(* own and share none: a behaviour explores one of them and leaves the others as *)
(* they begin.  As one part moves only, the same model values serve as sockets,  *)
(* editors, texts and so on, and the parts have their symmetry in common; where  *)
(* an order is chosen (notes, nodes of a merge) the values are not symmetric.    *)
EXTENDS NodeRegistry, ToolCatalog, OAuthGrants, WebSessions, AccessToken, PrivateNotes,
        NoteSearch, Versioning, TemplateRegistry, RecallIndex, EmbeddingAnswers,
        LifecycleRecord, Evolution, Proposals, ContextDelivery, ContextFleet,
        ArtifactDownload, RuntimeSecrets, TLC

CONSTANTS a1, a2, b1, b2, x1, x2, x3, t1

Symmetry == Permutations({a1, a2}) \cup Permutations({b1, b2})

(* Contracts of a tool: with an optional property more, and with a conflicting   *)
(* one.  Tools for Apps only are in MCToolCatalog.                               *)
Schema(props, vis, binding, safe) ==
  [required |-> {"a"}, props |-> props, other |-> "closed", vis |-> vis, meta |-> "m",
   binding |-> binding, safe |-> safe]
SomeContracts ==
  {Schema([a |-> "s"], {"model", "app"}, "v", {"readOnly", "idempotent"}),
   Schema([a |-> "s", b |-> "n"], {"model", "app"}, "w", {"readOnly"}),
   Schema([a |-> "s", b |-> "s"], {"model", "app"}, "v", {})}

(* Two documents, one of them with two texts; the whole of Recall or the first.  *)
SomeTexts == (x1 :> {a1, a2}) @@ (x2 :> {t1})
SomePrefixes == {{x1, x2}, {x1}}

(* Settings that replace or clear one of the two API keys, with and without a    *)
(* revision and a review node, and an interval that is too short.                *)
KeyWish(action, value) == [action |-> action, value |-> value]
SomeInput(expects, node, interval, wish, choice) ==
  [expects |-> expects, on |-> TRUE, named |-> TRUE, timeout |-> 300, interval |-> interval,
   keys |-> (x1 :> wish) @@ (x2 :> KeyWish("keep", Blank)), prompt |-> choice, node |-> node]
SomeInputs ==
  {SomeInput("seen", NoPeer, 60, KeyWish("replace", "k"), "replace"),
   SomeInput("seen", t1, 10080, KeyWish("clear", Blank), "keep"),
   SomeInput("any", t1, 60, KeyWish("keep", Blank), "reset"),
   SomeInput("any", NoPeer, 59, KeyWish("keep", Blank), "keep")}
SomeAmbients == {[n \in SecretName |-> "k"]}

VARIABLE part

Parts == {"registry", "catalog", "oauth", "web", "token", "notes", "search", "versions",
          "templates", "recall", "answers", "lifecycle", "evolution",
          "proposals", "delivery", "fleet", "artifacts", "settings"}

(* Where a part may begin in several ways, it does so if it is the one explored. *)
ControlInit ==
  /\ part \in Parts
  /\ RegistryInit /\ CatalogInit /\ OAuthInit /\ WebInit /\ TokenInit /\ NotesInit
  /\ VersioningInit /\ TemplateInit /\ RecallInit /\ LifecycleInit /\ EvolutionInit
  /\ ProposalInit /\ SearchInit /\ AnswerInit /\ DeliveryInit /\ FleetInit /\ ArtifactInit
  /\ SecretsInit
  /\ part # "catalog" => apps
  /\ part # "recall" => model = b1
  /\ part # "evolution" => storedRow.on /\ storedRow.every = 1
  /\ part # "proposals" => enabledNodes = {} /\ owners = [r \in Ref |-> {}]

ControlNext ==
  /\ UNCHANGED part
  /\ IF part = "registry" THEN RegistryNext ELSE UNCHANGED registryVars
  /\ IF part = "catalog" THEN CatalogNext ELSE UNCHANGED catalogVars
  /\ IF part = "oauth" THEN OAuthNext ELSE UNCHANGED oauthVars
  /\ IF part = "web" THEN WebNext ELSE UNCHANGED webVars
  /\ IF part = "token" THEN TokenNext ELSE UNCHANGED tokenVars
  /\ IF part = "notes" THEN NotesNext ELSE UNCHANGED noteVars
  /\ IF part = "versions" THEN VersioningNext ELSE UNCHANGED versionVars
  /\ IF part = "templates" THEN TemplateNext ELSE UNCHANGED templateVars
  /\ IF part = "recall" THEN RecallNext ELSE UNCHANGED recallVars
  /\ IF part = "lifecycle" THEN LifecycleNext ELSE UNCHANGED lifecycleVars
  /\ IF part = "evolution" THEN EvolutionNext ELSE UNCHANGED evolutionVars
  /\ IF part = "proposals" THEN ProposalNext ELSE UNCHANGED proposalVars
  /\ IF part = "search" THEN SearchNext ELSE UNCHANGED searchVars
  /\ IF part = "answers" THEN AnswerNext ELSE UNCHANGED answerVars
  /\ IF part = "delivery" THEN DeliveryNext ELSE UNCHANGED deliveryVars
  /\ IF part = "fleet" THEN FleetNext ELSE UNCHANGED fleetVars
  /\ IF part = "artifacts" THEN ArtifactNext ELSE UNCHANGED artifactVars
  /\ IF part = "settings" THEN SecretsNext ELSE UNCHANGED secretVars

controlVars ==
  <<part, registryVars, catalogVars, oauthVars, webVars, tokenVars, noteVars, versionVars,
    templateVars, recallVars, lifecycleVars, evolutionVars, proposalVars, searchVars,
    answerVars, deliveryVars, fleetVars, artifactVars, secretVars>>

ControlSpec == ControlInit /\ [][ControlNext]_controlVars

(* The values each part takes.                                                   *)
ControlTypeOK ==
  CASE part = "registry" -> RegistryTypeOK    [] part = "catalog" -> CatalogTypeOK
    [] part = "oauth" -> OAuthTypeOK          [] part = "web" -> WebTypeOK
    [] part = "token" -> TokenTypeOK          [] part = "notes" -> NotesTypeOK
    [] part = "versions" -> VersioningTypeOK  [] part = "templates" -> TemplatesTypeOK
    [] part = "recall" -> RecallTypeOK        [] part = "lifecycle" -> LifecycleTypeOK
    [] part = "evolution" -> EvolutionTypeOK  [] part = "proposals" -> ProposalTypeOK
    [] part = "search" -> SearchTypeOK        [] part = "answers" -> AnswerTypeOK
    [] part = "delivery" -> DeliveryTypeOK    [] part = "fleet" -> FleetTypeOK
    [] part = "artifacts" -> ArtifactTypeOK   [] part = "settings" -> SecretsTypeOK

(* A node that is disabled in the end is cut off, and the tools that are         *)
(* published of it are those of its last connection (agentdock/connections.go).  *)
ConnectionsAreCurrent == DisabledIsCut /\ CatalogMatches

(* A grant that was misused (auth/oauth.go), and a session that was ended        *)
(* (auth/web.go), give no access ever again.                                     *)
AccessEnds == MisuseEndsGrant /\ EndedIsFinal

(* What the files hold after a crash, a failed write or a failed deletion is     *)
(* what was promised: the token the operator was last given (mcp_token.go), and  *)
(* a backup that opens and is the note; and every note that may be written is    *)
(* met by the listing that backups are made from (privatenotes/store.go).        *)
FilesSurvive == TokenKept /\ BackupsRecover /\ (part = "search" => NotesAreFound)

(* A score is computed from the text that a document or a template has, by the   *)
(* model of the search, whichever reindexes overlapped, and in whatever order    *)
(* the service answered (recall/embedding.go).                                   *)
ScoresAreTrue == VectorsMatch /\ HitsAreTrue /\ VectorsOfTheirText

(* What is answered for many is right for each: a download of the announced      *)
(* length is the artifact, and the entries of a fleet context are their nodes'.  *)
AnswersAreHonest == WholeOrAborted /\ (part = "fleet" => EntriesAreTheirOwn)

(* Stage 3 runs by the settings that are saved, with the keys that were last     *)
(* given; a save with a revision replaces nothing unseen (settings/runtime.go);  *)
(* and what stage 3 proposes takes no evidence from the node it belongs to.      *)
StageIsSafe == SchedulerFollows /\ EvidenceStaysHome /\ SecretsOpen /\ NothingUnseen
===================================================================================
