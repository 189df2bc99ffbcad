----------------------------- MODULE ControlPlaneProofs -----------------------------
(***************************************************************************)
(* What is proved of the parts of the control plane, carried over to the   *)
(* specification that explores them together: a step of the control plane  *)
(* is a step of each part or leaves that part alone, so what every         *)
(* behaviour of a part keeps is kept by every behaviour of the whole.      *)
(***************************************************************************)
EXTENDS MCControlPlane, AccessProofs, StoreProofs, DataProofs

LEMMA StartsAsEachPart ==
  ControlInit =>
    /\ part \in Parts
    /\ RegistryInit /\ CatalogInit /\ OAuthInit /\ WebInit /\ TokenInit /\ NotesInit
    /\ SearchInit /\ VersioningInit /\ TemplateInit /\ RecallInit /\ AnswerInit
    /\ LifecycleInit /\ EvolutionInit /\ ProposalInit /\ DeliveryInit /\ FleetInit
    /\ ArtifactInit /\ SecretsInit
PROOF
  BY DEF ControlInit

(* The parts of the registry, of access and of the settings.               *)
LEMMA StepsOfAccess ==
  [ControlNext]_controlVars =>
    /\ [RegistryNext]_registryVars /\ [CatalogNext]_catalogVars /\ [OAuthNext]_oauthVars
    /\ [WebNext]_webVars /\ [TokenNext]_tokenVars /\ [SecretsNext]_secretVars
PROOF
<1>1. CASE ControlNext
  BY <1>1 DEF ControlNext
<1>2. CASE UNCHANGED controlVars
  BY <1>2 DEF controlVars
<1> QED
  BY <1>1, <1>2

(* The parts that keep what nodes and users have written.                  *)
LEMMA StepsOfStores ==
  [ControlNext]_controlVars =>
    /\ [TemplateNext]_templateVars /\ [RecallNext]_recallVars /\ [AnswerNext]_answerVars
    /\ [EvolutionNext]_evolutionVars /\ [ProposalNext]_proposalVars
    /\ [NotesNext]_noteVars /\ [VersioningNext]_versionVars /\ [LifecycleNext]_lifecycleVars
PROOF
<1>1. CASE ControlNext
  BY <1>1 DEF ControlNext
<1>2. CASE UNCHANGED controlVars
  BY <1>2 DEF controlVars
<1> QED
  BY <1>1, <1>2

(* The parts that answer for many, and those that walk through data.       *)
LEMMA StepsOfAnswers ==
  [ControlNext]_controlVars =>
    /\ [DeliveryNext]_deliveryVars /\ [FleetNext]_fleetVars /\ [ArtifactNext]_artifactVars
    /\ [SearchNext]_searchVars
PROOF
<1>1. CASE ControlNext
  BY <1>1 DEF ControlNext
<1>2. CASE UNCHANGED controlVars
  BY <1>2 DEF controlVars
<1> QED
  BY <1>1, <1>2

(* It is always one of the parts that is explored.                         *)
LEMMA PartStays == ControlSpec => [](part \in Parts)
PROOF
<1>1. ControlInit => part \in Parts
  BY StartsAsEachPart
<1>2. part \in Parts /\ [ControlNext]_controlVars => (part \in Parts)'
  BY DEF ControlNext, controlVars, Parts
<1> QED
  BY <1>1, <1>2, PTL DEF ControlSpec

(* A node that is disabled in the end is cut off, and the tools that are   *)
(* published of it are those of its last connection, for any number of     *)
(* nodes, sockets and handlers (agentdock/connections.go).                 *)
THEOREM ConnectionsStayCurrent == ControlSpec => []ConnectionsAreCurrent
PROOF
<1>1. ControlSpec => RegistrySpec
  BY StartsAsEachPart, StepsOfAccess, PTL DEF ControlSpec, RegistrySpec
<1>2. DisabledIsCut /\ CatalogMatches => ConnectionsAreCurrent
  BY DEF ConnectionsAreCurrent
<1> QED
  BY <1>1, <1>2, DisabledNodesAreCutOff, CatalogFollowsConnections, PTL

(* A grant that was misused (auth/oauth.go), and a session that was ended  *)
(* (auth/web.go), give no access ever again, for any number of clients,    *)
(* grants, sessions and visits.                                            *)
THEOREM AccessEndsForGood == ControlSpec => []AccessEnds
PROOF
<1>1. ControlSpec => OAuthSpec /\ WebSpec
  BY StartsAsEachPart, StepsOfAccess, PTL DEF ControlSpec, OAuthSpec, WebSpec
<1>2. MisuseEndsGrant /\ EndedIsFinal => AccessEnds
  BY DEF AccessEnds
<1> QED
  BY <1>1, <1>2, MisuseIsFinal, EndedSessionsStayEnded, PTL

(* A score is computed from the text that a document or a template has, by *)
(* the model of the search, for any number of documents, texts and models, *)
(* overlapping reindexes and answers in any order (recall/embedding.go).   *)
THEOREM ScoresStayTrue == ControlSpec => []ScoresAreTrue
PROOF
<1>1. ControlSpec => TemplateSpec /\ RecallSpec /\ AnswerSpec
  BY StartsAsEachPart, StepsOfStores, PTL DEF ControlSpec, TemplateSpec, RecallSpec, AnswerSpec
<1>2. VectorsMatch /\ HitsAreTrue /\ VectorsOfTheirText => ScoresAreTrue
  BY DEF ScoresAreTrue
<1> QED
  BY <1>1, <1>2, VectorsOfTemplates, HitsOfTheirText, VectorsFindTheirText, PTL

(* Stage 3 runs by the settings that are saved, with the keys that were    *)
(* last given; a save with a revision replaces nothing unseen; and a       *)
(* proposal takes no evidence from its node: for any number of editors,    *)
(* servers over one data directory, browsers and nodes                     *)
(* (settings/runtime.go, evolution/).                                      *)
THEOREM StageStaysSafe == ControlSpec => []StageIsSafe
PROOF
<1>1. ControlSpec => EvolutionSpec /\ ProposalSpec /\ SecretsSpec
  BY StartsAsEachPart, StepsOfAccess, StepsOfStores, PTL
  DEF ControlSpec, EvolutionSpec, ProposalSpec, SecretsSpec
<1>2. SchedulerFollows /\ EvidenceStaysHome /\ SecretsOpen /\ NothingUnseen => StageIsSafe
  BY DEF StageIsSafe
<1> QED
  BY <1>1, <1>2, SchedulerLivesBySettings, EvidenceStays, SecretsAreReadAsGiven,
     SavesReplaceWhatWasShown, PTL

(* What an operator, a backup and a listing of notes rely on is kept by    *)
(* every crash, failed write and failed deletion, for any number of notes, *)
(* tokens, backups and paths (mcp_token.go, privatenotes/store.go).        *)
THEOREM FilesStay == ControlSpec => []FilesSurvive
PROOF
<1>1. ControlSpec => TokenSpec /\ NotesSpec /\ SearchSpec
  BY StartsAsEachPart, StepsOfAccess, StepsOfStores, StepsOfAnswers, PTL
  DEF ControlSpec, TokenSpec, NotesSpec, SearchSpec
<1>2. TokenKept /\ BackupsRecover /\ NotesAreFound => FilesSurvive
  BY DEF FilesSurvive
<1> QED
  BY <1>1, <1>2, TokenIsKept, BackupsOpen, NotesStayFound, PTL

(* A download of the announced length is the artifact, and a fleet context *)
(* has each node's own entry, for any number of nodes and chunks, and      *)
(* every limit (httpx/artifacts.go, mcp_context.go).                       *)
THEOREM AnswersStayHonest == ControlSpec => []AnswersAreHonest
PROOF
<1>1. ControlSpec => ArtifactSpec /\ FleetSpec
  BY StartsAsEachPart, StepsOfAnswers, PTL DEF ControlSpec, ArtifactSpec, FleetSpec
<1>2. WholeOrAborted /\ EntriesAreTheirOwn => AnswersAreHonest
  BY DEF AnswersAreHonest
<1> QED
  BY <1>1, <1>2, BodiesAreWhole, EntriesOfTheirNodes, PTL

(* Every part keeps its types and its limits: no more grants of a client,  *)
(* sessions, slots, workers and operations of a record than it allows.     *)
AccessTyped == /\ RegistryTypeOK /\ CatalogTypeOK /\ OAuthTypeOK
               /\ WebTypeOK /\ TokenTypeOK /\ SecretsTypeOK
StoresTyped == /\ NotesTypeOK /\ SearchTypeOK /\ VersioningTypeOK /\ TemplatesTypeOK
               /\ RecallTypeOK /\ LifecycleTypeOK /\ EvolutionTypeOK
AnswersTyped == /\ ProposalTypeOK /\ AnswerTypeOK /\ DeliveryTypeOK
                /\ FleetTypeOK /\ ArtifactTypeOK

LEMMA AccessIsTyped == ControlSpec => []AccessTyped
PROOF
<1>1. ControlSpec => /\ RegistrySpec /\ CatalogSpec /\ OAuthSpec
                     /\ WebSpec /\ TokenSpec /\ SecretsSpec
  BY StartsAsEachPart, StepsOfAccess, PTL
  DEF ControlSpec, RegistrySpec, CatalogSpec, OAuthSpec, WebSpec, TokenSpec, SecretsSpec
<1> QED
  BY <1>1, RegistryTypes, CatalogStaysTrue, OAuthTypesHold, WebTypesHold, TokenTypesHold,
     SecretsTypesHold, PTL DEF AccessTyped

LEMMA StoresAreTyped == ControlSpec => []StoresTyped
PROOF
<1>1. ControlSpec => /\ NotesSpec /\ SearchSpec /\ VersioningSpec /\ TemplateSpec
                     /\ RecallSpec /\ LifecycleSpec /\ EvolutionSpec
  BY StartsAsEachPart, StepsOfStores, StepsOfAnswers, PTL
  DEF ControlSpec, NotesSpec, SearchSpec, VersioningSpec, TemplateSpec, RecallSpec,
      LifecycleSpec, EvolutionSpec
<1> QED
  BY <1>1, NotesTypes, NotesStayFound, VersioningTypesHold, TemplatesTypesHold,
     RecallTypesHold, LifecycleTypesHold, EvolutionTypesHold, PTL DEF StoresTyped

LEMMA AnswersAreTyped == ControlSpec => []AnswersTyped
PROOF
<1>1. ControlSpec => ProposalSpec /\ AnswerSpec /\ DeliverySpec /\ FleetSpec /\ ArtifactSpec
  BY StartsAsEachPart, StepsOfStores, StepsOfAnswers, PTL
  DEF ControlSpec, ProposalSpec, AnswerSpec, DeliverySpec, FleetSpec, ArtifactSpec
<1> QED
  BY <1>1, ProposalTypesHold, AnswerTypesHold, DeliveryTypes, FleetTypesHold,
     ArtifactTypesHold, PTL DEF AnswersTyped

(* Whichever part moves, its values have their types and keep its limits,  *)
(* for every value of the constants.                                       *)
THEOREM ControlTypes == ControlSpec => []ControlTypeOK
PROOF
<1>1. AccessTyped /\ StoresTyped /\ AnswersTyped /\ part \in Parts => ControlTypeOK
  <2> SUFFICES ASSUME AccessTyped, StoresTyped, AnswersTyped, part \in Parts PROVE ControlTypeOK
    OBVIOUS
  <2>1. CASE part \in {"registry", "catalog", "oauth", "web", "token", "settings"}
    BY <2>1 DEF AccessTyped, ControlTypeOK
  <2>2. CASE part \in {"notes", "search", "versions", "templates", "recall", "lifecycle",
                       "evolution"}
    BY <2>2 DEF StoresTyped, ControlTypeOK
  <2>3. CASE part \in {"proposals", "answers", "delivery", "fleet", "artifacts"}
    BY <2>3 DEF AnswersTyped, ControlTypeOK
  <2> QED
    BY <2>1, <2>2, <2>3 DEF Parts
<1> QED
  BY <1>1, AccessIsTyped, StoresAreTyped, AnswersAreTyped, PartStays, PTL
=====================================================================================
