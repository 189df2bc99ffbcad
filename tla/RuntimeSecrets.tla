------------------------------ MODULE RuntimeSecrets ------------------------------
(***************************************************************************)
(* The AI settings as they are stored: a row with a revision, the API keys *)
(* sealed under a master key that is a file of its own, and the prompt of  *)
(* stage 3.  A server finds the key or makes it and publishes it by a hard *)
(* link, so that of two that start together one wins.  A request to change *)
(* the settings checks the review node it names and then saves everything  *)
(* in one transaction, which refuses an expected revision that has passed. *)
(* What becomes of the settings in memory is in Evolution.                 *)
(***************************************************************************)
EXTENDS Naturals

CONSTANTS Process,      \* servers over one data directory
          Browser,      \* where settings are read and changed
          SecretName,   \* the two API keys
          Peer,         \* nodes, each a candidate for the review
          SettingsInput,\* the requests that are sent
          Ambient,      \* environments a server may start in
          MaxUpdates    \* bound: of changes that are saved

CONSTANTS NoKey, NoSecret, NoPeer, NoRequest

Blank == ""
AsStarted == "never given"
Unreadable == "cannot be opened"

(* What a key may be set to, and a sealed key.                             *)
Given == {Blank} \cup {i.keys[n].value : i \in SettingsInput, n \in SecretName}
SealedKey == [key : Process, name : SecretName, value : Given]

ASSUME SecretConstants ==
  /\ MaxUpdates \in Nat /\ NoKey \notin Process
  /\ AsStarted \notin Given
  /\ \A k \in Process, n \in SecretName, v \in Given :
       [key |-> k, name |-> n, value |-> v] # NoSecret

Bundled == "bundled_default"
Prompts == {Bundled, "custom"}

VARIABLES
  keyFile,      \* secrets/runtime-ai-settings.key
  process,      \* each server: not started, with a key of its own, or ready
  settingsRow,  \* revision and review node of runtime_ai_settings
  sealedKeys,   \* the rows of runtime_ai_setting_secrets
  prompt,       \* the row of stage3_prompt_overrides, or the bundled prompt
  enabledPeers,
  browser,      \* what each shows, and its request
  given,        \* observation: what each key was last set to
  admitted,     \* observation: nodes that were found enabled for the review
  unseen        \* observation: a request with a revision replaced what it had not seen

secretVars == <<keyFile, process, settingsRow, sealedKeys, prompt, enabledPeers, browser, given,
                admitted, unseen>>

Stored == [row |-> settingsRow, sealed |-> sealedKeys, prompt |-> prompt]

Settings == [row : [rev : 0..MaxUpdates, node : Peer \cup {NoPeer}],
             sealed : [SecretName -> SealedKey \cup {NoSecret}], prompt : Prompts]

SecretsInit ==
  /\ keyFile = NoKey
  /\ process = [p \in Process |-> [at |-> "off", key |-> NoKey, env |-> [n \in SecretName |-> Blank]]]
  /\ settingsRow = [rev |-> 0, node |-> NoPeer]
  /\ sealedKeys = [n \in SecretName |-> NoSecret] /\ prompt = Bundled
  /\ enabledPeers = Peer
  /\ browser = [b \in Browser |-> [step |-> "idle", of |-> NoRequest, input |-> NoRequest, seen |-> Stored]]
  /\ given = [n \in SecretName |-> AsStarted] /\ admitted = {} /\ unseen = FALSE

(* ---- the master key ----------------------------------------------------- *)

(* A key that is there is taken; else a new one is written to a file of    *)
(* another name.                                                           *)
ReadKey(p, env) ==
  /\ process[p].at = "off"
  /\ process' = [process EXCEPT ![p] = IF keyFile # NoKey
                                       THEN [at |-> "ready", key |-> keyFile, env |-> env]
                                       ELSE [at |-> "made", key |-> p, env |-> env]]
  /\ UNCHANGED <<keyFile, settingsRow, sealedKeys, prompt, enabledPeers, browser, given, admitted, unseen>>

\* Mutant: the new key is moved over the one that is there.
TakenOver(p) == p

(* The key that is there after the link of p's own: the link fails if      *)
(* there is one already, and that is read again.                           *)
Linked(p) == IF keyFile = NoKey THEN p ELSE keyFile

PublishKey(p) ==
  /\ process[p].at = "made"
  /\ keyFile' = Linked(p)
  /\ process' = [process EXCEPT ![p].at = "ready", ![p].key = Linked(p)]
  /\ UNCHANGED <<settingsRow, sealedKeys, prompt, enabledPeers, browser, given, admitted, unseen>>

(* Its requests end with it.                                               *)
StopProcess(p) ==
  /\ process[p].at # "off"
  /\ process' = [process EXCEPT ![p].at = "off", ![p].key = NoKey]
  /\ browser' = [b \in Browser |-> IF browser[b].of = p
                                   THEN [browser[b] EXCEPT !.step = "idle", !.of = NoRequest, !.input = NoRequest]
                                   ELSE browser[b]]
  /\ UNCHANGED <<keyFile, settingsRow, sealedKeys, prompt, enabledPeers, given, admitted, unseen>>

(* ---- sealing ------------------------------------------------------------ *)

(* A sealed key opens with the key and the name it was sealed with only.   *)
Seal(p, n, value) == [key |-> process[p].key, name |-> n, value |-> value]
OpenSeal(p, n) ==
  IF sealedKeys[n].key = process[p].key /\ sealedKeys[n].name = n THEN sealedKeys[n].value ELSE Unreadable

(* Without a row the environment decides.                                  *)
SecretOf(p, n) == IF sealedKeys[n] = NoSecret THEN process[p].env[n] ELSE OpenSeal(p, n)

CanLoad(p) == \A n \in SecretName : SecretOf(p, n) # Unreadable

(* ---- requests ----------------------------------------------------------- *)

ShowSettings(b, p) ==
  /\ browser[b].step = "idle" /\ process[p].at = "ready" /\ CanLoad(p)
  /\ browser' = [browser EXCEPT ![b].seen = Stored]
  /\ UNCHANGED <<keyFile, process, settingsRow, sealedKeys, prompt, enabledPeers, given, admitted, unseen>>

EndRequest(b) == [browser EXCEPT ![b].step = "idle", ![b].of = NoRequest, ![b].input = NoRequest]

(* The node that is stored may be named again, enabled or not; another one *)
(* is looked up.  Without a node, or if it cannot be told, nothing is.     *)
Submit(b, p, i) ==
  /\ browser[b].step = "idle" /\ process[p].at = "ready"
  /\ i.node # NoPeer => CanLoad(p)
  /\ browser' = [browser EXCEPT
       ![b].step = IF i.node \in {NoPeer, settingsRow.node} THEN "saving" ELSE "checking",
       ![b].of = p, ![b].input = i]
  /\ UNCHANGED <<keyFile, process, settingsRow, sealedKeys, prompt, enabledPeers, given, admitted, unseen>>

CheckReviewNode(b) ==
  LET node == browser[b].input.node IN
  /\ browser[b].step = "checking"
  /\ IF node \in enabledPeers
     THEN browser' = [browser EXCEPT ![b].step = "saving"] /\ admitted' = admitted \cup {node}
     ELSE browser' = EndRequest(b) /\ UNCHANGED admitted
  /\ UNCHANGED <<keyFile, process, settingsRow, sealedKeys, prompt, enabledPeers, given, unseen>>

(* What may be saved: a service that is on has an address and a model, the *)
(* times are in their ranges, and what replaces a key or prompt is not     *)
(* empty.                                                                  *)
ValidInput(i) ==
  /\ i.on => i.named
  /\ i.timeout \in 1..300 /\ i.interval \in 60..10080
  /\ \A n \in SecretName : i.keys[n].action \in {"keep", "clear", "replace"}
                           /\ (i.keys[n].action = "replace" => i.keys[n].value # Blank)
  /\ i.prompt \in {"keep", "reset", "replace"}

\* Mutant: the revision that was shown is not compared with the row.
ExpectedShown(b) == TRUE

Expected(b) == browser[b].input.expects = "seen" => browser[b].seen.row.rev = settingsRow.rev

RefuseUpdate(b) ==
  /\ browser[b].step = "saving"
  /\ ~ValidInput(browser[b].input) \/ ~Expected(b)
  /\ browser' = EndRequest(b)
  /\ UNCHANGED <<keyFile, process, settingsRow, sealedKeys, prompt, enabledPeers, given, admitted, unseen>>

\* Mutant: clearing a key removes its row.
KeyRowRemoved(p, n, ask) ==
  CASE ask.action = "keep" -> sealedKeys[n]
    [] ask.action = "clear" -> NoSecret
    [] ask.action = "replace" -> Seal(p, n, ask.value)

(* A cleared key is one that is sealed as empty: the environment does not  *)
(* come back.                                                              *)
KeyRow(p, n, ask) ==
  CASE ask.action = "keep" -> sealedKeys[n]
    [] ask.action = "clear" -> Seal(p, n, Blank)
    [] ask.action = "replace" -> Seal(p, n, ask.value)

\* What a key is set to from now on.
SetTo(n, ask) ==
  CASE ask.action = "keep" -> given[n] [] ask.action = "clear" -> Blank
    [] ask.action = "replace" -> ask.value

(* A reset removes the row, and the prompt that comes with the program     *)
(* stands.                                                                 *)
PromptRow(action) ==
  CASE action = "keep" -> prompt [] action = "reset" -> Bundled [] action = "replace" -> "custom"

Update(b) ==
  LET p == browser[b].of  i == browser[b].input IN
  /\ browser[b].step = "saving" /\ settingsRow.rev < MaxUpdates
  /\ ValidInput(i) /\ Expected(b)
  /\ settingsRow' = [rev |-> settingsRow.rev + 1, node |-> i.node]
  /\ sealedKeys' = [n \in SecretName |-> KeyRow(p, n, i.keys[n])]
  /\ prompt' = PromptRow(i.prompt)
  /\ given' = [n \in SecretName |-> SetTo(n, i.keys[n])]
  /\ unseen' = (unseen \/ (i.expects = "seen" /\ browser[b].seen # Stored))
  /\ browser' = EndRequest(b)
  /\ UNCHANGED <<keyFile, process, enabledPeers, admitted>>

(* A node is disabled, deleted or enabled again, whatever the settings say *)
(* of it.                                                                  *)
ChangePeer(q) ==
  /\ enabledPeers' = IF q \in enabledPeers THEN enabledPeers \ {q} ELSE enabledPeers \cup {q}
  /\ UNCHANGED <<keyFile, process, settingsRow, sealedKeys, prompt, browser, given, admitted, unseen>>

SecretsNext ==
  \/ \E p \in Process : PublishKey(p) \/ StopProcess(p) \/ \E env \in Ambient : ReadKey(p, env)
  \/ \E b \in Browser, p \in Process : ShowSettings(b, p) \/ \E i \in SettingsInput : Submit(b, p, i)
  \/ \E b \in Browser : CheckReviewNode(b) \/ RefuseUpdate(b) \/ Update(b)
  \/ \E q \in Peer : ChangePeer(q)

SecretsSpec == SecretsInit /\ [][SecretsNext]_secretVars

(* The values the variables take.                                          *)
SecretsTypeOK ==
  /\ keyFile \in Process \cup {NoKey}
  /\ process \in [Process -> [at : {"off", "made", "ready"}, key : Process \cup {NoKey},
                              env : Ambient \cup {[n \in SecretName |-> Blank]}]]
  /\ Stored \in Settings
  /\ enabledPeers \subseteq Peer /\ admitted \subseteq Peer /\ unseen \in BOOLEAN
  /\ browser \in [Browser -> [step : {"idle", "checking", "saving"}, of : Process \cup {NoRequest},
                              input : SettingsInput \cup {NoRequest}, seen : Settings]]
  /\ given \in [SecretName -> Given \cup {AsStarted}]

(* Every server that is up reads the keys as they were last set, or as its *)
(* environment has them if they never were: whichever made the master key, *)
(* whichever saved them, and however often it was restarted (runtime.go:   *)
(* loadOrCreateKey, applySecret, loadSecret).                              *)
SecretsOpen ==
  \A p \in Process, n \in SecretName : process[p].at = "ready" =>
    SecretOf(p, n) = IF given[n] = AsStarted THEN process[p].env[n] ELSE given[n]

(* A change that names a revision replaces the settings, keys and prompt   *)
(* that were shown and no others, and the review node is one that was      *)
(* found enabled once (runtime.go: Update; runtime_settings.go).           *)
NothingUnseen == ~unseen /\ settingsRow.node \in admitted \cup {NoPeer}
===================================================================================
