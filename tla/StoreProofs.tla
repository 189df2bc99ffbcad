-------------------------------- MODULE StoreProofs --------------------------------
(***************************************************************************)
(* Theorems about the stores of the control plane, for every number of     *)
(* handlers, files, nodes and requests: API keys and settings, context     *)
(* deliveries, the settings of stage 3 and its proposals, versions,        *)
(* templates, private notes, Recall's records, indexes and embeddings,     *)
(* downloads, and the context gathered from all nodes.                     *)
(*                                                                         *)
(* Each section has the inductive invariant of its component: what a       *)
(* handler that read before others wrote may still assume when it writes.  *)
(***************************************************************************)
EXTENDS RuntimeSecrets, ContextDelivery, Evolution, Proposals, Versioning, TemplateRegistry,
        RecallIndex, EmbeddingAnswers, PrivateNotes, LifecycleRecord, ArtifactDownload,
        ContextFleet, FiniteSetTheorems, TLAPS

(* ---- API keys and settings ------------------------------------------------- *)
(* Whoever is ready has the master key of the file, every sealed key was   *)
(* sealed with that key and holds what was given last, and what a browser  *)
(* shows is older than the row or is what is stored.                       *)

KeyHeld ==
  \A p \in Process : process[p].at = "ready" => keyFile # NoKey /\ process[p].key = keyFile

SealedAsGiven ==
  \A n \in SecretName :
    IF given[n] = AsStarted THEN sealedKeys[n] = NoSecret
    ELSE keyFile # NoKey /\ sealedKeys[n] = [key |-> keyFile, name |-> n, value |-> given[n]]

(* A request that goes on has a server that is up; what is shown is old or *)
(* is what is stored; a node that is saved was found enabled.              *)
BrowserState == [step : {"idle", "checking", "saving"}, of : Process \cup {NoRequest},
                 input : SettingsInput \cup {NoRequest}, seen : Settings]
ServedAlive(r) ==
  r.step # "idle" => r.of \in Process /\ process[r.of].at = "ready" /\ r.input \in SettingsInput
ShownOrOlder(r) ==
  r.seen.row.rev <= settingsRow.rev /\ (r.seen.row.rev = settingsRow.rev => r.seen = Stored)
Admits(r) == r.step = "saving" => r.input.node \in admitted \cup {NoPeer}

BrowserOK(r) == r \in BrowserState /\ ServedAlive(r) /\ ShownOrOlder(r) /\ Admits(r)

Keys == /\ keyFile \in Process \cup {NoKey}
        /\ process \in [Process -> [at : {"off", "made", "ready"}, key : Process \cup {NoKey},
                                    env : Ambient \cup {[n \in SecretName |-> Blank]}]]
        /\ KeyHeld
Rows == /\ Stored \in Settings /\ given \in [SecretName -> Given \cup {AsStarted}] /\ SealedAsGiven
Browsers == browser \in [Browser -> BrowserState] /\ \A b \in Browser : BrowserOK(browser[b])
Nodes == /\ enabledPeers \subseteq Peer /\ admitted \subseteq Peer
         /\ settingsRow.node \in admitted \cup {NoPeer}
         /\ unseen = FALSE

SecretsInv == Keys /\ Rows /\ Browsers /\ Nodes

(* The facts about one browser, whose state is a record.                   *)
LEMMA BrowserFields ==
  ASSUME SecretsInv, NEW b \in Browser
  PROVE  browser[b] \in BrowserState /\ BrowserOK(browser[b])
PROOF BY DEF SecretsInv, Browsers

(* A step that changes the state of one browser alone keeps the invariant  *)
(* if the new state is as it must be.                                      *)
LEMMA BrowserMoves ==
  ASSUME SecretsInv, NEW b \in Browser, NEW r, BrowserOK(r),
         browser' = [browser EXCEPT ![b] = r],
         UNCHANGED <<keyFile, process, settingsRow, sealedKeys, prompt, enabledPeers, given,
                     admitted, unseen>>
  PROVE  SecretsInv'
PROOF
<1>1. Stored' = Stored
  BY DEF Stored
<1>2. r \in BrowserState
  BY DEF BrowserOK
<1>3. browser' \in [Browser -> BrowserState] /\ \A c \in Browser : BrowserOK(browser'[c])
  BY <1>2 DEF SecretsInv, Browsers
<1>4. \A c \in Browser : BrowserOK(browser[c])'
  BY <1>1, <1>3 DEF BrowserOK, ServedAlive, ShownOrOlder, Admits, BrowserState, Settings
<1>5. Browsers'
  BY <1>3, <1>4 DEF Browsers, BrowserState, Settings
<1>6. Keys' /\ Rows' /\ Nodes'
  BY <1>1 DEF SecretsInv, Keys, KeyHeld, Rows, SealedAsGiven, Nodes
<1> QED
  BY <1>5, <1>6 DEF SecretsInv

(* What is asked of a key, and the row that comes of it.                   *)
LEMMA KeyRowAsGiven ==
  ASSUME SecretsInv, NEW b \in Browser, Update(b), NEW n \in SecretName
  PROVE  /\ given'[n] \in Given \cup {AsStarted} /\ sealedKeys'[n] \in SealedKey \cup {NoSecret}
         /\ IF given'[n] = AsStarted THEN sealedKeys'[n] = NoSecret
            ELSE keyFile # NoKey /\ sealedKeys'[n] = [key |-> keyFile, name |-> n, value |-> given'[n]]
PROOF
<1> DEFINE p == browser[b].of
           i == browser[b].input
           ask == i.keys[n]
<1>0. browser[b].step = "saving" /\ ValidInput(i)
  BY DEF Update
<1>1. /\ p \in Process /\ i \in SettingsInput /\ keyFile # NoKey /\ process[p].key = keyFile
      /\ keyFile \in Process
  BY <1>0, BrowserFields DEF BrowserOK, ServedAlive, SecretsInv, Keys, KeyHeld
<1>2. ask.value \in Given /\ Blank \in Given
  BY <1>1 DEF Given
<1>4. sealedKeys[n] \in SealedKey \cup {NoSecret} /\ given[n] \in Given \cup {AsStarted}
  BY DEF SecretsInv, Rows, Stored, Settings
<1>5. IF given[n] = AsStarted THEN sealedKeys[n] = NoSecret
      ELSE keyFile # NoKey /\ sealedKeys[n] = [key |-> keyFile, name |-> n, value |-> given[n]]
  BY DEF SecretsInv, Rows, SealedAsGiven
<1>6. /\ sealedKeys'[n] = KeyRow(p, n, ask)
      /\ given'[n] = SetTo(n, ask)
  BY DEF Update
<1> HIDE DEF p, i
<1>3. ask.action \in {"keep", "clear", "replace"}
  BY <1>0 DEF ValidInput
<1> HIDE DEF ask
<1>7. CASE ask.action = "keep"
  BY <1>4, <1>5, <1>6, <1>7 DEF KeyRow, SetTo
<1>8. CASE ask.action = "clear"
  BY <1>1, <1>2, <1>6, <1>8, SecretConstants DEF KeyRow, SetTo, Seal, SealedKey
<1>9. CASE ask.action = "replace"
  BY <1>1, <1>2, <1>6, <1>9, SecretConstants DEF KeyRow, SetTo, Seal, SealedKey
<1> QED
  BY <1>3, <1>7, <1>8, <1>9

(* The master key: read, published, and left behind.                       *)
LEMMA ProcessMoves ==
  ASSUME SecretsInv, NEW p \in Process,
         PublishKey(p) \/ StopProcess(p) \/ \E env \in Ambient : ReadKey(p, env)
  PROVE  SecretsInv'
PROOF
<1>0. Stored' = Stored /\ UNCHANGED <<settingsRow, given, enabledPeers, admitted, unseen>>
  BY DEF PublishKey, StopProcess, ReadKey, Stored
<1>1. Keys' /\ (keyFile # NoKey => keyFile' = keyFile)
  <2>1. CASE PublishKey(p)
    <3> DEFINE k == Linked(p)
    <3>1. k \in Process /\ k # NoKey /\ (keyFile # NoKey => k = keyFile)
      BY SecretConstants DEF SecretsInv, Keys, Linked
    <3>2. process' = [process EXCEPT ![p] = [process[p] EXCEPT !.at = "ready", !.key = k]] /\ keyFile' = k
      BY <2>1 DEF PublishKey, SecretsInv, Keys
    <3> HIDE DEF k
    <3>3. ASSUME NEW q \in Process, q # p, process[q].at = "ready" PROVE process[q].key = k
      BY <3>1, <3>3 DEF SecretsInv, Keys, KeyHeld
    <3>4. process \in [Process -> [at : {"off", "made", "ready"}, key : Process \cup {NoKey},
                                  env : Ambient \cup {[n \in SecretName |-> Blank]}]]
      BY DEF SecretsInv, Keys
    <3> QED
      BY <3>1, <3>2, <3>3, <3>4 DEF Keys, KeyHeld
  <2>2. CASE StopProcess(p)
    BY <2>2 DEF SecretsInv, Keys, KeyHeld, StopProcess
  <2>3. ASSUME NEW env \in Ambient, ReadKey(p, env)
        PROVE  Keys' /\ (keyFile # NoKey => keyFile' = keyFile)
    BY <2>3 DEF SecretsInv, Keys, KeyHeld, ReadKey
  <2> QED
    BY <2>1, <2>2, <2>3
<1>2. Rows' /\ Nodes'
  BY <1>0, <1>1 DEF SecretsInv, Rows, SealedAsGiven, Nodes, Stored
<1>3. ASSUME NEW c \in Browser PROVE browser'[c] \in BrowserState /\ BrowserOK(browser[c])'
  <2>1. browser[c] \in BrowserState /\ ServedAlive(browser[c]) /\ ShownOrOlder(browser[c]) /\ Admits(browser[c])
    BY BrowserFields DEF BrowserOK
  <2>2. CASE browser'[c] = browser[c] /\ (browser[c].step # "idle" => browser[c].of # p \/ process'[p].at = "ready")
    <3>1. \A q \in Process : q # p => process'[q] = process[q]
      BY DEF SecretsInv, Keys, PublishKey, StopProcess, ReadKey
    <3> QED
      BY <1>0, <2>1, <2>2, <3>1 DEF BrowserOK, ServedAlive, ShownOrOlder, Admits, BrowserState, Settings
  <2>3. CASE /\ StopProcess(p) /\ browser[c].of = p
             /\ browser'[c] = [browser[c] EXCEPT !.step = "idle", !.of = NoRequest, !.input = NoRequest]
    BY <1>0, <2>1, <2>3 DEF BrowserOK, ServedAlive, ShownOrOlder, Admits, BrowserState, Settings
  <2>4. CASE StopProcess(p)
    BY <2>2, <2>3, <2>4 DEF StopProcess
  <2>5. CASE ~StopProcess(p)
    BY <2>1, <2>2, <2>5 DEF PublishKey, ReadKey, ServedAlive
  <2> QED
    BY <2>4, <2>5
<1>4. browser' \in [Browser -> BrowserState]
  <2>1. browser' = [c \in Browser |-> browser'[c]]
    BY DEF SecretsInv, Browsers, PublishKey, StopProcess, ReadKey
  <2> QED
    BY <1>3, <2>1
<1>5. Browsers'
  BY <1>3, <1>4 DEF Browsers, BrowserState, Settings
<1> QED
  BY <1>1, <1>2, <1>5 DEF SecretsInv

(* A control plane that was never configured.                              *)
LEMMA SecretsInitInv == SecretsInit => SecretsInv
PROOF
<1> SUFFICES ASSUME SecretsInit PROVE SecretsInv
  OBVIOUS
<1>1. Stored \in Settings
  BY SecretConstants DEF SecretsInit, Stored, Settings, Prompts, Bundled
<1>2. Keys /\ Nodes
  BY DEF SecretsInit, Keys, KeyHeld, Nodes
<1>3. Rows
  BY <1>1 DEF SecretsInit, Rows, SealedAsGiven
<1>4. ASSUME NEW b \in Browser PROVE BrowserOK(browser[b])
  <2>1. browser[b] = [step |-> "idle", of |-> NoRequest, input |-> NoRequest, seen |-> Stored]
    BY DEF SecretsInit
  <2>2. Stored.row.rev = settingsRow.rev /\ settingsRow.rev = 0
    BY DEF Stored, SecretsInit
  <2> QED
    BY <1>1, <2>1, <2>2 DEF BrowserOK, BrowserState, ServedAlive, ShownOrOlder, Admits
<1>5. Browsers
  BY <1>4 DEF SecretsInit, Browsers, BrowserOK
<1> QED
  BY <1>2, <1>3, <1>5 DEF SecretsInv

(* A save, and what it leaves for the other browsers.                      *)
LEMMA UpdateKeeps == ASSUME SecretsInv, NEW b \in Browser, Update(b) PROVE SecretsInv'
PROOF
<1>1. /\ SealedAsGiven' /\ given' \in [SecretName -> Given \cup {AsStarted}]
      /\ sealedKeys' \in [SecretName -> SealedKey \cup {NoSecret}]
  <2>1. \A n \in SecretName :
          /\ given'[n] \in Given \cup {AsStarted} /\ sealedKeys'[n] \in SealedKey \cup {NoSecret}
          /\ IF given'[n] = AsStarted THEN sealedKeys'[n] = NoSecret
             ELSE keyFile # NoKey
                  /\ sealedKeys'[n] = [key |-> keyFile, name |-> n, value |-> given'[n]]
    BY KeyRowAsGiven
  <2>2. given' = [n \in SecretName |-> given'[n]]
    BY DEF Update
  <2>3. sealedKeys' = [n \in SecretName |-> sealedKeys'[n]] /\ keyFile' = keyFile
    BY DEF Update
  <2> QED
    BY <2>1, <2>2, <2>3 DEF SealedAsGiven
<1> DEFINE i == browser[b].input
<1>2. ValidInput(i) /\ browser[b].step = "saving"
  BY DEF Update
<1>3. settingsRow.rev \in 0..MaxUpdates /\ prompt \in Prompts
  BY DEF SecretsInv, Rows, Stored, Settings
<1>4. prompt' \in Prompts
  <2>1. prompt' = PromptRow(i.prompt)
    BY DEF Update
  <2> HIDE DEF i
  <2> QED
    BY <1>2, <1>3, <2>1 DEF PromptRow, ValidInput, Prompts, Bundled
<1>5. i.node \in admitted \cup {NoPeer}
  BY <1>2, BrowserFields DEF BrowserOK, Admits
<1>6. settingsRow' = [rev |-> settingsRow.rev + 1, node |-> i.node] /\ settingsRow.rev < MaxUpdates
  BY DEF Update
<1>7. Stored' \in Settings
  BY <1>1, <1>3, <1>4, <1>5, <1>6, SecretConstants DEF Stored, Settings, SecretsInv, Nodes
<1>8. unseen' = FALSE
  BY BrowserFields DEF Update, Expected, BrowserOK, ShownOrOlder, SecretsInv, Nodes
<1>9. UNCHANGED <<keyFile, process, enabledPeers, admitted>> /\ browser' = EndRequest(b)
  BY DEF Update
<1> HIDE DEF i
<1>10. Keys' /\ Rows' /\ Nodes'
  BY <1>1, <1>5, <1>6, <1>7, <1>8, <1>9 DEF SecretsInv, Keys, KeyHeld, Rows, Nodes
<1>11. ASSUME NEW c \in Browser PROVE browser'[c] \in BrowserState /\ BrowserOK(browser[c])'
  <2>1. /\ browser'[c].seen = browser[c].seen
        /\ browser'[c] = browser[c]
           \/ browser'[c] = [browser[c] EXCEPT !.step = "idle", !.of = NoRequest, !.input = NoRequest]
    BY <1>9, BrowserFields DEF EndRequest, BrowserState, SecretsInv, Browsers
  <2>2. /\ browser[c] \in BrowserState /\ ServedAlive(browser[c]) /\ Admits(browser[c])
        /\ browser[c].seen.row.rev <= settingsRow.rev /\ browser[c].seen.row.rev \in Nat
    BY BrowserFields, SecretConstants DEF BrowserOK, ShownOrOlder, BrowserState, Settings
  <2>3. browser'[c] \in BrowserState
    BY <2>1, <2>2 DEF BrowserState
  <2>4. ServedAlive(browser[c])' /\ Admits(browser[c])'
    BY <1>9, <2>1, <2>2 DEF ServedAlive, Admits, BrowserState
  <2>5. ShownOrOlder(browser[c])'
    BY <1>3, <1>6, <2>1, <2>2 DEF ShownOrOlder
  <2> QED
    BY <2>3, <2>4, <2>5 DEF BrowserOK, BrowserState, Settings
<1>12. browser' \in [Browser -> BrowserState]
  <2>1. browser' = [c \in Browser |-> browser'[c]]
    BY <1>9 DEF EndRequest, SecretsInv, Browsers
  <2> QED
    BY <1>11, <2>1
<1>13. Browsers'
  BY <1>11, <1>12 DEF Browsers, BrowserState, Settings
<1> QED
  BY <1>10, <1>13 DEF SecretsInv

(* Every step keeps the invariant.                                         *)
LEMMA SecretsStepInv == SecretsInv /\ [SecretsNext]_secretVars => SecretsInv'
PROOF
<1> SUFFICES ASSUME SecretsInv, [SecretsNext]_secretVars PROVE SecretsInv'
  OBVIOUS
<1>1. ASSUME NEW b \in Browser, NEW p \in Process, ShowSettings(b, p) PROVE SecretsInv'
  <2> DEFINE r == [browser[b] EXCEPT !.seen = Stored]
  <2>1. Stored \in Settings /\ Stored.row.rev = settingsRow.rev /\ settingsRow.rev \in Nat
    BY SecretConstants DEF SecretsInv, Rows, Stored, Settings
  <2>2. BrowserOK(r)
    BY <2>1, BrowserFields DEF BrowserOK, BrowserState, ServedAlive, ShownOrOlder, Admits
  <2>3. browser' = [browser EXCEPT ![b] = r]
    BY <1>1 DEF ShowSettings
  <2> HIDE DEF r
  <2> QED
    BY <1>1, <2>2, <2>3, BrowserMoves DEF ShowSettings
<1>2. ASSUME NEW b \in Browser, NEW p \in Process, NEW i \in SettingsInput, Submit(b, p, i)
      PROVE  SecretsInv'
  <2> DEFINE r == [browser[b] EXCEPT
                     !.step = IF i.node \in {NoPeer, settingsRow.node} THEN "saving" ELSE "checking",
                     !.of = p, !.input = i]
  <2>1. settingsRow.node \in admitted \cup {NoPeer} /\ process[p].at = "ready"
    BY <1>2 DEF SecretsInv, Nodes, Submit
  <2>2. BrowserOK(r)
    BY <2>1, BrowserFields DEF BrowserOK, BrowserState, ServedAlive, ShownOrOlder, Admits
  <2>3. browser' = [browser EXCEPT ![b] = r]
    BY <1>2, BrowserFields DEF Submit, SecretsInv, Browsers, BrowserState
  <2> HIDE DEF r
  <2> QED
    BY <1>2, <2>2, <2>3, BrowserMoves DEF Submit
<1>3. ASSUME NEW b \in Browser, browser' = EndRequest(b),
             UNCHANGED <<keyFile, process, settingsRow, sealedKeys, prompt, enabledPeers, given,
                         admitted, unseen>>
      PROVE  SecretsInv'
  <2> DEFINE r == [browser[b] EXCEPT !.step = "idle", !.of = NoRequest, !.input = NoRequest]
  <2>1. BrowserOK(r)
    BY BrowserFields DEF BrowserOK, BrowserState, ServedAlive, ShownOrOlder, Admits
  <2>2. browser' = [browser EXCEPT ![b] = r]
    BY <1>3, BrowserFields DEF EndRequest, SecretsInv, Browsers, BrowserState
  <2> HIDE DEF r
  <2> QED
    BY <1>3, <2>1, <2>2, BrowserMoves
<1>4. ASSUME NEW b \in Browser, CheckReviewNode(b) PROVE SecretsInv'
  <2>1. CASE browser[b].input.node \notin enabledPeers
    BY <1>3, <1>4, <2>1 DEF CheckReviewNode
  <2>2. CASE browser[b].input.node \in enabledPeers
    <3>1. /\ browser' = [browser EXCEPT ![b].step = "saving"]
          /\ admitted' = admitted \cup {browser[b].input.node} /\ browser[b].step = "checking"
          /\ UNCHANGED <<keyFile, process, settingsRow, sealedKeys, prompt, enabledPeers, given, unseen>>
      BY <1>4, <2>2 DEF CheckReviewNode
    <3>2. Keys' /\ Rows' /\ Nodes'
      BY <2>2, <3>1 DEF SecretsInv, Keys, KeyHeld, Rows, SealedAsGiven, Nodes, Stored
    <3>3. ASSUME NEW c \in Browser PROVE browser'[c] \in BrowserState /\ BrowserOK(browser[c])'
      <4>1. CASE c = b
        <5>1. browser'[b] = [browser[b] EXCEPT !.step = "saving"]
          BY <3>1 DEF SecretsInv, Browsers
        <5> QED
          BY <3>1, <4>1, <5>1, BrowserFields
             DEF BrowserOK, BrowserState, ServedAlive, ShownOrOlder, Admits, Stored, Settings
      <4>2. CASE c # b
        <5>1. browser'[c] = browser[c]
          BY <3>1, <4>2 DEF SecretsInv, Browsers
        <5> QED
          BY <3>1, <5>1, BrowserFields
             DEF BrowserOK, BrowserState, ServedAlive, ShownOrOlder, Admits, Stored, Settings
      <4> QED
        BY <4>1, <4>2
    <3>4. browser' \in [Browser -> BrowserState]
      <4>1. browser' = [c \in Browser |-> browser'[c]]
        BY <3>1 DEF SecretsInv, Browsers
      <4> QED
        BY <3>3, <4>1
    <3> QED
      BY <3>2, <3>3, <3>4 DEF SecretsInv, Browsers, BrowserState, Settings
  <2> QED
    BY <2>1, <2>2
<1>5. ASSUME NEW b \in Browser, RefuseUpdate(b) PROVE SecretsInv'
  BY <1>3, <1>5 DEF RefuseUpdate
<1>6. ASSUME NEW q \in Peer, ChangePeer(q) PROVE SecretsInv'
  <2>1. Stored' = Stored
    BY <1>6 DEF ChangePeer, Stored
  <2>2. Keys' /\ Rows' /\ Nodes'
    BY <1>6, <2>1 DEF ChangePeer, SecretsInv, Keys, KeyHeld, Rows, SealedAsGiven, Nodes
  <2>3. Browsers'
    BY <1>6, <2>1 DEF ChangePeer, SecretsInv, Browsers, BrowserOK, BrowserState, ServedAlive,
                      ShownOrOlder, Admits, Settings
  <2> QED
    BY <2>2, <2>3 DEF SecretsInv
<1>7. CASE UNCHANGED secretVars
  BY <1>7 DEF secretVars, SecretsInv, Keys, KeyHeld, Rows, SealedAsGiven, Nodes, Stored, Browsers,
              BrowserOK, BrowserState, ServedAlive, ShownOrOlder, Admits, Settings
<1> QED
  BY <1>1, <1>2, <1>4, <1>5, <1>6, <1>7, ProcessMoves, UpdateKeeps DEF SecretsNext

(* However many servers start over one data directory, stop and start      *)
(* again, each that is up reads every API key as it was last given, and a  *)
(* cleared one as empty (settings/runtime.go, loadOrCreateKey, Update).    *)
THEOREM SecretsAreReadAsGiven == SecretsSpec => []SecretsOpen
PROOF
<1>1. ASSUME SecretsInv, NEW p \in Process, NEW n \in SecretName, process[p].at = "ready"
      PROVE  SecretOf(p, n) = IF given[n] = AsStarted THEN process[p].env[n] ELSE given[n]
  <2>1. IF given[n] = AsStarted THEN sealedKeys[n] = NoSecret
        ELSE sealedKeys[n] = [key |-> keyFile, name |-> n, value |-> given[n]]
    BY <1>1 DEF SecretsInv, Rows, SealedAsGiven
  <2>2. keyFile \in Process /\ process[p].key = keyFile /\ given[n] \in Given \cup {AsStarted}
    BY <1>1 DEF SecretsInv, Keys, KeyHeld, Rows
  <2>3. CASE given[n] = AsStarted
    BY <2>1, <2>3 DEF SecretOf
  <2>4. CASE given[n] # AsStarted
    <3> DEFINE row == [key |-> keyFile, name |-> n, value |-> given[n]]
    <3>1. sealedKeys[n] = row /\ row # NoSecret
      BY <2>1, <2>2, <2>4, SecretConstants
    <3> QED
      BY <2>2, <2>4, <3>1 DEF SecretOf, OpenSeal
  <2> QED
    BY <2>3, <2>4
<1>2. SecretsInv => SecretsOpen
  BY <1>1 DEF SecretsOpen
<1> QED
  BY <1>2, SecretsInitInv, SecretsStepInv, PTL DEF SecretsSpec

(* A save that names a revision replaces what its browser showed, and a    *)
(* review node was found enabled when it was chosen (Update and            *)
(* updateRuntimeAISettings).                                               *)
THEOREM SavesReplaceWhatWasShown == SecretsSpec => []NothingUnseen
PROOF
<1>1. SecretsInv => NothingUnseen
  BY DEF SecretsInv, Nodes, NothingUnseen
<1> QED
  BY <1>1, SecretsInitInv, SecretsStepInv, PTL DEF SecretsSpec

(* The settings keep their types (settings/runtime.go).                    *)
LEMMA SecretsTypesHold == SecretsSpec => []SecretsTypeOK
PROOF
<1>1. SecretsInv => SecretsTypeOK
  BY DEF SecretsInv, Keys, Rows, Browsers, Nodes, BrowserState, SecretsTypeOK
<1> QED
  BY <1>1, SecretsInitInv, SecretsStepInv, PTL DEF SecretsSpec

(* ---- context deliveries ---------------------------------------------------- *)
(* What a row and an answer say of consumption was established by some     *)
(* acknowledgment; the invariant adds what a call has established between  *)
(* its comparison and its update (Acknowledging).                          *)

(* An acknowledgment that has passed the comparison is one of the host's.  *)
Acknowledging ==
  \A c \in DCall :
    AtStep(c, "acknowledging") => dcall[c].revision \in acked[dcall[c].slot]

(* The invariant in three parts, each of rows or of calls alone.           *)
RowsWereAcked ==
  \A s \in Slot :
    delivery[s] # NoDelivery /\ delivery[s].status = "host_consumed"
      => delivery[s].revision \in acked[s]

AnswersWereAcked ==
  \A c \in DCall :
    AtStep(c, "recording") /\ dcall[c].says = "host_consumed"
      => dcall[c].revision \in acked[dcall[c].slot]

DeliveryInv == DeliveryTypeOK /\ Acknowledging /\ RowsWereAcked /\ AnswersWereAcked

(* A row or a call keeps what it was acknowledged for, as the set of       *)
(* acknowledged revisions only grows.                                      *)
LEMMA JobKinds ==
  ASSUME NEW j \in Job
  PROVE  /\ j.step = "acknowledging" => j.slot \in Slot /\ j.revision \in DRevision
         /\ j.step = "recording" =>
              /\ j.slot \in Slot /\ j.revision \in DRevision
              /\ j.says \in {"returned", "host_consumed"}
PROOF BY DEF Job

(* The initial rows and calls.                                             *)
LEMMA DeliveryInitInv == DeliveryInit => DeliveryInv
PROOF
  BY DEF DeliveryInit, DeliveryInv, DeliveryTypeOK, Acknowledging, RowsWereAcked,
         AnswersWereAcked, IdleCall, Job, AtStep

(* Every step keeps the invariant.                                         *)
LEMMA DeliveryStepInv == DeliveryInv /\ [DeliveryNext]_deliveryVars => DeliveryInv'
PROOF
<1> SUFFICES ASSUME DeliveryInv, [DeliveryNext]_deliveryVars PROVE DeliveryInv'
  OBVIOUS
<1> USE DEF DeliveryInv, DeliveryTypeOK, Acknowledging, RowsWereAcked, AnswersWereAcked
<1> USE DEF AtStep, Advance, IdleCall, DeliveryRow
<1>1. ASSUME NEW c \in DCall, BeginCall(c) PROVE DeliveryInv'
  BY <1>1, JobKinds DEF BeginCall, Job
<1>2. ASSUME NEW c \in DCall, NEW s \in Slot, NEW r \in DRevision, ReadDelivery(c, s, r)
      PROVE  DeliveryInv'
  BY <1>2, JobKinds DEF ReadDelivery, Job
<1>3. ASSUME NEW c \in DCall, Consume(c) PROVE DeliveryInv'
  BY <1>3, JobKinds DEF Consume, Consumed, Job, Owned
<1>4. ASSUME NEW c \in DCall, NEW s \in Slot, NEW r \in DRevision, Compute(c, s, r)
      PROVE  DeliveryInv'
  BY <1>4, JobKinds DEF Compute, Seen, Job
<1>5. ASSUME NEW c \in DCall, Record(c) PROVE DeliveryInv'
  BY <1>5, JobKinds DEF Record, Returned, Job, Owned
<1>6. ASSUME NEW c \in DCall, CallFails(c) PROVE DeliveryInv'
  BY <1>6, JobKinds DEF CallFails, Job
<1>7. CASE DeleteSession
  BY <1>7 DEF DeleteSession
<1>8. CASE UNCHANGED deliveryVars
  BY <1>8 DEF deliveryVars
<1> QED
  BY <1>1, <1>2, <1>3, <1>4, <1>5, <1>6, <1>7, <1>8 DEF DeliveryNext

(* Rows, calls and acknowledgments are what the table and the handlers     *)
(* hold, and a deleted session leaves no delivery (delivery.go).           *)
THEOREM DeliveryTypes == DeliverySpec => []DeliveryTypeOK
PROOF
<1>1. DeliveryInv => DeliveryTypeOK
  BY DEF DeliveryInv
<1> QED
  BY <1>1, DeliveryInitInv, DeliveryStepInv, PTL DEF DeliverySpec

(* Whatever calls overlap, a delivery counts as consumed, and an answer    *)
(* says so, only of a revision the host acknowledged (delivery.go,         *)
(* AcknowledgeContextConsumed).                                            *)
THEOREM ConsumptionIsAcknowledged == DeliverySpec => []ConsumedWasAcked
PROOF
<1>1. DeliveryInv => ConsumedWasAcked
  BY DEF DeliveryInv, RowsWereAcked, AnswersWereAcked, ConsumedWasAcked
<1> QED
  BY <1>1, DeliveryInitInv, DeliveryStepInv, PTL DEF DeliverySpec

(* ---- the settings and the scheduler of stage 3 ---------------------------- *)

(* One request at a time applies.  While every request that has saved has  *)
(* loaded and none failed, the one that applies has the row and memory has *)
(* it or is about to.                                                      *)
OneApplies ==
  \A d, e \in Editor : editing[d].step \in {"loaded", "set"} /\ editing[e].step \in {"loaded", "set"} => d = e
MemoryFollows ==
  (~missed /\ \A e \in Editor : editing[e].step # "saved") =>
    /\ \A e \in Editor : editing[e].step = "loaded" => editing[e].got = storedRow
    /\ (\A e \in Editor : editing[e].step # "loaded") => config = storedRow

(* Whoever sleeps sleeps by what memory holds, or is about to be woken.    *)
SleepsBy ==
  scheduler.at \in {"off", "waiting"} /\ ~wake =>
    scheduler.config = config \/ \E e \in Editor : editing[e].step = "set"

EditingState == [step : {"idle", "saved", "loaded", "set"}, got : Config]
SchedulerState == [at : {"deciding", "running", "off", "waiting"}, config : Config, last : 0..MaxNow]
EvolutionInv == EvolutionTypeOK /\ OneApplies /\ MemoryFollows /\ SleepsBy

LEMMA NewScheduler ==
  ASSUME EvolutionTypeOK
  PROVE  /\ scheduler \in SchedulerState
         /\ \A at \in {"deciding", "running"} :
              /\ [scheduler EXCEPT !.at = at] \in SchedulerState
              /\ [scheduler EXCEPT !.at = at].at = at
              /\ [scheduler EXCEPT !.at = at, !.last = now] \in SchedulerState
              /\ [scheduler EXCEPT !.at = at, !.last = now].at = at
PROOF
<1>1. scheduler \in SchedulerState /\ now \in 0..MaxNow
  BY Intervals DEF EvolutionTypeOK, SchedulerState
<1> QED
  BY <1>1 DEF SchedulerState

LEMMA EvolutionInitInv == EvolutionInit => EvolutionInv
PROOF
<1> SUFFICES ASSUME EvolutionInit PROVE EvolutionInv
  OBVIOUS
<1>1. storedRow \in Config /\ config = storedRow
  BY Intervals DEF EvolutionInit, Config
<1>3. scheduler \in SchedulerState /\ now \in 1..MaxNow
  BY <1>1, Intervals DEF EvolutionInit, Never, SchedulerState
<1>4. editing \in [Editor -> EditingState]
  BY <1>1 DEF EvolutionInit, AtRest, EditingState
<1>2. EvolutionTypeOK
  BY <1>1, <1>3, <1>4 DEF EvolutionInit, EvolutionTypeOK, SchedulerState, EditingState
<1> QED
  BY <1>1, <1>2 DEF EvolutionInit, EvolutionInv, OneApplies, MemoryFollows, SleepsBy, AtRest

LEMMA EvolutionStepInv == EvolutionInv /\ [EvolutionNext]_evolutionVars => EvolutionInv'
PROOF
<1> SUFFICES ASSUME EvolutionInv, [EvolutionNext]_evolutionVars PROVE EvolutionInv'
  OBVIOUS
<1> USE Intervals DEF EvolutionInv, EvolutionTypeOK, OneApplies, MemoryFollows, SleepsBy, Editing
<1>1. ASSUME NEW e \in Editor, NEW on \in BOOLEAN, NEW every \in Interval, Save(e, on, every)
      PROVE  EvolutionInv'
  BY <1>1 DEF Save, Config
<1>2. ASSUME NEW e \in Editor, LoadSaved(e) PROVE EvolutionInv'
  BY <1>2 DEF LoadSaved, ApplyFree
<1>3. ASSUME NEW e \in Editor, ApplyFails(e) PROVE EvolutionInv'
  BY <1>3 DEF ApplyFails
<1>4. ASSUME NEW e \in Editor, SetConfig(e) PROVE EvolutionInv'
  BY <1>4 DEF SetConfig
<1>5. ASSUME NEW e \in Editor, Notify(e) PROVE EvolutionInv'
  BY <1>5 DEF Notify
<1>6. CASE Decide
  BY <1>6 DEF Decide, Never
<1>7. CASE FinishRun
  <2>1. scheduler'.at = "deciding" /\ scheduler' \in SchedulerState
    BY <1>7, NewScheduler DEF FinishRun
  <2> QED
    BY <1>7, <2>1 DEF FinishRun, SchedulerState
<1>8. CASE WakeUp
  <2>1. scheduler'.at = "deciding" /\ scheduler' \in SchedulerState
    BY <1>8, NewScheduler DEF WakeUp
  <2> QED
    BY <1>8, <2>1 DEF WakeUp, SchedulerState
<1>10. CASE TimerFires
  <2>1. scheduler'.at = "running" /\ scheduler' \in SchedulerState
    BY <1>10, NewScheduler DEF TimerFires
  <2> QED
    BY <1>10, <2>1 DEF TimerFires, SchedulerState
<1>11. CASE TimePasses
  BY <1>11 DEF TimePasses
<1>9. CASE UNCHANGED evolutionVars
  BY <1>9 DEF evolutionVars
<1> QED
  BY <1>1, <1>2, <1>3, <1>4, <1>5, <1>6, <1>7, <1>8, <1>9, <1>10, <1>11
     DEF EvolutionNext

(* Whichever settings request was the last to load, memory holds the saved *)
(* row once all are over, and a scheduler that sleeps on sleeps by it      *)
(* (evolution/stage3.go, applyAISettings).                                 *)
THEOREM SchedulerLivesBySettings == EvolutionSpec => []SchedulerFollows
PROOF
<1>1. EvolutionInv => SchedulerFollows
  BY DEF EvolutionInv, MemoryFollows, SleepsBy, SchedulerFollows
<1> QED
  BY <1>1, EvolutionInitInv, EvolutionStepInv, PTL DEF EvolutionSpec

(* The scheduler and its settings keep their types.                        *)
LEMMA EvolutionTypesHold == EvolutionSpec => []EvolutionTypeOK
PROOF
<1>1. EvolutionInv => EvolutionTypeOK
  BY DEF EvolutionInv
<1> QED
  BY <1>1, EvolutionInitInv, EvolutionStepInv, PTL DEF EvolutionSpec

(* ---- proposals of stage 3 -------------------------------------------------- *)

(* The snapshot is of nodes, and does not change while candidates are      *)
(* proposed.                                                               *)
ProposalInv == owners \in [Ref -> SUBSET SNode] /\ EvidenceStaysHome

Home(p) ==
  /\ \A r \in p.refs : owners[r] = {p.target}
  /\ p.candidate.device \subseteq {p.target}
  /\ \A m \in SNode : SourceNodes(p.candidate) = {m} => p.target = m
  /\ p.candidate.deviceScope => p.candidate.device = {p.target}

(* A source that is alone is the target, and a device that is named.       *)
LEMMA TargetIsHome ==
  ASSUME owners \in [Ref -> SUBSET SNode], NEW c \in Candidate,
         NEW review \in {{}} \cup {{n} : n \in SNode}, NEW n \in TargetNode(c, review)
  PROVE  /\ c.device \subseteq {n}
         /\ \A m \in SNode : SourceNodes(c) = {m} => n = m
         /\ c.deviceScope => c.device = {n}
PROOF
<1>1. c.device = {} \/ \E m \in SNode : c.device = {m}
  BY DEF Candidate
<1>2. \A m \in SNode : SourceNodes(c) = {m} => Cardinality(SourceNodes(c)) = 1
  BY FS_Singleton
<1>3. CASE c.device # {} \/ c.deviceScope
  <2>1. n \in DeviceTarget(c)
    BY <1>3 DEF TargetNode
  <2> QED
    BY <1>1, <2>1 DEF DeviceTarget
<1>4. CASE c.device = {} /\ ~c.deviceScope
  BY <1>2, <1>4 DEF TargetNode
<1> QED
  BY <1>3, <1>4

(* Whatever the reviewing model makes of the snapshot, no evidence leaves  *)
(* the node it comes from (evolution/stage3.go, stage3TargetNode,          *)
(* stage3HardEvidence).                                                    *)
THEOREM EvidenceStays == ProposalSpec => []EvidenceStaysHome
PROOF
<1>1. ProposalInit => ProposalInv
  BY DEF ProposalInit, ProposalInv, EvidenceStaysHome
<1>2. ProposalInv /\ [ProposalNext]_proposalVars => ProposalInv'
  <2> SUFFICES ASSUME ProposalInv, [ProposalNext]_proposalVars PROVE ProposalInv'
    OBVIOUS
  <2>1. ASSUME NEW c \in Candidate, NEW review \in {{}} \cup {{n} : n \in SNode}, Propose(c, review)
        PROVE  ProposalInv'
    <3>1. PICK n \in TargetNode(c, review) :
            /\ posted' = posted \cup {[candidate |-> c, target |-> n, refs |-> HardEvidence(c, n),
                                       review |-> review]}
            /\ UNCHANGED <<enabledNodes, owners, reviewers>>
      BY <2>1 DEF Propose
    <3>2. /\ c.device \subseteq {n}
          /\ c.deviceScope => c.device = {n}
          /\ \A m \in SNode : SourceNodes(c) = {m} => n = m
      BY TargetIsHome DEF ProposalInv
    <3>3. \A r \in HardEvidence(c, n) : owners[r] = {n}
      BY DEF HardEvidence
    <3>4. ASSUME NEW p \in posted'
          PROVE  Home(p)
      <4>1. CASE p \in posted
        BY <4>1 DEF ProposalInv, EvidenceStaysHome, Home
      <4>2. CASE p \notin posted
        <5> DEFINE q == [candidate |-> c, target |-> n, refs |-> HardEvidence(c, n),
                         review |-> review]
        <5>1. q.candidate = c /\ q.target = n /\ q.refs = HardEvidence(c, n) /\ p = q
          BY <3>1, <4>2
        <5> HIDE DEF q
        <5>2. /\ \A r \in q.refs : owners[r] = {q.target}
              /\ q.candidate.device \subseteq {q.target}
              /\ \A m \in SNode : SourceNodes(q.candidate) = {m} => q.target = m
          BY <3>2, <3>3, <5>1
        <5>3. q.candidate.deviceScope => q.candidate.device = {q.target}
          BY <3>2, <5>1
        <5> QED
          BY <5>1, <5>2, <5>3 DEF Home
      <4> QED
        BY <4>1, <4>2
    <3>5. \A p \in posted' : SourceNodes(p.candidate)' = SourceNodes(p.candidate)
      BY <3>1 DEF SourceNodes, ValidRefs
    <3> QED
      BY <3>1, <3>4, <3>5 DEF ProposalInv, EvidenceStaysHome, Home
  <2>2. CASE (\E n \in SNode : Toggle(n)) \/ UNCHANGED proposalVars
    BY <2>2 DEF Toggle, proposalVars, ProposalInv, EvidenceStaysHome, SourceNodes, ValidRefs
  <2> QED
    BY <2>1, <2>2 DEF ProposalNext
<1>3. ProposalInv => EvidenceStaysHome
  BY DEF ProposalInv
<1> QED
  BY <1>1, <1>2, <1>3, PTL DEF ProposalSpec

(* A proposal is for a node, with references of the snapshot.              *)
LEMMA ProposalTypesHold == ProposalSpec => []ProposalTypeOK
PROOF
<1>1. ProposalInit => ProposalTypeOK
  BY DEF ProposalInit, ProposalTypeOK
<1>2. ProposalTypeOK /\ [ProposalNext]_proposalVars => ProposalTypeOK'
  <2> SUFFICES ASSUME ProposalTypeOK, [ProposalNext]_proposalVars PROVE ProposalTypeOK'
    OBVIOUS
  <2>1. ASSUME NEW c \in Candidate, NEW review \in {{}} \cup {{n} : n \in SNode}, Propose(c, review)
        PROVE  ProposalTypeOK'
    <3>1. PICK n \in TargetNode(c, review) :
            /\ posted' = posted \cup {[candidate |-> c, target |-> n, refs |-> HardEvidence(c, n),
                                       review |-> review]}
            /\ UNCHANGED <<enabledNodes, owners, reviewers>>
      BY <2>1 DEF Propose
    <3>2. n \in SNode
      BY DEF TargetNode, ProposalTypeOK
    <3>3. HardEvidence(c, n) \subseteq Ref
      BY DEF HardEvidence, ValidRefs, Candidate
    <3>4. ASSUME NEW p \in posted'
          PROVE  p.candidate \in Candidate /\ p.target \in SNode /\ p.refs \subseteq Ref
      <4>1. CASE p \in posted
        BY <4>1 DEF ProposalTypeOK
      <4>2. CASE p \notin posted
        <5>1. p = [candidate |-> c, target |-> n, refs |-> HardEvidence(c, n), review |-> review]
          BY <3>1, <4>2
        <5>2. p.candidate = c /\ p.target = n /\ p.refs = HardEvidence(c, n)
          BY <5>1
        <5> QED
          BY <3>2, <3>3, <5>2
      <4> QED
        BY <4>1, <4>2
    <3> QED
      BY <3>1, <3>4 DEF ProposalTypeOK
  <2>2. CASE (\E n \in SNode : Toggle(n)) \/ UNCHANGED proposalVars
    BY <2>2 DEF Toggle, proposalVars, ProposalTypeOK
  <2> QED
    BY <2>1, <2>2 DEF ProposalNext
<1> QED
  BY <1>1, <1>2, PTL DEF ProposalSpec

(* ---- versions of the data repository --------------------------------------- *)

HiddenPath == PrivatePath \cup RuntimePath
RecorderState ==
  [at : {"rest", "changed", "guard", "update", "others", "add", "staged", "commit", "log",
         "recheck"},
   wrote : SUBSET (File \X (1..MaxContent)), list : SUBSET File]
VersionTypes ==
  /\ tree \in [File -> 0..MaxContent] /\ gitIndex \in [File -> 0..MaxContent]
  /\ head \in [File -> 0..MaxContent]
  /\ ignored \in BOOLEAN /\ recorder \in [Recorder -> RecorderState] /\ unrecorded = {}

(* A place never has newer contents than the one it is copied from.        *)
NewerAtSource == \A f \in File : head[f] <= gitIndex[f] /\ gitIndex[f] <= tree[f]
NothingHidden == \A f \in HiddenPath : ~There(gitIndex[f]) /\ ~There(head[f])
ListsAreOpen == \A r \in Recorder : \A f \in recorder[r].list : f \notin HiddenPath

(* A change is in a place if the place is as new, or the same to git, or   *)
(* if the file was changed again.                                          *)
Has(place, f, v) == place[f] >= v \/ tree[f] > v \/ Same(place[f], v)

(* How far the recording of a handler has come with a change of its own.   *)
Staging(r, f, v) ==
  /\ IsAt(r, "others") => Has(gitIndex, f, v) \/ ~There(gitIndex[f])
  /\ IsAt(r, "add") => Has(gitIndex, f, v) \/ f \in recorder[r].list
  /\ recorder[r].at \in {"staged", "commit", "log"} => Has(gitIndex, f, v)
  /\ IsAt(r, "log") => Has(head, f, v)
StagedInOrder ==
  \A r \in Recorder, f \in File, v \in 1..MaxContent :
    <<f, v>> \in recorder[r].wrote => v <= tree[f] /\ (f \notin HiddenPath => Staging(r, f, v))

VersionInv == VersionTypes /\ NewerAtSource /\ NothingHidden /\ ListsAreOpen /\ StagedInOrder

LEMMA VersionInitInv == VersioningInit => VersionInv
PROOF
<1> SUFFICES ASSUME VersioningInit PROVE VersionInv
  OBVIOUS
<1>1. ~There(0)
  BY DEF There
<1>2. VersionTypes
  BY VersioningConstants DEF VersioningInit, VersionTypes, RecorderState, Resting
<1> QED
  BY <1>1, <1>2, VersioningConstants
  DEF VersioningInit, VersionInv, Resting, NewerAtSource, NothingHidden, ListsAreOpen,
      StagedInOrder, HiddenPath

(* A recording that succeeds because nothing differs, or that has reached  *)
(* the log, missed nothing.                                                *)
LEMMA CleanMissesNothing ==
  ASSUME VersionInv, NEW r \in Recorder, ~IsDirty \/ IsAt(r, "log")
  PROVE  Missed(r) = {}
PROOF
<1>1. ASSUME NEW f \in File, NEW v \in 1..MaxContent, <<f, v>> \in recorder[r].wrote,
             f \notin HiddenPath, head[f] < v, tree[f] <= v
      PROVE  Same(head[f], v)
  <2>1. v <= tree[f] /\ (IsAt(r, "log") => Has(head, f, v))
    BY <1>1 DEF VersionInv, StagedInOrder, Staging
  <2>2. head[f] \in Nat /\ gitIndex[f] \in Nat /\ tree[f] \in Nat /\ v = tree[f]
    BY <1>1, <2>1, VersioningConstants DEF VersionInv, VersionTypes
  <2>3. CASE ~IsDirty
    <3>1. f \in File \ RuntimePath /\ f \in Unignored
      BY <1>1 DEF HiddenPath, Unignored
    <3> QED
      BY <2>2, <2>3, <3>1 DEF IsDirty, Differs, Same
  <2>4. CASE IsAt(r, "log")
    BY <1>1, <2>1, <2>2, <2>4 DEF Has
  <2> QED
    BY <2>3, <2>4
<1>2. recorder[r].wrote \subseteq File \X (1..MaxContent)
  BY DEF VersionInv, VersionTypes, RecorderState
<1> QED
  BY <1>1, <1>2, VersioningConstants DEF Missed, HiddenPath

(* What is given up, or is over, leaves everything else as it is.          *)
LEMMA RecorderRests ==
  ASSUME VersionInv, NEW r \in Recorder, recorder' = [recorder EXCEPT ![r] = Resting],
         UNCHANGED <<tree, gitIndex, head, ignored, unrecorded>>
  PROVE  VersionInv'
PROOF
<1>1. Resting \in RecorderState /\ Resting.wrote = {} /\ Resting.list = {}
  BY DEF Resting, RecorderState
<1> HIDE DEF Resting
<1>2. recorder' \in [Recorder -> RecorderState] /\ recorder'[r] = Resting
      /\ \A q \in Recorder \ {r} : recorder'[q] = recorder[q]
  BY <1>1 DEF VersionInv, VersionTypes
<1> QED
  BY <1>1, <1>2
  DEF VersionInv, VersionTypes, NewerAtSource, NothingHidden, ListsAreOpen, StagedInOrder, Staging,
      Has, IsAt

(* A handler that goes on to another command stays where it is otherwise.  *)
LEMMA RecorderGoes ==
  ASSUME VersionInv, NEW r \in Recorder, NEW at \in {"guard", "update", "others", "staged",
                                                     "commit", "log", "recheck"},
         Goto(r, at)
  PROVE  /\ recorder' \in [Recorder -> RecorderState]
         /\ recorder'[r].at = at
         /\ recorder'[r].wrote = recorder[r].wrote /\ recorder'[r].list = recorder[r].list
         /\ \A q \in Recorder \ {r} : recorder'[q] = recorder[q]
PROOF
<1>1. recorder[r] \in RecorderState
  BY DEF VersionInv, VersionTypes
<1>2. /\ [recorder[r] EXCEPT !.at = at] \in RecorderState
      /\ [recorder[r] EXCEPT !.at = at].at = at
      /\ [recorder[r] EXCEPT !.at = at].wrote = recorder[r].wrote
      /\ [recorder[r] EXCEPT !.at = at].list = recorder[r].list
  BY <1>1 DEF RecorderState
<1> QED
  BY <1>2 DEF Goto, VersionInv, VersionTypes

(* What is added is as new as the tree; where nothing is added, or what is *)
(* there was the same to git, it stays in.                                 *)
LEMMA AddingKeeps ==
  ASSUME VersionInv, NEW S \in SUBSET File,
         gitIndex' = [f \in File |-> IF f \in S THEN tree[f] ELSE gitIndex[f]],
         \A f \in S : f \notin HiddenPath,
         UNCHANGED <<tree, head>>
  PROVE  /\ gitIndex' \in [File -> 0..MaxContent] /\ NewerAtSource' /\ NothingHidden'
         /\ \A f \in File, v \in 1..MaxContent :
              v <= tree[f] =>
                /\ Has(gitIndex, f, v) => Has(gitIndex, f, v)'
                /\ Has(head, f, v) => Has(head, f, v)'
                /\ f \in S => Has(gitIndex, f, v)'
                /\ Has(gitIndex, f, v) \/ ~There(gitIndex[f]) =>
                     Has(gitIndex, f, v)' \/ ~There(gitIndex'[f])
PROOF
<1>1. \A f \in File : head[f] \in Nat /\ gitIndex[f] \in Nat /\ tree[f] \in Nat
  BY VersioningConstants DEF VersionInv, VersionTypes
<1>2. \A f \in File : gitIndex'[f] = IF f \in S THEN tree[f] ELSE gitIndex[f]
  OBVIOUS
<1>3. gitIndex' \in [File -> 0..MaxContent] /\ NewerAtSource'
  BY <1>1, <1>2 DEF VersionInv, VersionTypes, NewerAtSource
<1>4. NothingHidden'
  BY <1>2, VersioningConstants DEF VersionInv, NothingHidden, HiddenPath
<1>5. ASSUME NEW f \in File, NEW v \in 1..MaxContent, v <= tree[f]
      PROVE  /\ Has(gitIndex, f, v) => Has(gitIndex, f, v)'
             /\ Has(head, f, v) => Has(head, f, v)'
             /\ f \in S => Has(gitIndex, f, v)'
             /\ Has(gitIndex, f, v) \/ ~There(gitIndex[f]) =>
                  Has(gitIndex, f, v)' \/ ~There(gitIndex'[f])
  BY <1>1, <1>2, <1>5 DEF Has
<1> QED
  BY <1>3, <1>4, <1>5

LEMMA VersionStepInv == VersionInv /\ [VersioningNext]_versionVars => VersionInv'
PROOF
<1> SUFFICES ASSUME VersionInv, [VersioningNext]_versionVars PROVE VersionInv'
  OBVIOUS
<1> USE DEF IsAt
<1>1. ASSUME NEW r \in Recorder, NEW f \in File, Change(r, f) PROVE VersionInv'
  <2>1. PICK v \in 1..MaxContent :
          /\ v = tree[f] + 1 \/ (v = tree[f] + 2 /\ There(v))
          /\ tree' = [tree EXCEPT ![f] = v]
          /\ recorder' = [recorder EXCEPT ![r] =
                [[recorder[r] EXCEPT !.wrote = @ \cup {<<f, v>>}] EXCEPT !.at = "changed"]]
    BY <1>1 DEF Change, VersionInv, VersionTypes
  <2>2. /\ recorder[r] \in RecorderState /\ recorder[r].at \in {"rest", "changed"}
        /\ UNCHANGED <<gitIndex, head, ignored, unrecorded>>
    BY <1>1 DEF Change, VersionInv, VersionTypes
  <2> DEFINE q == [[recorder[r] EXCEPT !.wrote = @ \cup {<<f, v>>}] EXCEPT !.at = "changed"]
  <2>3. /\ q \in RecorderState /\ q.at = "changed" /\ q.list = recorder[r].list
        /\ q.wrote = recorder[r].wrote \cup {<<f, v>>}
    <3>1. recorder[r].wrote \cup {<<f, v>>} \in SUBSET (File \X (1..MaxContent))
      BY <2>2 DEF RecorderState
    <3> HIDE DEF There
    <3> QED
      BY <2>2, <3>1 DEF RecorderState
  <2>9. recorder' = [recorder EXCEPT ![r] = q]
    BY <2>1
  <2> HIDE DEF q
  <2>4. recorder' \in [Recorder -> RecorderState] /\ recorder'[r] = q
        /\ \A p \in Recorder \ {r} : recorder'[p] = recorder[p]
    BY <2>9, <2>3 DEF VersionInv, VersionTypes
  <2>5. /\ tree' \in [File -> 0..MaxContent] /\ tree'[f] = v /\ tree[f] < v
        /\ \A g \in File \ {f} : tree'[g] = tree[g]
    BY <2>1, VersioningConstants DEF VersionInv, VersionTypes
  <2>6. \A g \in File : head[g] \in Nat /\ gitIndex[g] \in Nat
                      /\ tree[g] \in Nat /\ tree'[g] \in Nat /\ tree[g] <= tree'[g]
    BY <2>5, VersioningConstants DEF VersionInv, VersionTypes
  <2>7. VersionTypes' /\ NewerAtSource' /\ NothingHidden' /\ ListsAreOpen'
    BY <2>2, <2>3, <2>4, <2>5, <2>6
    DEF VersionInv, VersionTypes, NewerAtSource, NothingHidden, ListsAreOpen
  <2>8. ASSUME NEW p \in Recorder, NEW g \in File, NEW w \in 1..MaxContent,
               <<g, w>> \in recorder'[p].wrote
        PROVE  w <= tree'[g] /\ (g \notin HiddenPath => Staging(p, g, w)')
    <3>1. CASE p = r
      <4>1. recorder'[p].at = "changed"
        BY <2>3, <2>4, <3>1
      <4>2. w <= tree'[g]
        BY <2>3, <2>4, <2>5, <2>6, <2>8, <3>1 DEF VersionInv, StagedInOrder
      <4> QED
        BY <4>1, <4>2 DEF Staging
    <3>2. CASE p # r
      <4>1. recorder'[p] = recorder[p]
        BY <2>4, <3>2
      <4>2. w <= tree[g] /\ (g \notin HiddenPath => Staging(p, g, w))
        BY <2>8, <4>1 DEF VersionInv, StagedInOrder
      <4>3. /\ Has(gitIndex, g, w) => Has(gitIndex, g, w)'
            /\ Has(head, g, w) => Has(head, g, w)'
        BY <2>2, <2>6 DEF Has
      <4> QED
        BY <2>2, <2>6, <4>1, <4>2, <4>3 DEF Staging
    <3> QED
      BY <3>1, <3>2
  <2> QED
    BY <2>7, <2>8 DEF VersionInv, StagedInOrder
<1>2. CASE EditIgnore \/ UNCHANGED versionVars
  <2>1. UNCHANGED <<tree, gitIndex, head, recorder, unrecorded>> /\ ignored' \in BOOLEAN
    BY <1>2 DEF EditIgnore, versionVars, VersionInv, VersionTypes
  <2> QED
    BY <2>1
    DEF VersionInv, VersionTypes, NewerAtSource, NothingHidden, ListsAreOpen, StagedInOrder,
        Staging, Has
<1>3. ASSUME NEW r \in Recorder, ~IsDirty \/ IsAt(r, "log"), Succeed(r),
             UNCHANGED <<tree, gitIndex, head, ignored>>
      PROVE  VersionInv'
  <2>1. unrecorded' = unrecorded /\ recorder' = [recorder EXCEPT ![r] = Resting]
    BY <1>3, CleanMissesNothing DEF Succeed
  <2> QED
    BY <1>3, <2>1, RecorderRests
<1>4. ASSUME NEW r \in Recorder, UNCHANGED <<tree, gitIndex, head, ignored, unrecorded>>,
             \/ Status(r) /\ Goto(r, "guard")
             \/ GuardPrivate(r) /\ Goto(r, "update")
             \/ GuardBulk(r) /\ Goto(r, "commit")
             \/ Commit(r) /\ Goto(r, "recheck")
      PROVE  VersionInv'
  <2>1. PICK at \in {"guard", "update", "commit", "recheck"} :
          Goto(r, at) /\ (at = "commit" => recorder[r].at = "staged")
    BY <1>4 DEF GuardBulk
  <2>2. /\ recorder' \in [Recorder -> RecorderState]
        /\ recorder'[r].at = at
        /\ recorder'[r].wrote = recorder[r].wrote /\ recorder'[r].list = recorder[r].list
        /\ \A q \in Recorder \ {r} : recorder'[q] = recorder[q]
    BY <2>1, RecorderGoes
  <2> QED
    BY <1>4, <2>1, <2>2
    DEF VersionInv, VersionTypes, NewerAtSource, NothingHidden, ListsAreOpen, StagedInOrder,
        Staging, Has
<1>5. ASSUME NEW r \in Recorder, AddTracked(r) PROVE VersionInv'
  <2> DEFINE S == {f \in File : There(gitIndex[f]) /\ f \notin RuntimePath}
  <2>1. /\ gitIndex' = [f \in File |-> IF f \in S THEN tree[f] ELSE gitIndex[f]]
        /\ \A f \in S : f \notin HiddenPath
        /\ UNCHANGED <<tree, head, ignored, unrecorded>>
    BY <1>5, VersioningConstants DEF AddTracked, VersionInv, NothingHidden, HiddenPath
  <2>2. /\ recorder' \in [Recorder -> RecorderState]
        /\ recorder'[r].at = "others"
        /\ recorder'[r].wrote = recorder[r].wrote /\ recorder'[r].list = recorder[r].list
        /\ \A q \in Recorder \ {r} : recorder'[q] = recorder[q]
    BY <1>5, RecorderGoes DEF AddTracked
  <2>3. \A f \in File : f \notin S /\ f \notin HiddenPath => ~There(gitIndex'[f])
    BY <2>1 DEF HiddenPath
  <2> QED
    BY <2>1, <2>2, <2>3, AddingKeeps
    DEF VersionInv, VersionTypes, ListsAreOpen, StagedInOrder, Staging
<1>6. ASSUME NEW r \in Recorder, ListOthers(r), ~Refused(Others) PROVE VersionInv'
  <2> DEFINE q == [[recorder[r] EXCEPT !.at = "add"] EXCEPT !.list = Others \ RuntimePath]
  <2>1. recorder' = [recorder EXCEPT ![r] = q] /\ recorder[r] \in RecorderState
    BY <1>6 DEF ListOthers, VersionInv, VersionTypes
  <2>2. Others \subseteq File /\ \A f \in Others \ RuntimePath : f \notin HiddenPath
    BY <1>6 DEF Others, Unignored, Refused, HiddenPath
  <2>3. /\ q \in RecorderState /\ q.at = "add" /\ q.list = Others \ RuntimePath
        /\ q.wrote = recorder[r].wrote
    BY <2>1, <2>2 DEF RecorderState
  <2> HIDE DEF q
  <2>4. recorder' \in [Recorder -> RecorderState] /\ recorder'[r] = q
        /\ \A p \in Recorder \ {r} : recorder'[p] = recorder[p]
    BY <2>1, <2>3 DEF VersionInv, VersionTypes
  <2>5. UNCHANGED <<tree, gitIndex, head, ignored, unrecorded>> /\ recorder[r].at = "others"
    BY <1>6 DEF ListOthers
  <2>6. ASSUME NEW f \in File, NEW v \in 1..MaxContent, <<f, v>> \in recorder[r].wrote,
               f \notin HiddenPath
        PROVE  Has(gitIndex, f, v) \/ f \in Others \ RuntimePath
    <3>1. v <= tree[f] /\ (Has(gitIndex, f, v) \/ ~There(gitIndex[f]))
      BY <2>5, <2>6 DEF VersionInv, StagedInOrder, Staging
    <3>2. f \in Unignored /\ f \notin RuntimePath /\ tree[f] \in Nat
      BY <2>6, VersioningConstants DEF HiddenPath, Unignored, VersionInv, VersionTypes
    <3> QED
      BY <3>1, <3>2 DEF Has, Same, Others
  <2>7. VersionTypes' /\ NewerAtSource' /\ NothingHidden'
    BY <2>4, <2>5 DEF VersionInv, VersionTypes, NewerAtSource, NothingHidden
  <2>8. ListsAreOpen'
    BY <2>2, <2>3, <2>4 DEF VersionInv, ListsAreOpen
  <2>9. ASSUME NEW p \in Recorder, NEW f \in File, NEW v \in 1..MaxContent,
               <<f, v>> \in recorder'[p].wrote
        PROVE  v <= tree'[f] /\ (f \notin HiddenPath => Staging(p, f, v)')
    <3>1. CASE p = r
      <4>1. <<f, v>> \in recorder[r].wrote /\ v <= tree[f]
        BY <2>3, <2>4, <2>9, <3>1 DEF VersionInv, StagedInOrder
      <4>2. recorder'[p].at = "add" /\ recorder'[p].list = Others \ RuntimePath
        BY <2>3, <2>4, <3>1
      <4>3. f \notin HiddenPath => Has(gitIndex, f, v) \/ f \in Others \ RuntimePath
        BY <2>6, <4>1
      <4> QED
        BY <2>5, <4>1, <4>2, <4>3 DEF Staging, Has
    <3>2. CASE p # r
      <4>1. recorder'[p] = recorder[p]
        BY <2>4, <3>2
      <4>2. v <= tree[f] /\ (f \notin HiddenPath => Staging(p, f, v))
        BY <2>9, <4>1 DEF VersionInv, StagedInOrder
      <4> QED
        BY <2>5, <4>1, <4>2 DEF Staging, Has
    <3> QED
      BY <3>1, <3>2
  <2> QED
    BY <2>7, <2>8, <2>9 DEF VersionInv, StagedInOrder
<1>7. ASSUME NEW r \in Recorder, AddOthers(r), Goto(r, "staged") PROVE VersionInv'
  <2> DEFINE S == recorder[r].list
  <2>1. S \subseteq File /\ \A f \in S : f \notin HiddenPath
    BY DEF VersionInv, VersionTypes, RecorderState, ListsAreOpen
  <2>2. /\ recorder' \in [Recorder -> RecorderState]
        /\ recorder'[r].at = "staged"
        /\ recorder'[r].wrote = recorder[r].wrote /\ recorder'[r].list = recorder[r].list
        /\ \A q \in Recorder \ {r} : recorder'[q] = recorder[q]
    BY <1>7, RecorderGoes
  <2>3. /\ gitIndex' = [f \in File |-> IF f \in S THEN tree[f] ELSE gitIndex[f]]
        /\ UNCHANGED <<tree, head, ignored, unrecorded>> /\ recorder[r].at = "add"
    BY <1>7, <2>2 DEF AddOthers, Resting, VersionInv, VersionTypes
  <2> HIDE DEF S
  <2>4. VersionTypes' /\ NewerAtSource' /\ NothingHidden' /\ ListsAreOpen'
    BY <2>1, <2>2, <2>3, AddingKeeps DEF VersionInv, VersionTypes, ListsAreOpen
  <2>5. ASSUME NEW p \in Recorder, NEW g \in File, NEW w \in 1..MaxContent,
               <<g, w>> \in recorder'[p].wrote
        PROVE  w <= tree'[g] /\ (g \notin HiddenPath => Staging(p, g, w)')
    <3>1. /\ <<g, w>> \in recorder[p].wrote /\ recorder'[p].list = recorder[p].list
          /\ IF p = r THEN recorder'[p].at = "staged" ELSE recorder'[p] = recorder[p]
      BY <2>2, <2>5
    <3>2. w <= tree[g] /\ (g \notin HiddenPath => Staging(p, g, w))
      BY <3>1 DEF VersionInv, StagedInOrder
    <3>3. /\ Has(gitIndex, g, w) => Has(gitIndex, g, w)'
          /\ Has(head, g, w) => Has(head, g, w)'
          /\ g \in S => Has(gitIndex, g, w)'
          /\ Has(gitIndex, g, w) \/ ~There(gitIndex[g]) =>
               Has(gitIndex, g, w)' \/ ~There(gitIndex'[g])
      BY <2>1, <2>3, <3>2, AddingKeeps
    <3>4. CASE p = r
      BY <2>3, <3>1, <3>2, <3>3, <3>4 DEF Staging, S
    <3>5. CASE p # r
      BY <2>3, <3>1, <3>2, <3>3, <3>5 DEF Staging
    <3> QED
      BY <3>4, <3>5
  <2> QED
    BY <2>4, <2>5 DEF VersionInv, StagedInOrder
<1>8. ASSUME NEW r \in Recorder, Commit(r), head' = gitIndex, Goto(r, "log") PROVE VersionInv'
  <2>1. /\ recorder' \in [Recorder -> RecorderState]
        /\ recorder'[r].at = "log"
        /\ recorder'[r].wrote = recorder[r].wrote /\ recorder'[r].list = recorder[r].list
        /\ \A q \in Recorder \ {r} : recorder'[q] = recorder[q]
    BY <1>8, RecorderGoes
  <2>2. UNCHANGED <<tree, gitIndex, ignored, unrecorded>> /\ recorder[r].at = "commit"
    BY <1>8, <2>1 DEF Commit
  <2>3. NewerAtSource' /\ NothingHidden'
    BY <1>8, <2>2, VersioningConstants
    DEF VersionInv, VersionTypes, NewerAtSource, NothingHidden, HiddenPath
  <2>4. \A f \in File, v \in 1..MaxContent :
          /\ Has(gitIndex, f, v) => Has(gitIndex, f, v)' /\ Has(head, f, v)'
    BY <1>8, <2>2 DEF Has
  <2> QED
    BY <1>8, <2>1, <2>2, <2>3, <2>4
    DEF VersionInv, VersionTypes, ListsAreOpen, StagedInOrder, Staging
<1>9. ASSUME NEW r \in Recorder, recorder' = [recorder EXCEPT ![r] = Resting],
             UNCHANGED <<tree, gitIndex, head, ignored, unrecorded>>
      PROVE  VersionInv'
  BY <1>9, RecorderRests
<1>10. ASSUME NEW r \in Recorder, Status(r) PROVE VersionInv'
  BY <1>3, <1>4, <1>10 DEF Status
<1>11. ASSUME NEW r \in Recorder, GuardPrivate(r) \/ GuardBulk(r) \/ CommandFails(r)
       PROVE  VersionInv'
  BY <1>4, <1>9, <1>11 DEF GuardPrivate, GuardBulk, CommandFails
<1>12. ASSUME NEW r \in Recorder, ListOthers(r) PROVE VersionInv'
  BY <1>6, <1>9, <1>12 DEF ListOthers
<1>13. ASSUME NEW r \in Recorder, AddOthers(r) PROVE VersionInv'
  BY <1>7, <1>9, <1>13 DEF AddOthers
<1>14. ASSUME NEW r \in Recorder, Commit(r) PROVE VersionInv'
  BY <1>4, <1>8, <1>14 DEF Commit
<1>15. ASSUME NEW r \in Recorder, ReadLog(r) \/ Recheck(r) PROVE VersionInv'
  BY <1>3, <1>9, <1>15 DEF ReadLog, Recheck
<1> QED
  BY <1>1, <1>2, <1>5, <1>10, <1>11, <1>12, <1>13, <1>14, <1>15 DEF VersioningNext

(* When a recording succeeds its changes are in a version, or were changed *)
(* again; nothing that is private or of the runtime ever is                *)
(* (recall/versioning.go).                                                 *)
THEOREM RecordedMeansVersioned == VersioningSpec => []VersionsAreComplete
PROOF
<1>1. VersionInv => VersionsAreComplete
  BY DEF VersionInv, VersionTypes, NothingHidden, VersionsAreComplete, HiddenPath
<1> QED
  BY <1>1, VersionInitInv, VersionStepInv, PTL DEF VersioningSpec

(* What is versioned is no newer than the file (versioning).               *)
LEMMA VersioningTypesHold == VersioningSpec => []VersioningTypeOK
PROOF
<1>1. VersionInv => VersioningTypeOK
  <2> SUFFICES ASSUME VersionInv PROVE VersioningTypeOK
    OBVIOUS
  <2>1. VersionTypes /\ NewerAtSource
    BY DEF VersionInv
  <2>2. ASSUME NEW f \in File PROVE head[f] <= tree[f] /\ gitIndex[f] <= tree[f]
    <3>1. head[f] \in Nat /\ gitIndex[f] \in Nat /\ tree[f] \in Nat
      BY <2>1, VersioningConstants DEF VersionTypes
    <3>2. head[f] <= gitIndex[f] /\ gitIndex[f] <= tree[f]
      BY <2>1 DEF NewerAtSource
    <3> QED
      BY <3>1, <3>2
  <2>3. ASSUME NEW r \in Recorder PROVE recorder[r] \in RecorderState
    BY <2>1 DEF VersionTypes
  <2> QED
    BY <2>1, <2>2, <2>3 DEF VersionTypes, VersioningTypeOK, RecorderState
<1> QED
  BY <1>1, VersionInitInv, VersionStepInv, PTL DEF VersioningSpec

(* ---- the registry of templates --------------------------------------------- *)

FileRecord == {NoFile} \cup [status : {"active", "retired"}, body : Body]
PublishState ==
  [step : {"idle", "writing", "retiring", "undoing", "removing"}, version : TVersion \cup {0},
   body : Body \cup {"none"}, todo : SUBSET TVersion, undo : SUBSET TVersion,
   before : SUBSET TVersion]
TemplateTypes ==
  /\ published \in [TVersion -> FileRecord] /\ publish \in PublishState
  /\ ~Doing("idle") => publish.version \in TVersion /\ publish.body \in Body
  /\ reply \in {"none", "published", "refused", "cut"} /\ spoiled \in BOOLEAN
  /\ vectors \in [TVersion -> Body \cup {"none"}]
  /\ embedding \in [Indexer -> [TVersion -> Body \cup {"none", "unlisted"}]]
  /\ \A x \in Indexer :
       embedding[x] # NoListing => embedding[x] \in [TVersion -> Body \cup {"none"}]

(* Which versions are active at each step of a publish.                    *)
Active == ActiveIn(published)
WritingOnly == Doing("writing") => ~HasFile(publish.version) /\ Active = publish.before
RetiringSome ==
  Doing("retiring") => /\ Active = {publish.version} \cup publish.todo
                       /\ publish.todo \cup publish.undo = publish.before
UndoingSome ==
  Doing("undoing") /\ ~spoiled => /\ publish.before \ publish.undo \subseteq Active
                                  /\ Active \subseteq publish.before \cup {publish.version}
                                  /\ publish.version \in Active
                                  /\ publish.undo \subseteq publish.before
RemovingOnly == Doing("removing") => Active \ {publish.version} = publish.before
Settled ==
  Doing("idle") /\ ~spoiled => /\ reply = "published" => Active = {publish.version}
                               /\ reply = "refused" => Active = publish.before
                               /\ reply # "none" /\ publish.before # {} => Active # {}
Underway ==
  ~Doing("idle") => /\ reply = "none" /\ (spoiled => Doing("undoing"))
                    /\ publish.version \notin publish.before
                    /\ \A v \in publish.todo \cup publish.undo :
                         HasFile(v) /\ v # publish.version
PublishInv == WritingOnly /\ RetiringSome /\ UndoingSome /\ RemovingOnly /\ Settled /\ Underway

(* A body that was listed is that of a file that no publish can remove.    *)
FromFiles(listing) ==
  \A v \in TVersion :
    listing[v] \in Body =>
      /\ HasFile(v) /\ published[v].body = listing[v] /\ (v = publish.version => Doing("idle"))
ListingInv == FromFiles(vectors) /\ \A x \in Indexer : FromFiles(embedding[x])

TemplateInv == TemplateTypes /\ PublishInv /\ ListingInv

LEMMA TemplateInitInv == TemplateInit => TemplateInv
PROOF
<1> SUFFICES ASSUME TemplateInit PROVE TemplateInv
  OBVIOUS
<1>1. TemplateTypes /\ publish.step = "idle"
  BY DEF TemplateInit, TemplateTypes, FileRecord, PublishState, NoPublish, NoListing, Doing
<1> QED
  BY <1>1, TemplateConstants
  DEF TemplateInit, TemplateInv, PublishInv, WritingOnly, RetiringSome, UndoingSome, RemovingOnly,
      Settled, Underway, ListingInv, FromFiles, NoListing, Doing

(* One file is replaced, or none.                                          *)
LEMMA FileReplaced ==
  ASSUME TemplateTypes, NEW v \in TVersion, NEW file \in FileRecord,
         published' = [published EXCEPT ![v] = file]
  PROVE  /\ published' \in [TVersion -> FileRecord] /\ published'[v] = file
         /\ \A u \in TVersion \ {v} : published'[u] = published[u]
         /\ Active' = IF file.status = "active" THEN Active \cup {v} ELSE Active \ {v}
PROOF
<1>1. published' \in [TVersion -> FileRecord] /\ published'[v] = file
      /\ \A u \in TVersion \ {v} : published'[u] = published[u]
  BY DEF TemplateTypes
<1> QED
  BY <1>1 DEF Active, ActiveIn

LEMMA StatusWritten ==
  ASSUME TemplateTypes, NEW v \in TVersion, HasFile(v), NEW status \in {"active", "retired"},
         published' = Written(v, status)
  PROVE  /\ published' \in [TVersion -> FileRecord]
         /\ published'[v].body = published[v].body /\ HasFile(v)'
         /\ \A u \in TVersion \ {v} : published'[u] = published[u]
         /\ Active' = IF status = "active" THEN Active \cup {v} ELSE Active \ {v}
PROOF
<1> DEFINE file == [published[v] EXCEPT !.status = status]
<1>1. published[v] \in [status : {"active", "retired"}, body : Body]
  BY DEF TemplateTypes, FileRecord, HasFile, NoFile
<1>2. file \in FileRecord /\ file.status = status /\ file.body = published[v].body
  BY <1>1 DEF FileRecord
<1>3. published' = [published EXCEPT ![v] = file]
  BY DEF Written
<1> HIDE DEF file
<1> QED
  BY <1>2, <1>3, FileReplaced DEF HasFile

(* The fields of the publish under way after a step.                       *)
LEMMA PublishHeld ==
  ASSUME TemplateTypes, NEW s \in {"retiring", "undoing", "removing"},
         NEW S \in SUBSET TVersion, NEW U \in SUBSET TVersion, publish' = Holding(s, S, U)
  PROVE  /\ publish' \in PublishState /\ publish'.step = s /\ publish'.todo = S /\ publish'.undo = U
         /\ publish'.version = publish.version /\ publish'.body = publish.body
         /\ publish'.before = publish.before
PROOF
<1>1. publish \in PublishState
  BY DEF TemplateTypes
<1> QED
  BY <1>1 DEF Holding, PublishState

(* A step of a publish keeps what was listed, if the other files keep      *)
(* their bodies.                                                           *)
LEMMA ListingsKept ==
  ASSUME TemplateTypes, ListingInv, UNCHANGED <<vectors, embedding>>,
         \A u \in TVersion :
           HasFile(u) /\ (u = publish.version => Doing("idle")) =>
             /\ HasFile(u)' /\ published'[u].body = published[u].body
             /\ (u = publish'.version => publish'.step = "idle")
  PROVE  ListingInv'
BY DEF ListingInv, FromFiles, Doing, TemplateTypes

LEMMA PublishSteps ==
  ASSUME TemplateInv,
         WriteNew \/ Published \/ RemoveNew \/ \E v \in TVersion : RetireOld(v) \/ Undo(v)
  PROVE  TemplateInv'
PROOF
<1> USE DEF Doing
<1> DEFINE n == publish.version
<1>0. /\ publish \in PublishState /\ publish.step # "idle" /\ n \in TVersion /\ publish.body \in Body
      /\ n \notin publish.before /\ \A v \in publish.todo \cup publish.undo : HasFile(v) /\ v # n
  BY DEF WriteNew, Published, RemoveNew, RetireOld, Undo, TemplateInv, TemplateTypes, PublishInv,
         Underway
<1>1. CASE WriteNew
  <2> DEFINE new == [status |-> "active", body |-> publish.body]
  <2>1. new \in FileRecord /\ new.status = "active" /\ new.status # "absent" /\ Active \subseteq TVersion
    BY <1>0 DEF FileRecord, Active, ActiveIn
  <2>2. /\ Active = publish.before /\ ~HasFile(n) /\ reply = "none" /\ ~spoiled
        /\ \A v \in Active : HasFile(v)
    BY <1>1 DEF WriteNew, TemplateInv, PublishInv, WritingOnly, Underway, Active, ActiveIn, HasFile
  <2>3. UNCHANGED <<reply, spoiled, vectors, embedding>>
    BY <1>1 DEF WriteNew
  <2>4. \/ published' = [published EXCEPT ![n] = new] /\ publish' = Holding("retiring", Active, {})
        \/ published' = [published EXCEPT ![n] = new] /\ publish' = Holding("removing", {}, {})
        \/ published' = published /\ publish' = Holding("removing", {}, {})
    BY <1>1 DEF WriteNew, Halves, Active
  <2> HIDE DEF new
  <2>5. \A u \in TVersion : HasFile(u) => u # n /\ HasFile(u)' /\ published'[u] = published[u]
    BY <2>2, <2>4, <1>0 DEF HasFile, TemplateInv, TemplateTypes
  <2>6. CASE published' = [published EXCEPT ![n] = new] /\ publish' = Holding("retiring", Active, {})
    <3>1. /\ published' \in [TVersion -> FileRecord] /\ published'[n] = new
          /\ Active' = Active \cup {n}
      BY <2>1, <2>6, <1>0, FileReplaced DEF TemplateInv
    <3>2. /\ publish' \in PublishState /\ publish'.step = "retiring" /\ publish'.todo = Active
          /\ publish'.undo = {} /\ publish'.version = n /\ publish'.body = publish.body
          /\ publish'.before = publish.before
      BY <2>1, <2>6, PublishHeld DEF TemplateInv
    <3>3. TemplateTypes'
      BY <1>0, <2>3, <3>1, <3>2 DEF TemplateInv, TemplateTypes
    <3>4. PublishInv'
      BY <1>0, <2>2, <2>3, <2>5, <3>1, <3>2
      DEF PublishInv, WritingOnly, RetiringSome, UndoingSome, RemovingOnly, Settled, Underway,
          Active, ActiveIn
    <3>5. ListingInv'
      BY <2>3, <2>5, <3>2, ListingsKept DEF TemplateInv
    <3> QED
      BY <3>3, <3>4, <3>5 DEF TemplateInv
  <2>7. CASE publish' = Holding("removing", {}, {})
    <3>1. published' \in [TVersion -> FileRecord] /\ Active' \in {Active, Active \cup {n}}
      BY <2>1, <2>4, <2>7, <1>0, FileReplaced DEF TemplateInv, TemplateTypes, Active
    <3>2. /\ publish' \in PublishState /\ publish'.step = "removing" /\ publish'.todo = {}
          /\ publish'.undo = {} /\ publish'.version = n /\ publish'.body = publish.body
          /\ publish'.before = publish.before
      BY <2>7, PublishHeld DEF TemplateInv
    <3>3. TemplateTypes'
      BY <1>0, <2>3, <3>1, <3>2 DEF TemplateInv, TemplateTypes
    <3>4. PublishInv'
      BY <1>0, <2>2, <2>3, <3>1, <3>2
      DEF PublishInv, WritingOnly, RetiringSome, UndoingSome, RemovingOnly, Settled, Underway
    <3>5. ListingInv'
      BY <2>3, <2>5, <3>2, ListingsKept DEF TemplateInv
    <3> QED
      BY <3>3, <3>4, <3>5 DEF TemplateInv
  <2> QED
    BY <2>4, <2>6, <2>7
<1>2. CASE Published
  <2>1. /\ publish.step = "retiring" /\ publish.todo = {} /\ reply' = "published"
        /\ publish' = [publish EXCEPT !.step = "idle", !.todo = {}]
        /\ UNCHANGED <<published, spoiled, vectors, embedding>>
    BY <1>2 DEF Published, Reply
  <2>2. /\ publish' \in PublishState /\ publish'.step = "idle" /\ publish'.version = n
        /\ publish'.before = publish.before
    BY <1>0, <2>1 DEF PublishState
  <2>3. TemplateTypes'
    BY <2>1, <2>2 DEF TemplateInv, TemplateTypes
  <2>4. Active' = Active /\ Active = {n}
    BY <2>1 DEF TemplateInv, PublishInv, RetiringSome, Active
  <2>5. PublishInv'
    BY <2>1, <2>2, <2>4
    DEF PublishInv, WritingOnly, RetiringSome, UndoingSome, RemovingOnly, Settled, Underway
  <2>6. ListingInv'
    BY <2>1, <2>2, ListingsKept DEF TemplateInv, HasFile
  <2> QED
    BY <2>3, <2>5, <2>6 DEF TemplateInv
<1>3. CASE RemoveNew
  <2>1. /\ publish.step \in {"removing", "undoing"}
        /\ publish.step = "undoing" => publish.undo = {}
        /\ reply' = "refused" /\ publish' = [publish EXCEPT !.step = "idle", !.todo = {}]
        /\ UNCHANGED <<vectors, embedding>>
        /\ published' \in {published, [published EXCEPT ![n] = NoFile]}
        /\ \/ published' = [published EXCEPT ![n] = NoFile] /\ spoiled' = spoiled
           \/ spoiled' = TRUE
    BY <1>3 DEF RemoveNew, Reply, Halves
  <2>2. /\ publish' \in PublishState /\ publish'.step = "idle" /\ publish'.version = n
        /\ publish'.before = publish.before
    BY <1>0, <2>1 DEF PublishState
  <2>3. NoFile \in FileRecord /\ NoFile.status # "active"
    BY DEF FileRecord, NoFile
  <2>4. /\ published' \in [TVersion -> FileRecord]
        /\ \A u \in TVersion \ {n} : published'[u] = published[u]
        /\ published' = [published EXCEPT ![n] = NoFile] => Active' = Active \ {n}
    BY <1>0, <2>1, <2>3, FileReplaced DEF TemplateInv, TemplateTypes
  <2>5. TemplateTypes'
    BY <2>1, <2>2, <2>4 DEF TemplateInv, TemplateTypes
  <2>6. PublishInv'
    <3>1. ~spoiled' => Active' = publish.before
      BY <1>0, <2>1, <2>4 DEF TemplateInv, PublishInv, UndoingSome, RemovingOnly
    <3> QED
      BY <2>1, <2>2, <3>1
      DEF PublishInv, WritingOnly, RetiringSome, UndoingSome, RemovingOnly, Settled, Underway
  <2>7. ListingInv'
    BY <1>0, <2>1, <2>2, <2>4, ListingsKept DEF TemplateInv, HasFile
  <2> QED
    BY <2>5, <2>6, <2>7 DEF TemplateInv
<1>4. ASSUME NEW v \in TVersion, RetireOld(v) PROVE TemplateInv'
  <2>1. /\ publish.step = "retiring" /\ v \in publish.todo /\ HasFile(v) /\ v # n
        /\ Active = {n} \cup publish.todo /\ publish.todo \cup publish.undo = publish.before
        /\ n \notin publish.before /\ publish.undo \in SUBSET TVersion
        /\ publish.todo \in SUBSET TVersion /\ reply = "none" /\ ~spoiled
    BY <1>0, <1>4 DEF RetireOld, TemplateInv, PublishInv, RetiringSome, Underway, PublishState
  <2>2. UNCHANGED <<reply, spoiled, vectors, embedding>>
    BY <1>4 DEF RetireOld
  <2>3. \/ /\ published' = Written(v, "retired")
           /\ publish' = Holding("retiring", publish.todo \ {v}, publish.undo \cup {v})
        \/ /\ published' = published \/ published' = Written(v, "retired")
           /\ publish' = Holding("undoing", {}, publish.undo \cup {v})
    BY <1>4 DEF RetireOld, Halves, Written
  <2>4. /\ published' \in [TVersion -> FileRecord]
        /\ Active' \in {Active, Active \ {v}}
        /\ published' = Written(v, "retired") => Active' = Active \ {v}
        /\ \A u \in TVersion : HasFile(u) => HasFile(u)' /\ published'[u].body = published[u].body
    BY <2>1, <2>3, StatusWritten DEF TemplateInv, TemplateTypes, Active, HasFile
  <2>5. publish.undo \cup {v} \in SUBSET TVersion /\ publish.todo \ {v} \in SUBSET TVersion
    BY <2>1
  <2>6. CASE publish' = Holding("retiring", publish.todo \ {v}, publish.undo \cup {v})
             /\ published' = Written(v, "retired")
    <3>2. /\ publish' \in PublishState /\ publish'.step = "retiring"
          /\ publish'.todo = publish.todo \ {v} /\ publish'.undo = publish.undo \cup {v}
          /\ publish'.version = n /\ publish'.body = publish.body
          /\ publish'.before = publish.before
      BY <1>0, <2>5, <2>6 DEF Holding, PublishState
    <3>3. TemplateTypes'
      BY <1>0, <2>2, <2>4, <3>2 DEF TemplateInv, TemplateTypes
    <3>4. PublishInv'
      BY <1>0, <2>1, <2>2, <2>4, <2>6, <3>2
      DEF PublishInv, WritingOnly, RetiringSome, UndoingSome, RemovingOnly, Settled, Underway
    <3>5. ListingInv'
      BY <1>0, <2>2, <2>4, <3>2, ListingsKept DEF TemplateInv
    <3> QED
      BY <3>3, <3>4, <3>5 DEF TemplateInv
  <2>7. CASE publish' = Holding("undoing", {}, publish.undo \cup {v})
    <3>2. /\ publish' \in PublishState /\ publish'.step = "undoing"
          /\ publish'.todo = {} /\ publish'.undo = publish.undo \cup {v}
          /\ publish'.version = n /\ publish'.body = publish.body
          /\ publish'.before = publish.before
      BY <1>0, <2>5, <2>7 DEF Holding, PublishState
    <3>3. TemplateTypes'
      BY <1>0, <2>2, <2>4, <3>2 DEF TemplateInv, TemplateTypes
    <3>4. PublishInv'
      BY <1>0, <2>1, <2>2, <2>4, <3>2
      DEF PublishInv, WritingOnly, RetiringSome, UndoingSome, RemovingOnly, Settled, Underway
    <3>5. ListingInv'
      BY <1>0, <2>2, <2>4, <3>2, ListingsKept DEF TemplateInv
    <3> QED
      BY <3>3, <3>4, <3>5 DEF TemplateInv
  <2> QED
    BY <2>3, <2>6, <2>7
<1>5. ASSUME NEW v \in TVersion, Undo(v) PROVE TemplateInv'
  <2>1. /\ publish.step = "undoing" /\ v \in publish.undo /\ HasFile(v) /\ v # n
        /\ n \notin publish.before /\ publish.undo \ {v} \in SUBSET TVersion /\ reply = "none"
    BY <1>0, <1>5 DEF Undo, TemplateInv, PublishInv, Underway, PublishState
  <2>2. /\ UNCHANGED <<reply, vectors, embedding>>
        /\ publish' = Holding("undoing", {}, publish.undo \ {v})
        /\ published' = Written(v, "active") \/ published' = published
        /\ spoiled' = TRUE \/ (spoiled' = spoiled /\ published' = Written(v, "active"))
    BY <1>5 DEF Undo
  <2>3. /\ published' \in [TVersion -> FileRecord]
        /\ published' = Written(v, "active") => Active' = Active \cup {v}
        /\ \A u \in TVersion : HasFile(u) => HasFile(u)' /\ published'[u].body = published[u].body
    BY <2>1, <2>2, StatusWritten DEF TemplateInv, TemplateTypes, Active, HasFile
  <2>4. /\ publish' \in PublishState /\ publish'.step = "undoing"
        /\ publish'.todo = {} /\ publish'.undo = publish.undo \ {v}
        /\ publish'.version = n /\ publish'.body = publish.body
        /\ publish'.before = publish.before
    BY <2>1, <2>2, PublishHeld DEF TemplateInv
  <2>5. TemplateTypes'
    BY <1>0, <2>2, <2>3, <2>4 DEF TemplateInv, TemplateTypes
  <2>6. PublishInv'
    <3>1. ~spoiled' => /\ publish.before \ publish.undo \subseteq Active
                       /\ Active \subseteq publish.before \cup {n} /\ n \in Active
                       /\ publish.undo \subseteq publish.before /\ Active' = Active \cup {v}
      BY <2>1, <2>2, <2>3 DEF TemplateInv, TemplateTypes, PublishInv, UndoingSome
    <3>2. UndoingSome'
      BY <2>1, <2>4, <3>1 DEF UndoingSome
    <3> QED
      BY <1>0, <2>1, <2>2, <2>3, <2>4, <3>2
      DEF PublishInv, WritingOnly, RetiringSome, RemovingOnly, Settled, Underway
  <2>7. ListingInv'
    BY <1>0, <2>2, <2>3, <2>4, ListingsKept DEF TemplateInv
  <2> QED
    BY <2>5, <2>6, <2>7 DEF TemplateInv
<1> QED
  BY <1>1, <1>2, <1>3, <1>4, <1>5

LEMMA TemplateStepInv == TemplateInv /\ [TemplateNext]_templateVars => TemplateInv'
PROOF
<1> SUFFICES ASSUME TemplateInv, [TemplateNext]_templateVars PROVE TemplateInv'
  OBVIOUS
<1> USE DEF Doing
<1>1. ASSUME NEW v \in TVersion, NEW b \in Body, StartPublish(v, b) PROVE TemplateInv'
  <2>1. /\ publish.step = "idle" /\ ~HasFile(v) /\ reply' = "none" /\ spoiled' = FALSE
        /\ publish' = [NoPublish EXCEPT !.step = "writing", !.version = v, !.body = b,
                                        !.before = Active]
        /\ UNCHANGED <<published, vectors, embedding>>
    BY <1>1 DEF StartPublish, Active
  <2>2. Active' = Active /\ Active \in SUBSET TVersion /\ v \notin Active
    BY <2>1 DEF Active, ActiveIn, HasFile
  <2> HIDE DEF Active
  <2>3. /\ publish' \in PublishState /\ publish'.step = "writing" /\ publish'.version = v
        /\ publish'.body = b /\ publish'.todo = {} /\ publish'.undo = {}
        /\ publish'.before = Active
    BY <2>1, <2>2 DEF NoPublish, PublishState
  <2>4. TemplateTypes'
    BY <2>1, <2>3 DEF TemplateInv, TemplateTypes
  <2>5. PublishInv'
    BY <2>1, <2>2, <2>3
    DEF PublishInv, WritingOnly, RetiringSome, UndoingSome, RemovingOnly, Settled, Underway, HasFile
  <2>6. ListingInv'
    BY <2>1, <2>3, ListingsKept DEF TemplateInv, HasFile
  <2> QED
    BY <2>4, <2>5, <2>6 DEF TemplateInv
<1>2. ASSUME NEW v \in TVersion, Retire(v) PROVE TemplateInv'
  <2>1. /\ publish.step = "idle" /\ HasFile(v) /\ published' = Written(v, "retired")
        /\ reply' = "none" /\ UNCHANGED <<publish, spoiled, vectors, embedding>>
    BY <1>2 DEF Retire, HasFile
  <2>2. /\ published' \in [TVersion -> FileRecord]
        /\ \A u \in TVersion : HasFile(u) => HasFile(u)' /\ published'[u].body = published[u].body
    BY <2>1, StatusWritten DEF TemplateInv, HasFile
  <2>3. TemplateTypes' /\ PublishInv'
    BY <2>1, <2>2
    DEF TemplateInv, TemplateTypes, PublishInv, WritingOnly, RetiringSome, UndoingSome,
        RemovingOnly, Settled, Underway
  <2>4. ListingInv'
    BY <2>1, <2>2, ListingsKept DEF TemplateInv
  <2> QED
    BY <2>3, <2>4 DEF TemplateInv
<1>3. CASE CrashTemplates
  <2>1. /\ publish' = [publish EXCEPT !.step = "idle", !.todo = {}, !.undo = {}]
        /\ reply' = IF publish.step = "idle" THEN reply ELSE "cut"
        /\ embedding' = [x \in Indexer |-> NoListing]
        /\ UNCHANGED <<published, spoiled, vectors>>
    BY <1>3 DEF CrashTemplates
  <2>2. publish \in PublishState
    BY DEF TemplateInv, TemplateTypes
  <2>3. /\ publish' \in PublishState /\ publish'.step = "idle"
        /\ publish'.version = publish.version /\ publish'.before = publish.before
    BY <2>1, <2>2 DEF PublishState
  <2>4. NoListing \in [TVersion -> Body \cup {"none", "unlisted"}] /\ FromFiles(NoListing)'
    BY TemplateConstants DEF NoListing, FromFiles
  <2>5. TemplateTypes'
    BY <2>1, <2>3, <2>4 DEF TemplateInv, TemplateTypes
  <2>6. PublishInv'
    <3>1. publish.before # {} /\ publish.step # "idle" /\ ~spoiled => Active # {}
      BY <2>2 DEF TemplateInv, PublishInv, WritingOnly, RetiringSome, UndoingSome, RemovingOnly,
                  PublishState
    <3>2. Active' = Active
      BY <2>1 DEF Active
    <3>3. CASE publish.step = "idle"
      BY <2>1, <2>3, <3>2, <3>3
      DEF TemplateInv, PublishInv, WritingOnly, RetiringSome, UndoingSome, RemovingOnly, Settled,
          Underway
    <3>4. CASE publish.step # "idle"
      BY <2>1, <2>3, <3>1, <3>2, <3>4
      DEF PublishInv, WritingOnly, RetiringSome, UndoingSome, RemovingOnly, Settled, Underway
    <3> QED
      BY <3>3, <3>4
  <2>7. FromFiles(vectors)'
    BY <2>1, <2>3 DEF TemplateInv, ListingInv, FromFiles, HasFile
  <2>8. \A x \in Indexer : embedding'[x] = NoListing
    BY <2>1
  <2>9. \A x \in Indexer : FromFiles(embedding[x])'
    BY <2>4, <2>8 DEF FromFiles
  <2> QED
    BY <2>5, <2>6, <2>7, <2>9 DEF TemplateInv, ListingInv
<1>4. ASSUME NEW x \in Indexer, ListTemplates(x) \/ WriteVectors(x) PROVE TemplateInv'
  <2>1. UNCHANGED <<published, publish, reply, spoiled>>
    BY <1>4 DEF ListTemplates, WriteVectors
  <2>2. PublishInv'
    BY <2>1 DEF TemplateInv, PublishInv, WritingOnly, RetiringSome, UndoingSome, RemovingOnly,
                Settled, Underway, Active, HasFile
  <2> DEFINE row == [v \in TVersion |-> IF v \in Newest THEN published[v].body ELSE "none"]
  <2>3. ListTemplates(x) => row \in [TVersion -> Body \cup {"none"}] /\ FromFiles(row)
    <3>1. \A v \in Newest : published[v] \in [status : {"active", "retired"}, body : Body] /\ HasFile(v)
      BY DEF TemplateInv, TemplateTypes, FileRecord, Newest, ActiveIn, HasFile, NoFile
    <3> QED
      BY <3>1, TemplateConstants DEF ListTemplates, FromFiles
  <2>4. /\ NoListing \in [TVersion -> Body \cup {"none", "unlisted"}] /\ FromFiles(NoListing)
    BY TemplateConstants DEF NoListing, FromFiles
  <2>5. PICK new \in [TVersion -> Body \cup {"none", "unlisted"}] :
          /\ embedding' = [embedding EXCEPT ![x] = new] /\ FromFiles(new)
          /\ new = NoListing \/ new \in [TVersion -> Body \cup {"none"}]
    BY <1>4, <2>3, <2>4 DEF ListTemplates, WriteVectors
  <2>6. vectors' = vectors \/ (vectors' = embedding[x] /\ embedding[x] # NoListing)
    BY <1>4 DEF ListTemplates, WriteVectors
  <2>7. TemplateTypes'
    <3>1. vectors' \in [TVersion -> Body \cup {"none"}]
      BY <2>6 DEF TemplateInv, TemplateTypes
    <3>2. /\ embedding' \in [Indexer -> [TVersion -> Body \cup {"none", "unlisted"}]]
          /\ \A y \in Indexer :
               embedding'[y] # NoListing => embedding'[y] \in [TVersion -> Body \cup {"none"}]
      BY <2>5 DEF TemplateInv, TemplateTypes
    <3> QED
      BY <2>1, <3>1, <3>2 DEF TemplateInv, TemplateTypes
  <2>8. ListingInv'
    <3>1. \A y \in Indexer : FromFiles(embedding'[y])
      BY <2>5 DEF TemplateInv, TemplateTypes, ListingInv
    <3>2. FromFiles(vectors')
      BY <2>6 DEF TemplateInv, ListingInv
    <3> QED
      BY <2>1, <3>1, <3>2 DEF ListingInv, FromFiles, HasFile
  <2> QED
    BY <2>2, <2>7, <2>8 DEF TemplateInv
<1>5. CASE UNCHANGED templateVars
  BY <1>5
  DEF templateVars, TemplateInv, TemplateTypes, PublishInv, WritingOnly, RetiringSome, UndoingSome,
      RemovingOnly, Settled, Underway, Active, ListingInv, FromFiles, HasFile
<1> QED
  BY <1>1, <1>2, <1>3, <1>4, <1>5, PublishSteps DEF TemplateNext

(* A publish that succeeds leaves its version the only active one, one     *)
(* that is refused leaves the active versions as they were, and whenever   *)
(* it is cut short one is active, unless a rollback failed                 *)
(* (workflow_template_registry.go, publishWorkflowTemplate).               *)
THEOREM PublishOneOrNone == TemplateSpec => []PublishIsAtomic
PROOF
<1>1. TemplateInv => PublishIsAtomic
  BY DEF TemplateInv, TemplateTypes, PublishInv, WritingOnly, RetiringSome, UndoingSome,
         RemovingOnly, Settled, Underway, Active, PublishIsAtomic, Doing, PublishState
<1> QED
  BY <1>1, TemplateInitInv, TemplateStepInv, PTL DEF TemplateSpec

(* However late an index is written, a vector of a version that is offered *)
(* is of the body it has (workflow_template_registry.go, the reindex).     *)
THEOREM VectorsOfTemplates == TemplateSpec => []VectorsMatch
PROOF
<1>1. TemplateInv => VectorsMatch
  BY DEF TemplateInv, ListingInv, FromFiles, VectorsMatch, ActiveIn
<1> QED
  BY <1>1, TemplateInitInv, TemplateStepInv, PTL DEF TemplateSpec

(* Templates, the publish under way and the listings keep their types.     *)
LEMMA TemplatesTypesHold == TemplateSpec => []TemplatesTypeOK
PROOF
<1>1. TemplateInv => TemplatesTypeOK
  BY DEF TemplateInv, TemplateTypes, FileRecord, PublishState, TemplatesTypeOK
<1> QED
  BY <1>1, TemplateInitInv, TemplateStepInv, PTL DEF TemplateSpec

(* ---- the index of Recall --------------------------------------------------- *)

MaybeText == AnyText \cup {NoText}
MaybeModel == EModel \cup {"no model"}
IndexState == [model : MaybeModel, entries : [Doc -> Entry]]
RebuildState ==
  [step : {"idle", "read", "loaded"}, scope : SUBSET Doc, model : MaybeModel,
   read : [Doc -> MaybeText], base : IndexState]
SearchState ==
  [step : {"idle", "scored"}, model : MaybeModel, index : IndexState,
   had : [Doc -> SUBSET MaybeText], hits : SUBSET Doc]
RecallTypes ==
  /\ documents \in [Doc -> MaybeText] /\ model \in EModel /\ index \in IndexState
  /\ rebuild \in [Reindexer -> RebuildState] /\ search \in [Searcher -> SearchState]
  /\ \A r \in Reindexer : rebuild[r].step # "idle" => rebuild[r].model \in EModel

(* Every vector of an index is of its document's text, by its one model.   *)
TrueIndex(ix) ==
  \A d \in Doc : ix.entries[d] # NoEntry =>
    /\ ix.entries[d].text # NoText
    /\ ix.entries[d].of = ix.entries[d].text /\ ix.entries[d].by = ix.model
TrueBase(job) == job.step = "loaded" => TrueIndex(job.base)
TrueSearch(s) ==
  IF s.step = "idle" THEN s.hits = {}
  ELSE /\ s.index.model = s.model /\ TrueIndex(s.index)
       /\ \A d \in s.hits : s.index.entries[d] # NoEntry /\ s.index.entries[d].text \in s.had[d]
Watching(s) == s.step = "scored" => \A d \in Doc : documents[d] \in s.had[d]

RecallInv ==
  /\ RecallTypes /\ TrueIndex(index)
  /\ \A r \in Reindexer : TrueBase(rebuild[r])
  /\ \A q \in Searcher : TrueSearch(search[q]) /\ Watching(search[q])

LEMMA NothingIndexed ==
  NoEntry \in Entry /\ NoIndex \in IndexState /\ NoRebuild \in RebuildState /\ NoSearch \in SearchState
PROOF
<1>1. NoEntry \in Entry
  BY DEF Entry
<1>2. NoIndex \in IndexState
  BY <1>1 DEF NoIndex, IndexState, MaybeModel
<1>3. NoRebuild \in RebuildState
  BY <1>2 DEF NoRebuild, RebuildState, MaybeModel, MaybeText
<1>4. NoSearch \in SearchState
  BY <1>2 DEF NoSearch, SearchState, MaybeModel, MaybeText
<1> QED
  BY <1>1, <1>2, <1>3, <1>4

LEMMA RecallInitInv == RecallInit => RecallInv
PROOF
<1> SUFFICES ASSUME RecallInit PROVE RecallInv
  OBVIOUS
<1>1. RecallTypes
  BY NothingIndexed DEF RecallInit, RecallTypes, MaybeText, NoRebuild
<1>2. TrueIndex(index)
  BY DEF RecallInit, TrueIndex, NoIndex
<1>3. \A r \in Reindexer : TrueBase(rebuild[r])
  BY DEF RecallInit, TrueBase, NoRebuild
<1>4. \A q \in Searcher : TrueSearch(search[q]) /\ Watching(search[q])
  BY DEF RecallInit, TrueSearch, Watching, NoSearch
<1> QED
  BY <1>1, <1>2, <1>3, <1>4 DEF RecallInv

(* Whatever becomes of the documents, a search that runs has seen it.      *)
LEMMA DocumentsChange ==
  ASSUME RecallInv, NEW new \in [Doc -> MaybeText], Changed(new)
  PROVE  RecallInv'
PROOF
<1>1. documents' = new /\ UNCHANGED <<model, index, rebuild>>
  BY DEF Changed
<1>2. ASSUME NEW q \in Searcher
      PROVE  search'[q] \in SearchState /\ TrueSearch(search'[q]) /\ Watching(search[q])'
  <2> DEFINE s == search[q]
             had == [d \in Doc |-> IF s.step = "idle" THEN {} ELSE s.had[d] \cup {new[d]}]
  <2>1. s \in SearchState /\ TrueSearch(s)
    BY DEF RecallInv, RecallTypes
  <2>2. search'[q] = [s EXCEPT !.had = had]
    BY DEF Changed, Watched
  <2>3. had \in [Doc -> SUBSET MaybeText]
    BY <2>1 DEF SearchState
  <2>4. s.step = "scored" => \A d \in Doc : had[d] = s.had[d] \cup {new[d]}
    OBVIOUS
  <2> HIDE DEF s, had
  <2>5. /\ search'[q] \in SearchState /\ search'[q].had = had /\ search'[q].step = s.step
        /\ search'[q].model = s.model /\ search'[q].index = s.index /\ search'[q].hits = s.hits
    BY <2>1, <2>2, <2>3 DEF SearchState
  <2>6. s.hits \subseteq Doc /\ s.step \in {"idle", "scored"}
    BY <2>1 DEF SearchState
  <2> QED
    BY <1>1, <2>1, <2>4, <2>5, <2>6 DEF TrueSearch, Watching
<1>3. DOMAIN search' = Searcher /\ search' = [q \in Searcher |-> search'[q]]
  BY DEF Changed, Watched
<1>4. search' \in [Searcher -> SearchState]
  BY <1>2, <1>3
<1> QED
  BY <1>1, <1>2, <1>4 DEF RecallInv, RecallTypes, TrueIndex, TrueBase

(* What a reindex writes is true, if what it began with is.                *)
LEMMA RebuiltIsTrue ==
  ASSUME NEW job \in RebuildState, TrueIndex(job.base), job.model \in EModel
  PROVE  LET new == [model |-> job.model, entries |-> Rebuilt(job)]
         IN  new \in IndexState /\ TrueIndex(new)
PROOF
<1>1. ASSUME NEW d \in Doc
      PROVE  /\ Rebuilt(job)[d] \in Entry
             /\ Rebuilt(job)[d] # NoEntry =>
                  /\ Rebuilt(job)[d].text # NoText
                  /\ Rebuilt(job)[d].of = Rebuilt(job)[d].text /\ Rebuilt(job)[d].by = job.model
  <2>1. job.base.entries[d] \in Entry /\ job.read[d] \in MaybeText
    BY DEF RebuildState, IndexState
  <2>2. job.base.entries[d] # NoEntry =>
          /\ job.base.entries[d].text # NoText
          /\ job.base.entries[d].of = job.base.entries[d].text
          /\ job.base.entries[d].by = job.base.model
    BY DEF TrueIndex
  <2> DEFINE fresh == [text |-> job.read[d], by |-> job.model, of |-> job.read[d]]
  <2>3. job.read[d] # NoText =>
          /\ fresh \in Entry /\ fresh.text = job.read[d] /\ fresh.of = job.read[d]
          /\ fresh.by = job.model
    BY <2>1 DEF Entry, MaybeText
  <2>4. \/ Rebuilt(job)[d] = NoEntry
        \/ Rebuilt(job)[d] = job.base.entries[d] /\ job.base.model = job.model
        \/ Rebuilt(job)[d] = fresh /\ job.read[d] # NoText
    BY DEF Rebuilt, Reused, CanReuse
  <2> HIDE DEF fresh
  <2> QED
    BY <2>1, <2>2, <2>3, <2>4, NothingIndexed
<1>2. Rebuilt(job) \in [Doc -> Entry]
  BY <1>1 DEF Rebuilt
<1> QED
  BY <1>1, <1>2 DEF IndexState, MaybeModel, TrueIndex

LEMMA RecallStepInv == RecallInv /\ [RecallNext]_recallVars => RecallInv'
PROOF
<1> SUFFICES ASSUME RecallInv, [RecallNext]_recallVars PROVE RecallInv'
  OBVIOUS
<1>1. ASSUME NEW new \in [Doc -> MaybeText], Changed(new) PROVE RecallInv'
  BY <1>1, DocumentsChange
<1>2. ASSUME NEW d \in Doc, NEW e \in Doc, NEW t \in TextOf[e],
             WriteDocument(e, t) \/ MoveDocument(d, e, t) \/ DeleteDocument(d)
      PROVE  RecallInv'
  <2>1. documents \in [Doc -> MaybeText] /\ t \in MaybeText /\ NoText \in MaybeText
    BY DEF RecallInv, RecallTypes, MaybeText, AnyText
  <2> QED
    BY <1>1, <1>2, <2>1 DEF WriteDocument, MoveDocument, DeleteDocument
<1>3. ASSUME NEW m \in EModel, SetModel(m) PROVE RecallInv'
  BY <1>3 DEF SetModel, RecallInv, RecallTypes, TrueIndex, TrueBase, TrueSearch, Watching
<1>4. ASSUME NEW r \in Reindexer, NEW job \in RebuildState, Rebuild(r, job), TrueBase(job),
             job.step # "idle" => job.model \in EModel,
             UNCHANGED <<documents, model, search>>,
             index' \in IndexState, TrueIndex(index')
      PROVE  RecallInv'
  <2>1. /\ rebuild' \in [Reindexer -> RebuildState] /\ rebuild'[r] = job
        /\ \A s \in Reindexer \ {r} : rebuild'[s] = rebuild[s]
    BY <1>4 DEF Rebuild, RecallInv, RecallTypes
  <2>2. RecallTypes'
    BY <1>4, <2>1 DEF RecallInv, RecallTypes
  <2>3. \A s \in Reindexer : TrueBase(rebuild'[s])
    BY <1>4, <2>1 DEF RecallInv
  <2>4. \A q \in Searcher : TrueSearch(search[q])' /\ Watching(search[q])'
    BY <1>4 DEF RecallInv, TrueSearch, Watching, TrueIndex
  <2> QED
    BY <1>4, <2>2, <2>3, <2>4 DEF RecallInv, TrueBase, TrueIndex
<1>5. ASSUME NEW r \in Reindexer, NEW scope \in Prefix, ReadDocuments(r, scope) PROVE RecallInv'
  <2> DEFINE read == [d \in Doc |-> IF d \in scope THEN documents[d] ELSE NoText]
             job == [NoRebuild EXCEPT !.step = "read", !.scope = scope, !.model = model,
                                      !.read = read]
  <2>1. read \in [Doc -> MaybeText] /\ scope \in SUBSET Doc
    BY RecallConstants DEF RecallInv, RecallTypes, MaybeText
  <2>2. Rebuild(r, job) /\ UNCHANGED <<documents, model, index, search>>
    BY <1>5 DEF ReadDocuments
  <2> HIDE DEF read
  <2>3. job \in RebuildState /\ job.step = "read" /\ job.model = model
    BY <2>1, NothingIndexed DEF RecallInv, RecallTypes, RebuildState, MaybeModel
  <2> HIDE DEF job
  <2> QED
    BY <1>4, <2>2, <2>3 DEF RecallInv, RecallTypes, TrueBase
<1>6. ASSUME NEW r \in Reindexer, LoadIndex(r) PROVE RecallInv'
  <2> DEFINE job == [rebuild[r] EXCEPT !.step = "loaded", !.base = index]
  <2>1. rebuild[r] \in RebuildState /\ rebuild[r].step = "read" /\ index \in IndexState
        /\ rebuild[r].model \in EModel
    BY <1>6 DEF LoadIndex, RecallInv, RecallTypes
  <2>2. job \in RebuildState /\ job.step = "loaded" /\ job.base = index /\ job.model \in EModel
    BY <2>1 DEF RebuildState
  <2>3. Rebuild(r, job) /\ UNCHANGED <<documents, model, index, search>>
    BY <1>6 DEF LoadIndex
  <2> HIDE DEF job
  <2> QED
    BY <1>4, <2>1, <2>2, <2>3 DEF RecallInv, TrueBase
<1>7. ASSUME NEW r \in Reindexer, WriteIndex(r) PROVE RecallInv'
  <2>1. rebuild[r] \in RebuildState /\ rebuild[r].model \in EModel /\ TrueIndex(rebuild[r].base)
    BY <1>7 DEF WriteIndex, RecallInv, RecallTypes, TrueBase
  <2>2. index' \in IndexState /\ TrueIndex(index')
    BY <1>7, <2>1, RebuiltIsTrue DEF WriteIndex, RecallInv, RecallTypes
  <2>3. NoRebuild.step = "idle" /\ TrueBase(NoRebuild)
    BY DEF NoRebuild, TrueBase
  <2> QED
    BY <1>4, <1>7, <2>2, <2>3, NothingIndexed DEF WriteIndex
<1>8. ASSUME NEW q \in Searcher, NEW s \in SearchState, Seek(q, s), TrueSearch(s), Watching(s),
             UNCHANGED <<documents, model, index, rebuild>>
      PROVE  RecallInv'
  <2>1. /\ search' \in [Searcher -> SearchState] /\ search'[q] = s
        /\ \A p \in Searcher \ {q} : search'[p] = search[p]
    BY <1>8 DEF Seek, RecallInv, RecallTypes
  <2>2. RecallTypes'
    BY <1>8, <2>1 DEF RecallInv, RecallTypes
  <2>3. \A p \in Searcher : TrueSearch(search'[p]) /\ Watching(search'[p])
    BY <1>8, <2>1 DEF RecallInv
  <2> QED
    BY <1>8, <2>2, <2>3 DEF RecallInv, TrueBase, TrueIndex, Watching, TrueSearch
<1>9. ASSUME NEW q \in Searcher, StartSearch(q) PROVE RecallInv'
  <2> DEFINE had == [d \in Doc |-> {documents[d]}]
             s == [NoSearch EXCEPT !.step = "scored", !.model = model, !.index = index, !.had = had]
  <2>1. had \in [Doc -> SUBSET MaybeText] /\ (\A d \in Doc : documents[d] \in had[d])
    BY DEF RecallInv, RecallTypes
  <2>2. index.model = model /\ Seek(q, s) /\ UNCHANGED <<documents, model, index, rebuild>>
    BY <1>9 DEF StartSearch
  <2> HIDE DEF had
  <2>3. /\ s \in SearchState /\ s.step = "scored" /\ s.model = model /\ s.index = index
        /\ s.had = had /\ s.hits = {}
    BY <2>1, NothingIndexed DEF RecallInv, RecallTypes, SearchState, MaybeModel, NoSearch
  <2> HIDE DEF s
  <2>4. TrueSearch(s) /\ Watching(s)
    BY <2>1, <2>2, <2>3 DEF RecallInv, TrueSearch, Watching
  <2> QED
    BY <1>8, <2>2, <2>3, <2>4
<1>10. ASSUME NEW q \in Searcher, NEW d \in Doc, CheckHit(q, d) PROVE RecallInv'
  <2> DEFINE s == [search[q] EXCEPT !.hits = @ \cup {d}]
  <2>1. search[q] \in SearchState /\ search[q].step = "scored" /\ TrueSearch(search[q])
        /\ Watching(search[q])
    BY <1>10 DEF CheckHit, RecallInv, RecallTypes
  <2>2. /\ s \in SearchState /\ s.step = "scored" /\ s.hits = search[q].hits \cup {d}
        /\ s.model = search[q].model /\ s.index = search[q].index /\ s.had = search[q].had
    BY <2>1 DEF SearchState
  <2>3. Seek(q, s) /\ UNCHANGED <<documents, model, index, rebuild>>
    BY <1>10 DEF CheckHit
  <2> HIDE DEF s
  <2>4. TrueSearch(s) /\ Watching(s)
    BY <1>10, <2>1, <2>2 DEF CheckHit, Fresh, TrueSearch, Watching
  <2> QED
    BY <1>8, <2>2, <2>3, <2>4
<1>11. ASSUME NEW q \in Searcher, EndSearch(q) PROVE RecallInv'
  <2>1. TrueSearch(NoSearch) /\ Watching(NoSearch)
    BY DEF TrueSearch, Watching, NoSearch
  <2> QED
    BY <1>8, <1>11, <2>1, NothingIndexed DEF EndSearch
<1>12. CASE UNCHANGED recallVars
  BY <1>12 DEF recallVars, RecallInv, RecallTypes, TrueIndex, TrueBase, TrueSearch, Watching
<1>13. ASSUME NEW d \in Doc, DeleteDocument(d) PROVE RecallInv'
  <2>1. documents \in [Doc -> MaybeText] /\ NoText \in MaybeText
    BY DEF RecallInv, RecallTypes, MaybeText
  <2> QED
    BY <1>1, <1>13, <2>1 DEF DeleteDocument
<1> QED
  BY <1>2, <1>3, <1>5, <1>6, <1>7, <1>9, <1>10, <1>11, <1>12, <1>13 DEF RecallNext

(* However reindexes overlap and reuse each other's vectors, a hit was     *)
(* scored with a vector that the search's model made of a text that its    *)
(* document had while the search ran (recall/embedding.go).                *)
THEOREM HitsOfTheirText == RecallSpec => []HitsAreTrue
PROOF
<1>1. RecallInv => HitsAreTrue
  <2> SUFFICES ASSUME RecallInv, NEW q \in Searcher, NEW d \in search[q].hits
               PROVE  /\ search[q].index.entries[d].by = search[q].model
                      /\ search[q].index.entries[d].of \in search[q].had[d] \ {NoText}
    BY DEF HitsAreTrue
  <2>1. search[q] \in SearchState /\ TrueSearch(search[q]) /\ d \in Doc
    BY DEF RecallInv, RecallTypes, SearchState
  <2> QED
    BY <2>1 DEF TrueSearch, TrueIndex
<1> QED
  BY <1>1, RecallInitInv, RecallStepInv, PTL DEF RecallSpec

(* Documents, indexes and searches keep their types.                       *)
LEMMA RecallTypesHold == RecallSpec => []RecallTypeOK
PROOF
<1>1. RecallInv => RecallTypeOK
  <2> SUFFICES ASSUME RecallInv PROVE RecallTypeOK
    OBVIOUS
  <2>1. RecallTypes
    BY DEF RecallInv
  <2> QED
    BY <2>1 DEF RecallTypes, MaybeText, MaybeModel, IndexState, RebuildState, SearchState, RecallTypeOK
<1> QED
  BY <1>1, RecallInitInv, RecallStepInv, PTL DEF RecallSpec

(* ---- the answers of an embedding service ----------------------------------- *)

(* A vector is of the text at its place, and has a number.                 *)
InPlace(list) ==
  /\ \E n \in Nat : list \in [1..n -> Item]
  /\ \A i \in 1..Len(list) : list[i].of = i /\ list[i].dim > 0

AnswerInv ==
  /\ answer = NothingReceived \/ (answer.items \in HonestAnswers /\ answer.user \in User)
  /\ parsed = Failed \/ (InPlace(parsed.vectors) /\ parsed.user \in User)
  /\ DOMAIN stored = User
  /\ \A u \in User : \/ stored[u] = NoVectors
                     \/ \E dim \in 1..MaxDim :
                          /\ BatchTexts > 0
                          /\ stored[u] = [dim |-> dim, of |-> [i \in 1..BatchTexts |-> i]]

LEMMA LengthOfAnswer ==
  ASSUME NEW S, NEW n \in Nat, NEW s \in [1..n -> S]
  PROVE  Len(s) = n
OBVIOUS

(* Where every item has its place and no two the same, every place is      *)
(* taken by an item of its text.                                           *)
LEMMA PlacedInPlace ==
  ASSUME NEW items \in HonestAnswers, Placeable(items)
  PROVE  InPlace(Placed(items))
PROOF
<1>1. PICK n \in Nat : items \in [1..n -> Item] /\ Honest(items)
  BY AnswerConstants DEF HonestAnswers
<1>2. Len(items) = n
  BY <1>1, LengthOfAnswer
<1> DEFINE f == [i \in 1..n |-> Target(items, i)]
<1>3. f \in Injection(1..n, 1..n)
  <2>1. \A i \in 1..n : f[i] \in 1..n
    BY <1>2 DEF Placeable
  <2>2. \A i, j \in 1..n : f[i] = f[j] => i = j
    BY <1>2 DEF Placeable
  <2> HIDE DEF f
  <2>3. f \in [1..n -> 1..n]
    BY <2>1 DEF f
  <2> QED
    BY <2>2, <2>3 DEF Injection, IsInjective
<1>4. IsFiniteSet(1..n)
  BY FS_Interval
<1>5. f \in Surjection(1..n, 1..n)
  BY <1>3, <1>4, FS_Injection
<1>6. ASSUME NEW p \in 1..n
      PROVE  Placed(items)[p] \in Item /\ Placed(items)[p].of = p /\ Placed(items)[p].dim > 0
  <2> DEFINE i == CHOOSE j \in 1..n : Target(items, j) = p
  <2>1. \E j \in 1..n : Target(items, j) = p
    BY <1>5 DEF Surjection
  <2>2. i \in 1..n /\ Target(items, i) = p
    BY <2>1
  <2>3. Placed(items)[p] = items[i]
    BY <1>2 DEF Placed
  <2> HIDE DEF i
  <2>4. items[i] \in Item /\ items[i].dim > 0
    BY <1>1, <1>2, <2>2 DEF Placeable
  <2>5. items[i].of = p
    BY <1>1, <1>2, <2>2 DEF Honest, Target
  <2> QED
    BY <2>3, <2>4, <2>5
<1>7. DOMAIN Placed(items) = 1..n /\ Placed(items) = [p \in 1..n |-> Placed(items)[p]]
  BY <1>2 DEF Placed
<1>8. Placed(items) \in [1..n -> Item]
  BY <1>6, <1>7
<1>9. Len(Placed(items)) = n
  BY <1>8, LengthOfAnswer
<1> QED
  BY <1>6, <1>8, <1>9 DEF InPlace

LEMMA AnswerStepInv == AnswerInv /\ [AnswerNext]_answerVars => AnswerInv'
PROOF
<1> SUFFICES ASSUME AnswerInv, [AnswerNext]_answerVars PROVE AnswerInv'
  OBVIOUS
<1>1. ASSUME NEW shape \in {"data", "embeddings", "embedding"}, NEW items \in HonestAnswers,
             RecallAnswered(shape, items) \/ TemplatesAnswered(shape, items)
      PROVE  AnswerInv'
  <2>1. PICK u \in User : answer' = [user |-> u, shape |-> shape, items |-> items]
                          /\ UNCHANGED <<parsed, stored>>
    BY <1>1 DEF RecallAnswered, TemplatesAnswered, ReceiveAnswer, User
  <2> QED
    BY <2>1 DEF AnswerInv
<1>2. CASE ParseRecall \/ ParseTemplates
  <2>1. PICK shapes : parsed' = Parsed(shapes) /\ answer' = NothingReceived /\ UNCHANGED stored
                      /\ answer.shape # "none"
    BY <1>2 DEF ParseRecall, ParseTemplates
  <2>2. answer.items \in HonestAnswers /\ answer.user \in User
    BY <2>1 DEF AnswerInv, NothingReceived
  <2>3. \/ parsed' = Failed
        \/ /\ Placeable(answer.items)
           /\ parsed' = [ok |-> TRUE, user |-> answer.user, vectors |-> Placed(answer.items)]
    BY <2>1 DEF Parsed
  <2>4. parsed' = Failed \/ (InPlace(parsed'.vectors) /\ parsed'.user \in User)
    BY <2>2, <2>3, PlacedInPlace
  <2> QED
    BY <2>1, <2>4 DEF AnswerInv
<1>3. ASSUME NEW u \in User, KeepVectors(u), parsed.vectors # <<>> PROVE AnswerInv'
  <2> DEFINE list == parsed.vectors
             row == [dim |-> list[1].dim, of |-> [i \in 1..BatchTexts |-> list[i].of]]
  <2>1. InPlace(list) /\ Len(list) = BatchTexts /\ parsed' = Failed /\ answer' = answer
        /\ stored' = [stored EXCEPT ![u] = row]
    BY <1>3 DEF KeepVectors, AnswerInv, Failed
  <2>2. list # <<>>
    BY <1>3
  <2> HIDE DEF list
  <2>3. list \in [1..BatchTexts -> Item] /\ BatchTexts > 0
    BY <2>1, <2>2, LengthOfAnswer, AnswerConstants DEF InPlace
  <2>4. list[1].dim \in 1..MaxDim
    BY <2>1, <2>3, AnswerConstants DEF InPlace, Item
  <2>5. [i \in 1..BatchTexts |-> list[i].of] = [i \in 1..BatchTexts |-> i]
    BY <2>1 DEF InPlace
  <2> QED
    BY <2>1, <2>3, <2>4, <2>5 DEF AnswerInv
<1>4. CASE StoreRecall \/ StoreTemplates
  BY <1>3, <1>4 DEF StoreRecall, StoreTemplates, User
<1>5. CASE Reject
  BY <1>5 DEF Reject, AnswerInv
<1>6. ASSUME NEW u \in User, StoreNothing(u) PROVE AnswerInv'
  BY <1>6 DEF StoreNothing, AnswerInv
<1>7. CASE UNCHANGED answerVars
  BY <1>7 DEF answerVars, AnswerInv
<1> QED
  BY <1>1, <1>2, <1>4, <1>5, <1>6, <1>7 DEF AnswerNext

(* In whatever order an honest service answers, and whatever else it       *)
(* sends, a vector is stored for the text it was computed from, and an     *)
(* index has one for every text or for none (recall/embedding.go,          *)
(* workflow_embedding.go).                                                 *)
THEOREM VectorsFindTheirText == AnswerSpec => []VectorsOfTheirText
PROOF
<1>1. AnswerInit => AnswerInv
  BY DEF AnswerInit, AnswerInv
<1>2. AnswerInv => VectorsOfTheirText
  <2> SUFFICES ASSUME AnswerInv PROVE VectorsOfTheirText
    OBVIOUS
  <2>1. \A i \in 1..Len(parsed.vectors) : parsed.vectors[i].of = i
    BY DEF AnswerInv, Failed, InPlace
  <2>2. ASSUME NEW u \in User
        PROVE  /\ stored[u].of = [i \in 1..Len(stored[u].of) |-> i]
               /\ stored[u].dim > 0 <=> stored[u].of # <<>>
    <3>1. CASE stored[u] = NoVectors
      BY <3>1 DEF NoVectors
    <3>2. ASSUME NEW dim \in 1..MaxDim, BatchTexts > 0,
                 stored[u] = [dim |-> dim, of |-> [i \in 1..BatchTexts |-> i]]
          PROVE  /\ stored[u].of = [i \in 1..Len(stored[u].of) |-> i]
                 /\ stored[u].dim > 0 <=> stored[u].of # <<>>
      <4>1. [i \in 1..BatchTexts |-> i] \in [1..BatchTexts -> Nat]
        OBVIOUS
      <4>2. Len([i \in 1..BatchTexts |-> i]) = BatchTexts
        BY <4>1, AnswerConstants, LengthOfAnswer
      <4>3. [i \in 1..BatchTexts |-> i] # <<>>
        BY <3>2, <4>2, AnswerConstants
      <4> DEFINE all == [i \in 1..BatchTexts |-> i]
      <4>4. stored[u].of = all /\ stored[u].dim = dim /\ dim > 0
        BY <3>2, AnswerConstants
      <4>5. all = [i \in 1..Len(all) |-> i] /\ all # <<>>
        BY <4>2, <4>3
      <4> HIDE DEF all
      <4> QED
        BY <4>4, <4>5
    <3> QED
      BY <3>1, <3>2 DEF AnswerInv
  <2> QED
    BY <2>1, <2>2 DEF VectorsOfTheirText
<1> QED
  BY <1>1, <1>2, AnswerStepInv, PTL DEF AnswerSpec

(* An index that is stored has a vector for each text of the batch or      *)
(* none, of a dimension that is a service's.                               *)
LEMMA AnswerTypesHold == AnswerSpec => []AnswerTypeOK
PROOF
<1> DEFINE Typed == /\ answer.shape \in {"none", "data", "embeddings", "embedding"}
                    /\ parsed.ok \in BOOLEAN /\ answer.user \in User /\ parsed.user \in User
<1>1. AnswerInit => AnswerInv /\ Typed
  BY DEF AnswerInit, AnswerInv, NothingReceived, Failed, User
<1>2. AnswerInv /\ Typed /\ [AnswerNext]_answerVars => Typed'
  <2> SUFFICES ASSUME Typed, [AnswerNext]_answerVars PROVE Typed'
    OBVIOUS
  <2>1. ASSUME NEW shape \in {"data", "embeddings", "embedding"}, NEW items \in HonestAnswers,
               RecallAnswered(shape, items) \/ TemplatesAnswered(shape, items)
        PROVE  Typed'
    BY <2>1 DEF RecallAnswered, TemplatesAnswered, ReceiveAnswer, User
  <2>2. CASE ParseRecall \/ ParseTemplates
    <3>1. PICK shapes : parsed' = Parsed(shapes) /\ answer' = NothingReceived
      BY <2>2 DEF ParseRecall, ParseTemplates
    <3>2. parsed'.ok \in BOOLEAN /\ parsed'.user \in User
      BY <3>1 DEF Parsed, Failed, User
    <3> QED
      BY <3>1, <3>2 DEF NothingReceived, User
  <2>3. CASE StoreRecall \/ StoreTemplates \/ Reject
    <3>1. parsed' = Failed /\ answer' = answer
      BY <2>3 DEF StoreRecall, StoreTemplates, Reject, KeepVectors
    <3> QED
      BY <3>1 DEF Failed, User
  <2>4. CASE (\E u \in User : StoreNothing(u)) \/ UNCHANGED answerVars
    BY <2>4 DEF StoreNothing, answerVars
  <2> QED
    BY <2>1, <2>2, <2>3, <2>4 DEF AnswerNext
<1>3. AnswerInv /\ Typed => AnswerTypeOK
  <2> SUFFICES ASSUME AnswerInv, Typed, NEW u \in User
               PROVE  stored[u].dim \in 0..MaxDim /\ Len(stored[u].of) \in {0, BatchTexts}
    BY DEF AnswerTypeOK
  <2>1. CASE stored[u] = NoVectors
    BY <2>1, AnswerConstants DEF NoVectors
  <2>2. ASSUME NEW dim \in 1..MaxDim, stored[u] = [dim |-> dim, of |-> [i \in 1..BatchTexts |-> i]]
        PROVE  stored[u].dim \in 0..MaxDim /\ Len(stored[u].of) \in {0, BatchTexts}
    <3>1. [i \in 1..BatchTexts |-> i] \in [1..BatchTexts -> Nat]
      OBVIOUS
    <3>2. Len([i \in 1..BatchTexts |-> i]) = BatchTexts
      BY <3>1, AnswerConstants, LengthOfAnswer
    <3> QED
      BY <2>2, <3>2, AnswerConstants
  <2> QED
    BY <2>1, <2>2 DEF AnswerInv
<1> QED
  BY <1>1, <1>2, <1>3, AnswerStepInv, PTL DEF AnswerSpec

(* ---- the private notes ------------------------------------------------------ *)

BacksUp(content, backup) ==
  IF content = Nothing THEN backup = Nothing ELSE backup # Nothing /\ backup.content = content

NoteTypes ==
  /\ plain \in [Note -> Content \cup {Nothing}]
  /\ sealed \in [Note -> SealedNote \cup {Nothing}]
  /\ identity \in Key \cup {Nothing} /\ recipient \in Key \cup {Nothing}
  /\ op \in Operations \cup {Nothing}
  /\ created \in [Note -> 0..MaxCreated] /\ torn \subseteq Note

(* There is one identity: it is what everything is encrypted for.          *)
OneIdentity ==
  /\ recipient # Nothing => recipient = identity
  /\ \A n \in Note : sealed[n] # Nothing => sealed[n].key = identity /\ identity # Nothing

(* What the operation that holds the mutex knows is as it found it.        *)
Present == {n \in Note : plain[n] # Nothing}
OpHolds ==
  /\ InOp("identity") => op.key = identity
  /\ InOp("write") => /\ recipient # Nothing
                      /\ op.sealed.content = op.content /\ op.sealed.key = identity
  /\ Halfway => plain[op.note] = IF op.at = "plain" THEN op.previous
                                 ELSE IF op.kind = "write" THEN op.content ELSE Nothing
  /\ InOp("sync") => recipient # Nothing /\ op.todo \in Seq(Present)

(* The note that an operation has half written is what it would put back.  *)
Before(n) == IF Halfway /\ op.note = n THEN op.previous ELSE plain[n]
BackedUp == \A n \in Note \ torn : BacksUp(Before(n), sealed[n])

NoteInv == NoteTypes /\ OneIdentity /\ OpHolds /\ BackedUp

LEMMA NotesInitInv == NotesInit => NoteInv
PROOF
<1> SUFFICES ASSUME NotesInit PROVE NoteInv
  OBVIOUS
<1>1. NoteTypes
  BY NoteConstants DEF NotesInit, NoteTypes
<1> QED
  BY <1>1 DEF NotesInit, NoteInv, OneIdentity, OpHolds, BackedUp, InOp, Halfway, Before, BacksUp

(* The operations, by their kind.                                          *)
LEMMA OperationKinds ==
  ASSUME op \in Operations \cup {Nothing}
  PROVE  /\ InOp("identity") => op \in [kind : {"identity"}, key : Key \cup {Nothing}]
         /\ InOp("write") =>
              op \in [kind : {"write"}, note : Note, at : {"plain", "sealed"}, content : Content,
                      sealed : SealedNote, previous : Content \cup {Nothing}]
         /\ InOp("delete") => op \in [kind : {"delete"}, note : Note, at : {"plain", "sealed"},
                                      previous : Content \cup {Nothing}]
         /\ InOp("sync") => op \in [kind : {"sync"}, todo : Seq(Note)]
         /\ Halfway => op.note \in Note /\ op.at \in {"plain", "sealed"}
BY DEF Operations, InOp, Halfway

(* Between two operations everything is backed up as it stands.            *)
LEMMA NotesAtRest ==
  ASSUME NoteTypes', OneIdentity', op' = Nothing,
         \A n \in Note \ torn' : BacksUp(plain'[n], sealed'[n])
  PROVE  NoteInv'
BY DEF NoteInv, OpHolds, BackedUp, InOp, Halfway, Before, BacksUp

LEMMA IdentitySteps ==
  ASSUME NoteInv, BeginIdentity \/ WriteRecipient \/ \E k \in Key : MakeIdentity(k)
  PROVE  NoteInv'
PROOF
<1>1. CASE BeginIdentity
  <2> DEFINE new == [kind |-> "identity", key |-> identity]
  <2>1. op = Nothing /\ op' = new /\ UNCHANGED <<plain, sealed, identity, recipient, created, torn>>
    BY <1>1 DEF BeginIdentity
  <2>2. new \in Operations /\ new.kind = "identity" /\ new.key = identity
    BY DEF NoteInv, NoteTypes, Operations
  <2> HIDE DEF new
  <2>3. ~Halfway /\ ~Halfway' /\ ~InOp("sync")' /\ ~InOp("write")'
    BY <2>1, <2>2 DEF Halfway, InOp
  <2> QED
    BY <2>1, <2>2, <2>3
    DEF NoteInv, NoteTypes, OneIdentity, OpHolds, BackedUp, Before, BacksUp
<1>2. CASE WriteRecipient
  <2>1. op.key = identity /\ identity \in Key \cup {Nothing} /\ ~Halfway
    BY <1>2 DEF WriteRecipient, NoteInv, NoteTypes, OpHolds, Halfway, InOp
  <2>2. NoteTypes' /\ OneIdentity'
    BY <1>2, <2>1 DEF WriteRecipient, NoteInv, NoteTypes, OneIdentity
  <2> QED
    BY <1>2, <2>1, <2>2, NotesAtRest DEF WriteRecipient, NoteInv, BackedUp, Before
<1>3. ASSUME NEW k \in Key, MakeIdentity(k) PROVE NoteInv'
  <2>1. /\ InOp("identity") /\ op.key = Nothing /\ identity = Nothing /\ identity' = k
        /\ op' = [op EXCEPT !.key = k] /\ UNCHANGED <<plain, sealed, recipient, created, torn>>
    BY <1>3 DEF MakeIdentity, NoteInv, OpHolds
  <2>2. op \in [kind : {"identity"}, key : Key \cup {Nothing}]
    BY <2>1, OperationKinds DEF NoteInv, NoteTypes
  <2>3. op' \in Operations /\ op'.kind = "identity" /\ op'.key = k
    BY <2>1, <2>2 DEF Operations
  <2>4. ~Halfway /\ ~Halfway' /\ ~InOp("sync")' /\ ~InOp("write")'
    BY <2>1, <2>2, <2>3 DEF Halfway, InOp
  <2>5. recipient = Nothing /\ \A n \in Note : sealed[n] = Nothing
    BY <2>1 DEF NoteInv, OneIdentity
  <2> QED
    BY <2>1, <2>3, <2>4, <2>5
    DEF NoteInv, NoteTypes, OneIdentity, OpHolds, BackedUp, Before, BacksUp
<1> QED
  BY <1>1, <1>2, <1>3

LEMMA WriteSteps ==
  ASSUME NoteInv,
         \/ WritePlain \/ WriteSealed \/ WriteFails
         \/ \E n \in Note, t \in Text, f \in {"unset", "true", "false"}, o \in BOOLEAN :
              BeginWrite(n, t, f, o)
  PROVE  NoteInv'
PROOF
<1>1. ASSUME NEW n \in Note, NEW t \in Text, NEW f \in {"unset", "true", "false"},
             NEW o \in BOOLEAN, BeginWrite(n, t, f, o)
      PROVE  NoteInv'
  <2> DEFINE c == Rendered(n, t, f)
             new == [kind |-> "write", note |-> n, at |-> "plain", content |-> c,
                     sealed |-> Sealed(c), previous |-> plain[n]]
  <2>1. /\ op = Nothing /\ recipient # Nothing /\ op' = new
        /\ created[n] < MaxCreated \/ plain[n] # Nothing
        /\ UNCHANGED <<plain, sealed, identity, recipient, created, torn>>
    BY <1>1 DEF BeginWrite
  <2>2. c \in Content
    <3>1. plain[n] \in Content \cup {Nothing} /\ created[n] \in 0..MaxCreated
      BY DEF NoteInv, NoteTypes
    <3>2. (IF plain[n] # Nothing THEN plain[n].created ELSE created[n] + 1) \in 1..MaxCreated
      BY <2>1, <3>1, NoteConstants DEF Content
    <3> QED
      BY <3>2 DEF Rendered, Content
  <2>3. recipient \in Key /\ recipient = identity
    BY <2>1 DEF NoteInv, NoteTypes, OneIdentity
  <2> HIDE DEF c
  <2>4. /\ Sealed(c) \in SealedNote /\ Sealed(c).content = c /\ Sealed(c).key = identity
        /\ plain[n] \in Content \cup {Nothing}
    BY <2>2, <2>3 DEF Sealed, SealedNote, NoteInv, NoteTypes
  <2>5. /\ new \in Operations /\ new.kind = "write" /\ new.note = n /\ new.at = "plain"
        /\ new.content = c /\ new.sealed = Sealed(c) /\ new.previous = plain[n]
    BY <2>2, <2>4 DEF Operations
  <2> HIDE DEF new
  <2>6. ~Halfway /\ ~InOp("sync")' /\ ~InOp("identity")'
    BY <2>1, <2>5 DEF Halfway, InOp
  <2> QED
    BY <2>1, <2>4, <2>5, <2>6
    DEF NoteInv, NoteTypes, OneIdentity, OpHolds, BackedUp, Before, BacksUp
<1>2. CASE WritePlain \/ WriteSealed \/ WriteFails
  <2>1. /\ InOp("write") /\ Halfway /\ op.kind = "write" /\ op.note \in Note
        /\ op \in [kind : {"write"}, note : Note, at : {"plain", "sealed"}, content : Content,
                   sealed : SealedNote, previous : Content \cup {Nothing}]
    BY <1>2, OperationKinds
    DEF WritePlain, WriteSealed, WriteFails, Halfway, NoteInv, NoteTypes, InOp
  <2>2. /\ op.content \in Content /\ op.sealed \in SealedNote /\ op.previous \in Content \cup {Nothing}
        /\ op.sealed.content = op.content /\ op.sealed.key = identity /\ identity # Nothing
        /\ op.content # Nothing /\ op.sealed # Nothing
    BY <2>1, NoteConstants DEF NoteInv, OpHolds, OneIdentity
  <2>3. CASE WritePlain
    <3>1. op' \in Operations /\ op' = [op EXCEPT !.at = "sealed"] /\ op.at = "plain"
      BY <2>1, <2>3 DEF WritePlain, Operations
    <3>2. /\ op'.kind = "write" /\ op'.note = op.note /\ op'.at = "sealed"
          /\ op'.content = op.content /\ op'.sealed = op.sealed /\ op'.previous = op.previous
      BY <2>1, <3>1
    <3>3. /\ plain' \in [Note -> Content \cup {Nothing}] /\ plain'[op.note] = op.content
          /\ \A n \in Note \ {op.note} : plain'[n] = plain[n]
      BY <2>1, <2>2, <2>3 DEF WritePlain, NoteInv, NoteTypes
    <3>4. created' \in [Note -> 0..MaxCreated]
      <4>1. op.content.created \in 0..MaxCreated
        BY <2>2, NoteConstants DEF Content
      <4> QED
        BY <2>1, <2>3, <4>1 DEF WritePlain, NoteInv, NoteTypes
    <3>5. UNCHANGED <<sealed, identity, recipient, torn>>
      BY <2>3 DEF WritePlain
    <3>6. ~InOp("sync")' /\ ~InOp("identity")'
      BY <3>2 DEF InOp
    <3>7. NoteTypes' /\ OneIdentity'
      BY <3>1, <3>3, <3>4, <3>5 DEF NoteInv, NoteTypes, OneIdentity
    <3>8. OpHolds'
      BY <2>1, <2>2, <3>2, <3>3, <3>5, <3>6 DEF NoteInv, OpHolds, InOp
    <3>9. plain[op.note] = op.previous
      BY <2>1, <3>1 DEF NoteInv, OpHolds
    <3>10. Halfway' /\ \A n \in Note : Before(n)' = Before(n)
      BY <2>1, <3>1, <3>2, <3>3, <3>9, NoteConstants DEF Before, Halfway, InOp
    <3> QED
      BY <3>5, <3>7, <3>8, <3>10 DEF NoteInv, BackedUp
  <2>4. CASE WriteSealed
    <3>1. /\ op.at = "sealed" /\ op' = Nothing /\ torn' = torn \ {op.note}
          /\ sealed' = [sealed EXCEPT ![op.note] = op.sealed]
          /\ UNCHANGED <<plain, identity, recipient, created>>
      BY <2>4 DEF WriteSealed
    <3>2. plain[op.note] = op.content
      BY <2>1, <3>1 DEF NoteInv, OpHolds
    <3>3. /\ sealed' \in [Note -> SealedNote \cup {Nothing}] /\ sealed'[op.note] = op.sealed
          /\ \A n \in Note \ {op.note} : sealed'[n] = sealed[n]
      BY <2>1, <2>2, <3>1 DEF NoteInv, NoteTypes
    <3>4. NoteTypes' /\ OneIdentity'
      BY <2>2, <3>1, <3>3 DEF NoteInv, NoteTypes, OneIdentity
    <3>5. \A n \in Note \ torn' : BacksUp(plain'[n], sealed'[n])
      BY <2>2, <3>1, <3>2, <3>3 DEF NoteInv, BackedUp, Before, BacksUp
    <3> QED
      BY <3>1, <3>4, <3>5, NotesAtRest
  <2>5. CASE WriteFails
    <3>1. /\ op' = Nothing /\ UNCHANGED <<sealed, identity, recipient, created>>
          /\ \/ op.at = "plain" /\ UNCHANGED <<plain, torn>>
             \/ plain' = [plain EXCEPT ![op.note] = op.previous] /\ UNCHANGED torn
             \/ torn' = torn \cup {op.note} /\ UNCHANGED plain
      BY <2>5 DEF WriteFails, Restored
    <3>2. NoteTypes' /\ OneIdentity'
      BY <2>1, <2>2, <3>1 DEF NoteInv, NoteTypes, OneIdentity
    <3>3. op.at = "plain" => plain[op.note] = op.previous
      BY <2>1 DEF NoteInv, OpHolds
    <3>4. \A n \in Note \ torn' : BacksUp(plain'[n], sealed'[n])
      BY <2>1, <3>1, <3>3 DEF NoteInv, NoteTypes, BackedUp, Before
    <3> QED
      BY <3>1, <3>2, <3>4, NotesAtRest
  <2> QED
    BY <1>2, <2>3, <2>4, <2>5
<1> QED
  BY <1>1, <1>2

LEMMA DeleteSteps ==
  ASSUME NoteInv, DeletePlain \/ DeleteSealed \/ DeleteFails \/ \E n \in Note : BeginDelete(n)
  PROVE  NoteInv'
PROOF
<1>1. ASSUME NEW n \in Note, BeginDelete(n) PROVE NoteInv'
  <2> DEFINE new == [kind |-> "delete", note |-> n, at |-> "plain", previous |-> plain[n]]
  <2>1. /\ op = Nothing /\ op' = new
        /\ UNCHANGED <<plain, sealed, identity, recipient, created, torn>>
    BY <1>1 DEF BeginDelete
  <2>2. plain[n] \in Content \cup {Nothing}
    BY DEF NoteInv, NoteTypes
  <2>3. /\ new \in Operations /\ new.kind = "delete" /\ new.note = n /\ new.at = "plain"
        /\ new.previous = plain[n]
    BY <2>2 DEF Operations
  <2> HIDE DEF new
  <2>4. ~Halfway /\ ~InOp("sync")' /\ ~InOp("identity")' /\ ~InOp("write")'
    BY <2>1, <2>3 DEF Halfway, InOp
  <2> QED
    BY <2>1, <2>3, <2>4
    DEF NoteInv, NoteTypes, OneIdentity, OpHolds, BackedUp, Before, BacksUp
<1>2. CASE DeletePlain \/ DeleteSealed \/ DeleteFails
  <2>1. /\ InOp("delete") /\ Halfway /\ op.kind = "delete" /\ op.note \in Note
        /\ op \in [kind : {"delete"}, note : Note, at : {"plain", "sealed"},
                   previous : Content \cup {Nothing}]
    BY <1>2, OperationKinds
    DEF DeletePlain, DeleteSealed, DeleteFails, Halfway, NoteInv, NoteTypes, InOp
  <2>2. op.previous \in Content \cup {Nothing}
    BY <2>1
  <2>3. CASE DeletePlain
    <3>1. op' \in Operations /\ op' = [op EXCEPT !.at = "sealed"] /\ op.at = "plain"
      BY <2>1, <2>3 DEF DeletePlain, Operations
    <3>2. /\ op'.kind = "delete" /\ op'.note = op.note /\ op'.at = "sealed"
          /\ op'.previous = op.previous
      BY <2>1, <3>1
    <3>3. /\ plain' \in [Note -> Content \cup {Nothing}] /\ plain'[op.note] = Nothing
          /\ \A n \in Note \ {op.note} : plain'[n] = plain[n]
      BY <2>1, <2>2, <2>3 DEF DeletePlain, NoteInv, NoteTypes
    <3>5. UNCHANGED <<sealed, identity, recipient, created, torn>>
      BY <2>3 DEF DeletePlain
    <3>6. ~InOp("sync")' /\ ~InOp("identity")' /\ ~InOp("write")'
      BY <3>2 DEF InOp
    <3>7. NoteTypes' /\ OneIdentity'
      BY <3>1, <3>3, <3>5 DEF NoteInv, NoteTypes, OneIdentity
    <3>8. OpHolds'
      BY <2>1, <2>2, <3>2, <3>3, <3>5, <3>6 DEF NoteInv, OpHolds, InOp
    <3>9. plain[op.note] = op.previous
      BY <2>1, <3>1 DEF NoteInv, OpHolds
    <3>10. Halfway' /\ \A n \in Note : Before(n)' = Before(n)
      BY <2>1, <3>1, <3>2, <3>3, <3>9, NoteConstants DEF Before, Halfway, InOp
    <3> QED
      BY <3>5, <3>7, <3>8, <3>10 DEF NoteInv, BackedUp
  <2>4. CASE DeleteSealed
    <3>1. /\ op.at = "sealed" /\ op' = Nothing /\ torn' = torn \ {op.note}
          /\ sealed' = [sealed EXCEPT ![op.note] = Nothing]
          /\ UNCHANGED <<plain, identity, recipient, created>>
      BY <2>4 DEF DeleteSealed
    <3>2. plain[op.note] = Nothing
      BY <2>1, <3>1 DEF NoteInv, OpHolds
    <3>3. /\ sealed' \in [Note -> SealedNote \cup {Nothing}] /\ sealed'[op.note] = Nothing
          /\ \A n \in Note \ {op.note} : sealed'[n] = sealed[n]
      BY <2>1, <3>1 DEF NoteInv, NoteTypes
    <3>4. NoteTypes' /\ OneIdentity'
      BY <3>1, <3>3 DEF NoteInv, NoteTypes, OneIdentity
    <3>5. \A n \in Note \ torn' : BacksUp(plain'[n], sealed'[n])
      BY <3>1, <3>2, <3>3 DEF NoteInv, BackedUp, Before, BacksUp
    <3> QED
      BY <3>1, <3>4, <3>5, NotesAtRest
  <2>5. CASE DeleteFails
    <3>1. /\ op' = Nothing /\ UNCHANGED <<sealed, identity, recipient, created>>
          /\ \/ plain' = [plain EXCEPT ![op.note] = op.previous] /\ UNCHANGED torn
             \/ torn' = torn \cup {op.note} /\ UNCHANGED plain
      BY <2>5 DEF DeleteFails
    <3>2. NoteTypes' /\ OneIdentity'
      BY <2>1, <2>2, <3>1 DEF NoteInv, NoteTypes, OneIdentity
    <3>4. \A n \in Note \ torn' : BacksUp(plain'[n], sealed'[n])
      BY <2>1, <3>1 DEF NoteInv, NoteTypes, BackedUp, Before
    <3> QED
      BY <3>1, <3>2, <3>4, NotesAtRest
  <2> QED
    BY <1>2, <2>3, <2>4, <2>5
<1> QED
  BY <1>1, <1>2

(* A finite set has a sequence of its elements.                            *)
LEMMA SequenceOfSet ==
  ASSUME NEW S, IsFiniteSet(S)
  PROVE  SetToSeq(S) \in Seq(S)
PROOF
<1> DEFINE n == Cardinality(S)
<1>1. n \in Nat /\ ExistsBijection(1..n, S)
  BY FS_CardinalityType
<1>2. PICK f \in Bijection(1..n, S) : TRUE
  BY <1>1 DEF ExistsBijection
<1>3. f \in [1..n -> S] /\ IsInjective(f)
  BY <1>2 DEF Bijection, Injection, IsInjective
<1>4. SetToSeq(S) \in [1..n -> S]
  BY <1>3 DEF SetToSeq
<1> QED
  BY <1>1, <1>4

LEMMA SyncSteps ==
  ASSUME NoteInv, BeginSync \/ SyncNote \/ EndSync
  PROVE  NoteInv'
PROOF
<1>1. CASE BeginSync
  <2> DEFINE new == [kind |-> "sync", todo |-> SetToSeq(Present)]
  <2>1. /\ op = Nothing /\ recipient # Nothing /\ op' = new
        /\ UNCHANGED <<plain, sealed, identity, recipient, created, torn>>
    BY <1>1 DEF BeginSync, Present
  <2>2. SetToSeq(Present) \in Seq(Present)
    BY NoteConstants, FS_Subset, SequenceOfSet DEF Present
  <2>3. SetToSeq(Present) \in Seq(Note)
    BY <2>2 DEF Present
  <2>4. new \in Operations /\ new.kind = "sync" /\ new.todo = SetToSeq(Present)
    BY <2>3 DEF Operations
  <2> HIDE DEF new
  <2>5. ~Halfway /\ ~Halfway' /\ ~InOp("write")' /\ ~InOp("identity")' /\ Present' = Present
    BY <2>1, <2>4 DEF Halfway, InOp, Present
  <2> QED
    BY <2>1, <2>2, <2>4, <2>5
    DEF NoteInv, NoteTypes, OneIdentity, OpHolds, BackedUp, Before, BacksUp
<1>2. CASE SyncNote
  <2>1. /\ InOp("sync") /\ op.todo # <<>> /\ op.kind = "sync"
        /\ op \in [kind : {"sync"}, todo : Seq(Note)]
        /\ op.todo \in Seq(Present) /\ recipient # Nothing
    BY <1>2, OperationKinds DEF SyncNote, NoteInv, NoteTypes, OpHolds, InOp
  <2> DEFINE n == Head(op.todo)
  <2>2. n \in Present /\ Tail(op.todo) \in Seq(Present) /\ Tail(op.todo) \in Seq(Note)
    BY <2>1
  <2>3. /\ sealed' = [sealed EXCEPT ![n] = Sealed(plain[n])] /\ torn' = torn \ {n}
        /\ op' = [op EXCEPT !.todo = Tail(op.todo)]
        /\ UNCHANGED <<plain, identity, recipient, created>>
    BY <1>2 DEF SyncNote
  <2> HIDE DEF n
  <2>4. n \in Note /\ plain[n] \in Content /\ plain[n] # Nothing
    BY <2>2 DEF Present, NoteInv, NoteTypes
  <2>5. recipient \in Key /\ recipient = identity
    BY <2>1 DEF NoteInv, NoteTypes, OneIdentity
  <2>6. /\ Sealed(plain[n]) \in SealedNote /\ Sealed(plain[n]).content = plain[n]
        /\ Sealed(plain[n]).key = identity /\ Sealed(plain[n]) # Nothing
    BY <2>4, <2>5, NoteConstants DEF Sealed, SealedNote
  <2>7. /\ sealed' \in [Note -> SealedNote \cup {Nothing}] /\ sealed'[n] = Sealed(plain[n])
        /\ \A m \in Note \ {n} : sealed'[m] = sealed[m]
    BY <2>3, <2>4, <2>6 DEF NoteInv, NoteTypes
  <2>8. op' \in Operations /\ op'.kind = "sync" /\ op'.todo = Tail(op.todo)
    BY <2>1, <2>2, <2>3 DEF Operations
  <2>9. NoteTypes' /\ OneIdentity'
    BY <2>3, <2>5, <2>6, <2>7, <2>8, NoteConstants DEF NoteInv, NoteTypes, OneIdentity
  <2>10. ~Halfway /\ ~Halfway' /\ ~InOp("write")' /\ ~InOp("identity")' /\ Present' = Present
    BY <2>1, <2>3, <2>8 DEF Halfway, InOp, Present
  <2>11. OpHolds'
    BY <2>1, <2>2, <2>3, <2>8, <2>10 DEF OpHolds
  <2>12. BackedUp'
    BY <2>3, <2>4, <2>6, <2>7, <2>10 DEF NoteInv, BackedUp, Before, BacksUp
  <2> QED
    BY <2>9, <2>11, <2>12 DEF NoteInv
<1>3. CASE EndSync
  <2>1. ~Halfway /\ op' = Nothing
        /\ UNCHANGED <<plain, sealed, identity, recipient, created, torn>>
    BY <1>3 DEF EndSync, Halfway, InOp
  <2>2. NoteTypes' /\ OneIdentity' /\ \A n \in Note \ torn' : BacksUp(plain'[n], sealed'[n])
    BY <2>1 DEF NoteInv, NoteTypes, OneIdentity, BackedUp, Before
  <2> QED
    BY <2>1, <2>2, NotesAtRest
<1> QED
  BY <1>1, <1>2, <1>3

LEMMA NotesStepInv == NoteInv /\ [NotesNext]_noteVars => NoteInv'
PROOF
<1> SUFFICES ASSUME NoteInv, [NotesNext]_noteVars PROVE NoteInv'
  OBVIOUS
<1>1. CASE DieAndStart
  <2>1. /\ op' = Nothing /\ UNCHANGED <<plain, sealed, identity, recipient, created>>
        /\ torn' = IF Halfway /\ op.at = "sealed" THEN torn \cup {op.note} ELSE torn
    BY <1>1 DEF DieAndStart
  <2>2. Halfway => op.note \in Note /\ op.at \in {"plain", "sealed"}
    BY OperationKinds DEF NoteInv, NoteTypes
  <2>3. Halfway /\ op.at = "plain" => plain[op.note] = op.previous
    BY DEF NoteInv, OpHolds
  <2>4. NoteTypes' /\ OneIdentity'
    BY <2>1, <2>2 DEF NoteInv, NoteTypes, OneIdentity
  <2>5. \A n \in Note \ torn' : BacksUp(plain'[n], sealed'[n])
    BY <2>1, <2>2, <2>3 DEF NoteInv, NoteTypes, BackedUp, Before
  <2> QED
    BY <2>1, <2>4, <2>5, NotesAtRest
<1>2. CASE UNCHANGED noteVars
  BY <1>2
  DEF noteVars, NoteInv, NoteTypes, OneIdentity, OpHolds, BackedUp, Before, BacksUp, Present,
      InOp, Halfway
<1> QED
  BY <1>1, <1>2, IdentitySteps, WriteSteps, DeleteSteps, SyncSteps DEF NotesNext

(* The types of the notes, their backups and of what is under way, with    *)
(* one identity for all (privatenotes/store.go).                           *)
THEOREM NotesTypes == NotesSpec => []NotesTypeOK
PROOF
<1>1. NoteInv => NotesTypeOK
  BY DEF NoteInv, NoteTypes, NotesTypeOK
<1> QED
  BY <1>1, NotesInitInv, NotesStepInv, PTL DEF NotesSpec

(* Every backup opens with the stored identity and is the note as it       *)
(* stands, also after failures; only a crash between the two files, or a   *)
(* rollback that fails, excepts a note (privatenotes/store.go).            *)
THEOREM BackupsOpen == NotesSpec => []BackupsRecover
PROOF
<1>1. NoteInv => BackupsRecover
  BY DEF NoteInv, OneIdentity, BackedUp, Before, BacksUp, BackupsRecover
<1> QED
  BY <1>1, NotesInitInv, NotesStepInv, PTL DEF NotesSpec

(* ---- the record of an evolution -------------------------------------------- *)

(* The newest requests that were applied, no more than MaxApplied of them. *)
Newer == Len(history) - Len(record.applied)
NewestApplied ==
  /\ Len(record.applied) = IF Len(history) < MaxApplied THEN Len(history) ELSE MaxApplied
  /\ \A k \in 1..Len(record.applied) : record.applied[k] = history[Newer + k]
Distinct ==
  \A j, k \in 1..Len(record.applied) : record.applied[j].id = record.applied[k].id => j = k
RecordTypes ==
  /\ history \in Seq(Request) /\ record.applied \in Seq(Request)
  /\ record.revision = Len(history) /\ Len(history) <= MaxRevision
  /\ record.wish \in Wish \cup {"none"}
  /\ lastAnswer = NoAnswer \/ lastAnswer.answer \in {"applied", "repeated", "conflict"}
OneEach == \A i \in 1..Len(history) : history[i].expected = i - 1
AnsweredRight ==
  /\ lastAnswer.answer \in {"applied", "repeated"} =>
       \E i \in 1..Len(history) : history[i] \in lastAnswer.to
  /\ lastAnswer.answer = "conflict" =>
       \A i \in 1..Len(history) : history[i] \in lastAnswer.to => Len(history) - i >= MaxApplied

RecordInv == RecordTypes /\ OneEach /\ NewestApplied /\ Distinct /\ AnsweredRight

(* What is found for a request is the one operation of its name.           *)
LEMMA FoundIsTheOne ==
  ASSUME RecordInv, NEW r \in Request, NEW k \in Found(r)
  PROVE  Applied(r) = record.applied[k] /\ k \in 1..Len(record.applied)
PROOF
<1>1. Found(r) = {k} /\ k \in 1..Len(record.applied)
  BY DEF RecordInv, Distinct, Found
<1>2. (CHOOSE j \in Found(r) : \A i \in Found(r) : i <= j) = k
  <2>1. k \in Nat /\ k <= k
    BY <1>1 DEF RecordInv, RecordTypes
  <2>2. \E j \in Found(r) : \A i \in Found(r) : i <= j
    BY <1>1, <2>1
  <2> QED
    BY <1>1, <2>2
<1> QED
  BY <1>1, <1>2 DEF Applied

LEMMA RecordStepInv == RecordInv /\ [LifecycleNext]_lifecycleVars => RecordInv'
PROOF
<1> SUFFICES ASSUME RecordInv, [LifecycleNext]_lifecycleVars PROVE RecordInv'
  OBVIOUS
<1>0. /\ history \in Seq(Request) /\ record.applied \in Seq(Request)
      /\ Len(history) \in Nat /\ Len(record.applied) \in Nat /\ MaxApplied \in Nat \ {0}
      /\ Newer \in Nat /\ Len(record.applied) <= MaxApplied
  BY Bounds DEF RecordInv, RecordTypes, NewestApplied, Newer
<1>1. ASSUME NEW r \in Request, Apply(r) PROVE RecordInv'
  <2> DEFINE s == record.applied
             t == Append(s, r)
  <2>1. /\ Found(r) = {} /\ r.expected = Len(history) /\ history' = Append(history, r)
        /\ record' = [revision |-> r.expected + 1, wish |-> r.wish, applied |-> Kept(t)]
        /\ lastAnswer' = [to |-> {r}, answer |-> "applied"]
    BY <1>1 DEF Apply, Answer, RecordInv, RecordTypes
  <2>2. r.expected < MaxRevision /\ r.wish \in Wish
    BY Bounds DEF Request
  <2>3. /\ Len(history') = Len(history) + 1 /\ history' \in Seq(Request)
        /\ history'[Len(history) + 1] = r
        /\ \A i \in 1..Len(history) : history'[i] = history[i]
    BY <1>0, <2>1
  <2>4. /\ t \in Seq(Request) /\ Len(t) = Len(s) + 1 /\ t[Len(s) + 1] = r
        /\ \A k \in 1..Len(s) : t[k] = s[k]
    BY <1>0
  <2>5. /\ Kept(t) \in Seq(Request)
        /\ Len(t) > MaxApplied =>
             /\ Len(Kept(t)) = Len(s)
             /\ \A k \in 1..Len(s) : Kept(t)[k] = t[k + 1]
        /\ Len(t) <= MaxApplied => Kept(t) = t
    BY <1>0, <2>4 DEF Kept
  <2>6. record'.applied = Kept(t) /\ record'.revision = Len(history) + 1
        /\ record'.wish = r.wish
    BY <2>1
  <2> HIDE DEF t
  <2>a. Newer + Len(s) = Len(history) /\ Len(t) \in Nat
    BY <1>0, <2>4 DEF Newer
  <2>b. /\ \A k \in 1..Len(s) : s[k] = history[Newer + k]
        /\ \A j, k \in 1..Len(s) : s[j].id = s[k].id => j = k
    BY DEF RecordInv, NewestApplied, Distinct
  <2>0. \A k \in 1..Len(s) : s[k].id # r.id
    BY <2>1 DEF Found
  <2>7. ASSUME NEW k \in 1..Len(t) PROVE t[k] = history'[Newer + k]
    <3>1. CASE k = Len(t)
      <4>1. Newer + k = Len(history) + 1
        <5>1. k = Len(s) + 1
          BY <2>4, <3>1
        <5> QED
          BY <1>0, <2>a, <5>1
      <4> QED
        BY <2>3, <2>4, <3>1, <4>1
    <3>2. CASE k # Len(t)
      <4>1. k \in 1..Len(s) /\ Newer + k \in 1..Len(history)
        BY <1>0, <2>a, <2>4, <3>2
      <4> QED
        BY <2>b, <2>3, <2>4, <4>1
    <3> QED
      BY <3>1, <3>2
  <2>8. ASSUME NEW j \in 1..Len(t), NEW k \in 1..Len(t), t[j].id = t[k].id PROVE j = k
    <3>1. j \in 1..Len(s) \/ j = Len(s) + 1
      BY <1>0, <2>4
    <3>2. k \in 1..Len(s) \/ k = Len(s) + 1
      BY <1>0, <2>4
    <3>3. CASE j \in 1..Len(s) /\ k \in 1..Len(s)
      BY <2>b, <2>4, <2>8, <3>3
    <3> QED
      BY <2>0, <2>4, <2>8, <3>1, <3>2, <3>3
  <2>9. RecordTypes'
    <3>1. history' \in Seq(Request) /\ record'.applied \in Seq(Request)
      BY <2>3, <2>5, <2>6
    <3>2. record'.revision = Len(history') /\ Len(history') <= MaxRevision
      BY <1>0, <2>1, <2>2, <2>3, <2>6, Bounds
    <3>3. record'.wish \in Wish \cup {"none"}
      BY <2>2, <2>6
    <3>4. lastAnswer'.answer = "applied"
      BY <2>1
    <3> QED
      BY <3>1, <3>2, <3>3, <3>4 DEF RecordTypes
  <2>10. OneEach'
    BY <1>0, <2>1, <2>3 DEF RecordInv, OneEach
  <2>11. NewestApplied' /\ Distinct'
    <3>0. Len(s) = IF Len(history) < MaxApplied THEN Len(history) ELSE MaxApplied
      BY DEF RecordInv, NewestApplied
    <3>1. CASE Len(t) > MaxApplied
      <4>1. Len(s) = MaxApplied /\ Len(history) >= MaxApplied /\ Len(Kept(t)) = Len(s)
        BY <1>0, <2>4, <2>5, <3>0, <3>1
      <4>2. Newer' = Newer + 1
        BY <1>0, <2>3, <2>6, <4>1 DEF Newer
      <4>3. ASSUME NEW k \in 1..Len(s)
            PROVE  Kept(t)[k] = t[k + 1] /\ k + 1 \in 1..Len(t) /\ k \in Nat
                     /\ Newer + (k + 1) = Newer' + k
        <5>1. Kept(t)[k] = t[k + 1]
          BY <2>5, <3>1
        <5>2. Len(t) = Len(s) + 1 /\ Len(s) \in Nat
          BY <1>0, <2>4
        <5>3. k \in Nat /\ k + 1 \in 1..Len(t)
          BY <5>2
        <5>4. Newer \in Int
          BY <1>0 DEF Newer
        <5>5. Newer + (k + 1) = Newer' + k
          BY <4>2, <5>3, <5>4
        <5> QED
          BY <5>1, <5>3, <5>5
      <4>4. NewestApplied'
        <5>1. Len(record'.applied)
                = IF Len(history') < MaxApplied THEN Len(history') ELSE MaxApplied
          BY <1>0, <2>3, <2>6, <4>1
        <5>2. ASSUME NEW k \in 1..Len(s) PROVE Kept(t)[k] = history'[Newer' + k]
          BY <2>7, <4>3
        <5> QED
          BY <2>6, <4>1, <5>1, <5>2 DEF NewestApplied
      <4>5. ASSUME NEW j \in 1..Len(s), NEW k \in 1..Len(s), Kept(t)[j].id = Kept(t)[k].id
            PROVE  j = k
        <5>1. t[j + 1].id = t[k + 1].id
          BY <4>3, <4>5
        <5>2. j + 1 = k + 1 /\ j \in Nat /\ k \in Nat
          BY <2>8, <4>3, <5>1
        <5> QED
          BY <5>2
      <4> QED
        BY <2>6, <4>1, <4>4, <4>5 DEF Distinct
    <3>2. CASE Len(t) <= MaxApplied
      <4>1. Len(s) = Len(history) /\ Len(history) + 1 <= MaxApplied /\ record'.applied = t
        BY <1>0, <2>4, <2>5, <2>6, <3>0, <3>2
      <4>2. Newer' = Newer
        BY <1>0, <2>3, <2>4, <4>1 DEF Newer
      <4>3. Len(t) = IF Len(history') < MaxApplied THEN Len(history') ELSE MaxApplied
        BY <1>0, <2>3, <2>4, <4>1
      <4> QED
        BY <2>7, <2>8, <4>1, <4>2, <4>3 DEF NewestApplied, Distinct
    <3> QED
      BY <1>0, <2>4, <3>1, <3>2
  <2>12. AnsweredRight'
    BY <1>0, <2>1, <2>3 DEF AnsweredRight
  <2> QED
    BY <2>9, <2>10, <2>11, <2>12 DEF RecordInv
<1>2. ASSUME NEW r \in Request, Repeat(r) PROVE RecordInv'
  <2>1. PICK k \in Found(r) : TRUE
    BY <1>2 DEF Repeat
  <2>2. Applied(r) = record.applied[k] /\ k \in 1..Len(record.applied)
    BY <2>1, FoundIsTheOne
  <2>3. record.applied[k] \in Request /\ record.applied[k].id = r.id
    BY <1>0, <2>1, <2>2 DEF Found
  <2>4. record.applied[k] = r
    BY <1>2, <2>2, <2>3 DEF Repeat, SameDigest, Request
  <2>5. Newer + k \in 1..Len(history) /\ history[Newer + k] = r
    <3>1. Newer + Len(record.applied) = Len(history) /\ k \in Nat
      BY <1>0, <2>2 DEF Newer
    <3>2. Newer + k \in 1..Len(history)
      BY <1>0, <2>2, <3>1
    <3>3. history[Newer + k] = record.applied[k]
      BY <2>2 DEF RecordInv, NewestApplied
    <3> QED
      BY <2>4, <3>2, <3>3
  <2>6. UNCHANGED <<record, history>> /\ lastAnswer' = [to |-> {r}, answer |-> "repeated"]
    BY <1>2 DEF Repeat, Answer
  <2> QED
    BY <2>5, <2>6 DEF RecordInv, RecordTypes, OneEach, NewestApplied, Distinct, AnsweredRight, Newer
<1>3. ASSUME NEW r \in Request, Refuse(r) PROVE RecordInv'
  <2>1. UNCHANGED <<record, history>> /\ lastAnswer' = [to |-> {r}, answer |-> "conflict"]
    BY <1>3 DEF Refuse, Answer
  <2>2. ASSUME NEW i \in 1..Len(history), history[i] = r, Len(history) - i < MaxApplied PROVE FALSE
    <3> DEFINE k == i - Newer
    <3>1. k \in 1..Len(record.applied) /\ record.applied[k] = r
      <4>1. i \in Nat /\ Len(history) - Newer = Len(record.applied)
        BY <1>0, <2>2 DEF Newer
      <4>2. Len(record.applied) = IF Len(history) < MaxApplied THEN Len(history) ELSE MaxApplied
        BY DEF RecordInv, NewestApplied
      <4>3. k \in 1..Len(record.applied) /\ Newer + k = i
        BY <1>0, <2>2, <4>1, <4>2
      <4>4. record.applied[k] = history[Newer + k]
        BY <4>3 DEF RecordInv, NewestApplied
      <4> QED
        BY <2>2, <4>3, <4>4
    <3>2. k \in Found(r)
      BY <3>1 DEF Found
    <3>3. SameDigest(r)
      BY <3>1, <3>2, FoundIsTheOne DEF SameDigest
    <3> QED
      BY <1>3, <3>2, <3>3 DEF Refuse
  <2>3. \A i \in 1..Len(history) : history[i] \in {r} => Len(history) - i >= MaxApplied
    BY <1>0, <2>2
  <2> QED
    BY <2>1, <2>3 DEF RecordInv, RecordTypes, OneEach, NewestApplied, Distinct, AnsweredRight, Newer
<1>4. CASE UNCHANGED lifecycleVars
  BY <1>4
  DEF lifecycleVars, RecordInv, RecordTypes, OneEach, NewestApplied, Distinct, AnsweredRight, Newer
<1> QED
  BY <1>1, <1>2, <1>3, <1>4 DEF LifecycleNext

(* However often and late a transition arrives, it is applied once; one    *)
(* that is answered as done took effect, and one that took effect and is   *)
(* refused arrived after MaxApplied others (recall/lifecycle.go).          *)
THEOREM TransitionsApplyOnce == LifecycleSpec => []AppliedOnce
PROOF
<1>1. LifecycleInit => RecordInv
  BY Bounds
  DEF LifecycleInit, NoRecord, NoAnswer, RecordInv, RecordTypes, OneEach, NewestApplied, Distinct,
      AnsweredRight, Newer
<1>2. RecordInv => AppliedOnce
  BY DEF RecordInv, RecordTypes, OneEach, AnsweredRight, AppliedOnce
<1> QED
  BY <1>1, <1>2, RecordStepInv, PTL DEF LifecycleSpec

(* The record keeps no more operations than it may.                        *)
LEMMA LifecycleTypesHold == LifecycleSpec => []LifecycleTypeOK
PROOF
<1>1. LifecycleInit => RecordInv
  BY Bounds
  DEF LifecycleInit, NoRecord, NoAnswer, RecordInv, RecordTypes, OneEach, NewestApplied, Distinct,
      AnsweredRight, Newer
<1>2. RecordInv => LifecycleTypeOK
  <2> SUFFICES ASSUME RecordInv PROVE LifecycleTypeOK
    OBVIOUS
  <2>1. RecordTypes /\ Len(history) \in Nat
    BY DEF RecordInv, RecordTypes
  <2>2. Len(record.applied) = IF Len(history) < MaxApplied THEN Len(history) ELSE MaxApplied
    BY DEF RecordInv, NewestApplied
  <2>3. Len(record.applied) <= MaxApplied /\ record.revision \in 0..MaxRevision
    BY <2>1, <2>2, Bounds DEF RecordTypes
  <2> QED
    BY <2>1, <2>3 DEF RecordTypes, LifecycleTypeOK
<1> QED
  BY <1>1, <1>2, RecordStepInv, PTL DEF LifecycleSpec

(* ---- downloads of artifacts ------------------------------------------------ *)

Purity == ArtifactContent \cup {NoContent, "mixed"}
DownloadRecord ==
  [step : {"idle", "first", "streaming", "refused", "aborted", "complete"},
   size : Nat, sum : ArtifactContent \cup {NoContent}, offset : Nat, pure : Purity,
   pending : Nat, sent : Nat, requests : Nat, eof : BOOLEAN]

(* What is sent lags behind what is read until all of it is verified.      *)
OneStepLate(job) ==
  /\ job.step = "first" => job.size = 0 /\ job.offset = 0 /\ job.sent = 0
  /\ job.step = "streaming" =>
       /\ job.sent + job.pending = job.offset /\ job.offset <= job.size
       /\ job.eof <=> job.offset = job.size
  /\ job.step \in {"streaming", "aborted"} /\ job.size > 0 => job.sent < job.size
  /\ job.step = "complete" /\ job.size > 0 => job.pure = job.sum

DownloadsInv ==
  /\ download \in [Download -> DownloadRecord]
  /\ \A d \in Download : OneStepLate(download[d])

LEMMA KeepInv ==
  ASSUME DownloadsInv, NEW d \in Download, NEW job \in DownloadRecord, OneStepLate(job), Keep(d, job)
  PROVE  DownloadsInv'
PROOF
<1>1. download' = [download EXCEPT ![d] = job] /\ download \in [Download -> DownloadRecord]
  BY DEF Keep, DownloadsInv
<1>2. download' \in [Download -> DownloadRecord]
  BY <1>1
<1>3. ASSUME NEW e \in Download PROVE OneStepLate(download'[e])
  <2>1. CASE e = d
    BY <1>1, <2>1
  <2>2. CASE e # d
    BY <1>1, <2>2 DEF DownloadsInv
  <2> QED
    BY <2>1, <2>2
<1> QED
  BY <1>2, <1>3 DEF DownloadsInv

LEMMA EndInv ==
  ASSUME DownloadsInv, NEW d \in Download, NEW how \in {"refused", "aborted"}, End(d, how),
         how = "aborted" => download[d].step = "streaming"
  PROVE  DownloadsInv'
PROOF
<1> DEFINE job == [download[d] EXCEPT !.step = how]
<1>1. download[d] \in DownloadRecord /\ OneStepLate(download[d])
  BY DEF DownloadsInv
<1>2. job \in DownloadRecord
  BY <1>1 DEF DownloadRecord
<1>3. job.step = how /\ job.size = download[d].size /\ job.sent = download[d].sent
  BY <1>1 DEF DownloadRecord
<1>4. OneStepLate(job)
  BY <1>1, <1>3 DEF OneStepLate
<1>5. Keep(d, job)
  BY DEF End
<1> HIDE DEF job
<1> QED
  BY <1>2, <1>4, <1>5, KeepInv

LEMMA MixedType ==
  ASSUME NEW was \in Purity, NEW chunk \in Chunks
  PROVE  Mixed(was, chunk) \in Purity
PROOF
  BY DEF Mixed, Purity, Chunks

LEMMA ChunkTypes ==
  ASSUME NEW chunk \in Chunks
  PROVE  /\ chunk.sum \in ArtifactContent /\ chunk.size \in Nat /\ chunk.next \in Nat
         /\ chunk.eof \in BOOLEAN /\ chunk.bytes \in Nat
PROOF
  BY ArtifactConstants DEF Chunks, Sizes

LEMMA FirstChunkInv ==
  ASSUME DownloadsInv, NEW d \in Download, NEW chunk \in Chunks, FirstChunk(d, chunk)
  PROVE  DownloadsInv'
PROOF
<1> DEFINE job == [download[d] EXCEPT
       !.step = "streaming", !.size = chunk.size, !.sum = chunk.sum, !.offset = chunk.next,
       !.pure = Mixed(NoContent, chunk), !.pending = chunk.bytes, !.requests = 1,
       !.eof = chunk.eof]
<1>1. download[d] \in DownloadRecord /\ OneStepLate(download[d]) /\ download[d].step = "first"
  BY DEF DownloadsInv, FirstChunk
<1>2. Mixed(NoContent, chunk) \in Purity
  BY MixedType DEF Purity
<1>3. job \in DownloadRecord
  BY <1>1, <1>2, ChunkTypes DEF DownloadRecord
<1>4. /\ job.step = "streaming" /\ job.size = chunk.size /\ job.offset = chunk.next
      /\ job.pending = chunk.bytes /\ job.eof = chunk.eof /\ job.sent = download[d].sent
  BY <1>1 DEF DownloadRecord
<1>5. /\ download[d].offset = 0 /\ download[d].sent = 0
      /\ chunk.next = chunk.bytes /\ chunk.next <= chunk.size
      /\ chunk.eof <=> chunk.next = chunk.size
  <2>1. download[d].offset = 0 /\ download[d].sent = 0
    BY <1>1 DEF OneStepLate
  <2> QED
    BY <2>1, ChunkTypes DEF FirstChunk, Valid, Decodes
<1>6. Keep(d, job)
  BY DEF FirstChunk
<1> HIDE DEF job
<1>7. OneStepLate(job)
  BY <1>4, <1>5, ChunkTypes DEF OneStepLate
<1> QED
  BY <1>3, <1>6, <1>7, KeepInv

LEMMA NextChunkInv ==
  ASSUME DownloadsInv, NEW d \in Download, NEW chunk \in Chunks, NextChunk(d, chunk)
  PROVE  DownloadsInv'
PROOF
<1> DEFINE was == download[d]
           job == [was EXCEPT
             !.offset = chunk.next, !.pure = Mixed(@, chunk), !.requests = @ + 1,
             !.eof = chunk.eof, !.sent = @ + was.pending, !.pending = chunk.bytes]
<1>1. /\ was \in DownloadRecord /\ OneStepLate(was)
      /\ was.step = "streaming" /\ was.eof = FALSE
  BY DEF DownloadsInv, NextChunk, DownloadRecord
<1>2. Mixed(was.pure, chunk) \in Purity
  BY <1>1, MixedType DEF DownloadRecord
<1>3. job \in DownloadRecord
  <2>1. was.sent + was.pending \in Nat /\ was.requests + 1 \in Nat
    BY <1>1 DEF DownloadRecord
  <2> HIDE DEF was
  <2> QED
    BY <1>1, <1>2, <2>1, ChunkTypes DEF DownloadRecord
<1>4. /\ job.step = "streaming" /\ job.size = was.size /\ job.offset = chunk.next
      /\ job.pending = chunk.bytes /\ job.eof = chunk.eof /\ job.sent = was.sent + was.pending
  BY <1>1 DEF DownloadRecord
<1>5. /\ chunk.size = was.size /\ chunk.next = was.offset + chunk.bytes
      /\ chunk.next <= chunk.size
      /\ chunk.eof <=> chunk.next = chunk.size
  BY DEF NextChunk, Valid, Decodes
<1>6. /\ was.sent + was.pending = was.offset /\ was.offset < was.size
      /\ was.sent \in Nat /\ was.pending \in Nat /\ was.offset \in Nat /\ was.size \in Nat
  BY <1>1 DEF OneStepLate, DownloadRecord
<1>7. Keep(d, job)
  BY DEF NextChunk
<1> HIDE DEF job, was
<1>8. OneStepLate(job)
  BY <1>4, <1>5, <1>6, ChunkTypes DEF OneStepLate
<1> QED
  BY <1>3, <1>7, <1>8, KeepInv

LEMMA FinishInv ==
  ASSUME DownloadsInv, NEW d \in Download, Finish(d)
  PROVE  DownloadsInv'
PROOF
<1>1. CASE SumAgrees(d)
  <2> DEFINE was == download[d]
             job == [was EXCEPT !.step = "complete", !.pending = 0, !.sent = @ + was.pending]
  <2>1. was \in DownloadRecord /\ (was.size > 0 => was.pure = was.sum)
    BY <1>1 DEF DownloadsInv, SumAgrees
  <2>2. job \in DownloadRecord
    <3>1. was.sent + was.pending \in Nat
      BY <2>1 DEF DownloadRecord
    <3> HIDE DEF was
    <3> QED
      BY <2>1, <3>1 DEF DownloadRecord
  <2>3. job.step = "complete" /\ job.size = was.size /\ job.pure = was.pure /\ job.sum = was.sum
    BY <2>1 DEF DownloadRecord
  <2>4. Keep(d, job)
    BY <1>1 DEF Finish
  <2> HIDE DEF job, was
  <2>5. OneStepLate(job)
    BY <2>1, <2>3 DEF OneStepLate
  <2> QED
    BY <2>2, <2>4, <2>5, KeepInv
<1>2. CASE ~SumAgrees(d)
  <2>1. End(d, "aborted") /\ download[d].step = "streaming"
    BY <1>2 DEF Finish
  <2> QED
    BY <2>1, EndInv
<1> QED
  BY <1>1, <1>2

LEMMA EmptyDownload ==
  /\ NoDownload \in DownloadRecord /\ OneStepLate(NoDownload)
  /\ [NoDownload EXCEPT !.step = "first"] \in DownloadRecord
  /\ OneStepLate([NoDownload EXCEPT !.step = "first"])
PROOF
  BY DEF NoDownload, DownloadRecord, OneStepLate, Purity

LEMMA DownloadsStep == DownloadsInv /\ [ArtifactNext]_artifactVars => DownloadsInv'
PROOF
<1> SUFFICES ASSUME DownloadsInv, [ArtifactNext]_artifactVars PROVE DownloadsInv'
  OBVIOUS
<1>1. CASE UNCHANGED download
  BY <1>1 DEF DownloadsInv
<1>2. CASE RestartServer
  <2>1. ASSUME NEW d \in Download
        PROVE  download'[d] \in DownloadRecord /\ OneStepLate(download'[d])
    <3> DEFINE job == [download[d] EXCEPT !.step = "aborted"]
    <3>1. download[d] \in DownloadRecord /\ OneStepLate(download[d])
      BY DEF DownloadsInv
    <3>2. CASE download[d].step \in {"first", "streaming"}
      <4>1. download'[d] = job
        BY <1>2, <3>2 DEF RestartServer
      <4>2. job \in DownloadRecord
        BY <3>1 DEF DownloadRecord
      <4>3. job.step = "aborted" /\ job.size = download[d].size /\ job.sent = download[d].sent
        BY <3>1 DEF DownloadRecord
      <4>4. OneStepLate(job)
        BY <3>1, <3>2, <4>3 DEF OneStepLate
      <4> QED
        BY <4>1, <4>2, <4>4
    <3>3. CASE download[d].step \notin {"first", "streaming"}
      BY <1>2, <3>1, <3>3 DEF RestartServer
    <3> QED
      BY <3>2, <3>3
  <2>2. download' \in [Download -> DownloadRecord]
    BY <1>2, <2>1 DEF RestartServer
  <2> QED
    BY <2>1, <2>2 DEF DownloadsInv
<1>3. ASSUME NEW d \in Download, NEW e \in links, OpenLink(d, e) PROVE DownloadsInv'
  BY <1>3, EmptyDownload, KeepInv DEF OpenLink
<1>4. ASSUME NEW d \in Download, RefuseDownload(d) PROVE DownloadsInv'
  BY <1>4, EndInv DEF RefuseDownload
<1>5. ASSUME NEW d \in Download, Abort(d) PROVE DownloadsInv'
  BY <1>5, EndInv DEF Abort
<1>6. ASSUME NEW d \in Download, NewRequest(d) PROVE DownloadsInv'
  BY <1>6, EmptyDownload, KeepInv DEF NewRequest
<1>7. CASE \/ \E e \in 1..LastStep : SignLink(e)
           \/ Tick
           \/ UNCHANGED artifactVars
  BY <1>1, <1>7 DEF SignLink, Tick, artifactVars
<1> QED
  BY <1>2, <1>3, <1>4, <1>5, <1>6, <1>7, FirstChunkInv, NextChunkInv, FinishInv DEF ArtifactNext

(* Whoever gets as many bytes as were announced gets the content that the  *)
(* digest is of, whatever the node answers and wherever the server stops   *)
(* (httpx/artifacts.go).                                                   *)
THEOREM BodiesAreWhole == ArtifactSpec => []WholeOrAborted
PROOF
<1>1. ArtifactInit => DownloadsInv
  BY EmptyDownload DEF ArtifactInit, DownloadsInv
<1>2. DownloadsInv => WholeOrAborted
  <2> SUFFICES ASSUME DownloadsInv, NEW d \in Download,
                      download[d].step \in {"streaming", "aborted", "complete"},
                      download[d].size > 0, download[d].sent >= download[d].size
               PROVE  download[d].pure = download[d].sum
    BY DEF WholeOrAborted
  <2>1. OneStepLate(download[d]) /\ download[d].size \in Nat /\ download[d].sent \in Nat
    BY DEF DownloadsInv, DownloadRecord
  <2> QED
    BY <2>1 DEF OneStepLate
<1> QED
  BY <1>1, <1>2, DownloadsStep, PTL DEF ArtifactSpec

(* The node's slots are those of its downloads under way, of which there   *)
(* are no more than allowed, each within its limits.                       *)
Capped(job) == job.size <= ProxyBytes /\ job.requests <= ChunkRequests
SlotsInv ==
  /\ secret \in BOOLEAN /\ links \subseteq 1..LastStep /\ linkTime \in 0..LastStep
  /\ slots = Cardinality(Running) /\ slots <= NodeDownloads
  /\ \A d \in Download : Capped(download[d])

(* The downloads that run can be counted.                                  *)
LEMMA RunningIsFinite ==
  IsFiniteSet(Running) /\ Cardinality(Running) \in Nat
PROOF
<1>1. Running \in SUBSET Download /\ IsFiniteSet(Download)
  BY ArtifactConstants DEF Running
<1> QED
  BY <1>1, FS_Subset, FS_CardinalityType

(* A step of one download: it was running or was not, and it goes on or    *)
(* does not.                                                               *)
LEMMA RunningAfter ==
  ASSUME DownloadsInv, NEW d \in Download, NEW job, Keep(d, job)
  PROVE  Running' = IF job.step \in {"first", "streaming"} THEN Running \cup {d} ELSE Running \ {d}
PROOF
<1>1. download' = [download EXCEPT ![d] = job] /\ DOMAIN download = Download
  BY DEF Keep, DownloadsInv
<1> QED
  BY <1>1 DEF Running

(* A download within its limits is replaced by another such one.           *)
LEMMA CappedAfter ==
  ASSUME DownloadsInv, SlotsInv, NEW d \in Download, NEW job, Keep(d, job), Capped(job)
  PROVE  \A e \in Download : Capped(download'[e])
PROOF
<1>1. download' = [download EXCEPT ![d] = job] /\ DOMAIN download = Download
  BY DEF Keep, DownloadsInv
<1> QED
  BY <1>1 DEF SlotsInv

(* A handler that ends gives its slot back.                                *)
LEMMA EndKeepsSlots ==
  ASSUME DownloadsInv, SlotsInv, NEW d \in Running, NEW job, Keep(d, job), Capped(job),
         job.step \notin {"first", "streaming"}, slots' = slots - 1,
         UNCHANGED <<secret, links, linkTime>>
  PROVE  SlotsInv'
PROOF
<1>1. d \in Download
  BY DEF Running
<1>2. Running' = Running \ {d}
  BY <1>1, RunningAfter
<1>3. Cardinality(Running \ {d}) = Cardinality(Running) - 1
  BY RunningIsFinite, FS_RemoveElement
<1>4. \A e \in Download : Capped(download'[e])
  BY <1>1, CappedAfter
<1>5. slots' = Cardinality(Running') /\ slots' <= NodeDownloads
  BY <1>2, <1>3, RunningIsFinite, ArtifactConstants DEF SlotsInv
<1> QED
  BY <1>4, <1>5 DEF SlotsInv

(* A handler that goes on, or has not begun, keeps what it holds.          *)
LEMMA GoingOnKeepsSlots ==
  ASSUME DownloadsInv, SlotsInv, NEW d \in Download, NEW job, Keep(d, job), Capped(job),
         (job.step \in {"first", "streaming"}) <=> (d \in Running), slots' = slots,
         UNCHANGED <<secret, links, linkTime>>
  PROVE  SlotsInv'
PROOF
<1>1. Running' = Running
  BY RunningAfter
<1>2. \A e \in Download : Capped(download'[e])
  BY CappedAfter
<1> QED
  BY <1>1, <1>2 DEF SlotsInv

(* Every step keeps the slots equal to the downloads that run.             *)
LEMMA SlotsStep ==
  ASSUME DownloadsInv, SlotsInv, [ArtifactNext]_artifactVars
  PROVE  SlotsInv'
PROOF
<1>1. ASSUME UNCHANGED <<slots, download>>, secret' \in BOOLEAN, links' \subseteq 1..LastStep,
             linkTime' \in 0..LastStep
      PROVE  SlotsInv'
  <2>1. Running' = Running
    BY <1>1 DEF Running
  <2> QED
    BY <1>1, <2>1 DEF SlotsInv
<1>2. CASE (\E e \in 1..LastStep : SignLink(e)) \/ Tick \/ UNCHANGED artifactVars
  <2>1. secret \in BOOLEAN /\ links \subseteq 1..LastStep /\ linkTime \in 0..LastStep
    BY DEF SlotsInv
  <2>2. /\ UNCHANGED <<slots, download>> /\ secret' \in BOOLEAN
        /\ links' \subseteq 1..LastStep /\ linkTime' \in 0..LastStep
    <3>1. ASSUME NEW e \in 1..LastStep, SignLink(e)
          PROVE  /\ UNCHANGED <<slots, download>> /\ secret' \in BOOLEAN
                 /\ links' \subseteq 1..LastStep /\ linkTime' \in 0..LastStep
      BY <2>1, <3>1 DEF SignLink, MakeSecret
    <3>2. CASE Tick
      BY <2>1, <3>2, ArtifactConstants DEF Tick
    <3>3. CASE UNCHANGED artifactVars
      BY <2>1, <3>3 DEF artifactVars
    <3> QED
      BY <1>2, <3>1, <3>2, <3>3
  <2> QED
    BY <1>1, <2>2
<1>3. CASE RestartServer
  <2>1. \A d \in Download : download[d] \in DownloadRecord
    BY DEF DownloadsInv
  <2>2. ASSUME NEW d \in Download
        PROVE  download'[d].step \notin {"first", "streaming"} /\ Capped(download'[d])
    <3>1. CASE download[d].step \in {"first", "streaming"}
      <4> DEFINE job == [download[d] EXCEPT !.step = "aborted"]
      <4>1. download'[d] = job
        BY <1>3, <3>1 DEF RestartServer
      <4>2. job.step = "aborted" /\ job.size = download[d].size /\ job.requests = download[d].requests
        BY <2>1 DEF DownloadRecord
      <4> HIDE DEF job
      <4> QED
        BY <4>1, <4>2 DEF SlotsInv, Capped
    <3>2. CASE download[d].step \notin {"first", "streaming"}
      BY <1>3, <3>2 DEF RestartServer, SlotsInv
    <3> QED
      BY <3>1, <3>2
  <2>3. Running' = {}
    BY <2>2 DEF Running
  <2>4. slots' = Cardinality(Running') /\ slots' <= NodeDownloads
    BY <1>3, <2>3, FS_EmptySet, ArtifactConstants DEF RestartServer
  <2> QED
    BY <1>3, <2>2, <2>4 DEF RestartServer, SlotsInv
<1>4. ASSUME NEW d \in Download, NEW e \in links, OpenLink(d, e) PROVE SlotsInv'
  <2> DEFINE job == [NoDownload EXCEPT !.step = "first"]
  <2>1. Keep(d, job) /\ slots' = slots + 1 /\ slots < NodeDownloads
        /\ UNCHANGED <<secret, links, linkTime>>
    BY <1>4 DEF OpenLink, SlotFree
  <2>2. job.step = "first" /\ Capped(job)
    BY ArtifactConstants DEF NoDownload, Capped
  <2>3. d \notin Running
    BY <1>4 DEF OpenLink, Running
  <2> HIDE DEF job
  <2>4. Running' = Running \cup {d}
    BY <2>1, <2>2, RunningAfter
  <2>5. Cardinality(Running \cup {d}) = Cardinality(Running) + 1
    BY <2>3, RunningIsFinite, FS_AddElement
  <2>6. \A f \in Download : Capped(download'[f])
    BY <2>1, <2>2, CappedAfter
  <2>7. slots' = Cardinality(Running') /\ slots' <= NodeDownloads
    BY <2>1, <2>4, <2>5, RunningIsFinite, ArtifactConstants DEF SlotsInv
  <2> QED
    BY <2>1, <2>6, <2>7 DEF SlotsInv
<1>5. ASSUME NEW d \in Download, NEW how \in {"refused", "aborted"}, End(d, how),
             download[d].step \in {"first", "streaming"}
      PROVE  SlotsInv'
  <2> DEFINE job == [download[d] EXCEPT !.step = how]
  <2>1. job.step = how /\ job.size = download[d].size /\ job.requests = download[d].requests
    BY DEF DownloadsInv, DownloadRecord
  <2>2. Keep(d, job) /\ slots' = slots - 1 /\ UNCHANGED <<secret, links, linkTime>>
    BY <1>5 DEF End
  <2>3. d \in Running
    BY <1>5 DEF Running
  <2> HIDE DEF job
  <2>4. Capped(job)
    BY <2>1 DEF SlotsInv, Capped
  <2> QED
    BY <1>5, <2>1, <2>2, <2>3, <2>4, EndKeepsSlots
<1>6. ASSUME NEW d \in Download, NEW chunk \in Chunks, FirstChunk(d, chunk) PROVE SlotsInv'
  <2> DEFINE job == [download[d] EXCEPT
         !.step = "streaming", !.size = chunk.size, !.sum = chunk.sum, !.offset = chunk.next,
         !.pure = Mixed(NoContent, chunk), !.pending = chunk.bytes, !.requests = 1,
         !.eof = chunk.eof]
  <2>1. job.step = "streaming" /\ job.size = chunk.size /\ job.requests = 1
    BY DEF DownloadsInv, DownloadRecord
  <2>2. Keep(d, job) /\ UNCHANGED <<secret, links, linkTime, slots>> /\ chunk.size <= ProxyBytes
    BY <1>6 DEF FirstChunk
  <2>3. d \in Running
    BY <1>6 DEF FirstChunk, Running
  <2> HIDE DEF job
  <2>4. Capped(job)
    BY <2>1, <2>2, ArtifactConstants DEF Capped
  <2> QED
    BY <2>1, <2>2, <2>3, <2>4, GoingOnKeepsSlots
<1>7. ASSUME NEW d \in Download, NEW chunk \in Chunks, NextChunk(d, chunk) PROVE SlotsInv'
  <2> DEFINE was == download[d]
             job == [was EXCEPT
               !.offset = chunk.next, !.pure = Mixed(@, chunk), !.requests = @ + 1,
               !.eof = chunk.eof, !.sent = @ + was.pending, !.pending = chunk.bytes]
  <2>1. was \in DownloadRecord /\ was.step = "streaming" /\ was.requests < ChunkRequests
    BY <1>7 DEF NextChunk, DownloadsInv
  <2>2. job.step = was.step /\ job.size = was.size /\ job.requests = was.requests + 1
    BY <2>1 DEF DownloadRecord
  <2>3. Keep(d, job) /\ UNCHANGED <<secret, links, linkTime, slots>>
    BY <1>7 DEF NextChunk
  <2>4. d \in Running
    BY <2>1 DEF Running
  <2>5. was.requests \in Nat
    BY <2>1 DEF DownloadRecord
  <2>6. was.size <= ProxyBytes
    BY DEF SlotsInv, Capped
  <2> HIDE DEF job, was
  <2>7. Capped(job)
    BY <2>1, <2>2, <2>5, <2>6, ArtifactConstants DEF Capped
  <2> QED
    BY <2>1, <2>2, <2>3, <2>4, <2>7, GoingOnKeepsSlots
<1>8. ASSUME NEW d \in Download, Finish(d) PROVE SlotsInv'
  <2>1. CASE SumAgrees(d)
    <3> DEFINE was == download[d]
               job == [was EXCEPT !.step = "complete", !.pending = 0, !.sent = @ + was.pending]
    <3>1. was \in DownloadRecord
      BY DEF DownloadsInv
    <3>2. job.step = "complete" /\ job.size = was.size /\ job.requests = was.requests
      BY <3>1 DEF DownloadRecord
    <3>3. Keep(d, job) /\ slots' = slots - 1 /\ UNCHANGED <<secret, links, linkTime>>
      BY <1>8, <2>1 DEF Finish
    <3>4. d \in Running
      BY <1>8 DEF Finish, Running
    <3>5. was.size <= ProxyBytes /\ was.requests <= ChunkRequests
      BY DEF SlotsInv, Capped
    <3> HIDE DEF job, was
    <3>6. Capped(job)
      BY <3>2, <3>5 DEF Capped
    <3> QED
      BY <3>2, <3>3, <3>4, <3>6, EndKeepsSlots
  <2>2. CASE ~SumAgrees(d)
    BY <1>5, <1>8, <2>2 DEF Finish
  <2> QED
    BY <2>1, <2>2
<1>9. ASSUME NEW d \in Download, RefuseDownload(d) \/ Abort(d) PROVE SlotsInv'
  BY <1>5, <1>9 DEF RefuseDownload, Abort
<1>10. ASSUME NEW d \in Download, NewRequest(d) PROVE SlotsInv'
  <2>1. Capped(NoDownload) /\ NoDownload.step = "idle"
    BY ArtifactConstants DEF Capped, NoDownload
  <2>2. Keep(d, NoDownload) /\ d \notin Running /\ UNCHANGED <<secret, links, linkTime, slots>>
    BY <1>10 DEF NewRequest, Running
  <2> QED
    BY <2>1, <2>2, GoingOnKeepsSlots
<1> QED
  BY <1>2, <1>3, <1>4, <1>6, <1>7, <1>8, <1>9, <1>10 DEF ArtifactNext

(* The slots of a node are those of its downloads under way, and never     *)
(* more than allowed, whichever way a handler ends or the server restarts  *)
(* (httpx/artifacts.go).                                                   *)
LEMMA ArtifactTypesHold == ArtifactSpec => []ArtifactTypeOK
PROOF
<1>1. ArtifactInit => DownloadsInv
  BY EmptyDownload DEF ArtifactInit, DownloadsInv
<1>2. ArtifactInit => SlotsInv
  <2> SUFFICES ASSUME ArtifactInit PROVE SlotsInv
    OBVIOUS
  <2>1. Running = {} /\ \A d \in Download : Capped(download[d])
    BY ArtifactConstants DEF ArtifactInit, NoDownload, Running, Capped
  <2>2. Cardinality(Running) = 0
    BY <2>1, FS_EmptySet
  <2>3. /\ secret \in BOOLEAN /\ links \subseteq 1..LastStep /\ linkTime \in 0..LastStep
        /\ slots = 0 /\ slots <= NodeDownloads
    <3>1. NodeDownloads \in Nat /\ LastStep \in Nat
      BY ArtifactConstants
    <3>2. secret = FALSE /\ links = {} /\ linkTime = 0 /\ slots = 0
      BY DEF ArtifactInit
    <3>3. secret \in BOOLEAN
      BY <3>2
    <3>4. links \subseteq 1..LastStep /\ linkTime \in 0..LastStep /\ slots <= NodeDownloads
      BY <3>1, <3>2
    <3> QED
      BY <3>2, <3>3, <3>4
  <2> QED
    BY <2>1, <2>2, <2>3 DEF SlotsInv
<1>3. DownloadsInv /\ SlotsInv => ArtifactTypeOK
  BY DEF DownloadsInv, SlotsInv, DownloadRecord, Capped, ArtifactTypeOK
<1> QED
  BY <1>1, <1>2, <1>3, DownloadsStep, SlotsStep, PTL DEF ArtifactSpec

(* ---- the contexts of the nodes --------------------------------------------- *)

FleetTools == {"absent", "plain", "capable"}
FleetStatus == {"unsupported", "offline", "unavailable", "ready", "malformed", "timeout"}
EntryRecord == [node : FleetNode, status : FleetStatus, of : FleetNode \cup {NoEntryYet}]
FleetCallRecord ==
  [step : {"idle", "shared", "sorting", "asking", "answered"}, nodes : Seq(FleetNode),
   tools : {<<>>} \cup [FleetNode -> FleetTools], queue : SUBSET Nat,
   busy : SUBSET [at : Nat, node : FleetNode], workers : Nat, shared : {"none", "whole", "warned"}]

(* A job that waits or is under way has a position of the list, and the    *)
(* node that stands there; so has every entry, once they are made.         *)
JobsInPlace ==
  /\ call.queue # {} \/ call.busy # {} => call.step = "asking"
  /\ call.queue \subseteq 1..Len(call.nodes)
  /\ \A job \in call.busy : job.at \in 1..Len(call.nodes) /\ job.node = call.nodes[job.at]
EntriesInPlace ==
  call.step \in {"asking", "answered"} =>
    /\ entries \in Seq(EntryRecord) /\ Len(entries) = Len(call.nodes)
    /\ \A i \in 1..Len(call.nodes) :
         /\ entries[i].node = call.nodes[i]
         /\ entries[i].of = IF entries[i].status = "ready" THEN call.nodes[i] ELSE NoEntryYet

FleetInv ==
  /\ able \in [FleetNode -> FleetTools] /\ call \in FleetCallRecord
  /\ JobsInPlace /\ EntriesInPlace

LEMMA ListNodesInv == FleetInv /\ ListNodes => FleetInv'
PROOF
<1> SUFFICES ASSUME FleetInv, ListNodes PROVE FleetInv'
  OBVIOUS
<1>1. PICK nodes \in SetToSeqs(Enabled) :
        /\ call' = [NoFleetCall EXCEPT !.step = "shared", !.nodes = nodes, !.tools = able]
        /\ able' = able
  BY DEF ListNodes
<1>2. nodes \in Seq(FleetNode)
  <2>1. nodes \in [1..Cardinality(Enabled) -> Enabled]
    BY DEF SetToSeqs
  <2>2. Cardinality(Enabled) \in Nat /\ Enabled \subseteq FleetNode
    BY FleetConstants, FS_Subset, FS_CardinalityType DEF Enabled
  <2> QED
    BY <2>1, <2>2
<1>3. call' \in FleetCallRecord
  BY <1>1, <1>2 DEF NoFleetCall, FleetInv, FleetCallRecord
<1>4. call'.step = "shared" /\ call'.queue = {} /\ call'.busy = {}
  BY <1>1 DEF NoFleetCall
<1> QED
  BY <1>1, <1>3, <1>4 DEF FleetInv, JobsInPlace, EntriesInPlace

LEMMA BuildSharedInv == FleetInv /\ BuildShared => FleetInv'
PROOF
<1> SUFFICES ASSUME FleetInv, BuildShared PROVE FleetInv'
  OBVIOUS
<1>1. PICK shared \in {"whole", "warned"} :
        call' = [call EXCEPT !.step = "sorting", !.shared = shared] /\ able' = able
  BY DEF BuildShared
<1>2. call \in FleetCallRecord /\ call.step = "shared" /\ call.queue = {} /\ call.busy = {}
  BY DEF FleetInv, JobsInPlace, BuildShared
<1>3. call' \in FleetCallRecord
  BY <1>1, <1>2 DEF FleetCallRecord
<1>4. call'.step = "sorting" /\ call'.queue = {} /\ call'.busy = {}
  BY <1>1, <1>2 DEF FleetCallRecord
<1> QED
  BY <1>1, <1>3, <1>4 DEF FleetInv, JobsInPlace, EntriesInPlace

LEMMA SortJobsInv == FleetInv /\ SortJobs => FleetInv'
PROOF
<1> SUFFICES ASSUME FleetInv, SortJobs PROVE FleetInv'
  OBVIOUS
<1> DEFINE jobs == Asked(call.nodes)
           workers == IF Cardinality(jobs) < FleetWorkers THEN Cardinality(jobs) ELSE FleetWorkers
<1>1. /\ call \in FleetCallRecord /\ call.step = "sorting" /\ call.busy = {}
      /\ call.nodes \in Seq(FleetNode) /\ Len(call.nodes) \in Nat
  BY DEF FleetInv, FleetCallRecord, JobsInPlace, SortJobs
<1>2. jobs \subseteq 1..Len(call.nodes) /\ workers \in Nat
  <2>1. jobs \subseteq 1..Len(call.nodes)
    BY DEF Asked
  <2>2. Cardinality(jobs) \in Nat
    <3>1. IsFiniteSet(1..Len(call.nodes))
      BY <1>1, FS_Interval
    <3> HIDE DEF jobs
    <3>2. IsFiniteSet(jobs)
      BY <2>1, <3>1, FS_Subset
    <3> QED
      BY <3>2, FS_CardinalityType
  <2> QED
    BY <2>1, <2>2, FleetConstants
<1>3. call' = [call EXCEPT !.step = "asking", !.queue = jobs, !.workers = workers]
  BY DEF SortJobs
<1> HIDE DEF jobs, workers
<1>4. call' \in FleetCallRecord
  <2>1. jobs \in SUBSET Nat
    BY <1>2
  <2> QED
    BY <1>1, <1>2, <1>3, <2>1 DEF FleetCallRecord
<1>5. /\ call'.step = "asking" /\ call'.queue = jobs /\ call'.busy = {}
      /\ call'.nodes = call.nodes
  BY <1>1, <1>3 DEF FleetCallRecord
<1>6. entries' = [i \in 1..Len(call.nodes) |-> Unasked(call.nodes[i])]
  BY DEF SortJobs
<1>7. ASSUME NEW i \in 1..Len(call.nodes)
      PROVE  /\ entries'[i] \in EntryRecord /\ entries'[i].node = call.nodes[i]
             /\ entries'[i].status # "ready" /\ entries'[i].of = NoEntryYet
  <2>1. call.nodes[i] \in FleetNode /\ entries'[i] = Unasked(call.nodes[i])
    BY <1>1, <1>6
  <2> QED
    BY <2>1 DEF Unasked, NodeEntry, EntryRecord, FleetStatus
<1>8. entries' \in Seq(EntryRecord) /\ Len(entries') = Len(call.nodes)
  <2>1. entries' \in [1..Len(call.nodes) -> EntryRecord]
    BY <1>6, <1>7
  <2> QED
    BY <1>1, <2>1
<1>9. able' = able
  BY DEF SortJobs
<1>10. EntriesInPlace'
  BY <1>5, <1>7, <1>8 DEF EntriesInPlace
<1>11. JobsInPlace'
  BY <1>2, <1>5 DEF JobsInPlace
<1> QED
  BY <1>4, <1>9, <1>10, <1>11 DEF FleetInv

LEMMA TakeJobInv ==
  ASSUME FleetInv, NEW i \in call.queue, TakeJob(i)
  PROVE  FleetInv'
PROOF
<1> DEFINE job == [at |-> i, node |-> call.nodes[i]]
<1>1. /\ call \in FleetCallRecord /\ call.step = "asking" /\ JobsInPlace
      /\ i \in 1..Len(call.nodes) /\ call.nodes[i] \in FleetNode /\ i \in Nat
  BY DEF FleetInv, FleetCallRecord, JobsInPlace, TakeJob
<1>2. job \in [at : Nat, node : FleetNode] /\ job.at = i /\ job.node = call.nodes[i]
  BY <1>1
<1>3. call' = [call EXCEPT !.queue = @ \ {i}, !.busy = @ \cup {job}]
      /\ able' = able /\ entries' = entries
  BY DEF TakeJob
<1> HIDE DEF job
<1>4. call' \in FleetCallRecord
  BY <1>1, <1>2, <1>3 DEF FleetCallRecord
<1>5. /\ call'.step = call.step /\ call'.queue = call.queue \ {i}
      /\ call'.busy = call.busy \cup {job} /\ call'.nodes = call.nodes
  BY <1>1, <1>3 DEF FleetCallRecord
<1>6. JobsInPlace'
  BY <1>1, <1>2, <1>5 DEF JobsInPlace
<1>7. EntriesInPlace'
  BY <1>3, <1>5 DEF FleetInv, EntriesInPlace
<1> QED
  BY <1>3, <1>4, <1>6, <1>7 DEF FleetInv

LEMMA FinishJobInv ==
  ASSUME FleetInv, NEW job \in call.busy, NEW status \in FleetStatus, NEW of,
         FinishJob(job, status, of), of = IF status = "ready" THEN job.node ELSE NoEntryYet
  PROVE  FleetInv'
PROOF
<1> DEFINE p == job.at
           was == entries[p]
           is == [was EXCEPT !.status = status, !.of = of]
<1>1. /\ call \in FleetCallRecord /\ call.step = "asking" /\ JobsInPlace /\ EntriesInPlace
      /\ p \in 1..Len(call.nodes) /\ job.node = call.nodes[p] /\ call.nodes \in Seq(FleetNode)
  BY DEF FleetInv, FleetCallRecord, JobsInPlace
<1>2. /\ entries \in Seq(EntryRecord) /\ Len(entries) = Len(call.nodes)
      /\ was \in EntryRecord /\ was.node = call.nodes[p] /\ call.nodes[p] \in FleetNode
  BY <1>1 DEF EntriesInPlace
<1>3. /\ is \in EntryRecord /\ is.node = call.nodes[p] /\ is.status = status /\ is.of = of
  BY <1>1, <1>2 DEF EntryRecord
<1>4. /\ call' = [call EXCEPT !.busy = @ \ {job}] /\ able' = able
      /\ entries' = [entries EXCEPT ![p] = is]
  BY DEF FinishJob
<1> HIDE DEF is, was, p
<1>5. call' \in FleetCallRecord
  BY <1>1, <1>4 DEF FleetCallRecord
<1>6. /\ call'.step = call.step /\ call'.queue = call.queue
      /\ call'.busy = call.busy \ {job} /\ call'.nodes = call.nodes
  BY <1>1, <1>4 DEF FleetCallRecord
<1>7. JobsInPlace'
  BY <1>1, <1>6 DEF JobsInPlace
<1>8. entries' \in Seq(EntryRecord) /\ Len(entries') = Len(call.nodes)
  BY <1>1, <1>2, <1>3, <1>4
<1>9. ASSUME NEW i \in 1..Len(call.nodes)
      PROVE  /\ entries'[i].node = call.nodes[i]
             /\ entries'[i].of = IF entries'[i].status = "ready" THEN call.nodes[i] ELSE NoEntryYet
  <2>1. CASE i = p
    <3>1. entries'[i] = is
      BY <1>1, <1>2, <1>4, <2>1
    <3> QED
      BY <1>1, <1>3, <2>1, <3>1
  <2>2. CASE i # p
    <3>1. entries'[i] = entries[i]
      BY <1>1, <1>2, <1>4, <2>2
    <3> QED
      BY <1>1, <3>1 DEF EntriesInPlace
  <2> QED
    BY <2>1, <2>2
<1>10. EntriesInPlace'
  BY <1>6, <1>8, <1>9 DEF EntriesInPlace
<1> QED
  BY <1>4, <1>5, <1>7, <1>10 DEF FleetInv

LEMMA FleetStepInv == FleetInv /\ [FleetNext]_fleetVars => FleetInv'
PROOF
<1> SUFFICES ASSUME FleetInv, [FleetNext]_fleetVars PROVE FleetInv'
  OBVIOUS
<1>1. ASSUME NEW n \in FleetNode, NEW tool \in FleetTools, NEW up \in BOOLEAN,
             NodeChanges(n, tool, up)
      PROVE  FleetInv'
  BY <1>1 DEF NodeChanges, FleetInv, JobsInPlace, EntriesInPlace
<1>2. CASE AnswerFleet
  <2>1. call \in FleetCallRecord /\ call' = [call EXCEPT !.step = "answered"]
    BY <1>2 DEF AnswerFleet, FleetInv
  <2>2. call' \in FleetCallRecord
    BY <2>1 DEF FleetCallRecord
  <2>3. /\ call'.step = "answered" /\ call'.queue = call.queue /\ call'.busy = call.busy
        /\ call'.nodes = call.nodes
    BY <2>1 DEF FleetCallRecord
  <2> QED
    BY <1>2, <2>2, <2>3 DEF AnswerFleet, FleetInv, JobsInPlace, EntriesInPlace
<1>3. CASE NextCall
  <2>1. NoFleetCall \in FleetCallRecord
    BY DEF NoFleetCall, FleetCallRecord
  <2> QED
    BY <1>3, <2>1 DEF NextCall, NoFleetCall, FleetInv, JobsInPlace, EntriesInPlace
<1>4. ASSUME NEW job \in call.busy, NodeAnswered(job) \/ Malformed(job) \/ Unanswered(job)
      PROVE  FleetInv'
  BY <1>4, FinishJobInv DEF NodeAnswered, Malformed, Unanswered, FleetStatus
<1>5. CASE UNCHANGED fleetVars
  BY <1>5 DEF fleetVars, FleetInv, JobsInPlace, EntriesInPlace
<1> QED
  BY <1>1, <1>2, <1>3, <1>4, <1>5, ListNodesInv, BuildSharedInv, SortJobsInv, TakeJobInv
  DEF FleetNext, FleetTools

(* Every node that was listed has an entry, which says what became of that *)
(* node and holds its context exactly if it is ready, whichever worker was *)
(* fastest and whoever came or went meanwhile (httpx/mcp_context.go).      *)
THEOREM EntriesOfTheirNodes == FleetSpec => []EntriesAreTheirOwn
PROOF
<1>1. FleetInit => FleetInv
  BY DEF FleetInit, NoFleetCall, FleetInv, FleetCallRecord, JobsInPlace, EntriesInPlace, FleetTools
<1>2. FleetInv => EntriesAreTheirOwn
  BY DEF FleetInv, EntriesInPlace, EntriesAreTheirOwn
<1> QED
  BY <1>1, <1>2, FleetStepInv, PTL DEF FleetSpec

(* No more jobs are under way than there are workers, and no more workers  *)
(* than allowed; the answer has a place for every node.                    *)
BusyFew ==
  /\ IsFiniteSet(call.busy) /\ Cardinality(call.busy) <= call.workers
  /\ call.workers <= FleetWorkers /\ Len(entries) = Len(call.nodes)
  /\ online \subseteq FleetNode

(* With one element more a set has at most one more.                       *)
LEMMA OneMore ==
  ASSUME NEW S, NEW x, IsFiniteSet(S)
  PROVE  IsFiniteSet(S \cup {x}) /\ Cardinality(S \cup {x}) <= Cardinality(S) + 1
PROOF
<1>1. Cardinality(S) \in Nat
  BY FS_CardinalityType
<1>2. CASE x \in S
  <2> DEFINE T == S \cup {x}
  <2>1. T = S
    BY <1>2
  <2> HIDE DEF T
  <2>2. IsFiniteSet(T) /\ Cardinality(T) <= Cardinality(S) + 1
    BY <1>1, <2>1
  <2> QED
    BY <2>2 DEF T
<1>3. CASE x \notin S
  BY <1>1, <1>3, FS_AddElement
<1> QED
  BY <1>2, <1>3

(* Workers take one job at a time, and finish it before the next.          *)
LEMMA BusyStaysFew ==
  ASSUME FleetInv, BusyFew, [FleetNext]_fleetVars
  PROVE  BusyFew'
PROOF
<1>1. call \in FleetCallRecord /\ JobsInPlace /\ call.workers \in Nat /\ call.nodes \in Seq(FleetNode)
  BY DEF FleetInv, FleetCallRecord
<1>2. Cardinality({}) = 0 /\ IsFiniteSet({}) /\ Cardinality(call.busy) \in Nat
  BY FS_EmptySet, FS_CardinalityType DEF BusyFew
<1>12. IsFiniteSet(call.busy)
  BY DEF BusyFew
<1>3. ASSUME NEW n \in FleetNode, NEW tool \in FleetTools, NEW up \in BOOLEAN,
             NodeChanges(n, tool, up)
      PROVE  BusyFew'
  BY <1>3 DEF NodeChanges, BusyFew
<1>4. CASE ListNodes
  <2>1. PICK nodes \in SetToSeqs(Enabled) :
          /\ call' = [NoFleetCall EXCEPT !.step = "shared", !.nodes = nodes, !.tools = able]
          /\ entries' = Empty(Len(nodes))
    BY <1>4 DEF ListNodes
  <2>2. nodes \in [1..Cardinality(Enabled) -> Enabled]
    BY DEF SetToSeqs
  <2>3. Cardinality(Enabled) \in Nat /\ Enabled \subseteq FleetNode
    BY FleetConstants, FS_Subset, FS_CardinalityType DEF Enabled
  <2>4. Len(nodes) \in Nat
    BY <2>2, <2>3
  <2>5. entries' \in [1..Len(nodes) -> {NoEntryYet}]
    BY <2>1 DEF Empty
  <2>6. Len(entries') = Len(nodes)
    BY <2>4, <2>5, LengthOfAnswer
  <2>7. call'.busy = {} /\ call'.workers = 0 /\ call'.nodes = nodes
    BY <2>1 DEF NoFleetCall
  <2>9. online' = online
    BY <1>4 DEF ListNodes
  <2> QED
    BY <2>9, <1>2, <2>6, <2>7, FleetConstants DEF BusyFew
<1>5. CASE BuildShared
  <2>1. PICK shared \in {"whole", "warned"} :
          call' = [call EXCEPT !.step = "sorting", !.shared = shared] /\ entries' = entries
    BY <1>5 DEF BuildShared
  <2>2. call'.busy = call.busy /\ call'.workers = call.workers /\ call'.nodes = call.nodes
    BY <1>1, <2>1 DEF FleetCallRecord
  <2>9. online' = online
    BY <1>5 DEF BuildShared
  <2> QED
    BY <2>9, <2>1, <2>2 DEF BusyFew
<1>6. CASE SortJobs
  <2> DEFINE jobs == Asked(call.nodes)
             workers == IF Cardinality(jobs) < FleetWorkers THEN Cardinality(jobs) ELSE FleetWorkers
  <2>1. jobs \subseteq 1..Len(call.nodes)
    BY DEF Asked
  <2>8. IsFiniteSet(1..Len(call.nodes))
    BY <1>1, FS_Interval
  <2>2. call' = [call EXCEPT !.step = "asking", !.queue = jobs, !.workers = workers]
    BY <1>6 DEF SortJobs
  <2>3. entries' = [i \in 1..Len(call.nodes) |-> Unasked(call.nodes[i])]
    BY <1>6 DEF SortJobs
  <2>4. call.busy = {}
    BY <1>1, <1>6 DEF SortJobs, JobsInPlace
  <2>5. workers \in Nat /\ workers <= FleetWorkers
    <3> HIDE DEF jobs
    <3>1. Cardinality(jobs) \in Nat
      BY <2>1, <2>8, FS_Subset, FS_CardinalityType
    <3> QED
      BY <3>1, FleetConstants
  <2> HIDE DEF jobs, workers
  <2>6. call'.busy = {} /\ call'.workers = workers /\ call'.nodes = call.nodes
    BY <1>1, <2>2, <2>4 DEF FleetCallRecord
  <2>7. Len(entries') = Len(call.nodes)
    BY <1>1, <2>3
  <2>9. online' = online
    BY <1>6 DEF SortJobs
  <2> QED
    BY <2>9, <1>2, <2>5, <2>6, <2>7 DEF BusyFew
<1>7. ASSUME NEW i \in call.queue, TakeJob(i) PROVE BusyFew'
  <2> DEFINE job == [at |-> i, node |-> call.nodes[i]]
  <2>1. call' = [call EXCEPT !.queue = @ \ {i}, !.busy = @ \cup {job}] /\ entries' = entries
        /\ Cardinality(call.busy) < call.workers
    BY <1>7 DEF TakeJob
  <2> HIDE DEF job
  <2>2. call'.busy = call.busy \cup {job} /\ call'.workers = call.workers /\ call'.nodes = call.nodes
    BY <1>1, <2>1 DEF FleetCallRecord
  <2>3. IsFiniteSet(call.busy \cup {job}) /\ Cardinality(call.busy \cup {job}) <= Cardinality(call.busy) + 1
    BY <1>12, <1>2, OneMore
  <2>4. Cardinality(call.busy \cup {job}) \in Nat
    BY <2>3, FS_CardinalityType
  <2>9. online' = online
    BY <1>7 DEF TakeJob
  <2> QED
    BY <2>9, <1>1, <1>2, <2>1, <2>2, <2>3, <2>4 DEF BusyFew
<1>8. ASSUME NEW job \in call.busy, NodeAnswered(job) \/ Malformed(job) \/ Unanswered(job)
      PROVE  BusyFew'
  <2>1. PICK status, of : FinishJob(job, status, of)
    BY <1>8 DEF NodeAnswered, Malformed, Unanswered
  <2>2. call' = [call EXCEPT !.busy = @ \ {job}]
        /\ entries' = [entries EXCEPT ![job.at].status = status, ![job.at].of = of]
    BY <2>1 DEF FinishJob
  <2>3. call'.busy = call.busy \ {job} /\ call'.workers = call.workers /\ call'.nodes = call.nodes
    BY <1>1, <2>2 DEF FleetCallRecord
  <2>4. IsFiniteSet(call.busy \ {job}) /\ Cardinality(call.busy \ {job}) <= Cardinality(call.busy)
    BY FS_Subset DEF BusyFew
  <2>5. Cardinality(call.busy \ {job}) \in Nat
    BY <2>4, FS_CardinalityType
  <2>6. entries \in Seq(EntryRecord)
    BY <1>1 DEF FleetInv, EntriesInPlace, JobsInPlace
  <2>7. Len(entries') = Len(entries)
    BY <2>2, <2>6
  <2>9. online' = online
    BY <1>8 DEF NodeAnswered, Malformed, Unanswered, FinishJob
  <2> QED
    BY <2>9, <1>1, <1>2, <2>3, <2>4, <2>5, <2>7 DEF BusyFew
<1>9. CASE AnswerFleet
  <2>1. call' = [call EXCEPT !.step = "answered"] /\ entries' = entries
    BY <1>9 DEF AnswerFleet
  <2>2. call'.busy = call.busy /\ call'.workers = call.workers /\ call'.nodes = call.nodes
    BY <1>1, <2>1 DEF FleetCallRecord
  <2>9. online' = online
    BY <1>9 DEF AnswerFleet
  <2> QED
    BY <2>9, <2>1, <2>2 DEF BusyFew
<1>10. CASE NextCall
  BY <1>2, <1>10, FleetConstants DEF NextCall, NoFleetCall, BusyFew
<1>11. CASE UNCHANGED fleetVars
  BY <1>11 DEF fleetVars, BusyFew
<1> QED
  BY <1>3, <1>4, <1>5, <1>6, <1>7, <1>8, <1>9, <1>10, <1>11 DEF FleetNext, FleetTools

(* No more nodes are asked at a time than there are workers, whoever comes *)
(* or goes (httpx/mcp_context.go).                                         *)
LEMMA FleetTypesHold == FleetSpec => []FleetTypeOK
PROOF
<1>1. FleetInit => FleetInv /\ BusyFew
  BY FleetConstants, FS_EmptySet
  DEF FleetInit, NoFleetCall, FleetInv, FleetCallRecord, JobsInPlace, EntriesInPlace, FleetTools, BusyFew
<1>2. FleetInv /\ BusyFew => FleetTypeOK
  <2> SUFFICES ASSUME FleetInv, BusyFew PROVE FleetTypeOK
    OBVIOUS
  <2>1. call.workers \in Nat /\ Cardinality(call.busy) \in Nat
    BY FS_CardinalityType DEF FleetInv, FleetCallRecord, BusyFew
  <2> QED
    BY <2>1, FleetConstants DEF FleetInv, FleetCallRecord, BusyFew, FleetTypeOK, FleetTools
<1> QED
  BY <1>1, <1>2, FleetStepInv, BusyStaysFew, PTL DEF FleetSpec
====================================================================================
