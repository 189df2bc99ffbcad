------------------------------- MODULE RecallIndex -------------------------------
(***************************************************************************)
(* Recall's documents and the index of their embeddings.  A document is    *)
(* one file, replaced, moved or deleted under the store's mutex; readers   *)
(* take no lock.  A reindex reads the documents under its prefix, loads    *)
(* the index to reuse what has not changed, embeds the rest at a service   *)
(* that may fail, and replaces the whole index: the mutex it has covers    *)
(* only the replacement.  A search scores what the index held, and reads   *)
(* each document again before it answers with it.  New settings make a new *)
(* service; requests under way go on with the model they began with.       *)
(*                                                                         *)
(* A vector is what it was computed from: a model and a text.  The text    *)
(* that is embedded begins with the document's path, so no two documents   *)
(* have one in common.                                                     *)
(***************************************************************************)
EXTENDS FiniteSets

CONSTANTS Doc, EModel,
          TextOf,     \* the texts each document may have
          Prefix,     \* the sets of documents a reindex may be restricted to
          Reindexer, Searcher

ASSUME RecallConstants == Prefix \subseteq SUBSET Doc

AnyText == UNION {TextOf[d] : d \in Doc}

VARIABLES
  documents,  \* the text of each document, or NoText
  model,      \* the model that is configured
  index,      \* embedding-index.json
  rebuild,    \* each reindex under way
  search      \* each search under way

recallVars == <<documents, model, index, rebuild, search>>

NoText == "no text"
NoEntry == [text |-> NoText, by |-> "no model", of |-> NoText]
Entry == {NoEntry} \cup [text : AnyText, by : EModel, of : AnyText]
NoIndex == [model |-> "no model", entries |-> [d \in Doc |-> NoEntry]]
NoRebuild == [step |-> "idle", scope |-> {}, model |-> "no model",
              read |-> [d \in Doc |-> NoText], base |-> NoIndex]
NoSearch == [step |-> "idle", model |-> "no model", index |-> NoIndex,
             had |-> [d \in Doc |-> {}], hits |-> {}]

RecallInit ==
  /\ documents = [d \in Doc |-> NoText]
  /\ model \in EModel /\ index = NoIndex
  /\ rebuild = [r \in Reindexer |-> NoRebuild]
  /\ search = [q \in Searcher |-> NoSearch]

(* Observation: the texts a document has while a search is under way.      *)
Watched(files) ==
  [q \in Searcher |->
     [search[q] EXCEPT !.had = [d \in Doc |->
        IF search[q].step = "idle" THEN {} ELSE @[d] \cup {files[d]}]]]

Changed(files) == /\ documents' = files /\ search' = Watched(files)
                  /\ UNCHANGED <<model, index, rebuild>>

(* Without overwrite an existing file is not replaced; that changes        *)
(* nothing, and is left out.                                               *)
WriteDocument(d, t) == Changed([documents EXCEPT ![d] = t])

MoveDocument(d, e, t) ==
  /\ d # e /\ documents[d] # NoText
  /\ Changed([documents EXCEPT ![d] = NoText, ![e] = t])

DeleteDocument(d) ==
  /\ documents[d] # NoText
  /\ Changed([documents EXCEPT ![d] = NoText])

SetModel(m) ==
  /\ model' = m
  /\ UNCHANGED <<documents, index, rebuild, search>>

Rebuild(r, job) == rebuild' = [rebuild EXCEPT ![r] = job]

ReadDocuments(r, scope) ==
  /\ rebuild[r].step = "idle"
  /\ Rebuild(r, [NoRebuild EXCEPT !.step = "read", !.scope = scope, !.model = model,
       !.read = [d \in Doc |-> IF d \in scope THEN documents[d] ELSE NoText]])
  /\ UNCHANGED <<documents, model, index, search>>

LoadIndex(r) ==
  /\ rebuild[r].step = "read"
  /\ Rebuild(r, [rebuild[r] EXCEPT !.step = "loaded", !.base = index])
  /\ UNCHANGED <<documents, model, index, search>>

\* Mutant: vectors are reused whatever model made them.
CanReuseAny(job) == job.base # NoIndex

CanReuse(job) == job.base.model = job.model
Reused(job, d) == CanReuse(job) /\ job.base.entries[d].text = job.read[d]

(* What was not read keeps its entry, if only a prefix is rebuilt.         *)
Rebuilt(job) ==
  [d \in Doc |->
     IF d \notin job.scope THEN IF CanReuse(job) THEN job.base.entries[d] ELSE NoEntry
     ELSE IF job.read[d] = NoText THEN NoEntry
     ELSE IF Reused(job, d) THEN job.base.entries[d]
     ELSE [text |-> job.read[d], by |-> job.model, of |-> job.read[d]]]

(* Embeds what cannot be reused and replaces the index, or fails.          *)
WriteIndex(r) ==
  /\ rebuild[r].step = "loaded"
  /\ Rebuild(r, NoRebuild)
  /\ index' \in {index, [model |-> rebuild[r].model, entries |-> Rebuilt(rebuild[r])]}
  /\ UNCHANGED <<documents, model, search>>

Seek(q, s) == search' = [search EXCEPT ![q] = s]

(* An index of another model is refused: the search stays lexical.         *)
StartSearch(q) ==
  /\ search[q].step = "idle" /\ index.model = model
  /\ Seek(q, [NoSearch EXCEPT !.step = "scored", !.model = model, !.index = index,
                              !.had = [d \in Doc |-> {documents[d]}]])
  /\ UNCHANGED <<documents, model, index, rebuild>>

(* The old entries are no evidence: one whose text is not the document's   *)
(* any more is passed over.                                                *)
Fresh(q, d) == search[q].index.entries[d].text = documents[d]

CheckHit(q, d) ==
  /\ search[q].step = "scored" /\ search[q].index.entries[d] # NoEntry
  /\ Fresh(q, d)
  /\ Seek(q, [search[q] EXCEPT !.hits = @ \cup {d}])
  /\ UNCHANGED <<documents, model, index, rebuild>>

EndSearch(q) ==
  /\ search[q].step = "scored"
  /\ Seek(q, NoSearch)
  /\ UNCHANGED <<documents, model, index, rebuild>>

RecallNext ==
  \/ \E d \in Doc : \/ \E t \in TextOf[d] : WriteDocument(d, t)
                    \/ \E e \in Doc : \E t \in TextOf[e] : MoveDocument(d, e, t)
                    \/ DeleteDocument(d)
  \/ \E m \in EModel : SetModel(m)
  \/ \E r \in Reindexer : \/ \E scope \in Prefix : ReadDocuments(r, scope)
                          \/ LoadIndex(r) \/ WriteIndex(r)
  \/ \E q \in Searcher : \/ StartSearch(q) \/ EndSearch(q)
                         \/ \E d \in Doc : CheckHit(q, d)

RecallSpec == RecallInit /\ [][RecallNext]_recallVars
--------------------------------------------------------------------------------
RecallTypeOK ==
  /\ documents \in [Doc -> AnyText \cup {NoText}] /\ model \in EModel
  /\ index.model \in EModel \cup {"no model"} /\ index.entries \in [Doc -> Entry]
  /\ \A r \in Reindexer : rebuild[r].step \in {"idle", "read", "loaded"}
  /\ \A q \in Searcher : search[q].step \in {"idle", "scored"} /\ search[q].hits \subseteq Doc

(* A semantic hit was scored with a vector that the search's own model     *)
(* made of a text that the document had while the search ran: whichever    *)
(* reindexes overlapped or reused each other's vectors, and however the    *)
(* documents and the model changed in between.                             *)
HitsAreTrue ==
  \A q \in Searcher : \A d \in search[q].hits :
    /\ search[q].index.entries[d].by = search[q].model
    /\ search[q].index.entries[d].of \in search[q].had[d] \ {NoText}
=================================================================================
