------------------------------ MODULE EmbeddingAnswers ------------------------------
(***************************************************************************)
(* The answers of an embedding service and what is made of them.  Texts    *)
(* are sent in a batch; the answer is in one of the shapes services use,   *)
(* and only its order, or the index beside each vector, tells which text a *)
(* vector belongs to.  Both users of the service (Recall's documents and   *)
(* the workflow templates) parse, count, compare dimensions and write an   *)
(* index, which they check again when they load it to score a query.       *)
(*                                                                         *)
(* The service is honest: a vector with an index is of that text, vectors  *)
(* without one come in the order of the texts.  It may answer too few or   *)
(* too many, twice, or with vectors of another length.                     *)
(***************************************************************************)
EXTENDS Naturals, Sequences, FiniteSets, SequencesExt

CONSTANTS BatchTexts,    \* the number of texts in a batch
          MaxDim,    \* lengths of vectors
          NoNumber   \* an item without an index

ASSUME AnswerConstants == BatchTexts \in Nat /\ MaxDim \in Nat /\ NoNumber \notin Nat

VARIABLES
  answer,   \* the answer that came last, and which of the two users asked
  parsed,   \* the vectors it was parsed to, or an error
  stored    \* each user's index as it was written: its dimension and documents

answerVars == <<answer, parsed, stored>>

User == {"recall", "templates"}
Failed == [ok |-> FALSE, user |-> "recall", vectors |-> <<>>]
NothingReceived == [user |-> "recall", shape |-> "none", items |-> <<>>]
NoVectors == [dim |-> 0, of |-> <<>>]

AnswerInit ==
  answer = NothingReceived /\ parsed = Failed /\ stored = [u \in User |-> NoVectors]

(* What a service may send: each item with its index or all without, and   *)
(* bad ones too.                                                           *)
Item == [index : {NoNumber} \cup 0..BatchTexts, of : 1..BatchTexts, dim : 0..MaxDim]
Honest(items) ==
  \A i \in 1..Len(items) :
    IF items[i].index = NoNumber THEN items[i].of = i ELSE items[i].of = items[i].index + 1

HonestAnswers ==
  UNION {{items \in [1..n -> Item] : Honest(items)} : n \in 0..(BatchTexts + 1)}

Plain(items) == \A i \in 1..Len(items) : items[i].index = NoNumber

(* The endpoint answers 2xx within the limits of time and size.            *)
ReceiveAnswer(u, shape, items) ==
  /\ answer = NothingReceived /\ ~parsed.ok
  /\ shape # "data" => Plain(items)
  /\ shape = "embedding" => Len(items) = 1
  /\ answer' = [user |-> u, shape |-> shape, items |-> items]
  /\ UNCHANGED <<parsed, stored>>

RecallAnswered(shape, items) == ReceiveAnswer("recall", shape, items)
TemplatesAnswered(shape, items) == ReceiveAnswer("templates", shape, items)

\* Mutant: an index is taken as it comes, the order decides.
TargetInOrder(items, i) == i

(* Where the i-th item belongs.                                            *)
Target(items, i) == IF items[i].index = NoNumber THEN i ELSE items[i].index + 1

(* Every position is filled once, by items that all have an index or all   *)
(* have none; a vector has at least one number.                            *)
Placeable(items) ==
  LET n == Len(items)
  IN  /\ \A i \in 1..n : items[i].dim > 0 /\ Target(items, i) \in 1..n
      /\ Plain(items) \/ \A i \in 1..n : items[i].index # NoNumber
      /\ \A i, j \in 1..n : Target(items, i) = Target(items, j) => i = j

Placed(items) ==
  [p \in 1..Len(items) |-> items[CHOOSE i \in 1..Len(items) : Target(items, i) = p]]

Parsed(shapes) ==
  IF answer.shape \in shapes /\ Placeable(answer.items)
  THEN [ok |-> TRUE, user |-> answer.user, vectors |-> Placed(answer.items)] ELSE Failed

(* Recall takes "data", "embeddings" and a single "embedding"; the         *)
(* template registry knows no single one.                                  *)
ParseRecall ==
  /\ answer.shape # "none" /\ answer.user = "recall"
  /\ parsed' = Parsed({"data", "embeddings", "embedding"})
  /\ answer' = NothingReceived /\ UNCHANGED stored

ParseTemplates ==
  /\ answer.shape # "none" /\ answer.user = "templates"
  /\ parsed' = Parsed({"data", "embeddings"})
  /\ answer' = NothingReceived /\ UNCHANGED stored

(* As far as lengths go: one dimension for all, and none for no document.  *)
ValidRecallIndex(dim, vectors) ==
  IF vectors = <<>> THEN dim = 0
  ELSE dim > 0 /\ \A i \in 1..Len(vectors) : vectors[i].dim = dim

ValidTemplateIndex(dim, vectors) ==
  \/ dim = 0 /\ vectors = <<>>
  \/ dim > 0 /\ {vectors[i].dim : i \in 1..Len(vectors)} = {dim}

(* As many vectors as texts, all of the first one's dimension.             *)
KeepVectors(u) ==
  /\ parsed.ok /\ parsed.user = u /\ Len(parsed.vectors) = BatchTexts
  /\ stored' = [stored EXCEPT ![u] =
       [dim |-> parsed.vectors[1].dim, of |-> [i \in 1..BatchTexts |-> parsed.vectors[i].of]]]
  /\ parsed' = Failed /\ UNCHANGED answer

StoreRecall ==
  /\ parsed.vectors # <<>> /\ ValidRecallIndex(parsed.vectors[1].dim, parsed.vectors)
  /\ KeepVectors("recall")
StoreTemplates ==
  /\ parsed.vectors # <<>> /\ ValidTemplateIndex(parsed.vectors[1].dim, parsed.vectors)
  /\ KeepVectors("templates")

(* Another number of vectors, or of dimensions: nothing is written.        *)
Reject ==
  /\ parsed.ok
  /\ parsed' = Failed /\ UNCHANGED <<answer, stored>>

(* No text to embed: the service is not asked, and the index is empty.     *)
StoreNothing(u) ==
  /\ answer = NothingReceived /\ ~parsed.ok
  /\ stored' = [stored EXCEPT ![u] = NoVectors]
  /\ UNCHANGED <<answer, parsed>>

AnswerNext ==
  \/ \E shape \in {"data", "embeddings", "embedding"}, items \in HonestAnswers :
       RecallAnswered(shape, items) \/ TemplatesAnswered(shape, items)
  \/ ParseRecall \/ ParseTemplates \/ StoreRecall \/ StoreTemplates \/ Reject
  \/ \E u \in User : StoreNothing(u)

AnswerSpec == AnswerInit /\ [][AnswerNext]_answerVars
-----------------------------------------------------------------------------------
(* The values the variables take.                                          *)
AnswerTypeOK ==
  /\ answer.shape \in {"none", "data", "embeddings", "embedding"}
  /\ parsed.ok \in BOOLEAN /\ {answer.user, parsed.user} \subseteq User
  /\ \A u \in User : stored[u].dim \in 0..MaxDim /\ Len(stored[u].of) \in {0, BatchTexts}

(* Every text has the vector that was computed from it, in whatever order  *)
(* the answer had them, and a stored index has one for every text.         *)
VectorsOfTheirText ==
  /\ \A i \in 1..Len(parsed.vectors) : parsed.vectors[i].of = i
  /\ \A u \in User : /\ stored[u].of = [i \in 1..Len(stored[u].of) |-> i]
                      /\ stored[u].dim > 0 <=> stored[u].of # <<>>
===================================================================================
