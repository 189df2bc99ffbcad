----------------------------- MODULE LifecycleRecord -----------------------------
(***************************************************************************)
(* One evolution record of Recall, which the nodes move through its states *)
(* with transitions.  A transition names an operation and the revision it  *)
(* expects; the record keeps the newest operations that were applied, so   *)
(* that one sent again is answered and not applied again.  A request can   *)
(* be delivered any number of times and at any later time, and its answer  *)
(* be lost.  A request is its operation, the revision it expects and what  *)
(* it asks for (its digest is taken from the last two); the policy version *)
(* and the identity fields never differ here.                              *)
(***************************************************************************)
EXTENDS Naturals, Sequences

CONSTANTS Operation, Wish,
          MaxApplied,   \* maxAppliedOperationIDs
          MaxRevision   \* bound: transitions of the record

ASSUME Bounds == MaxApplied \in Nat \ {0} /\ MaxRevision \in Nat

Request == [id : Operation, expected : 0..(MaxRevision - 1), wish : Wish]

VARIABLES
  record,   \* the file: its revision, state and applied operations
  lastAnswer,     \* observation: the last answer
  history   \* observation: every request that was applied, in order

lifecycleVars == <<record, lastAnswer, history>>

NoRecord == [revision |-> 0, wish |-> "none", applied |-> <<>>]
NoAnswer == [to |-> {}, answer |-> "none"]

LifecycleInit == record = NoRecord /\ lastAnswer = NoAnswer /\ history = <<>>

(* findLifecycleOperation, from the newest.                                *)
Found(r) == {k \in 1..Len(record.applied) : record.applied[k].id = r.id}
Applied(r) == record.applied[CHOOSE k \in Found(r) : \A j \in Found(r) : j <= k]
SameDigest(r) == Applied(r).expected = r.expected /\ Applied(r).wish = r.wish

(* appendAppliedOperation drops the oldest.                                *)
Kept(s) == IF Len(s) > MaxApplied THEN Tail(s) ELSE s

Answer(r, answer) == lastAnswer' = [to |-> {r}, answer |-> answer]

\* Mutant: a revision the record has passed is accepted.
ApplyAnyRevision(r) ==
  /\ Found(r) = {} /\ r.expected <= record.revision /\ record.revision < MaxRevision
  /\ record' = [revision |-> record.revision + 1, wish |-> r.wish,
                applied |-> Kept(Append(record.applied, r))]
  /\ history' = Append(history, r)
  /\ Answer(r, "applied")

Apply(r) ==
  /\ Found(r) = {} /\ r.expected = record.revision
  /\ record' = [revision |-> r.expected + 1, wish |-> r.wish,
                applied |-> Kept(Append(record.applied, r))]
  /\ history' = Append(history, r)
  /\ Answer(r, "applied")

Repeat(r) ==
  /\ Found(r) # {} /\ SameDigest(r)
  /\ UNCHANGED <<record, history>>
  /\ Answer(r, "repeated")

Refuse(r) ==
  /\ IF Found(r) # {} THEN ~SameDigest(r) ELSE r.expected # record.revision
  /\ UNCHANGED <<record, history>>
  /\ Answer(r, "conflict")

LifecycleNext == \E r \in Request : Apply(r) \/ Repeat(r) \/ Refuse(r)

LifecycleSpec == LifecycleInit /\ [][LifecycleNext]_lifecycleVars
--------------------------------------------------------------------------------
LifecycleTypeOK ==
  /\ record.revision \in 0..MaxRevision /\ record.wish \in Wish \cup {"none"}
  /\ record.applied \in Seq(Request) /\ Len(record.applied) <= MaxApplied
  /\ lastAnswer = NoAnswer \/ lastAnswer.answer \in {"applied", "repeated", "conflict"}
  /\ history \in Seq(Request)

(* No request takes effect twice, however often and late it arrives; one   *)
(* that is answered as done took effect; and one that took effect and is   *)
(* refused nevertheless arrived after MaxApplied others.                   *)
AppliedOnce ==
  /\ Len(history) = record.revision
  /\ \A i, j \in DOMAIN history : history[i] = history[j] => i = j
  /\ lastAnswer.answer \in {"applied", "repeated"} => \E i \in DOMAIN history : history[i] \in lastAnswer.to
  /\ lastAnswer.answer = "conflict" =>
       \A i \in DOMAIN history : history[i] \in lastAnswer.to => Len(history) - i >= MaxApplied
=================================================================================
