-------------------------------- MODULE Proposals --------------------------------
(***************************************************************************)
(* One run of stage 3: a snapshot of the enabled nodes and of the evidence *)
(* their tasks hold, the candidates the model makes of it, and the node    *)
(* each candidate is proposed to.  The model may name any device, and any  *)
(* reference, also one that no task holds.  Nodes are disabled or enabled  *)
(* by the operator while the run goes on; the same reference may come from *)
(* the tasks of several nodes.                                             *)
(***************************************************************************)
EXTENDS Naturals, FiniteSets

CONSTANTS SNode, Ref,
          MaxProposals   \* bound: candidates of one run

VARIABLES
  enabledNodes,  \* nodes that are enabled
  owners,        \* the snapshot: the nodes whose tasks hold each reference
  reviewers,     \* the snapshot's enabled nodes
  posted         \* the proposals: candidate, target, references that go with it

proposalVars == <<enabledNodes, owners, reviewers, posted>>

(* A candidate's device is a set of at most one; "device" is a scope of    *)
(* its own.                                                                *)
Candidate == [device : {{}} \cup {{n} : n \in SNode}, deviceScope : BOOLEAN,
              refs : SUBSET Ref]

ProposalInit ==
  /\ enabledNodes \in SUBSET SNode /\ owners \in [Ref -> SUBSET SNode]
  /\ reviewers = enabledNodes /\ posted = {}
  /\ \A r \in Ref : owners[r] \subseteq reviewers

(* filterStage3Evidence and stage3CandidateSourceNodes.                    *)
ValidRefs(c) == {r \in c.refs : owners[r] # {}}
SourceNodes(c) == UNION {owners[r] : r \in ValidRefs(c)}

\* Mutant: every valid reference goes with the proposal.
AllEvidence(c, n) == ValidRefs(c)

(* Only references that are the target's alone go with the proposal.       *)
HardEvidence(c, n) == {r \in ValidRefs(c) : owners[r] = {n}}

(* stage3TargetNode: the set of the target, empty when it has none.        *)
DeviceTarget(c) == IF SourceNodes(c) \subseteq c.device THEN c.device ELSE {}
TargetNode(c, review) ==
  reviewers \cap CASE c.device # {} \/ c.deviceScope -> DeviceTarget(c)
                   [] c.device = {} /\ ~c.deviceScope /\ Cardinality(SourceNodes(c)) = 1 ->
                        SourceNodes(c)
                   [] OTHER -> review

(* A node that has been disabled since has no connection: the proposal is  *)
(* recorded as rejected.                                                   *)
Propose(c, review) ==
  \E n \in TargetNode(c, review) :
    /\ Cardinality(posted) < MaxProposals
    /\ n \in enabledNodes
    /\ posted' = posted \cup {[candidate |-> c, target |-> n, refs |-> HardEvidence(c, n),
                               review |-> review]}
    /\ UNCHANGED <<enabledNodes, owners, reviewers>>

Toggle(n) ==
  /\ enabledNodes' = IF n \in enabledNodes THEN enabledNodes \ {n} ELSE enabledNodes \cup {n}
  /\ UNCHANGED <<owners, reviewers, posted>>

ProposalNext ==
  \/ \E c \in Candidate, review \in {{}} \cup {{n} : n \in SNode} : Propose(c, review)
  \/ \E n \in SNode : Toggle(n)

ProposalSpec == ProposalInit /\ [][ProposalNext]_proposalVars
--------------------------------------------------------------------------------
ProposalTypeOK ==
  /\ enabledNodes \subseteq SNode /\ reviewers \subseteq SNode
  /\ owners \in [Ref -> SUBSET SNode]
  /\ \A p \in posted : p.candidate \in Candidate /\ p.target \in SNode /\ p.refs \subseteq Ref

(* No evidence leaves the node it comes from: a reference goes only to the *)
(* one node whose task holds it, a candidate that rests on one node's      *)
(* evidence is proposed to no other, and neither is one that names a       *)
(* device; the review node decides only where several nodes or none could. *)
EvidenceStaysHome ==
  \A p \in posted :
    /\ \A r \in p.refs : owners[r] = {p.target}
    /\ p.candidate.device \subseteq {p.target}
    /\ \A n \in SNode : SourceNodes(p.candidate) = {n} => p.target = n
    /\ p.candidate.deviceScope => p.candidate.device = {p.target}
=================================================================================
