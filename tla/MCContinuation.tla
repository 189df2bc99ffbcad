----------------------------- MODULE MCContinuation -----------------------------
(* Small instances of Continuation for TLC.  With the invariants proved in       *)
(* ContinuationProofs kept as INVARIANTs, the runs show that the theorems'       *)
(* hypotheses and the refinement are not vacuous on real executions.             *)
EXTENDS Continuation, TLC

CONSTANTS s1, s2, t1, v1, v2

OneTarget == [s \in Source |-> t1]
NoBatch == {}

(* A wake is claimed again only while the other has never been: what two wakes   *)
(* do to each other, and what two attempts of one do, in the same run.           *)
RetriedAlone == \A v, w \in Wakes : att[v].n > 1 /\ w # v => att[w].n = 0

Symmetry == Permutations(View) \cup Permutations(Source)
================================================================================
