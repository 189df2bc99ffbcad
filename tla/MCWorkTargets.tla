----------------------------- MODULE MCWorkTargets -----------------------------
(* Small instances of WorkTargets for TLC.                                     *)
EXTENDS WorkTargets, TLC

CONSTANTS d1, d2, s1, s2, w1, w2, w3

Symmetry == Permutations(Worker)
================================================================================
