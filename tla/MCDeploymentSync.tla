---------------------------- MODULE MCDeploymentSync ----------------------------
(* Small instances of DeploymentSync for TLC.                                    *)
EXTENDS DeploymentSync, TLC

CONSTANTS d1, w1, w2, w3

NoPatches == {}
\* The console sends the whole form; here one that only switches Full Access.
AccessPatches == [enabled : {"on"}, full : {"on", "off"}]
Symmetry == Permutations(Worker)
================================================================================
