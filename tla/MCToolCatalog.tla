------------------------------- MODULE MCToolCatalog -------------------------------
(* Two requests that change the MCP Apps setting, one node, one tool for Apps     *)
(* only and one for both.                                                         *)
EXTENDS ToolCatalog, TLC

CONSTANTS p1, t1, h1, h2

ForCallers(vis) ==
  [required |-> {}, props |-> <<>>, other |-> "closed", vis |-> vis, meta |-> "m",
   binding |-> "v", safe |-> {}]
AppContracts == {ForCallers({"app"}), ForCallers({"model", "app"})}

SetterSymmetry == Permutations(Setter)
====================================================================================
