SPECIFICATION Spec
CONSTANTS
  d1 = d1  w1 = w1  w2 = w2  w3 = w3
  Deployment = {d1}
  Worker = {w1, w2, w3}
  Nobody = Nobody  Nothing = Nothing
  Patches <- NoPatches
  MaxRevision = 3
  Faults = {"disconnect", "timeout", "abort", "refuse", "restart"}
  MaxFaults = 2
INVARIANTS TypeOK StatusIsCurrent AppliedIsHeld
SYMMETRY Symmetry
