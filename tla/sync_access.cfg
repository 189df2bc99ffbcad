SPECIFICATION Spec
CONSTANTS
  d1 = d1  w1 = w1  w2 = w2  w3 = w3
  Deployment = {d1}
  Worker = {w1, w2}
  Nobody = Nobody  Nothing = Nothing
  Patches <- AccessPatches
  MaxRevision = 3
  Faults = {}
  MaxFaults = 0
INVARIANT FullAccessOffIsHeld
SYMMETRY Symmetry
