SPECIFICATION Spec
CONSTANTS
  d1 = d1  d2 = d2  s1 = s1  s2 = s2  w1 = w1  w2 = w2  w3 = w3
  Kinds = {"project"}
  Deployment = {d1}
  NodeDeployment = d1
  Session = {s1}
  Worker = {w1, w2}
  Nobody = Nobody
  MaxRevision = 1
  MaxFaults = 0
INVARIANT RevokedNeverRouted
SYMMETRY Symmetry
CHECK_DEADLOCK FALSE
