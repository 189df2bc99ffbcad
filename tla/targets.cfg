SPECIFICATION Spec
CONSTANTS
  d1 = d1  d2 = d2  s1 = s1  s2 = s2  w1 = w1  w2 = w2  w3 = w3
  Kinds = {"project", "node"}
  Deployment = {d1}
  NodeDeployment = d1
  Session = {s1}
  Worker = {w1, w2}
  Nobody = Nobody
  MaxRevision = 2
  MaxFaults = 1
INVARIANTS TypeOK NoStaleRouting AccessIsCurrent ReadyWasApplied DeletedNodeIsClean ResumedIsPrepared
SYMMETRY Symmetry
CHECK_DEADLOCK FALSE
