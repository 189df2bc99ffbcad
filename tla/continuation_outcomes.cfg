SPECIFICATION Spec
CONSTANTS
  s1 = s1  s2 = s2  t1 = t1  v1 = v1  v2 = v2
  Source = {s1, s2}
  Target = {t1}
  View = {v1}
  NoView = NoView
  TargetOf <- OneTarget
  BatchLimit = 2
  Oversized <- NoBatch
  RetainSettled = 0
  ClaimLease = 1  DispatchTimeout = 1  ViewLease = 1  SettlementTimeout = 1
  DefaultRounds = 2  DefaultFailures = 1
  RoundLimits = {1}  FailureLimits = {}
  Ticking = TRUE  Movable = {t1}
  MaxWakes = 2  MaxClaims = 1  MaxGenerations = 1
INVARIANTS AtMostOnce NoOutcomeLost SourcesFrozen
PROPERTIES Delivery
SYMMETRY Symmetry
CHECK_DEADLOCK FALSE
