SPECIFICATION Spec
CONSTANTS
  s1 = s1  s2 = s2  t1 = t1  v1 = v1  v2 = v2
  Source = {s1}
  Target = {t1}
  View = {v1, v2}
  NoView = NoView
  TargetOf <- OneTarget
  BatchLimit = 2
  Oversized <- NoBatch
  RetainSettled = 0
  ClaimLease = 1  DispatchTimeout = 2  ViewLease = 3  SettlementTimeout = 2
  DefaultRounds = 2  DefaultFailures = 2
  RoundLimits = {}  FailureLimits = {}
  Ticking = TRUE  Movable = {}
  MaxWakes = 1  MaxClaims = 2  MaxGenerations = 1
INVARIANTS OneFailurePerDispatch
SYMMETRY Symmetry
CHECK_DEADLOCK FALSE
