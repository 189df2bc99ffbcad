SPECIFICATION Spec
CONSTANTS
  s1 = s1  s2 = s2  t1 = t1  v1 = v1  v2 = v2
  Source = {s1, s2}
  Target = {t1}
  View = {v1, v2}
  NoView = NoView
  TargetOf <- OneTarget
  BatchLimit = 2
  Oversized <- NoBatch
  RetainSettled = 1
  ClaimLease = 1  DispatchTimeout = 1  ViewLease = 1  SettlementTimeout = 1
  DefaultRounds = 2  DefaultFailures = 2
  RoundLimits = {}  FailureLimits = {}
  Ticking = TRUE  Movable = {}
  MaxWakes = 2  MaxClaims = 2  MaxGenerations = 2
INVARIANTS TypeOK EnvelopeHonoured OneMessagePerWake SingleFlight BelongsToController
CONSTRAINT RetriedAlone
SYMMETRY Symmetry
CHECK_DEADLOCK FALSE
