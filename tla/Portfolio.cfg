SPECIFICATION Spec
CONSTANTS
  MaxRecs = 3
  Instruments = {1, 2}
  Base <- MCBase
  Quote <- MCQuote
  Action <- MCAction
  Risk <- MCRisk
  AggregateCap = 3
  DirectionCap = 2
  Window = 2
  Horizon = 2
  Outcomes = {"target_hit", "expired_unobserved"}
  LockWait = 1
  PolicyAt = 1
  MaxBatches = 2
  LastBatch = 1
  MaxTime = 4
  Crowd = 3
  CrowdTime = 2
CHECK_DEADLOCK FALSE
INVARIANTS
  ActiveRiskWithinCaps
  BackstopsNeverFire
  AssessmentEnds
  DecisionsAreConsistent
PROPERTIES
  NoHindsightSelection
