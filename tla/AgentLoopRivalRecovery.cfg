CONSTANTS
  None = None
  l1 = l1
  l2 = l2
  c1 = c1
  c2 = c2
  Loops <- TwoLoops
  CallIds <- TwoCalls
  Registered <- TwoCalls
  MaxBatch = 2
  MaxSteps = 2
  ModelAttempts = 1
  ToolAttempts = 1
  ToolExhausted = "feed-back"
  RecoveryAttempts = 1
  Maintenance <- NoMaintenance
  MaxTurns = 1
  MaxLog = 6
  MaxFaults = 0
SPECIFICATION Spec
SYMMETRY ReplicaSymmetry
PROPERTIES
  IntentsBeforeEffects
CHECK_DEADLOCK FALSE
