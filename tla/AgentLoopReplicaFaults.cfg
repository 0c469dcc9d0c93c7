CONSTANTS
  None = None
  l1 = l1
  l2 = l2
  c1 = c1
  c2 = c2
  Loops <- TwoLoops
  CallIds <- OneCall
  Registered <- OneCall
  MaxBatch = 1
  MaxSteps = 1
  ModelAttempts = 2
  ToolAttempts = 1
  ToolExhausted = "feed-back"
  RecoveryAttempts = 1
  Maintenance <- NoMaintenance
  MaxTurns = 1
  MaxLog = 8
  MaxFaults = 1
SPECIFICATION Spec
SYMMETRY LoopSymmetry
INVARIANTS
  LogReplays
  CasCoherent
  IntentsAreActive
CHECK_DEADLOCK FALSE
