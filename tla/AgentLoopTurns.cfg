CONSTANTS
  None = None
  l1 = l1
  l2 = l2
  c1 = c1
  c2 = c2
  Loops <- OneLoop
  CallIds <- TwoCalls
  Registered <- OneCall
  MaxBatch = 1
  MaxSteps = 2
  ModelAttempts = 1
  ToolAttempts = 1
  ToolExhausted = "fail-turn"
  RecoveryAttempts = 2
  Maintenance <- AllMaintenance
  MaxTurns = 2
  MaxLog = 99
  MaxFaults = 1
SPECIFICATION Spec
INVARIANTS
  TypeOK
  DeniedTurnFails
  CompletedMeansAnswered
PROPERTIES
  ImplementsLifecycle
CHECK_DEADLOCK FALSE
