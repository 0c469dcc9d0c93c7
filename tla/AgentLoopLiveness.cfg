CONSTANTS
  None = None
  l1 = l1
  l2 = l2
  c1 = c1
  c2 = c2
  Loops <- OneLoop
  CallIds <- TwoCalls
  Registered <- TwoCalls
  MaxBatch = 2
  MaxSteps = 1
  ModelAttempts = 1
  ToolAttempts = 2
  ToolExhausted = "feed-back"
  RecoveryAttempts = 1
  Maintenance <- NoMaintenance
  MaxTurns = 1
  MaxLog = 99
  MaxFaults = 1
SPECIFICATION FairSpec
PROPERTIES
  OperationsReturn
  NeverWedged
CHECK_DEADLOCK FALSE
