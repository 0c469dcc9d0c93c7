CONSTANTS
  None = None
  l1 = l1
  l2 = l2
  c1 = c1
  c2 = c2
  Loops <- OneLoop
  CallIds <- OneCall
  Registered <- OneCall
  MaxBatch = 1
  MaxSteps = 1
  ModelAttempts = 1
  ToolAttempts = 1
  ToolExhausted = "feed-back"
  RecoveryAttempts = 1
  Maintenance <- NoMaintenance
  MaxTurns = 1
  MaxLog = 99
  MaxFaults = 1
SPECIFICATION Spec
PROPERTIES
  FeedBackSucceeds
CHECK_DEADLOCK FALSE
