\* A provider that repeats a prompted tool call, in other chunks each time.
SPECIFICATION Spec
CONSTANTS
  Calls <- OneCall
  PromptPrefix <- Prefix
  Setups <- RepeatsPromptedCall
  Modes <- Strict
  MaxAttempts = 2
  MaxChunk = 4
  MaxCrashes = 1
INVARIANTS
  RepeatedAnswersAccepted
