\* One operation at a time, no faults: a preview and an input beside it.
SPECIFICATION Spec
CONSTANTS
  MaxInputs = 1
  MaxSteps = 1
  MaxLost = 0
  MaxFails = 0
INVARIANT
  DryRunKeepsSteering
