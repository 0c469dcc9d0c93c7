SPECIFICATION Spec
CONSTANTS
 Sessions <- Chat
 MaxSteps = 6
INVARIANTS WindowAccepted
