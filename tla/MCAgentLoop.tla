---------------------------- MODULE MCAgentLoop ----------------------------
EXTENDS AgentLoop

CONSTANTS l1, l2, c1, c2

OneLoop == {l1}
TwoLoops == {l1, l2}
OneCall == {c1}
TwoCalls == {c1, c2}

NoMaintenance == {}
AllMaintenance == {"compaction.applied", "checkpoint.created"}

CallSymmetry == Permutations(TwoCalls)
LoopSymmetry == Permutations(TwoLoops)
ReplicaSymmetry == CallSymmetry \cup LoopSymmetry
=============================================================================
