----------------------------- MODULE MCEventLogs -----------------------------
EXTENDS EventLogs, TLC

CONSTANTS p1, p2, s1, s2
Processes == {p1, p2}
LocalClients == {Host, s1, s2}
SomeSymmetry == Permutations(Processes) \cup Permutations({s1, s2})
=============================================================================
