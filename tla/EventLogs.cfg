\* Two processes on a store, or a host and two subscribers in one process;
\* two events, any legal or refused argument.
SPECIFICATION Spec
CONSTANTS
  p1 = p1
  p2 = p2
  s1 = s1
  s2 = s2
  None = None
  Orphan = Orphan
  Host = host
  Clients <- Processes
  Local <- LocalClients
  MaxSeq = 1
  MaxHandles = 2
  Contiguous = TRUE
SYMMETRY SomeSymmetry
INVARIANTS
  HeadIsLast
  HeardOnce
PROPERTIES
  StoresKeepContract
  MemoryKeepsContract
