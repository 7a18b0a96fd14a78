SPECIFICATION Spec
CONSTANTS
  t1 = t1
  t2 = t2
  NoThread = NoThread
  Threads <- MCThreads
  MaxCalls = 2
  FeatureSets <- AllFeatureSets
  Faults <- NoFaults
CHECK_DEADLOCK FALSE
INVARIANT KillReturnsOk
