SPECIFICATION FairSpec
CONSTANTS
  t1 = t1
  t2 = t2
  NoThread = NoThread
  Threads <- MCThreads
  MaxCalls = 1
  FeatureSets <- UntracedFeatureSets
  Faults <- NoFaults
CHECK_DEADLOCK FALSE
PROPERTY RunAfterKillReturns
