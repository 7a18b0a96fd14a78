SPECIFICATION Spec
CONSTANTS
  t1 = t1
  t2 = t2
  NoThread = NoThread
  Threads <- MCThreads
  MaxCalls = 1
  FeatureSets <- UntracedFeatureSets
  Faults <- ExecFault
CHECK_DEADLOCK FALSE
INVARIANT SameReturnValue
