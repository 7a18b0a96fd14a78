SPECIFICATION FairSpec
CONSTANTS
  t1 = t1
  t2 = t2
  NoThread = NoThread
  Threads <- MCThreads
  MaxCalls = 1
  FeatureSets <- AllFeatureSets
  Faults <- LivenessFaults
\* spawn and run can block for good; BarrierHangNeedsKill says when.
CHECK_DEADLOCK FALSE
PROPERTIES
  TimeLimitEndsRun
  KillEndsRun
  HandshakeCompletes
  SpawnCompletes
