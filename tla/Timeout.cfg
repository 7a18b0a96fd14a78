SPECIFICATION FairSpec
CONSTANTS
  t1 = t1
  t2 = t2
  Threads <- MCThreads
  MaxRuns = 2
  Priors <- AllPriors
\* The process is gone after a fatal SIGUSR1.
CHECK_DEADLOCK FALSE
INVARIANTS
  TypeOK
  TickNeverKills
  RemoveFindsThread
  StrayTickNeedsFailure
PROPERTIES
  SignalsRegisteredOnly
  WakeupsRecur
  RunsGetStarted
