SPECIFICATION Spec
CONSTANTS
  t1 = t1
  t2 = t2
  NoThread = NoThread
  Threads <- MCThreads
  MaxCalls = 2
  FeatureSets <- AllFeatureSets
  Faults <- AllFaults
SYMMETRY ThreadSymmetry
\* spawn and run can block for good; BarrierHangNeedsKill says when.
CHECK_DEADLOCK FALSE
INVARIANTS
  TypeOK
  KillTargetsOwnChild
  TruthfulResult
  LimitKillHasVerdict
  SupervisedExec
  TimeoutRegistration
  BarrierHangNeedsKill
  FreedContextUse
PROPERTY ImplementsHandle
