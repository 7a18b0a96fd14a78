SPECIFICATION FairSpec
CONSTANTS
  CYCLES_PER_SECOND = 2000
  CLOCK_TICKS_PER_SECOND = 100
  I64 = 32768
  Requests <- MCRequests
  Names = {1, 2}
  ParentMemory = 5
  Unit <- MCUnit
  Top <- MCTop
  Noise = {0, 7}
  OverflowChecks = {TRUE, FALSE}
\* The run is over.
CHECK_DEADLOCK FALSE
INVARIANTS
  TypeOK
  VerdictMatchesReport
  ReportExact
  MeasuredTimeAgrees
PROPERTY LimitsEnforced
