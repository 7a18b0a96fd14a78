SPECIFICATION Spec
CONSTANTS
  CYCLES_PER_SECOND = 2000
  CLOCK_TICKS_PER_SECOND = 100
  I64 = 16
  Durations <- MCDurations
  Sizes <- MCSizes
  Fds <- MCFds
  Args <- MCArgs
  MaxMethods = 4
\* spawn consumes the builder.
CHECK_DEADLOCK FALSE
INVARIANTS
  TypeOK
  SettingsMatchCalls
  UnenforcedLimit
  LimitOrderKept
