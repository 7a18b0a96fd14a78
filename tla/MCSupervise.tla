----------------------------- MODULE MCSupervise -----------------------------
(* Supervise with values for its constants: 2 instructions per millisecond  *)
(* and an i64 of 2^15 values, so that 18 instructions are too many for      *)
(* measured_time and 9 seconds too many for a limit on it.                  *)
EXTENDS Supervise

Asks(set, limits) == [features |-> set, limits |-> limits]

MCRequests == {
  Asks({"TIME_MEASUREMENT"}, [real_time |-> 20000]),
  Asks({"TIME_MEASUREMENT"}, [user_time |-> 0]),
  Asks({"TIME_MEASUREMENT"}, [system_time |-> 0, user_system_time |-> 10000]),
  Asks({"MEMORY_MEASUREMENT"}, <<>>),
  Asks({"TIME_MEASUREMENT", "MEMORY_MEASUREMENT"}, [memory |-> 1, real_time |-> 20000]),
  Asks({"PERF"}, [memory |-> 1]),
  Asks({}, [instruction_count |-> 9000000]),
  Asks({"TIME_MEASUREMENT"}, [instruction_count |-> 3000, real_time |-> 20000]),
  Asks({"MEMORY_MEASUREMENT"}, [instruction_count |-> 3000, memory |-> 1]) }

MCUnit == [real |-> 20000, user |-> 1, system |-> 1, instructions |-> 6, memory |-> 1]
MCTop == [real |-> 40000, user |-> 1, system |-> 1, instructions |-> 18, memory |-> 2]
=============================================================================
