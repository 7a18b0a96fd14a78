------------------------------ MODULE Measures ------------------------------
(***************************************************************************)
(* The conversions between what the kernel counts and what a client reads  *)
(* or limits: measured time and instructions (process/jail.rs and          *)
(* process/execution_result.rs), clock ticks and microseconds, and the     *)
(* fields of /proc/<pid>/stat (listener/time.rs).                          *)
(***************************************************************************)
EXTENDS Integers, Sequences

CONSTANTS
  CYCLES_PER_SECOND,        \* instructions taken for one second
  CLOCK_TICKS_PER_SECOND,   \* sysconf(_SC_CLK_TCK)
  I64                       \* the number of values of an i64 (2^64)

ASSUME MeasuresAssumption ==
  /\ CYCLES_PER_SECOND \in Nat \ {0} /\ CYCLES_PER_SECOND % 1000 = 0
  /\ CLOCK_TICKS_PER_SECOND \in Nat \ {0}
  /\ I64 \in Nat \ {0} /\ I64 % 2 = 0

i64 == -(I64 \div 2) .. (I64 \div 2) - 1

\* `as i64' of an integer that is wide enough: two's complement.
as_i64(n) ==
  LET low == n % I64 IN IF low < I64 \div 2 THEN low ELSE low - I64

\* Mutant: the limit is not converted to milliseconds.
instruction_count_limit_micros(micros) == as_i64(micros * (CYCLES_PER_SECOND \div 1000))

\* Mutant: the product is not cut to its width.
instruction_count_limit_wide(micros) == (micros \div 1000) * (CYCLES_PER_SECOND \div 1000)

\* measured_time_limit: a limit in microseconds, as a number of instructions.
instruction_count_limit(micros) ==
  as_i64((micros \div 1000) * (CYCLES_PER_SECOND \div 1000))

\* The limits that survive the conversion.
Representable(micros) ==
  (micros \div 1000) * (CYCLES_PER_SECOND \div 1000) < I64 \div 2

\* set_instructions_used: milliseconds of measured time.  The product is an i64,
\* the quotient is truncated and then taken for unsigned.
Countable(instructions) == instructions * 1000 < I64 \div 2
measured_time(instructions) ==
  LET product == as_i64(instructions * 1000)
  IN  IF product >= 0 THEN product \div CYCLES_PER_SECOND
      ELSE (-((-product) \div CYCLES_PER_SECOND)) % I64

\* get_process_time_usage: microseconds from clock ticks.
from_ticks(ticks) == (ticks * 1000000) \div CLOCK_TICKS_PER_SECOND

\* /proc/<pid>/stat up to the times, for a program whose name has so many words.
Stat(words) ==
  <<"pid">> \o [i \in 1..words |-> "comm"]
  \o <<"state", "ppid", "pgrp", "session", "tty_nr", "tpgid", "flags",
       "minflt", "cminflt", "majflt", "cmajflt", "utime", "stime">>

\* Mutant: the field is counted from 1.
user_time_field_shifted(words) == Stat(words)[13]

\* split_whitespace().nth(13), and the field after it.
user_time_field(words) == Stat(words)[14]
system_time_field(words) == Stat(words)[15]
=============================================================================
