------------------------------ MODULE Settings ------------------------------
(***************************************************************************)
(* The settings of a jail (process/jail.rs): what each method of the       *)
(* builder makes of them, and the listeners spawn makes of the result.     *)
(***************************************************************************)
EXTENDS Measures, Functions

Feature == {"PERF", "TIME_MEASUREMENT", "MEMORY_MEASUREMENT"}
TimeLimit == {"real_time", "user_time", "system_time", "user_system_time"}
Limit == TimeLimit \cup {"instruction_count", "memory"}
Stream == {"stdin", "stdout", "stderr"}

\* Perfjail::new.  A setting that is None is outside the function's domain.
new == [limits |-> <<>>, streams |-> <<>>, args |-> <<"program">>,
        working_dir |-> "inherited", features |-> {}]

arg(jail, word) == [jail EXCEPT !.args = Append(@, word)]
args(jail, words) == [jail EXCEPT !.args = @ \o words]
current_dir(jail, dir) == [jail EXCEPT !.working_dir = dir]

\* A setting becomes Some(value).
Some(settings, key, value) ==
  [k \in DOMAIN settings \cup {key} |-> IF k = key THEN value ELSE settings[k]]

redirect(jail, stream, fd) == [jail EXCEPT !.streams = Some(@, stream, fd)]
stdin(jail, fd) == redirect(jail, "stdin", fd)
stdout(jail, fd) == redirect(jail, "stdout", fd)
stderr(jail, fd) == redirect(jail, "stderr", fd)

\* Mutant: the features given last replace the earlier ones.
features_replaced(jail, set) == [jail EXCEPT !.features = set]

features(jail, set) == [jail EXCEPT !.features = @ \cup set]

\* Mutant: the first limit of a kind is kept.
limit_kept(jail, kind, value) ==
  IF kind \in DOMAIN jail.limits THEN jail ELSE [jail EXCEPT !.limits = Some(@, kind, value)]

\* The setters of limits store the limit, and all but one do nothing else.
limit(jail, kind, value) == [jail EXCEPT !.limits = Some(@, kind, value)]
real_time_limit(jail, micros) == limit(jail, "real_time", micros)
user_time_limit(jail, micros) == limit(jail, "user_time", micros)
system_time_limit(jail, micros) == limit(jail, "system_time", micros)
user_system_time_limit(jail, micros) == limit(jail, "user_system_time", micros)
memory_limit_kibibytes(jail, size) == limit(jail, "memory", size)

\* Mutant: the limit does not enable its feature.
measured_time_limit_only(jail, micros) ==
  limit(jail, "instruction_count", instruction_count_limit(micros))

measured_time_limit(jail, micros) ==
  features(limit(jail, "instruction_count", instruction_count_limit(micros)), {"PERF"})

\* spawn: one listener per feature, in the order of the enum, and the tracer
\* right behind the listener for memory.
Made(jail, feature, its) == IF feature \in jail.features THEN its ELSE <<>>
Listeners(jail) ==
  Made(jail, "PERF", <<"PERF">>)
  \o Made(jail, "TIME_MEASUREMENT", <<"TIME_MEASUREMENT">>)
  \o Made(jail, "MEMORY_MEASUREMENT", <<"MEMORY_MEASUREMENT", "PTRACE">>)

\* The limits a listener looks at: these make its requires_timeout true.
LimitsOf(listener) ==
  CASE listener = "PERF" -> {"instruction_count"}
    [] listener = "TIME_MEASUREMENT" -> TimeLimit
    [] listener = "MEMORY_MEASUREMENT" -> {"memory"}
    [] OTHER -> {}

requires_timeout(jail) ==
  \E l \in Range(Listeners(jail)) : LimitsOf(l) \cap DOMAIN jail.limits # {}

\* A limit some listener will enforce.
Enforced(jail) ==
  {kind \in DOMAIN jail.limits : \E l \in Range(Listeners(jail)) : kind \in LimitsOf(l)}
=============================================================================
