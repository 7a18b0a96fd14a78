------------------------------ MODULE Perfjail ------------------------------
(***************************************************************************)
(* The builder (process/jail.rs): a client calls its methods in any order, *)
(* and spawn consumes what they have built.                                *)
(***************************************************************************)
EXTENDS Settings

CONSTANTS
  Durations,   \* limits of time a client may ask for, in microseconds
  Sizes,       \* limits of memory, in kibibytes
  Fds,         \* descriptors for the standard streams
  Args,        \* arguments
  MaxMethods   \* bound: calls of the builder's methods

ASSUME BuilderAssumption ==
  /\ Durations \subseteq Nat
  /\ Sizes \subseteq Nat
  /\ MaxMethods \in Nat

-----------------------------------------------------------------------------
VARIABLES
  jail,     \* the builder
  spawned,  \* spawn has consumed it
  calls,    \* the number of methods called so far
  given     \* what each method has been given, in order (history)

vars == <<jail, spawned, calls, given>>

Method == Stream \cup Limit \cup {"args", "working_dir", "features"}
Argument(method) ==
  CASE method \in Stream -> Fds
    [] method \in TimeLimit \cup {"instruction_count"} -> Durations
    [] method = "memory" -> Sizes
    [] method = "args" -> Args
    [] method = "working_dir" -> {"dir"}
    [] OTHER -> SUBSET Feature

TypeOK ==
  /\ DOMAIN jail.limits \subseteq Limit
  /\ \A k \in DOMAIN jail.limits :
       jail.limits[k] \in IF k = "instruction_count" THEN i64 ELSE Nat
  /\ DOMAIN jail.streams \subseteq Stream /\ Range(jail.streams) \subseteq Fds
  /\ jail.features \subseteq Feature
  /\ jail.args \in Seq(Args \cup {"program"})
  /\ jail.working_dir \in {"inherited", "dir"}
  /\ spawned \in BOOLEAN /\ calls \in 0..MaxMethods
  /\ DOMAIN given = Method /\ \A m \in Method : given[m] \in Seq(Argument(m))

Init == jail = new /\ spawned = FALSE /\ calls = 0 /\ given = [m \in Method |-> <<>>]

Call(method, arguments, result) ==
  /\ ~spawned
  /\ calls < MaxMethods
  /\ jail' = result
  /\ calls' = calls + 1
  /\ given' = [given EXCEPT ![method] = @ \o arguments]
  /\ UNCHANGED spawned

CallArg == \E word \in Args : Call("args", <<word>>, arg(jail, word))
CallArgs == \E w1, w2 \in Args : Call("args", <<w1, w2>>, args(jail, <<w1, w2>>))
CallCurrentDir == Call("working_dir", <<"dir">>, current_dir(jail, "dir"))
CallStdio ==
  \E fd \in Fds :
    \/ Call("stdin", <<fd>>, stdin(jail, fd))
    \/ Call("stdout", <<fd>>, stdout(jail, fd))
    \/ Call("stderr", <<fd>>, stderr(jail, fd))
CallFeatures ==
  \E set \in SUBSET Feature \ {{}} : Call("features", <<set>>, features(jail, set))
CallTimeLimit ==
  \E d \in Durations :
    \/ Call("real_time", <<d>>, real_time_limit(jail, d))
    \/ Call("user_time", <<d>>, user_time_limit(jail, d))
    \/ Call("system_time", <<d>>, system_time_limit(jail, d))
    \/ Call("user_system_time", <<d>>, user_system_time_limit(jail, d))
CallMemoryLimit ==
  \E size \in Sizes : Call("memory", <<size>>, memory_limit_kibibytes(jail, size))
CallMeasuredLimit ==
  \E d \in Durations : Call("instruction_count", <<d>>, measured_time_limit(jail, d))

Spawn == ~spawned /\ spawned' = TRUE /\ UNCHANGED <<jail, calls, given>>

Next ==
  \/ CallArg \/ CallArgs \/ CallCurrentDir \/ CallStdio
  \/ CallFeatures \/ CallTimeLimit \/ CallMemoryLimit \/ CallMeasuredLimit
  \/ Spawn

Spec == Init /\ [][Next]_vars

-----------------------------------------------------------------------------
Called(method) == given[method] # <<>>
Latest(method) == given[method][Len(given[method])]

\* What spawn finds depends only on what each method was given, whatever the order
\* of the calls of different methods: of the calls of one setter the last one
\* counts, and features and arguments add up.
SettingsMatchCalls ==
  /\ jail.args = <<"program">> \o given["args"]
  /\ jail.working_dir = IF Called("working_dir") THEN Latest("working_dir") ELSE "inherited"
  /\ jail.streams = [stream \in {s \in Stream : Called(s)} |-> Latest(stream)]
  /\ jail.limits = [kind \in {k \in Limit : Called(k)} |->
                     IF kind = "instruction_count" THEN instruction_count_limit(Latest(kind))
                     ELSE Latest(kind)]
  /\ jail.features =
       {f \in Feature : (f = "PERF" /\ Called("instruction_count"))
                       \/ (\E set \in Range(given["features"]) : f \in set)}

\* If a limit that was set is enforced by no listener, its feature was never
\* asked for; the limit on measured time is always enforced, and the loop is
\* woken up exactly if there is a limit to enforce.
UnenforcedLimit ==
  /\ \A kind \in DOMAIN jail.limits \ Enforced(jail) :
       /\ kind # "instruction_count"
       /\ \A set \in Range(given["features"]) :
            (IF kind = "memory" THEN "MEMORY_MEASUREMENT" ELSE "TIME_MEASUREMENT") \notin set
  /\ requires_timeout(jail) <=> Enforced(jail) # {}

\* A larger limit on measured time never ends up as a smaller number of
\* instructions, as long as both are representable; one that is not can even
\* become negative, and no program stays below it.
LimitOrderKept ==
  \A d \in Range(given["instruction_count"]) :
    LET asked == Latest("instruction_count")
    IN  /\ d <= asked /\ Representable(asked)
             => instruction_count_limit(d) <= jail.limits["instruction_count"]
        /\ jail.limits["instruction_count"] < 0 => ~Representable(asked)

\* The documentation of real_time_limit: "Setting a real time limit also
\* automatically enables the TIME_MEASUREMENT feature flag".
LimitEnablesFeature ==
  DOMAIN jail.limits \cap TimeLimit # {} => "TIME_MEASUREMENT" \in jail.features
=============================================================================
