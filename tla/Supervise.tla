------------------------------ MODULE Supervise ------------------------------
(***************************************************************************)
(* The supervision loop with its listeners and their measurements: what    *)
(* PerfListener, TimeListener and MemoryListener (listener/*.rs) read of   *)
(* the child, when ChildInternals::run (process/child.rs) lets them, and   *)
(* what becomes of it in the result.  Any number of limits may be set.     *)
(* The model starts where run leaves parent_ready_barrier; threads, kill   *)
(* and failing system calls are in JailedChild.                            *)
(***************************************************************************)
EXTENDS Settings, Process

CONSTANTS
  Requests,        \* what clients ask for: [features, limits (as asked for)]
  Names,           \* bound: numbers of words of a program's name
  ParentMemory,    \* VmPeak of the process that uses the library
  Unit, Top,       \* step and bound of each quantity, see Quantity
  Noise,           \* values of the other fields of /proc/<pid>/stat
  OverflowChecks   \* whether the build may panic on overflow: subset of BOOLEAN

\* The measurements of an ExecutionResult, and one that is not there.
Measurement == {"instructions_used", "measured_time", "real_time", "user_time", "system_time",
                "memory_usage_kibibytes"}
None == -1

\* Microseconds, clock ticks, clock ticks, instructions and kibibytes.
Quantity == {"real", "user", "system", "instructions", "memory"}

ASSUME SuperviseAssumption ==
  /\ \A r \in Requests :
       /\ r.features \subseteq Feature /\ DOMAIN r.limits \subseteq Limit
       /\ \A kind \in DOMAIN r.limits : r.limits[kind] \in Nat
  /\ \A q \in Quantity : Unit[q] \in Nat \ {0} /\ Top[q] \in Nat
  /\ Names \subseteq 1..8 /\ Noise \subseteq Nat /\ ParentMemory \in Nat
  /\ OverflowChecks \subseteq BOOLEAN /\ OverflowChecks # {}

VARIABLES
  asked,             \* the limits as the client gave them
  jail,              \* the settings they became
  words,             \* words in the names of the caller and of the program
  pc, turn, action,  \* run: where it is, the listener whose turn it is, the
                     \*   combined WakeupAction
  proc,              \* the kernel's view of the child
  phase,             \* of the child: "preexec", "program" or "failed" to exec
  held,              \* another child still holds the write end of the pipe
  used,              \* what the child has really used
  peak,              \* MemoryListener.peak_memory_kibibytes
  execution_result,  \* verdict and reason,
  blamed,            \*   the limit the verdict's comment names,
  report             \*   and the measurements

settingVars == <<asked, jail, words>>
loopVars == <<pc, turn, action>>
resultVars == <<peak, execution_result, blamed, report>>
vars == <<settingVars, loopVars, proc, phase, held, used, resultVars>>

Loop == {"wakeup", "waitid"}
listeners == Listeners(jail)

TypeOK ==
  /\ jail.features \subseteq Feature /\ DOMAIN jail.limits \subseteq Limit
  /\ \A kind \in DOMAIN jail.limits : jail.limits[kind] \in Int
  /\ words \in [{"caller", "program"} -> 1..8]
  /\ pc \in Loop \cup {"post_execute", "done", "failed", "panicked"}
  /\ turn \in 1..Len(listeners) + 1
  /\ action \in {"Continue", "Kill"}
  /\ proc \in Process
  /\ phase \in {"preexec", "program", "failed"}
  /\ held \in BOOLEAN
  /\ used \in [Quantity -> Nat]
  /\ peak \in 0..used["memory"]
  /\ execution_result \in ExecutionResults
  /\ report \in [Measurement -> Nat \cup {None}]
  /\ blamed \in Limit \cup {"none"}
  /\ (blamed = "none") = (execution_result.exit_status \in {"OK", "RE"})

\* The builder's calls for a request.
Build(request) ==
  LET asks == request.limits
      plain == [kind \in DOMAIN asks \ {"instruction_count"} |-> asks[kind]]
      built == [features(new, request.features) EXCEPT !.limits = plain]
  IN  IF "instruction_count" \in DOMAIN asks
      THEN measured_time_limit(built, asks["instruction_count"]) ELSE built

Init ==
  /\ \E r \in Requests : asked = r.limits /\ jail = Build(r)
  /\ words \in [{"caller", "program"} ->
               IF "TIME_MEASUREMENT" \in jail.features THEN Names ELSE {1}]
  /\ pc = "wakeup" /\ turn = 1 /\ action = "Continue"
  /\ proc = [state |-> "run", code |-> NoStatus, pending |-> {},
             tracing |-> IF "PTRACE" \in Range(listeners) THEN "traceexit" ELSE "none"]
  /\ phase = "preexec"
  /\ held \in (IF "PTRACE" \in Range(listeners) THEN BOOLEAN ELSE {FALSE})
  /\ used = [q \in Quantity |-> 0]
  /\ peak = 0 /\ execution_result = NewResult /\ blamed = "none" /\ report = [m \in Measurement |-> None]

-----------------------------------------------------------------------------
(* The child, the other children and the kernel.                           *)

Outside == UNCHANGED <<settingVars, loopVars, resultVars>>

\* execvp gives the child a memory of its own.
Exec ==
  /\ proc.state = "run" /\ phase = "preexec"
  /\ phase' = "program"
  /\ proc' = IF Traced(proc) THEN Stop(proc) ELSE proc
  /\ used' = [used EXCEPT !["memory"] = Unit["memory"]]
  /\ Outside /\ UNCHANGED held

\* execute_child stores the error and returns 1.
ExecFails ==
  /\ proc.state = "run" /\ phase = "preexec"
  /\ phase' = "failed"
  /\ proc' = BeginExit(proc, "exit1")
  /\ Outside /\ UNCHANGED <<held, used>>

\* The quantities some listener measures; the others are not followed.
Measured ==
  (IF "PERF" \in jail.features THEN {"instructions"} ELSE {})
  \cup (IF "TIME_MEASUREMENT" \in jail.features THEN {"real", "user", "system"} ELSE {})
  \cup (IF "MEMORY_MEASUREMENT" \in jail.features THEN {"memory"} ELSE {})

\* The counter of instructions starts at exec (enable_on_exec).
Spend(q) ==
  /\ q \in Measured
  /\ used[q] + Unit[q] <= Top[q]
  /\ \/ q = "real" /\ pc \in Loop \cup {"post_execute"}
     \/ q \in {"user", "system"} /\ proc.state = "run"
     \/ q \in {"instructions", "memory"} /\ proc.state = "run" /\ phase = "program"
  /\ used' = [used EXCEPT ![q] = @ + Unit[q]]
  /\ Outside /\ UNCHANGED <<proc, phase, held>>

\* The program exits, is hit by a fatal signal, or stops.
ProgramEnds ==
  /\ proc.state = "run" /\ phase = "program"
  /\ \/ \E code \in {"exit0", "exit1"} : proc' = BeginExit(proc, code)
     \/ proc' = IF Traced(proc) THEN Stop(proc) ELSE BeginExit(proc, "sig11")
     \/ proc' = Stop(proc)
  /\ Outside /\ UNCHANGED <<phase, held, used>>

ProgramContinues ==
  /\ proc.state = "stop" /\ ~Traced(proc)
  /\ proc' = SetState(proc, "run")
  /\ Outside /\ UNCHANGED <<phase, held, used>>

KernelStep ==
  /\ \/ /\ proc.state = "run" /\ "SIGKILL" \in proc.pending
        /\ \E state \in {"dying"} \cup (IF TracesExit(proc) THEN {"exitstop"} ELSE {}) :
             proc' = Die(proc, state)
     \/ proc.state = "dying" /\ proc' = SetState(proc, "zombie")
  /\ Outside /\ UNCHANGED <<phase, held, used>>

\* The other child closes the write end it has inherited, see Descriptors.
Released ==
  /\ held /\ held' = FALSE
  /\ Outside /\ UNCHANGED <<proc, phase, used>>

-----------------------------------------------------------------------------
(* What the listeners read.                                                *)

\* get_process_time_usage: a field of /proc/<pid>/stat, by its position.
Field(name) ==
  CASE name = "utime" -> {used["user"]}
    [] name = "stime" -> {used["system"]}
    [] OTHER -> Noise
comm == words[IF phase = "program" THEN "program" ELSE "caller"]

get_time_usage ==
  {[real_time |-> used["real"], user_time |-> from_ticks(u), system_time |-> from_ticks(s),
    user_system_time |-> from_ticks(u) + from_ticks(s)] :
     u \in Field(user_time_field(comm)), s \in Field(system_time_field(comm))}

\* End-of-file on the pipe.  A child that ends without exec also closes the
\* pipe, but it has lost its memory by then, so nothing is read of it.
was_exec_called == phase = "program" /\ ~held

\* VmPeak: gone from /proc/<pid>/status while the child exits.  Until exec the
\* child shares the memory of the caller.
get_peak_memory_usage ==
  LET size == IF phase = "program" THEN used["memory"] ELSE ParentMemory
  IN  (IF proc.state # "zombie" THEN {size} ELSE {})
      \cup (IF proc.state \in {"dying", "zombie"} THEN {0} ELSE {})

Larger(a, b) == IF a > b THEN a ELSE b

\* Mutant: the memory is read without waiting for exec.
peak_memory_early == {Larger(peak, size) : size \in get_peak_memory_usage}

\* The peak after a wake-up.
peak_memory ==
  IF was_exec_called THEN {Larger(peak, size) : size \in get_peak_memory_usage} ELSE {peak}

\* What a listener compares with its limits; all that matters of TimeListener's
\* reading if no limit is set is that it is not taken.
Sample(listener, peaks) ==
  CASE listener = "PERF" -> {[instruction_count |-> used["instructions"]]}
    [] listener = "TIME_MEASUREMENT" -> get_time_usage
    [] listener = "MEMORY_MEASUREMENT" -> {[memory |-> size] : size \in peaks}
    [] OTHER -> {<<>>}

\* Mutant: a limit counts as exceeded when it is reached.
exceeded_reached(listener, sample) ==
  {kind \in LimitsOf(listener) \cap DOMAIN jail.limits : sample[kind] >= jail.limits[kind]}

\* The comparisons of on_wakeup, verify_time_usage and on_post_execute.
exceeded(listener, sample) ==
  {kind \in LimitsOf(listener) \cap DOMAIN jail.limits : sample[kind] > jail.limits[kind]}

\* verify_time_usage names the first limit exceeded, in this order.
Rank == [real_time |-> 1, user_time |-> 2, system_time |-> 3, user_system_time |-> 4,
         instruction_count |-> 5, memory |-> 6]
First(kinds) == CHOOSE kind \in kinds : \A other \in kinds : Rank[kind] <= Rank[other]

Judge(listener, sample) ==
  LET kinds == exceeded(listener, sample)
      verdict == IF listener = "MEMORY_MEASUREMENT" THEN "MLE" ELSE "TLE"
  IN  /\ execution_result' = IF kinds = {} THEN execution_result
                             ELSE SetExitStatus(execution_result, verdict)
      /\ blamed' = IF kinds = {} \/ execution_result.exit_status # "OK" THEN blamed
                   ELSE First(kinds)

\* Mutant: the answer of the last listener counts.
combine_last(before, answer) == answer

\* WakeupAction::combine
combine(before, answer) == IF "Kill" \in {before, answer} THEN "Kill" ELSE "Continue"

-----------------------------------------------------------------------------
(* The loop, and on_post_execute.                                          *)

OnWakeup ==
  /\ pc = "wakeup" /\ turn \in DOMAIN listeners
  /\ \E sample \in Sample(listeners[turn], peak_memory) :
       /\ Judge(listeners[turn], sample)
       /\ action' = combine(action, IF exceeded(listeners[turn], sample) = {}
                                    THEN "Continue" ELSE "Kill")
       /\ peak' = IF listeners[turn] = "MEMORY_MEASUREMENT" THEN sample.memory ELSE peak
  /\ turn' = turn + 1
  /\ UNCHANGED <<settingVars, pc, proc, phase, held, used, report>>

AllAwake ==
  /\ pc = "wakeup" /\ turn = Len(listeners) + 1
  /\ proc' = IF action = "Kill" THEN kill_pid(proc) ELSE proc
  /\ pc' = "waitid" /\ turn' = 1 /\ action' = "Continue"
  /\ UNCHANGED <<settingVars, phase, held, used, resultVars>>

\* waitid, propagate_child_error, on_execute_event and the match on the status.
Waitid ==
  /\ pc = "waitid"
  /\ proc.state = "zombie" \/ Stopped(proc)
  /\ \/ /\ phase = "failed"
        /\ pc' = "failed" /\ UNCHANGED <<proc, execution_result>>
     \/ /\ phase # "failed" /\ WaitStatus(proc) = "ptrace"
        /\ pc' = "wakeup" /\ proc' = Resume(proc) /\ UNCHANGED execution_result
     \/ /\ phase # "failed" /\ WaitStatus(proc) = "stopped"
        /\ pc' = "wakeup" /\ UNCHANGED <<proc, execution_result>>
     \/ /\ phase # "failed" /\ WaitStatus(proc) \in ExitReason
        /\ pc' = "post_execute"
        /\ execution_result' = SetExitReason(execution_result, WaitStatus(proc))
        /\ UNCHANGED proc
  /\ UNCHANGED <<settingVars, turn, action, phase, held, used, peak, blamed, report>>

\* EINTR: the timeout thread wakes a run some listener asked it to wake.
WaitidInterrupted ==
  /\ pc = "waitid" /\ requires_timeout(jail)
  /\ proc.state # "zombie" /\ ~Stopped(proc)
  /\ pc' = "wakeup"
  /\ UNCHANGED <<settingVars, turn, action, proc, phase, held, used, resultVars>>

\* set_real_time and the other setters of ExecutionResult.
Measurements(listener, sample) ==
  CASE listener = "PERF" ->
         [instructions_used |-> sample.instruction_count,
          measured_time |-> measured_time(sample.instruction_count)]
    [] listener = "TIME_MEASUREMENT" ->
         [real_time |-> sample.real_time, user_time |-> sample.user_time,
          system_time |-> sample.system_time]
    [] listener = "MEMORY_MEASUREMENT" -> [memory_usage_kibibytes |-> sample.memory]
    [] OTHER -> <<>>

Filled(fields) ==
  [m \in Measurement |-> IF m \in DOMAIN fields THEN fields[m] ELSE report[m]]

OnPostExecute ==
  /\ pc = "post_execute" /\ turn \in DOMAIN listeners
  /\ \E sample \in Sample(listeners[turn], {peak}), checks \in OverflowChecks :
       /\ Judge(listeners[turn], sample)
       /\ IF listeners[turn] = "PERF" /\ checks /\ ~Countable(used["instructions"])
          THEN pc' = "panicked" /\ UNCHANGED <<turn, report>>
          ELSE /\ report' = Filled(Measurements(listeners[turn], sample))
               /\ turn' = turn + 1
               /\ UNCHANGED pc
  /\ UNCHANGED <<settingVars, action, proc, phase, held, used, peak>>

\* The end of run and of run_saving_result.
Finish ==
  /\ pc = "post_execute" /\ turn = Len(listeners) + 1
  /\ pc' = "done" /\ proc' = Reap(proc)
  /\ UNCHANGED <<settingVars, turn, action, phase, held, used, resultVars>>

RunStep ==
  OnWakeup \/ AllAwake \/ Waitid \/ WaitidInterrupted \/ OnPostExecute \/ Finish

Next ==
  \/ RunStep \/ KernelStep \/ Exec \/ ExecFails \/ ProgramEnds \/ ProgramContinues
  \/ Released
  \/ \E q \in Quantity : Spend(q)

Spec == Init /\ [][Next]_vars

\* The supervising thread, its timeouts and the kernel get to run, and the clock
\* advances.  The program need not do anything.
Fairness == WF_vars(RunStep) /\ WF_vars(KernelStep) /\ WF_vars(Spend("real"))
FairSpec == Spec /\ Fairness

-----------------------------------------------------------------------------
OneWord == \A who \in DOMAIN words : words[who] = 1

\* The measurement in the report that a limit is about.
Reported(kind) ==
  CASE kind = "instruction_count" -> report.instructions_used
    [] kind = "memory" -> report.memory_usage_kibibytes
    [] kind = "user_system_time" -> report.user_time + report.system_time
    [] OTHER -> report[kind]

\* Verdict and report of a finished run never contradict each other, however the
\* samples of the loop, the final ones and the end of the program interleave:
\* OK means that no enforced limit is exceeded by what is reported, a limit's
\* verdict names an enforced limit that is, and death by SIGKILL has such a
\* verdict.  (A name with a space misleads TimeListener, see ReportExact.)
VerdictMatchesReport ==
  pc = "done" /\ OneWord =>
    /\ execution_result.exit_status = "OK" =>
         \A kind \in Enforced(jail) : Reported(kind) <= jail.limits[kind]
    /\ blamed # "none" =>
         blamed \in Enforced(jail) /\ Reported(blamed) > jail.limits[blamed]
    /\ execution_result.exit_reason = "sig9" => blamed # "none"

\* What is reported is what the child used: instructions and CPU times exactly
\* (the times only for names without a space), real time up to the reading, and
\* of the memory no more than the program's own peak, never the caller's.
ReportExact ==
  pc = "done" =>
    /\ "PERF" \in jail.features => report.instructions_used = used["instructions"]
    /\ "TIME_MEASUREMENT" \in jail.features =>
         /\ report.real_time <= used["real"]
         /\ OneWord => /\ report.user_time = from_ticks(used["user"])
                       /\ report.system_time = from_ticks(used["system"])
    /\ "MEMORY_MEASUREMENT" \in jail.features =>
         report.memory_usage_kibibytes <= used["memory"]

\* The limit on measured time and the measured time reported agree, although one
\* is converted to instructions and the other from them, as long as neither
\* overflows: a run that is OK reports at most the limit, and a run that is over
\* it at least the limit.
MeasuredTimeAgrees ==
  (pc = "done" /\ "instruction_count" \in DOMAIN asked) =>
    LET millis == asked["instruction_count"] \div 1000
    IN  Representable(asked["instruction_count"]) /\ Countable(used["instructions"]) =>
          /\ execution_result.exit_status = "OK" => report.measured_time <= millis
          /\ blamed = "instruction_count" => report.measured_time >= millis

\* An enforced limit that is exceeded ends the run, as does real time running
\* out: the memory limit only once no other child holds the pipe.
LimitsEnforced ==
  /\ ("real_time" \in Enforced(jail) ~> pc \notin Loop)
  /\ \A kind \in Limit \ {"real_time"} :
       (/\ kind \in Enforced(jail) /\ OneWord /\ phase = "program" /\ ~held
        /\ CASE kind = "instruction_count" -> used["instructions"] > jail.limits[kind]
             [] kind = "memory" -> used["memory"] > jail.limits[kind]
             [] OTHER -> \E usage \in get_time_usage : usage[kind] > jail.limits[kind])
       ~> pc \notin Loop
=============================================================================
