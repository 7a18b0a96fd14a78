--------------------------- MODULE SuperviseProofs ---------------------------
(***************************************************************************)
(* The verdict and the report of a supervised run, for any request, any    *)
(* consumption and any names.                                              *)
(*                                                                         *)
(* Verdict and report come from samples taken at different times.  What    *)
(* joins them: a quantity a verdict was based on never shrinks (Verdict),  *)
(* the child is dead when the final samples are taken (Place), and each    *)
(* listener that has taken its final sample has told the truth (Reports).  *)
(***************************************************************************)
EXTENDS Supervise, SettingsProofs

\* Limits on CPU time are read by position, which a name with a space misleads.
CpuLimit == {"user_time", "system_time", "user_system_time"}
Exact(kind) == OneWord \/ kind \notin CpuLimit

\* What a limit is compared with now, if it is read correctly.
Usage(kind) ==
  CASE kind = "real_time" -> used["real"]
    [] kind = "user_time" -> from_ticks(used["user"])
    [] kind = "system_time" -> from_ticks(used["system"])
    [] kind = "user_system_time" -> from_ticks(used["user"]) + from_ticks(used["system"])
    [] kind = "instruction_count" -> used["instructions"]
    [] OTHER -> peak

\* The limit on measured time as it was asked for.
Config ==
  "instruction_count" \in DOMAIN asked =>
    /\ asked["instruction_count"] \in Nat /\ "PERF" \in jail.features
    /\ "instruction_count" \in DOMAIN jail.limits
    /\ jail.limits["instruction_count"] = instruction_count_limit(asked["instruction_count"])

Place ==
  /\ pc = "waitid" => turn = 1
  /\ pc = "post_execute" => proc.state = "zombie"
  /\ pc = "done" => proc.state = "reaped" /\ turn = Len(listeners) + 1
  /\ pc \in Loop => execution_result.exit_status # "RE"
  /\ phase # "program" => peak = 0

\* SIGKILL ends the child, or has ended it.
Killed(p) == "SIGKILL" \in p.pending \/ p.code = "sig9"

\* SIGKILL is sent only for a limit, and a limit that is blamed is exceeded for good.
Verdict ==
  /\ action = "Kill" => blamed # "none"
  /\ Killed(proc) => blamed # "none"
  /\ execution_result.exit_reason = "sig9" => blamed # "none"
  /\ blamed # "none" => blamed \in Enforced(jail)
  /\ blamed # "none" /\ Exact(blamed) => Usage(blamed) > jail.limits[blamed]

\* The limits of a listener that has reported, against what it has reported.
Judged(l) ==
  /\ execution_result.exit_status = "OK" =>
       \A kind \in LimitsOf(l) \cap DOMAIN jail.limits : Reported(kind) <= jail.limits[kind]
  /\ blamed \in LimitsOf(l) /\ Exact(blamed) => Reported(blamed) > jail.limits[blamed]

\* What it has reported, against what was used.
Told(l) ==
  /\ l = "PERF" =>
       /\ report.instructions_used = used["instructions"]
       /\ report.measured_time = measured_time(used["instructions"])
  /\ l = "TIME_MEASUREMENT" =>
       /\ report.real_time <= used["real"]
       /\ OneWord => /\ report.user_time = from_ticks(used["user"])
                     /\ report.system_time = from_ticks(used["system"])
  /\ l = "MEMORY_MEASUREMENT" => report.memory_usage_kibibytes = peak

\* The listeners that have had their turn.
Seen == {listeners[i] : i \in 1..turn - 1}

Reports == pc \in {"post_execute", "done"} => \A l \in Seen : Judged(l) /\ Told(l)

SupInv == TypeOK /\ Config /\ Place /\ Verdict /\ Reports

-----------------------------------------------------------------------------
(* The operators of the model.                                             *)

LEMMA ListenersHere ==
  /\ listeners \in Seq(Listener)
  /\ \A f \in jail.features \cap Feature : \E i \in 1..Len(listeners) : listeners[i] = f
BY ListenersMade DEF listeners

\* A name of one word leaves the fields where they are looked for.
LEMMA Fields == user_time_field(1) = "utime" /\ system_time_field(1) = "stime"
<1> DEFINE S == {"pid", "comm", "state", "ppid", "pgrp", "session", "tty_nr", "tpgid", "flags",
                "minflt", "cminflt", "majflt", "cmajflt", "utime", "stime"}
           a == <<"pid">>
           b == [i \in 1..1 |-> "comm"]
           c == <<"state", "ppid", "pgrp", "session", "tty_nr", "tpgid", "flags",
                  "minflt", "cminflt", "majflt", "cmajflt", "utime", "stime">>
<1>1. a \in Seq(S) /\ Len(a) = 1
  OBVIOUS
<1>2. b \in Seq(S) /\ Len(b) = 1
  OBVIOUS
<1>3. c \in Seq(S) /\ Len(c) = 13 /\ c[12] = "utime" /\ c[13] = "stime"
  OBVIOUS
<1>4. Stat(1) = (a \o b) \o c
  BY DEF Stat
<1> HIDE DEF S, a, b, c
<1>5. a \o b \in Seq(S) /\ Len(a \o b) = 2
  BY <1>1, <1>2, Joined
<1> DEFINE ab == a \o b
<1> HIDE DEF ab
<1>6. ab \in Seq(S) /\ Len(ab) = 2 /\ Stat(1) = ab \o c
  BY <1>4, <1>5 DEF ab
<1>7. ab \in Seq(S) /\ c \in Seq(S)
  BY <1>3, <1>6
<1>8. \A i \in 1..Len(c) : (ab \o c)[Len(ab) + i] = c[i]
  BY <1>7, Joined
<1>9. Stat(1)[14] = c[12] /\ Stat(1)[15] = c[13]
  <2>1. 12 \in 1..Len(c) /\ 13 \in 1..Len(c) /\ Len(ab) + 12 = 14 /\ Len(ab) + 13 = 15
    BY <1>3, <1>6
  <2>2. Stat(1)[Len(ab) + 12] = c[12] /\ Stat(1)[Len(ab) + 13] = c[13]
    BY <2>1, <1>6, <1>8
  <2> QED
    BY <2>1, <2>2
<1> QED
  BY <1>3, <1>9 DEF user_time_field, system_time_field

\* More ticks are never less time.
LEMMA Ticks ==
  ASSUME NEW a \in Nat, NEW b \in Nat, a <= b
  PROVE  from_ticks(a) \in Nat /\ from_ticks(a) <= from_ticks(b)
<1> DEFINE d == CLOCK_TICKS_PER_SECOND
           x == a * 1000000
           y == b * 1000000
           q == x \div d
<1>1. d \in Nat \ {0} /\ x \in Nat /\ y \in Nat /\ x <= y
  BY MeasuresAssumption
<1> HIDE DEF d, x, y
<1>2. q \in Nat /\ q * d <= x
  BY <1>1
<1> HIDE DEF q
<1>3. q * d \in Nat /\ y >= q * d
  BY <1>1, <1>2
<1>4. y \div d >= q
  BY <1>1, <1>2, <1>3, Quotient
<1>5. from_ticks(a) = q /\ from_ticks(b) = y \div d
  BY DEF from_ticks, q, x, y, d
<1> QED
  BY <1>1, <1>2, <1>4, <1>5

LEMMA MeasuredTimeType == ASSUME NEW n \in Nat PROVE measured_time(n) \in Nat
<1> DEFINE product == as_i64(n * 1000)
<1>1. product \in Int
  BY AsI64, MeasuresAssumption DEF i64
<1>2. measured_time(n) = IF product >= 0 THEN product \div CYCLES_PER_SECOND
                         ELSE (-((-product) \div CYCLES_PER_SECOND)) % I64
  BY DEF measured_time
<1> HIDE DEF product
<1>3. CASE product >= 0
  BY <1>1, <1>2, <1>3, MeasuresAssumption
<1>4. CASE ~(product >= 0)
  <2>1. -((-product) \div CYCLES_PER_SECOND) \in Int
    BY <1>1, <1>4, MeasuresAssumption
  <2> QED
    BY <1>2, <1>4, <2>1, MeasuresAssumption
<1> QED
  BY <1>3, <1>4

\* The limit named is one of those exceeded.
LEMMA FirstExceeded ==
  ASSUME NEW kinds \in SUBSET Limit, kinds # {}
  PROVE  First(kinds) \in kinds
<1>1. /\ Rank["real_time"] = 1 /\ Rank["user_time"] = 2 /\ Rank["system_time"] = 3
      /\ Rank["user_system_time"] = 4 /\ Rank["instruction_count"] = 5 /\ Rank["memory"] = 6
  BY DEF Rank
<1>2. \E kind \in kinds : \A other \in kinds : Rank[kind] <= Rank[other]
  <2>1. CASE "real_time" \in kinds
    BY <2>1, <1>1 DEF Limit, TimeLimit
  <2>2. CASE "real_time" \notin kinds /\ "user_time" \in kinds
    BY <2>2, <1>1 DEF Limit, TimeLimit
  <2>3. CASE kinds \cap {"real_time", "user_time"} = {} /\ "system_time" \in kinds
    BY <2>3, <1>1 DEF Limit, TimeLimit
  <2>4. CASE /\ kinds \cap {"real_time", "user_time", "system_time"} = {}
             /\ "user_system_time" \in kinds
    BY <2>4, <1>1 DEF Limit, TimeLimit
  <2>5. CASE kinds \cap TimeLimit = {} /\ "instruction_count" \in kinds
    BY <2>5, <1>1 DEF Limit, TimeLimit
  <2>6. CASE kinds = {"memory"}
    BY <2>6, <1>1
  <2> QED
    BY <2>1, <2>2, <2>3, <2>4, <2>5, <2>6 DEF Limit, TimeLimit
<1> QED
  BY <1>2 DEF First

-----------------------------------------------------------------------------
(* What the listeners read and conclude.                                   *)

LEMMA FieldTypes ==
  ASSUME TypeOK, NEW name
  PROVE  \A n \in Field(name) : n \in Nat
BY SuperviseAssumption DEF TypeOK, Field, Quantity

\* /proc/<pid>/stat is read as it is if the names have no space.
LEMMA OneWordFields ==
  ASSUME TypeOK, OneWord
  PROVE  /\ Field(user_time_field(comm)) = {used["user"]}
         /\ Field(system_time_field(comm)) = {used["system"]}
<1>1. comm = 1
  BY DEF TypeOK, OneWord, comm
<1> QED
  BY <1>1, Fields DEF Field

LEMMA TimeSample ==
  ASSUME TypeOK, NEW sample \in get_time_usage
  PROVE  /\ sample.real_time = used["real"]
         /\ sample.user_time \in Nat /\ sample.system_time \in Nat
         /\ sample.user_system_time = sample.user_time + sample.system_time
         /\ OneWord => /\ sample.user_time = from_ticks(used["user"])
                       /\ sample.system_time = from_ticks(used["system"])
<1>1. PICK u \in Field(user_time_field(comm)), s \in Field(system_time_field(comm)) :
        sample = [real_time |-> used["real"], user_time |-> from_ticks(u),
                  system_time |-> from_ticks(s),
                  user_system_time |-> from_ticks(u) + from_ticks(s)]
  BY DEF get_time_usage
<1>2. u \in Nat /\ s \in Nat
  BY FieldTypes
<1>3. from_ticks(u) \in Nat /\ from_ticks(s) \in Nat
  BY <1>2, Ticks
<1>4. OneWord => u = used["user"] /\ s = used["system"]
  BY OneWordFields
<1> QED
  BY <1>1, <1>3, <1>4

\* A sample for a limit is what has been used, if it is read correctly.
LEMMA SampleFacts ==
  ASSUME TypeOK, NEW l \in Listener, NEW peaks \in SUBSET Nat, NEW sample \in Sample(l, peaks),
         NEW kind \in LimitsOf(l)
  PROVE  /\ kind \in Limit /\ sample[kind] \in Nat
         /\ kind = "memory" => sample[kind] \in peaks
         /\ kind # "memory" /\ Exact(kind) => sample[kind] = Usage(kind)
<1>1. CASE l = "PERF"
  <2>1. kind = "instruction_count" /\ sample = [instruction_count |-> used["instructions"]]
    BY <1>1 DEF LimitsOf, Sample
  <2> QED
    BY <2>1 DEF Usage, TypeOK, Quantity, Limit
<1>2. CASE l = "TIME_MEASUREMENT"
  <2>1. kind \in TimeLimit /\ sample \in get_time_usage
    BY <1>2 DEF LimitsOf, Sample
  <2>2. used["real"] \in Nat
    BY DEF TypeOK, Quantity
  <2> QED
    BY <2>1, <2>2, TimeSample DEF TimeLimit, Limit, Usage, Exact, CpuLimit
<1>3. CASE l = "MEMORY_MEASUREMENT"
  <2>1. kind = "memory" /\ \E size \in peaks : sample = [memory |-> size]
    BY <1>3 DEF LimitsOf, Sample
  <2> QED
    BY <2>1 DEF Limit
<1>4. CASE l = "PTRACE"
  BY <1>4 DEF LimitsOf
<1> QED
  BY <1>1, <1>2, <1>3, <1>4 DEF Listener

\* A verdict is given once, and for a limit that is exceeded.
LEMMA JudgeFacts ==
  ASSUME TypeOK, NEW l \in Listener, NEW sample, Judge(l, sample),
         exceeded(l, sample) \subseteq Limit
  PROVE  /\ execution_result' \in ExecutionResults
         /\ execution_result'.exit_reason = execution_result.exit_reason
         /\ blamed' \in Limit \cup {"none"}
         /\ (blamed' = "none") = (execution_result'.exit_status \in {"OK", "RE"})
         /\ blamed' # blamed => blamed = "none" /\ blamed' \in exceeded(l, sample)
         /\ execution_result'.exit_status = "OK" =>
              execution_result.exit_status = "OK" /\ exceeded(l, sample) = {}
         /\ exceeded(l, sample) # {} /\ execution_result.exit_status # "RE" => blamed' # "none"
         /\ execution_result.exit_status # "RE" => execution_result'.exit_status # "RE"
<1> DEFINE kinds == exceeded(l, sample)
           verdict == IF l = "MEMORY_MEASUREMENT" THEN "MLE" ELSE "TLE"
<1>1. /\ execution_result' = IF kinds = {} THEN execution_result
                             ELSE SetExitStatus(execution_result, verdict)
      /\ blamed' = IF kinds = {} \/ execution_result.exit_status # "OK" THEN blamed
                   ELSE First(kinds)
  BY DEF Judge
<1>2. /\ execution_result \in ExecutionResults /\ blamed \in Limit \cup {"none"}
      /\ (blamed = "none") = (execution_result.exit_status \in {"OK", "RE"})
  BY DEF TypeOK
<1>3. kinds # {} => First(kinds) \in kinds /\ First(kinds) \in Limit
  BY FirstExceeded
<1>4. "none" \notin Limit
  BY DEF Limit, TimeLimit
<1> HIDE DEF kinds
<1>5. CASE kinds = {} \/ execution_result.exit_status # "OK"
  <2>1. execution_result' = execution_result /\ blamed' = blamed
    BY <1>1, <1>5 DEF SetExitStatus
  <2>2. kinds # {} => execution_result.exit_status # "OK"
    BY <1>5
  <2> QED
    BY <2>1, <2>2, <1>2 DEF ExecutionResults, ExitStatus, kinds
<1>6. CASE kinds # {} /\ execution_result.exit_status = "OK"
  <2>1. /\ execution_result' = [execution_result EXCEPT !.exit_status = verdict]
        /\ blamed' \in kinds /\ blamed' \in Limit /\ blamed = "none"
    BY <1>1, <1>2, <1>3, <1>6 DEF SetExitStatus
  <2>2. /\ execution_result' \in ExecutionResults
        /\ execution_result'.exit_reason = execution_result.exit_reason
        /\ execution_result'.exit_status \in {"TLE", "MLE"}
    BY <2>1, <1>2 DEF ExecutionResults, ExitStatus
  <2> QED
    BY <2>1, <2>2, <1>4, <1>6 DEF kinds
<1> QED
  BY <1>5, <1>6

\* The end of the program is no verdict on a limit.
LEMMA ReasonFacts ==
  ASSUME NEW r \in ExecutionResults, NEW reason \in ExitReason
  PROVE  /\ SetExitReason(r, reason) \in ExecutionResults
         /\ SetExitReason(r, reason).exit_reason = reason
         /\ (SetExitReason(r, reason).exit_status \in {"OK", "RE"})
              = (r.exit_status \in {"OK", "RE"})
         /\ SetExitReason(r, reason).exit_status = "OK" => r.exit_status = "OK"
<1> DEFINE ended == [r EXCEPT !.exit_reason = reason]
<1>1. /\ ended \in ExecutionResults /\ ended.exit_reason = reason
      /\ ended.exit_status = r.exit_status /\ r.exit_status \in ExitStatus
  BY DEF ExecutionResults
<1>2. SetExitReason(r, reason) = IF reason = "exit0" THEN ended ELSE SetExitStatus(ended, "RE")
  BY DEF SetExitReason
<1> HIDE DEF ended
<1>3. SetExitStatus(ended, "RE") = IF ended.exit_status = "OK"
                                   THEN [ended EXCEPT !.exit_status = "RE"] ELSE ended
  BY DEF SetExitStatus
<1>4. CASE reason # "exit0" /\ ended.exit_status = "OK"
  <2>1. SetExitReason(r, reason) = [ended EXCEPT !.exit_status = "RE"]
    BY <1>2, <1>3, <1>4
  <2> QED
    BY <2>1, <1>1, <1>4 DEF ExecutionResults, ExitStatus
<1>5. CASE ~(reason # "exit0" /\ ended.exit_status = "OK")
  <2>1. SetExitReason(r, reason) = ended
    BY <1>2, <1>3, <1>5
  <2> QED
    BY <2>1, <1>1
<1> QED
  BY <1>4, <1>5

-----------------------------------------------------------------------------
(* The child and the kernel.                                               *)

LEMMA ProcTypes ==
  ASSUME NEW p \in Process
  PROVE  /\ kill_pid(p) \in Process /\ Stop(p) \in Process /\ Resume(p) \in Process
         /\ Reap(p) \in Process
         /\ \A state \in ProcState : SetState(p, state) \in Process /\ Die(p, state) \in Process
         /\ \A code \in ExitReason : BeginExit(p, code) \in Process
<1> USE DEF Process, ProcState, SetState
<1>1. kill_pid(p) \in Process
  BY DEF kill_pid
<1>2. Stop(p) \in Process /\ Resume(p) \in Process /\ Reap(p) \in Process
  BY DEF Stop, Resume, Reap
<1>3. \A state \in ProcState : SetState(p, state) \in Process /\ Die(p, state) \in Process
  BY DEF Die, ExitReason
<1>4. \A code \in ExitReason : BeginExit(p, code) \in Process
  BY DEF BeginExit
<1> QED
  BY <1>1, <1>2, <1>3, <1>4

\* Only kill_pid makes SIGKILL pending, and only that is fatal by itself.
LEMMA ProcKilled ==
  ASSUME NEW p \in Process
  PROVE  /\ Killed(Stop(p)) => Killed(p)
         /\ Killed(Resume(p)) => Killed(p)
         /\ Killed(Reap(p)) => Killed(p)
         /\ \A state : Killed(SetState(p, state)) => Killed(p)
         /\ \A code \in {"exit0", "exit1", "sig11"} : ~Killed(BeginExit(p, code))
         /\ Reap(p).state = IF p.state = "zombie" THEN "reaped" ELSE p.state
<1> USE DEF Process, SetState, Killed
<1>1. /\ Killed(Stop(p)) => Killed(p)
      /\ Killed(Resume(p)) => Killed(p)
      /\ Killed(Reap(p)) => Killed(p)
      /\ Reap(p).state = IF p.state = "zombie" THEN "reaped" ELSE p.state
  BY DEF Stop, Resume, Reap
<1>2. \A state : Killed(SetState(p, state)) => Killed(p)
  OBVIOUS
<1>3. \A code \in {"exit0", "exit1", "sig11"} : ~Killed(BeginExit(p, code))
  BY DEF BeginExit
<1> QED
  BY <1>1, <1>2, <1>3

OutsideStep ==
  \/ KernelStep \/ Exec \/ ExecFails \/ ProgramEnds \/ ProgramContinues \/ Released
  \/ \E q \in Quantity : Spend(q)

\* Nothing used is given back, and the dead use nothing but time.
Grows ==
  /\ used' \in [Quantity -> Nat]
  /\ \A q \in Quantity : used'[q] >= used[q] \/ (q = "memory" /\ phase # "program")
  /\ proc.state \in {"zombie", "reaped"} =>
       \A q \in Quantity \ {"real"} : used'[q] = used[q]

LEMMA OutsideProc ==
  ASSUME TypeOK, OutsideStep
  PROVE  /\ UNCHANGED <<asked, jail, words, pc, turn, action>>
         /\ UNCHANGED <<peak, execution_result, blamed, report>>
         /\ proc' \in Process
         /\ Killed(proc') => Killed(proc)
         /\ proc.state \in {"zombie", "reaped"} => proc' = proc
         /\ phase' \in {"preexec", "program", "failed"} /\ (phase' # "program" => phase # "program")
         /\ held' \in BOOLEAN
<1> USE DEF Outside, settingVars, loopVars, resultVars
<1>t. proc \in Process /\ phase \in {"preexec", "program", "failed"} /\ held \in BOOLEAN
  BY DEF TypeOK
<1>s. {"exit0", "exit1", "sig11"} \subseteq ExitReason
      /\ {"run", "zombie", "dying", "exitstop"} \subseteq ProcState
  BY DEF ExitReason, ProcState
<1>1. CASE KernelStep
  <2>0. UNCHANGED <<asked, jail, words, pc, turn, action, peak, execution_result, blamed, report>>
        /\ UNCHANGED <<phase, held, used>>
    BY <1>1 DEF KernelStep
  <2>1. ASSUME NEW state \in {"dying", "exitstop"}, proc.state = "run",
               "SIGKILL" \in proc.pending, proc' = Die(proc, state)
        PROVE  proc' \in Process /\ Killed(proc)
    BY <2>1, <1>t, <1>s, ProcTypes DEF Killed
  <2>2. ASSUME proc.state = "dying", proc' = SetState(proc, "zombie")
        PROVE  proc' \in Process /\ (Killed(proc') => Killed(proc))
    BY <2>2, <1>t, <1>s, ProcTypes, ProcKilled
  <2>3. \/ \E state \in {"dying", "exitstop"} :
             proc.state = "run" /\ "SIGKILL" \in proc.pending /\ proc' = Die(proc, state)
        \/ proc.state = "dying" /\ proc' = SetState(proc, "zombie")
    BY <1>1 DEF KernelStep
  <2> QED
    BY <2>0, <2>1, <2>2, <2>3, <1>t
<1>2. CASE Exec
  BY <1>2, <1>t, ProcTypes, ProcKilled DEF Exec
<1>3. CASE ExecFails
  BY <1>3, <1>t, <1>s, ProcTypes, ProcKilled DEF ExecFails
<1>4. CASE ProgramEnds
  <2>1. UNCHANGED <<asked, jail, words, pc, turn, action, peak, execution_result, blamed, report>>
        /\ UNCHANGED <<phase, held, used>> /\ proc.state = "run"
    BY <1>4 DEF ProgramEnds
  <2>2. proc' = Stop(proc) \/ \E code \in {"exit0", "exit1", "sig11"} : proc' = BeginExit(proc, code)
    BY <1>4 DEF ProgramEnds
  <2>3. ASSUME NEW code \in {"exit0", "exit1", "sig11"}, proc' = BeginExit(proc, code)
        PROVE  proc' \in Process /\ (Killed(proc') => Killed(proc))
    BY <2>3, <1>t, <1>s, ProcTypes, ProcKilled
  <2>4. ASSUME proc' = Stop(proc)
        PROVE  proc' \in Process /\ (Killed(proc') => Killed(proc))
    BY <2>4, <1>t, ProcTypes, ProcKilled
  <2> QED
    BY <2>1, <2>2, <2>3, <2>4, <1>t
<1>5. CASE ProgramContinues
  BY <1>5, <1>t, <1>s, ProcTypes, ProcKilled DEF ProgramContinues
<1>6. CASE Released
  BY <1>6, <1>t DEF Released
<1>7. CASE \E q \in Quantity : Spend(q)
  BY <1>7, <1>t DEF Spend
<1> QED
  BY <1>1, <1>2, <1>3, <1>4, <1>5, <1>6, <1>7 DEF OutsideStep

LEMMA OutsideUsed == ASSUME TypeOK, OutsideStep PROVE Grows
<1>t. used \in [Quantity -> Nat] /\ \A q \in Quantity : Unit[q] \in Nat
  BY SuperviseAssumption DEF TypeOK
<1>1. CASE Exec
  <2>1. /\ proc.state = "run" /\ phase = "preexec"
        /\ used' = [used EXCEPT !["memory"] = Unit["memory"]]
    BY <1>1 DEF Exec
  <2> QED
    BY <2>1, <1>t DEF Grows, Quantity
<1>2. ASSUME NEW q \in Quantity, Spend(q) PROVE Grows
  <2>1. /\ used' = [used EXCEPT ![q] = used[q] + Unit[q]]
        /\ q # "real" => proc.state = "run"
    BY <1>2 DEF Spend
  <2> QED
    BY <2>1, <1>t DEF Grows
<1>3. CASE KernelStep \/ ExecFails \/ ProgramEnds \/ ProgramContinues \/ Released
  <2>1. used' = used
    BY <1>3 DEF KernelStep, ExecFails, ProgramEnds, ProgramContinues, Released
  <2> QED
    BY <2>1, <1>t DEF Grows
<1> QED
  BY <1>1, <1>2, <1>3 DEF OutsideStep

-----------------------------------------------------------------------------
(* The steps of run that take a sample.                                    *)

\* A listener in turn blames limits it enforces.
LEMMA TurnFacts ==
  ASSUME TypeOK, turn \in DOMAIN listeners
  PROVE  /\ turn \in 1..Len(listeners) /\ turn + 1 \in 1..Len(listeners) + 1
         /\ listeners[turn] \in Listener
         /\ LimitsOf(listeners[turn]) \cap DOMAIN jail.limits \subseteq Enforced(jail)
         /\ \A sample : exceeded(listeners[turn], sample) \subseteq Limit
<1>1. /\ turn \in 1..Len(listeners) /\ turn + 1 \in 1..Len(listeners) + 1
      /\ listeners[turn] \in Listener
  BY ListenersHere
<1>2. listeners[turn] \in Range(Listeners(jail))
  BY DEF Range, listeners
<1>3. ASSUME NEW l \in Range(Listeners(jail)), NEW kind \in LimitsOf(l) \cap DOMAIN jail.limits
      PROVE  kind \in Enforced(jail)
  BY DEF Enforced
<1>4. ASSUME NEW sample PROVE exceeded(listeners[turn], sample) \subseteq Limit
  <2>1. exceeded(listeners[turn], sample) \subseteq DOMAIN jail.limits
    BY DEF exceeded
  <2> QED
    BY <2>1 DEF TypeOK
<1> QED
  BY <1>1, <1>2, <1>3, <1>4

\* The peak grows with the program's memory, and only with that.
LEMMA PeakGrows ==
  ASSUME TypeOK, NEW p \in peak_memory
  PROVE  p \in 0..used["memory"] /\ peak <= p /\ (phase # "program" => p = peak)
<1>1. peak \in 0..used["memory"] /\ used["memory"] \in Nat
  BY DEF TypeOK, Quantity
<1>2. CASE was_exec_called
  <2>1. phase = "program"
    BY <1>2 DEF was_exec_called
  <2>2. \A size \in get_peak_memory_usage : size \in 0..used["memory"]
    BY <1>1, <2>1 DEF get_peak_memory_usage
  <2>3. PICK size \in get_peak_memory_usage : p = Larger(peak, size)
    BY <1>2 DEF peak_memory
  <2> QED
    BY <1>1, <2>1, <2>2, <2>3 DEF Larger
<1>3. CASE ~was_exec_called
  BY <1>1, <1>3 DEF peak_memory
<1> QED
  BY <1>2, <1>3

\* on_wakeup of one listener.
LEMMA Wakeup ==
  ASSUME TypeOK, OnWakeup
  PROVE  \E sample : 
           /\ Judge(listeners[turn], sample)
           /\ action' = combine(action, IF exceeded(listeners[turn], sample) = {}
                                        THEN "Continue" ELSE "Kill")
           /\ peak' \in 0..used["memory"] /\ peak <= peak' /\ (phase # "program" => peak' = peak)
           /\ \A kind \in LimitsOf(listeners[turn]) :
                Exact(kind) => sample[kind] = Usage(kind)'
           /\ \A kind \in LimitsOf(listeners[turn]) : sample[kind] \in Nat
<1> DEFINE l == listeners[turn]
<1>0. turn \in DOMAIN listeners /\ UNCHANGED used
  BY DEF OnWakeup
<1>1. l \in Listener
  BY <1>0, TurnFacts
<1>2. PICK sample \in Sample(l, peak_memory) :
        /\ Judge(l, sample)
        /\ action' = combine(action, IF exceeded(l, sample) = {} THEN "Continue" ELSE "Kill")
        /\ peak' = IF l = "MEMORY_MEASUREMENT" THEN sample.memory ELSE peak
  BY DEF OnWakeup
<1>3. peak \in 0..used["memory"] /\ used["memory"] \in Nat /\ used \in [Quantity -> Nat]
  BY DEF TypeOK, Quantity
<1>4. peak_memory \in SUBSET Nat
  BY <1>3, PeakGrows
<1>5. l = "MEMORY_MEASUREMENT" => sample.memory \in peak_memory
  BY DEF Sample
<1>6. peak' \in 0..used["memory"] /\ peak <= peak' /\ (phase # "program" => peak' = peak)
  BY <1>2, <1>3, <1>5, PeakGrows
<1> HIDE DEF l
<1>7. ASSUME NEW kind \in LimitsOf(l)
      PROVE  sample[kind] \in Nat /\ (Exact(kind) => sample[kind] = Usage(kind)')
  <2>1. /\ kind \in Limit /\ sample[kind] \in Nat
        /\ kind # "memory" /\ Exact(kind) => sample[kind] = Usage(kind)
    BY <1>1, <1>4, SampleFacts
  <2>2. CASE kind = "memory"
    <3>1. l = "MEMORY_MEASUREMENT"
      BY <1>1, <1>7, <2>2 DEF LimitsOf, Listener, TimeLimit
    <3>2. Usage(kind)' = peak'
      BY <2>2 DEF Usage
    <3> QED
      BY <2>1, <2>2, <3>1, <3>2, <1>2
  <2>3. CASE kind # "memory"
    <3>1. Usage(kind)' = Usage(kind)
      BY <1>0, <2>1, <2>3 DEF Usage, Limit, TimeLimit
    <3> QED
      BY <2>1, <2>3, <3>1
  <2> QED
    BY <2>2, <2>3
<1> QED
  BY <1>2, <1>6, <1>7 DEF l

\* on_post_execute of one listener: the listener's final sample is what it
\* reports, or run panics.
LEMMA PostExecute ==
  ASSUME TypeOK, OnPostExecute
  PROVE  \E sample :
           /\ Judge(listeners[turn], sample)
           /\ \/ pc' = "panicked" /\ UNCHANGED <<turn, report>>
              \/ /\ report' = Filled(Measurements(listeners[turn], sample))
                 /\ turn' = turn + 1 /\ UNCHANGED pc
           /\ sample \in Sample(listeners[turn], {peak})
           /\ \A kind \in LimitsOf(listeners[turn]) : Exact(kind) => sample[kind] = Usage(kind)
           /\ \A kind \in LimitsOf(listeners[turn]) : sample[kind] \in Nat
<1> DEFINE l == listeners[turn]
<1>0. turn \in DOMAIN listeners
  BY DEF OnPostExecute
<1>1. l \in Listener
  BY <1>0, TurnFacts
<1>2. PICK sample \in Sample(l, {peak}) :
        /\ Judge(l, sample)
        /\ \/ pc' = "panicked" /\ UNCHANGED <<turn, report>>
           \/ /\ report' = Filled(Measurements(l, sample))
              /\ turn' = turn + 1 /\ UNCHANGED pc
  BY DEF OnPostExecute
<1>3. {peak} \in SUBSET Nat
  BY DEF TypeOK, Quantity
<1> HIDE DEF l
<1>4. ASSUME NEW kind \in LimitsOf(l)
      PROVE  sample[kind] \in Nat /\ (Exact(kind) => sample[kind] = Usage(kind))
  <2>1. /\ kind \in Limit /\ sample[kind] \in Nat
        /\ kind = "memory" => sample[kind] = peak
        /\ kind # "memory" /\ Exact(kind) => sample[kind] = Usage(kind)
    BY <1>1, <1>3, SampleFacts
  <2>2. kind = "memory" => Usage(kind) = peak
    BY DEF Usage
  <2> QED
    BY <2>1, <2>2
<1> QED
  BY <1>2, <1>4 DEF l

\* What each listener enters into the result, and what it leaves there.
LEMMA ReportFacts ==
  ASSUME TypeOK, NEW l \in Listener, NEW sample \in Sample(l, {peak}),
         report' = Filled(Measurements(l, sample))
  PROVE  /\ report' \in [Measurement -> Nat \cup {None}]
         /\ l = "PERF" =>
              /\ report'.instructions_used = sample.instruction_count
              /\ sample.instruction_count = used["instructions"]
              /\ report'.measured_time = measured_time(used["instructions"])
         /\ l = "TIME_MEASUREMENT" =>
              /\ report'.real_time = sample.real_time
              /\ report'.user_time = sample.user_time
              /\ report'.system_time = sample.system_time
              /\ sample \in get_time_usage
         /\ l = "MEMORY_MEASUREMENT" => report'.memory_usage_kibibytes = peak /\ sample.memory = peak
         /\ l # "PERF" =>
              /\ report'.instructions_used = report.instructions_used
              /\ report'.measured_time = report.measured_time
         /\ l # "TIME_MEASUREMENT" =>
              /\ report'.real_time = report.real_time
              /\ report'.user_time = report.user_time
              /\ report'.system_time = report.system_time
         /\ l # "MEMORY_MEASUREMENT" =>
              report'.memory_usage_kibibytes = report.memory_usage_kibibytes
<1>t. /\ report \in [Measurement -> Nat \cup {None}] /\ used \in [Quantity -> Nat]
      /\ peak \in Nat /\ "instructions" \in Quantity /\ "real" \in Quantity
  BY DEF TypeOK, Quantity
<1>1. CASE l = "PERF"
  <2>1. sample.instruction_count = used["instructions"]
    BY <1>1 DEF Sample
  <2>2. measured_time(used["instructions"]) \in Nat
    BY <1>t, MeasuredTimeType
  <2> DEFINE n == used["instructions"]
             m == measured_time(n)
  <2>3. Measurements(l, sample) = [instructions_used |-> n, measured_time |-> m]
    BY <1>1, <2>1 DEF Measurements
  <2>4. n \in Nat /\ m \in Nat
    BY <1>t, <2>2
  <2> HIDE DEF n, m
  <2>5. report' = [k \in Measurement |-> IF k = "instructions_used" THEN n
                     ELSE IF k = "measured_time" THEN m ELSE report[k]]
    BY <2>3 DEF Filled
  <2>6. report' \in [Measurement -> Nat \cup {None}]
    BY <2>4, <2>5, <1>t
  <2>7. /\ report'.instructions_used = n /\ report'.measured_time = m
        /\ report'.real_time = report.real_time /\ report'.user_time = report.user_time
        /\ report'.system_time = report.system_time
        /\ report'.memory_usage_kibibytes = report.memory_usage_kibibytes
    BY <2>5 DEF Measurement
  <2> QED
    BY <1>1, <2>1, <2>6, <2>7 DEF n, m
<1>2. CASE l = "TIME_MEASUREMENT"
  <2>1. sample \in get_time_usage
    BY <1>2 DEF Sample
  <2> DEFINE r == sample.real_time
             u == sample.user_time
             s == sample.system_time
  <2>2. r \in Nat /\ u \in Nat /\ s \in Nat
    BY <2>1, <1>t, TimeSample
  <2>3. Measurements(l, sample) = [real_time |-> r, user_time |-> u, system_time |-> s]
    BY <1>2 DEF Measurements
  <2> HIDE DEF r, u, s
  <2>4. report' = [k \in Measurement |-> IF k = "real_time" THEN r ELSE IF k = "user_time" THEN u
                     ELSE IF k = "system_time" THEN s ELSE report[k]]
    BY <2>3 DEF Filled
  <2>5. report' \in [Measurement -> Nat \cup {None}]
    BY <2>2, <2>4, <1>t
  <2>6. /\ report'.instructions_used = report.instructions_used
        /\ report'.measured_time = report.measured_time
        /\ report'.real_time = r /\ report'.user_time = u /\ report'.system_time = s
        /\ report'.memory_usage_kibibytes = report.memory_usage_kibibytes
    BY <2>4 DEF Measurement
  <2> QED
    BY <1>2, <2>1, <2>5, <2>6 DEF r, u, s
<1>3. CASE l = "MEMORY_MEASUREMENT"
  <2>1. sample.memory = peak
    BY <1>3 DEF Sample
  <2>2. Measurements(l, sample) = [memory_usage_kibibytes |-> peak]
    BY <1>3, <2>1 DEF Measurements
  <2>3. report' = [k \in Measurement |-> IF k = "memory_usage_kibibytes" THEN peak ELSE report[k]]
    BY <2>2 DEF Filled
  <2>4. report' \in [Measurement -> Nat \cup {None}]
    BY <2>3, <1>t
  <2> QED
    BY <1>3, <2>1, <2>3, <2>4 DEF Measurement
<1>4. CASE l = "PTRACE"
  <2>1. Measurements(l, sample) = <<>>
    BY <1>4 DEF Measurements
  <2>2. report' = [k \in Measurement |-> report[k]]
    BY <2>1 DEF Filled
  <2>3. report' = report
    BY <2>2, <1>t
  <2> QED
    BY <1>4, <2>3, <1>t
<1> QED
  BY <1>1, <1>2, <1>3, <1>4 DEF Listener

-----------------------------------------------------------------------------
(* Each step of run keeps each part of the invariant.                      *)

\* The settings are fixed, and what is defined from them alone.
LEMMA Fixed ==
  ASSUME UNCHANGED <<asked, jail, words>>
  PROVE  /\ listeners' = listeners /\ Enforced(jail)' = Enforced(jail) /\ OneWord' = OneWord
         /\ \A kind : Exact(kind)' = Exact(kind)
BY DEF listeners, OneWord, Exact

LEMMA RunStepTypes == TypeOK /\ RunStep => TypeOK'
<1> SUFFICES ASSUME TypeOK, RunStep PROVE TypeOK'
  OBVIOUS
<1> USE DEF settingVars, resultVars
<1>f. UNCHANGED <<asked, jail, words>>
  BY DEF RunStep, OnWakeup, AllAwake, Waitid, WaitidInterrupted, OnPostExecute, Finish
<1>l. listeners' = listeners
  BY <1>f, Fixed
<1>t. /\ turn \in 1..Len(listeners) + 1 /\ Len(listeners) \in Nat /\ proc \in Process
      /\ execution_result \in ExecutionResults /\ peak \in Nat
  BY ListenersHere DEF TypeOK, Quantity
<1>1. CASE OnWakeup
  <2>1. /\ turn \in DOMAIN listeners /\ turn' = turn + 1
        /\ UNCHANGED <<pc, proc, phase, held, used, report>>
    BY <1>1 DEF OnWakeup
  <2>2. PICK sample :
          /\ Judge(listeners[turn], sample)
          /\ action' = combine(action, IF exceeded(listeners[turn], sample) = {}
                                       THEN "Continue" ELSE "Kill")
          /\ peak' \in 0..used["memory"]
    BY <1>1, Wakeup
  <2>3. action' \in {"Continue", "Kill"}
    BY <2>2 DEF combine
  <2>4. /\ execution_result' \in ExecutionResults /\ blamed' \in Limit \cup {"none"}
        /\ (blamed' = "none") = (execution_result'.exit_status \in {"OK", "RE"})
    BY <2>1, <2>2, TurnFacts, JudgeFacts
  <2>5. turn' \in 1..Len(listeners) + 1
    BY <2>1, TurnFacts
  <2> QED
    BY <2>1, <2>2, <2>3, <2>4, <2>5, <1>f, <1>l DEF TypeOK
<1>2. CASE AllAwake
  <2>1. /\ proc' \in Process
    BY <1>2, <1>t, ProcTypes DEF AllAwake
  <2> QED
    BY <1>2, <2>1, <1>f, <1>l, <1>t DEF AllAwake, TypeOK, Loop
<1>3. CASE Waitid
  <2>1. proc' \in Process
    BY <1>3, <1>t, ProcTypes DEF Waitid
  <2>2. pc' \in Loop \cup {"post_execute", "done", "failed", "panicked"}
    BY <1>3 DEF Waitid, Loop
  <2>3. \/ execution_result' = execution_result
        \/ \E reason \in ExitReason : execution_result' = SetExitReason(execution_result, reason)
    BY <1>3 DEF Waitid
  <2>4. /\ execution_result' \in ExecutionResults
        /\ (execution_result'.exit_status \in {"OK", "RE"})
             = (execution_result.exit_status \in {"OK", "RE"})
    BY <2>3, <1>t, ReasonFacts
  <2> QED
    BY <1>3, <2>1, <2>2, <2>4, <1>f, <1>l DEF Waitid, TypeOK
<1>4. CASE WaitidInterrupted
  BY <1>4, <1>f, <1>l DEF WaitidInterrupted, TypeOK, Loop
<1>5. CASE OnPostExecute
  <2>1. /\ turn \in DOMAIN listeners /\ pc = "post_execute"
        /\ UNCHANGED <<action, proc, phase, held, used, peak>>
    BY <1>5 DEF OnPostExecute
  <2>2. PICK sample :
          /\ Judge(listeners[turn], sample)
          /\ \/ pc' = "panicked" /\ UNCHANGED <<turn, report>>
             \/ /\ report' = Filled(Measurements(listeners[turn], sample))
                /\ turn' = turn + 1 /\ UNCHANGED pc
          /\ sample \in Sample(listeners[turn], {peak})
    BY <1>5, PostExecute
  <2>3. report' \in [Measurement -> Nat \cup {None}]
    <3>1. CASE report' = report
      BY <3>1 DEF TypeOK
    <3>2. CASE report' = Filled(Measurements(listeners[turn], sample))
      BY <2>1, <2>2, <3>2, TurnFacts, ReportFacts
    <3> QED
      BY <2>2, <3>1, <3>2
  <2>4. /\ execution_result' \in ExecutionResults /\ blamed' \in Limit \cup {"none"}
        /\ (blamed' = "none") = (execution_result'.exit_status \in {"OK", "RE"})
    BY <2>1, <2>2, TurnFacts, JudgeFacts
  <2>5. turn' \in 1..Len(listeners) + 1 /\ pc' \in {"panicked", "post_execute"}
    BY <2>1, <2>2, <1>t, TurnFacts
  <2> QED
    BY <2>1, <2>3, <2>4, <2>5, <1>f, <1>l DEF TypeOK
<1>6. CASE Finish
  <2>1. proc' \in Process
    BY <1>6, <1>t, ProcTypes DEF Finish
  <2> QED
    BY <1>6, <2>1, <1>f, <1>l DEF Finish, TypeOK
<1> QED
  BY <1>1, <1>2, <1>3, <1>4, <1>5, <1>6 DEF RunStep

LEMMA RunStepPlace == TypeOK /\ Place /\ RunStep => Place'
<1> SUFFICES ASSUME TypeOK, Place, RunStep PROVE Place'
  OBVIOUS
<1> USE DEF settingVars, resultVars
<1>f. UNCHANGED <<asked, jail, words>>
  BY DEF RunStep, OnWakeup, AllAwake, Waitid, WaitidInterrupted, OnPostExecute, Finish
<1>l. listeners' = listeners
  BY <1>f, Fixed
<1>t. proc \in Process /\ execution_result \in ExecutionResults
  BY DEF TypeOK
<1>1. CASE OnWakeup
  <2>1. turn \in DOMAIN listeners /\ UNCHANGED <<pc, proc, phase>> /\ pc = "wakeup"
    BY <1>1 DEF OnWakeup
  <2>2. PICK sample : Judge(listeners[turn], sample) /\ (phase # "program" => peak' = peak)
    BY <1>1, Wakeup
  <2>3. execution_result.exit_status # "RE" => execution_result'.exit_status # "RE"
    BY <2>1, <2>2, TurnFacts, JudgeFacts
  <2> QED
    BY <2>1, <2>2, <2>3 DEF Place, Loop
<1>2. CASE AllAwake
  BY <1>2 DEF AllAwake, Place, Loop
<1>3. CASE Waitid
  <2>1. pc = "waitid" /\ UNCHANGED <<turn, phase, peak>>
    BY <1>3 DEF Waitid
  <2>2. \/ pc' = "failed"
        \/ pc' = "wakeup" /\ execution_result' = execution_result
        \/ pc' = "post_execute" /\ proc' = proc /\ WaitStatus(proc) \in ExitReason
    BY <1>3 DEF Waitid
  <2>3. WaitStatus(proc) \in ExitReason => proc.state = "zombie"
    BY <1>t DEF WaitStatus, ExitReason
  <2> QED
    BY <2>1, <2>2, <2>3 DEF Place, Loop
<1>4. CASE WaitidInterrupted
  BY <1>4 DEF WaitidInterrupted, Place, Loop
<1>5. CASE OnPostExecute
  <2>1. /\ turn \in DOMAIN listeners /\ pc = "post_execute" /\ UNCHANGED <<proc, phase, peak>>
        /\ pc' \in {"panicked", "post_execute"}
    BY <1>5 DEF OnPostExecute
  <2> QED
    BY <2>1 DEF Place, Loop
<1>6. CASE Finish
  <2>1. /\ pc = "post_execute" /\ pc' = "done" /\ turn = Len(listeners) + 1
        /\ proc' = Reap(proc) /\ UNCHANGED <<turn, phase, peak>>
    BY <1>6 DEF Finish
  <2>2. proc'.state = "reaped"
    BY <2>1, <1>t, ProcKilled DEF Place
  <2> QED
    BY <2>1, <2>2, <1>l DEF Place, Loop
<1> QED
  BY <1>1, <1>2, <1>3, <1>4, <1>5, <1>6 DEF RunStep

LEMMA RunStepVerdict == TypeOK /\ Place /\ Verdict /\ RunStep => Verdict'
<1> SUFFICES ASSUME TypeOK, Place, Verdict, RunStep PROVE Verdict'
  OBVIOUS
<1> USE DEF settingVars, resultVars
<1>f. UNCHANGED <<asked, jail, words, used>>
  BY DEF RunStep, OnWakeup, AllAwake, Waitid, WaitidInterrupted, OnPostExecute, Finish
<1>l. /\ listeners' = listeners /\ Enforced(jail)' = Enforced(jail)
      /\ \A kind : Exact(kind)' = Exact(kind)
  BY <1>f, Fixed
<1>w. OneWord' = OneWord
  BY <1>f, Fixed
<1>t. /\ proc \in Process /\ execution_result \in ExecutionResults /\ peak \in Nat
      /\ \A kind \in DOMAIN jail.limits : jail.limits[kind] \in Int
      /\ blamed \in Limit \cup {"none"}
  BY DEF TypeOK, Quantity
<1>e. Enforced(jail) \subseteq DOMAIN jail.limits
  BY DEF Enforced
<1>1. CASE OnWakeup
  <2>1. turn \in DOMAIN listeners /\ UNCHANGED proc /\ pc = "wakeup"
    BY <1>1 DEF OnWakeup
  <2>2. PICK sample :
          /\ Judge(listeners[turn], sample)
          /\ action' = combine(action, IF exceeded(listeners[turn], sample) = {}
                                       THEN "Continue" ELSE "Kill")
          /\ peak' \in 0..used["memory"] /\ peak <= peak'
          /\ \A kind \in LimitsOf(listeners[turn]) : Exact(kind) => sample[kind] = Usage(kind)'
    BY <1>1, Wakeup
  <2> DEFINE kinds == exceeded(listeners[turn], sample)
  <2>3. /\ execution_result'.exit_reason = execution_result.exit_reason
        /\ blamed' # blamed => blamed = "none" /\ blamed' \in kinds
        /\ kinds # {} /\ execution_result.exit_status # "RE" => blamed' # "none"
    BY <2>1, <2>2, TurnFacts, JudgeFacts
  <2>4. kinds # {} => blamed' # "none"
    BY <2>1, <2>3 DEF Place, Loop
  <2>5. blamed # "none" => blamed' = blamed
    BY <2>3
  <2>6. action' = "Kill" => action = "Kill" \/ kinds # {}
    BY <2>2 DEF combine
  <2>7. \A kind \in kinds : /\ kind \in LimitsOf(listeners[turn]) /\ kind \in DOMAIN jail.limits
                            /\ sample[kind] > jail.limits[kind] /\ kind \in Enforced(jail)
    BY <2>1, TurnFacts DEF exceeded
  <2> HIDE DEF kinds
  <2>8. blamed' # "none" => blamed' \in Enforced(jail)
    BY <2>3, <2>7 DEF Verdict
  <2>9. blamed' # "none" /\ Exact(blamed)' => Usage(blamed)' > jail.limits[blamed']
    <3>1. CASE blamed' # blamed
      <4>1. PICK k \in kinds : k = blamed'
        BY <3>1, <2>3
      <4>2. Usage(k)' = Usage(blamed)'
        BY <4>1 DEF Usage
      <4>3. Exact(k) <=> Exact(blamed)'
        BY <4>1, <1>w DEF Exact
      <4> QED
        BY <4>1, <4>2, <4>3, <2>2, <2>7
    <3>2. CASE blamed' = blamed
      <4> SUFFICES ASSUME blamed # "none", Exact(blamed)
                   PROVE  Usage(blamed)' > jail.limits[blamed]
        BY <3>2, <1>w DEF Exact
      <4>1. Usage(blamed) > jail.limits[blamed] /\ jail.limits[blamed] \in Int
        BY <1>t, <1>e DEF Verdict
      <4>2. Usage(blamed)' = Usage(blamed) \/ (Usage(blamed) = peak /\ Usage(blamed)' = peak')
        BY <1>f, <1>t, <3>2 DEF Usage, Limit, TimeLimit
      <4>3. peak' \in Nat /\ peak <= peak'
        BY <2>2, <1>t
      <4> QED
        BY <4>1, <4>2, <4>3, <1>t
    <3> QED
      BY <3>1, <3>2
  <2> QED
    BY <2>1, <2>3, <2>4, <2>5, <2>6, <2>8, <2>9, <1>f, <1>l DEF Verdict
<1>u. ASSUME peak' = peak, blamed' = blamed
      PROVE  /\ blamed' # "none" => blamed' \in Enforced(jail)'
             /\ blamed' # "none" /\ Exact(blamed)' => Usage(blamed)' > jail'.limits[blamed']
  <2>1. Usage(blamed)' = Usage(blamed)
    BY <1>u, <1>f DEF Usage
  <2> QED
    BY <2>1, <1>u, <1>f, <1>l DEF Verdict
<1>2. CASE AllAwake
  <2>1. /\ action' = "Continue" /\ UNCHANGED <<peak, execution_result, blamed>>
        /\ proc' = IF action = "Kill" THEN kill_pid(proc) ELSE proc
    BY <1>2 DEF AllAwake
  <2>2. Killed(proc') => blamed # "none"
    BY <2>1 DEF Verdict
  <2> QED
    BY <2>1, <2>2, <1>u DEF Verdict
<1>3. CASE Waitid
  <2>1. UNCHANGED <<action, peak, blamed>>
    BY <1>3 DEF Waitid
  <2>2. Killed(proc') => Killed(proc)
    BY <1>3, <1>t, ProcKilled DEF Waitid
  <2>3. execution_result'.exit_reason = "sig9" =>
          execution_result.exit_reason = "sig9" \/ Killed(proc)
    <3>1. CASE execution_result' = execution_result
      BY <3>1
    <3>2. ASSUME WaitStatus(proc) \in ExitReason,
                 execution_result' = SetExitReason(execution_result, WaitStatus(proc)),
                 execution_result'.exit_reason = "sig9"
          PROVE  Killed(proc)
      <4>1. WaitStatus(proc) = "sig9"
        BY <3>2, <1>t, ReasonFacts
      <4> QED
        BY <4>1 DEF WaitStatus, Killed
    <3> QED
      BY <1>3, <3>1, <3>2 DEF Waitid
  <2> QED
    BY <2>1, <2>2, <2>3, <1>u DEF Verdict
<1>4. CASE WaitidInterrupted
  <2>1. UNCHANGED <<action, proc, peak, execution_result, blamed>>
    BY <1>4 DEF WaitidInterrupted
  <2> QED
    BY <2>1, <1>u DEF Verdict
<1>5. CASE OnPostExecute
  <2>1. turn \in DOMAIN listeners /\ UNCHANGED <<action, proc, peak>>
    BY <1>5 DEF OnPostExecute
  <2>2. PICK sample :
          /\ Judge(listeners[turn], sample)
          /\ \A kind \in LimitsOf(listeners[turn]) : Exact(kind) => sample[kind] = Usage(kind)
    BY <1>5, PostExecute
  <2> DEFINE kinds == exceeded(listeners[turn], sample)
  <2>3. /\ execution_result'.exit_reason = execution_result.exit_reason
        /\ blamed' # blamed => blamed = "none" /\ blamed' \in kinds
        /\ blamed' \in Limit \cup {"none"}
    BY <2>1, <2>2, TurnFacts, JudgeFacts
  <2>4. \A kind \in kinds : /\ kind \in LimitsOf(listeners[turn]) /\ kind \in DOMAIN jail.limits
                            /\ sample[kind] > jail.limits[kind] /\ kind \in Enforced(jail)
    BY <2>1, TurnFacts DEF exceeded
  <2> HIDE DEF kinds
  <2>5. CASE blamed' = blamed
    BY <2>1, <2>3, <2>5, <1>u DEF Verdict
  <2>6. CASE blamed' # blamed
    <3>1. PICK k \in kinds : k = blamed' /\ blamed = "none"
      BY <2>3, <2>6
    <3>2. Usage(k)' = Usage(k) /\ Usage(k)' = Usage(blamed)' /\ (Exact(k) <=> Exact(blamed)')
      BY <2>1, <3>1, <1>f, <1>w DEF Usage, Exact
    <3>3. Exact(k) => Usage(k) > jail.limits[k]
      BY <2>2, <2>4
    <3>4. k \in Enforced(jail) /\ k # "none"
      BY <2>3, <2>4, <2>6, <3>1
    <3> QED
      BY <2>1, <2>3, <3>1, <3>2, <3>3, <3>4, <1>f, <1>l DEF Verdict
  <2> QED
    BY <2>5, <2>6
<1>6. CASE Finish
  <2>1. UNCHANGED <<action, peak, execution_result, blamed>> /\ proc' = Reap(proc)
    BY <1>6 DEF Finish
  <2>2. Killed(proc') => Killed(proc)
    BY <2>1, <1>t, ProcKilled
  <2> QED
    BY <2>1, <2>2, <1>u DEF Verdict
<1> QED
  BY <1>1, <1>2, <1>3, <1>4, <1>5, <1>6 DEF RunStep

\* A limit belongs to one listener.
LEMMA LimitsApart ==
  ASSUME NEW k \in Listener, NEW l \in Listener, k # l
  PROVE  LimitsOf(k) \cap LimitsOf(l) = {}
BY DEF LimitsOf, Listener, TimeLimit

\* The sample a listener compares with its limits is the one it reports, and it
\* leaves alone what the others have reported.
LEMMA ReportedNow ==
  ASSUME TypeOK, NEW l \in Listener, NEW sample \in Sample(l, {peak}),
         report' = Filled(Measurements(l, sample)), NEW kind \in LimitsOf(l)
  PROVE  Reported(kind)' = sample[kind]
<1>1. CASE l = "PERF"
  BY <1>1, ReportFacts DEF LimitsOf, Reported
<1>2. CASE l = "TIME_MEASUREMENT"
  <2>1. /\ report'.real_time = sample.real_time /\ report'.user_time = sample.user_time
        /\ report'.system_time = sample.system_time
        /\ sample.user_system_time = sample.user_time + sample.system_time
    BY <1>2, ReportFacts, TimeSample
  <2>2. kind \in TimeLimit
    BY <1>2 DEF LimitsOf
  <2> QED
    BY <2>1, <2>2 DEF TimeLimit, Reported
<1>3. CASE l = "MEMORY_MEASUREMENT"
  BY <1>3, ReportFacts DEF LimitsOf, Reported
<1>4. CASE l = "PTRACE"
  BY <1>4 DEF LimitsOf
<1> QED
  BY <1>1, <1>2, <1>3, <1>4 DEF Listener

LEMMA ReportedKept ==
  ASSUME TypeOK, NEW l \in Listener, NEW sample \in Sample(l, {peak}),
         report' = Filled(Measurements(l, sample)),
         NEW k \in Listener, k # l, NEW kind \in LimitsOf(k)
  PROVE  Reported(kind)' = Reported(kind)
<1>1. CASE k = "PERF"
  BY <1>1, ReportFacts DEF LimitsOf, Reported
<1>2. CASE k = "TIME_MEASUREMENT"
  <2>1. /\ report'.real_time = report.real_time /\ report'.user_time = report.user_time
        /\ report'.system_time = report.system_time
    BY <1>2, ReportFacts
  <2>2. kind \in TimeLimit
    BY <1>2 DEF LimitsOf
  <2> QED
    BY <2>1, <2>2 DEF TimeLimit, Reported
<1>3. CASE k = "MEMORY_MEASUREMENT"
  BY <1>3, ReportFacts DEF LimitsOf, Reported
<1>4. CASE k = "PTRACE"
  BY <1>4 DEF LimitsOf
<1> QED
  BY <1>1, <1>2, <1>3, <1>4 DEF Listener

\* A final sample: its listener joins those that have told the truth.
LEMMA PostExecuteReports ==
  ASSUME TypeOK, Place, Verdict, Reports, OnPostExecute
  PROVE  Reports'
<1> DEFINE l == listeners[turn]
<1>1. /\ turn \in DOMAIN listeners /\ pc = "post_execute"
      /\ UNCHANGED <<asked, jail, words, used, peak>>
  BY DEF OnPostExecute, settingVars
<1>2. /\ listeners' = listeners /\ OneWord' = OneWord
  BY <1>1, Fixed
<1>3. l \in Listener /\ turn \in 1..Len(listeners) /\ listeners \in Seq(Listener)
  BY <1>1, TurnFacts, ListenersHere
<1>4. PICK sample \in Sample(l, {peak}) :
        /\ Judge(l, sample)
        /\ \/ pc' = "panicked" /\ UNCHANGED <<turn, report>>
           \/ /\ report' = Filled(Measurements(l, sample))
              /\ turn' = turn + 1 /\ UNCHANGED pc
        /\ \A kind \in LimitsOf(l) : Exact(kind) => sample[kind] = Usage(kind)
        /\ \A kind \in LimitsOf(l) : sample[kind] \in Nat
  BY PostExecute
<1>5. /\ blamed' # blamed => blamed = "none" /\ blamed' \in exceeded(l, sample)
      /\ execution_result'.exit_status = "OK" =>
           execution_result.exit_status = "OK" /\ exceeded(l, sample) = {}
  BY <1>1, <1>3, <1>4, TurnFacts, JudgeFacts
<1>6. \A kind \in exceeded(l, sample) :
        kind \in LimitsOf(l) \cap DOMAIN jail.limits /\ sample[kind] > jail.limits[kind]
  BY DEF exceeded
<1>7. exceeded(l, sample) = {} =>
        \A kind \in LimitsOf(l) \cap DOMAIN jail.limits : ~(sample[kind] > jail.limits[kind])
  BY DEF exceeded
<1>8. Seen' \subseteq Seen \cup {l} \/ pc' = "panicked"
  <2> SUFFICES ASSUME turn' = turn + 1 PROVE Seen' \subseteq Seen \cup {l}
    BY <1>4
  <2>1. \A i \in 1..turn' - 1 : i \in 1..turn - 1 \/ i = turn
    BY <1>3
  <2> QED
    BY <2>1, <1>2 DEF Seen
<1>9. Seen \subseteq Listener
  BY <1>3 DEF Seen
<1> HIDE DEF l
<1> SUFFICES ASSUME pc' # "panicked", NEW k \in Seen \cup {l} PROVE Judged(k)' /\ Told(k)'
  BY <1>8 DEF Reports
<1>10. report' = Filled(Measurements(l, sample)) /\ k \in Listener
  BY <1>3, <1>4, <1>9
<1>11. Told(k)'
  <2>1. CASE k = l
    <3>1. used["real"] \in Nat
      BY DEF TypeOK, Quantity
    <3>2. CASE l = "PERF"
      BY <2>1, <3>2, <1>1, <1>10, ReportFacts DEF Told
    <3>3. CASE l = "TIME_MEASUREMENT"
      <4>1. /\ report'.real_time = used["real"]
            /\ OneWord => /\ report'.user_time = from_ticks(used["user"])
                          /\ report'.system_time = from_ticks(used["system"])
        <5>1. /\ report'.real_time = sample.real_time /\ report'.user_time = sample.user_time
              /\ report'.system_time = sample.system_time /\ sample \in get_time_usage
          BY <3>3, <1>3, <1>10, ReportFacts
        <5> QED
          BY <5>1, TimeSample
      <4>2. report'.real_time <= used'["real"]
        BY <3>1, <4>1, <1>1
      <4> QED
        BY <2>1, <3>3, <4>1, <4>2, <1>1, <1>2 DEF Told
    <3>4. CASE l = "MEMORY_MEASUREMENT"
      BY <2>1, <3>4, <1>1, <1>10, ReportFacts DEF Told
    <3>5. CASE l = "PTRACE"
      BY <2>1, <3>5 DEF Told
    <3> QED
      BY <1>3, <3>2, <3>3, <3>4, <3>5 DEF Listener
  <2>2. CASE k # l
    <3>1. Told(k)
      BY <2>2, <1>1 DEF Reports
    <3>2. CASE k = "PERF"
      BY <2>2, <3>1, <3>2, <1>1, <1>3, <1>10, ReportFacts DEF Told
    <3>3. CASE k = "TIME_MEASUREMENT"
      <4>1. /\ report'.real_time = report.real_time /\ report'.user_time = report.user_time
            /\ report'.system_time = report.system_time
        BY <2>2, <3>3, <1>3, <1>10, ReportFacts
      <4> QED
        BY <3>1, <3>3, <4>1, <1>1, <1>2 DEF Told
    <3>4. CASE k = "MEMORY_MEASUREMENT"
      BY <2>2, <3>1, <3>4, <1>1, <1>3, <1>10, ReportFacts DEF Told
    <3>5. CASE k = "PTRACE"
      BY <3>5 DEF Told
    <3> QED
      BY <1>10, <3>2, <3>3, <3>4, <3>5 DEF Listener
  <2> QED
    BY <2>1, <2>2
<1>12. ASSUME execution_result'.exit_status = "OK", NEW kind \in LimitsOf(k) \cap DOMAIN jail.limits
       PROVE  Reported(kind)' <= jail.limits[kind]
  <2>1. jail.limits[kind] \in Int
    BY DEF TypeOK
  <2>2. CASE k = l
    <3>1. Reported(kind)' = sample[kind] /\ sample[kind] \in Nat
      BY <2>2, <1>3, <1>4, <1>10, ReportedNow
    <3> QED
      BY <2>1, <2>2, <3>1, <1>5, <1>7, <1>12
  <2>3. CASE k # l
    <3>1. Reported(kind)' = Reported(kind)
      BY <2>3, <1>3, <1>10, ReportedKept
    <3>2. Reported(kind) <= jail.limits[kind]
      BY <2>3, <1>1, <1>5, <1>12 DEF Reports, Judged
    <3> QED
      BY <3>1, <3>2
  <2> QED
    BY <2>2, <2>3
<1>13. ASSUME blamed' \in LimitsOf(k), Exact(blamed)'
       PROVE  Reported(blamed)' > jail.limits[blamed']
  <2>1. PICK kind \in LimitsOf(k) : kind = blamed'
    BY <1>13
  <2>2. Reported(kind)' = Reported(blamed)' /\ Exact(kind)
    BY <2>1, <1>2, <1>13 DEF Reported, Exact
  <2>3. CASE k = l
    <3>1. Reported(kind)' = sample[kind] /\ sample[kind] = Usage(kind)
      BY <2>2, <2>3, <1>3, <1>4, <1>10, ReportedNow
    <3>2. sample[kind] > jail.limits[kind]
      <4>1. CASE blamed' # blamed
        BY <4>1, <2>1, <1>5, <1>6
      <4>2. CASE blamed' = blamed
        <5>1. blamed # "none"
          BY <4>2, <2>1, <1>10 DEF LimitsOf, Listener, TimeLimit
        <5> QED
          BY <4>2, <5>1, <2>1, <2>2, <3>1 DEF Verdict
      <4> QED
        BY <4>1, <4>2
    <3> QED
      BY <3>1, <3>2, <2>1, <2>2
  <2>4. CASE k # l
    <3>1. Reported(kind)' = Reported(kind)
      BY <2>4, <1>3, <1>10, ReportedKept
    <3>2. blamed' = blamed
      BY <2>1, <2>4, <1>3, <1>5, <1>6, <1>10, LimitsApart
    <3>3. Reported(blamed) > jail.limits[blamed]
      BY <2>1, <2>2, <2>4, <3>2, <1>1 DEF Reports, Judged
    <3> QED
      BY <2>1, <2>2, <3>1, <3>2, <3>3
  <2> QED
    BY <2>3, <2>4
<1> QED
  BY <1>1, <1>11, <1>12, <1>13 DEF Judged

\* Before its first final sample run has reported nothing, and once it is done
\* nothing changes any more.
LEMMA RunStepReports == TypeOK /\ Place /\ Verdict /\ Reports /\ RunStep => Reports'
<1> SUFFICES ASSUME TypeOK, Place, Verdict, Reports, RunStep PROVE Reports'
  OBVIOUS
<1>1. CASE OnWakeup
  BY <1>1 DEF OnWakeup, Reports
<1>2. CASE AllAwake
  BY <1>2 DEF AllAwake, Reports
<1>3. CASE Waitid
  <2>1. turn' = 1 /\ pc' # "done"
    BY <1>3 DEF Waitid, Place
  <2>2. Seen' = {}
    BY <2>1 DEF Seen
  <2> QED
    BY <2>1, <2>2 DEF Reports
<1>4. CASE WaitidInterrupted
  BY <1>4 DEF WaitidInterrupted, Reports
<1>5. CASE OnPostExecute
  BY <1>5, PostExecuteReports
<1>6. CASE Finish
  <2>1. /\ pc = "post_execute" /\ UNCHANGED <<asked, jail, words>>
        /\ UNCHANGED <<turn, used, peak, execution_result, blamed, report>>
    BY <1>6 DEF Finish, settingVars, resultVars
  <2>2. listeners' = listeners /\ OneWord' = OneWord
    BY <2>1, Fixed
  <2>3. Seen' = Seen
    BY <2>1, <2>2 DEF Seen
  <2>4. ASSUME NEW l \in Seen PROVE Judged(l)' /\ Told(l)'
    <3>1. Judged(l) /\ Told(l)
      BY <2>1 DEF Reports
    <3>2. Judged(l)'
      BY <2>1, <2>2, <3>1 DEF Judged, Reported, Exact
    <3>3. Told(l)'
      BY <2>1, <2>2, <3>1 DEF Told
    <3> QED
      BY <3>2, <3>3
  <2> QED
    BY <2>3, <2>4 DEF Reports
<1> QED
  BY <1>1, <1>2, <1>3, <1>4, <1>5, <1>6 DEF RunStep

-----------------------------------------------------------------------------
(* And so does each step of the child and the kernel.                      *)

LEMMA OutsideTypes == TypeOK /\ Place /\ OutsideStep => TypeOK'
<1> SUFFICES ASSUME TypeOK, Place, OutsideStep PROVE TypeOK'
  OBVIOUS
<1>1. /\ UNCHANGED <<asked, jail, words, pc, turn, action>>
      /\ UNCHANGED <<peak, execution_result, blamed, report>>
      /\ proc' \in Process /\ held' \in BOOLEAN
      /\ phase' \in {"preexec", "program", "failed"}
  BY OutsideProc
<1>2. /\ used' \in [Quantity -> Nat] /\ "memory" \in Quantity
      /\ used'["memory"] >= used["memory"] \/ phase # "program"
  BY OutsideUsed DEF Grows, Quantity
<1>3. peak' \in 0..used'["memory"]
  <2>1. peak \in 0..used["memory"] /\ used["memory"] \in Nat /\ used'["memory"] \in Nat
    BY <1>2 DEF TypeOK
  <2>2. peak <= used'["memory"]
    BY <1>2, <2>1 DEF Place
  <2> QED
    BY <1>1, <2>1, <2>2
<1>4. listeners' = listeners
  BY <1>1, Fixed
<1> QED
  BY <1>1, <1>2, <1>3, <1>4 DEF TypeOK

LEMMA OutsidePlace == TypeOK /\ Place /\ OutsideStep => Place'
<1> SUFFICES ASSUME TypeOK, Place, OutsideStep PROVE Place'
  OBVIOUS
<1>1. /\ UNCHANGED <<asked, jail, words, pc, turn, action>>
      /\ UNCHANGED <<peak, execution_result, blamed, report>>
      /\ proc.state \in {"zombie", "reaped"} => proc' = proc
      /\ phase' # "program" => phase # "program"
  BY OutsideProc
<1>2. listeners' = listeners
  BY <1>1, Fixed
<1> QED
  BY <1>1, <1>2 DEF Place

\* A limit that is exceeded stays exceeded.
LEMMA OutsideVerdict == TypeOK /\ Verdict /\ OutsideStep => Verdict'
<1> SUFFICES ASSUME TypeOK, Verdict, OutsideStep PROVE Verdict'
  OBVIOUS
<1>1. /\ UNCHANGED <<asked, jail, words>> /\ UNCHANGED action
      /\ UNCHANGED <<peak, execution_result, blamed>>
      /\ Killed(proc') => Killed(proc)
  BY OutsideProc
<1>2. Enforced(jail)' = Enforced(jail) /\ OneWord' = OneWord
  BY <1>1, Fixed
<1>3. used \in [Quantity -> Nat] /\ used' \in [Quantity -> Nat] /\ peak \in Nat
  BY OutsideUsed DEF Grows, TypeOK, Quantity
<1>4. /\ used["real"] \in Nat /\ used'["real"] \in Nat
      /\ used["user"] \in Nat /\ used'["user"] \in Nat
      /\ used["system"] \in Nat /\ used'["system"] \in Nat
      /\ used["instructions"] \in Nat /\ used'["instructions"] \in Nat
  BY <1>3 DEF Quantity
<1>5. /\ used["real"] <= used'["real"] /\ used["user"] <= used'["user"]
      /\ used["system"] <= used'["system"] /\ used["instructions"] <= used'["instructions"]
  BY <1>4, OutsideUsed DEF Grows, Quantity
<1>6. /\ from_ticks(used["user"]) \in Nat /\ from_ticks(used'["user"]) \in Nat
      /\ from_ticks(used["user"]) <= from_ticks(used'["user"])
  BY <1>4, <1>5, Ticks
<1>7. /\ from_ticks(used["system"]) \in Nat /\ from_ticks(used'["system"]) \in Nat
      /\ from_ticks(used["system"]) <= from_ticks(used'["system"])
  BY <1>4, <1>5, Ticks
<1>8. Usage(blamed) \in Nat /\ Usage(blamed)' \in Nat /\ Usage(blamed) <= Usage(blamed)'
  <2>1. CASE blamed = "real_time"
    BY <2>1, <1>1, <1>4, <1>5 DEF Usage
  <2>2. CASE blamed = "user_time"
    BY <2>2, <1>1, <1>6 DEF Usage
  <2>3. CASE blamed = "system_time"
    BY <2>3, <1>1, <1>7 DEF Usage
  <2>4. CASE blamed = "user_system_time"
    BY <2>4, <1>1, <1>6, <1>7 DEF Usage
  <2>5. CASE blamed = "instruction_count"
    BY <2>5, <1>1, <1>4, <1>5 DEF Usage
  <2>6. CASE blamed \in {"memory", "none"}
    BY <2>6, <1>1, <1>3 DEF Usage
  <2> QED
    BY <2>1, <2>2, <2>3, <2>4, <2>5, <2>6 DEF TypeOK, Limit, TimeLimit
<1>9. blamed # "none" => jail.limits[blamed] \in Int
  BY DEF Verdict, Enforced, TypeOK
<1>10. blamed # "none" /\ Exact(blamed) => Usage(blamed)' > jail.limits[blamed]
  BY <1>8, <1>9 DEF Verdict
<1>11. Exact(blamed)' = Exact(blamed)
  BY <1>1, <1>2 DEF Exact
<1> QED
  BY <1>1, <1>2, <1>10, <1>11 DEF Verdict

\* The child is dead when the final samples are taken, so they stay true.
LEMMA OutsideReports == TypeOK /\ Place /\ Reports /\ OutsideStep => Reports'
<1> SUFFICES ASSUME TypeOK, Place, Reports, OutsideStep, pc' \in {"post_execute", "done"},
                    NEW l \in Seen'
             PROVE  Judged(l)' /\ Told(l)'
  BY DEF Reports
<1>1. /\ UNCHANGED <<asked, jail, words>> /\ UNCHANGED <<pc, turn>>
      /\ UNCHANGED <<peak, execution_result, blamed, report>>
  BY OutsideProc
<1>2. listeners' = listeners /\ OneWord' = OneWord
  BY <1>1, Fixed
<1>3. Judged(l) /\ Told(l)
  BY <1>1, <1>2 DEF Reports, Seen
<1>4. proc.state \in {"zombie", "reaped"}
  BY <1>1 DEF Place
<1>5. /\ used'["user"] = used["user"] /\ used'["system"] = used["system"]
      /\ used'["instructions"] = used["instructions"]
      /\ used'["real"] >= used["real"] /\ used'["real"] \in Nat /\ used["real"] \in Nat
  BY <1>4, OutsideUsed DEF Grows, Quantity, TypeOK
<1>6. report.real_time \in Nat \cup {None}
  BY DEF TypeOK, Measurement
<1>7. report.real_time <= used["real"] => report'.real_time <= used'["real"]
  BY <1>1, <1>5, <1>6 DEF None
<1>8. Told(l)'
  BY <1>1, <1>2, <1>3, <1>5, <1>7 DEF Told
<1>9. Judged(l)'
  BY <1>1, <1>2, <1>3 DEF Judged, Reported, Exact
<1> QED
  BY <1>8, <1>9

-----------------------------------------------------------------------------
(* The invariant.                                                          *)

\* What the builder makes of a request: only measured time is converted.
LEMMA BuildFacts ==
  ASSUME NEW r \in Requests
  PROVE  LET built == Build(r)
         IN  /\ built.features \subseteq Feature /\ DOMAIN built.limits \subseteq Limit
             /\ \A kind \in DOMAIN built.limits : built.limits[kind] \in Int
             /\ "instruction_count" \in DOMAIN r.limits =>
                  /\ r.limits["instruction_count"] \in Nat
                  /\ "PERF" \in built.features /\ "instruction_count" \in DOMAIN built.limits
                  /\ built.limits["instruction_count"]
                       = instruction_count_limit(r.limits["instruction_count"])
<1> DEFINE asks == r.limits
           count == "instruction_count"
           plain == [kind \in DOMAIN asks \ {count} |-> asks[kind]]
           asking == features(new, r.features)
           built == [asking EXCEPT !.limits = plain]
<1>1. /\ r.features \subseteq Feature /\ DOMAIN asks \subseteq Limit
      /\ \A kind \in DOMAIN asks : asks[kind] \in Nat
  BY SuperviseAssumption
<1>2. /\ DOMAIN plain = DOMAIN asks \ {count}
      /\ \A kind \in DOMAIN plain : plain[kind] \in Nat
  BY <1>1
<1>3. Build(r) = IF count \in DOMAIN asks THEN measured_time_limit(built, asks[count]) ELSE built
  BY DEF Build
<1>4. Whole(asking) /\ asking.features = r.features
  <2>1. Whole(new) /\ new.features = {}
    BY DEF new, Whole
  <2> DEFINE set == r.features
             empty == new
  <2> HIDE DEF set, empty
  <2>2. Whole(empty) /\ empty.features = {}
    BY <2>1 DEF empty
  <2>3. Whole(features(empty, set)) /\ features(empty, set).features = {} \cup set
    BY <2>2, SetFeatures
  <2> QED
    BY <2>3 DEF set, empty
<1> HIDE DEF plain, asking
<1>5. Whole(built) /\ built.limits = plain /\ built.features = r.features
  BY <1>4 DEF Whole
<1> HIDE DEF built
<1>6. CASE count \notin DOMAIN asks
  <2>1. Build(r) = built
    BY <1>3, <1>6
  <2>2. \A kind \in DOMAIN built.limits : built.limits[kind] \in Int /\ kind \in Limit
    BY <1>1, <1>2, <1>5
  <2> QED
    BY <1>1, <1>5, <1>6, <2>1, <2>2
<1>7. CASE count \in DOMAIN asks
  <2> DEFINE value == instruction_count_limit(asks[count])
             limited == limit(built, count, value)
             more == Some(plain, count, value)
  <2>1. asks[count] \in Nat /\ value \in Int
    <3>1. asks[count] \in Nat
      BY <1>1, <1>7
    <3>2. value \in i64
      BY <3>1, LimitExact
    <3> QED
      BY <3>1, <3>2, MeasuresAssumption DEF i64
  <2>2. Build(r) = features(limited, {"PERF"})
    BY <1>3, <1>7 DEF measured_time_limit
  <2> HIDE DEF value
  <2>3. /\ DOMAIN more \subseteq Limit /\ count \in DOMAIN more /\ more[count] = value
        /\ \A kind \in DOMAIN more : more[kind] \in Int
    BY <1>1, <1>2, <2>1 DEF Limit, Some
  <2>4. Whole(limited) /\ limited.limits = more /\ limited.features = r.features
    BY <1>5, SetLimits
  <2> HIDE DEF limited, more
  <2>5. Build(r).limits = more /\ Build(r).features = r.features \cup {"PERF"}
    BY <2>2, <2>4, SetFeatures
  <2> QED
    BY <1>1, <2>1, <2>3, <2>5 DEF Feature, value
<1> QED
  BY <1>6, <1>7

LEMMA InitSupInv == Init => SupInv
<1> SUFFICES ASSUME Init PROVE SupInv
  OBVIOUS
<1>1. PICK r \in Requests : asked = r.limits /\ jail = Build(r)
  BY DEF Init
<1>2. /\ jail.features \subseteq Feature /\ DOMAIN jail.limits \subseteq Limit
      /\ \A kind \in DOMAIN jail.limits : jail.limits[kind] \in Int
  BY <1>1, BuildFacts
<1>3. Config
  BY <1>1, BuildFacts DEF Config
<1>4. /\ pc = "wakeup" /\ turn = 1 /\ action = "Continue" /\ phase = "preexec"
      /\ used = [q \in Quantity |-> 0] /\ peak = 0 /\ execution_result = NewResult
      /\ blamed = "none" /\ report = [m \in Measurement |-> None]
  BY DEF Init
<1>5. words \in [{"caller", "program"} -> 1..8]
  <2>1. (IF "TIME_MEASUREMENT" \in jail.features THEN Names ELSE {1}) \subseteq 1..8
    BY SuperviseAssumption
  <2> QED
    BY <2>1 DEF Init
<1>6. proc \in Process /\ ~Killed(proc) /\ held \in BOOLEAN
  <2>1. held \in BOOLEAN
    BY DEF Init
  <2>2. PICK tracing \in {"none", "traceexit"} :
          proc = [state |-> "run", code |-> NoStatus, pending |-> {}, tracing |-> tracing]
    BY DEF Init
  <2> QED
    BY <2>1, <2>2 DEF Process, ProcState, Killed, NoStatus
<1>7. used \in [Quantity -> Nat] /\ used["memory"] = 0
  BY <1>4 DEF Quantity
<1>8. /\ execution_result \in ExecutionResults /\ execution_result.exit_status = "OK"
      /\ execution_result.exit_reason = "exit0"
  BY <1>4 DEF NewResult, ExecutionResults, ExitStatus, ExitReason
<1>9. 1 \in 1..Len(listeners) + 1
  BY ListenersHere
<1>10. report \in [Measurement -> Nat \cup {None}]
  BY <1>4
<1>11. TypeOK
  BY <1>2, <1>4, <1>5, <1>6, <1>7, <1>8, <1>9, <1>10 DEF TypeOK, Loop
<1>12. Place /\ Verdict /\ Reports
  BY <1>4, <1>6, <1>8 DEF Place, Verdict, Reports, Loop
<1> QED
  BY <1>3, <1>11, <1>12 DEF SupInv

LEMMA NextSupInv == SupInv /\ [Next]_vars => SupInv'
<1> SUFFICES ASSUME SupInv, [Next]_vars PROVE SupInv'
  OBVIOUS
<1>1. TypeOK /\ Config /\ Place /\ Verdict /\ Reports
  BY DEF SupInv
<1>2. UNCHANGED <<asked, jail>> => Config'
  BY <1>1 DEF Config
<1>3. CASE RunStep
  <2>1. UNCHANGED <<asked, jail>>
    BY <1>3 DEF RunStep, OnWakeup, AllAwake, Waitid, WaitidInterrupted, OnPostExecute, Finish,
                settingVars
  <2> QED
    BY <1>1, <1>2, <1>3, <2>1, RunStepTypes, RunStepPlace, RunStepVerdict, RunStepReports
    DEF SupInv
<1>4. CASE OutsideStep
  <2>1. UNCHANGED <<asked, jail>>
    BY <1>1, <1>4, OutsideProc
  <2> QED
    BY <1>1, <1>2, <1>4, <2>1, OutsideTypes, OutsidePlace, OutsideVerdict, OutsideReports
    DEF SupInv
<1>5. CASE UNCHANGED vars
  <2>1. /\ UNCHANGED <<asked, jail, words, pc, turn, action, proc, phase, held, used>>
        /\ UNCHANGED <<peak, execution_result, blamed, report>>
    BY <1>5 DEF vars, settingVars, loopVars, resultVars
  <2>2. listeners' = listeners /\ OneWord' = OneWord /\ Enforced(jail)' = Enforced(jail)
    BY <2>1, Fixed
  <2>3. TypeOK' /\ Place'
    BY <1>1, <2>1, <2>2 DEF TypeOK, Place
  <2>4. Verdict'
    BY <1>1, <2>1, <2>2 DEF Verdict, Usage, Exact
  <2>5. Reports'
    <3> SUFFICES ASSUME pc' \in {"post_execute", "done"}, NEW l \in Seen'
                 PROVE  Judged(l)' /\ Told(l)'
      BY DEF Reports
    <3>1. Judged(l) /\ Told(l)
      BY <1>1, <2>1, <2>2 DEF Reports, Seen
    <3>2. Judged(l)'
      BY <2>1, <2>2, <3>1 DEF Judged, Reported, Exact
    <3>3. Told(l)'
      BY <2>1, <2>2, <3>1 DEF Told
    <3> QED
      BY <3>2, <3>3
  <2> QED
    BY <1>2, <2>1, <2>3, <2>4, <2>5 DEF SupInv
<1> QED
  BY <1>3, <1>4, <1>5 DEF Next, OutsideStep

\* Settings, place, verdict and reports are always in order.
THEOREM SupInvariant == Spec => []SupInv
<1> QED
  BY InitSupInv, NextSupInv, PTL DEF Spec

-----------------------------------------------------------------------------
(* What it says of a run that is done.                                     *)

\* Every listener has reported.
LEMMA AllSeen ==
  ASSUME SupInv, pc = "done"
  PROVE  /\ \A f \in jail.features : Judged(f) /\ Told(f)
         /\ \A kind \in Enforced(jail) :
              \E l \in Seen : kind \in LimitsOf(l) /\ Judged(l) /\ Told(l)
<1>1. TypeOK /\ Place /\ Reports
  BY DEF SupInv
<1>2. turn = Len(listeners) + 1 /\ listeners \in Seq(Listener) /\ jail.features \subseteq Feature
  BY <1>1, ListenersHere DEF Place, TypeOK
<1>3. Len(listeners) \in Nat /\ DOMAIN listeners = 1..Len(listeners)
  BY <1>2
<1>4. 1..turn - 1 = 1..Len(listeners)
  BY <1>2, <1>3
<1>5. \A f \in jail.features : f \in Seen
  BY <1>2, <1>4, ListenersHere DEF Seen
<1>6. \A l \in Range(Listeners(jail)) : l \in Seen
  BY <1>3, <1>4 DEF Seen, Range, listeners
<1>7. \A l \in Seen : Judged(l) /\ Told(l)
  BY <1>1 DEF Reports
<1>8. ASSUME NEW kind \in Enforced(jail) PROVE \E l \in Seen : kind \in LimitsOf(l)
  BY <1>6 DEF Enforced
<1> QED
  BY <1>5, <1>7, <1>8

\* The fields of a running jail keep their types; the peak of memory is never more
\* than the program has used.
THEOREM SuperviseTypes == Spec => []TypeOK
<1>1. SupInv => TypeOK
  BY DEF SupInv
<1> QED
  BY <1>1, SupInvariant, PTL

\* Verdict and report of a finished run never contradict each other.
THEOREM VerdictHolds == Spec => []VerdictMatchesReport
<1>1. SupInv => VerdictMatchesReport
  <2> SUFFICES ASSUME SupInv, pc = "done", OneWord
               PROVE  /\ execution_result.exit_status = "OK" =>
                           \A kind \in Enforced(jail) : Reported(kind) <= jail.limits[kind]
                      /\ blamed # "none" =>
                           blamed \in Enforced(jail) /\ Reported(blamed) > jail.limits[blamed]
                      /\ execution_result.exit_reason = "sig9" => blamed # "none"
    BY DEF VerdictMatchesReport
  <2>1. Verdict
    BY DEF SupInv
  <2>2. ASSUME execution_result.exit_status = "OK", NEW kind \in Enforced(jail)
        PROVE  Reported(kind) <= jail.limits[kind]
    <3>1. PICK l \in Seen : kind \in LimitsOf(l) /\ Judged(l)
      BY AllSeen
    <3>2. kind \in DOMAIN jail.limits
      BY DEF Enforced
    <3> QED
      BY <2>2, <3>1, <3>2 DEF Judged
  <2>3. ASSUME blamed # "none"
        PROVE  blamed \in Enforced(jail) /\ Reported(blamed) > jail.limits[blamed]
    <3>1. blamed \in Enforced(jail)
      BY <2>1, <2>3 DEF Verdict
    <3>2. PICK l \in Seen : blamed \in LimitsOf(l) /\ Judged(l)
      BY <3>1, AllSeen
    <3> QED
      BY <3>1, <3>2 DEF Judged, Exact
  <2> QED
    BY <2>1, <2>2, <2>3 DEF Verdict
<1> QED
  BY <1>1, SupInvariant, PTL

\* What a finished run reports is what the child has used.
THEOREM ReportHolds == Spec => []ReportExact
<1>1. SupInv => ReportExact
  <2> SUFFICES ASSUME SupInv, pc = "done" PROVE ReportExact
    BY DEF ReportExact
  <2>1. \A f \in jail.features : Told(f)
    BY AllSeen
  <2>2. peak <= used["memory"]
    BY DEF SupInv, TypeOK, Quantity
  <2> QED
    BY <2>1, <2>2 DEF ReportExact, Told
<1> QED
  BY <1>1, SupInvariant, PTL

\* A limit on measured time and the measured time of the report agree up to the
\* rounding, although one is converted to instructions and the other from them.
THEOREM MeasuredTimeHolds == Spec => []MeasuredTimeAgrees
<1>1. SupInv => MeasuredTimeAgrees
  <2> DEFINE micros == asked["instruction_count"]
             n == used["instructions"]
  <2> SUFFICES ASSUME SupInv, pc = "done", "instruction_count" \in DOMAIN asked,
                      Representable(micros), Countable(n)
               PROVE  /\ execution_result.exit_status = "OK" =>
                           report.measured_time <= micros \div 1000
                      /\ blamed = "instruction_count" => report.measured_time >= micros \div 1000
    BY DEF MeasuredTimeAgrees
  <2>1. /\ micros \in Nat /\ "PERF" \in jail.features
        /\ "instruction_count" \in DOMAIN jail.limits
        /\ jail.limits["instruction_count"] = instruction_count_limit(micros)
    BY DEF SupInv, Config
  <2>2. n \in Nat
    BY DEF SupInv, TypeOK, Quantity
  <2>3. Judged("PERF") /\ Told("PERF")
    BY <2>1, AllSeen
  <2>4. report.instructions_used = n /\ report.measured_time = measured_time(n)
    BY <2>3 DEF Told
  <2>5. "instruction_count" \in LimitsOf("PERF") /\ Reported("instruction_count") = n
    BY <2>4 DEF LimitsOf, Reported
  <2>6. execution_result.exit_status = "OK" => n <= instruction_count_limit(micros)
    BY <2>1, <2>3, <2>5 DEF Judged
  <2>7. blamed = "instruction_count" => n > instruction_count_limit(micros)
    BY <2>1, <2>3, <2>5 DEF Judged, Exact, CpuLimit
  <2> HIDE DEF micros, n
  <2>8. /\ n <= instruction_count_limit(micros) => measured_time(n) <= micros \div 1000
        /\ n > instruction_count_limit(micros) => measured_time(n) >= micros \div 1000
    BY <2>1, <2>2, LimitAgreesWithReport
  <2> QED
    BY <2>4, <2>6, <2>7, <2>8
<1> QED
  BY <1>1, SupInvariant, PTL
=============================================================================
