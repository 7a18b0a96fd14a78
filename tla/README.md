# perfjail in TLA+

A model of [perfjail](../src/README.md), a Rust library that runs a program
under supervision: it counts instructions, time and memory, kills the program
when a limit is exceeded, and reports a verdict. The library is small, but what
it does is a protocol between several actors that share memory: the threads of
the client that call `run` and `kill` on one handle, a detached thread that
clones the child, the child itself (which runs in the parent's address space
until it execs), a process-wide timeout thread that sends signals, and the
kernel. Hardly any of their interleavings can be produced in a unit test.

Paths below are relative to the repository (`src/` of the library).

## Inventory

| Component | State | Operations | Interacts with |
|---|---|---|---|
| `Perfjail` builder (`process/jail.rs`) | features, limits, descriptors, args | the setters, `spawn` | fills `ExecutionSettings`; `spawn` starts the clone thread |
| Clone thread and child before exec (`process/child.rs`: `clone_and_execute`, `execute_child`) | program counter of the child, `child_error` | listeners' child hooks, `chdir`, redirections, two barriers, `execvp` | shares `ExecutionData` with the parent |
| `JailedChild` (`process/child.rs`) | `child_internals` (mutex), `child_state` (mutex), `run_once`, `run_error` | `run`, `kill`, drop | any number of threads; the child; the listeners |
| Supervision loop (`ChildInternals::run`) | `wait_info`, the result | hooks of the listeners, `waitid`, kill on a limit | timeout thread (EINTR), kernel |
| `PtraceListener` | the tracee's state | attach, wait, setoptions, cont; cont after every stop | kernel; races with `kill` |
| `PerfListener`, `TimeListener`, `MemoryListener` | counters, start time, peak, a pipe | hooks | the verdict in `ExecutionResult` |
| `ExecutionResult` | verdict, reason, quantities | `set_exit_status`, `set_exit_reason`, the other setters | written by the loop and the listeners |
| Timeout thread (`process/timeout.rs`) | `TIMEOUT_THREAD_DATA`, `TIMEOUT_THREAD`, `PREVIOUS_SIGHANDLER` | add, remove, tick, signal handler | every supervising thread of the process |
| `setup.rs` | kernel settings | temporary and permanent setup through pkexec | none |
| `seccomp/` | none | an enum that nothing uses | none |

What is hard, and what makes it correct:

* **Reaping against killing.** SIGKILL is sent to a bare pid by three pieces of
  code on two threads. The pid must still be the child's each time.
* **The handshake.** Two `Barrier`s in memory shared with the child order clone,
  spawn's return, the parent's setup, and exec. A party that dies or fails never
  arrives. The program must not start before its supervision is complete.
* **One execution, many callers.** All calls of `run` must agree, tell how the
  child really ended, and give the limit's verdict to a child that was killed
  for its limit.
* **Wake-ups.** A limit is noticed only because SIGUSR1 interrupts `waitid`;
  wake-ups can be lost, so they must recur, go to threads inside a run only, and
  never meet a SIGUSR1 disposition that ends the process.
* **Error exits.** Every `?` in `ChildInternals::run` is a second way out that
  must leave child, registration and handle in order.
* **Sampling.** Verdict and report come from different samples of quantities that
  grow all the time, taken by several listeners in turn. They must not contradict
  each other, and nothing of the caller's own process may be charged to the child.
* **Inherited descriptors.** Jails used at the same time clone each other's
  descriptors into their children; `MemoryListener` takes end-of-file on its pipe
  for the child's exec.
* **Conversions.** Durations become instruction counts and back, with casts that
  can wrap; ticks become microseconds; fields are found by their position.
* **Half a setup.** The permanent setup is two privileged commands, and a refused
  one must not have changed anything.

The complete list, each at its line, is `hazards` in `PROJECT.json`.

## Modules

| Module | Models |
|---|---|
| `ExecutionResult` | verdict and reason, and how they combine (`process/execution_result.rs`) |
| `Process` | the kernel's view of the child: states, pending signals, ptrace, what `waitid` reports (external, from how the code uses it) |
| `ChildHandle` | what a handle promises, abstractly: one outcome, and `kill` as long as the child is there |
| `JailedChild` | one child from `spawn` to the drop of its handle: `process/child.rs`, `spawn`, `listener/ptrace.rs`, and the effect of the other listeners on control flow; implements `ChildHandle` |
| `Timeout` | `process/timeout.rs`, and of `ChildInternals::run` the calls that concern it, on threads that run one child after the other |
| `Measures` | the conversions: `measured_time_limit`, `set_instructions_used`, `get_process_time_usage` |
| `Settings` | each method of the builder as an operator, and the listeners `spawn` makes (`process/jail.rs`, `requires_timeout` of the listeners) |
| `Perfjail` | the builder: its methods in any order, and `spawn` |
| `Supervise` | the loop with all listeners and their measurements (`listener/*.rs`, the loop of `ChildInternals::run`); uses `Settings`, `Measures`, `Process`, `ExecutionResult` |
| `Descriptors` | the descriptor tables of a process with several jails: pipe, pidfd, counter, redirection (`listener/memory.rs`, `execute_child`) |
| `Setup` | `setup.rs`, with clients, failing commands and reboots |
| `MC*` | values for the constants of each |
| `JailedChildProofs` | theorems about `JailedChild`: types, kills, supervision |
| `JailedChildResultProofs` | extends it: results, registration, barrier, freed memory, and the refinement of `ChildHandle` |
| `TimeoutProofs`, `DescriptorsProofs`, `SetupProofs` | theorems about the module of that name |
| `SettingsProofs` | theorems and lemmas about the operators of `Measures` and `Settings` |
| `PerfjailProofs`, `SuperviseProofs` | theorems about these two, from `SettingsProofs` |

`JailedChild` and `Supervise` share the loop and divide the detail: `JailedChild`
has the threads, `kill`, the handshake and the failing system calls (an
interrupted `waitpid` of the attach included), with at
most one limit and the flag `over` in place of a quantity; `Supervise` starts
where `run` leaves `parent_ready_barrier`, has one supervising thread and no
failing calls, but every listener, any limits, and the quantities.

### JailedChild

State and code correspond by name: `internals` and `state_lock` are the owners
of the mutexes `child_internals` and `child_state`; `run_once` is the `Once`;
`run_error`, `child_error`, `execution_result`, `wait_info` are the fields and
the local of that name; `child_ready` and `parent_ready` hold the parties that
have arrived at each barrier; `timeout_data` is `TIMEOUT_THREAD_DATA` seen from
one child. `pc[t]` is where client thread `t` is between two operations that
others can observe (a system call, a lock, a barrier, an access to shared
memory); `cpc` is the same for the child. `proc` is the kernel's view: state,
exit code, pending SIGKILL and SIGSTOP, ptrace state.

`Fail` is the `?` operator: it stores the error and goes to the common end in
`run_saving_result`. A panic (`expect` after `kill_pid`) poisons the `Once` and
the mutex: later callers panic too.

Abstractions:

* Each behaviour has at most one limit, of a feature that is enabled, and the
  flag `over` says that a measurement taken now would exceed it. Time grows from
  the moment `TimeListener` starts its clock, instructions and memory while the
  program runs. `Sampled` keeps what matters of sampling memory: nothing can be
  read from a zombie, and a dying process may or may not still have its memory.
* Exit codes are 0 or not, signals are SIGKILL or one the program caused.
* System calls that fail for reasons outside the model are the set `Faults`; a
  behaviour may, but need not, take each failure.
* After a drop of the handle the memory the child runs in is freed. A child that
  has not reached exec can go on using it (`ChildUsesFreed`): SIGKILL is
  asynchronous, and the `waitpid` after it does not wait. What it does then is
  undefined: `cpc` is "freed" for good, and the child may fault at any time. What
  its writes do to the caller's memory, which it shares, is not modelled.
  `FreedContextUse` says when this can happen.
* A tracee's stops are all reported as `PtraceEvent` (nix decodes `CLD_TRAPPED`
  that way) and are all resumed without their signal; so a traced program that
  faults faults again.
* `returned`, `kill_returned` and `calls` are history.

`ChildHandle` knows neither threads nor listeners. Its `child` is `proc.state`
in four classes, its `outcome` is `open` until the body of `run` has returned
for the first time. It promises that `run` settles its outcome once, that an
error can only be the first thing returned, that an `Ok` result is the end of a
child that is reaped, that only `run` reaps and only before it has settled, and
that `kill` fails only for a child that is gone while `run` has not returned
(the window of `PtraceListener`). `ImplementsHandle` is the refinement.

### Timeout

The actions are the steps of `add_timeout_thread` (the `Once`, the start of the
thread, `sigaction`, the insertion), of the loop in `ChildInternals::run` as far
as it waits, of `remove_timeout_thread`, of the timeout thread, and the delivery
of a signal. `Handled` is `sigusr1_handler` with the disposition it chains to.
One event is left to a condition: a signal that is pending when
`remove_timeout_thread` returns is delivered by the system calls that
`on_post_execute` makes, before `run` returns (`RunReturns`).

### Settings, Perfjail and Measures

A setting that is `None` is outside the domain of `limits` or `streams`. The
operators of `Settings` carry the names of the methods. The history of `Perfjail`
keeps what each method was `given`, in order, but not the order of calls of
different methods: `SettingsMatchCalls` says that the settings are a function of
that history, so that order cannot matter. In `Measures` the width
of an `i64` is a constant, so that TLC can overflow it with small numbers and
the lemmas hold for any width; `as_i64` is two's complement. `Stat` is the line
of `/proc/<pid>/stat` as `split_whitespace` sees it for a name of so many words.
The conversions of paths and arguments to C strings are left out.

### Supervise

`used` is what the child really consumes, `peak` and `report` what the listeners
make of it; a measurement nobody has entered is `None`. One action per listener and hook (`OnWakeup`, `OnPostExecute`), so
the child moves between two listeners of the same wake-up. `waitid` and the
handling of its event are one step here (`JailedChild` has them apart). A child
that has not called exec has the caller's name and memory (`ParentMemory`); its
pipe may also be `held` by another child. Fields other than the times contain
`Noise`. `OverflowChecks` says whether the build panics when
`instructions_used * 1000` overflows or wraps.

Not in this module: processes the program itself starts. perf counts them
(`inherit`), `/proc/<pid>/stat` and `VmPeak` do not.

### Descriptors

`fds` is the table of the calling process, `table[j]` that of the child of jail
`j`, and a descriptor is the object it refers to. `clone` copies the table, so a
child holds what other jails have open. The redirections are followed through
`dup2` and `close`, the table through exec: what the jails open (pipe, pidfd,
counter) is close-on-exec, the standard streams are not. `execute_child` closes
only the files given as streams, so whether another file of the client reaches
the program is up to the client: `Inheritable` is the constant set of its files
without the flag. Its own standard streams are taken to be open and inheritable.
Jails are used at the same time in any interleaving, and
numbers are reused as the kernel does (`Lowest`). `RunFails` stands for an error
of any listener or of the loop. The streams a client gives are `BorrowedFd`s, so
they are open in its table as long as the builder lives. Running out of
descriptors (`pipe2` panics) is excluded: nothing is opened in a full table, and
`MaxFd` is large enough for all jails of the run.

### Setup

`pkexec` refuses or runs the command; `sysctl` fails or takes effect; the
permanent script goes on to the append because of `set -e`. Each command can be
killed before or after it took effect, with or without output on stderr, and
`Command::output` can fail before the command is started or while it waits for it
(`OutputFails`), so an `IoError` says nothing about the effect. A reboot can come
at any point. That a reboot loads `/etc/sysctl.conf` is an
assumption about the system, as it is of the code. A loss of power that loses
what was appended is not modelled.

## Runs

| Run | Question | Bounds | Result |
|---|---|---|---|
| `JailedChildSafety` | the safety properties of the handle, and the refinement of `ChildHandle` | 2 threads, 2 calls each, every feature set, limit and fault | holds, 569 thousand states |
| `JailedChildLiveness` | do runs, handshakes and `spawn` end | 2 threads, 1 call each, every feature set and limit, faults of clone, setup, exec, perf | holds, 81 thousand states |
| `Timeout` | the timeout thread | 2 threads, 2 runs each, every prior SIGUSR1 disposition | holds, 33 thousand states |
| `Perfjail` | what the order of the builder's calls can do | 4 calls, 4 durations, an `i64` of 16 values | holds, 304 thousand states |
| `Supervise` | verdicts, reports and the enforcement of limits | 9 requests, 2 or 3 values of each quantity, names of 1 or 2 words, an `i64` of 2^15 values | holds, 76 thousand states |
| `Descriptors` | pipes, closes and streams of jails that overlap | 2 jails, 5 choices of streams, all features | holds, 768 thousand states |
| `Setup` | what a setup leaves behind | 2 clients, 2 calls each, 2 reboots | holds, 370 thousand states |
| `SameReturnValue` | does `run` keep its return value | 1 call each, exec may fail | violated |
| `RunAfterKill` | does `run` return after `kill` | 1 call each, no faults | violated |
| `KillReturnsOk` | is `kill` of an exited child `Ok` | 2 calls each, no faults | violated |
| `SegfaultEndsRun` | does a segmentation fault end a traced run | 1 call each, MEMORY_MEASUREMENT | violated |
| `LimitEnablesFeature` | does a limit of time enable its feature | 4 calls of the builder | violated |

Why the bounds are enough:

* `JailedChild`: every race in this code is between the thread that supervises
  and one other. Two calls each allow a second `run` after an error, a second
  `kill` after the child is gone, and a `run` and a `kill` of the same thread in
  both orders.
* `Timeout`: two runs each allow what a failed run leaves behind to meet the next
  run.
* `Perfjail`: four calls allow a setter twice and two other methods before,
  between or after them. Of the four durations two overflow, one to a negative
  limit and one to a very small one.
* `Supervise`: each quantity can be below, at and above its limit, and the
  requests contain every listener alone or combined, limits without their
  feature, a limit that overflows, and a count of instructions that overflows.
* `Descriptors`: an inherited end of a pipe needs two jails. The choices of
  streams contain a file for two streams, a standard stream for another, and two
  files in crossed order; one of the files is inheritable, and each of the two is
  given by some jail and not by another.
* `Setup`: two reboots, since what counts after a reboot is what earlier ones
  have kept.

Deadlock checking is off where the program may stop: clients stop calling, a run
is over, and `spawn` and `run` can block for good. When they can is stated by
`BarrierHangNeedsKill`, `HandshakeCompletes` and `SpawnCompletes`.

What the safety run of `JailedChild` shows:

* `KillTargetsOwnChild`: no SIGKILL names a pid that was given back, except in
  the window in which PtraceListener's `waitpid` may have reaped the child.
* `TruthfulResult`: if no call failed, all calls return one result, the child is
  reaped, and reason and verdict agree with how it ended.
* `LimitKillHasVerdict`: without a `kill`, death by SIGKILL is TLE or MLE.
* `SupervisedExec`: no program runs before its supervision is set up.
* `TimeoutRegistration`: the supervising thread is registered while it waits,
  and a thread stays registered only through a run that failed.
* `BarrierHangNeedsKill`: only a `kill` can make `run` wait for a child that
  will not come.
* `FreedContextUse`: a child runs on in the freed context only if the handle was
  dropped without a call of `run`, or after a run that failed, and then with
  SIGKILL already sent. Both happen. After a run that returned a result nothing
  uses the context.
* `ImplementsHandle`: every step is a step of `ChildHandle` or changes nothing
  in it.

The other passing runs:

* `JailedChildLiveness`: a time limit and a `kill` end the run, and the handshake
  and `spawn` complete unless a clone, a setup or a `kill` stands in the way.
* `Timeout`: `TickNeverKills` (SIGUSR1 is fatal only if it was ignored before),
  `RemoveFindsThread`, `SignalsRegisteredOnly` (nobody enters or leaves the set
  while the timeout thread walks through it; a property of steps),
  `StrayTickNeedsFailure`, and that wake-ups recur and runs get started.
* `Perfjail`: settings depend only on the last call of each setter
  (`SettingsMatchCalls`); a limit is left without a listener only if its feature
  was never asked for (`UnenforcedLimit`); a longer limit of measured time is
  never stored as a shorter one unless it overflows (`LimitOrderKept`).
* `Supervise`: `VerdictMatchesReport`, `ReportExact`, `MeasuredTimeAgrees`, and
  under fairness `LimitsEnforced`. The exceptions they state are the code's: a
  name with a space shifts the fields of `/proc/<pid>/stat`; memory is seen only
  at wake-ups, and not at all while another child holds the pipe.
* `Descriptors`: `PeakIsProgram` (the memory of the caller is never charged to
  the child), `BlindOnlyByOthers`, `DescriptorsAccounted` (no leak, no double
  close), `StreamsAsGiven` (no program gets a descriptor of any jail; with streams
  that do not clash it starts with exactly those streams and the client's other
  inheritable files).
* `Setup`: `OkMeansSetUp`, `PersistedIsInForce`, `RefusalTouchesNothing` (after
  `PkexecNotFound` or `AuthenticationFailed` nothing has changed).

What the five violations show:

* `run` takes the stored error out, so a second call returns `Ok` with exit
  status 0 for a program that was never executed. Its documentation promises the
  same value each time.
* `kill` directly after `spawn`, as in its own documentation, can hit the child
  between the two barriers; the following `run` never returns.
* With MEMORY_MEASUREMENT, a `kill` during the attach lets `waitpid` in
  `PtraceListener` reap the child while `child_state` is still `Reapable`.
  Another `kill` then returns an error (and `run_saving_result` panics).
* With MEMORY_MEASUREMENT, every stop is resumed without its signal, so a
  segmentation fault, the documented example of RE, repeats for ever.
* `real_time_limit` and the other limits of time and memory do not enable their
  feature, though their documentation says so; only `measured_time_limit` does.

### Fairness

`Fairness` of `JailedChild`: each client thread inside a call, the clone thread,
the child and the kernel are weakly fair, as an operating system schedules
runnable threads and delivers signals; a program that has executed a faulting
instruction gets its signal. The real-time clock advances. Nothing obliges a
client to call, the program to end, to fault or to use up a limit on
instructions or memory. The wake-up of `waitid` is part of the supervising
thread's fairness, which `WakeupsRecur` of `Timeout` justifies.

`Fairness` of `Supervise`: the same for the supervising thread, the kernel and
the clock; the program and the other children need not do anything.

`Fairness` of `Timeout`: the timeout thread and the delivery of signals are
weakly fair. The client threads are strongly fair, since the lock of the set is
repeatedly free: the timeout thread sleeps for a millisecond between two passes.

## Proofs

TLAPS proves every invariant that a run checks, and the refinement, for every
value of the constants that satisfies the named assumption of each module:
`ConstantsAssumption`, `TimeoutAssumption`, `SetupAssumption`,
`MeasuresAssumption`, `BuilderAssumption`, `SuperviseAssumption` and
`DescriptorsAssumption`. They are little more than types. Those that say more:
instructions per second are a multiple of 1000 and the number of values of an
`i64` is even (`MeasuresAssumption`); limits are not negative
and a process name has at most 8 words, since it has at most 15 bytes
(`SuperviseAssumption`: limits are a `Duration` or a `u64` in the code); the client's
streams are open descriptors and each of its files is close-on-exec or not,
throughout (`DescriptorsAssumption`).

| Module | Theorems (each `Spec => []` of the property named; `SignalsSafe` of an action property) | Inductive invariant |
|---|---|---|
| `JailedChildProofs` | `TypeCorrect`, `KillSafe` (`KillTargetsOwnChild`), `Supervised` (`SupervisedExec`) | `IndInv` |
| `JailedChildResultProofs` | `Truthful` (`TruthfulResult`), `LimitBlamed` (`LimitKillHasVerdict`), `Registers` (`TimeoutRegistration`), `BarrierHang` (`BarrierHangNeedsKill`), `ContextUse` (`FreedContextUse`), and `Implements`: `Spec => ImplementsHandle` | `RunInv` |
| `TimeoutProofs` | `TypeCorrect`, `TickSafe`, `RemoveSafe`, `SignalsSafe`, `StrayTickSafe` | the parts below |
| `DescriptorsProofs` | `FdTypes`, `Peak` (`PeakIsProgram`), `Blind` (`BlindOnlyByOthers`), `Accounted` (`DescriptorsAccounted`), `StreamsGiven` (`StreamsAsGiven`) | `FdInv` |
| `SuperviseProofs` | `SuperviseTypes`, `VerdictHolds` (`VerdictMatchesReport`), `ReportHolds` (`ReportExact`), `MeasuredTimeHolds` (`MeasuredTimeAgrees`) | `SupInv` |
| `PerfjailProofs` | `BuilderTypes`, `SettingsMatch` (`SettingsMatchCalls`), `Unenforced` (`UnenforcedLimit`), `OrderKept` (`LimitOrderKept`) | `BuilderInv` |
| `SetupProofs` | `TypeCorrect`, `OkSafe`, `PersistedSafe`, `RefusalSafe` | the parts below |
| `SettingsProofs` | `LimitExact`, `LimitMonotone`, `LimitAgreesWithReport`: what the conversions do for every frequency, width and duration | |

**JailedChildProofs.** `KillTargetsOwnChild` is not inductive: it mentions the pid
only when a SIGKILL is about to be sent, while what makes it safe happened
earlier. `IndInv` adds

* `Exclusion`: a thread in the body of `run` owns `child_internals` and the
  `Once` is running, a thread about to signal owns `child_state`;
* `Reaping`: the body runs with `child_state` `Reapable` up to the step that
  sets `Reaped`, `finish_reap` comes after that step, and a reaped child is
  either marked or was attached without options (PtraceListener's window);
* `Handshake`: a handle, and every call on it, exists only after the child's
  arrival at the first barrier, hence after its birth; the parent arrives at the
  second barrier, and the child leaves it, only after the ptrace options are set.

Each part has a lemma with one step per action. Two lemmas give the common shape
of the steps that do not matter to it: `ElsewhereSteps` (clone thread, child,
kernel) and `SuperviseSteps` (the loop); both use `Follows`, the facts about the
process that signals and resumptions preserve.

**JailedChildResultProofs.** The properties speak of the moment `run` returns, and
a result is put together over many steps. `RunInv` is `IndInv` with what holds on
the way: `Ownership` (a busy handle is not dropped, and a running `Once` has one
thread in it), `Place` (which places of the child go with which places of the
parent), `Doom` (after the body of `run` the child is dead, dying or has SIGKILL
pending), `Freed` (why a child could still be before exec when the handle was
dropped), `Registration` (who is registered at which `pc`), `Report` (what
`wait_info` and `execution_result` say of `proc.code`) and `Blame` (SIGKILL comes
from `kill`, from an error, or from a limit whose verdict stands).

`Implements` maps `proc`, `run_once` and the results to the state of `ChildHandle`
with `HandleChild`, `HandleCode`, `HandleOutcome` and `HandleResult`. The steps
that show at the handle are `CloneChild`, `KernelZombie`, the waits that reap, the
panic of `FinishKill`, `RunReturn` and `KillSend`; `RunInv` gives their guards in
`ChildHandle`. `Alike` is the reason why all others stutter: signals, stops and
tracing do not change what a client can see of the process.

**TimeoutProofs.** `TickNeverKills` needs the order of initialisation:
`Initialised` (one thread at most is inside the `Once`, and the handler is
installed when it is done), `Started` (nobody is registered or signalled
before), `Signalling` (the lock protects the walk through the set).

**DescriptorsProofs.** No leak and no foreign close are statements about all jails
at once. `FdInv` has `Ledger` (every open number of the calling process is the
client's or is kept by exactly one jail, under that number and for that object),
`Progress` (what a jail keeps open at its stage) and `Copies` (what the child's
table still has of the table that was copied, stage by stage). A number is reused
only after its jail has given it back, so the ledger stays exact.

**SuperviseProofs.** Verdict and report come from samples taken at different
times. `SupInv` has `Config` (the limit on measured time as it was asked for and
as it is stored), `Place` (the child is dead when final samples are taken),
`Verdict` (SIGKILL is sent only for a blamed limit, and a limit that was exceeded
stays exceeded, since no quantity shrinks: `Grows`, `Ticks`) and `Reports` (each
listener that has had its final turn has reported what was used and judged what it
reported). At the end of the loop every listener has had its turn, and every
enforced limit belongs to one of them (`ListenersMade`).

**PerfjailProofs.** `BuilderInv` is `SettingsMatchCalls` in five parts, with the
type of the history. Each call changes one or two fields of the settings
(`SetLimits`, `SetStreams`, ...) and the history of one method (`CallKeeps`).

**SetupProofs.** The properties speak of finished calls, and what makes them
true happens in the middle: `ScriptOrder` (the append is reached only after
`sysctl` took effect, and exit code 0 means that all was done) and `Refused` (the
codes taken for a refusal come only from commands that changed nothing).

**SettingsProofs.** Both conversions are reduced to `Quotient`, the two
directions in which a quotient is bounded by a multiple of the divisor, and
`AsI64`, which says when the cast changes nothing.

Only model-checked: the properties that something happens eventually
(`TimeLimitEndsRun`, `KillEndsRun`, `HandshakeCompletes`, `SpawnCompletes`,
`WakeupsRecur`, `RunsGetStarted`, `LimitsEnforced`), since the prover handles
neither fairness nor ENABLED; and the five violations, which are counterexamples.

## Plan

* The safety half of the liveness properties as theorems: for `KillEndsRun` and
  `TimeLimitEndsRun`, that a doomed child never leaves the path to its end; for
  `LimitsEnforced`, that an exceeded limit stays exceeded until a sample sees it.
* Action properties: a verdict once given is not replaced, a run that has settled
  reaps nothing.

## Not modelled

* `seccomp/`: an enum that no code uses.
* The wording of comments and errors; of a verdict's comment `Supervise` keeps
  the limit it names.
* Panics on arguments with NUL bytes, on a full descriptor table (`pipe2`) and on
  fields of `/proc` that do not parse.
* Processes the jailed program starts, see Supervise.
* The library and kernel functions the code calls appear by their effect and are
  marked external in `PROJECT.json`.
