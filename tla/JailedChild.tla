----------------------------- MODULE JailedChild -----------------------------
(***************************************************************************)
(* One jailed child, from Perfjail::spawn to the drop of its handle.       *)
(*                                                                         *)
(* The actors are the client threads that share the handle and call run    *)
(* and kill (process/child.rs), the detached thread that clones the child  *)
(* (clone_and_execute), the child itself, which until exec runs in the     *)
(* parent's address space (execute_child), and the kernel.  The listeners  *)
(* appear by what they do to the child and to control flow; at most one    *)
(* limit is set, and whether it is exceeded is the flag `over'.            *)
(***************************************************************************)
EXTENDS Process, Integers

CONSTANTS
  Threads,      \* client threads holding the (shared) handle
  NoThread,     \* "no owner", for the two mutexes
  MaxCalls,     \* bound: calls of run and kill each thread makes
  FeatureSets,  \* the feature sets a builder may have been given
  Faults        \* calls that may fail for reasons outside this model

Feature == {"PERF", "TIME", "MEMORY"}
FaultSites == {"pthread", "clone", "setup", "exec", "perf", "attach",
               "attach_wait", "wakeup", "waitid", "post"}

ASSUME ConstantsAssumption ==
  /\ NoThread \notin Threads
  /\ MaxCalls \in Nat
  /\ FeatureSets \subseteq SUBSET Feature
  /\ Faults \subseteq FaultSites

VARIABLES
  settings,       \* ExecutionSettings: enabled features, and the limited one
  handle,         \* "builder", "spawning", "failed", "jailed" or "dropped"
  pc,             \* where each client thread is
  calls,          \* calls made by each client thread
  internals,      \* owner of the mutex child_internals
  run_once,       \* the Once guarding the single execution of run
  run_error,      \* ChildInternals.run_error
  wait_info,      \* the status the last waitid returned
  child_state,    \* ChildState, behind the mutex of which
  state_lock,     \*   this is the owner
  timeout_data,   \* TIMEOUT_THREAD_DATA: the threads SIGUSR1 is sent to
  cpc,            \* where the child's own code is
  child_error,    \* ExecutionData, shared by parent and child: Option<io::Error>,
  child_ready,    \*   the parties that have arrived at child_ready_barrier
  parent_ready,   \*   and at parent_ready_barrier,
  execution_result, \*  and the result so far
  proc,           \* the kernel's view of the child process
  over,           \* a measurement taken now would exceed the limit
  returned,       \* values run has returned so far (history)
  kill_returned   \* values kill has returned so far (history)

mutexes == <<internals, child_state, state_lock>>
history == <<calls, returned, kill_returned>>
runVars == <<run_once, run_error, wait_info, timeout_data>>
shared == <<child_error, child_ready, parent_ready>>
data == <<shared, execution_result>>
\* What the body of ChildInternals::run leaves alone.
outside == <<settings, handle, history, mutexes, run_once, cpc>>
vars == <<outside, pc, run_error, wait_info, timeout_data, data, proc, over>>

Party == {"parent", "child"}

ThreadPC == {"idle", "spawn_wait", "kill_lock", "kill_send", "run_lock",
             "propagate0", "post_clone", "attach", "attach_wait", "setoptions",
             "cont", "add_timeout", "barrier", "barrier_wait", "wakeup",
             "limit_kill", "waitid", "propagate1", "execute_event",
             "remove_timeout", "post_execute", "propagate2", "finish_kill",
             "finish_state", "finish_reap", "return", "panicked"}
\* From the measurement's start (on_post_clone_parent) to its end.
Measured == {"attach", "attach_wait", "setoptions", "cont", "add_timeout",
             "barrier", "barrier_wait", "wakeup", "limit_kill", "waitid",
             "propagate1", "execute_event", "remove_timeout", "post_execute"}
ChildPC == {"none", "setup", "ready", "ready_wait", "go", "go_wait", "exec",
            "failing", "exiting", "program", "faulting", "freed"}
\* The child's own code runs on the stack, and waits at the barriers, inside
\* ExecutionContext; at "freed" it does so although the context is gone.
InContext == {"setup", "ready", "ready_wait", "go", "go_wait", "exec", "failing", "exiting"}

TypeOK ==
  /\ settings \in [features : FeatureSets, limit : Feature \cup {"NONE"}]
  /\ handle \in {"builder", "spawning", "failed", "jailed", "dropped"}
  /\ pc \in [Threads -> ThreadPC]
  /\ calls \in [Threads -> 0..MaxCalls]
  /\ internals \in Threads \cup {NoThread}
  /\ run_once \in {"new", "running", "done", "poisoned"}
  /\ run_error \in {"None", "Some"}
  /\ wait_info \in ExitReason \cup {NoStatus, "ptrace", "stopped"}
  /\ child_state \in {"Reapable", "Reaped"}
  /\ state_lock \in Threads \cup {NoThread}
  /\ timeout_data \subseteq Threads
  /\ cpc \in ChildPC
  /\ child_error \in {"None", "Some"}
  /\ child_ready \subseteq Party
  /\ parent_ready \subseteq Party
  /\ execution_result \in ExecutionResults
  /\ proc \in Process
  /\ over \in BOOLEAN
  /\ returned \subseteq ExecutionResults \cup {Err}
  /\ kill_returned \subseteq {"Ok", "Err"}

Has(feature) == feature \in settings.features
\* Some listener's requires_timeout: a limit is set for its feature.
requires_timeout == settings.limit # "NONE"

Init ==
  /\ settings \in [features : FeatureSets, limit : Feature \cup {"NONE"}]
  /\ settings.limit \in settings.features \cup {"NONE"}
  /\ handle = "builder"
  /\ pc = [t \in Threads |-> "idle"]
  /\ calls = [t \in Threads |-> 0]
  /\ internals = NoThread
  /\ run_once = "new"
  /\ run_error = "None"
  /\ wait_info = NoStatus
  /\ child_state = "Reapable"
  /\ state_lock = NoThread
  /\ timeout_data = {}
  /\ cpc = "none"
  /\ child_error = "None"
  /\ child_ready = {}
  /\ parent_ready = {}
  /\ execution_result = NewResult
  /\ proc = [state |-> "none", code |-> NoStatus, pending |-> {}, tracing |-> "none"]
  /\ over = FALSE
  /\ returned = {}
  /\ kill_returned = {}

Goto(t, here, there) ==
  /\ pc[t] = here
  /\ pc' = [pc EXCEPT ![t] = there]

\* `?' in ChildInternals::run: the error is kept for run to return, and
\* run_saving_result goes on to kill and reap the child.
Fail(t, here) ==
  /\ Goto(t, here, "finish_kill")
  /\ run_error' = "Some"

-----------------------------------------------------------------------------
(* Perfjail::spawn, and the detached thread running clone_and_execute.     *)

Spawn(t) ==
  /\ handle = "builder"
  /\ Goto(t, "idle", "spawn_wait")
  /\ handle' = "spawning"
  /\ child_ready' = child_ready \cup {"parent"}
  /\ UNCHANGED <<child_error, parent_ready, execution_result>>
  /\ UNCHANGED <<settings, mutexes, history, runVars, cpc, proc, over>>

\* pthread_create (or the attribute calls around it) fails: spawn returns Err.
SpawnFails(t) ==
  /\ handle = "builder"
  /\ "pthread" \in Faults
  /\ pc[t] = "idle"
  /\ handle' = "failed"
  /\ UNCHANGED <<settings, mutexes, history, runVars, pc, cpc, data, proc, over>>

\* Both parties are at child_ready_barrier: spawn reads the pid and returns.
SpawnReturns(t) ==
  /\ Goto(t, "spawn_wait", "idle")
  /\ "child" \in child_ready
  /\ handle' = "jailed"
  /\ UNCHANGED <<settings, mutexes, history, runVars, cpc, data, proc, over>>

\* The detached thread: clone with CLONE_VM | CLONE_VFORK.  It then sleeps until
\* the child execs or exits, and ends without touching anything.
CloneChild ==
  /\ handle = "spawning"
  /\ cpc = "none"
  /\ child_error = "None"
  /\ cpc' = "setup"
  /\ proc' = SetState(proc, "run")
  /\ UNCHANGED <<settings, handle, mutexes, history, runVars, pc, data, over>>

\* Nobody is left to arrive at child_ready_barrier: spawn waits for good.
CloneFails ==
  /\ handle = "spawning"
  /\ cpc = "none"
  /\ "clone" \in Faults
  /\ child_error = "None"
  /\ child_error' = "Some"
  /\ UNCHANGED <<child_ready, parent_ready, execution_result>>
  /\ UNCHANGED <<settings, handle, mutexes, history, runVars, pc, cpc, proc, over>>

-----------------------------------------------------------------------------
(* execute_child: the child between clone and exec, in ExecutionContext.   *)
(* Once the handle has been dropped, and the context with it, the steps    *)
(* below are replaced by ChildUsesFreed.                                   *)

Child(here, there) ==
  /\ proc.state = "run"
  /\ cpc = here
  /\ cpc' = there
  /\ UNCHANGED <<settings, handle, pc, mutexes, history, runVars, over>>

PreExec(here, there) == handle # "dropped" /\ Child(here, there)

\* Mutant: the child skips child_ready_barrier.
ChildSetupSkipsBarrier == PreExec("setup", "go") /\ UNCHANGED <<data, proc>>

\* on_post_clone_child of every listener, chdir, and the dup2/close pairs.
ChildSetup == PreExec("setup", "ready") /\ UNCHANGED <<data, proc>>

\* Mutant: the child has reached child_ready_barrier although its setup failed.
ChildSetupFailsAtBarrier ==
  /\ "setup" \in Faults
  /\ PreExec("setup", "failing")
  /\ child_ready' = child_ready \cup {"child"}
  /\ UNCHANGED <<child_error, parent_ready, execution_result>>
  /\ UNCHANGED proc

ChildSetupFails ==
  /\ "setup" \in Faults
  /\ PreExec("setup", "failing")
  /\ UNCHANGED <<data, proc>>

\* Barrier::wait is an arrival, counted in shared memory for good, and a wait
\* for the other party's arrival.
ChildArrivesReady ==
  /\ PreExec("ready", "ready_wait")
  /\ child_ready' = child_ready \cup {"child"}
  /\ UNCHANGED <<child_error, parent_ready, execution_result>>
  /\ UNCHANGED proc

ChildLeavesReady ==
  /\ "parent" \in child_ready
  /\ PreExec("ready_wait", "go")
  /\ UNCHANGED <<data, proc>>

ChildArrivesGo ==
  /\ PreExec("go", "go_wait")
  /\ parent_ready' = parent_ready \cup {"child"}
  /\ UNCHANGED <<child_error, child_ready, execution_result>>
  /\ UNCHANGED proc

ChildLeavesGo ==
  /\ "parent" \in parent_ready
  /\ PreExec("go_wait", "exec")
  /\ UNCHANGED <<data, proc>>

\* execvp: a traced process reports a SIGTRAP stop after it.
ChildExecs ==
  /\ PreExec("exec", "program")
  /\ proc' = IF Traced(proc) THEN Stop(proc) ELSE proc
  /\ UNCHANGED data

ChildExecFails ==
  /\ "exec" \in Faults
  /\ PreExec("exec", "failing")
  /\ UNCHANGED <<data, proc>>

\* execute_child stores the error in shared memory, then returns 1.
ChildStoresError ==
  /\ PreExec("failing", "exiting")
  /\ child_error' = "Some"
  /\ UNCHANGED <<child_ready, parent_ready, execution_result>>
  /\ UNCHANGED proc

ChildReturns ==
  /\ PreExec("exiting", "exiting")
  /\ proc' = BeginExit(proc, "exit1")
  /\ UNCHANGED data

\* The child runs on in the freed context.  That is undefined: "freed" stands for
\* whatever it does from then on, and sooner or later it may fault.
ChildUsesFreed ==
  /\ handle = "dropped"
  /\ \E here \in InContext \cup {"freed"} : Child(here, "freed")
  /\ proc' \in {proc, IF Traced(proc) THEN Stop(proc) ELSE BeginExit(proc, "sig11")}
  /\ UNCHANGED data

ChildStep ==
  \/ ChildSetup \/ ChildSetupFails
  \/ ChildArrivesReady \/ ChildLeavesReady
  \/ ChildArrivesGo \/ ChildLeavesGo
  \/ ChildExecs \/ ChildExecFails
  \/ ChildStoresError \/ ChildReturns

-----------------------------------------------------------------------------
(* The jailed program, and the kernel.                                     *)

ProgramExits ==
  /\ Child("program", "program")
  /\ \E code \in {"exit0", "exit1"} : proc' = BeginExit(proc, code)
  /\ UNCHANGED data

ProgramFaults == Child("program", "faulting") /\ UNCHANGED <<data, proc>>

\* A synchronous signal.  Untraced it is fatal.  Traced it is a stop, and as
\* PTRACE_CONT delivers no signal, the program then faults again.
FaultSignal ==
  /\ Child("faulting", "faulting")
  /\ proc' = IF Traced(proc) THEN Stop(proc) ELSE BeginExit(proc, "sig11")
  /\ UNCHANGED data

\* A job-control stop of the program, and its end by SIGCONT.
ProgramStops ==
  /\ Child("program", "program")
  /\ proc' = Stop(proc)
  /\ UNCHANGED data

ProgramContinues ==
  /\ proc.state = "stop"
  /\ ~Traced(proc)
  /\ proc' = SetState(proc, "run")
  /\ UNCHANGED <<outside, pc, run_error, wait_info, timeout_data, data, over>>

\* SIGKILL takes effect.  The exit stop of PTRACE_O_TRACEEXIT may or may not be
\* reported for a killed tracee.
KernelKill ==
  /\ proc.state = "run"
  /\ "SIGKILL" \in proc.pending
  /\ \E state \in {"dying"} \cup (IF TracesExit(proc) THEN {"exitstop"} ELSE {}) :
       proc' = Die(proc, state)
  /\ UNCHANGED <<outside, pc, run_error, wait_info, timeout_data, data, over>>

\* The SIGSTOP sent by PTRACE_ATTACH takes effect.
KernelStop ==
  /\ proc.state = "run"
  /\ "SIGSTOP" \in proc.pending
  /\ "SIGKILL" \notin proc.pending
  /\ proc' = TakeStop(proc)
  /\ UNCHANGED <<outside, pc, run_error, wait_info, timeout_data, data, over>>

KernelZombie ==
  /\ proc.state = "dying"
  /\ proc' = SetState(proc, "zombie")
  /\ UNCHANGED <<outside, pc, run_error, wait_info, timeout_data, data, over>>

\* The limited quantity grows past its limit: instructions and memory while the
\* program runs, time from the moment TimeListener starts its clock.
ExceedLimit ==
  /\ ~over
  /\ \/ settings.limit = "TIME" /\ \E t \in Threads : pc[t] \in Measured
     \/ /\ settings.limit \in {"PERF", "MEMORY"}
        /\ proc.state = "run" /\ cpc \in {"program", "faulting"}
  /\ over' = TRUE
  /\ UNCHANGED <<outside, pc, run_error, wait_info, timeout_data, data, proc>>

KernelStep == KernelKill \/ KernelStop \/ KernelZombie
Environment ==
  \/ ProgramExits \/ ProgramFaults \/ FaultSignal
  \/ ProgramStops \/ ProgramContinues \/ ExceedLimit \/ ChildUsesFreed

-----------------------------------------------------------------------------
(* JailedChild::kill.                                                      *)

KillCall(t) ==
  /\ handle = "jailed"
  /\ calls[t] < MaxCalls
  /\ Goto(t, "idle", "kill_lock")
  /\ calls' = [calls EXCEPT ![t] = @ + 1]
  /\ UNCHANGED <<settings, handle, mutexes, returned, kill_returned, runVars,
                 cpc, data, proc, over>>

KillLock(t) ==
  /\ state_lock = NoThread
  /\ Goto(t, "kill_lock", "kill_send")
  /\ state_lock' = t
  /\ UNCHANGED <<settings, handle, internals, child_state, history, runVars,
                 cpc, data, proc, over>>

\* Still holding the lock: kill_pid if the child is Reapable, else Ok(()).
KillSend(t) ==
  /\ Goto(t, "kill_send", "idle")
  /\ state_lock' = NoThread
  /\ IF child_state = "Reapable"
     THEN /\ proc' = kill_pid(proc)
          /\ kill_returned' = kill_returned \cup {IF Exists(proc) THEN "Ok" ELSE "Err"}
     ELSE /\ kill_returned' = kill_returned \cup {"Ok"}
          /\ UNCHANGED proc
  /\ UNCHANGED <<settings, handle, internals, child_state, calls, returned,
                 runVars, cpc, data, over>>

-----------------------------------------------------------------------------
(* JailedChild::run, up to the handshake with the child.                   *)

RunCall(t) ==
  /\ handle = "jailed"
  /\ calls[t] < MaxCalls
  /\ Goto(t, "idle", "run_lock")
  /\ calls' = [calls EXCEPT ![t] = @ + 1]
  /\ UNCHANGED <<settings, handle, mutexes, returned, kill_returned, runVars,
                 cpc, data, proc, over>>

\* Mutant: neither the mutex nor call_once waits for a run in progress.
RunLockNoWait(t) ==
  /\ Goto(t, "run_lock", IF run_once = "new" THEN "propagate0" ELSE "return")
  /\ internals' = t
  /\ run_once' = IF run_once = "new" THEN "running" ELSE run_once
  /\ UNCHANGED <<settings, handle, child_state, state_lock, history, run_error,
                 wait_info, timeout_data, cpc, data, proc, over>>

\* Lock child_internals, then call_once: the first caller runs the child, later
\* ones find it done.  After a panic in there both are poisoned.
RunLock(t) ==
  /\ internals = NoThread
  /\ \/ /\ run_once = "new"
        /\ Goto(t, "run_lock", "propagate0")
        /\ internals' = t
        /\ run_once' = "running"
     \/ /\ run_once = "done"
        /\ Goto(t, "run_lock", "return")
        /\ internals' = t
        /\ UNCHANGED run_once
     \/ /\ run_once = "poisoned"
        /\ Goto(t, "run_lock", "panicked")
        /\ UNCHANGED <<internals, run_once>>
  /\ UNCHANGED <<settings, handle, child_state, state_lock, history, run_error,
                 wait_info, timeout_data, cpc, data, proc, over>>

\* propagate_child_error, at each of its three call sites.
propagate_child_error(t, here, there) ==
  /\ \/ child_error = "Some" /\ Fail(t, here)
     \/ /\ child_error = "None"
        /\ Goto(t, here, there)
        /\ UNCHANGED run_error
  /\ child_error' = "None"
  /\ UNCHANGED <<child_ready, parent_ready, execution_result>>
  /\ UNCHANGED <<outside, wait_info, timeout_data, proc, over>>

\* Mutant: the child is released before PtraceListener has been set up.
OnPostCloneParentReleases(t) ==
  /\ Goto(t, "post_clone", IF Has("MEMORY") THEN "attach" ELSE "add_timeout")
  /\ parent_ready' = parent_ready \cup {"parent"}
  /\ UNCHANGED <<child_error, child_ready, execution_result>>
  /\ UNCHANGED <<outside, run_error, wait_info, timeout_data, proc, over>>

\* PerfListener: perf_event_open of a process that has begun to exit fails.
PerfMayFail == Has("PERF") /\ ("perf" \in Faults \/ proc.state \in {"dying", "zombie"})
PerfMayOpen == Has("PERF") => proc.state # "zombie"

\* on_post_clone_parent of the listeners but PtraceListener, whose four system
\* calls are the actions below.
OnPostCloneParent(t) ==
  /\ \/ PerfMayFail /\ Fail(t, "post_clone")
     \/ /\ PerfMayOpen
        /\ Goto(t, "post_clone", IF Has("MEMORY") THEN "attach" ELSE "add_timeout")
        /\ UNCHANGED run_error
  /\ UNCHANGED <<outside, wait_info, timeout_data, data, proc, over>>

\* PTRACE_ATTACH of a zombie fails.
PtraceAttach(t) ==
  /\ \/ /\ "attach" \in Faults \/ proc.state = "zombie"
        /\ Fail(t, "attach")
        /\ UNCHANGED proc
     \/ /\ proc.state # "zombie"
        /\ Goto(t, "attach", "attach_wait")
        /\ proc' = Attach(proc)
        /\ UNCHANGED run_error
  /\ UNCHANGED <<outside, wait_info, timeout_data, data, over>>

\* waitpid without WNOWAIT, meant for the stop: it reaps a child that died.  A
\* signal makes it fail with EINTR, which is not retried.
PtraceWait(t) ==
  /\ \/ /\ proc.state \in {"stop", "zombie"}
        /\ Goto(t, "attach_wait", "setoptions")
        /\ proc' = Reap(proc)
        /\ UNCHANGED run_error
     \/ "attach_wait" \in Faults /\ Fail(t, "attach_wait") /\ UNCHANGED proc
  /\ UNCHANGED <<outside, wait_info, timeout_data, data, over>>

PtraceSetOptions(t) ==
  /\ \/ /\ proc.state = "stop"
        /\ Goto(t, "setoptions", "cont")
        /\ proc' = SetOptions(proc)
        /\ UNCHANGED run_error
     \/ proc.state # "stop" /\ Fail(t, "setoptions") /\ UNCHANGED proc
  /\ UNCHANGED <<outside, wait_info, timeout_data, data, over>>

\* Mutant: the attached child is left stopped.
PtraceContSkipped(t) ==
  /\ Goto(t, "cont", "add_timeout")
  /\ UNCHANGED <<outside, run_error, wait_info, timeout_data, data, proc, over>>

PtraceCont(t) ==
  /\ \/ /\ proc.state = "stop"
        /\ Goto(t, "cont", "add_timeout")
        /\ proc' = Resume(proc)
        /\ UNCHANGED run_error
     \/ proc.state # "stop" /\ Fail(t, "cont") /\ UNCHANGED proc
  /\ UNCHANGED <<outside, wait_info, timeout_data, data, over>>

\* Mutant: the thread is not registered.
AddTimeoutThreadSkipped(t) ==
  /\ Goto(t, "add_timeout", "barrier")
  /\ UNCHANGED <<outside, run_error, wait_info, timeout_data, data, proc, over>>

AddTimeoutThread(t) ==
  /\ Goto(t, "add_timeout", "barrier")
  /\ timeout_data' = IF requires_timeout THEN timeout_data \cup {t} ELSE timeout_data
  /\ UNCHANGED <<outside, run_error, wait_info, data, proc, over>>

ParentArrivesGo(t) ==
  /\ Goto(t, "barrier", "barrier_wait")
  /\ parent_ready' = parent_ready \cup {"parent"}
  /\ UNCHANGED <<child_error, child_ready, execution_result>>
  /\ UNCHANGED <<outside, run_error, wait_info, timeout_data, proc, over>>

ParentLeavesGo(t) ==
  /\ "child" \in parent_ready
  /\ Goto(t, "barrier_wait", "wakeup")
  /\ UNCHANGED <<outside, run_error, wait_info, timeout_data, data, proc, over>>

-----------------------------------------------------------------------------
(* The supervision loop of ChildInternals::run.                            *)

\* What a sample shows: MemoryListener keeps the peak it saw, but can only read
\* it while the child still has its memory.
Sampled ==
  IF settings.limit = "MEMORY" /\ execution_result.exit_status # "MLE"
  THEN CASE proc.state = "zombie" -> {FALSE}
         [] proc.state = "dying"  -> {over, FALSE}
         [] OTHER                 -> {over}
  ELSE {over}

LimitVerdict(result) ==
  SetExitStatus(result, IF settings.limit = "MEMORY" THEN "MLE" ELSE "TLE")

\* on_wakeup of every listener, and WakeupAction::combine of their answers.
OnWakeup(t) ==
  /\ \/ \E exceeded \in Sampled :
          /\ Goto(t, "wakeup", IF exceeded THEN "limit_kill" ELSE "waitid")
          /\ execution_result' = IF exceeded THEN LimitVerdict(execution_result)
                                 ELSE execution_result
          /\ UNCHANGED run_error
     \/ "wakeup" \in Faults /\ Fail(t, "wakeup") /\ UNCHANGED execution_result
  /\ UNCHANGED <<outside, wait_info, timeout_data, shared, proc, over>>

LimitKill(t) ==
  /\ Goto(t, "limit_kill", "waitid")
  /\ proc' = kill_pid(proc)
  /\ UNCHANGED <<outside, run_error, wait_info, timeout_data, data, over>>

\* waitid(WEXITED | WSTOPPED | WNOWAIT): the child stays as it is.
Waitid(t) ==
  /\ \/ /\ proc.state = "zombie" \/ Stopped(proc)
        /\ Goto(t, "waitid", "propagate1")
        /\ wait_info' = WaitStatus(proc)
        /\ UNCHANGED run_error
     \/ "waitid" \in Faults /\ Fail(t, "waitid") /\ UNCHANGED wait_info
  /\ UNCHANGED <<outside, timeout_data, data, proc, over>>

\* EINTR: the timeout thread's SIGUSR1, while waitid has nothing to report.
WaitidInterrupted(t) ==
  /\ t \in timeout_data
  /\ proc.state # "zombie" /\ ~Stopped(proc)
  /\ Goto(t, "waitid", "wakeup")
  /\ UNCHANGED <<outside, run_error, wait_info, timeout_data, data, proc, over>>

\* Mutant: every status that is not an exit is ignored, the tracee stays stopped.
OnExecuteEventNoCont(t) ==
  /\ IF wait_info \in ExitReason
     THEN /\ Goto(t, "execute_event", "remove_timeout")
          /\ execution_result' = SetExitReason(execution_result, wait_info)
          /\ UNCHANGED shared
     ELSE Goto(t, "execute_event", "wakeup") /\ UNCHANGED data
  /\ UNCHANGED <<outside, run_error, wait_info, timeout_data, proc, over>>

\* Mutant: a stop is taken for the end of the child.
OnExecuteEventStopIsEnd(t) ==
  /\ Goto(t, "execute_event", "remove_timeout")
  /\ execution_result' = SetExitReason(execution_result, wait_info)
  /\ UNCHANGED <<outside, run_error, wait_info, timeout_data, shared, proc, over>>

\* on_execute_event: PtraceListener resumes a stopped tracee, which fails if a
\* SIGKILL has ended the stop meanwhile.  Then the match on wait_info.
OnExecuteEvent(t) ==
  /\ \/ /\ wait_info = "ptrace" /\ Stopped(proc)
        /\ Goto(t, "execute_event", "wakeup")
        /\ proc' = Resume(proc)
        /\ UNCHANGED <<run_error, execution_result>>
     \/ /\ wait_info = "ptrace" /\ ~Stopped(proc)
        /\ Fail(t, "execute_event")
        /\ UNCHANGED <<proc, execution_result>>
     \/ /\ wait_info = "stopped"
        /\ Goto(t, "execute_event", "wakeup")
        /\ UNCHANGED <<run_error, proc, execution_result>>
     \/ /\ wait_info \in ExitReason
        /\ Goto(t, "execute_event", "remove_timeout")
        /\ execution_result' = SetExitReason(execution_result, wait_info)
        /\ UNCHANGED <<run_error, proc>>
  /\ UNCHANGED <<outside, wait_info, timeout_data, shared, over>>

\* Mutant: the thread stays registered.
RemoveTimeoutThreadSkipped(t) ==
  /\ Goto(t, "remove_timeout", "post_execute")
  /\ UNCHANGED <<outside, run_error, wait_info, timeout_data, data, proc, over>>

\* remove_timeout_thread asserts that the thread was in the set.
RemoveTimeoutThread(t) ==
  /\ Goto(t, "remove_timeout", "post_execute")
  /\ timeout_data' = IF requires_timeout THEN timeout_data \ {t} ELSE timeout_data
  /\ UNCHANGED <<outside, run_error, wait_info, data, proc, over>>

\* The final counters of PERF and TIME are compared with their limit;
\* MemoryListener compares the peak it has already judged.
FinalVerdict(result) ==
  IF over /\ settings.limit \in {"PERF", "TIME"} THEN LimitVerdict(result) ELSE result

\* on_post_execute of every listener.
OnPostExecute(t) ==
  /\ \/ /\ Goto(t, "post_execute", "propagate2")
        /\ execution_result' = FinalVerdict(execution_result)
        /\ UNCHANGED run_error
     \/ "post" \in Faults /\ Fail(t, "post_execute") /\ UNCHANGED execution_result
  /\ UNCHANGED <<outside, wait_info, timeout_data, shared, proc, over>>

-----------------------------------------------------------------------------
(* The rest of run_saving_result, and the return from run.                 *)

\* Mutant: the child of a failed run is not killed.
FinishKillSkipped(t) ==
  /\ Goto(t, "finish_kill", "finish_state")
  /\ UNCHANGED <<outside, run_error, wait_info, timeout_data, data, proc, over>>

\* kill_pid(..).expect(..): fails, and panics, only if the pid is gone.
FinishKill(t) ==
  /\ IF Exists(proc)
     THEN /\ Goto(t, "finish_kill", "finish_state")
          /\ proc' = kill_pid(proc)
          /\ UNCHANGED <<run_once, internals>>
     ELSE /\ Goto(t, "finish_kill", "panicked")
          /\ run_once' = "poisoned"
          /\ internals' = NoThread
          /\ UNCHANGED proc
  /\ UNCHANGED <<settings, handle, child_state, state_lock, history, run_error,
                 wait_info, timeout_data, cpc, data, over>>

\* Mutant: the child is reaped before child_state says so.
FinishStateReapsFirst(t) ==
  /\ Goto(t, "finish_state", "finish_reap")
  /\ proc' = Reap(proc)
  /\ UNCHANGED <<outside, run_error, wait_info, timeout_data, data, over>>

\* Lock child_state, set it to Reaped, unlock.
FinishState(t) ==
  /\ state_lock = NoThread
  /\ Goto(t, "finish_state", "finish_reap")
  /\ child_state' = "Reaped"
  /\ UNCHANGED <<settings, handle, internals, state_lock, history, runVars,
                 cpc, data, proc, over>>

\* waitpid(WNOHANG): reaps the child only if it is a zombie by now.
FinishReap(t) ==
  /\ Goto(t, "finish_reap", "return")
  /\ proc' = Reap(proc)
  /\ UNCHANGED <<outside, run_error, wait_info, timeout_data, data, over>>

\* Mutant: an error does not keep the result from being returned.
RunReturnIgnoresError(t) ==
  /\ Goto(t, "return", "idle")
  /\ run_once' = "done"
  /\ internals' = NoThread
  /\ returned' = returned \cup {execution_result}
  /\ UNCHANGED <<settings, handle, child_state, state_lock, calls, kill_returned,
                 run_error, wait_info, timeout_data, cpc, data, proc, over>>

\* call_once is over; run_error is taken, so only one call returns it.
RunReturn(t) ==
  /\ Goto(t, "return", "idle")
  /\ run_once' = "done"
  /\ internals' = NoThread
  /\ returned' = returned \cup {IF run_error = "Some" THEN Err ELSE execution_result}
  /\ run_error' = "None"
  /\ UNCHANGED <<settings, handle, child_state, state_lock, calls, kill_returned,
                 wait_info, timeout_data, cpc, data, proc, over>>

\* The last reference to the handle is dropped, and ExecutionContext with it.
DropHandle ==
  /\ handle = "jailed"
  /\ \A t \in Threads : pc[t] \in {"idle", "panicked"}
  /\ handle' = "dropped"
  /\ UNCHANGED <<settings, mutexes, history, runVars, pc, cpc, data,
                 proc, over>>

RunStep(t) ==
  \/ RunLock(t)
  \/ propagate_child_error(t, "propagate0", "post_clone")
  \/ OnPostCloneParent(t)
  \/ PtraceAttach(t) \/ PtraceWait(t) \/ PtraceSetOptions(t) \/ PtraceCont(t)
  \/ AddTimeoutThread(t) \/ ParentArrivesGo(t) \/ ParentLeavesGo(t)
  \/ OnWakeup(t) \/ LimitKill(t) \/ Waitid(t) \/ WaitidInterrupted(t)
  \/ propagate_child_error(t, "propagate1", "execute_event")
  \/ OnExecuteEvent(t)
  \/ RemoveTimeoutThread(t) \/ OnPostExecute(t)
  \/ propagate_child_error(t, "propagate2", "finish_kill")
  \/ FinishKill(t) \/ FinishState(t) \/ FinishReap(t) \/ RunReturn(t)

KillStep(t) == KillLock(t) \/ KillSend(t)
ClientCall(t) == Spawn(t) \/ SpawnFails(t) \/ RunCall(t) \/ KillCall(t)
Cloner == CloneChild \/ CloneFails

Next ==
  \/ \E t \in Threads :
       ClientCall(t) \/ SpawnReturns(t) \/ RunStep(t) \/ KillStep(t)
  \/ DropHandle
  \/ Cloner \/ ChildStep \/ KernelStep \/ Environment

Spec == Init /\ [][Next]_vars

\* The threads, the child and the kernel get to run, a fault is signalled, the
\* clock of TimeListener advances.  Nothing obliges a client to call, the program to end, or a limit
\* on instructions or memory to be reached.
Fairness ==
  /\ \A t \in Threads : WF_vars(SpawnReturns(t) \/ RunStep(t) \/ KillStep(t))
  /\ WF_vars(Cloner) /\ WF_vars(ChildStep) /\ WF_vars(KernelStep)
  /\ WF_vars(FaultSignal)
  /\ WF_vars(settings.limit = "TIME" /\ ExceedLimit)

FairSpec == Spec /\ Fairness

-----------------------------------------------------------------------------
(* Safety.                                                                 *)

Loop == {"wakeup", "limit_kill", "waitid", "propagate1", "execute_event"}

\* run is executing on behalf of t (between call_once and its return).
Running(t) == run_once = "running" /\ internals = t

\* Every SIGKILL that kill, the supervision loop or run_saving_result is about
\* to send names a process that is still this child, never a pid the kernel may
\* have given away.  The one exception is PtraceListener: its waitpid can reap
\* a child that was killed between attach and setoptions.
KillTargetsOwnChild ==
  (\E t \in Threads :
      \/ pc[t] = "kill_send" /\ child_state = "Reapable"
      \/ pc[t] \in {"limit_kill", "finish_kill"})
  => Exists(proc) \/ proc.tracing = "attached"

\* If no call of run has failed, all of them returned the same result, the
\* child has been reaped, the reason is how it really ended, and the verdict
\* agrees with it: OK only for exit status 0, RE only for another ending, a
\* limit verdict only if the limit was exceeded.
TruthfulResult ==
  (returned # {} /\ Err \notin returned) =>
    /\ proc.state = "reaped"
    /\ \A result \in returned :
         /\ result = execution_result
         /\ result.exit_reason = proc.code
         /\ result.exit_status = "OK" => proc.code = "exit0"
         /\ result.exit_status = "RE" => proc.code # "exit0"
         /\ result.exit_status \in {"TLE", "MLE"} => over

\* A child the supervision loop killed for its limit is reported with the
\* limit's verdict, not as a runtime error: without a call of kill, death by
\* SIGKILL comes with TLE or MLE.
LimitKillHasVerdict ==
  \A result \in returned \ {Err} :
    (result.exit_reason = "sig9" /\ kill_returned = {})
      => result.exit_status \in {"TLE", "MLE"}

\* The jailed program never runs unsupervised: when the child passes the second
\* barrier the parent has set all listeners up, the tracer's options included.
SupervisedExec ==
  cpc \in {"exec", "program", "faulting"} =>
    /\ "parent" \in parent_ready
    /\ Has("MEMORY") => TracesExit(proc)

\* With a limit, the supervising thread is in TIMEOUT_THREAD_DATA throughout
\* the loop, and still when remove_timeout_thread asserts it; a thread that is
\* in the set without supervising was left there by a run that failed.
TimeoutRegistration ==
  \A t \in Threads :
    /\ requires_timeout /\ pc[t] \in Loop \cup {"remove_timeout"} => t \in timeout_data
    /\ t \in timeout_data =>
         Running(t) \/ Err \in returned \/ run_once = "poisoned"

\* run never waits at parent_ready_barrier for a child that cannot arrive any
\* more, unless kill was called.
BarrierHangNeedsKill ==
  (\E t \in Threads : pc[t] = "barrier_wait" /\ "child" \notin parent_ready)
  => proc.state \in {"run", "stop"} \/ kill_returned # {}

\* The child runs on in the freed context only if the handle was dropped without a
\* call of run, or after a run that failed: its SIGKILL is asynchronous and its
\* waitpid does not wait, but at least the SIGKILL has been sent.  A run that
\* returned a result, or that panicked, leaves nothing that uses the context.
FreedContextUse ==
  cpc = "freed" =>
    \/ run_once = "new"
    \/ Err \in returned /\ (proc.state \in {"run", "stop"} => "SIGKILL" \in proc.pending)

\* What the handle's clients can tell of the child and of run.
HandleChild ==
  IF proc.state = "none" THEN "none"
  ELSE IF proc.state = "zombie" THEN "dead"
  ELSE IF proc.state = "reaped" THEN "reaped" ELSE "alive"
HandleCode == IF proc.state \in {"zombie", "reaped"} THEN proc.code ELSE NoStatus
HandleOutcome ==
  IF run_once = "done" THEN "settled" ELSE IF run_once = "poisoned" THEN "poisoned" ELSE "open"
HandleResult == IF run_once = "done" THEN execution_result ELSE NewResult

\* JailedChild implements ChildHandle: kill fails only on a pid that is gone and
\* with run still to finish, one call of run settles the outcome, and the value
\* it settles, an error or the true end of a child reaped by then, is the only
\* result later calls return.
Handle == INSTANCE ChildHandle WITH
  child <- HandleChild, code <- HandleCode, outcome <- HandleOutcome, result <- HandleResult

ImplementsHandle == Handle!Spec

\* run's documentation: "This function will continue to have the same return
\* value after it has been called at least once."
SameReturnValue == \A a, b \in returned : a = b

\* kill's documentation: "If the child has already exited, Ok(()) is returned."
KillReturnsOk == "Err" \notin kill_returned

-----------------------------------------------------------------------------
(* Liveness, under FairSpec.                                               *)

\* A child with a real time limit cannot keep run from returning, whatever it
\* does: SIGUSR1 keeps waking the loop until the limit is noticed.
TimeLimitEndsRun ==
  \A t \in Threads :
    (settings.limit = "TIME" /\ pc[t] \in Loop) ~> pc[t] \notin Loop

\* A SIGKILL sent while run supervises the child makes run return.
KillEndsRun ==
  \A t \in Threads : ("SIGKILL" \in proc.pending /\ pc[t] \in Loop) ~> run_once # "running"

\* The handshake before exec completes if kill is not called meanwhile.
HandshakeCompletes ==
  \A t \in Threads :
    pc[t] = "barrier_wait" ~> (pc[t] # "barrier_wait" \/ kill_returned # {})

\* spawn returns, unless the child (or clone) failed before child_ready_barrier.
SpawnCompletes ==
  handle = "spawning" ~> (handle # "spawning" \/ child_error = "Some")

\* The example in kill's documentation calls kill and then expects run to
\* return: "child.run().unwrap().exit_reason" is Killed by signal 9.
RunAfterKillReturns ==
  \A t \in Threads : (pc[t] = "barrier_wait" /\ kill_returned # {}) ~> pc[t] # "barrier_wait"

\* The documentation of ExitStatus::RE: "the child process encountered a runtime
\* error (for example, a segmentation fault)": a fault ends the run.
SegfaultEndsRun ==
  (cpc = "faulting" /\ run_once = "running") ~> run_once # "running"
=============================================================================
