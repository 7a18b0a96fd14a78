------------------------------- MODULE Process -------------------------------
(***************************************************************************)
(* A child process as the kernel keeps it, and what the system calls of    *)
(* the code do to it: signals, stops, tracing and reaping.                 *)
(***************************************************************************)
EXTENDS ExecutionResult

ProcState == {"none", "run", "stop", "exitstop", "dying", "zombie", "reaped"}

\* The status waitid will report, the signals pending, and the tracer's options.
Process ==
  [state : ProcState, code : ExitReason \cup {NoStatus},
   pending : SUBSET {"SIGKILL", "SIGSTOP"},
   tracing : {"none", "attached", "traceexit"}]

\* The pid names this child: until it is reaped, kill(2) on it cannot fail and
\* cannot reach another process.
Exists(p) == p.state \notin {"none", "reaped"}
Traced(p) == p.tracing # "none"
TracesExit(p) == p.tracing = "traceexit"   \* PTRACE_O_TRACEEXIT is set
Stopped(p) == p.state \in {"stop", "exitstop"}

SetState(p, state) == [p EXCEPT !.state = state]

\* A wait that reaps leaves a living child alone.
Reap(p) == IF p.state = "zombie" THEN SetState(p, "reaped") ELSE p

\* What waitid says of a process that has ended or stopped: nix reports every
\* stop of a tracee as a PtraceEvent.
WaitStatus(p) ==
  IF p.state = "zombie" THEN p.code ELSE IF Traced(p) THEN "ptrace" ELSE "stopped"

\* PTRACE_ATTACH sends a SIGSTOP; PTRACE_SETOPTIONS comes after that stop.
Attach(p) == [p EXCEPT !.tracing = "attached", !.pending = @ \cup {"SIGSTOP"}]
SetOptions(p) == [p EXCEPT !.tracing = "traceexit"]

\* Pending signals take effect.
TakeStop(p) == [p EXCEPT !.state = "stop", !.pending = @ \ {"SIGSTOP"}]
Die(p, state) == [p EXCEPT !.state = state, !.code = "sig9", !.pending = {}]

\* kill_pid: SIGKILL ends a stop at once; it takes effect later (KernelKill).
kill_pid(p) ==
  CASE p.state \in {"run", "stop"} ->
         [p EXCEPT !.state = "run", !.pending = @ \cup {"SIGKILL"}]
    [] p.state = "exitstop"        -> SetState(p, "dying")
    [] OTHER                       -> p

\* PTRACE_CONT of a stopped tracee, with no signal to deliver.
Resume(p) ==
  SetState(p, IF p.state = "stop" THEN "run" ELSE "dying")

\* A stop of the running child; a pending SIGKILL wins over it.
Stop(p) == IF "SIGKILL" \in p.pending THEN p ELSE SetState(p, "stop")

\* The process starts to exit: under PTRACE_O_TRACEEXIT it stops on the way.
BeginExit(p, code) ==
  [p EXCEPT !.code = code, !.pending = {},
            !.state = IF TracesExit(p) /\ "SIGKILL" \notin p.pending
                      THEN "exitstop" ELSE "dying"]
=============================================================================
