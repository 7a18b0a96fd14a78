----------------------- MODULE JailedChildResultProofs -----------------------
(***************************************************************************)
(* What run returns and leaves behind, for any number of threads, calls,   *)
(* feature sets and faults: the results, the registration for timeouts,    *)
(* the barrier and the freed context; and, at the end, that JailedChild    *)
(* implements ChildHandle.                                                 *)
(*                                                                         *)
(* The properties speak of the end of run; the parts of RunInv say what    *)
(* holds on the way there: who runs (Ownership), how far the child is      *)
(* (Place), what has doomed it (Doom), when its context is gone (Freed),   *)
(* who is registered (Registration), what the result so far has to do with *)
(* the child (Report) and with SIGKILL (Blame).                            *)
(***************************************************************************)
EXTENDS JailedChildProofs

\* The child has begun to exit.
Leaving(p) == p.state \in {"exitstop", "dying", "zombie", "reaped"}

\* The child is dead, or nothing keeps it from dying.
Doomed(p) == "SIGKILL" \in p.pending \/ Leaving(p)

\* A child that leaves has a reason to.
Coded(p) == Leaving(p) => p.code \in ExitReason

\* SIGKILL ends the child, or has ended it.
Killed(p) == "SIGKILL" \in p.pending \/ p.code = "sig9"

\* run_saving_result has sent its own SIGKILL.
Finishing == {"finish_state", "finish_reap", "return"}
Ended == run_once \in {"done", "poisoned"} \/ \E t \in Threads : pc[t] \in Finishing

\* The Once is running exactly while some thread is inside, calls are made on a
\* live handle, nothing is returned before the first run is over, and an error is
\* only there on its way to the caller.
Ownership ==
  /\ run_once = "running" => internals \in Threads /\ pc[internals] \in RunBody \cup {"return"}
  /\ run_once # "done" => returned = {}
  /\ run_once = "done" => returned # {}
  /\ run_once = "done" => child_state = "Reaped"
  /\ run_once \in {"new", "done"} => run_error = "None"
  /\ \A t \in Threads :
       /\ pc[t] \in Busy => handle = "jailed"
       /\ pc[t] = "return" => run_once \in {"running", "done"} /\ child_state = "Reaped"
       /\ pc[t] \in RunBody \ {"finish_kill", "finish_state", "finish_reap"} => run_error = "None"

\* How far the child is, as the barriers tell.
Place ==
  /\ cpc = "none" => proc.state = "none"
  /\ handle \in {"jailed", "dropped"} => "child" \in child_ready
  /\ cpc \in {"none", "setup", "ready"} => "child" \notin child_ready
  /\ "child" \in child_ready => cpc \in {"ready_wait", "go", "freed"} \/ "child" \in parent_ready
  /\ cpc \in {"go_wait", "exec", "program", "faulting"} => "child" \in parent_ready
  /\ \A t \in Threads : pc[t] \in Loop => "child" \in parent_ready

\* The child dies after a kill, by itself once it has passed the barriers or has
\* failed, or at the end of run; and at the end of run it does.
Doom ==
  /\ Coded(proc)
  /\ Doomed(proc) =>
       kill_returned # {} \/ "child" \in parent_ready \/ cpc \in {"exiting", "freed"} \/ Ended
  /\ Ended => Doomed(proc)

\* The context is freed with the handle, after spawn is over, and from then on
\* nobody reaps the child; a panic of run means that it has been reaped.
Freed ==
  /\ \A t \in Threads : pc[t] = "spawn_wait" =>
       handle = "spawning" /\ \A u \in Threads : pc[u] = "spawn_wait" => u = t
  /\ cpc = "freed" => handle = "dropped" /\ proc.state # "reaped"
  /\ run_once = "poisoned" => proc.state = "reaped"

\* From add_timeout_thread to remove_timeout_thread.
Registered == {"barrier", "barrier_wait", "remove_timeout"} \cup Loop

Registration ==
  \A t \in Threads :
    /\ requires_timeout /\ pc[t] \in Registered => t \in timeout_data
    /\ t \in timeout_data => requires_timeout
    /\ t \in timeout_data =>
         \/ pc[t] \in Registered
         \/ pc[t] \in Finishing \cup {"finish_kill"} /\ run_error = "Some"
         \/ Err \in returned
         \/ run_once = "poisoned"

\* The result tells how the process ended.
Agrees(result, p) ==
  /\ result.exit_reason = p.code
  /\ result.exit_status = "OK" => p.code = "exit0"
  /\ result.exit_status = "RE" => p.code # "exit0"

\* The body of run up to set_exit_reason, and from there to the SIGKILL.
Open == RunBody \ {"remove_timeout", "post_execute", "propagate2", "finish_kill",
                   "finish_state", "finish_reap"}
Told == {"remove_timeout", "post_execute", "propagate2"}

\* No reason and no runtime error before the child has ended; what waitid said of
\* the end stays true; then the result agrees with the child until run returns.
ReportAt(t) ==
  /\ pc[t] \in Open =>
       execution_result.exit_status # "RE" /\ execution_result.exit_reason = "exit0"
  /\ pc[t] \in {"propagate1", "execute_event"} /\ wait_info \in ExitReason =>
       proc.state = "zombie" /\ wait_info = proc.code
  /\ \/ pc[t] \in Told
     \/ pc[t] \in {"finish_kill", "finish_state", "finish_reap"} /\ run_error = "None"
     => proc.state = "zombie" /\ Agrees(execution_result, proc)
  /\ pc[t] = "return" /\ run_once = "running" /\ run_error = "None" =>
       proc.state = "reaped" /\ Agrees(execution_result, proc)

\* A limit verdict is never premature.
Limited == execution_result.exit_status \in {"TLE", "MLE"}
LimitOver == Limited => over

Report ==
  /\ LimitOver
  /\ run_once = "new" => execution_result = NewResult
  /\ \A t \in Threads : ReportAt(t)
  /\ run_once = "done" /\ Err \notin returned =>
       proc.state = "reaped" /\ Agrees(execution_result, proc)
  /\ returned \subseteq {Err, execution_result}

\* Without a kill, SIGKILL is the limit's until run_saving_result sends its own.
Blame ==
  /\ \A t \in Threads : pc[t] = "limit_kill" => Limited
  /\ Killed(proc) => kill_returned # {} \/ Limited \/ Ended
  /\ execution_result.exit_reason = "sig9" /\ kill_returned = {} => Limited

RunInv == IndInv /\ Ownership /\ Place /\ Doom /\ Freed /\ Registration /\ Report /\ Blame

-----------------------------------------------------------------------------
(* What the operators on the process do to one that is ending.             *)

\* From p to q: a dead child stays as it is, a doomed one stays doomed.
Keeps(q, p) ==
  /\ p.state \in {"zombie", "reaped"} => q.state = p.state /\ q.code = p.code
  /\ Doomed(p) => Doomed(q)
  /\ Coded(p) => Coded(q)

\* And nothing new dooms it.
Quiet(q, p) ==
  /\ Keeps(q, p)
  /\ Doomed(q) => Doomed(p)
  /\ Killed(q) => Killed(p)

\* Stops, resumptions, tracing and the progress of a death are quiet.
LEMMA ProcQuiet ==
  ASSUME NEW p \in Process
  PROVE  /\ Quiet(p, p) /\ Quiet(Attach(p), p) /\ Quiet(SetOptions(p), p)
         /\ p.state = "run" => Quiet(Stop(p), p) /\ Quiet(TakeStop(p), p)
         /\ Stopped(p) => Quiet(Resume(p), p)
         /\ p.state \in {"none", "stop"} => Quiet(SetState(p, "run"), p)
         /\ p.state = "dying" => Quiet(SetState(p, "zombie"), p)
         /\ p.state = "run" /\ "SIGKILL" \in p.pending =>
              \A state \in {"dying", "exitstop"} : Quiet(Die(p, state), p)
<1> USE DEF Process, Quiet, Keeps, Doomed, Killed, Coded, Leaving
<1>1. Quiet(p, p) /\ Quiet(SetOptions(p), p)
  BY DEF SetOptions
<1>2. Quiet(Attach(p), p)
  BY DEF Attach
<1>3. p.state = "run" => Quiet(Stop(p), p)
  BY DEF Stop, SetState
<1>4. p.state = "run" => Quiet(TakeStop(p), p)
  BY DEF TakeStop
<1>5. Stopped(p) => Quiet(Resume(p), p)
  BY DEF Stopped, Resume, SetState
<1>6. /\ p.state \in {"none", "stop"} => Quiet(SetState(p, "run"), p)
      /\ p.state = "dying" => Quiet(SetState(p, "zombie"), p)
  BY DEF SetState
<1>7. ASSUME p.state = "run", "SIGKILL" \in p.pending, NEW state \in {"dying", "exitstop"}
      PROVE  Quiet(Die(p, state), p)
  BY <1>7 DEF Die, ExitReason
<1> QED
  BY <1>1, <1>2, <1>3, <1>4, <1>5, <1>6, <1>7

\* A program that exits by itself was not killed, and is not from then on.
LEMMA ProcExit ==
  ASSUME NEW p \in Process, NEW code \in ExitReason \ {"sig9"}, p.state = "run"
  PROVE  /\ Keeps(BeginExit(p, code), p)
         /\ ~Killed(BeginExit(p, code))
<1> USE DEF Process, Keeps, Doomed, Killed, Coded, Leaving, BeginExit
<1>1. BeginExit(p, code).state \in {"exitstop", "dying"}
  OBVIOUS
<1>2. BeginExit(p, code).code = code /\ BeginExit(p, code).pending = {}
  OBVIOUS
<1> QED
  BY <1>1, <1>2

\* SIGKILL dooms a child, and Reap does to a zombie what its name says.
LEMMA ProcKill ==
  ASSUME NEW p \in Process
  PROVE  /\ Keeps(kill_pid(p), p)
         /\ p.state # "none" => Doomed(kill_pid(p))
         /\ Doomed(Reap(p)) <=> Doomed(p)
         /\ Killed(Reap(p)) <=> Killed(p)
         /\ Coded(p) => Coded(Reap(p))
         /\ Reap(p).code = p.code
         /\ p.state \in {"zombie", "reaped"} => Reap(p).state = "reaped"
         /\ p.state \notin {"zombie"} => Reap(p) = p
<1> USE DEF Process, ProcState, Keeps, Doomed, Killed, Coded, Leaving, SetState
<1>1. CASE p.state \in {"run", "stop"}
  BY <1>1 DEF kill_pid, Reap
<1>2. CASE p.state = "exitstop"
  BY <1>2 DEF kill_pid, Reap
<1>3. CASE p.state \in {"none", "dying", "zombie", "reaped"}
  BY <1>3 DEF kill_pid, Reap
<1> QED
  BY <1>1, <1>2, <1>3

-----------------------------------------------------------------------------
(* More of what steps leave alone.                                         *)

\* The detached thread, the child and the kernel touch nothing run is made of; an
\* exceeded limit stays exceeded.
Bystanding ==
  /\ UNCHANGED <<settings, handle, pc, mutexes, history, runVars, execution_result>>
  /\ over => over'

LEMMA BystandingSteps == Cloner \/ ChildStep \/ KernelStep \/ Environment => Bystanding
<1> SUFFICES ASSUME Cloner \/ ChildStep \/ KernelStep \/ Environment PROVE Bystanding
  OBVIOUS
<1> USE DEF data, shared, mutexes, history, runVars, outside, Bystanding
<1>1. CASE Cloner
  BY <1>1 DEF Cloner, CloneChild, CloneFails
<1>2. CASE ChildStep
  BY <1>2 DEF ChildStep, PreExec, Child, ChildSetup, ChildSetupFails, ChildArrivesReady,
              ChildLeavesReady, ChildArrivesGo, ChildLeavesGo, ChildExecs, ChildExecFails,
              ChildStoresError, ChildReturns
<1>3. CASE KernelStep
  BY <1>3 DEF KernelStep, KernelKill, KernelStop, KernelZombie
<1>4. CASE Environment
  BY <1>4 DEF Environment, Child, ProgramExits, ProgramFaults, FaultSignal, ProgramStops,
              ProgramContinues, ExceedLimit, ChildUsesFreed
<1> QED
  BY <1>1, <1>2, <1>3, <1>4

\* Who is inside run, and what is known of the returns.
LEMMA OwnershipNext ==
  TypeOK /\ Exclusion /\ Reaping /\ Ownership /\ [Next]_vars => Ownership'
<1> SUFFICES ASSUME TypeOK, Exclusion, Reaping, Ownership, [Next]_vars PROVE Ownership'
  OBVIOUS
<1> USE ConstantsAssumption DEF mutexes, history, runVars, outside, RunBody, Busy
<1>t. pc \in [Threads -> ThreadPC]
  BY DEF TypeOK
<1>1. ASSUME NEW t \in Threads, ClientCall(t) \/ SpawnReturns(t) PROVE Ownership'
  <2> USE DEF Goto
  <2>1. CASE Spawn(t) \/ SpawnFails(t)
    BY <2>1, <1>t DEF Ownership, Exclusion, Spawn, SpawnFails
  <2>2. CASE RunCall(t) \/ KillCall(t)
    BY <2>2, <1>t DEF Ownership, Exclusion, RunCall, KillCall
  <2>3. CASE SpawnReturns(t)
    BY <2>3, <1>t DEF Ownership, Exclusion, SpawnReturns
  <2> QED
    BY <1>1, <2>1, <2>2, <2>3 DEF ClientCall
<1>2. ASSUME NEW t \in Threads, KillStep(t) PROVE Ownership'
  <2> USE DEF Goto
  <2>1. CASE KillLock(t)
    BY <2>1, <1>t DEF Ownership, Exclusion, KillLock
  <2>2. CASE KillSend(t)
    BY <2>2, <1>t DEF Ownership, Exclusion, KillSend
  <2> QED
    BY <1>2, <2>1, <2>2 DEF KillStep
<1>3. ASSUME NEW t \in Threads, RunStep(t) PROVE Ownership'
  <2> USE DEF Goto, Fail
  <2>1. CASE RunLock(t)
    BY <2>1, <1>t DEF Ownership, Exclusion, RunLock
  <2>2. CASE propagate_child_error(t, "propagate0", "post_clone") \/ OnPostCloneParent(t)
    BY <2>2, <1>t DEF Ownership, Exclusion, propagate_child_error, OnPostCloneParent
  <2>3. CASE PtraceAttach(t) \/ PtraceWait(t)
    BY <2>3, <1>t DEF Ownership, Exclusion, PtraceAttach, PtraceWait
  <2>4. CASE PtraceSetOptions(t) \/ PtraceCont(t)
    BY <2>4, <1>t DEF Ownership, Exclusion, PtraceSetOptions, PtraceCont
  <2>5. CASE AddTimeoutThread(t) \/ ParentArrivesGo(t) \/ ParentLeavesGo(t)
    BY <2>5, <1>t DEF Ownership, Exclusion, AddTimeoutThread, ParentArrivesGo, ParentLeavesGo
  <2>6. CASE OnWakeup(t)
    BY <2>6, <1>t DEF Ownership, Exclusion, OnWakeup
  <2>7. CASE LimitKill(t) \/ Waitid(t) \/ WaitidInterrupted(t)
    BY <2>7, <1>t DEF Ownership, Exclusion, LimitKill, Waitid, WaitidInterrupted
  <2>8. CASE \/ propagate_child_error(t, "propagate1", "execute_event")
             \/ propagate_child_error(t, "propagate2", "finish_kill")
    BY <2>8, <1>t DEF Ownership, Exclusion, propagate_child_error
  <2>9. CASE OnExecuteEvent(t)
    BY <2>9, <1>t DEF Ownership, Exclusion, OnExecuteEvent
  <2>10. CASE RemoveTimeoutThread(t) \/ OnPostExecute(t)
    BY <2>10, <1>t DEF Ownership, Exclusion, RemoveTimeoutThread, OnPostExecute
  <2>11. CASE FinishKill(t)
    BY <2>11, <1>t DEF Ownership, Exclusion, FinishKill
  <2>12. CASE FinishState(t) \/ FinishReap(t)
    BY <2>12, <1>t DEF Ownership, Exclusion, Reaping, FinishState, FinishReap
  <2>13. CASE RunReturn(t)
    BY <2>13, <1>t DEF Ownership, Exclusion, RunReturn
  <2> QED
    BY <1>3, <2>1, <2>2, <2>3, <2>4, <2>5, <2>6, <2>7, <2>8, <2>9, <2>10, <2>11, <2>12, <2>13
    DEF RunStep
<1>4. CASE DropHandle
  BY <1>4 DEF Ownership, DropHandle
<1>5. CASE Cloner \/ ChildStep \/ KernelStep \/ Environment
  BY <1>5, BystandingSteps DEF Ownership, Bystanding
<1>6. CASE UNCHANGED vars
  BY <1>6 DEF Ownership, vars
<1> QED
  BY <1>1, <1>2, <1>3, <1>4, <1>5, <1>6 DEF Next

\* The child's own steps move it past the barriers in order.
LEMMA PlaceNext == TypeOK /\ Handshake /\ Place /\ [Next]_vars => Place'
<1> SUFFICES ASSUME TypeOK, Handshake, Place, [Next]_vars PROVE Place'
  OBVIOUS
<1> USE DEF data, shared, mutexes, history, runVars, outside, Loop, RunBody, Busy
<1>t. pc \in [Threads -> ThreadPC]
  BY DEF TypeOK
<1>1. ASSUME NEW t \in Threads, ClientCall(t) \/ SpawnReturns(t) PROVE Place'
  <2> USE DEF Goto
  <2>1. CASE Spawn(t) \/ SpawnFails(t)
    BY <2>1, <1>t DEF Place, Spawn, SpawnFails
  <2>2. CASE RunCall(t) \/ KillCall(t)
    BY <2>2, <1>t DEF Place, RunCall, KillCall
  <2>3. CASE SpawnReturns(t)
    BY <2>3, <1>t DEF Place, SpawnReturns
  <2> QED
    BY <1>1, <2>1, <2>2, <2>3 DEF ClientCall
<1>2. ASSUME NEW t \in Threads, KillStep(t) PROVE Place'
  BY <1>2, <1>t DEF Place, Handshake, KillStep, KillLock, KillSend, Goto
<1>3. ASSUME NEW t \in Threads, RunStep(t) PROVE Place'
  <2> USE DEF Goto, Fail
  <2>1. cpc # "none" /\ cpc' = cpc /\ handle' = handle /\ child_ready' = child_ready
    <3>1. pc[t] \in Busy
      BY <1>3 DEF RunStep, RunLock, propagate_child_error, OnPostCloneParent, PtraceAttach,
           PtraceWait, PtraceSetOptions, PtraceCont, AddTimeoutThread, ParentArrivesGo,
           ParentLeavesGo, OnWakeup, LimitKill, Waitid, WaitidInterrupted, OnExecuteEvent,
           RemoveTimeoutThread, OnPostExecute, FinishKill, FinishState, FinishReap, RunReturn
    <3>2. cpc' = cpc /\ handle' = handle /\ child_ready' = child_ready
      BY <1>3 DEF RunStep, RunLock, propagate_child_error, OnPostCloneParent, PtraceAttach,
           PtraceWait, PtraceSetOptions, PtraceCont, AddTimeoutThread, ParentArrivesGo,
           ParentLeavesGo, OnWakeup, LimitKill, Waitid, WaitidInterrupted, OnExecuteEvent,
           RemoveTimeoutThread, OnPostExecute, FinishKill, FinishState, FinishReap, RunReturn
    <3> QED
      BY <3>1, <3>2 DEF Place, Handshake
  <2>2. CASE ParentArrivesGo(t)
    BY <2>1, <2>2, <1>t DEF Place, ParentArrivesGo
  <2>3. CASE ParentLeavesGo(t)
    BY <2>1, <2>3, <1>t DEF Place, ParentLeavesGo
  <2>4. CASE SuperviseStep(t) /\ ~ParentLeavesGo(t)
    <3>1. pc[t] \in Loop \/ pc'[t] \notin Loop
      BY <2>4, <1>t DEF SuperviseStep, propagate_child_error, OnWakeup, LimitKill, Waitid,
           WaitidInterrupted, OnExecuteEvent, RemoveTimeoutThread, OnPostExecute
    <3> QED
      BY <2>1, <2>4, <3>1, <1>t, SuperviseSteps DEF Place, Supervision
  <2>5. CASE ~ParentArrivesGo(t) /\ ~SuperviseStep(t)
    <3>1. /\ parent_ready' = parent_ready
          /\ \E there \in ThreadPC \ Loop : pc' = [pc EXCEPT ![t] = there]
      BY <2>5, <1>3, RunSteps DEF RunLock, propagate_child_error, OnPostCloneParent, PtraceAttach,
           PtraceWait, PtraceSetOptions, PtraceCont, AddTimeoutThread,
           FinishKill, FinishState, FinishReap, RunReturn, ThreadPC
    <3> QED
      BY <2>1, <3>1, <1>t DEF Place
  <2> QED
    BY <2>2, <2>3, <2>4, <2>5
<1>4. CASE DropHandle
  BY <1>4 DEF Place, DropHandle
<1>5. CASE Cloner
  BY <1>5 DEF Place, Cloner, CloneChild, CloneFails
<1>6. CASE ChildStep
  <2> USE DEF PreExec, Child
  <2>1. CASE ChildSetup \/ ChildSetupFails \/ ChildArrivesReady \/ ChildLeavesReady
    BY <1>6, <2>1 DEF Place, ChildSetup, ChildSetupFails, ChildArrivesReady, ChildLeavesReady
  <2>2. CASE ChildArrivesGo \/ ChildLeavesGo
    BY <2>2 DEF Place, ChildArrivesGo, ChildLeavesGo
  <2>3. CASE ChildExecs \/ ChildExecFails \/ ChildStoresError \/ ChildReturns
    BY <2>3 DEF Place, ChildExecs, ChildExecFails, ChildStoresError, ChildReturns
  <2> QED
    BY <1>6, <2>1, <2>2, <2>3 DEF ChildStep
<1>7. CASE KernelStep
  BY <1>7 DEF Place, KernelStep, KernelKill, KernelStop, KernelZombie
<1>8. CASE Environment
  BY <1>8 DEF Place, Environment, Child, ProgramExits, ProgramFaults, FaultSignal, ProgramStops,
              ProgramContinues, ExceedLimit, ChildUsesFreed
<1>9. CASE UNCHANGED vars
  BY <1>9 DEF Place, vars
<1> QED
  BY <1>1, <1>2, <1>3, <1>4, <1>5, <1>6, <1>7, <1>8, <1>9 DEF Next

\* Left to itself the child stays dead or doomed, is killed by nobody, and dies
\* only after it has failed, has passed the barriers, or has lost its context.
Withering ==
  /\ Keeps(proc', proc)
  /\ Killed(proc') => Killed(proc)
  /\ Doomed(proc') => Doomed(proc) \/ cpc' \in {"exiting", "freed"} \/ "child" \in parent_ready'
  /\ cpc \in {"exiting", "freed"} => cpc' \in {"exiting", "freed"}

LEMMA WitheringSteps ==
  TypeOK /\ Place /\ (Cloner \/ ChildStep \/ KernelStep \/ Environment) => Withering
<1> SUFFICES ASSUME TypeOK, Place, Cloner \/ ChildStep \/ KernelStep \/ Environment
             PROVE  Withering
  OBVIOUS
<1> USE DEF data, shared, runVars, outside
<1>p. proc \in Process
  BY DEF TypeOK
<1>q. ASSUME Quiet(proc', proc), cpc \in {"exiting", "freed"} => cpc' \in {"exiting", "freed"}
      PROVE  Withering
  BY <1>q DEF Quiet, Withering
<1>1. CASE CloneChild
  BY <1>1, <1>p, <1>q, ProcQuiet DEF CloneChild, Place
<1>2. CASE CloneFails
  BY <1>2, <1>p, <1>q, ProcQuiet DEF CloneFails
<1>3. CASE ChildStep
  <2> USE DEF PreExec, Child
  <2>1. CASE ChildSetup \/ ChildSetupFails \/ ChildExecFails \/ ChildStoresError
    BY <2>1, <1>p, <1>q, ProcQuiet DEF ChildSetup, ChildSetupFails, ChildExecFails, ChildStoresError
  <2>2. CASE ChildArrivesReady \/ ChildLeavesReady \/ ChildArrivesGo \/ ChildLeavesGo
    BY <2>2, <1>p, <1>q, ProcQuiet
    DEF ChildArrivesReady, ChildLeavesReady, ChildArrivesGo, ChildLeavesGo
  <2>3. CASE ChildExecs
    BY <2>3, <1>p, <1>q, ProcQuiet DEF ChildExecs
  <2>4. CASE ChildReturns
    BY <2>4, <1>p, ProcExit DEF ChildReturns, Withering, ExitReason
  <2> QED
    BY <1>3, <2>1, <2>2, <2>3, <2>4 DEF ChildStep
<1>4. CASE KernelStep
  <2>1. CASE KernelKill
    BY <2>1, <1>p, <1>q, ProcQuiet DEF KernelKill
  <2>2. CASE KernelStop \/ KernelZombie
    BY <2>2, <1>p, <1>q, ProcQuiet DEF KernelStop, KernelZombie
  <2> QED
    BY <1>4, <2>1, <2>2 DEF KernelStep
<1>5. CASE Environment
  <2> USE DEF Child
  <2>1. CASE ProgramExits
    <3>1. PICK code \in {"exit0", "exit1"} : proc' = BeginExit(proc, code)
      BY <2>1 DEF ProgramExits
    <3> QED
      BY <2>1, <3>1, <1>p, ProcExit DEF ProgramExits, Withering, ExitReason, Place
  <2>2. CASE FaultSignal
    <3>1. CASE Traced(proc)
      BY <2>2, <3>1, <1>p, <1>q, ProcQuiet DEF FaultSignal
    <3>2. CASE ~Traced(proc)
      BY <2>2, <3>2, <1>p, ProcExit DEF FaultSignal, Withering, ExitReason, Place
    <3> QED
      BY <3>1, <3>2
  <2>3. CASE ProgramFaults \/ ProgramStops
    BY <2>3, <1>p, <1>q, ProcQuiet DEF ProgramFaults, ProgramStops
  <2>4. CASE ProgramContinues \/ ExceedLimit
    BY <2>4, <1>p, <1>q, ProcQuiet DEF ProgramContinues, ExceedLimit
  <2>5. CASE ChildUsesFreed
    <3>1. proc.state = "run" /\ cpc' = "freed"
      BY <2>5 DEF ChildUsesFreed
    <3>2. proc' \in {proc, Stop(proc), BeginExit(proc, "sig11")}
      BY <2>5 DEF ChildUsesFreed
    <3>3. CASE proc' \in {proc, Stop(proc)}
      BY <3>1, <3>3, <1>p, <1>q, ProcQuiet
    <3>4. CASE proc' = BeginExit(proc, "sig11")
      BY <3>1, <3>4, <1>p, ProcExit DEF Withering, ExitReason
    <3> QED
      BY <3>2, <3>3, <3>4
  <2> QED
    BY <1>5, <2>1, <2>2, <2>3, <2>4, <2>5 DEF Environment
<1> QED
  BY <1>1, <1>2, <1>3, <1>4, <1>5 DEF Cloner

\* What a step of run does to the child: it kills, it reaps, or it is quiet.
LEMMA RunProc ==
  ASSUME TypeOK, NEW t \in Threads, RunStep(t)
  PROVE  \/ Quiet(proc', proc)
         \/ (LimitKill(t) \/ FinishKill(t)) /\ proc' = kill_pid(proc)
         \/ (PtraceWait(t) \/ FinishReap(t)) /\ proc' = Reap(proc)
<1> USE DEF outside, mutexes, runVars
<1>p. proc \in Process
  BY DEF TypeOK
<1>q. Quiet(proc, proc) /\ Quiet(Attach(proc), proc) /\ Quiet(SetOptions(proc), proc)
  BY <1>p, ProcQuiet
<1>r. Stopped(proc) => Quiet(Resume(proc), proc)
  BY <1>p, ProcQuiet
<1>1. CASE \/ RunLock(t) \/ OnPostCloneParent(t)
           \/ propagate_child_error(t, "propagate0", "post_clone")
           \/ propagate_child_error(t, "propagate1", "execute_event")
           \/ propagate_child_error(t, "propagate2", "finish_kill")
  BY <1>1, <1>q DEF RunLock, OnPostCloneParent, propagate_child_error
<1>2. CASE PtraceAttach(t) \/ PtraceSetOptions(t)
  BY <1>2, <1>q DEF PtraceAttach, PtraceSetOptions
<1>3. CASE PtraceCont(t) \/ OnExecuteEvent(t)
  BY <1>3, <1>q, <1>r DEF PtraceCont, OnExecuteEvent, Stopped
<1>4. CASE AddTimeoutThread(t) \/ ParentArrivesGo(t) \/ ParentLeavesGo(t) \/ OnWakeup(t)
  BY <1>4, <1>q DEF AddTimeoutThread, ParentArrivesGo, ParentLeavesGo, OnWakeup
<1>5. CASE Waitid(t) \/ WaitidInterrupted(t) \/ RemoveTimeoutThread(t) \/ OnPostExecute(t)
  BY <1>5, <1>q DEF Waitid, WaitidInterrupted, RemoveTimeoutThread, OnPostExecute
<1>6. CASE FinishState(t) \/ RunReturn(t)
  BY <1>6, <1>q DEF FinishState, RunReturn
<1>7. CASE LimitKill(t)
  BY <1>7 DEF LimitKill
<1>8. CASE FinishKill(t)
  BY <1>8, <1>q DEF FinishKill
<1>9. CASE PtraceWait(t) \/ FinishReap(t)
  BY <1>9, <1>q DEF PtraceWait, FinishReap
<1> QED
  BY <1>1, <1>2, <1>3, <1>4, <1>5, <1>6, <1>7, <1>8, <1>9 DEF RunStep

\* run ends with the SIGKILL of run_saving_result, and ends for good.
LEMMA EndedSteps ==
  ASSUME TypeOK, Exclusion, NEW t \in Threads, RunStep(t)
  PROVE  /\ Ended => Ended'
         /\ Ended' => Ended \/ FinishKill(t)
<1> USE DEF outside, mutexes, runVars, Ended, Finishing, Goto, Fail
<1>t. pc \in [Threads -> ThreadPC]
  BY DEF TypeOK
<1>1. CASE RunLock(t)
  BY <1>1, <1>t DEF RunLock
<1>2. CASE propagate_child_error(t, "propagate0", "post_clone") \/ OnPostCloneParent(t)
  BY <1>2, <1>t DEF propagate_child_error, OnPostCloneParent
<1>3. CASE PtraceAttach(t) \/ PtraceWait(t) \/ PtraceSetOptions(t) \/ PtraceCont(t)
  BY <1>3, <1>t DEF PtraceAttach, PtraceWait, PtraceSetOptions, PtraceCont
<1>4. CASE AddTimeoutThread(t) \/ ParentArrivesGo(t)
  BY <1>4, <1>t DEF AddTimeoutThread, ParentArrivesGo
<1>5. CASE SuperviseStep(t)
  BY <1>5, <1>t, SuperviseSteps DEF Supervision, Supervising
<1>6. CASE FinishKill(t)
  BY <1>6, <1>t DEF FinishKill
<1>7. CASE FinishState(t) \/ FinishReap(t)
  BY <1>7, <1>t DEF FinishState, FinishReap
<1>8. CASE RunReturn(t)
  BY <1>8, <1>t DEF RunReturn
<1> QED
  BY RunSteps, <1>1, <1>2, <1>3, <1>4, <1>5, <1>6, <1>7, <1>8

\* The calls and kill are no steps of run.
LEMMA AsideSteps ==
  ASSUME TypeOK, NEW t \in Threads, ClientCall(t) \/ SpawnReturns(t) \/ KillStep(t)
  PROVE  /\ UNCHANGED <<settings, internals, child_state, returned, runVars, execution_result, over>>
         /\ UNCHANGED <<cpc, child_error, parent_ready>>
         /\ pc[t] \in {"idle", "spawn_wait", "kill_lock", "kill_send"}
         /\ \E there \in {"idle", "spawn_wait", "kill_lock", "kill_send", "run_lock"} :
               pc' = [pc EXCEPT ![t] = there]
         /\ ~KillSend(t) => UNCHANGED <<kill_returned, proc>>
<1> USE DEF data, shared, mutexes, history, runVars, Goto, TypeOK
<1>1. CASE Spawn(t) \/ SpawnFails(t) \/ SpawnReturns(t)
  BY <1>1 DEF Spawn, SpawnFails, SpawnReturns
<1>2. CASE RunCall(t) \/ KillCall(t)
  BY <1>2 DEF RunCall, KillCall
<1>3. CASE KillLock(t) \/ KillSend(t)
  BY <1>3 DEF KillLock, KillSend
<1> QED
  BY <1>1, <1>2, <1>3 DEF ClientCall, KillStep

\* Nothing kills the child before its time but kill and a limit.
LEMMA DoomNext ==
  TypeOK /\ Exclusion /\ Handshake /\ Place /\ Doom /\ [Next]_vars => Doom'
<1> SUFFICES ASSUME TypeOK, Exclusion, Handshake, Place, Doom, [Next]_vars PROVE Doom'
  OBVIOUS
<1>t. pc \in [Threads -> ThreadPC]
  BY DEF TypeOK
<1>p. proc \in Process
  BY DEF TypeOK
<1>q. Keeps(kill_pid(proc), proc) /\ (proc.state # "none" => Doomed(kill_pid(proc)))
  BY <1>p, ProcKill
<1>1. ASSUME NEW t \in Threads, ClientCall(t) \/ SpawnReturns(t) \/ KillStep(t) PROVE Doom'
  <2>1. Ended' <=> Ended
    BY <1>1, <1>t, AsideSteps DEF Ended, Finishing, runVars
  <2>2. CASE KillSend(t)
    BY <2>1, <2>2, <1>t, <1>q DEF Doom, KillSend, Keeps
  <2>3. CASE ~KillSend(t)
    BY <2>1, <2>3, <1>1, AsideSteps DEF Doom
  <2> QED
    BY <2>2, <2>3
<1>2. ASSUME NEW t \in Threads, RunStep(t) PROVE Doom'
  <2>1. /\ UNCHANGED <<cpc, kill_returned>>
        /\ "child" \in parent_ready => "child" \in parent_ready'
    BY <1>2 DEF RunStep, RunLock, propagate_child_error, OnPostCloneParent, PtraceAttach,
           PtraceWait, PtraceSetOptions, PtraceCont, AddTimeoutThread, ParentArrivesGo,
           ParentLeavesGo, OnWakeup, LimitKill, Waitid, WaitidInterrupted, OnExecuteEvent,
           RemoveTimeoutThread, OnPostExecute, FinishKill, FinishState, FinishReap, RunReturn,
           outside, history, data, shared
  <2>2. (Ended => Ended') /\ (Ended' => Ended \/ FinishKill(t))
    BY <1>2, EndedSteps
  <2>3. CASE FinishKill(t)
    <3>1. pc[t] = "finish_kill" /\ pc[t] \in Busy
      BY <2>3 DEF FinishKill, Goto, Busy, RunBody
    <3>2. Doomed(proc') /\ Coded(proc')
      BY <2>3, <3>1, <1>p, <1>q DEF Doom, FinishKill, Handshake, Keeps, Exists, Doomed, Leaving
    <3>3. Ended'
      BY <2>3, <1>t DEF FinishKill, Goto, Ended, Finishing
    <3> QED
      BY <3>2, <3>3 DEF Doom
  <2>4. CASE ~FinishKill(t) /\ Quiet(proc', proc)
    BY <2>1, <2>2, <2>4 DEF Doom, Quiet, Keeps
  <2>5. CASE LimitKill(t)
    <3>1. "child" \in parent_ready /\ proc' = kill_pid(proc)
      BY <2>5 DEF LimitKill, Goto, Place, Loop
    <3> QED
      BY <2>1, <2>2, <2>5, <3>1, <1>q DEF Doom, Keeps, LimitKill, Goto, FinishKill
  <2>6. CASE (PtraceWait(t) \/ FinishReap(t)) /\ proc' = Reap(proc)
    <3>1. ~FinishKill(t)
      BY <2>6 DEF PtraceWait, FinishReap, FinishKill, Goto, Fail
    <3>2. (Doomed(proc') <=> Doomed(proc)) /\ (Coded(proc) => Coded(proc'))
      BY <2>6, <1>p, ProcKill
    <3> QED
      BY <2>1, <2>2, <3>1, <3>2 DEF Doom
  <2> QED
    BY <1>2, RunProc, <2>3, <2>4, <2>5, <2>6
<1>3. CASE DropHandle
  BY <1>3 DEF Doom, Ended, DropHandle, data, shared, runVars, history
<1>4. CASE Cloner \/ ChildStep \/ KernelStep \/ Environment
  BY <1>4, WitheringSteps, BystandingSteps, ElsewhereSteps
  DEF Doom, Withering, Keeps, Bystanding, Elsewhere, Ended, history, runVars
<1>5. CASE UNCHANGED vars
  BY <1>5 DEF Doom, Ended, vars, outside, data, shared, history
<1> QED
  BY <1>1, <1>2, <1>3, <1>4, <1>5 DEF Next

\* Nobody is inside run or spawn when the handle is dropped, and nobody gets there.
LEMMA FreedNext ==
  TypeOK /\ Handshake /\ Ownership /\ Place /\ Freed /\ [Next]_vars => Freed'
<1> SUFFICES ASSUME TypeOK, Handshake, Ownership, Place, Freed, [Next]_vars PROVE Freed'
  OBVIOUS
<1>t. pc \in [Threads -> ThreadPC]
  BY DEF TypeOK
<1>p. proc \in Process
  BY DEF TypeOK
<1>k. /\ Keeps(kill_pid(proc), proc)
      /\ kill_pid(proc).state = "reaped" => proc.state = "reaped"
  BY <1>p, ProcKill, ProcFollows DEF Follows
<1>1. ASSUME NEW t \in Threads, ClientCall(t) \/ SpawnReturns(t) PROVE Freed'
  <2>1. UNCHANGED <<run_once, cpc, proc>>
    BY <1>1 DEF ClientCall, Spawn, SpawnFails, RunCall, KillCall, SpawnReturns, runVars
  <2>2. CASE Spawn(t)
    BY <2>1, <2>2, <1>t DEF Freed, Spawn, Goto
  <2>3. CASE SpawnFails(t)
    BY <2>1, <2>3 DEF Freed, SpawnFails
  <2>4. CASE RunCall(t) \/ KillCall(t)
    BY <2>1, <2>4, <1>t DEF Freed, RunCall, KillCall, Goto
  <2>5. CASE SpawnReturns(t)
    BY <2>1, <2>5, <1>t DEF Freed, SpawnReturns, Goto
  <2> QED
    BY <1>1, <2>2, <2>3, <2>4, <2>5 DEF ClientCall
<1>2. ASSUME NEW t \in Threads, KillStep(t) PROVE Freed'
  <2>1. UNCHANGED <<handle, run_once, cpc>> /\ proc' \in {proc, kill_pid(proc)}
    BY <1>2 DEF KillStep, KillLock, KillSend, runVars
  <2>2. \E there \in {"kill_send", "idle"} : pc' = [pc EXCEPT ![t] = there]
    BY <1>2 DEF KillStep, KillLock, KillSend, Goto
  <2> QED
    BY <2>1, <2>2, <1>t, <1>k DEF Freed, Keeps
<1>3. ASSUME NEW t \in Threads, RunStep(t) PROVE Freed'
  <2>1. pc[t] \in Busy /\ UNCHANGED <<cpc, handle>>
    BY <1>3 DEF RunStep, RunLock, propagate_child_error, OnPostCloneParent, PtraceAttach,
         PtraceWait, PtraceSetOptions, PtraceCont, AddTimeoutThread, ParentArrivesGo,
         ParentLeavesGo, OnWakeup, LimitKill, Waitid, WaitidInterrupted, OnExecuteEvent,
         RemoveTimeoutThread, OnPostExecute, FinishKill, FinishState, FinishReap, RunReturn,
         Goto, Fail, outside, Busy, RunBody
  <2>2. cpc # "freed"
    BY <2>1 DEF Ownership, Freed
  <2>3. \E there \in ThreadPC \ {"spawn_wait"} : pc' = [pc EXCEPT ![t] = there]
    BY <1>3 DEF RunStep, RunLock, propagate_child_error, OnPostCloneParent, PtraceAttach,
         PtraceWait, PtraceSetOptions, PtraceCont, AddTimeoutThread, ParentArrivesGo,
         ParentLeavesGo, OnWakeup, LimitKill, Waitid, WaitidInterrupted, OnExecuteEvent,
         RemoveTimeoutThread, OnPostExecute, FinishKill, FinishState, FinishReap, RunReturn,
         Goto, Fail, ThreadPC
  <2>4. run_once' = "poisoned" => proc'.state = "reaped"
    <3>1. CASE FinishKill(t)
      BY <2>1, <3>1, <1>k DEF FinishKill, Freed, Handshake, Exists, Keeps
    <3>2. CASE ~FinishKill(t)
      <4>1. run_once' = "poisoned" => run_once = "poisoned"
        BY <1>3, <3>2 DEF RunStep, RunLock, propagate_child_error, OnPostCloneParent,
             PtraceAttach, PtraceWait, PtraceSetOptions, PtraceCont, AddTimeoutThread,
             ParentArrivesGo, ParentLeavesGo, OnWakeup, LimitKill, Waitid, WaitidInterrupted,
             OnExecuteEvent, RemoveTimeoutThread, OnPostExecute, FinishState, FinishReap,
             RunReturn, outside, runVars
      <4>2. proc.state = "reaped" => proc'.state = "reaped"
        BY <1>3, <1>p, RunProc, ProcKill DEF Quiet, Keeps
      <4> QED
        BY <4>1, <4>2 DEF Freed
    <3> QED
      BY <3>1, <3>2
  <2> QED
    BY <2>1, <2>2, <2>3, <2>4, <1>t DEF Freed
<1>4. CASE DropHandle
  BY <1>4 DEF Freed, DropHandle, runVars
<1>5. CASE Cloner \/ ChildStep \/ KernelStep \/ Environment
  <2>1. UNCHANGED <<handle, pc, run_once>> /\ (proc'.state = "reaped" <=> proc.state = "reaped")
    BY <1>5, ElsewhereSteps, WitheringSteps DEF Elsewhere, Follows, Withering, Keeps
  <2>2. cpc' = "freed" => cpc = "freed" \/ (handle = "dropped" /\ proc.state = "run")
    BY <1>5 DEF Cloner, CloneChild, CloneFails, ChildStep, PreExec, Child, ChildSetup,
         ChildSetupFails, ChildArrivesReady, ChildLeavesReady, ChildArrivesGo, ChildLeavesGo,
         ChildExecs, ChildExecFails, ChildStoresError, ChildReturns, KernelStep, KernelKill,
         KernelStop, KernelZombie, Environment, ProgramExits, ProgramFaults, FaultSignal,
         ProgramStops, ProgramContinues, ExceedLimit, ChildUsesFreed, outside
  <2> QED
    BY <2>1, <2>2 DEF Freed
<1>6. CASE UNCHANGED vars
  BY <1>6 DEF Freed, vars, outside
<1> QED
  BY <1>1, <1>2, <1>3, <1>4, <1>5, <1>6 DEF Next

\* A thread leaves the set before run ends well, or it takes an error along.
LEMMA RegistrationNext ==
  TypeOK /\ Exclusion /\ Ownership /\ Registration /\ [Next]_vars => Registration'
<1> SUFFICES ASSUME TypeOK, Exclusion, Ownership, Registration, [Next]_vars PROVE Registration'
  OBVIOUS
<1> USE DEF mutexes, history, runVars, outside, requires_timeout, Registered, Finishing, Loop
<1>t. pc \in [Threads -> ThreadPC]
  BY DEF TypeOK
<1>1. ASSUME NEW t \in Threads, ClientCall(t) \/ SpawnReturns(t) \/ KillStep(t)
      PROVE  Registration'
  BY <1>1, <1>t, AsideSteps DEF Registration
<1>2. ASSUME NEW t \in Threads, RunStep(t) PROVE Registration'
  <2> USE DEF Goto, Fail
  <2>x. \A u \in Threads \ {t} : pc[t] \in RunBody \cup {"return"} =>
           pc[u] \notin Registered \cup Finishing \cup {"finish_kill"}
    BY DEF Exclusion, RunBody
  <2>1. CASE RunLock(t)
    BY <2>1, <1>t DEF Registration, RunLock
  <2>2. CASE propagate_child_error(t, "propagate0", "post_clone") \/ OnPostCloneParent(t)
    BY <2>2, <2>x, <1>t DEF Registration, propagate_child_error, OnPostCloneParent, RunBody
  <2>3. CASE PtraceAttach(t) \/ PtraceWait(t)
    BY <2>3, <2>x, <1>t DEF Registration, PtraceAttach, PtraceWait, RunBody
  <2>4. CASE PtraceSetOptions(t) \/ PtraceCont(t)
    BY <2>4, <2>x, <1>t DEF Registration, PtraceSetOptions, PtraceCont, RunBody
  <2>5. CASE AddTimeoutThread(t) \/ ParentArrivesGo(t) \/ ParentLeavesGo(t)
    BY <2>5, <2>x, <1>t DEF Registration, AddTimeoutThread, ParentArrivesGo, ParentLeavesGo, RunBody
  <2>6. CASE OnWakeup(t)
    BY <2>6, <2>x, <1>t DEF Registration, OnWakeup, RunBody
  <2>7. CASE LimitKill(t) \/ Waitid(t) \/ WaitidInterrupted(t)
    BY <2>7, <2>x, <1>t DEF Registration, LimitKill, Waitid, WaitidInterrupted, RunBody
  <2>8. CASE \/ propagate_child_error(t, "propagate1", "execute_event")
             \/ propagate_child_error(t, "propagate2", "finish_kill")
    BY <2>8, <2>x, <1>t DEF Registration, propagate_child_error, RunBody
  <2>9. CASE OnExecuteEvent(t)
    BY <2>9, <2>x, <1>t DEF Registration, OnExecuteEvent, RunBody
  <2>10. CASE RemoveTimeoutThread(t)
    BY <2>10, <2>x, <1>t DEF Registration, RemoveTimeoutThread, RunBody
  <2>11. CASE OnPostExecute(t)
    BY <2>11, <2>x, <1>t DEF Registration, OnPostExecute, RunBody
  <2>12. CASE FinishKill(t)
    BY <2>12, <2>x, <1>t DEF Registration, FinishKill, RunBody
  <2>13. CASE FinishState(t) \/ FinishReap(t)
    BY <2>13, <2>x, <1>t DEF Registration, FinishState, FinishReap, RunBody
  <2>14. CASE RunReturn(t)
    <3>1. pc[t] = "return" /\ pc' = [pc EXCEPT ![t] = "idle"]
      BY <2>14 DEF RunReturn
    <3>2. run_error = "Some" => Err \in returned'
      BY <2>14 DEF RunReturn
    <3>3. returned \subseteq returned' /\ run_once # "poisoned" /\ timeout_data' = timeout_data
      BY <2>14, <3>1 DEF RunReturn, Ownership
    <3>4. settings' = settings
      BY <2>14 DEF RunReturn
    <3> QED
      BY <3>1, <3>2, <3>3, <3>4, <2>x, <1>t DEF Registration
  <2> QED
    BY <1>2, <2>1, <2>2, <2>3, <2>4, <2>5, <2>6, <2>7, <2>8, <2>9, <2>10, <2>11, <2>12, <2>13,
       <2>14 DEF RunStep
<1>3. CASE DropHandle
  BY <1>3 DEF Registration, DropHandle
<1>4. CASE Cloner \/ ChildStep \/ KernelStep \/ Environment
  BY <1>4, BystandingSteps DEF Registration, Bystanding
<1>5. CASE UNCHANGED vars
  BY <1>5 DEF Registration, vars
<1> QED
  BY <1>1, <1>2, <1>3, <1>4, <1>5 DEF Next

-----------------------------------------------------------------------------
(* What the result says.                                                   *)

\* A verdict leaves the reason alone and is no runtime error; the reason, once
\* set, agrees with a process that ended that way.
LEMMA Verdicts ==
  ASSUME NEW result \in ExecutionResults
  PROVE  /\ LimitVerdict(result).exit_reason = result.exit_reason
         /\ result.exit_status # "OK" => LimitVerdict(result) = result
         /\ result.exit_status = "OK" => LimitVerdict(result).exit_status \in {"TLE", "MLE"}
         /\ FinalVerdict(result) \in {result, LimitVerdict(result)}
         /\ FinalVerdict(result) # result => over
BY DEF ExecutionResults, LimitVerdict, FinalVerdict, SetExitStatus, ExitStatus, ExitReason

LEMMA Reasons ==
  ASSUME NEW result \in ExecutionResults, NEW reason \in ExitReason, result.exit_status # "RE"
  PROVE  /\ SetExitReason(result, reason).exit_reason = reason
         /\ SetExitReason(result, reason).exit_status = "OK" => reason = "exit0"
         /\ SetExitReason(result, reason).exit_status = "RE" =>
              reason # "exit0" /\ result.exit_status = "OK"
         /\ SetExitReason(result, reason).exit_status \in {"TLE", "MLE"} =>
              result.exit_status = SetExitReason(result, reason).exit_status
         /\ result.exit_status # "OK" =>
              SetExitReason(result, reason).exit_status = result.exit_status
BY DEF ExecutionResults, SetExitReason, SetExitStatus, ExitStatus, ExitReason

\* A later verdict still agrees.
LEMMA VerdictAgrees ==
  ASSUME NEW result \in ExecutionResults, NEW p, Agrees(result, p)
  PROVE  Agrees(LimitVerdict(result), p) /\ Agrees(FinalVerdict(result), p)
<1>1. Agrees(LimitVerdict(result), p)
  <2>1. CASE result.exit_status = "OK"
    BY <2>1, Verdicts DEF Agrees
  <2>2. CASE result.exit_status # "OK"
    BY <2>2, Verdicts DEF Agrees
  <2> QED
    BY <2>1, <2>2
<1> QED
  BY <1>1, Verdicts

\* Once the child is dead, only the thread inside run changes what is reported.
LEMMA ReportKept ==
  ASSUME Report, Keeps(proc', proc), over => over',
         UNCHANGED <<returned, run_once, run_error, wait_info, execution_result>>,
         \A u \in Threads : pc'[u] = pc[u] \/ pc'[u] \notin RunBody \cup {"return"}
  PROVE  Report'
<1>a. proc.state \in {"zombie", "reaped"} /\ Agrees(execution_result, proc) =>
        proc'.state = proc.state /\ Agrees(execution_result', proc')
  BY DEF Keeps, Agrees
<1>1. ASSUME NEW u \in Threads, pc'[u] = pc[u] PROVE ReportAt(u)'
  BY <1>1, <1>a DEF Report, ReportAt, Keeps
<1>2. ASSUME NEW u \in Threads, pc'[u] \notin RunBody \cup {"return"} PROVE ReportAt(u)'
  BY <1>2 DEF ReportAt, Open, Told, RunBody
<1>3. LimitOver'
  BY DEF Report, LimitOver, Limited
<1> QED
  BY <1>1, <1>2, <1>3, <1>a DEF Report

\* While t is in the body of run, nothing has been returned and no other thread
\* has anything to report.
LEMMA BodySteps ==
  ASSUME TypeOK, NEW t \in Threads, RunStep(t), pc[t] \in RunBody
  PROVE  /\ returned' = returned
         /\ run_once' \in {run_once, "poisoned"}
         /\ \E there \in ThreadPC : pc' = [pc EXCEPT ![t] = there]
<1> USE DEF outside, mutexes, runVars, history, Goto, Fail, RunBody, ThreadPC
<1>1. CASE RunLock(t) \/ RunReturn(t)
  BY <1>1 DEF RunLock, RunReturn
<1>2. CASE propagate_child_error(t, "propagate0", "post_clone") \/ OnPostCloneParent(t)
  BY <1>2 DEF propagate_child_error, OnPostCloneParent
<1>3. CASE PtraceAttach(t) \/ PtraceWait(t) \/ PtraceSetOptions(t) \/ PtraceCont(t)
  BY <1>3 DEF PtraceAttach, PtraceWait, PtraceSetOptions, PtraceCont
<1>4. CASE AddTimeoutThread(t) \/ ParentArrivesGo(t) \/ ParentLeavesGo(t)
  BY <1>4 DEF AddTimeoutThread, ParentArrivesGo, ParentLeavesGo
<1>5. CASE OnWakeup(t) \/ LimitKill(t) \/ Waitid(t) \/ WaitidInterrupted(t)
  BY <1>5 DEF OnWakeup, LimitKill, Waitid, WaitidInterrupted
<1>6. CASE \/ propagate_child_error(t, "propagate1", "execute_event")
           \/ propagate_child_error(t, "propagate2", "finish_kill")
  BY <1>6 DEF propagate_child_error
<1>7. CASE OnExecuteEvent(t) \/ RemoveTimeoutThread(t) \/ OnPostExecute(t)
  BY <1>7 DEF OnExecuteEvent, RemoveTimeoutThread, OnPostExecute
<1>8. CASE FinishKill(t) \/ FinishState(t) \/ FinishReap(t)
  BY <1>8 DEF FinishKill, FinishState, FinishReap
<1> QED
  BY <1>1, <1>2, <1>3, <1>4, <1>5, <1>6, <1>7, <1>8 DEF RunStep

LEMMA BodyReport ==
  ASSUME TypeOK, Exclusion, Ownership, NEW t \in Threads, RunStep(t), pc[t] \in RunBody,
         LimitOver', ReportAt(t)'
  PROVE  Report'
<1>1. \A u \in Threads \ {t} : pc'[u] \notin RunBody \cup {"return"}
  BY BodySteps DEF TypeOK, Exclusion, RunBody
<1>2. \A u \in Threads \ {t} : ReportAt(u)'
  BY <1>1 DEF ReportAt, Open, Told, RunBody
<1>3. run_once' \in {"running", "poisoned"} /\ returned' = {}
  BY BodySteps DEF Exclusion, Ownership
<1> QED
  BY <1>2, <1>3 DEF Report

\* The result is filled in from what really happened to the child.
LEMMA ReportNext ==
  TypeOK /\ Exclusion /\ Ownership /\ Place /\ Report /\ [Next]_vars => Report'
<1> SUFFICES ASSUME TypeOK, Exclusion, Ownership, Place, Report, [Next]_vars PROVE Report'
  OBVIOUS
<1>t. pc \in [Threads -> ThreadPC]
  BY DEF TypeOK
<1>p. proc \in Process /\ execution_result \in ExecutionResults
  BY DEF TypeOK
<1>k. Keeps(proc, proc) /\ Keeps(kill_pid(proc), proc)
  BY <1>p, ProcQuiet, ProcKill DEF Quiet
<1>1. ASSUME NEW t \in Threads, ClientCall(t) \/ SpawnReturns(t) \/ KillStep(t) PROVE Report'
  <2>1. Keeps(proc', proc)
    BY <1>1, <1>k, AsideSteps DEF KillSend
  <2> QED
    BY <1>1, <2>1, <1>t, ReportKept, AsideSteps DEF runVars, RunBody
<1>2. ASSUME NEW t \in Threads, RunStep(t) PROVE Report'
  <2> USE DEF Goto, Fail, outside, mutexes, runVars, history, data, shared, Open, Told, RunBody
  <2>r. ReportAt(t) /\ LimitOver
    BY DEF Report
  <2>o. UNCHANGED <<execution_result, over>> => LimitOver'
    BY <2>r DEF LimitOver, Limited
  <2>1. CASE RunLock(t)
    <3>1. UNCHANGED <<proc, execution_result, over, returned, run_error, wait_info>>
      BY <2>1 DEF RunLock
    <3>2. \A u \in Threads \ {t} : pc'[u] = pc[u] /\ pc'[u] \notin RunBody \cup {"return"}
      BY <2>1, <1>t, ConstantsAssumption DEF RunLock, Exclusion
    <3>3. \A u \in Threads \ {t} : ReportAt(u)'
      BY <3>2 DEF ReportAt
    <3>4. ReportAt(t)'
      BY <2>1, <3>1, <1>t DEF Report, ReportAt, RunLock, NewResult
    <3>5. run_once' # "new" /\ (run_once' = "done" => run_once = "done")
      BY <2>1 DEF RunLock
    <3> QED
      BY <3>1, <3>3, <3>4, <3>5, <2>o DEF Report, Agrees
  <2>2. CASE propagate_child_error(t, "propagate0", "post_clone") \/ OnPostCloneParent(t)
    <3>1. ReportAt(t)'
      BY <2>2, <2>r, <1>t DEF ReportAt, propagate_child_error, OnPostCloneParent
    <3> QED
      BY <2>2, <3>1, <2>o, <1>2, BodyReport DEF propagate_child_error, OnPostCloneParent
  <2>3. CASE PtraceAttach(t) \/ PtraceWait(t)
    <3>1. ReportAt(t)'
      BY <2>3, <2>r, <1>t DEF ReportAt, PtraceAttach, PtraceWait
    <3> QED
      BY <2>3, <3>1, <2>o, <1>2, BodyReport DEF PtraceAttach, PtraceWait
  <2>4. CASE PtraceSetOptions(t) \/ PtraceCont(t)
    <3>1. ReportAt(t)'
      BY <2>4, <2>r, <1>t DEF ReportAt, PtraceSetOptions, PtraceCont
    <3> QED
      BY <2>4, <3>1, <2>o, <1>2, BodyReport DEF PtraceSetOptions, PtraceCont
  <2>5. CASE AddTimeoutThread(t) \/ ParentArrivesGo(t) \/ ParentLeavesGo(t)
    <3>1. ReportAt(t)'
      BY <2>5, <2>r, <1>t DEF ReportAt, AddTimeoutThread, ParentArrivesGo, ParentLeavesGo
    <3> QED
      BY <2>5, <3>1, <2>o, <1>2, BodyReport DEF AddTimeoutThread, ParentArrivesGo, ParentLeavesGo
  <2>6. CASE OnWakeup(t)
    <3>1. \/ execution_result' = execution_result
          \/ execution_result' = LimitVerdict(execution_result) /\ over
      <4>1. \A exceeded \in Sampled : exceeded => over
        BY DEF Sampled
      <4> QED
        BY <2>6, <4>1 DEF OnWakeup
    <3>2. LimitOver'
      BY <2>6, <2>r, <3>1, <1>p DEF LimitOver, Limited, OnWakeup
    <3>3. /\ execution_result'.exit_status # "RE" /\ execution_result'.exit_reason = "exit0"
          /\ pc[t] = "wakeup"
      BY <2>6, <2>r, <3>1, <1>p, Verdicts DEF ReportAt, OnWakeup
    <3>4. \/ pc'[t] \in {"limit_kill", "waitid"}
          \/ pc'[t] = "finish_kill" /\ run_error' = "Some"
      BY <2>6, <1>t DEF OnWakeup
    <3>5. ReportAt(t)'
      BY <3>3, <3>4 DEF ReportAt
    <3> QED
      BY <3>2, <3>3, <3>5, <1>2, BodyReport
  <2>7. CASE LimitKill(t) \/ WaitidInterrupted(t)
    <3>1. ReportAt(t)'
      BY <2>7, <2>r, <1>t DEF ReportAt, LimitKill, WaitidInterrupted
    <3> QED
      BY <2>7, <3>1, <2>o, <1>2, BodyReport DEF LimitKill, WaitidInterrupted
  <2>8. CASE Waitid(t)
    <3>1. WaitStatus(proc) \in ExitReason => proc.state = "zombie" /\ WaitStatus(proc) = proc.code
      BY DEF WaitStatus, ExitReason
    <3>2. ReportAt(t)'
      BY <2>8, <2>r, <3>1, <1>t DEF ReportAt, Waitid
    <3> QED
      BY <2>8, <3>2, <2>o, <1>2, BodyReport DEF Waitid
  <2>9. CASE propagate_child_error(t, "propagate1", "execute_event")
    <3>1. ReportAt(t)'
      BY <2>9, <2>r, <1>t DEF ReportAt, propagate_child_error
    <3> QED
      BY <2>9, <3>1, <2>o, <1>2, BodyReport DEF propagate_child_error
  <2>10. CASE OnExecuteEvent(t)
    <3>1. CASE wait_info \notin ExitReason
      <4>1. ReportAt(t)'
        BY <2>10, <3>1, <2>r, <1>t DEF ReportAt, OnExecuteEvent
      <4> QED
        BY <2>10, <3>1, <4>1, <2>o, <1>2, BodyReport DEF OnExecuteEvent
    <3>2. CASE wait_info \in ExitReason
      <4>1. /\ pc[t] = "execute_event" /\ pc'[t] = "remove_timeout"
            /\ execution_result' = SetExitReason(execution_result, wait_info)
            /\ proc' = proc /\ over' = over
        BY <2>10, <3>2, <1>t DEF OnExecuteEvent, ExitReason
      <4>2. /\ proc.state = "zombie" /\ wait_info = proc.code
            /\ execution_result.exit_status # "RE"
        BY <4>1, <3>2, <2>r DEF ReportAt
      <4>3. Agrees(execution_result', proc) /\ LimitOver'
        BY <4>1, <4>2, <3>2, <2>r, <1>p, Reasons DEF Agrees, LimitOver, Limited
      <4>4. ReportAt(t)'
        BY <4>1, <4>2, <4>3 DEF ReportAt
      <4> QED
        BY <4>1, <4>3, <4>4, <1>2, BodyReport
    <3> QED
      BY <3>1, <3>2
  <2>11. CASE \/ RemoveTimeoutThread(t) \/ propagate_child_error(t, "propagate2", "finish_kill")
    <3>1. ReportAt(t)'
      BY <2>11, <2>r, <1>t DEF ReportAt, RemoveTimeoutThread, propagate_child_error, Ownership
    <3> QED
      BY <2>11, <3>1, <2>o, <1>2, BodyReport DEF RemoveTimeoutThread, propagate_child_error
  <2>12. CASE OnPostExecute(t)
    <3>1. /\ pc[t] = "post_execute" /\ proc' = proc /\ over' = over
          /\ \/ pc'[t] = "propagate2" /\ execution_result' = FinalVerdict(execution_result)
             \/ pc'[t] = "finish_kill" /\ run_error' = "Some" /\ execution_result' = execution_result
      BY <2>12, <1>t DEF OnPostExecute
    <3>2. proc.state = "zombie" /\ Agrees(execution_result, proc)
      BY <3>1, <2>r DEF ReportAt
    <3>3. Agrees(execution_result', proc')
      BY <3>1, <3>2, <1>p, VerdictAgrees
    <3>4. LimitOver'
      BY <3>1, <2>r, <1>p, Verdicts DEF LimitOver, Limited
    <3>5. ReportAt(t)'
      BY <3>1, <3>2, <3>3 DEF ReportAt
    <3> QED
      BY <3>1, <3>4, <3>5, <1>2, BodyReport
  <2>13. CASE FinishKill(t)
    <3>1. ReportAt(t)'
      BY <2>13, <2>r, <1>t, <1>k DEF ReportAt, FinishKill, Keeps, Agrees
    <3> QED
      BY <2>13, <3>1, <2>o, <1>2, BodyReport DEF FinishKill
  <2>14. CASE FinishState(t)
    <3>1. ReportAt(t)'
      BY <2>14, <2>r, <1>t DEF ReportAt, FinishState
    <3> QED
      BY <2>14, <3>1, <2>o, <1>2, BodyReport DEF FinishState
  <2>15. CASE FinishReap(t)
    <3>1. proc'.code = proc.code /\ (proc.state = "zombie" => proc'.state = "reaped")
      BY <2>15, <1>p, ProcKill DEF FinishReap
    <3>2. ReportAt(t)'
      BY <2>15, <2>r, <3>1, <1>t DEF ReportAt, FinishReap, Agrees
    <3> QED
      BY <2>15, <3>2, <2>o, <1>2, BodyReport DEF FinishReap
  <2>16. CASE RunReturn(t)
    <3>1. /\ pc[t] = "return" /\ pc' = [pc EXCEPT ![t] = "idle"]
          /\ UNCHANGED <<proc, execution_result, over>>
          /\ run_once' = "done"
      BY <2>16 DEF RunReturn
    <3>2. \A u \in Threads : pc'[u] \notin RunBody \cup {"return"}
      BY <3>1, <1>t DEF Exclusion
    <3>3. \A u \in Threads : ReportAt(u)'
      BY <3>2 DEF ReportAt
    <3>4. returned' \subseteq {Err, execution_result}
      BY <2>16 DEF RunReturn, Report
    <3>5. ASSUME Err \notin returned'
          PROVE  proc.state = "reaped" /\ Agrees(execution_result, proc)
      <4>1. run_error # "Some" /\ Err \notin returned
        BY <2>16, <3>5 DEF RunReturn
      <4>2. run_error = "None" /\ run_once \in {"running", "done"}
        BY <4>1, <3>1 DEF TypeOK, Ownership
      <4> QED
        BY <4>1, <4>2, <3>1, <2>r DEF Report, ReportAt
    <3> QED
      BY <3>1, <3>3, <3>4, <3>5, <2>o DEF Report, Agrees
  <2> QED
    BY <1>2, <2>1, <2>2, <2>3, <2>4, <2>5, <2>6, <2>7, <2>8, <2>9, <2>10, <2>11, <2>12, <2>13,
       <2>14, <2>15, <2>16 DEF RunStep
<1>3. CASE DropHandle
  BY <1>3, <1>k, ReportKept DEF DropHandle, data, shared, runVars, history
<1>4. CASE Cloner \/ ChildStep \/ KernelStep \/ Environment
  BY <1>4, WitheringSteps, BystandingSteps, ReportKept
  DEF Withering, Bystanding, runVars, history
<1>5. CASE UNCHANGED vars
  BY <1>5, <1>k, ReportKept DEF vars, outside, data, shared, history
<1> QED
  BY <1>1, <1>2, <1>3, <1>4, <1>5 DEF Next

\* The three places where run writes the result.
LEMMA ResultSteps ==
  ASSUME NEW t \in Threads, RunStep(t)
  PROVE  \/ execution_result' = execution_result
         \/ OnWakeup(t) /\ execution_result' = LimitVerdict(execution_result)
         \/ OnPostExecute(t) /\ execution_result' = FinalVerdict(execution_result)
         \/ /\ OnExecuteEvent(t) /\ wait_info \in ExitReason
            /\ execution_result' = SetExitReason(execution_result, wait_info)
<1> USE DEF data
<1>1. CASE RunLock(t) \/ RunReturn(t) \/ OnPostCloneParent(t)
  BY <1>1 DEF RunLock, RunReturn, OnPostCloneParent
<1>2. CASE \/ propagate_child_error(t, "propagate0", "post_clone")
           \/ propagate_child_error(t, "propagate1", "execute_event")
           \/ propagate_child_error(t, "propagate2", "finish_kill")
  BY <1>2 DEF propagate_child_error
<1>3. CASE PtraceAttach(t) \/ PtraceWait(t) \/ PtraceSetOptions(t) \/ PtraceCont(t)
  BY <1>3 DEF PtraceAttach, PtraceWait, PtraceSetOptions, PtraceCont
<1>4. CASE AddTimeoutThread(t) \/ ParentArrivesGo(t) \/ ParentLeavesGo(t)
  BY <1>4 DEF AddTimeoutThread, ParentArrivesGo, ParentLeavesGo
<1>5. CASE OnWakeup(t) \/ LimitKill(t) \/ Waitid(t) \/ WaitidInterrupted(t)
  BY <1>5 DEF OnWakeup, LimitKill, Waitid, WaitidInterrupted
<1>6. CASE OnExecuteEvent(t) \/ RemoveTimeoutThread(t) \/ OnPostExecute(t)
  BY <1>6 DEF OnExecuteEvent, RemoveTimeoutThread, OnPostExecute
<1>7. CASE FinishKill(t) \/ FinishState(t) \/ FinishReap(t)
  BY <1>7 DEF FinishKill, FinishState, FinishReap
<1> QED
  BY <1>1, <1>2, <1>3, <1>4, <1>5, <1>6, <1>7 DEF RunStep

\* A limit's verdict is the last one.
LEMMA LimitedStays ==
  ASSUME TypeOK, NEW t \in Threads, RunStep(t), Limited
  PROVE  Limited'
<1>1. execution_result \in ExecutionResults /\ execution_result.exit_status \notin {"OK", "RE"}
  BY DEF TypeOK, Limited
<1>2. LimitVerdict(execution_result) = execution_result
  BY <1>1, Verdicts
<1>3. FinalVerdict(execution_result) = execution_result
  BY <1>1, <1>2, Verdicts
<1>4. ASSUME wait_info \in ExitReason
      PROVE  SetExitReason(execution_result, wait_info).exit_status \in {"TLE", "MLE"}
  BY <1>1, <1>4, Reasons DEF ExecutionResults, ExitStatus
<1> QED
  BY <1>2, <1>3, <1>4, ResultSteps DEF Limited

\* SIGKILL comes from kill, from an exceeded limit or from the end of run.
LEMMA BlameNext ==
  TypeOK /\ Exclusion /\ Place /\ Report /\ Blame /\ [Next]_vars => Blame'
<1> SUFFICES ASSUME TypeOK, Exclusion, Place, Report, Blame, [Next]_vars PROVE Blame'
  OBVIOUS
<1>t. pc \in [Threads -> ThreadPC]
  BY DEF TypeOK
<1>p. proc \in Process /\ execution_result \in ExecutionResults
  BY DEF TypeOK
<1>1. ASSUME NEW t \in Threads, ClientCall(t) \/ SpawnReturns(t) \/ KillStep(t) PROVE Blame'
  <2>1. execution_result' = execution_result /\ (Ended' <=> Ended)
    BY <1>1, <1>t, AsideSteps DEF Ended, Finishing, runVars
  <2>2. \A u \in Threads : pc'[u] = "limit_kill" => pc[u] = "limit_kill"
    BY <1>1, <1>t, AsideSteps
  <2>3. CASE KillSend(t)
    BY <2>1, <2>2, <2>3 DEF Blame, Limited, KillSend
  <2>4. CASE ~KillSend(t)
    BY <2>1, <2>2, <2>4, <1>1, AsideSteps DEF Blame, Limited
  <2> QED
    BY <2>3, <2>4
<1>2. ASSUME NEW t \in Threads, RunStep(t) PROVE Blame'
  <2>1. kill_returned' = kill_returned
    BY <1>2 DEF RunStep, RunLock, propagate_child_error, OnPostCloneParent, PtraceAttach,
           PtraceWait, PtraceSetOptions, PtraceCont, AddTimeoutThread, ParentArrivesGo,
           ParentLeavesGo, OnWakeup, LimitKill, Waitid, WaitidInterrupted, OnExecuteEvent,
           RemoveTimeoutThread, OnPostExecute, FinishKill, FinishState, FinishReap, RunReturn,
           outside, history
  <2>2. (Ended => Ended') /\ (Limited => Limited')
    BY <1>2, EndedSteps, LimitedStays
  <2>3. \A u \in Threads : pc'[u] = "limit_kill" => Limited'
    <3>1. CASE OnWakeup(t)
      <4>1. execution_result.exit_status # "RE" /\ \A u \in Threads \ {t} : pc'[u] = pc[u]
        BY <3>1, <1>t DEF Report, ReportAt, OnWakeup, Goto, Fail, Open, RunBody
      <4>2. \/ pc'[t] # "limit_kill"
            \/ execution_result' = LimitVerdict(execution_result)
        BY <3>1, <1>t DEF OnWakeup, Goto, Fail
      <4>3. LimitVerdict(execution_result).exit_status \in {"TLE", "MLE"}
        BY <4>1, <1>p, Verdicts DEF ExecutionResults, ExitStatus
      <4> QED
        BY <4>1, <4>2, <4>3, <2>2 DEF Blame, Limited
    <3>2. CASE ~OnWakeup(t)
      <4>1. \A u \in Threads : pc'[u] = "limit_kill" => pc[u] = "limit_kill"
        BY <1>2, <3>2, <1>t
        DEF RunStep, RunLock, propagate_child_error, OnPostCloneParent, PtraceAttach,
            PtraceWait, PtraceSetOptions, PtraceCont, AddTimeoutThread, ParentArrivesGo,
            ParentLeavesGo, LimitKill, Waitid, WaitidInterrupted, OnExecuteEvent,
            RemoveTimeoutThread, OnPostExecute, FinishKill, FinishState, FinishReap, RunReturn,
            Goto, Fail
      <4> QED
        BY <4>1, <2>2 DEF Blame
    <3> QED
      BY <3>1, <3>2
  <2>4. Killed(proc') => kill_returned' # {} \/ Limited' \/ Ended'
    <3>1. CASE FinishKill(t)
      BY <3>1, <1>t DEF FinishKill, Goto, Ended, Finishing
    <3>2. CASE LimitKill(t)
      BY <3>2, <2>2 DEF Blame, LimitKill, Goto
    <3>3. CASE Killed(proc') => Killed(proc)
      BY <3>3, <2>1, <2>2 DEF Blame
    <3>4. CASE proc' = Reap(proc)
      BY <3>4, <2>1, <2>2, <1>p, ProcKill DEF Blame
    <3> QED
      BY <1>2, <3>1, <3>2, <3>3, <3>4, RunProc DEF Quiet
  <2>5. execution_result'.exit_reason = "sig9" /\ kill_returned' = {} => Limited'
    <3>1. CASE execution_result'.exit_reason = execution_result.exit_reason
      BY <3>1, <2>1, <2>2 DEF Blame
    <3>2. CASE /\ OnExecuteEvent(t) /\ wait_info \in ExitReason
               /\ execution_result' = SetExitReason(execution_result, wait_info)
      <4>1. pc[t] = "execute_event"
        BY <3>2 DEF OnExecuteEvent, Goto, Fail
      <4>2. wait_info = proc.code /\ execution_result.exit_status # "RE"
        BY <4>1, <3>2 DEF Report, ReportAt, Open, RunBody
      <4>3. execution_result'.exit_reason = wait_info
        BY <3>2, <4>2, <1>p, Reasons
      <4>4. ~Ended
        BY <4>1 DEF Exclusion, Ended, Finishing, RunBody
      <4> QED
        BY <4>2, <4>3, <4>4, <2>1, <2>2 DEF Blame, Killed
    <3> QED
      BY <1>2, <3>1, <3>2, <1>p, ResultSteps, Verdicts
  <2> QED
    BY <2>3, <2>4, <2>5 DEF Blame
<1>3. CASE DropHandle
  BY <1>3 DEF Blame, Limited, Ended, DropHandle, data, runVars, history
<1>4. CASE Cloner \/ ChildStep \/ KernelStep \/ Environment
  BY <1>4, WitheringSteps, BystandingSteps
  DEF Blame, Limited, Withering, Bystanding, Ended, history, runVars
<1>5. CASE UNCHANGED vars
  BY <1>5 DEF Blame, Limited, Ended, vars, outside, data, history
<1> QED
  BY <1>1, <1>2, <1>3, <1>4, <1>5 DEF Next

-----------------------------------------------------------------------------
(* The invariant and what follows from it.                                 *)

LEMMA InitRunInv == Init => RunInv
<1> SUFFICES ASSUME Init PROVE RunInv
  OBVIOUS
<1>1. IndInv
  BY InitIndInv
<1>2. Ownership /\ Place /\ Freed /\ Registration
  BY DEF Init, Ownership, Place, Freed, Registration, RunBody, Busy, Loop, Registered, Finishing
<1>3. ~Ended /\ ~Limited
  BY DEF Init, Ended, Finishing, Limited, NewResult
<1>4. ~Doomed(proc) /\ ~Killed(proc) /\ Coded(proc)
  BY DEF Init, Doomed, Killed, Coded, Leaving, NoStatus
<1>5. Report
  BY <1>3 DEF Init, Report, ReportAt, LimitOver, Open, Told, RunBody
<1>6. Doom /\ Blame
  BY <1>3, <1>4 DEF Init, Doom, Blame, NewResult
<1> QED
  BY <1>1, <1>2, <1>5, <1>6 DEF RunInv

\* The inductive invariant of run and its results.
THEOREM RunInvariant == Spec => []RunInv
<1>1. RunInv /\ [Next]_vars => IndInv'
  BY TypeNext, ExclusionNext, ReapingNext, HandshakeNext DEF RunInv, IndInv
<1>2. RunInv /\ [Next]_vars => (Ownership /\ Place /\ Doom /\ Freed)'
  BY OwnershipNext, PlaceNext, DoomNext, FreedNext DEF RunInv, IndInv
<1>3. RunInv /\ [Next]_vars => (Registration /\ Report /\ Blame)'
  BY RegistrationNext, ReportNext, BlameNext DEF RunInv, IndInv
<1>4. RunInv /\ [Next]_vars => RunInv'
  BY <1>1, <1>2, <1>3 DEF RunInv
<1> QED
  BY <1>4, InitRunInv, PTL DEF Spec

\* If no call of run has failed, all returned the one result that tells how the
\* reaped child really ended, with the verdict that fits.
THEOREM Truthful == Spec => []TruthfulResult
<1>1. RunInv => TruthfulResult
  <2> SUFFICES ASSUME RunInv, returned # {}, Err \notin returned
               PROVE  /\ proc.state = "reaped"
                      /\ \A result \in returned :
                           /\ result = execution_result
                           /\ result.exit_reason = proc.code
                           /\ result.exit_status = "OK" => proc.code = "exit0"
                           /\ result.exit_status = "RE" => proc.code # "exit0"
                           /\ result.exit_status \in {"TLE", "MLE"} => over
    BY DEF TruthfulResult
  <2>1. run_once = "done"
    BY DEF RunInv, Ownership
  <2>2. proc.state = "reaped" /\ Agrees(execution_result, proc)
    BY <2>1 DEF RunInv, Report
  <2>3. Limited => over
    BY DEF RunInv, Report, LimitOver
  <2>4. \A result \in returned : result = execution_result
    BY DEF RunInv, Report
  <2> QED
    BY <2>2, <2>3, <2>4 DEF Agrees, Limited
<1> QED
  BY <1>1, RunInvariant, PTL

\* Without a call of kill, a result that says SIGKILL carries a limit's verdict.
THEOREM LimitBlamed == Spec => []LimitKillHasVerdict
<1>1. RunInv => LimitKillHasVerdict
  BY DEF RunInv, Report, Blame, Limited, LimitKillHasVerdict
<1> QED
  BY <1>1, RunInvariant, PTL

\* With a limit the supervising thread is in TIMEOUT_THREAD_DATA throughout the
\* loop and when remove_timeout_thread asserts it; only failed runs leave one.
THEOREM Registers == Spec => []TimeoutRegistration
<1>1. RunInv => TimeoutRegistration
  <2> SUFFICES ASSUME RunInv, NEW t \in Threads
               PROVE  /\ requires_timeout /\ pc[t] \in Loop \cup {"remove_timeout"} =>
                           t \in timeout_data
                      /\ t \in timeout_data =>
                           Running(t) \/ Err \in returned \/ run_once = "poisoned"
    BY DEF TimeoutRegistration
  <2>1. requires_timeout /\ pc[t] \in Loop \cup {"remove_timeout"} => t \in timeout_data
    BY DEF RunInv, Registration, Registered
  <2>2. CASE pc[t] \in Registered \cup {"finish_kill", "finish_state", "finish_reap"}
    BY <2>1, <2>2 DEF RunInv, IndInv, Exclusion, Registered, Loop, RunBody, Running
  <2>3. CASE pc[t] = "return" /\ run_error = "Some"
    <3>1. internals = t /\ run_once \in {"running", "done"}
      BY <2>3 DEF RunInv, IndInv, Exclusion, Ownership
    <3>2. run_once # "done"
      BY <2>3 DEF RunInv, Ownership
    <3> QED
      BY <2>1, <3>1, <3>2 DEF Running
  <2> QED
    BY <2>1, <2>2, <2>3 DEF RunInv, Registration, Finishing
<1> QED
  BY <1>1, RunInvariant, PTL

\* Only a call of kill makes run wait at parent_ready_barrier for a child that
\* is dying.
THEOREM BarrierHang == Spec => []BarrierHangNeedsKill
<1>1. RunInv => BarrierHangNeedsKill
  <2> SUFFICES ASSUME RunInv, NEW t \in Threads, pc[t] = "barrier_wait",
                      "child" \notin parent_ready, kill_returned = {}
               PROVE  proc.state \in {"run", "stop"}
    BY DEF BarrierHangNeedsKill
  <2>1. handle = "jailed" /\ proc.state # "none"
    BY DEF RunInv, IndInv, Ownership, Handshake, Busy, RunBody
  <2>2. cpc \in {"ready_wait", "go"}
    BY <2>1 DEF RunInv, Place, Freed
  <2>3. ~Ended
    BY DEF RunInv, IndInv, Exclusion, Ended, Finishing, RunBody
  <2>4. ~Doomed(proc)
    BY <2>2, <2>3 DEF RunInv, Doom
  <2> QED
    BY <2>1, <2>4 DEF RunInv, IndInv, TypeOK, Process, ProcState, Doomed, Leaving
<1> QED
  BY <1>1, RunInvariant, PTL

\* A child runs on in the freed context only if run was never called, or after a
\* run that failed and has sent the SIGKILL the child has not taken yet.
THEOREM ContextUse == Spec => []FreedContextUse
<1>1. RunInv => FreedContextUse
  <2> SUFFICES ASSUME RunInv, cpc = "freed", run_once # "new"
               PROVE  /\ Err \in returned
                      /\ proc.state \in {"run", "stop"} => "SIGKILL" \in proc.pending
    BY DEF FreedContextUse
  <2>1. handle = "dropped" /\ proc.state # "reaped"
    BY DEF RunInv, Freed
  <2>2. run_once # "running"
    BY <2>1 DEF RunInv, Ownership, Busy
  <2>3. run_once = "done"
    BY <2>1, <2>2 DEF RunInv, IndInv, TypeOK, Freed
  <2>4. Err \in returned
    BY <2>1, <2>3 DEF RunInv, Report
  <2>5. Doomed(proc)
    BY <2>3 DEF RunInv, Doom, Ended
  <2> QED
    BY <2>4, <2>5 DEF Doomed, Leaving
<1> QED
  BY <1>1, RunInvariant, PTL

-----------------------------------------------------------------------------
(***************************************************************************)
(* JailedChild implements ChildHandle.  The refinement mapping is          *)
(* JailedChild's: HandleChild, HandleCode, HandleOutcome, HandleResult.    *)
(*                                                                         *)
(* CloneChild, KernelZombie, the waits that reap, the panic of FinishKill, *)
(* RunReturn and KillSend are the steps of the handle; RunInv says that    *)
(* they are taken when the handle allows them.  All others stutter.        *)
(***************************************************************************)

Alive == {"run", "stop", "exitstop", "dying"}

\* To the handle's clients q looks as p does.
Alike(q, p) ==
  \/ q.state \in Alive /\ p.state \in Alive
  \/ q.state = p.state /\ q.code = p.code

LEMMA AlikeMaps == Alike(proc', proc) => UNCHANGED <<HandleChild, HandleCode>>
BY DEF Alike, Alive, HandleChild, HandleCode

\* What may happen to a living process without its clients' seeing it.
LEMMA ProcAlike ==
  ASSUME NEW p \in Process
  PROVE  /\ Alike(p, p) /\ Alike(kill_pid(p), p)
         /\ Alike(Attach(p), p) /\ Alike(SetOptions(p), p)
         /\ p.state = "run" => Alike(Stop(p), p) /\ Alike(TakeStop(p), p)
         /\ p.state = "run" => \A code : Alike(BeginExit(p, code), p)
         /\ p.state = "run" => \A state \in {"dying", "exitstop"} : Alike(Die(p, state), p)
         /\ Stopped(p) => Alike(Resume(p), p)
         /\ p.state = "stop" => Alike(SetState(p, "run"), p)
         /\ p.state # "zombie" => Alike(Reap(p), p)
<1> USE DEF Process, ProcState, Alike, Alive, SetState
<1>1. Alike(p, p) /\ Alike(kill_pid(p), p)
  BY DEF kill_pid
<1>2. Alike(Attach(p), p) /\ Alike(SetOptions(p), p)
  BY DEF Attach, SetOptions
<1>3. p.state = "run" => Alike(Stop(p), p) /\ Alike(TakeStop(p), p)
  BY DEF Stop, TakeStop
<1>4. p.state = "run" => \A code : Alike(BeginExit(p, code), p)
  BY DEF BeginExit
<1>5. p.state = "run" => \A state \in {"dying", "exitstop"} : Alike(Die(p, state), p)
  BY DEF Die
<1>6. Stopped(p) => Alike(Resume(p), p)
  BY DEF Resume, Stopped
<1>7. p.state = "stop" => Alike(SetState(p, "run"), p)
  OBVIOUS
<1>8. p.state # "zombie" => Alike(Reap(p), p)
  BY DEF Reap
<1> QED
  BY <1>1, <1>2, <1>3, <1>4, <1>5, <1>6, <1>7, <1>8

-----------------------------------------------------------------------------
(* The steps of the child.                                                 *)

\* The detached thread, the child and the kernel: a birth, a death, or nothing
\* that shows.
LEMMA ChildSteps ==
  ASSUME TypeOK, Place, Cloner \/ ChildStep \/ KernelStep \/ Environment
  PROVE  \/ Alike(proc', proc)
         \/ proc.state = "none" /\ proc'.state = "run"
         \/ proc.state = "dying" /\ proc'.state = "zombie" /\ proc'.code = proc.code
<1> USE DEF data, shared, runVars, outside
<1>p. proc \in Process
  BY DEF TypeOK
<1>1. CASE CloneChild
  BY <1>1, <1>p DEF CloneChild, Place, SetState, Process
<1>2. CASE CloneFails
  BY <1>2, <1>p, ProcAlike DEF CloneFails
<1>3. CASE ChildStep
  <2> USE DEF PreExec, Child
  <2>1. CASE ChildSetup \/ ChildSetupFails \/ ChildExecFails \/ ChildStoresError
    BY <2>1, <1>p, ProcAlike DEF ChildSetup, ChildSetupFails, ChildExecFails, ChildStoresError
  <2>2. CASE ChildArrivesReady \/ ChildLeavesReady \/ ChildArrivesGo \/ ChildLeavesGo
    BY <2>2, <1>p, ProcAlike DEF ChildArrivesReady, ChildLeavesReady, ChildArrivesGo, ChildLeavesGo
  <2>3. CASE ChildExecs \/ ChildReturns
    BY <2>3, <1>p, ProcAlike DEF ChildExecs, ChildReturns
  <2> QED
    BY <1>3, <2>1, <2>2, <2>3 DEF ChildStep
<1>4. CASE KernelKill \/ KernelStop
  BY <1>4, <1>p, ProcAlike DEF KernelKill, KernelStop
<1>5. CASE KernelZombie
  BY <1>5, <1>p DEF KernelZombie, SetState, Process
<1>6. CASE Environment
  <2> USE DEF Child
  <2>1. CASE ProgramExits \/ ProgramFaults \/ FaultSignal \/ ProgramStops
    BY <2>1, <1>p, ProcAlike DEF ProgramExits, ProgramFaults, FaultSignal, ProgramStops
  <2>2. CASE ProgramContinues \/ ExceedLimit
    BY <2>2, <1>p, ProcAlike DEF ProgramContinues, ExceedLimit
  <2>3. CASE ChildUsesFreed
    BY <2>3, <1>p, ProcAlike DEF ChildUsesFreed
  <2> QED
    BY <1>6, <2>1, <2>2, <2>3 DEF Environment
<1> QED
  BY <1>1, <1>2, <1>3, <1>4, <1>5, <1>6 DEF Cloner, KernelStep

\* run reaps a zombie before it returns, or leaves the child as it looks.
LEMMA RunAlike ==
  ASSUME TypeOK, NEW t \in Threads, RunStep(t)
  PROVE  \/ Alike(proc', proc)
         \/ /\ PtraceWait(t) \/ FinishReap(t)
            /\ proc.state = "zombie" /\ proc'.state = "reaped" /\ proc'.code = proc.code
<1> USE DEF outside, mutexes, runVars
<1>p. proc \in Process
  BY DEF TypeOK
<1>1. CASE \/ RunLock(t) \/ OnPostCloneParent(t)
           \/ propagate_child_error(t, "propagate0", "post_clone")
           \/ propagate_child_error(t, "propagate1", "execute_event")
           \/ propagate_child_error(t, "propagate2", "finish_kill")
  BY <1>1, <1>p, ProcAlike DEF RunLock, OnPostCloneParent, propagate_child_error
<1>2. CASE PtraceAttach(t) \/ PtraceSetOptions(t)
  BY <1>2, <1>p, ProcAlike DEF PtraceAttach, PtraceSetOptions
<1>3. CASE PtraceCont(t) \/ OnExecuteEvent(t)
  BY <1>3, <1>p, ProcAlike DEF PtraceCont, OnExecuteEvent, Stopped
<1>4. CASE AddTimeoutThread(t) \/ ParentArrivesGo(t) \/ ParentLeavesGo(t) \/ OnWakeup(t)
  BY <1>4, <1>p, ProcAlike DEF AddTimeoutThread, ParentArrivesGo, ParentLeavesGo, OnWakeup
<1>5. CASE Waitid(t) \/ WaitidInterrupted(t) \/ RemoveTimeoutThread(t) \/ OnPostExecute(t)
  BY <1>5, <1>p, ProcAlike DEF Waitid, WaitidInterrupted, RemoveTimeoutThread, OnPostExecute
<1>6. CASE FinishState(t) \/ RunReturn(t) \/ LimitKill(t) \/ FinishKill(t)
  BY <1>6, <1>p, ProcAlike DEF FinishState, RunReturn, LimitKill, FinishKill
<1>7. CASE PtraceWait(t) \/ FinishReap(t)
  BY <1>7, <1>p, ProcAlike, ProcKill DEF PtraceWait, FinishReap
<1> QED
  BY <1>1, <1>2, <1>3, <1>4, <1>5, <1>6, <1>7 DEF RunStep

-----------------------------------------------------------------------------
(* The refinement.                                                         *)

LEMMA InitImplements == Init => Handle!Init
BY DEF Init, Handle!Init, HandleChild, HandleCode, HandleOutcome, HandleResult,
       NewResult, Handle!NewResult, NoStatus, Handle!NoStatus

\* Every step is a step of the handle, or invisible to its clients.
LEMMA NextImplements == RunInv /\ [Next]_vars => [Handle!Next]_(Handle!vars)
<1> SUFFICES ASSUME RunInv, [Next]_vars PROVE Handle!Next \/ UNCHANGED Handle!vars
  OBVIOUS
<1> USE DEF Handle!Next, Handle!vars
<1>t. TypeOK /\ Exclusion /\ Ownership /\ Place
  BY DEF RunInv, IndInv
<1>p. proc \in Process /\ execution_result \in ExecutionResults
  BY <1>t DEF TypeOK
<1>a. Alike(proc', proc) => UNCHANGED <<HandleChild, HandleCode>>
  BY AlikeMaps
<1>r. UNCHANGED <<run_once, execution_result>> => UNCHANGED <<HandleOutcome, HandleResult>>
  BY DEF HandleOutcome, HandleResult
<1>1. ASSUME NEW t \in Threads, ClientCall(t) \/ SpawnReturns(t) \/ KillStep(t)
      PROVE  Handle!Next \/ UNCHANGED Handle!vars
  <2>1. UNCHANGED <<HandleOutcome, HandleResult, returned>>
    BY <1>1, <1>t, <1>r, AsideSteps DEF runVars
  <2>2. CASE KillSend(t)
    <3>1. UNCHANGED <<HandleChild, HandleCode>>
      BY <2>2, <1>a, <1>p, ProcAlike DEF KillSend
    <3>2. proc.state # "none" /\ HandleChild # "none"
      BY <2>2 DEF KillSend, Goto, RunInv, IndInv, Handshake, Busy, HandleChild
    <3>3. \/ kill_returned' = kill_returned \cup {"Ok"}
          \/ /\ kill_returned' = kill_returned \cup {"Err"}
             /\ child_state = "Reapable" /\ ~Exists(proc)
      BY <2>2 DEF KillSend
    <3>4. child_state = "Reapable" /\ ~Exists(proc) =>
            HandleChild = "reaped" /\ HandleOutcome # "settled"
      BY <3>2, <1>t DEF Ownership, Exists, HandleChild, HandleOutcome
    <3> QED
      BY <2>1, <3>1, <3>2, <3>3, <3>4 DEF Handle!Kill
  <2>3. CASE ~KillSend(t)
    <3>1. UNCHANGED <<proc, kill_returned>>
      BY <1>1, <2>3, <1>t, AsideSteps
    <3> QED
      BY <2>1, <3>1 DEF HandleChild, HandleCode
  <2> QED
    BY <2>2, <2>3
<1>2. ASSUME NEW t \in Threads, RunStep(t) PROVE Handle!Next \/ UNCHANGED Handle!vars
  <2>k. kill_returned' = kill_returned
    BY <1>2 DEF RunStep, RunLock, propagate_child_error, OnPostCloneParent, PtraceAttach,
           PtraceWait, PtraceSetOptions, PtraceCont, AddTimeoutThread, ParentArrivesGo,
           ParentLeavesGo, OnWakeup, LimitKill, Waitid, WaitidInterrupted, OnExecuteEvent,
           RemoveTimeoutThread, OnPostExecute, FinishKill, FinishState, FinishReap, RunReturn,
           outside, history
  <2>1. CASE RunLock(t)
    <3>1. UNCHANGED <<proc, execution_result, returned>>
      BY <2>1 DEF RunLock, data, history
    <3>2. UNCHANGED <<HandleOutcome, HandleResult>>
      BY <2>1, <3>1 DEF RunLock, HandleOutcome, HandleResult
    <3> QED
      BY <3>1, <3>2, <2>k DEF HandleChild, HandleCode
  <2>2. CASE RunReturn(t)
    <3>1. /\ pc[t] = "return" /\ run_once' = "done"
          /\ UNCHANGED <<proc, execution_result>>
          /\ returned' = returned \cup {IF run_error = "Some" THEN Err ELSE execution_result}
      BY <2>2 DEF RunReturn, Goto, data
    <3>2. UNCHANGED <<HandleChild, HandleCode>>
      BY <3>1 DEF HandleChild, HandleCode
    <3>3. HandleOutcome' = "settled" /\ HandleResult' = execution_result
      BY <3>1 DEF HandleOutcome, HandleResult
    <3>4. CASE run_once = "running"
      <4>1. HandleOutcome = "open" /\ HandleChild # "none" /\ returned = {}
        BY <3>1, <3>4, <1>t
        DEF HandleOutcome, HandleChild, Ownership, RunInv, IndInv, Handshake, Busy
      <4>2. CASE run_error = "Some"
        BY <4>1, <4>2, <3>1, <3>2, <3>3, <2>k, <1>p
        DEF Handle!Settle, Handle!Err, Err, Handle!ExecutionResults, ExecutionResults,
            Handle!ExitStatus, ExitStatus, Handle!ExitReason, ExitReason
      <4>3. CASE run_error # "Some"
        <5>1. run_error = "None" /\ returned' = {HandleResult'}
          BY <4>1, <4>3, <3>1, <3>3, <1>t DEF TypeOK
        <5>2. proc.state = "reaped" /\ Agrees(execution_result, proc)
          BY <5>1, <3>1, <3>4 DEF RunInv, Report, ReportAt
        <5>3. HandleChild = "reaped" /\ HandleCode = proc.code
          BY <5>2 DEF HandleChild, HandleCode
        <5> QED
          BY <4>1, <5>1, <5>2, <5>3, <3>2, <3>3, <2>k, <1>p
          DEF Handle!Settle, Agrees, Handle!ExecutionResults, ExecutionResults,
              Handle!ExitStatus, ExitStatus, Handle!ExitReason, ExitReason
      <4> QED
        BY <4>2, <4>3
    <3>5. CASE run_once = "done"
      <4>1. run_error = "None"
        BY <3>5, <1>t DEF Ownership
      <4>2. HandleOutcome = "settled" /\ HandleResult = execution_result
        BY <3>5 DEF HandleOutcome, HandleResult
      <4> QED
        BY <4>1, <4>2, <3>1, <3>2, <3>3, <2>k DEF Handle!Again
    <3> QED
      BY <3>1, <3>4, <3>5, <1>t DEF Ownership
  <2>3. CASE pc[t] \in RunBody
    <3>1. run_once = "running" /\ run_once' \in {"running", "poisoned"} /\ returned' = returned
      BY <1>2, <2>3, <1>t, BodySteps DEF Exclusion
    <3>2. HandleOutcome = "open" /\ UNCHANGED <<HandleResult, returned, kill_returned>>
      BY <3>1, <2>k DEF HandleOutcome, HandleResult
    <3>3. CASE run_once' = "poisoned"
      <4>1. ~Exists(proc) /\ proc' = proc
        BY <1>2, <3>1, <3>3
        DEF RunStep, RunLock, propagate_child_error, OnPostCloneParent, PtraceAttach,
            PtraceWait, PtraceSetOptions, PtraceCont, AddTimeoutThread, ParentArrivesGo,
            ParentLeavesGo, OnWakeup, LimitKill, Waitid, WaitidInterrupted, OnExecuteEvent,
            RemoveTimeoutThread, OnPostExecute, FinishKill, FinishState, FinishReap, RunReturn,
            outside, runVars
      <4>2. HandleChild = "reaped" /\ UNCHANGED <<HandleChild, HandleCode>>
        BY <4>1, <2>3 DEF RunInv, IndInv, Handshake, Busy, Exists, HandleChild, HandleCode
      <4>3. HandleOutcome' = "poisoned"
        BY <3>3 DEF HandleOutcome
      <4> QED
        BY <3>2, <4>2, <4>3 DEF Handle!Poison
    <3>4. CASE run_once' = "running"
      <4>1. HandleOutcome' = HandleOutcome
        BY <3>1, <3>4 DEF HandleOutcome
      <4>2. CASE Alike(proc', proc)
        BY <3>2, <4>1, <4>2, <1>a
      <4>3. CASE proc.state = "zombie" /\ proc'.state = "reaped" /\ proc'.code = proc.code
        BY <3>2, <4>1, <4>3 DEF Handle!Reaped, HandleChild, HandleCode
      <4> QED
        BY <1>2, <1>t, <4>2, <4>3, RunAlike
    <3> QED
      BY <3>1, <3>3, <3>4
  <2> QED
    <3>1. RunLock(t) \/ RunReturn(t) \/ pc[t] \in RunBody
      BY <1>2 DEF RunStep, propagate_child_error, OnPostCloneParent, PtraceAttach,
           PtraceWait, PtraceSetOptions, PtraceCont, AddTimeoutThread, ParentArrivesGo,
           ParentLeavesGo, OnWakeup, LimitKill, Waitid, WaitidInterrupted, OnExecuteEvent,
           RemoveTimeoutThread, OnPostExecute, FinishKill, FinishState, FinishReap,
           Goto, Fail, RunBody
    <3> QED
      BY <3>1, <2>1, <2>2, <2>3
<1>3. CASE DropHandle
  BY <1>3 DEF DropHandle, data, runVars, history,
              HandleChild, HandleCode, HandleOutcome, HandleResult
<1>4. CASE Cloner \/ ChildStep \/ KernelStep \/ Environment
  <2>1. UNCHANGED <<HandleOutcome, HandleResult, returned, kill_returned>>
    BY <1>4, <1>r, BystandingSteps DEF Bystanding, runVars, history
  <2>2. CASE Alike(proc', proc)
    BY <2>1, <2>2, <1>a
  <2>3. CASE proc.state = "none" /\ proc'.state = "run"
    BY <2>1, <2>3 DEF Handle!Spawned, HandleChild, HandleCode
  <2>4. CASE proc.state = "dying" /\ proc'.state = "zombie" /\ proc'.code = proc.code
    <3>1. proc.code \in ExitReason
      BY <2>4 DEF RunInv, Doom, Coded, Leaving
    <3> QED
      BY <2>1, <2>4, <3>1 DEF Handle!Dies, HandleChild, HandleCode, Handle!ExitReason, ExitReason
  <2> QED
    BY <1>4, <1>t, <2>2, <2>3, <2>4, ChildSteps
<1>5. CASE UNCHANGED vars
  BY <1>5 DEF vars, outside, data, history, HandleChild, HandleCode, HandleOutcome, HandleResult
<1> QED
  BY <1>1, <1>2, <1>3, <1>4, <1>5 DEF Next

\* JailedChild, with its locks, listeners and handshake, is a ChildHandle: run's
\* outcome is settled once, by an error or by the true end of a reaped child, and
\* kill fails only on a child that is gone while run has not returned.
THEOREM Implements == Spec => ImplementsHandle
BY InitImplements, NextImplements, RunInvariant, PTL DEF Spec, ImplementsHandle, Handle!Spec
=============================================================================
