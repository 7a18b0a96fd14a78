-------------------------- MODULE JailedChildProofs --------------------------
(***************************************************************************)
(* Safety of JailedChild for any number of client threads, of calls, for   *)
(* any feature sets and any faults.                                        *)
(*                                                                         *)
(* The invariants the runs check are not inductive: that a SIGKILL finds   *)
(* its own child rests on who holds the two mutexes (Exclusion), on the    *)
(* order in which run_saving_result marks and reaps the child (Reaping),   *)
(* and on how far the handshake of spawn and run has come (Handshake).     *)
(***************************************************************************)
EXTENDS JailedChild, TLAPS

\* Inside run_saving_result, called through call_once.
RunBody == {"propagate0", "post_clone", "attach", "attach_wait", "setoptions",
            "cont", "add_timeout", "barrier", "barrier_wait", "wakeup",
            "limit_kill", "waitid", "propagate1", "execute_event",
            "remove_timeout", "post_execute", "propagate2", "finish_kill",
            "finish_state", "finish_reap"}

\* A call of run or kill is in progress.
Busy == RunBody \cup {"kill_lock", "kill_send", "run_lock", "return"}

\* child_internals is held during run and its return, and only while it is held
\* can the Once be running.
Exclusion ==
  \A t \in Threads :
    /\ pc[t] \in RunBody => internals = t /\ run_once = "running"
    /\ pc[t] = "return" => internals = t /\ run_once # "new"
    /\ pc[t] = "kill_send" => state_lock = t

\* child_state says Reaped before the child is reaped; only the waitpid of
\* PtraceListener, between attach and setoptions, reaps without saying so.
Reaping ==
  /\ run_once = "new" => child_state = "Reapable" /\ proc.tracing = "none"
  /\ proc.state = "reaped" =>
       child_state = "Reaped" \/ proc.tracing = "attached"
  /\ \A t \in Threads :
       /\ pc[t] \in RunBody \ {"finish_reap"} => child_state = "Reapable"
       /\ pc[t] = "finish_reap" => child_state = "Reaped"
       /\ pc[t] \in {"propagate0", "post_clone", "attach"} => proc.tracing = "none"
       /\ pc[t] \in {"attach_wait", "setoptions"} => proc.tracing = "attached"

\* A handle exists only once the child does, and the child is released only
\* once the tracer's options are set.
Handshake ==
  /\ "child" \in child_ready => proc.state # "none"
  /\ handle \in {"jailed", "dropped"} => proc.state # "none"
  /\ \A t \in Threads :
       /\ pc[t] \in Busy => proc.state # "none"
       /\ pc[t] \in {"cont", "add_timeout", "barrier"} => (Has("MEMORY") => TracesExit(proc))
  /\ "parent" \in parent_ready => (Has("MEMORY") => TracesExit(proc))
  /\ cpc \in {"exec", "program", "faulting"} => "parent" \in parent_ready

IndInv == TypeOK /\ Exclusion /\ Reaping /\ Handshake

-----------------------------------------------------------------------------
(* The operators on results and on the process.                            *)

\* Verdicts and reasons are only replaced by verdicts and reasons.
LEMMA ResultTypes ==
  ASSUME NEW result \in ExecutionResults
  PROVE  /\ NewResult \in ExecutionResults
         /\ LimitVerdict(result) \in ExecutionResults
         /\ FinalVerdict(result) \in ExecutionResults
         /\ \A reason \in ExitReason : SetExitReason(result, reason) \in ExecutionResults
BY DEF ExecutionResults, NewResult, LimitVerdict, FinalVerdict, SetExitStatus, SetExitReason,
       ExitStatus, ExitReason

\* Signals, ptrace requests and waits turn a process into a process.
LEMMA ProcTypes ==
  ASSUME NEW p \in Process
  PROVE  /\ kill_pid(p) \in Process
         /\ Resume(p) \in Process
         /\ Stop(p) \in Process
         /\ Reap(p) \in Process
         /\ Attach(p) \in Process
         /\ SetOptions(p) \in Process
         /\ TakeStop(p) \in Process
         /\ \A state \in ProcState : SetState(p, state) \in Process
         /\ \A state \in ProcState : Die(p, state) \in Process
         /\ \A code \in ExitReason : BeginExit(p, code) \in Process
         /\ WaitStatus(p) \in ExitReason \cup {NoStatus, "ptrace", "stopped"}
<1> USE DEF Process
<1>1. \A state \in ProcState : SetState(p, state) \in Process
  BY DEF SetState
<1>2. kill_pid(p) \in Process
  BY DEF kill_pid, SetState, ProcState
<1>3. Resume(p) \in Process /\ Stop(p) \in Process /\ Reap(p) \in Process
  BY <1>1 DEF Resume, Stop, Reap, ProcState
<1>4. Attach(p) \in Process /\ SetOptions(p) \in Process
  BY DEF Attach, SetOptions
<1>5. TakeStop(p) \in Process
  BY DEF TakeStop, ProcState
<1>6. \A state \in ProcState : Die(p, state) \in Process
  BY DEF Die, ExitReason
<1>7. \A code \in ExitReason : BeginExit(p, code) \in Process
  BY DEF BeginExit, ProcState
<1>8. WaitStatus(p) \in ExitReason \cup {NoStatus, "ptrace", "stopped"}
  BY DEF WaitStatus
<1> QED
  BY <1>1, <1>2, <1>3, <1>4, <1>5, <1>6, <1>7, <1>8

\* q may follow p: born and traced as before, and not reaped in between.
Follows(q, p) ==
  /\ p.state # "none" => q.state # "none"
  /\ q.state = "reaped" => p.state = "reaped"
  /\ q.tracing = p.tracing

\* Only Reap reaps, only Attach and SetOptions change the tracing.
LEMMA ProcFollows ==
  ASSUME NEW p \in Process
  PROVE  /\ Follows(p, p)
         /\ Follows(kill_pid(p), p)
         /\ Follows(Resume(p), p)
         /\ Follows(Stop(p), p)
         /\ Follows(TakeStop(p), p)
         /\ \A state \in {"run", "zombie"} : Follows(SetState(p, state), p)
         /\ \A state \in {"dying", "exitstop"} : Follows(Die(p, state), p)
         /\ \A code : Follows(BeginExit(p, code), p)
BY DEF Follows, Process, kill_pid, Resume, Stop, TakeStop, SetState, Die, BeginExit

LEMMA ProcChanges ==
  ASSUME NEW p \in Process
  PROVE  /\ Reap(p).state \in {p.state, "reaped"} /\ Reap(p).tracing = p.tracing
         /\ Attach(p).state = p.state /\ Attach(p).tracing = "attached"
         /\ SetOptions(p).state = p.state /\ SetOptions(p).tracing = "traceexit"
BY DEF Process, Reap, SetState, Attach, SetOptions

-----------------------------------------------------------------------------
(* Type correctness.                                                       *)

\* Every action keeps the type invariant.
LEMMA TypeNext == TypeOK /\ [Next]_vars => TypeOK'
<1> SUFFICES ASSUME TypeOK, [Next]_vars PROVE TypeOK'
  OBVIOUS
<1> USE DEF TypeOK, data, shared, mutexes, history, runVars, outside
<1>p. /\ kill_pid(proc) \in Process /\ Resume(proc) \in Process
      /\ Stop(proc) \in Process /\ Reap(proc) \in Process
      /\ Attach(proc) \in Process /\ SetOptions(proc) \in Process
      /\ TakeStop(proc) \in Process
      /\ \A state \in ProcState : SetState(proc, state) \in Process
      /\ \A state \in ProcState : Die(proc, state) \in Process
      /\ \A code \in ExitReason : BeginExit(proc, code) \in Process
      /\ WaitStatus(proc) \in ExitReason \cup {NoStatus, "ptrace", "stopped"}
  BY ProcTypes
<1>1. ASSUME NEW t \in Threads, ClientCall(t) \/ SpawnReturns(t) PROVE TypeOK'
  <2> USE DEF Goto, ThreadPC
  <2>1. CASE Spawn(t)
    BY <2>1 DEF Spawn, Party
  <2>2. CASE SpawnFails(t)
    BY <2>2 DEF SpawnFails
  <2>3. CASE RunCall(t)
    BY <2>3, ConstantsAssumption DEF RunCall
  <2>4. CASE KillCall(t)
    BY <2>4, ConstantsAssumption DEF KillCall
  <2>5. CASE SpawnReturns(t)
    BY <2>5 DEF SpawnReturns
  <2> QED
    BY <1>1, <2>1, <2>2, <2>3, <2>4, <2>5 DEF ClientCall
<1>2. ASSUME NEW t \in Threads, KillStep(t) PROVE TypeOK'
  <2> USE DEF Goto, ThreadPC
  <2>1. CASE KillLock(t)
    BY <2>1 DEF KillLock
  <2>2. CASE KillSend(t)
    <3>1. kill_returned' \subseteq {"Ok", "Err"}
      BY <2>2, Zenon DEF KillSend
    <3> QED
      BY <2>2, <1>p, <3>1 DEF KillSend
  <2> QED
    BY <1>2, <2>1, <2>2 DEF KillStep
<1>3. ASSUME NEW t \in Threads, RunStep(t) PROVE TypeOK'
  <2> USE DEF Goto, Fail, ThreadPC
  <2>1. CASE RunLock(t)
    BY <2>1 DEF RunLock
  <2>2. ASSUME NEW here, NEW there \in ThreadPC, propagate_child_error(t, here, there)
        PROVE TypeOK'
    BY <2>2 DEF propagate_child_error
  <2>3. CASE OnPostCloneParent(t)
    BY <2>3 DEF OnPostCloneParent
  <2>4. CASE PtraceAttach(t)
    BY <2>4, <1>p DEF PtraceAttach
  <2>5. CASE PtraceWait(t)
    BY <2>5, <1>p DEF PtraceWait
  <2>6. CASE PtraceSetOptions(t)
    BY <2>6, <1>p DEF PtraceSetOptions
  <2>7. CASE PtraceCont(t)
    BY <2>7, <1>p DEF PtraceCont
  <2>8. CASE AddTimeoutThread(t)
    BY <2>8 DEF AddTimeoutThread
  <2>9. CASE ParentArrivesGo(t)
    BY <2>9 DEF ParentArrivesGo, Party
  <2>10. CASE ParentLeavesGo(t)
    BY <2>10 DEF ParentLeavesGo
  <2>11. CASE OnWakeup(t)
    BY <2>11, ResultTypes DEF OnWakeup
  <2>12. CASE LimitKill(t)
    BY <2>12, <1>p DEF LimitKill
  <2>13. CASE Waitid(t)
    BY <2>13, <1>p DEF Waitid
  <2>14. CASE WaitidInterrupted(t)
    BY <2>14 DEF WaitidInterrupted
  <2>15. CASE OnExecuteEvent(t)
    BY <2>15, <1>p, ResultTypes DEF OnExecuteEvent
  <2>16. CASE RemoveTimeoutThread(t)
    BY <2>16 DEF RemoveTimeoutThread
  <2>17. CASE OnPostExecute(t)
    BY <2>17, ResultTypes DEF OnPostExecute
  <2>18. CASE FinishKill(t)
    BY <2>18, <1>p DEF FinishKill
  <2>19. CASE FinishState(t)
    BY <2>19 DEF FinishState
  <2>20. CASE FinishReap(t)
    BY <2>20, <1>p DEF FinishReap
  <2>21. CASE RunReturn(t)
    BY <2>21 DEF RunReturn
  <2> QED
    BY <1>3, <2>1, <2>2, <2>3, <2>4, <2>5, <2>6, <2>7, <2>8, <2>9, <2>10, <2>11,
       <2>12, <2>13, <2>14, <2>15, <2>16, <2>17, <2>18, <2>19, <2>20, <2>21 DEF
       RunStep
<1>4. CASE DropHandle \/ Cloner
  <2>1. CASE DropHandle
    BY <2>1 DEF DropHandle
  <2>2. CASE CloneChild
    BY <2>2, <1>p DEF CloneChild, ChildPC, ProcState
  <2>3. CASE CloneFails
    BY <2>3 DEF CloneFails
  <2> QED
    BY <1>4, <2>1, <2>2, <2>3 DEF Cloner
<1>5. CASE ChildStep
  <2> USE DEF PreExec, Child, ChildPC
  <2>1. CASE ChildSetup
    BY <2>1 DEF ChildSetup
  <2>2. CASE ChildSetupFails
    BY <2>2 DEF ChildSetupFails
  <2>3. CASE ChildArrivesReady
    BY <2>3 DEF ChildArrivesReady, Party
  <2>4. CASE ChildLeavesReady
    BY <2>4 DEF ChildLeavesReady
  <2>5. CASE ChildArrivesGo
    BY <2>5 DEF ChildArrivesGo, Party
  <2>6. CASE ChildLeavesGo
    BY <2>6 DEF ChildLeavesGo
  <2>7. CASE ChildExecs
    BY <2>7, <1>p DEF ChildExecs
  <2>8. CASE ChildExecFails
    BY <2>8 DEF ChildExecFails
  <2>9. CASE ChildStoresError
    BY <2>9 DEF ChildStoresError
  <2>10. CASE ChildReturns
    BY <2>10, <1>p DEF ChildReturns, ExitReason
  <2> QED
    BY <1>5, <2>1, <2>2, <2>3, <2>4, <2>5, <2>6, <2>7, <2>8, <2>9, <2>10 DEF
       ChildStep
<1>6. CASE KernelStep
  <2>1. CASE KernelKill
    <3>1. proc' \in Process
      BY <2>1, <1>p DEF KernelKill, ProcState
    <3> QED
      BY <2>1, <3>1 DEF KernelKill
  <2>2. CASE KernelStop
    BY <2>2, <1>p DEF KernelStop
  <2>3. CASE KernelZombie
    BY <2>3, <1>p DEF KernelZombie, ProcState
  <2> QED
    BY <1>6, <2>1, <2>2, <2>3 DEF KernelStep
<1>7. CASE Environment
  <2> USE DEF Child, ChildPC
  <2>1. CASE ProgramExits
    BY <2>1, <1>p DEF ProgramExits, ExitReason
  <2>2. CASE ProgramFaults
    BY <2>2 DEF ProgramFaults
  <2>3. CASE FaultSignal
    BY <2>3, <1>p DEF FaultSignal, ExitReason
  <2>4. CASE ProgramStops
    BY <2>4, <1>p DEF ProgramStops
  <2>5. CASE ProgramContinues
    BY <2>5, <1>p DEF ProgramContinues, ProcState
  <2>6. CASE ExceedLimit
    BY <2>6 DEF ExceedLimit
  <2>7. CASE ChildUsesFreed
    BY <2>7, <1>p DEF ChildUsesFreed, ExitReason
  <2> QED
    BY <1>7, <2>1, <2>2, <2>3, <2>4, <2>5, <2>6, <2>7 DEF Environment
<1>8. CASE UNCHANGED vars
  BY <1>8 DEF vars
<1> QED
  BY <1>1, <1>2, <1>3, <1>4, <1>5, <1>6, <1>7, <1>8 DEF Next

-----------------------------------------------------------------------------
(* Two shapes most steps have.                                             *)

\* The detached thread, the child and the kernel leave the clients' state alone.
\* The child arrives at a barrier only while it runs, and reaches exec only
\* after the parent's arrival.
Elsewhere ==
  /\ UNCHANGED <<settings, handle, pc, mutexes, run_once>>
  /\ Follows(proc', proc)
  /\ child_ready' # child_ready => proc.state # "none"
  /\ parent_ready' \in {parent_ready, parent_ready \cup {"child"}}
  /\ cpc' \in {"exec", "program", "faulting"} =>
       cpc \in {"exec", "program", "faulting"} \/ "parent" \in parent_ready

LEMMA ElsewhereSteps ==
  TypeOK /\ (Cloner \/ ChildStep \/ KernelStep \/ Environment) => Elsewhere
<1> SUFFICES ASSUME TypeOK, Cloner \/ ChildStep \/ KernelStep \/ Environment PROVE Elsewhere
  OBVIOUS
<1> USE DEF data, shared, mutexes, runVars, outside, Elsewhere
<1>p. /\ Follows(proc, proc) /\ Follows(Stop(proc), proc) /\ Follows(TakeStop(proc), proc)
      /\ \A state \in {"run", "zombie"} : Follows(SetState(proc, state), proc)
      /\ \A state \in {"dying", "exitstop"} : Follows(Die(proc, state), proc)
      /\ \A code : Follows(BeginExit(proc, code), proc)
  BY ProcFollows DEF TypeOK
<1>1. CASE CloneChild
  BY <1>1, <1>p DEF CloneChild
<1>2. CASE CloneFails
  BY <1>2, <1>p DEF CloneFails
<1>3. CASE ChildStep
  <2> USE DEF PreExec, Child
  <2>1. CASE ChildSetup \/ ChildSetupFails \/ ChildExecFails \/ ChildStoresError
    BY <2>1, <1>p DEF ChildSetup, ChildSetupFails, ChildExecFails, ChildStoresError
  <2>2. CASE ChildArrivesReady \/ ChildLeavesReady
    BY <2>2, <1>p DEF ChildArrivesReady, ChildLeavesReady
  <2>3. CASE ChildArrivesGo \/ ChildLeavesGo
    BY <2>3, <1>p DEF ChildArrivesGo, ChildLeavesGo
  <2>4. CASE ChildExecs
    BY <2>4, <1>p DEF ChildExecs
  <2>5. CASE ChildReturns
    BY <2>5, <1>p DEF ChildReturns
  <2> QED
    BY <1>3, <2>1, <2>2, <2>3, <2>4, <2>5 DEF ChildStep
<1>4. CASE KernelStep
  BY <1>4, <1>p DEF KernelStep, KernelKill, KernelStop, KernelZombie
<1>5. CASE Environment
  <2> USE DEF Child
  <2>1. CASE ProgramExits \/ ProgramFaults \/ FaultSignal \/ ProgramStops
    BY <2>1, <1>p DEF ProgramExits, ProgramFaults, FaultSignal, ProgramStops
  <2>2. CASE ProgramContinues \/ ExceedLimit
    BY <2>2, <1>p DEF ProgramContinues, ExceedLimit
  <2>3. CASE ChildUsesFreed
    BY <2>3, <1>p DEF ChildUsesFreed
  <2> QED
    BY <1>5, <2>1, <2>2, <2>3 DEF Environment
<1> QED
  BY <1>1, <1>2, <1>3, <1>4, <1>5 DEF Cloner

\* Past parent_ready_barrier, the body of run moves t on to another such place,
\* and neither reaps the child nor changes its tracing.
Supervising == {"barrier_wait", "wakeup", "limit_kill", "waitid", "propagate1",
                "execute_event", "remove_timeout", "post_execute", "propagate2",
                "finish_kill"}

SuperviseStep(t) ==
  \/ ParentLeavesGo(t) \/ OnWakeup(t) \/ LimitKill(t) \/ Waitid(t) \/ WaitidInterrupted(t)
  \/ propagate_child_error(t, "propagate1", "execute_event")
  \/ OnExecuteEvent(t) \/ RemoveTimeoutThread(t) \/ OnPostExecute(t)
  \/ propagate_child_error(t, "propagate2", "finish_kill")

Supervision(t) ==
  /\ pc[t] \in Supervising
  /\ \E there \in Supervising : pc' = [pc EXCEPT ![t] = there]
  /\ UNCHANGED <<settings, handle, mutexes, run_once, cpc, child_ready, parent_ready>>
  /\ Follows(proc', proc)

LEMMA SuperviseSteps ==
  ASSUME TypeOK, NEW t \in Threads, SuperviseStep(t)
  PROVE  Supervision(t)
<1> USE DEF data, shared, mutexes, outside, Supervision, Supervising, Goto, Fail
<1>p. Follows(proc, proc) /\ Follows(kill_pid(proc), proc) /\ Follows(Resume(proc), proc)
  BY ProcFollows DEF TypeOK
<1>1. CASE ParentLeavesGo(t) \/ RemoveTimeoutThread(t) \/ WaitidInterrupted(t)
  BY <1>1, <1>p DEF ParentLeavesGo, RemoveTimeoutThread, WaitidInterrupted
<1>2. CASE OnWakeup(t)
  BY <1>2, <1>p DEF OnWakeup
<1>3. CASE LimitKill(t)
  BY <1>3, <1>p DEF LimitKill
<1>4. CASE Waitid(t)
  BY <1>4, <1>p DEF Waitid
<1>5. CASE propagate_child_error(t, "propagate1", "execute_event")
  BY <1>5, <1>p DEF propagate_child_error
<1>6. CASE OnExecuteEvent(t)
  BY <1>6, <1>p DEF OnExecuteEvent
<1>7. CASE OnPostExecute(t)
  BY <1>7, <1>p DEF OnPostExecute
<1>8. CASE propagate_child_error(t, "propagate2", "finish_kill")
  BY <1>8, <1>p DEF propagate_child_error
<1> QED
  BY <1>1, <1>2, <1>3, <1>4, <1>5, <1>6, <1>7, <1>8 DEF SuperviseStep

-----------------------------------------------------------------------------
(* The inductive invariant.                                                *)

\* RunStep, by the shape of its disjuncts.
LEMMA RunSteps ==
  ASSUME NEW t \in Threads, RunStep(t)
  PROVE  \/ RunLock(t) \/ propagate_child_error(t, "propagate0", "post_clone")
         \/ OnPostCloneParent(t)
         \/ PtraceAttach(t) \/ PtraceWait(t) \/ PtraceSetOptions(t) \/ PtraceCont(t)
         \/ AddTimeoutThread(t) \/ ParentArrivesGo(t) \/ SuperviseStep(t)
         \/ FinishKill(t) \/ FinishState(t) \/ FinishReap(t) \/ RunReturn(t)
BY DEF RunStep, SuperviseStep

\* At most one thread is inside run, at most one inside kill's lock.
LEMMA ExclusionNext == TypeOK /\ Exclusion /\ [Next]_vars => Exclusion'
<1> SUFFICES ASSUME TypeOK, Exclusion, [Next]_vars PROVE Exclusion'
  OBVIOUS
<1> USE ConstantsAssumption DEF mutexes, runVars, outside, RunBody
<1>t. pc \in [Threads -> ThreadPC]
  BY DEF TypeOK
<1>1. ASSUME NEW t \in Threads, ClientCall(t) \/ SpawnReturns(t) PROVE Exclusion'
  BY <1>1, <1>t DEF Exclusion, ClientCall, Spawn, SpawnFails, RunCall, KillCall, SpawnReturns, Goto
<1>2. ASSUME NEW t \in Threads, KillStep(t) PROVE Exclusion'
  BY <1>2, <1>t DEF Exclusion, KillStep, KillLock, KillSend, Goto
<1>3. ASSUME NEW t \in Threads, RunStep(t) PROVE Exclusion'
  <2> USE DEF Goto, Fail
  <2>1. CASE RunLock(t)
    BY <2>1, <1>t DEF Exclusion, RunLock
  <2>2. CASE propagate_child_error(t, "propagate0", "post_clone") \/ OnPostCloneParent(t)
    BY <2>2, <1>t DEF Exclusion, propagate_child_error, OnPostCloneParent
  <2>3. CASE PtraceAttach(t) \/ PtraceWait(t) \/ PtraceSetOptions(t) \/ PtraceCont(t)
    BY <2>3, <1>t DEF Exclusion, PtraceAttach, PtraceWait, PtraceSetOptions, PtraceCont
  <2>4. CASE AddTimeoutThread(t) \/ ParentArrivesGo(t)
    BY <2>4, <1>t DEF Exclusion, AddTimeoutThread, ParentArrivesGo
  <2>5. CASE SuperviseStep(t)
    BY <2>5, <1>t, SuperviseSteps DEF Exclusion, Supervision, Supervising
  <2>6. CASE FinishKill(t)
    BY <2>6, <1>t DEF Exclusion, FinishKill
  <2>7. CASE FinishState(t) \/ FinishReap(t)
    BY <2>7, <1>t DEF Exclusion, FinishState, FinishReap
  <2>8. CASE RunReturn(t)
    BY <2>8, <1>t DEF Exclusion, RunReturn
  <2> QED
    BY <1>3, RunSteps, <2>1, <2>2, <2>3, <2>4, <2>5, <2>6, <2>7, <2>8
<1>4. CASE DropHandle
  BY <1>4 DEF Exclusion, DropHandle
<1>5. CASE Cloner \/ ChildStep \/ KernelStep \/ Environment
  BY <1>5, ElsewhereSteps DEF Exclusion, Elsewhere
<1>6. CASE UNCHANGED vars
  BY <1>6 DEF Exclusion, vars
<1> QED
  BY <1>1, <1>2, <1>3, <1>4, <1>5, <1>6 DEF Next

\* The child is marked Reaped before run_saving_result reaps it.
LEMMA ReapingNext == TypeOK /\ Exclusion /\ Reaping /\ [Next]_vars => Reaping'
<1> SUFFICES ASSUME TypeOK, Exclusion, Reaping, [Next]_vars PROVE Reaping'
  OBVIOUS
<1> USE DEF mutexes, runVars, outside, RunBody
<1>t. pc \in [Threads -> ThreadPC]
  BY DEF TypeOK
<1>p. /\ Follows(kill_pid(proc), proc) /\ Follows(Resume(proc), proc)
      /\ Reap(proc).state \in {proc.state, "reaped"} /\ Reap(proc).tracing = proc.tracing
      /\ Attach(proc).state = proc.state /\ Attach(proc).tracing = "attached"
      /\ SetOptions(proc).state = proc.state
  BY ProcFollows, ProcChanges DEF TypeOK
<1>1. ASSUME NEW t \in Threads, ClientCall(t) \/ SpawnReturns(t) PROVE Reaping'
  BY <1>1, <1>t DEF Reaping, ClientCall, Spawn, SpawnFails, RunCall, KillCall, SpawnReturns, Goto
<1>2. ASSUME NEW t \in Threads, KillStep(t) PROVE Reaping'
  BY <1>2, <1>t, <1>p DEF Reaping, KillStep, KillLock, KillSend, Goto, Follows
<1>3. ASSUME NEW t \in Threads, RunStep(t) PROVE Reaping'
  <2> USE DEF Goto, Fail
  <2>1. CASE RunLock(t)
    BY <2>1, <1>t DEF Reaping, RunLock
  <2>2. CASE propagate_child_error(t, "propagate0", "post_clone") \/ OnPostCloneParent(t)
    BY <2>2, <1>t DEF Reaping, propagate_child_error, OnPostCloneParent
  <2>3. CASE PtraceAttach(t)
    BY <2>3, <1>t, <1>p DEF Reaping, Exclusion, PtraceAttach
  <2>4. CASE PtraceWait(t)
    BY <2>4, <1>t, <1>p DEF Reaping, Exclusion, PtraceWait
  <2>5. CASE PtraceSetOptions(t)
    BY <2>5, <1>t, <1>p DEF Reaping, Exclusion, PtraceSetOptions
  <2>6. CASE PtraceCont(t)
    BY <2>6, <1>t, <1>p DEF Reaping, PtraceCont, Follows
  <2>7. CASE AddTimeoutThread(t) \/ ParentArrivesGo(t)
    BY <2>7, <1>t DEF Reaping, AddTimeoutThread, ParentArrivesGo
  <2>8. CASE SuperviseStep(t)
    BY <2>8, <1>t, SuperviseSteps DEF Reaping, Supervision, Supervising, Follows
  <2>9. CASE FinishKill(t)
    BY <2>9, <1>t, <1>p DEF Reaping, Exclusion, FinishKill, Follows
  <2>10. CASE FinishState(t)
    BY <2>10, <1>t DEF Reaping, Exclusion, FinishState
  <2>11. CASE FinishReap(t)
    BY <2>11, <1>t, <1>p DEF Reaping, Exclusion, FinishReap
  <2>12. CASE RunReturn(t)
    BY <2>12, <1>t DEF Reaping, RunReturn
  <2> QED
    BY <1>3, RunSteps, <2>1, <2>2, <2>3, <2>4, <2>5, <2>6, <2>7, <2>8, <2>9, <2>10,
       <2>11, <2>12
<1>4. CASE DropHandle
  BY <1>4 DEF Reaping, DropHandle
<1>5. CASE Cloner \/ ChildStep \/ KernelStep \/ Environment
  BY <1>5, ElsewhereSteps DEF Reaping, Elsewhere, Follows
<1>6. CASE UNCHANGED vars
  BY <1>6 DEF Reaping, vars
<1> QED
  BY <1>1, <1>2, <1>3, <1>4, <1>5, <1>6 DEF Next

\* The handshake of spawn and run with the child.
LEMMA HandshakeNext == TypeOK /\ Exclusion /\ Reaping /\ Handshake /\ [Next]_vars => Handshake'
<1> SUFFICES ASSUME TypeOK, Exclusion, Reaping, Handshake, [Next]_vars PROVE Handshake'
  OBVIOUS
<1> USE DEF data, shared, mutexes, runVars, outside, RunBody, Busy, Has, TracesExit
<1>t. pc \in [Threads -> ThreadPC]
  BY DEF TypeOK
<1>p. /\ Follows(kill_pid(proc), proc) /\ Follows(Resume(proc), proc)
      /\ Reap(proc).state \in {proc.state, "reaped"} /\ Reap(proc).tracing = proc.tracing
      /\ Attach(proc).state = proc.state
      /\ SetOptions(proc).state = proc.state /\ SetOptions(proc).tracing = "traceexit"
  BY ProcFollows, ProcChanges DEF TypeOK
<1>1. ASSUME NEW t \in Threads, ClientCall(t) \/ SpawnReturns(t) PROVE Handshake'
  <2> USE DEF Goto
  <2>1. CASE Spawn(t) \/ SpawnFails(t)
    BY <2>1, <1>t DEF Handshake, Spawn, SpawnFails
  <2>2. CASE RunCall(t) \/ KillCall(t)
    BY <2>2, <1>t DEF Handshake, RunCall, KillCall
  <2>3. CASE SpawnReturns(t)
    BY <2>3, <1>t DEF Handshake, SpawnReturns
  <2> QED
    BY <1>1, <2>1, <2>2, <2>3 DEF ClientCall
<1>2. ASSUME NEW t \in Threads, KillStep(t) PROVE Handshake'
  BY <1>2, <1>t, <1>p DEF Handshake, KillStep, KillLock, KillSend, Goto, Follows
<1>3. ASSUME NEW t \in Threads, RunStep(t) PROVE Handshake'
  <2> USE DEF Goto, Fail
  <2>1. CASE RunLock(t)
    BY <2>1, <1>t DEF Handshake, RunLock
  <2>2. CASE propagate_child_error(t, "propagate0", "post_clone") \/ OnPostCloneParent(t)
    BY <2>2, <1>t DEF Handshake, propagate_child_error, OnPostCloneParent
  <2>3. CASE PtraceAttach(t)
    BY <2>3, <1>t, <1>p DEF Handshake, Exclusion, Reaping, PtraceAttach
  <2>4. CASE PtraceWait(t)
    BY <2>4, <1>t, <1>p DEF Handshake, PtraceWait
  <2>5. CASE PtraceSetOptions(t)
    BY <2>5, <1>t, <1>p DEF Handshake, PtraceSetOptions
  <2>6. CASE PtraceCont(t)
    BY <2>6, <1>t, <1>p DEF Handshake, PtraceCont, Follows
  <2>7. CASE AddTimeoutThread(t) \/ ParentArrivesGo(t)
    BY <2>7, <1>t DEF Handshake, AddTimeoutThread, ParentArrivesGo
  <2>8. CASE SuperviseStep(t)
    BY <2>8, <1>t, SuperviseSteps DEF Handshake, Supervision, Supervising, Follows
  <2>9. CASE FinishKill(t)
    BY <2>9, <1>t, <1>p DEF Handshake, FinishKill, Follows
  <2>10. CASE FinishState(t)
    BY <2>10, <1>t DEF Handshake, FinishState
  <2>11. CASE FinishReap(t)
    BY <2>11, <1>t, <1>p DEF Handshake, FinishReap
  <2>12. CASE RunReturn(t)
    BY <2>12, <1>t DEF Handshake, RunReturn
  <2> QED
    BY <1>3, RunSteps, <2>1, <2>2, <2>3, <2>4, <2>5, <2>6, <2>7, <2>8, <2>9, <2>10,
       <2>11, <2>12
<1>4. CASE DropHandle
  BY <1>4 DEF Handshake, DropHandle
<1>5. CASE Cloner \/ ChildStep \/ KernelStep \/ Environment
  BY <1>5, ElsewhereSteps DEF Handshake, Elsewhere, Follows
<1>6. CASE UNCHANGED vars
  BY <1>6 DEF Handshake, vars
<1> QED
  BY <1>1, <1>2, <1>3, <1>4, <1>5, <1>6 DEF Next

LEMMA InitIndInv == Init => IndInv
<1> SUFFICES ASSUME Init PROVE IndInv
  OBVIOUS
<1>1. TypeOK
  <2>1. proc \in Process
    BY DEF Init, Process, ProcState, NoStatus
  <2>2. execution_result \in ExecutionResults
    BY DEF Init, NewResult, ExecutionResults, ExitStatus, ExitReason
  <2>3. settings \in [features : FeatureSets, limit : Feature \cup {"NONE"}]
    BY DEF Init
  <2>4. pc \in [Threads -> ThreadPC] /\ calls \in [Threads -> 0..MaxCalls]
    BY ConstantsAssumption DEF Init, ThreadPC
  <2> QED
    BY <2>1, <2>2, <2>3, <2>4 DEF Init, TypeOK, ChildPC, NoStatus
<1>2. Exclusion /\ Reaping /\ Handshake
  BY DEF Init, Exclusion, Reaping, Handshake, RunBody, Busy
<1> QED
  BY <1>1, <1>2 DEF IndInv

\* The inductive invariant of JailedChild.
THEOREM Inductive == Spec => []IndInv
<1>1. IndInv /\ [Next]_vars => IndInv'
  BY TypeNext, ExclusionNext, ReapingNext, HandshakeNext DEF IndInv
<1> QED
  BY <1>1, InitIndInv, PTL DEF Spec

\* Every variable keeps its type, for any number of threads, calls and faults.
THEOREM TypeCorrect == Spec => []TypeOK
<1>1. IndInv => TypeOK
  BY DEF IndInv
<1> QED
  BY <1>1, Inductive, PTL

\* No SIGKILL of kill, of the supervision loop or of run_saving_result goes to
\* a pid that is not this child's any more, but for PtraceListener's waitpid.
THEOREM KillSafe == Spec => []KillTargetsOwnChild
<1>1. IndInv => KillTargetsOwnChild
  <2> SUFFICES ASSUME IndInv,
                      NEW t \in Threads,
                      \/ pc[t] = "kill_send" /\ child_state = "Reapable"
                      \/ pc[t] \in {"limit_kill", "finish_kill"}
               PROVE  Exists(proc) \/ proc.tracing = "attached"
    BY DEF KillTargetsOwnChild
  <2>1. child_state = "Reapable"
    BY DEF IndInv, Reaping, RunBody
  <2>2. proc.state # "none"
    BY DEF IndInv, Handshake, Busy, RunBody
  <2> QED
    BY <2>1, <2>2 DEF IndInv, Reaping, Exists
<1> QED
  BY <1>1, Inductive, PTL

\* The jailed program only ever runs after the parent's setup is complete.
THEOREM Supervised == Spec => []SupervisedExec
<1>1. IndInv => SupervisedExec
  BY DEF IndInv, Handshake, SupervisedExec
<1> QED
  BY <1>1, Inductive, PTL
=============================================================================
