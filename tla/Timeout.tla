------------------------------- MODULE Timeout -------------------------------
(***************************************************************************)
(* The process-wide timeout thread (process/timeout.rs) and the threads    *)
(* whose waits it interrupts: every millisecond it sends SIGUSR1 to the    *)
(* threads in TIMEOUT_THREAD_DATA, so that a supervising thread leaves     *)
(* waitid and looks at its limits.  Each client thread supervises one      *)
(* limited child after the other; of ChildInternals::run only the calls    *)
(* that matter here are kept.                                              *)
(***************************************************************************)
EXTENDS Integers

CONSTANTS
  Threads,   \* client threads (their tids)
  MaxRuns,   \* bound: runs each thread makes
  Priors     \* dispositions SIGUSR1 may have before perfjail installs its own

ASSUME TimeoutAssumption ==
  MaxRuns \in Nat /\ Priors \subseteq {"DFL", "IGN", "USER"}

VARIABLES
  pc,            \* where each client thread is
  runs,          \* runs each thread has started
  failed,        \* threads of which a run has returned an error (history)
  interrupted,   \* threads of which a ptrace wait failed with EINTR (history)
  once,          \* the Once TIMEOUT_THREAD
  registered,    \* TIMEOUT_THREAD_DATA
  ticker,        \* the timeout thread: "none", "sleep", "lock" or "signal"
  targets,       \* while it holds the lock: threads it has still to signal
  disposition,   \* what SIGUSR1 does now
  previous,      \* *PREVIOUS_SIGHANDLER: "null" until the handler is installed
  pending,       \* threads with SIGUSR1 pending
  alive          \* FALSE once a SIGUSR1 has killed the process

clientVars == <<pc, runs, failed, interrupted>>
tickerVars == <<ticker, targets>>
signalVars == <<disposition, previous>>
vars == <<clientVars, once, registered, tickerVars, signalVars, pending, alive>>

ThreadPC == {"idle", "attach_wait", "once", "spawn_ticker", "sigaction", "insert",
             "wakeup", "waitid", "remove", "post_execute"}

TypeOK ==
  /\ pc \in [Threads -> ThreadPC]
  /\ runs \in [Threads -> 0..MaxRuns]
  /\ failed \subseteq Threads
  /\ interrupted \subseteq Threads
  /\ once \in {"new", "running", "done"}
  /\ registered \subseteq Threads
  /\ ticker \in {"none", "sleep", "lock", "signal"}
  /\ targets \subseteq Threads
  /\ disposition \in {"DFL", "IGN", "USER", "perfjail"}
  /\ previous \in {"null", "DFL", "IGN", "USER"}
  /\ pending \subseteq Threads
  /\ alive \in BOOLEAN

Init ==
  /\ pc = [t \in Threads |-> "idle"]
  /\ runs = [t \in Threads |-> 0]
  /\ failed = {}
  /\ interrupted = {}
  /\ once = "new"
  /\ registered = {}
  /\ ticker = "none"
  /\ targets = {}
  /\ disposition \in Priors
  /\ previous = "null"
  /\ pending = {}
  /\ alive = TRUE

Goto(t, here, there) ==
  /\ pc[t] = here
  /\ pc' = [pc EXCEPT ![t] = there]

Locked == ticker = "signal"

-----------------------------------------------------------------------------
(* The client threads.                                                     *)

\* A run with a limit; with MEMORY_MEASUREMENT it first waits for the stop of
\* the child PtraceListener has attached to.
RunStarts(t) ==
  /\ runs[t] < MaxRuns
  /\ \E there \in {"attach_wait", "once"} : Goto(t, "idle", there)
  /\ runs' = [runs EXCEPT ![t] = @ + 1]
  /\ UNCHANGED <<failed, interrupted, once, registered, tickerVars, signalVars,
                 pending, alive>>

AttachReturns(t) ==
  /\ Goto(t, "attach_wait", "once")
  /\ UNCHANGED <<runs, failed, interrupted, once, registered, tickerVars,
                 signalVars, pending, alive>>

\* Mutant: a second caller does not wait for the initialisation to finish.
CallOnceNoWait(t) ==
  /\ Goto(t, "once", IF once = "new" THEN "spawn_ticker" ELSE "insert")
  /\ once' = IF once = "new" THEN "running" ELSE once
  /\ UNCHANGED <<runs, failed, interrupted, registered, tickerVars, signalVars,
                 pending, alive>>

\* call_once: the first caller initialises, the others wait until it is done.
CallOnce(t) ==
  /\ \/ once = "new" /\ Goto(t, "once", "spawn_ticker") /\ once' = "running"
     \/ once = "done" /\ Goto(t, "once", "insert") /\ UNCHANGED once
  /\ UNCHANGED <<runs, failed, interrupted, registered, tickerVars, signalVars,
                 pending, alive>>

\* init_timeout_thread starts the thread before it installs the handler.
SpawnTicker(t) ==
  /\ Goto(t, "spawn_ticker", "sigaction")
  /\ ticker' = "sleep"
  /\ UNCHANGED <<runs, failed, interrupted, once, registered, targets,
                 signalVars, pending, alive>>

\* Mutant: the handler found afterwards is taken for the previous one.
InstallHandlerReadsBack(t) ==
  /\ Goto(t, "sigaction", "insert")
  /\ previous' = "perfjail"
  /\ disposition' = "perfjail"
  /\ once' = "done"
  /\ UNCHANGED <<runs, failed, interrupted, registered, tickerVars, pending, alive>>

InstallHandler(t) ==
  /\ Goto(t, "sigaction", "insert")
  /\ previous' = disposition
  /\ disposition' = "perfjail"
  /\ once' = "done"
  /\ UNCHANGED <<runs, failed, interrupted, registered, tickerVars, pending, alive>>

\* Mutant: a thread is registered for its first run only.
InsertOnce(t) ==
  /\ ~Locked
  /\ Goto(t, "insert", "wakeup")
  /\ registered' = IF runs[t] = 1 THEN registered \cup {t} ELSE registered
  /\ UNCHANGED <<runs, failed, interrupted, once, tickerVars, signalVars,
                 pending, alive>>

\* Mutant: the set is changed without its lock.
InsertUnlocked(t) ==
  /\ Goto(t, "insert", "wakeup")
  /\ registered' = registered \cup {t}
  /\ UNCHANGED <<runs, failed, interrupted, once, tickerVars, signalVars,
                 pending, alive>>

Insert(t) ==
  /\ ~Locked
  /\ Goto(t, "insert", "wakeup")
  /\ registered' = registered \cup {t}
  /\ UNCHANGED <<runs, failed, interrupted, once, tickerVars, signalVars,
                 pending, alive>>

OnWakeup(t) ==
  /\ Goto(t, "wakeup", "waitid")
  /\ UNCHANGED <<runs, failed, interrupted, once, registered, tickerVars,
                 signalVars, pending, alive>>

\* The child stopped or ended.
WaitidReturns(t) ==
  /\ \E there \in {"wakeup", "remove"} : Goto(t, "waitid", there)
  /\ UNCHANGED <<runs, failed, interrupted, once, registered, tickerVars,
                 signalVars, pending, alive>>

\* Every `?' in the loop of ChildInternals::run leaves it without
\* remove_timeout_thread: the thread stays registered.
RunFails(t) ==
  /\ \E here \in {"wakeup", "waitid"} : Goto(t, here, "idle")
  /\ failed' = failed \cup {t}
  /\ UNCHANGED <<runs, interrupted, once, registered, tickerVars, signalVars,
                 pending, alive>>

\* Mutant: the thread stays in the set.
RemoveSkipped(t) ==
  /\ ~Locked
  /\ Goto(t, "remove", "post_execute")
  /\ UNCHANGED <<runs, failed, interrupted, once, registered, tickerVars, signalVars,
                 pending, alive>>

\* remove_timeout_thread, which asserts that the thread was registered.
Remove(t) ==
  /\ ~Locked
  /\ Goto(t, "remove", "post_execute")
  /\ registered' = registered \ {t}
  /\ UNCHANGED <<runs, failed, interrupted, once, tickerVars, signalVars,
                 pending, alive>>

\* on_post_execute reads the counters: a signal still pending is delivered, at
\* the latest, by these system calls (which retry on EINTR).
RunReturns(t) ==
  /\ t \notin pending
  /\ Goto(t, "post_execute", "idle")
  /\ UNCHANGED <<runs, failed, interrupted, once, registered, tickerVars,
                 signalVars, pending, alive>>

ClientStep(t) ==
  \/ AttachReturns(t) \/ CallOnce(t) \/ SpawnTicker(t) \/ InstallHandler(t)
  \/ Insert(t) \/ OnWakeup(t) \/ Remove(t) \/ RunReturns(t)

-----------------------------------------------------------------------------
(* The timeout thread and the delivery of its signals.                     *)

TickerWakes ==
  /\ ticker = "sleep"
  /\ ticker' = "lock"
  /\ UNCHANGED <<clientVars, once, registered, targets, signalVars, pending, alive>>

TickerLocks ==
  /\ ticker = "lock"
  /\ ticker' = "signal"
  /\ targets' = registered
  /\ UNCHANGED <<clientVars, once, registered, signalVars, pending, alive>>

\* tgkill of one thread in the set.
TickerSignals ==
  /\ \E t \in targets : targets' = targets \ {t} /\ pending' = pending \cup {t}
  /\ UNCHANGED <<clientVars, once, registered, ticker, signalVars, alive>>

\* Mutant: the timeout thread ends after one pass.
TickerUnlocksEnds ==
  /\ ticker = "signal"
  /\ targets = {}
  /\ ticker' = "none"
  /\ UNCHANGED <<clientVars, once, registered, targets, signalVars, pending, alive>>

\* Mutant: the lock is kept from one pass to the next.
TickerUnlocksNever ==
  /\ ticker = "signal"
  /\ targets = {}
  /\ targets' = registered
  /\ UNCHANGED <<clientVars, once, registered, ticker, signalVars, pending, alive>>

TickerUnlocks ==
  /\ ticker = "signal"
  /\ targets = {}
  /\ ticker' = "sleep"
  /\ UNCHANGED <<clientVars, once, registered, targets, signalVars, pending, alive>>

\* SIGUSR1 runs code that returns: the default action ends the process, and
\* sigusr1_handler calls whatever is in PREVIOUS_SIGHANDLER unless it is
\* SIG_DFL (0); SIG_IGN (1) is no function.
Handled ==
  \/ disposition \in {"IGN", "USER"}
  \/ disposition = "perfjail" /\ previous \in {"DFL", "USER"}

\* The handler runs on t, without SA_RESTART: waitid fails with EINTR and the
\* loop goes on, while the waitpid of PtraceListener makes the run fail.
Deliver(t) ==
  /\ t \in pending
  /\ pending' = pending \ {t}
  /\ alive' = Handled
  /\ IF Handled /\ pc[t] = "attach_wait"
     THEN /\ pc' = [pc EXCEPT ![t] = "idle"]
          /\ failed' = failed \cup {t}
          /\ interrupted' = interrupted \cup {t}
     ELSE /\ pc' = IF Handled /\ pc[t] = "waitid"
                   THEN [pc EXCEPT ![t] = "wakeup"] ELSE pc
          /\ UNCHANGED <<failed, interrupted>>
  /\ UNCHANGED <<runs, once, registered, tickerVars, signalVars>>

Ticker == TickerWakes \/ TickerLocks \/ TickerSignals \/ TickerUnlocks

Next ==
  /\ alive
  /\ \/ \E t \in Threads :
          RunStarts(t) \/ ClientStep(t) \/ WaitidReturns(t) \/ RunFails(t) \/ Deliver(t)
     \/ Ticker

Spec == Init /\ [][Next]_vars

\* The threads run, and pending signals are delivered.  The lock of the set is
\* free for the millisecond the timeout thread sleeps, so whoever wants it gets
\* it in the end.  No child has to end.
Fairness ==
  /\ WF_vars(alive /\ Ticker)
  /\ \A t \in Threads : SF_vars(alive /\ ClientStep(t)) /\ WF_vars(alive /\ Deliver(t))

FairSpec == Spec /\ Fairness

-----------------------------------------------------------------------------
\* The timeout thread never kills the process: it runs before the handler is
\* installed, but has nobody to signal until then.  Only a SIGUSR1 disposition
\* of SIG_IGN, which the handler would call, is fatal.
TickNeverKills == ~alive => previous = "IGN"

\* The assertion in remove_timeout_thread holds.
RemoveFindsThread == \A t \in Threads : pc[t] = "remove" => t \in registered

\* The timeout thread walks through the set without copying it: until the walk is
\* over no thread enters the set or leaves it, and every thread still to be
\* signalled is registered at that moment.
SignalsRegisteredOnly ==
  [][targets \subseteq registered /\ (Locked => UNCHANGED registered)]_vars

\* Outside of its run a thread is registered, or its ptrace wait interrupted,
\* only if one of its runs failed.
StrayTickNeedsFailure ==
  \A t \in Threads \ failed :
    /\ t \in registered => pc[t] \in {"wakeup", "waitid", "remove"}
    /\ t \in pending => pc[t] \in {"wakeup", "waitid", "remove", "post_execute"}
    /\ t \notin interrupted

\* A supervising thread keeps being woken while its child goes on.
WakeupsRecur ==
  \A t \in Threads : pc[t] = "waitid" ~> (pc[t] # "waitid" \/ ~alive)

\* No registered thread is starved of the set's lock.
RunsGetStarted ==
  \A t \in Threads : pc[t] = "once" ~> (pc[t] = "wakeup" \/ ~alive)
=============================================================================
