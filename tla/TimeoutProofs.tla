---------------------------- MODULE TimeoutProofs ----------------------------
(***************************************************************************)
(* Safety of the timeout thread for any number of client threads and runs. *)
(*                                                                         *)
(* That SIGUSR1 never meets the default disposition is a matter of order:  *)
(* a thread is registered only after the Once is done (Started), the Once  *)
(* is done only after the one thread inside it has installed the handler   *)
(* (Initialised), and the timeout thread signals registered threads only   *)
(* (Signalling).                                                           *)
(***************************************************************************)
EXTENDS Timeout, TLAPS

\* One thread at most runs init_timeout_thread: it starts the timeout thread,
\* and installs the handler before the Once is done.
Initialised ==
  /\ \A t \in Threads : pc[t] \in {"spawn_ticker", "sigaction"} => once = "running"
  /\ \A t, u \in Threads :
       pc[t] \in {"spawn_ticker", "sigaction"} /\ pc[u] \in {"spawn_ticker", "sigaction"}
       => t = u
  /\ once = "new" => ticker = "none"
  /\ \A t \in Threads : pc[t] = "spawn_ticker" => ticker = "none"
  /\ once # "done" => disposition \in Priors /\ previous = "null"
  /\ once = "done" => disposition = "perfjail" /\ previous \in Priors

\* Whoever is past call_once finds it done, and so does every registered thread.
Started ==
  /\ \A t \in Threads :
       pc[t] \in {"insert", "wakeup", "waitid", "remove", "post_execute"} => once = "done"
  /\ \A t \in Threads : pc[t] \in {"wakeup", "waitid", "remove"} => t \in registered
  /\ registered # {} \/ pending # {} => once = "done"

\* While the timeout thread walks through the set nobody changes it.
Signalling ==
  /\ targets # {} => Locked
  /\ targets \subseteq registered

IndInv ==
  /\ TypeOK
  /\ Initialised
  /\ Started
  /\ Signalling
  /\ TickNeverKills
  /\ StrayTickNeedsFailure

\* SIGUSR1 has its prior disposition when the handler is installed.
LEMMA InstallOnce ==
  ASSUME TypeOK, Initialised, NEW t \in Threads, InstallHandler(t)
  PROVE  disposition \in {"DFL", "IGN", "USER"} /\ previous' \in Priors
BY TimeoutAssumption DEF TypeOK, Initialised, InstallHandler, Goto

\* Every action keeps the type invariant.
LEMMA TypeNext == TypeOK /\ Initialised /\ [Next]_vars => TypeOK'
<1> SUFFICES ASSUME TypeOK, Initialised, [Next]_vars PROVE TypeOK'
  OBVIOUS
<1> USE DEF TypeOK, ThreadPC, Goto, clientVars, tickerVars, signalVars
<1>1. ASSUME NEW t \in Threads, RunStarts(t) PROVE TypeOK'
  BY <1>1, TimeoutAssumption DEF RunStarts
<1>2. ASSUME NEW t \in Threads, AttachReturns(t) PROVE TypeOK'
  BY <1>2 DEF AttachReturns
<1>3. ASSUME NEW t \in Threads, CallOnce(t) PROVE TypeOK'
  BY <1>3 DEF CallOnce
<1>4. ASSUME NEW t \in Threads, SpawnTicker(t) PROVE TypeOK'
  BY <1>4 DEF SpawnTicker
<1>5. ASSUME NEW t \in Threads, InstallHandler(t) PROVE TypeOK'
  BY <1>5, InstallOnce DEF InstallHandler, Initialised
<1>6. ASSUME NEW t \in Threads, Insert(t) PROVE TypeOK'
  BY <1>6 DEF Insert
<1>7. ASSUME NEW t \in Threads, OnWakeup(t) PROVE TypeOK'
  BY <1>7 DEF OnWakeup
<1>8. ASSUME NEW t \in Threads, WaitidReturns(t) PROVE TypeOK'
  BY <1>8 DEF WaitidReturns
<1>9. ASSUME NEW t \in Threads, RunFails(t) PROVE TypeOK'
  BY <1>9 DEF RunFails
<1>10. ASSUME NEW t \in Threads, Remove(t) PROVE TypeOK'
  BY <1>10 DEF Remove
<1>11. ASSUME NEW t \in Threads, RunReturns(t) PROVE TypeOK'
  BY <1>11 DEF RunReturns
<1>12. ASSUME NEW t \in Threads, Deliver(t) PROVE TypeOK'
  <2>1. alive' \in BOOLEAN
    <3>1. Handled \in BOOLEAN
      BY DEF Handled
    <3> QED
      BY <1>12, <3>1, Zenon DEF Deliver
  <2> QED
    BY <1>12, <2>1 DEF Deliver
<1>13. CASE TickerWakes
  BY <1>13 DEF TickerWakes
<1>14. CASE TickerLocks
  BY <1>14 DEF TickerLocks
<1>15. CASE TickerSignals
  BY <1>15 DEF TickerSignals
<1>16. CASE TickerUnlocks
  BY <1>16 DEF TickerUnlocks
<1>17. CASE UNCHANGED vars
  BY <1>17 DEF vars
<1> QED
  BY <1>1, <1>2, <1>3, <1>4, <1>5, <1>6, <1>7, <1>8, <1>9, <1>10, <1>11, <1>12,
     <1>13, <1>14, <1>15, <1>16, <1>17 DEF Next, ClientStep, Ticker

\* The handler is installed once, by the thread inside call_once.
LEMMA InitialisedNext == TypeOK /\ Initialised /\ [Next]_vars => Initialised'
<1> SUFFICES ASSUME TypeOK, Initialised, [Next]_vars PROVE Initialised'
  OBVIOUS
<1> USE DEF TypeOK, Initialised, Goto, clientVars, tickerVars, signalVars
<1>1. ASSUME NEW t \in Threads, RunStarts(t) PROVE Initialised'
  BY <1>1 DEF RunStarts
<1>2. ASSUME NEW t \in Threads, AttachReturns(t) PROVE Initialised'
  BY <1>2 DEF AttachReturns
<1>3. ASSUME NEW t \in Threads, CallOnce(t) PROVE Initialised'
  BY <1>3 DEF CallOnce
<1>4. ASSUME NEW t \in Threads, SpawnTicker(t) PROVE Initialised'
  BY <1>4 DEF SpawnTicker
<1>5. ASSUME NEW t \in Threads, InstallHandler(t) PROVE Initialised'
  BY <1>5 DEF InstallHandler
<1>6. ASSUME NEW t \in Threads, Insert(t) PROVE Initialised'
  BY <1>6 DEF Insert
<1>7. ASSUME NEW t \in Threads, OnWakeup(t) PROVE Initialised'
  BY <1>7 DEF OnWakeup
<1>8. ASSUME NEW t \in Threads, WaitidReturns(t) PROVE Initialised'
  BY <1>8 DEF WaitidReturns
<1>9. ASSUME NEW t \in Threads, RunFails(t) PROVE Initialised'
  BY <1>9 DEF RunFails
<1>10. ASSUME NEW t \in Threads, Remove(t) PROVE Initialised'
  BY <1>10 DEF Remove
<1>11. ASSUME NEW t \in Threads, RunReturns(t) PROVE Initialised'
  BY <1>11 DEF RunReturns
<1>12. ASSUME NEW t \in Threads, Deliver(t) PROVE Initialised'
  BY <1>12 DEF Deliver
<1>13. CASE TickerWakes
  BY <1>13 DEF TickerWakes
<1>14. CASE TickerLocks
  BY <1>14 DEF TickerLocks
<1>15. CASE TickerSignals
  BY <1>15 DEF TickerSignals
<1>16. CASE TickerUnlocks
  BY <1>16 DEF TickerUnlocks
<1>17. CASE UNCHANGED vars
  BY <1>17 DEF vars
<1> QED
  BY <1>1, <1>2, <1>3, <1>4, <1>5, <1>6, <1>7, <1>8, <1>9, <1>10, <1>11, <1>12,
     <1>13, <1>14, <1>15, <1>16, <1>17 DEF Next, ClientStep, Ticker

\* Nobody is registered or signalled before that.
LEMMA StartedNext == TypeOK /\ Started /\ Signalling /\ [Next]_vars => Started'
<1> SUFFICES ASSUME TypeOK, Started, Signalling, [Next]_vars PROVE Started'
  OBVIOUS
<1> USE DEF TypeOK, Started, Signalling, Goto, clientVars, tickerVars, signalVars
<1>1. ASSUME NEW t \in Threads, RunStarts(t) PROVE Started'
  BY <1>1 DEF RunStarts
<1>2. ASSUME NEW t \in Threads, AttachReturns(t) PROVE Started'
  BY <1>2 DEF AttachReturns
<1>3. ASSUME NEW t \in Threads, CallOnce(t) PROVE Started'
  BY <1>3 DEF CallOnce
<1>4. ASSUME NEW t \in Threads, SpawnTicker(t) PROVE Started'
  BY <1>4 DEF SpawnTicker
<1>5. ASSUME NEW t \in Threads, InstallHandler(t) PROVE Started'
  BY <1>5 DEF InstallHandler
<1>6. ASSUME NEW t \in Threads, Insert(t) PROVE Started'
  BY <1>6 DEF Insert, Locked
<1>7. ASSUME NEW t \in Threads, OnWakeup(t) PROVE Started'
  BY <1>7 DEF OnWakeup
<1>8. ASSUME NEW t \in Threads, WaitidReturns(t) PROVE Started'
  BY <1>8 DEF WaitidReturns
<1>9. ASSUME NEW t \in Threads, RunFails(t) PROVE Started'
  BY <1>9 DEF RunFails
<1>10. ASSUME NEW t \in Threads, Remove(t) PROVE Started'
  BY <1>10 DEF Remove, Locked
<1>11. ASSUME NEW t \in Threads, RunReturns(t) PROVE Started'
  BY <1>11 DEF RunReturns
<1>12. ASSUME NEW t \in Threads, Deliver(t) PROVE Started'
  BY <1>12 DEF Deliver
<1>13. CASE TickerWakes
  BY <1>13 DEF TickerWakes
<1>14. CASE TickerLocks
  BY <1>14 DEF TickerLocks
<1>15. CASE TickerSignals
  BY <1>15 DEF TickerSignals, Locked
<1>16. CASE TickerUnlocks
  BY <1>16 DEF TickerUnlocks
<1>17. CASE UNCHANGED vars
  BY <1>17 DEF vars
<1> QED
  BY <1>1, <1>2, <1>3, <1>4, <1>5, <1>6, <1>7, <1>8, <1>9, <1>10, <1>11, <1>12,
     <1>13, <1>14, <1>15, <1>16, <1>17 DEF Next, ClientStep, Ticker

\* The set is stable while it is walked through.
LEMMA SignallingNext == TypeOK /\ Initialised /\ Signalling /\ [Next]_vars => Signalling'
<1> SUFFICES ASSUME TypeOK, Initialised, Signalling, [Next]_vars PROVE Signalling'
  OBVIOUS
<1> USE DEF Signalling, Locked, Goto, clientVars, tickerVars, signalVars
<1>1. ASSUME NEW t \in Threads, RunStarts(t) PROVE Signalling'
  BY <1>1 DEF RunStarts
<1>2. ASSUME NEW t \in Threads, AttachReturns(t) PROVE Signalling'
  BY <1>2 DEF AttachReturns
<1>3. ASSUME NEW t \in Threads, CallOnce(t) PROVE Signalling'
  BY <1>3 DEF CallOnce
<1>4. ASSUME NEW t \in Threads, SpawnTicker(t) PROVE Signalling'
  BY <1>4 DEF SpawnTicker, Initialised
<1>5. ASSUME NEW t \in Threads, InstallHandler(t) PROVE Signalling'
  BY <1>5 DEF InstallHandler
<1>6. ASSUME NEW t \in Threads, Insert(t) PROVE Signalling'
  BY <1>6 DEF Insert
<1>7. ASSUME NEW t \in Threads, OnWakeup(t) PROVE Signalling'
  BY <1>7 DEF OnWakeup
<1>8. ASSUME NEW t \in Threads, WaitidReturns(t) PROVE Signalling'
  BY <1>8 DEF WaitidReturns
<1>9. ASSUME NEW t \in Threads, RunFails(t) PROVE Signalling'
  BY <1>9 DEF RunFails
<1>10. ASSUME NEW t \in Threads, Remove(t) PROVE Signalling'
  BY <1>10 DEF Remove
<1>11. ASSUME NEW t \in Threads, RunReturns(t) PROVE Signalling'
  BY <1>11 DEF RunReturns
<1>12. ASSUME NEW t \in Threads, Deliver(t) PROVE Signalling'
  BY <1>12 DEF Deliver
<1>13. CASE TickerWakes
  BY <1>13 DEF TickerWakes
<1>14. CASE TickerLocks
  BY <1>14 DEF TickerLocks
<1>15. CASE TickerSignals
  BY <1>15 DEF TickerSignals
<1>16. CASE TickerUnlocks
  BY <1>16 DEF TickerUnlocks
<1>17. CASE UNCHANGED vars
  BY <1>17 DEF vars
<1> QED
  BY <1>1, <1>2, <1>3, <1>4, <1>5, <1>6, <1>7, <1>8, <1>9, <1>10, <1>11, <1>12,
     <1>13, <1>14, <1>15, <1>16, <1>17 DEF Next, ClientStep, Ticker

\* A signal is delivered to the handler, which returns unless SIG_IGN was there.
LEMMA TickNeverKillsNext == TypeOK /\ Initialised /\ Started /\ TickNeverKills /\ [Next]_vars => TickNeverKills'
<1> SUFFICES ASSUME TypeOK, Initialised, Started, TickNeverKills, [Next]_vars PROVE TickNeverKills'
  OBVIOUS
<1> USE DEF TickNeverKills, TypeOK, Initialised, Started, Goto, clientVars, tickerVars, signalVars
<1>1. ASSUME NEW t \in Threads, RunStarts(t) PROVE TickNeverKills'
  BY <1>1 DEF RunStarts
<1>2. ASSUME NEW t \in Threads, AttachReturns(t) PROVE TickNeverKills'
  BY <1>2 DEF AttachReturns
<1>3. ASSUME NEW t \in Threads, CallOnce(t) PROVE TickNeverKills'
  BY <1>3 DEF CallOnce
<1>4. ASSUME NEW t \in Threads, SpawnTicker(t) PROVE TickNeverKills'
  BY <1>4 DEF SpawnTicker
<1>5. ASSUME NEW t \in Threads, InstallHandler(t) PROVE TickNeverKills'
  BY <1>5 DEF InstallHandler
<1>6. ASSUME NEW t \in Threads, Insert(t) PROVE TickNeverKills'
  BY <1>6 DEF Insert
<1>7. ASSUME NEW t \in Threads, OnWakeup(t) PROVE TickNeverKills'
  BY <1>7 DEF OnWakeup
<1>8. ASSUME NEW t \in Threads, WaitidReturns(t) PROVE TickNeverKills'
  BY <1>8 DEF WaitidReturns
<1>9. ASSUME NEW t \in Threads, RunFails(t) PROVE TickNeverKills'
  BY <1>9 DEF RunFails
<1>10. ASSUME NEW t \in Threads, Remove(t) PROVE TickNeverKills'
  BY <1>10 DEF Remove
<1>11. ASSUME NEW t \in Threads, RunReturns(t) PROVE TickNeverKills'
  BY <1>11 DEF RunReturns
<1>12. ASSUME NEW t \in Threads, Deliver(t) PROVE TickNeverKills'
  <2>1. once = "done"
    BY <1>12 DEF Deliver
  <2>2. previous' = previous /\ (alive' <=> previous \in {"DFL", "USER"})
    BY <1>12, <2>1 DEF Deliver, Handled
  <2> QED
    BY <2>1, <2>2, TimeoutAssumption
<1>13. CASE TickerWakes
  BY <1>13 DEF TickerWakes
<1>14. CASE TickerLocks
  BY <1>14 DEF TickerLocks
<1>15. CASE TickerSignals
  BY <1>15 DEF TickerSignals
<1>16. CASE TickerUnlocks
  BY <1>16 DEF TickerUnlocks
<1>17. CASE UNCHANGED vars
  BY <1>17 DEF vars
<1> QED
  BY <1>1, <1>2, <1>3, <1>4, <1>5, <1>6, <1>7, <1>8, <1>9, <1>10, <1>11, <1>12,
     <1>13, <1>14, <1>15, <1>16, <1>17 DEF Next, ClientStep, Ticker

\* A thread whose runs all ended in order leaves no registration or signal behind.
LEMMA StrayTickNext == TypeOK /\ Signalling /\ StrayTickNeedsFailure /\ [Next]_vars => StrayTickNeedsFailure'
<1> SUFFICES ASSUME TypeOK, Signalling, StrayTickNeedsFailure, [Next]_vars PROVE StrayTickNeedsFailure'
  OBVIOUS
<1> USE DEF TypeOK, Signalling, StrayTickNeedsFailure, Goto, clientVars, tickerVars, signalVars
<1>1. ASSUME NEW t \in Threads, RunStarts(t) PROVE StrayTickNeedsFailure'
  BY <1>1 DEF RunStarts
<1>2. ASSUME NEW t \in Threads, AttachReturns(t) PROVE StrayTickNeedsFailure'
  BY <1>2 DEF AttachReturns
<1>3. ASSUME NEW t \in Threads, CallOnce(t) PROVE StrayTickNeedsFailure'
  BY <1>3 DEF CallOnce
<1>4. ASSUME NEW t \in Threads, SpawnTicker(t) PROVE StrayTickNeedsFailure'
  BY <1>4 DEF SpawnTicker
<1>5. ASSUME NEW t \in Threads, InstallHandler(t) PROVE StrayTickNeedsFailure'
  BY <1>5 DEF InstallHandler
<1>6. ASSUME NEW t \in Threads, Insert(t) PROVE StrayTickNeedsFailure'
  BY <1>6 DEF Insert
<1>7. ASSUME NEW t \in Threads, OnWakeup(t) PROVE StrayTickNeedsFailure'
  BY <1>7 DEF OnWakeup
<1>8. ASSUME NEW t \in Threads, WaitidReturns(t) PROVE StrayTickNeedsFailure'
  BY <1>8 DEF WaitidReturns
<1>9. ASSUME NEW t \in Threads, RunFails(t) PROVE StrayTickNeedsFailure'
  BY <1>9 DEF RunFails
<1>10. ASSUME NEW t \in Threads, Remove(t) PROVE StrayTickNeedsFailure'
  BY <1>10 DEF Remove
<1>11. ASSUME NEW t \in Threads, RunReturns(t) PROVE StrayTickNeedsFailure'
  BY <1>11 DEF RunReturns
<1>12. ASSUME NEW t \in Threads, Deliver(t) PROVE StrayTickNeedsFailure'
  BY <1>12 DEF Deliver
<1>13. CASE TickerWakes
  BY <1>13 DEF TickerWakes
<1>14. CASE TickerLocks
  BY <1>14 DEF TickerLocks
<1>15. CASE TickerSignals
  BY <1>15 DEF TickerSignals
<1>16. CASE TickerUnlocks
  BY <1>16 DEF TickerUnlocks
<1>17. CASE UNCHANGED vars
  BY <1>17 DEF vars
<1> QED
  BY <1>1, <1>2, <1>3, <1>4, <1>5, <1>6, <1>7, <1>8, <1>9, <1>10, <1>11, <1>12,
     <1>13, <1>14, <1>15, <1>16, <1>17 DEF Next, ClientStep, Ticker

LEMMA InitIndInv == Init => IndInv
BY TimeoutAssumption
   DEF Init, IndInv, TypeOK, ThreadPC, Initialised, Started, Signalling,
       TickNeverKills, StrayTickNeedsFailure

\* The inductive invariant of Timeout.
THEOREM Inductive == Spec => []IndInv
<1>1. IndInv /\ [Next]_vars => IndInv'
  BY TypeNext, InitialisedNext, StartedNext, SignallingNext, TickNeverKillsNext,
     StrayTickNext DEF IndInv
<1> QED
  BY <1>1, InitIndInv, PTL DEF Spec

\* Every variable keeps its type.
THEOREM TypeCorrect == Spec => []TypeOK
<1>1. IndInv => TypeOK
  BY DEF IndInv
<1> QED
  BY <1>1, Inductive, PTL

\* SIGUSR1 of the timeout thread is fatal only if SIGUSR1 was ignored before.
THEOREM TickSafe == Spec => []TickNeverKills
<1>1. IndInv => TickNeverKills
  BY DEF IndInv
<1> QED
  BY <1>1, Inductive, PTL

\* The assertion of remove_timeout_thread never fails.
THEOREM RemoveSafe == Spec => []RemoveFindsThread
<1>1. IndInv => RemoveFindsThread
  BY DEF IndInv, Started, RemoveFindsThread
<1> QED
  BY <1>1, Inductive, PTL

\* The timeout thread signals only threads that are registered, in a set that
\* nobody changes meanwhile.
THEOREM SignalsSafe == Spec => SignalsRegisteredOnly
<1>1. IndInv => targets \subseteq registered
  BY DEF IndInv, Signalling
<1>2. [Next]_vars => (Locked => UNCHANGED registered)
  <2> SUFFICES ASSUME [Next]_vars, Locked PROVE UNCHANGED registered
    OBVIOUS
  <2>1. ASSUME NEW t \in Threads, Insert(t) \/ Remove(t) PROVE FALSE
    BY <2>1 DEF Insert, Remove
  <2>2. CASE UNCHANGED vars
    BY <2>2 DEF vars
  <2>3. CASE Ticker
    BY <2>3 DEF Ticker, TickerWakes, TickerLocks, TickerSignals, TickerUnlocks
  <2>4. ASSUME NEW t \in Threads,
               RunStarts(t) \/ ClientStep(t) \/ WaitidReturns(t) \/ RunFails(t) \/ Deliver(t)
        PROVE  UNCHANGED registered
    BY <2>1, <2>4 DEF RunStarts, ClientStep, WaitidReturns, RunFails, Deliver, AttachReturns,
                      CallOnce, SpawnTicker, InstallHandler, OnWakeup, RunReturns
  <2> QED
    BY <2>2, <2>3, <2>4 DEF Next
<1>3. IndInv /\ [Next]_vars =>
        [targets \subseteq registered /\ (Locked => UNCHANGED registered)]_vars
  BY <1>1, <1>2
<1> QED
  BY <1>3, Inductive, PTL DEF Spec, SignalsRegisteredOnly

\* Only a thread of which a run failed can be hit by SIGUSR1 outside of a run.
THEOREM StrayTickSafe == Spec => []StrayTickNeedsFailure
<1>1. IndInv => StrayTickNeedsFailure
  BY DEF IndInv
<1> QED
  BY <1>1, Inductive, PTL
=============================================================================
