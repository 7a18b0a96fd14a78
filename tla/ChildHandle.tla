----------------------------- MODULE ChildHandle -----------------------------
(***************************************************************************)
(* What a JailedChild handle promises the threads that share it, without   *)
(* locks, threads, listeners or the handshake with the child: the outcome  *)
(* of run is settled once, and kill reaches the child while it is there.   *)
(***************************************************************************)
EXTENDS ExecutionResult

VARIABLES
  child,         \* the child process: "none", "alive", "dead" or "reaped"
  code,          \* how it ended, once it is dead
  outcome,       \* of run: "open", "settled", or "poisoned" by a panic
  result,        \* the result run has settled on
  returned,      \* values run has returned so far
  kill_returned  \* values kill has returned so far

vars == <<child, code, outcome, result, returned, kill_returned>>

Init ==
  /\ child = "none" /\ code = NoStatus
  /\ outcome = "open" /\ result = NewResult
  /\ returned = {} /\ kill_returned = {}

Spawned ==
  /\ child = "none" /\ child' = "alive"
  /\ UNCHANGED <<code, outcome, result, returned, kill_returned>>

Dies ==
  /\ child = "alive" /\ child' = "dead"
  /\ code' \in ExitReason
  /\ UNCHANGED <<outcome, result, returned, kill_returned>>

\* Only run reaps, and only before its outcome is settled.
Reaped ==
  /\ child = "dead" /\ outcome = "open"
  /\ child' = "reaped"
  /\ UNCHANGED <<code, outcome, result, returned, kill_returned>>

\* The first return of run: an error, or the end of a child that is gone.
Settle ==
  /\ outcome = "open" /\ child # "none"
  /\ outcome' = "settled"
  /\ result' \in ExecutionResults
  /\ \/ returned' = {Err}
     \/ /\ returned' = {result'}
        /\ child = "reaped" /\ result'.exit_reason = code
        /\ result'.exit_status = "OK" => code = "exit0"
        /\ result'.exit_status = "RE" => code # "exit0"
  /\ UNCHANGED <<child, code, kill_returned>>

\* Later calls return the settled result.
Again ==
  /\ outcome = "settled"
  /\ returned' = returned \cup {result}
  /\ UNCHANGED <<child, code, outcome, result, kill_returned>>

\* run panics if it has to kill a child that is gone.
Poison ==
  /\ outcome = "open" /\ child = "reaped"
  /\ outcome' = "poisoned"
  /\ UNCHANGED <<child, code, result, returned, kill_returned>>

\* kill fails only if the child is gone and run has not returned.
Kill ==
  /\ child # "none"
  /\ \/ kill_returned' = kill_returned \cup {"Ok"}
     \/ /\ kill_returned' = kill_returned \cup {"Err"}
        /\ child = "reaped" /\ outcome # "settled"
  /\ UNCHANGED <<child, code, outcome, result, returned>>

Next == Spawned \/ Dies \/ Reaped \/ Settle \/ Again \/ Poison \/ Kill

Spec == Init /\ [][Next]_vars
=============================================================================
