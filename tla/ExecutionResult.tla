--------------------------- MODULE ExecutionResult ---------------------------
(***************************************************************************)
(* The value JailedChild::run hands to its caller                          *)
(* (process/execution_result.rs), reduced to the verdict (exit_status) and *)
(* the way the child ended (exit_reason).  The comment string carried by   *)
(* every verdict but OK is left out: no rule of the program reads it.      *)
(***************************************************************************)

\* ExitStatus: RV and OLE are declared by the enum but no code produces them.
ExitStatus == {"OK", "RE", "TLE", "MLE"}

\* ExitReason: Exited { exit_status } with a zero or a non-zero status, and
\* Killed { signal } by SIGKILL or by a signal the program itself caused.
ExitReason == {"exit0", "exit1", "sig9", "sig11"}

ExecutionResults == [exit_status : ExitStatus, exit_reason : ExitReason]

\* ExecutionResult::new: a result that has not been filled in yet says that the
\* program exited normally.
NewResult == [exit_status |-> "OK", exit_reason |-> "exit0"]

\* What run returns instead of a result, and the end of a child that lives.
Err == [exit_status |-> "Err", exit_reason |-> "Err"]
NoStatus == "none"

\* set_exit_status: the first verdict other than OK is kept.
SetExitStatus(result, status) ==
  IF result.exit_status = "OK"
  THEN [result EXCEPT !.exit_status = status]
  ELSE result

\* Mutant of SetExitReason: the reason overwrites a verdict already given.
SetExitReasonOverwrites(result, reason) ==
  [exit_status |-> IF reason = "exit0" THEN result.exit_status ELSE "RE",
   exit_reason |-> reason]

\* set_exit_reason: records the reason, and every ending but "exit status 0" is
\* a runtime error unless a listener has already given its verdict.
SetExitReason(result, reason) ==
  LET ended == [result EXCEPT !.exit_reason = reason]
  IN  IF reason = "exit0" THEN ended ELSE SetExitStatus(ended, "RE")
=============================================================================
