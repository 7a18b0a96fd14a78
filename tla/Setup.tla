-------------------------------- MODULE Setup --------------------------------
(***************************************************************************)
(* Setting perf up through pkexec (setup.rs): one privileged command, or   *)
(* two in a row for a setup that survives reboots.  Clients call           *)
(* set_perf_up_temporarily and set_perf_up_permanently at any time, every  *)
(* command may fail or be killed, and the machine may be rebooted at any   *)
(* point.                                                                  *)
(***************************************************************************)
EXTENDS Integers

CONSTANTS
  Clients,    \* processes that call the library
  MaxCalls,   \* bound: calls of each of them
  MaxReboots  \* bound: reboots

ASSUME SetupAssumption == MaxCalls \in Nat /\ MaxReboots \in Nat

VARIABLES
  paranoid,  \* the sysctl kernel.perf_event_paranoid: "-1" or "default"
  conf,      \* "line" once /etc/sysctl.conf has the setting, "none" before
  pc,        \* each client: "idle", "pkexec", "sysctl", "append" or "exited"
  kind,      \*   its call: "temporarily" or "permanently",
  status,    \*   how the privileged command ended,
  stderr,    \*   whether it wrote to stderr: "empty" or "some",
  touched,   \*   and what it changed
  granted,   \* the kinds of calls that returned Ok since the last reboot, and
  kept,      \*   before it (history)
  calls, reboots

machine == <<paranoid, conf>>
command == <<kind, status, stderr, touched>>
history == <<granted, kept>>
bounds == <<calls, reboots>>
vars == <<machine, pc, command, history, bounds>>

\* Exit codes, "signal", and the errors of Command::output: "Other" if the command
\* cannot be started, or not be waited for.
Status == {"0", "1", "126", "127", "signal", "NotFound", "Other"}
Kind == {"temporarily", "permanently"}

TypeOK ==
  /\ paranoid \in {"-1", "default"} /\ conf \in {"none", "line"}
  /\ pc \in [Clients -> {"idle", "pkexec", "sysctl", "append", "exited"}]
  /\ kind \in [Clients -> Kind] /\ status \in [Clients -> Status]
  /\ stderr \in [Clients -> {"empty", "some"}]
  /\ touched \in [Clients -> SUBSET {"sysctl", "conf"}]
  /\ \A c \in Clients : "conf" \in touched[c] => kind[c] = "permanently"
  /\ granted \subseteq Kind /\ kept \subseteq Kind
  /\ calls \in [Clients -> 0..MaxCalls] /\ reboots \in 0..MaxReboots

Init ==
  /\ paranoid \in {"-1", "default"} /\ conf = "none"
  /\ pc = [c \in Clients |-> "idle"]
  /\ kind = [c \in Clients |-> "temporarily"] /\ status = [c \in Clients |-> "0"]
  /\ stderr = [c \in Clients |-> "empty"] /\ touched = [c \in Clients |-> {}]
  /\ granted = {} /\ kept = {}
  /\ calls = [c \in Clients |-> 0] /\ reboots = 0

test_perf == paranoid = "-1"

Goto(c, here, there) == pc[c] = here /\ pc' = [pc EXCEPT ![c] = there]

Call(c) ==
  /\ calls[c] < MaxCalls
  /\ Goto(c, "idle", "pkexec")
  /\ kind' \in {[kind EXCEPT ![c] = k] : k \in Kind}
  /\ stderr' = [stderr EXCEPT ![c] = "empty"]
  /\ touched' = [touched EXCEPT ![c] = {}]
  /\ calls' = [calls EXCEPT ![c] = @ + 1]
  /\ UNCHANGED <<machine, status, history, reboots>>

\* The command ends.
Exits(c, here, code, output) ==
  /\ Goto(c, here, "exited")
  /\ status' = [status EXCEPT ![c] = code]
  /\ stderr' = [stderr EXCEPT ![c] = output]
  /\ UNCHANGED <<kind, history, bounds>>

\* pkexec is not there or cannot be run, authentication fails or is dismissed,
\* or pkexec is killed; nothing has been changed.
PkexecFails(c) ==
  /\ \E code \in {"NotFound", "Other", "126", "127", "signal"}, output \in {"empty", "some"} :
       Exits(c, "pkexec", code, output)
  /\ UNCHANGED <<machine, touched>>

PkexecRuns(c) ==
  /\ Goto(c, "pkexec", "sysctl")
  /\ UNCHANGED <<machine, command, history, bounds>>

\* sysctl -w: it is not found, fails, or is killed, before it took effect ...
SysctlFails(c) ==
  /\ \/ \E code \in {"1", "127"} : Exits(c, "sysctl", code, "some")
     \/ Exits(c, "sysctl", "signal", stderr[c])
  /\ UNCHANGED <<machine, touched>>

SetsParanoid(c) ==
  /\ paranoid' = "-1"
  /\ touched' = [touched EXCEPT ![c] = @ \cup {"sysctl"}]
  /\ UNCHANGED conf

\* ... or it takes effect, with or without a warning, and the temporary setup
\* is over.
SysctlEnds(c) ==
  /\ kind[c] = "temporarily"
  /\ \E code \in {"0", "signal"}, output \in {"empty", "some"} :
       Exits(c, "sysctl", code, output)
  /\ SetsParanoid(c)

\* Mutant: the temporary setup runs the script of the permanent one.
SysctlGoesOnAlways(c) ==
  /\ Goto(c, "sysctl", "append")
  /\ SetsParanoid(c)
  /\ UNCHANGED <<kind, status, stderr, history, bounds>>

\* Mutant: without `set -e' the script goes on after a failed sysctl.
SysctlGoesOnAnyway(c) ==
  /\ kind[c] = "permanently"
  /\ Goto(c, "sysctl", "append")
  /\ UNCHANGED <<machine, command, history, bounds>>

\* The permanent setup goes on, because of `set -e' only after success.
SysctlGoesOn(c) ==
  /\ kind[c] = "permanently"
  /\ Goto(c, "sysctl", "append")
  /\ \E output \in {stderr[c], "some"} : stderr' = [stderr EXCEPT ![c] = output]
  /\ SetsParanoid(c)
  /\ UNCHANGED <<kind, status, history, bounds>>

AppendFails(c) ==
  /\ \/ Exits(c, "append", "1", "some")
     \/ Exits(c, "append", "signal", stderr[c])
  /\ UNCHANGED <<machine, touched>>

AppendEnds(c) ==
  /\ \E code \in {"0", "signal"} : Exits(c, "append", code, stderr[c])
  /\ conf' = "line"
  /\ touched' = [touched EXCEPT ![c] = @ \cup {"conf"}]
  /\ UNCHANGED paranoid

\* The wait in Command::output fails, as it does if some other wait of the process
\* has reaped the child: how the command ended is lost, whatever it has done.
OutputFails(c) ==
  /\ pc[c] = "exited" /\ status[c] \notin {"NotFound", "Other"}
  /\ status' = [status EXCEPT ![c] = "Other"]
  /\ UNCHANGED <<machine, pc, kind, stderr, touched, history, bounds>>

\* Mutant: only the exit code 126 is taken for a failed authentication, and what
\* is written to stderr is not looked at.
pkexec_command_lenient(code, output) ==
  CASE code = "NotFound" -> "PkexecNotFound"
    [] code = "Other" -> "IoError"
    [] code = "126" -> "AuthenticationFailed"
    [] code = "1" -> "SetupCommandFail"
    [] OTHER -> "Ok"

\* Mutant: the codes 1, 126 and 127 all count as a failed authentication.
pkexec_command_coarse(code, output) ==
  CASE code = "NotFound" -> "PkexecNotFound"
    [] code = "Other" -> "IoError"
    [] code \in {"1", "126", "127"} -> "AuthenticationFailed"
    [] code = "signal" \/ output = "some" -> "SetupCommandFail"
    [] OTHER -> "Ok"

\* pkexec_command: what is made of the end of the command.
pkexec_command(code, output) ==
  CASE code = "NotFound" -> "PkexecNotFound"
    [] code = "Other" -> "IoError"
    [] code \in {"126", "127"} -> "AuthenticationFailed"
    [] code = "0" /\ output = "empty" -> "Ok"
    [] OTHER -> "SetupCommandFail"

ResultOf(c) == pkexec_command(status[c], stderr[c])

Return(c) ==
  /\ Goto(c, "exited", "idle")
  /\ granted' = IF ResultOf(c) = "Ok" THEN granted \cup {kind[c]} ELSE granted
  /\ UNCHANGED <<machine, command, kept, bounds>>

\* A reboot ends all processes and loads /etc/sysctl.conf.
Reboot ==
  /\ reboots < MaxReboots
  /\ paranoid' = IF conf = "line" THEN "-1" ELSE "default"
  /\ pc' = [c \in Clients |-> "idle"]
  /\ kept' = kept \cup granted /\ granted' = {}
  /\ reboots' = reboots + 1
  /\ UNCHANGED <<conf, command, calls>>

Next ==
  \/ \E c \in Clients :
       \/ Call(c) \/ PkexecFails(c) \/ PkexecRuns(c)
       \/ SysctlFails(c) \/ SysctlEnds(c) \/ SysctlGoesOn(c)
       \/ AppendFails(c) \/ AppendEnds(c) \/ OutputFails(c) \/ Return(c)
  \/ Reboot

Spec == Init /\ [][Next]_vars

-----------------------------------------------------------------------------
\* After Ok, test_perf is true: until the next reboot if the setup was temporary,
\* and for good if it was permanent.
OkMeansSetUp ==
  /\ granted # {} => test_perf
  /\ "permanently" \in granted \cup kept => test_perf /\ conf = "line"

\* A setup is never persisted without being in force, wherever the two commands
\* of the permanent one are cut off and however calls and reboots interleave.
PersistedIsInForce == conf = "line" => test_perf

\* An error that says that the commands were not run, PkexecNotFound or
\* AuthenticationFailed, means that they have not changed anything; SetupCommandFail
\* and IoError can leave a setup, or part of it, behind.
RefusalTouchesNothing ==
  \A c \in Clients :
    pc[c] = "exited" /\ touched[c] # {} => ResultOf(c) \in {"Ok", "SetupCommandFail", "IoError"}
=============================================================================
