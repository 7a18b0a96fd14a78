----------------------------- MODULE SetupProofs -----------------------------
(***************************************************************************)
(* Theorems about Setup, for any number of clients, calls and reboots.     *)
(***************************************************************************)
EXTENDS Setup, TLAPS

-----------------------------------------------------------------------------
(* The inductive invariant.                                                *)

\* The second command of the permanent setup is reached after the first one took
\* effect, and a command that ended well has done all of its work.
ScriptOrder ==
  \A c \in Clients :
    /\ pc[c] = "append" => kind[c] = "permanently" /\ paranoid = "-1"
    /\ pc[c] = "exited" /\ status[c] = "0" =>
         paranoid = "-1" /\ (kind[c] = "permanently" => conf = "line")

\* Nothing is changed before sysctl has run, nor by a command that was refused.
Refused ==
  \A c \in Clients :
    /\ pc[c] \in {"pkexec", "sysctl"} => touched[c] = {}
    /\ pc[c] = "exited" /\ touched[c] # {} => status[c] \in {"0", "1", "signal", "Other"}

IndInv == TypeOK /\ ScriptOrder /\ PersistedIsInForce /\ OkMeansSetUp /\ Refused

\* pkexec_command returns Ok only for the exit code 0, and an error that denies
\* that the command has run only for codes no command ends with.
LEMMA ReturnedOk ==
  ASSUME NEW code \in Status, NEW output
  PROVE  /\ pkexec_command(code, output) = "Ok" => code = "0"
         /\ code \in {"0", "1", "signal", "Other"} =>
              pkexec_command(code, output) \in {"Ok", "SetupCommandFail", "IoError"}
BY DEF pkexec_command, Status

-----------------------------------------------------------------------------
\* TypeOK holds initially and is preserved, given the order of the script: only a
\* permanent setup appends to /etc/sysctl.conf.
LEMMA TypeInit == Init => TypeOK
BY SetupAssumption DEF Init, TypeOK, Kind, Status

LEMMA TypeNext == TypeOK /\ ScriptOrder /\ [Next]_vars => TypeOK'
<1> SUFFICES ASSUME TypeOK, ScriptOrder, [Next]_vars PROVE TypeOK'
  OBVIOUS
<1> USE SetupAssumption DEF TypeOK, Kind, Status
<1>1. ASSUME NEW c \in Clients, Call(c) PROVE TypeOK'
  BY <1>1 DEF Call, Goto, machine, history
<1>2. ASSUME NEW c \in Clients, PkexecFails(c) PROVE TypeOK'
  BY <1>2 DEF PkexecFails, Exits, Goto, machine, history, bounds
<1>3. ASSUME NEW c \in Clients, PkexecRuns(c) PROVE TypeOK'
  BY <1>3 DEF PkexecRuns, Goto, machine, command, history, bounds
<1>4. ASSUME NEW c \in Clients, SysctlFails(c) PROVE TypeOK'
  <2>1. PICK code \in Status, output \in {"empty", "some"} : Exits(c, "sysctl", code, output)
    BY <1>4 DEF SysctlFails
  <2> QED
    BY <1>4, <2>1 DEF SysctlFails, Exits, Goto, machine, history, bounds
<1>5. ASSUME NEW c \in Clients, SysctlEnds(c) PROVE TypeOK'
  BY <1>5 DEF SysctlEnds, SetsParanoid, Exits, Goto, history, bounds
<1>6. ASSUME NEW c \in Clients, SysctlGoesOn(c) PROVE TypeOK'
  BY <1>6 DEF SysctlGoesOn, SetsParanoid, Goto, history, bounds
<1>7. ASSUME NEW c \in Clients, AppendFails(c) PROVE TypeOK'
  BY <1>7 DEF AppendFails, Exits, Goto, machine, history, bounds
<1>8. ASSUME NEW c \in Clients, AppendEnds(c) PROVE TypeOK'
  BY <1>8 DEF AppendEnds, ScriptOrder, Exits, Goto, history, bounds
<1>9. ASSUME NEW c \in Clients, Return(c) PROVE TypeOK'
  BY <1>9 DEF Return, Goto, machine, command, bounds
<1>10. ASSUME NEW c \in Clients, OutputFails(c) PROVE TypeOK'
  BY <1>10 DEF OutputFails, machine, history, bounds
<1>11. CASE Reboot
  BY <1>11 DEF Reboot, command
<1>12. CASE UNCHANGED vars
  BY <1>12 DEF vars, machine, command, history, bounds
<1> QED
  BY <1>1, <1>2, <1>3, <1>4, <1>5, <1>6, <1>7, <1>8, <1>9, <1>10, <1>11, <1>12 DEF Next

\* No step appends before sysctl took effect, and none takes the setup back: a
\* reboot ends the commands and loads what is persisted.
LEMMA OrderNext ==
  TypeOK /\ ScriptOrder /\ PersistedIsInForce /\ [Next]_vars
    => ScriptOrder' /\ PersistedIsInForce'
<1> SUFFICES ASSUME TypeOK, ScriptOrder, PersistedIsInForce, [Next]_vars
             PROVE  ScriptOrder' /\ PersistedIsInForce'
  OBVIOUS
<1> USE DEF TypeOK, ScriptOrder, PersistedIsInForce, test_perf
<1>1. ASSUME NEW c \in Clients, Call(c) \/ PkexecRuns(c)
      PROVE  ScriptOrder' /\ PersistedIsInForce'
  BY <1>1 DEF Call, PkexecRuns, Goto, machine, command, history, bounds
<1>2. ASSUME NEW c \in Clients, PkexecFails(c)
      PROVE  ScriptOrder' /\ PersistedIsInForce'
  BY <1>2 DEF PkexecFails, Exits, Goto, machine, history, bounds
<1>3. ASSUME NEW c \in Clients, SysctlFails(c)
      PROVE  ScriptOrder' /\ PersistedIsInForce'
  BY <1>3 DEF SysctlFails, Exits, Goto, machine, history, bounds
<1>4. ASSUME NEW c \in Clients, SysctlEnds(c)
      PROVE  ScriptOrder' /\ PersistedIsInForce'
  BY <1>4 DEF SysctlEnds, SetsParanoid, Exits, Goto, history, bounds
<1>5. ASSUME NEW c \in Clients, SysctlGoesOn(c)
      PROVE  ScriptOrder' /\ PersistedIsInForce'
  BY <1>5 DEF SysctlGoesOn, SetsParanoid, Goto, history, bounds
<1>6. ASSUME NEW c \in Clients, AppendFails(c)
      PROVE  ScriptOrder' /\ PersistedIsInForce'
  BY <1>6 DEF AppendFails, Exits, Goto, machine, history, bounds
<1>7. ASSUME NEW c \in Clients, AppendEnds(c)
      PROVE  ScriptOrder' /\ PersistedIsInForce'
  BY <1>7 DEF AppendEnds, Exits, Goto, history, bounds
<1>8. ASSUME NEW c \in Clients, Return(c)
      PROVE  ScriptOrder' /\ PersistedIsInForce'
  BY <1>8 DEF Return, Goto, machine, command, bounds
<1>9. ASSUME NEW c \in Clients, OutputFails(c) PROVE ScriptOrder' /\ PersistedIsInForce'
  BY <1>9 DEF OutputFails, machine, history, bounds
<1>10. CASE Reboot
  BY <1>10 DEF Reboot, command
<1>11. CASE UNCHANGED vars
  BY <1>11 DEF vars, machine, command, history, bounds
<1> QED
  BY <1>1, <1>2, <1>3, <1>4, <1>5, <1>6, <1>7, <1>8, <1>9, <1>10, <1>11 DEF Next

\* Only Return and Reboot change what was granted, and only sysctl, the append
\* and Reboot the machine.
LEMMA OkNext ==
  TypeOK /\ ScriptOrder /\ PersistedIsInForce /\ OkMeansSetUp /\ [Next]_vars
    => OkMeansSetUp'
<1> SUFFICES ASSUME TypeOK, ScriptOrder, PersistedIsInForce, OkMeansSetUp, [Next]_vars
             PROVE  OkMeansSetUp'
  OBVIOUS
<1> USE DEF OkMeansSetUp, test_perf
<1>1. ASSUME NEW c \in Clients, Return(c) PROVE OkMeansSetUp'
  <2>1. ResultOf(c) = "Ok" => status[c] = "0"
    BY <1>1, ReturnedOk DEF ResultOf, TypeOK
  <2>2. pc[c] = "exited" /\ UNCHANGED <<paranoid, conf, kept>>
    BY <1>1 DEF Return, Goto, machine
  <2>3. CASE ResultOf(c) # "Ok"
    BY <1>1, <2>2, <2>3 DEF Return
  <2>4. CASE ResultOf(c) = "Ok"
    <3>1. paranoid = "-1" /\ (kind[c] = "permanently" => conf = "line")
      BY <2>1, <2>2, <2>4 DEF ScriptOrder
    <3>2. granted' = granted \cup {kind[c]}
      BY <1>1, <2>4 DEF Return
    <3> QED
      BY <2>2, <3>1, <3>2
  <2> QED
    BY <2>3, <2>4
<1>2. CASE Reboot
  BY <1>2 DEF Reboot
<1>3. CASE UNCHANGED vars
  BY <1>3 DEF vars, machine, history
<1>4. ASSUME NEW c \in Clients,
             \/ Call(c) \/ PkexecFails(c) \/ PkexecRuns(c) \/ SysctlFails(c)
             \/ SysctlEnds(c) \/ SysctlGoesOn(c) \/ AppendFails(c) \/ AppendEnds(c)
             \/ OutputFails(c)
      PROVE  OkMeansSetUp'
  <2>1. /\ UNCHANGED <<granted, kept>>
        /\ paranoid' \in {paranoid, "-1"} /\ conf' \in {conf, "line"}
    BY <1>4 DEF Call, PkexecFails, PkexecRuns, SysctlFails, SysctlEnds, SysctlGoesOn,
                AppendFails, AppendEnds, OutputFails, SetsParanoid, Exits, machine, history
  <2> QED
    BY <2>1
<1> QED
  BY <1>1, <1>2, <1>3, <1>4 DEF Next

\* What a command touches and how it ends are set by the same step.
LEMMA RefusedNext == TypeOK /\ Refused /\ [Next]_vars => Refused'
<1> SUFFICES ASSUME TypeOK, Refused, [Next]_vars PROVE Refused'
  OBVIOUS
<1> USE DEF TypeOK, Refused
<1>1. ASSUME NEW c \in Clients, Call(c) \/ PkexecRuns(c) PROVE Refused'
  BY <1>1 DEF Call, PkexecRuns, Goto, machine, command, history, bounds
<1>2. ASSUME NEW c \in Clients, PkexecFails(c) PROVE Refused'
  BY <1>2 DEF PkexecFails, Exits, Goto, machine, history, bounds
<1>3. ASSUME NEW c \in Clients, SysctlFails(c) PROVE Refused'
  BY <1>3 DEF SysctlFails, Exits, Goto, machine, history, bounds
<1>4. ASSUME NEW c \in Clients, SysctlEnds(c) PROVE Refused'
  BY <1>4 DEF SysctlEnds, SetsParanoid, Exits, Goto, history, bounds
<1>5. ASSUME NEW c \in Clients, SysctlGoesOn(c) PROVE Refused'
  BY <1>5 DEF SysctlGoesOn, SetsParanoid, Goto, history, bounds
<1>6. ASSUME NEW c \in Clients, AppendFails(c) PROVE Refused'
  BY <1>6 DEF AppendFails, Exits, Goto, machine, history, bounds
<1>7. ASSUME NEW c \in Clients, AppendEnds(c) PROVE Refused'
  BY <1>7 DEF AppendEnds, Exits, Goto, history, bounds
<1>8. ASSUME NEW c \in Clients, Return(c) PROVE Refused'
  BY <1>8 DEF Return, Goto, machine, command, bounds
<1>9. ASSUME NEW c \in Clients, OutputFails(c) PROVE Refused'
  BY <1>9 DEF OutputFails, machine, history, bounds
<1>10. CASE Reboot
  BY <1>10 DEF Reboot, command
<1>11. CASE UNCHANGED vars
  BY <1>11 DEF vars, machine, command, history, bounds
<1> QED
  BY <1>1, <1>2, <1>3, <1>4, <1>5, <1>6, <1>7, <1>8, <1>9, <1>10, <1>11 DEF Next

-----------------------------------------------------------------------------
\* The inductive invariant holds in every reachable state.
THEOREM Invariance == Spec => []IndInv
<1>1. Init => IndInv
  <2> SUFFICES ASSUME Init PROVE IndInv
    OBVIOUS
  <2>1. TypeOK
    BY TypeInit
  <2>2. ScriptOrder /\ PersistedIsInForce /\ OkMeansSetUp /\ Refused
    BY DEF Init, ScriptOrder, PersistedIsInForce, OkMeansSetUp, Refused
  <2> QED
    BY <2>1, <2>2 DEF IndInv
<1>2. IndInv /\ [Next]_vars => IndInv'
  BY TypeNext, OrderNext, OkNext, RefusedNext DEF IndInv
<1> QED
  BY <1>1, <1>2, PTL DEF Spec

\* All variables keep their types, and a temporary setup never writes
\* /etc/sysctl.conf.
THEOREM TypeCorrect == Spec => []TypeOK
BY Invariance, PTL DEF IndInv

\* Ok from set_perf_up_temporarily means that perf can be used until the next
\* reboot, from set_perf_up_permanently for good.
THEOREM OkSafe == Spec => []OkMeansSetUp
BY Invariance, PTL DEF IndInv

\* A persisted setup is in force, wherever the two commands of
\* set_perf_up_permanently are cut off.
THEOREM PersistedSafe == Spec => []PersistedIsInForce
BY Invariance, PTL DEF IndInv

\* PkexecNotFound and AuthenticationFailed mean that nothing was changed, however
\* the command or the wait for it ended.
THEOREM RefusalSafe == Spec => []RefusalTouchesNothing
<1>1. IndInv => RefusalTouchesNothing
  BY ReturnedOk DEF IndInv, Refused, RefusalTouchesNothing, ResultOf, TypeOK
<1> QED
  BY <1>1, Invariance, PTL
=============================================================================
