---------------------------- MODULE MCJailedChild ----------------------------
(* JailedChild with values for its constants.                              *)
EXTENDS JailedChild, TLC

CONSTANTS t1, t2

MCThreads == {t1, t2}
AllFeatureSets == SUBSET Feature
UntracedFeatureSets == SUBSET {"PERF", "TIME"}
TracedFeatureSets == {{"MEMORY"}}
NoFaults == {}
ExecFault == {"exec"}
LivenessFaults == {"clone", "setup", "exec", "perf"}
AllFaults == FaultSites
ThreadSymmetry == Permutations(MCThreads)
=============================================================================
