---------------------------- MODULE MCDescriptors ----------------------------
(* Descriptors with values for its constants: no redirection, one file, two *)
(* files, a file for two streams, a standard stream for another; one of the *)
(* two files is close-on-exec, the other is inherited.                      *)
EXTENDS Descriptors, TLC

CONSTANTS j1, j2

MCJails == {j1, j2}
MCStreams == {<<>>, 0 :> 3, (0 :> 4) @@ (1 :> 3), (1 :> 3) @@ (2 :> 3), 2 :> 1}
MCFiles == {3, 4}
MCInheritable == {4}
JailSymmetry == Permutations(MCJails)
=============================================================================
