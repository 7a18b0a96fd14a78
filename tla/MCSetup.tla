------------------------------- MODULE MCSetup -------------------------------
(* Setup with values for its constants.                                    *)
EXTENDS Setup, TLC

CONSTANTS c1, c2

MCClients == {c1, c2}
ClientSymmetry == Permutations(MCClients)
=============================================================================
