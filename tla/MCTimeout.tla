------------------------------ MODULE MCTimeout ------------------------------
(* Timeout with values for its constants.                                  *)
EXTENDS Timeout

CONSTANTS t1, t2

MCThreads == {t1, t2}
AllPriors == {"DFL", "IGN", "USER"}
=============================================================================
