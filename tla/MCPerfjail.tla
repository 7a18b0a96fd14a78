----------------------------- MODULE MCPerfjail -----------------------------
(* Perfjail with values for its constants: an i64 of 16 values and 2        *)
(* instructions per millisecond, so that a limit of 3 ms still fits,         *)
(* one of 5 ms becomes negative and one of 17 ms a limit of 1 ms.           *)
EXTENDS Perfjail

MCDurations == {1500, 3000, 5000, 17000}
MCSizes == {1}
MCFds == {3, 4}
MCArgs == {"a"}
=============================================================================
