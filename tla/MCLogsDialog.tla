---------------------------- MODULE MCLogsDialog ----------------------------
(* Small values for the constants of LogsDialog. *)
EXTENDS LogsDialog, TLC

ThreadSymmetry == Permutations(Threads \ {MainThread})
=============================================================================
