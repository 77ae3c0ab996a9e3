----------------------------- MODULE MCRuntime -----------------------------
(* Small instances of Runtime for TLC.                                      *)
EXTENDS Runtime, TLC

CONSTANTS p1, p2, c1, c2

ProcessClientSymmetry == Permutations(Procs) \cup Permutations(Callers)
=============================================================================
