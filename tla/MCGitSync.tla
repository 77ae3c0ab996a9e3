----------------------------- MODULE MCGitSync -----------------------------
(* Small instances of GitSync for TLC.                                      *)
EXTENDS GitSync

CONSTANTS r1, r2, s1, s2, p1, p2
=============================================================================
