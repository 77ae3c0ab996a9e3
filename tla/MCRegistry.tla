----------------------------- MODULE MCRegistry -----------------------------
(* Two users, two projects, one agent, one model name, two clients that      *)
(* together have four requests accepted, one restart.                        *)
EXTENDS Registry, TLC

Symmetry == Permutations(Projects) \cup Permutations(Clients)
=============================================================================
