--------------------------- MODULE MCConfiguration ---------------------------
(* Two keys per section, two clients that together have three requests       *)
(* accepted, two starts.                                                     *)
EXTENDS Configuration, TLC

Symmetry == Permutations(Keys) \cup Permutations(Editors)
=============================================================================
