--------------------------- MODULE MCWikiWriters ---------------------------
(* Small instances of WikiWriters for TLC.                                  *)
EXTENDS WikiWriters, TLC

CONSTANTS r1, r2, r3, a, b, stem

\* Two pages of one name, in different directories.
OneStem == a :> stem @@ b :> stem
\* One of them is there at first.
OnePage == {{a}}
Symmetry == Permutations(Requests)
=============================================================================
