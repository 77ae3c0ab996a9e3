--------------------------- MODULE MCIngestQueue ---------------------------
(* Small instances of IngestQueue for TLC.                                  *)
EXTENDS IngestQueue, TLC

CONSTANTS j1, j2, p1, c1, c2

OneJob == j1 :> p1
OneProject == (j1 :> p1 @@ j2 :> p1)

JobSymmetry == Permutations({j1, j2})
=============================================================================
