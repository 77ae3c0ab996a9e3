-------------------------- MODULE MCIngestPipeline --------------------------
(* Small instances of IngestPipeline for TLC.                               *)
EXTENDS IngestPipeline, TLC

CONSTANTS j1, j2, s1, log, own, v1, v2

\* Two jobs of one source share its checkpoint, its cache entry and its page.
OneSource == j1 :> s1 @@ j2 :> s1
\* The LLM emits the page of the source and a log entry, or no block at all.
SomeBlocks == {{}, {own, log}}

\* The two texts, and the two jobs, may be exchanged.
Swap(a, b) == a :> b @@ b :> a
Same(a, b) == a :> a @@ b :> b
JobPermutations == {Same(j1, j2), Swap(j1, j2)}
VersionPermutations == {Same(v1, v2), Swap(v1, v2)}
JobVersionSymmetry == {f @@ g : f \in JobPermutations, g \in VersionPermutations}
=============================================================================
