-------------------------- MODULE WikiTransaction --------------------------
(***************************************************************************)
(* What one ingest run promises to a reader of the wiki: the pages of a    *)
(* generation appear together with the cache entry of its source, in one   *)
(* step, or nothing appears at all, unless the process dies in between.    *)
(***************************************************************************)
EXTENDS Naturals, Sequences

CONSTANTS Sources, Pages, Log, Versions, Gens

VARIABLES
    wiki,      \* the generations that contributed to each page, oldest first
    compiled,  \* the version of each source the cache calls ingested
    deaths     \* how often the process has died

vars == <<wiki, compiled, deaths>>

\* What a page may hold once a generation is written to it: log.md grows, any
\* other page is replaced or merged with what it held.
Results(p, old, g) ==
    IF p = Log THEN {Append(old, g)} ELSE {<<g>>, Append(old, g)}

Init == wiki = [p \in Pages |-> <<>>] /\ compiled \in [Sources -> {{}}] /\ deaths = 0

Publish(s) ==
    \E g \in Gens, v \in Versions :
        /\ g.blocks # {}
        /\ \A p \in Pages : IF p \in g.blocks THEN wiki'[p] \in Results(p, wiki[p], g)
                                              ELSE wiki'[p] = wiki[p]
        /\ compiled' = [compiled EXCEPT ![s] = {v}]
        /\ UNCHANGED deaths

\* A death leaves each page as it was, written, or cut.
Die ==
    /\ deaths' = deaths + 1
    /\ \E g \in Gens : \A p \in Pages :
          wiki'[p] \in {wiki[p]} \cup (IF p \in g.blocks THEN Results(p, wiki[p], g) \cup {<<>>}
                                                       ELSE {})
    /\ UNCHANGED compiled

Next == Die \/ \E s \in Sources : Publish(s)

Spec == Init /\ [][Next]_vars
=============================================================================
