----------------------------- MODULE CaseIndex -----------------------------
(* The index of a case library (src/app/case_index): builds that share one  *)
(* temporary directory, the swap into place, the stale marker, and what     *)
(* keeps rebuilds apart: the flag _rebuild_locks and the table of index     *)
(* tasks, both in memory.                                                   *)
(*                                                                          *)
(* The documents are known by the number of changes made to them, each part *)
(* of an index by the documents it was made from.                           *)
EXTENDS Naturals, FiniteSets

CONSTANTS
    Builds,         \* builds that may be queued or under way at once
    Uploaders,      \* requests that save a document, and git syncs
    AutoRebuild,    \* the values of Project.case_index_auto_rebuild to consider
    MaxChanges, MaxRebuilds, MaxCrashes,    \* bounds on events
    None

Versions == 0..MaxChanges
Parts == {"keyword", "vector", "manifest"}
\* cases.jsonl with keyword.sqlite, the LanceDB table, manifest.json.
Dirs == [Parts -> Versions \cup {None}]
Empty == [p \in Parts |-> None]
Complete(v) == [p \in Parts |-> v]

\* None is neither documents nor a directory.
ASSUME CaseIndexAssumption ==
    /\ AutoRebuild \subseteq BOOLEAN
    /\ MaxChanges \in Nat /\ MaxRebuilds \in Nat /\ MaxCrashes \in Nat
    /\ None \notin Nat /\ None \notin Dirs

VARIABLES
    docs,           \* raw/sources: 0 while there is no document
    stale,          \* is the stale marker there?
    tmp, final,     \* the directories case-index.tmp and case-index
    flag,           \* _rebuild_locks[project]
    pc, ver, kind, task,
    \* per build: where it is, the documents it has scanned, who asked for it,
    \* and the status of its index task
    alone,          \* history: no other build has been under way with this one
    upc,            \* per uploader: "saved" once its document is there
    rebuilds, crashes

diskVars == <<docs, stale, tmp, final>>
buildVars == <<flag, pc, ver, kind, task, alone>>
boundVars == <<rebuilds, crashes>>
vars == <<diskVars, buildVars, upc, boundVars>>

Underway(b) == pc[b] \in {"embed", "lance", "swap"}
Active(b) == task[b] \in {"queued", "running"}

Init ==
    /\ docs \in {0, 1} \cap Versions /\ stale = FALSE /\ tmp = None /\ final = None
    /\ flag = FALSE
    /\ pc = [b \in Builds |-> "idle"]
    /\ ver = [b \in Builds |-> 0]
    /\ kind = [b \in Builds |-> "bare"]
    /\ task = [b \in Builds |-> "none"]
    /\ alone = [b \in Builds |-> FALSE]
    /\ upc = [u \in Uploaders |-> "idle"]
    /\ rebuilds = 0 /\ crashes = 0

-----------------------------------------------------------------------------
(* Who asks for a build.                                                    *)

Queue(b, k) ==
    /\ pc[b] = "idle"
    /\ pc' = [pc EXCEPT ![b] = "queued"]
    /\ kind' = [kind EXCEPT ![b] = k]
    /\ task' = [task EXCEPT ![b] = IF k = "task" THEN "queued" ELSE "none"]
    /\ UNCHANGED <<flag, ver, alone>>

\* "Rebuild already in progress" (router.py:135, 153).
InProgress == flag \/ \E b \in Builds : Active(b)

\* POST /rebuild leaves no trace until its background task starts; POST
\* /rebuild/tasks creates its index task at once.
TriggerRebuild(b) ==
    /\ rebuilds < MaxRebuilds /\ rebuilds' = rebuilds + 1
    /\ ~InProgress
    /\ \E k \in {"flagged", "task"} : Queue(b, k)
    /\ UNCHANGED <<diskVars, upc, crashes>>

\* An upload, or the pull of a git sync, has written a document.
SaveDocument(u) ==
    /\ upc[u] = "idle" /\ docs < MaxChanges
    /\ docs' = docs + 1
    /\ upc' = [upc EXCEPT ![u] = "saved"]
    /\ UNCHANGED <<stale, tmp, final, buildVars, boundVars>>

\* It then rebuilds without looking at flag or tasks, or marks the index stale.
AfterSave(u) ==
    /\ upc[u] = "saved"
    /\ upc' = [upc EXCEPT ![u] = "idle"]
    /\ \/ TRUE \in AutoRebuild /\ (\E b \in Builds : Queue(b, "bare")) /\ UNCHANGED stale
       \/ FALSE \in AutoRebuild /\ stale' = TRUE /\ UNCHANGED buildVars
    /\ UNCHANGED <<docs, tmp, final, boundVars>>

-----------------------------------------------------------------------------
(* rebuild_case_index inside _do_rebuild, or bare.                          *)

\* Mutant of Finish: the flag and the task are settled on success only.
FinishOnSuccess(b, returned) ==
    /\ pc' = [pc EXCEPT ![b] = "idle"]
    /\ flag' = IF kind[b] = "bare" \/ ~returned THEN flag ELSE FALSE
    /\ task' = IF kind[b] # "task" \/ ~returned THEN task
               ELSE [task EXCEPT ![b] = "succeeded"]
    /\ UNCHANGED <<ver, kind>>

\* _do_rebuild's result, exception and finally: a manifest that says "failed" is
\* a success to it, and the flag goes whoever else has raised it.
Finish(b, returned) ==
    /\ pc' = [pc EXCEPT ![b] = "idle"]
    /\ flag' = IF kind[b] = "bare" THEN flag ELSE FALSE
    /\ task' = IF kind[b] # "task" THEN task
               ELSE [task EXCEPT ![b] = IF returned THEN "succeeded" ELSE "failed"]
    /\ UNCHANGED <<ver, kind>>

Goto(b, where) == pc' = [pc EXCEPT ![b] = where] /\ UNCHANGED <<flag, ver, kind, task, alone>>

\* Mutant of StartBuild: what is in the temporary directory stays there.
StartUncleared(b) ==
    /\ pc[b] = "queued" /\ docs > 0
    /\ tmp' = [(IF tmp = None THEN Empty ELSE tmp) EXCEPT !["keyword"] = docs]
    /\ pc' = [pc EXCEPT ![b] = "embed"]
    /\ ver' = [ver EXCEPT ![b] = docs]
    /\ flag' = (flag \/ kind[b] # "bare")
    /\ task' = IF kind[b] = "task" THEN [task EXCEPT ![b] = "running"] ELSE task
    /\ alone' = [x \in Builds |-> IF x = b THEN \A o \in Builds : ~Underway(o)
                                           ELSE alone[x] /\ ~Underway(x)]
    /\ UNCHANGED <<kind, docs, stale, final, upc, boundVars>>

\* Up to the first await: clear the temporary directory, scan, write the keyword
\* part.  Without documents a "failed" manifest is returned.
StartBuild(b) ==
    /\ pc[b] = "queued"
    /\ IF docs = 0
       THEN tmp' = None /\ Finish(b, TRUE) /\ UNCHANGED alone
       ELSE /\ tmp' = [Empty EXCEPT !["keyword"] = docs]
            /\ pc' = [pc EXCEPT ![b] = "embed"]
            /\ ver' = [ver EXCEPT ![b] = docs]
            /\ flag' = (flag \/ kind[b] # "bare")
            /\ task' = IF kind[b] = "task" THEN [task EXCEPT ![b] = "running"] ELSE task
            /\ alone' = [x \in Builds |-> IF x = b THEN \A o \in Builds : ~Underway(o)
                                                   ELSE alone[x] /\ ~Underway(x)]
            /\ UNCHANGED kind
    /\ UNCHANGED <<docs, stale, final, upc, boundVars>>

\* Mutant of Embed: a failure leaves a keyword index, which is published.
EmbedOrSkip(b) ==
    /\ pc[b] = "embed"
    /\ Goto(b, "lance") \/ Goto(b, "swap")
    /\ UNCHANGED <<docs, stale, tmp, final, upc, boundVars>>

\* The embedding service answers, or fails and the temporary directory is
\* removed, which raises when another build has taken it.
Embed(b) ==
    /\ pc[b] = "embed"
    /\ \/ Goto(b, "lance") /\ UNCHANGED tmp
       \/ tmp' = None /\ Finish(b, tmp # None) /\ UNCHANGED alone
    /\ UNCHANGED <<docs, stale, final, upc, boundVars>>

Found == IF tmp = None THEN Empty ELSE tmp

\* create_table makes the directories it needs, and raises when the table is
\* there, or for vectors it does not accept; tmp then stays behind.
CreateTable(b) ==
    /\ pc[b] = "lance"
    /\ \/ /\ Found["vector"] = None
          /\ tmp' = [Found EXCEPT !["vector"] = ver[b]]
          /\ Goto(b, "swap")
       \/ Finish(b, FALSE) /\ UNCHANGED <<tmp, alone>>
    /\ UNCHANGED <<docs, stale, final, upc, boundVars>>

\* Write the manifest, which raises when another build has taken the directory;
\* remove the old index, move the new one into place, clear the stale marker.
Swap(b) ==
    /\ pc[b] = "swap"
    /\ IF tmp = None
       THEN Finish(b, FALSE) /\ UNCHANGED <<stale, tmp, final>>
       ELSE /\ final' = [tmp EXCEPT !["manifest"] = ver[b]]
            /\ tmp' = None /\ stale' = FALSE
            /\ Finish(b, TRUE)
    /\ UNCHANGED <<docs, alone, upc, boundVars>>

BuildStep(b) == StartBuild(b) \/ Embed(b) \/ CreateTable(b) \/ Swap(b)

-----------------------------------------------------------------------------
\* What is left of a directory whose removal was cut short.
Remains(d) == IF d = None THEN {None}
              ELSE {None, d} \cup {[p \in Parts |-> IF p \in k THEN d[p] ELSE None] :
                                      k \in SUBSET Parts}

\* Process death forgets flag, tasks and builds.  It may fall inside a removal of
\* either directory, or between the removal of the old index and the rename.
Crash ==
    /\ crashes < MaxCrashes /\ crashes' = crashes + 1
    /\ tmp' \in Remains(tmp)
    /\ final' \in IF \E b \in Builds : pc[b] = "swap" THEN Remains(final) ELSE {final}
    /\ flag' = FALSE
    /\ pc' = [b \in Builds |-> "idle"]
    /\ task' = [b \in Builds |-> "none"]
    /\ upc' = [u \in Uploaders |-> "idle"]
    /\ UNCHANGED <<docs, stale, ver, kind, alone, rebuilds>>

Next ==
    \/ \E b \in Builds : TriggerRebuild(b) \/ BuildStep(b)
    \/ \E u \in Uploaders : SaveDocument(u) \/ AfterSave(u)
    \/ Crash

Spec == Init /\ [][Next]_vars

\* The event loop runs what was scheduled; nobody has to upload or to rebuild.
FairSpec ==
    /\ Spec
    /\ \A b \in Builds : WF_vars(BuildStep(b))
    /\ \A u \in Uploaders : WF_vars(AfterSave(u))

-----------------------------------------------------------------------------
(* Properties.                                                              *)

\* The type invariant.
TypeOK ==
    /\ docs \in Versions /\ stale \in BOOLEAN
    /\ tmp \in Dirs \cup {None} /\ final \in Dirs \cup {None}
    /\ flag \in BOOLEAN
    /\ pc \in [Builds -> {"idle", "queued", "embed", "lance", "swap"}]
    /\ ver \in [Builds -> Versions]
    /\ kind \in [Builds -> {"bare", "flagged", "task"}]
    /\ task \in [Builds -> {"none", "queued", "running", "succeeded", "failed"}]
    /\ alone \in [Builds -> BOOLEAN]
    /\ upc \in [Uploaders -> {"idle", "saved"}]
    /\ rebuilds \in 0..MaxRebuilds /\ crashes \in 0..MaxCrashes

\* "Rebuild already in progress" (router.py:153): at most one index task is queued
\* or running, though builds of other callers lower the flag under it.
OneActiveTask ==
    \A a, b \in Builds : Active(a) /\ Active(b) => a = b

\* What a build leaves, when nobody else builds meanwhile, is a complete index of
\* the documents it scanned (builder.py:143-253), whatever overlapping builds,
\* failures and crashes have left in both directories before.
AlonePublishesComplete ==
    [][\A b \in Builds : Swap(b) /\ alone[b] => final' = Complete(ver[b])]_vars

\* A rebuild that was accepted comes to an end: its task leaves "queued" and
\* "running", and "building" (router.py:66) is not shown for ever, even when
\* builds take each other's directory away.
RebuildsSettle ==
    InProgress ~> ~InProgress

\* The inductive strengthening of the two safety properties above.
\* A build that was asked for with a task keeps it active until it ends.
TaskFollows ==
    \A b \in Builds : Active(b) <=> kind[b] = "task" /\ pc[b] # "idle"
\* A build that is alone is the only one, and the temporary directory is its own.
AloneOwnsTmp ==
    \A b \in Builds : alone[b] /\ Underway(b) =>
        /\ \A o \in Builds : Underway(o) => o = b
        /\ tmp # None /\ tmp["keyword"] = ver[b]
        /\ tmp["vector"] = IF pc[b] = "swap" THEN ver[b] ELSE None

\* Builds get past the scan only when there are documents.
DocsScanned ==
    \A b \in Builds : Underway(b) => docs # 0

\* What every step preserves: the conjunction that carries OneActiveTask and
\* AlonePublishesComplete through overlapping builds and crashes.
IInv == TypeOK /\ TaskFollows /\ OneActiveTask /\ AloneOwnsTmp /\ DocsScanned

-----------------------------------------------------------------------------
(* What docs and comments say, and the code does not do.                    *)

Ready == final # None /\ final["manifest"] # None

\* "否则会标记为 stale，需手动重建" (README.md:335): without automatic rebuilds, an
\* index behind the documents is marked once the upload is over.  The end of a
\* build clears the marker of a document that came during it.
BehindIsMarked ==
    Ready /\ final["manifest"] < docs /\ (\A u \in Uploaders : upc[u] = "idle") => stale

\* "Atomic swap" (builder.py:250): an index that is ready has all its parts, made
\* from the same documents.
ReadyIsComplete == Ready => final = Complete(final["manifest"])

\* "案例库索引已重建" (router.py:108): a task that succeeded has published an index.
SucceededPublishes ==
    [][\A b \in Builds : task[b] # "succeeded" /\ task'[b] = "succeeded" => final' # final]_vars
=============================================================================
