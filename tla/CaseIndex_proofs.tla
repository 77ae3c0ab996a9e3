-------------------------- MODULE CaseIndex_proofs --------------------------
(* CaseIndex keeps one index task at a time, and a build that nobody        *)
(* overlaps publishes a complete index, for any number of builds and        *)
(* uploaders, any documents and any crash.                                  *)
EXTENDS CaseIndex, TLAPS

\* Ending a build keeps the types and frees its task.
LEMMA FinishEnds ==
    ASSUME TypeOK, TaskFollows, NEW b \in Builds, NEW r \in BOOLEAN, Finish(b, r),
           pc[b] # "idle"
    PROVE  /\ flag' \in BOOLEAN /\ ver' = ver /\ kind' = kind
           /\ pc' \in [Builds -> {"idle", "queued", "embed", "lance", "swap"}]
           /\ task' \in [Builds -> {"none", "queued", "running", "succeeded", "failed"}]
           /\ TaskFollows'
           /\ \A o \in Builds : Active(o)' => Active(o)
           /\ \A o \in Builds : Underway(o)' => Underway(o) /\ o # b /\ pc'[o] = pc[o]
<1>1. /\ flag' \in BOOLEAN /\ ver' = ver /\ kind' = kind
      /\ pc' \in [Builds -> {"idle", "queued", "embed", "lance", "swap"}]
      /\ task' \in [Builds -> {"none", "queued", "running", "succeeded", "failed"}]
  BY DEF TypeOK, Finish
<1>2. /\ ~Active(b)' /\ pc'[b] = "idle"
      /\ \A o \in Builds \ {b} : task'[o] = task[o] /\ pc'[o] = pc[o]
  BY DEF TypeOK, TaskFollows, Finish, Active
<1>3. TaskFollows'
  BY <1>1, <1>2 DEF TaskFollows, Active
<1>4. \A o \in Builds : Active(o)' => Active(o)
  BY <1>2 DEF Active
<1>5. \A o \in Builds : Underway(o)' => Underway(o) /\ o # b /\ pc'[o] = pc[o]
  BY <1>2 DEF Underway
<1> QED BY <1>1, <1>3, <1>4, <1>5

\* A directory is a directory whatever part of it is made or lost.
LEMMA DirTypes ==
    /\ Empty \in Dirs
    /\ \A d \in Dirs, p \in Parts, v \in Versions \cup {None} : [d EXCEPT ![p] = v] \in Dirs
    /\ \A d \in Dirs \cup {None} : Remains(d) \subseteq Dirs \cup {None}
  BY DEF Dirs, Empty, Remains

LEMMA InitInv == Init => IInv
<1> SUFFICES ASSUME Init PROVE IInv
  OBVIOUS
<1>1. TypeOK
  <2>1. 0 \in Versions /\ 0 \in 0..MaxRebuilds /\ 0 \in 0..MaxCrashes
    BY CaseIndexAssumption DEF CaseIndexAssumption, Versions
  <2> QED BY <2>1 DEF Init, TypeOK
<1>2. TaskFollows /\ OneActiveTask /\ AloneOwnsTmp /\ DocsScanned
  BY DEF Init, TaskFollows, OneActiveTask, AloneOwnsTmp, DocsScanned, Active, Underway
<1> QED BY <1>1, <1>2 DEF IInv

\* Asking for a build starts none: it gets the only active task, or has none.
LEMMA QueueInv ==
    ASSUME IInv, NEW b \in Builds, NEW k \in {"bare", "flagged", "task"}, Queue(b, k),
           k = "task" => \A o \in Builds : ~Active(o),
           UNCHANGED <<docs, tmp, final>>, stale' \in BOOLEAN,
           upc' \in [Uploaders -> {"idle", "saved"}],
           rebuilds' \in 0..MaxRebuilds, UNCHANGED crashes
    PROVE  IInv'
<1> USE DEF IInv
<1>1. TypeOK'
  BY DEF TypeOK, Queue
<1>2. /\ pc[b] = "idle" /\ pc'[b] = "queued" /\ kind'[b] = k
      /\ task'[b] = IF k = "task" THEN "queued" ELSE "none"
      /\ \A o \in Builds \ {b} : pc'[o] = pc[o] /\ kind'[o] = kind[o] /\ task'[o] = task[o]
  BY DEF TypeOK, Queue
<1>3. TaskFollows'
  BY <1>2 DEF TaskFollows, Active
<1>4. OneActiveTask'
  BY <1>2 DEF OneActiveTask, Active
<1>5. \A o \in Builds : /\ Underway(o)' => Underway(o) /\ pc'[o] = pc[o]
                        /\ alone'[o] = alone[o] /\ ver'[o] = ver[o]
  BY <1>2 DEF Underway, Queue
<1>6. AloneOwnsTmp' /\ DocsScanned'
  BY <1>5 DEF AloneOwnsTmp, DocsScanned
<1> QED BY <1>1, <1>3, <1>4, <1>6

\* A build that ends leaves the invariant, if it leaves the directory of a build
\* that is alone as it was: there is no such build.
LEMMA FinishInv ==
    ASSUME IInv, NEW b \in Builds, NEW r \in BOOLEAN, Finish(b, r),
           UNCHANGED <<docs, alone, upc, boundVars>>,
           stale' \in BOOLEAN, tmp' \in Dirs \cup {None}, final' \in Dirs \cup {None},
           \/ Underway(b)
           \/ pc[b] = "queued" /\ \A o \in Builds : ~Underway(o)
    PROVE  IInv'
<1> USE DEF IInv
<1>1. pc[b] # "idle"
  BY DEF Underway
<1>2. /\ flag' \in BOOLEAN /\ ver' = ver /\ kind' = kind
      /\ pc' \in [Builds -> {"idle", "queued", "embed", "lance", "swap"}]
      /\ task' \in [Builds -> {"none", "queued", "running", "succeeded", "failed"}]
      /\ TaskFollows'
      /\ \A o \in Builds : Active(o)' => Active(o)
      /\ \A o \in Builds : Underway(o)' => Underway(o) /\ o # b /\ pc'[o] = pc[o]
  BY <1>1, FinishEnds
<1>3. TypeOK'
  BY <1>2 DEF TypeOK, boundVars
<1>4. OneActiveTask'
  BY <1>2 DEF OneActiveTask
<1>5. \A o \in Builds : Underway(o)' => ~alone'[o]
  BY <1>2 DEF AloneOwnsTmp
<1>6. AloneOwnsTmp' /\ DocsScanned'
  BY <1>2, <1>5 DEF AloneOwnsTmp, DocsScanned
<1> QED BY <1>2, <1>3, <1>4, <1>6

\* Every step keeps the invariant.
LEMMA StepInv == IInv /\ [Next]_vars => IInv'
<1> SUFFICES ASSUME IInv, [Next]_vars PROVE IInv'
  OBVIOUS
<1>types. TypeOK
  BY DEF IInv
<1>1. ASSUME NEW b \in Builds, TriggerRebuild(b) PROVE IInv'
  <2>1. PICK k \in {"flagged", "task"} : Queue(b, k)
    BY <1>1 DEF TriggerRebuild
  <2>2. \A o \in Builds : ~Active(o)
    BY <1>1 DEF TriggerRebuild, InProgress
  <2>3. /\ UNCHANGED <<docs, tmp, final>> /\ stale' \in BOOLEAN
        /\ upc' \in [Uploaders -> {"idle", "saved"}]
        /\ rebuilds' \in 0..MaxRebuilds /\ UNCHANGED crashes
    BY <1>1, <1>types, CaseIndexAssumption
       DEF CaseIndexAssumption, TriggerRebuild, TypeOK, diskVars
  <2> QED BY <2>1, <2>2, <2>3, QueueInv
<1>2. ASSUME NEW u \in Uploaders, SaveDocument(u) PROVE IInv'
  <2>1. TypeOK'
    BY <1>2, <1>types, CaseIndexAssumption
       DEF CaseIndexAssumption, SaveDocument, TypeOK, Versions, buildVars, boundVars
  <2>2. TaskFollows' /\ OneActiveTask' /\ AloneOwnsTmp'
    BY <1>2 DEF IInv, SaveDocument, TaskFollows, OneActiveTask, AloneOwnsTmp, Active, Underway,
                buildVars
  <2>3. DocsScanned'
    BY <1>2, <1>types DEF TypeOK, Versions, SaveDocument, DocsScanned
  <2> QED BY <2>1, <2>2, <2>3 DEF IInv
<1>3. ASSUME NEW u \in Uploaders, AfterSave(u) PROVE IInv'
  <2>1. CASE \E b \in Builds : Queue(b, "bare") /\ UNCHANGED stale
    <3>1. PICK b \in Builds : Queue(b, "bare") /\ UNCHANGED stale
      BY <2>1
    <3>2. /\ UNCHANGED <<docs, tmp, final>> /\ stale' \in BOOLEAN
          /\ upc' \in [Uploaders -> {"idle", "saved"}]
          /\ rebuilds' \in 0..MaxRebuilds /\ UNCHANGED crashes
      BY <1>3, <1>types, <3>1 DEF AfterSave, TypeOK, boundVars
    <3> QED BY <3>1, <3>2, QueueInv
  <2>2. CASE stale' = TRUE /\ UNCHANGED buildVars
    <3>1. TypeOK'
      BY <1>3, <2>2, <1>types DEF AfterSave, TypeOK, buildVars, boundVars
    <3>2. TaskFollows' /\ OneActiveTask' /\ AloneOwnsTmp' /\ DocsScanned'
      BY <1>3, <2>2 DEF IInv, AfterSave, TaskFollows, OneActiveTask, AloneOwnsTmp, DocsScanned,
                        Active, Underway, buildVars
    <3> QED BY <3>1, <3>2 DEF IInv
  <2> QED BY <1>3, <2>1, <2>2 DEF AfterSave
<1>4. ASSUME NEW b \in Builds, StartBuild(b) PROVE IInv'
  <2>1. CASE docs = 0
    <3>1. \A o \in Builds : ~Underway(o)
      BY <2>1 DEF IInv, DocsScanned
    <3>2. Finish(b, TRUE) /\ pc[b] = "queued" /\ UNCHANGED <<docs, alone, upc, boundVars>>
      BY <1>4, <2>1 DEF StartBuild
    <3>3. stale' \in BOOLEAN /\ tmp' \in Dirs \cup {None} /\ final' \in Dirs \cup {None}
      BY <1>4, <2>1, <1>types DEF StartBuild, TypeOK
    <3> QED BY <3>1, <3>2, <3>3, FinishInv
  <2>2. CASE docs # 0
    <3>1. tmp' \in Dirs /\ tmp'["keyword"] = docs /\ tmp'["vector"] = None
      BY <1>4, <2>2, <1>types DEF StartBuild, TypeOK, Dirs, Empty, Parts
    <3>2. /\ pc[b] = "queued" /\ pc'[b] = "embed" /\ ver'[b] = docs
          /\ task'[b] = IF kind[b] = "task" THEN "running" ELSE task[b]
          /\ \A o \in Builds \ {b} : pc'[o] = pc[o] /\ ver'[o] = ver[o] /\ task'[o] = task[o]
          /\ kind' = kind /\ docs' = docs
          /\ alone'[b] = \A o \in Builds : ~Underway(o)
          /\ \A o \in Builds \ {b} : alone'[o] = (alone[o] /\ ~Underway(o))
      <4>1. /\ pc[b] = "queued"
            /\ pc' = [pc EXCEPT ![b] = "embed"]
            /\ ver' = [ver EXCEPT ![b] = docs]
            /\ task' = IF kind[b] = "task" THEN [task EXCEPT ![b] = "running"] ELSE task
            /\ alone' = [x \in Builds |-> IF x = b THEN \A o \in Builds : ~Underway(o)
                                                   ELSE alone[x] /\ ~Underway(x)]
            /\ kind' = kind /\ docs' = docs
        BY <1>4, <2>2 DEF StartBuild
      <4>2. /\ pc \in [Builds -> {"idle", "queued", "embed", "lance", "swap"}]
            /\ DOMAIN ver = Builds /\ DOMAIN task = Builds
        BY <1>types DEF TypeOK
      <4>3. /\ alone'[b] = \A o \in Builds : ~Underway(o)
            /\ \A o \in Builds \ {b} : alone'[o] = (alone[o] /\ ~Underway(o))
        BY <4>1, ZenonT(30)
      <4> QED BY <4>1, <4>2, <4>3
    <3>3. TypeOK'
      <4>1. alone' \in [Builds -> BOOLEAN]
        BY <1>4, <2>2 DEF StartBuild
      <4> QED BY <1>4, <2>2, <1>types, <3>1, <4>1 DEF StartBuild, TypeOK, boundVars
    <3>4. TaskFollows' /\ OneActiveTask'
      BY <3>2 DEF IInv, TaskFollows, OneActiveTask, Active
    <3>5. \A o \in Builds : Underway(o)' => o = b \/ Underway(o)
      BY <3>2 DEF Underway
    <3>6. AloneOwnsTmp'
      BY <3>1, <3>2, <3>5, CaseIndexAssumption DEF CaseIndexAssumption, AloneOwnsTmp
    <3> QED BY <3>2, <3>3, <3>4, <3>6, <2>2 DEF IInv, DocsScanned
  <2> QED BY <2>1, <2>2
<1>5. ASSUME NEW b \in Builds, Embed(b) PROVE IInv'
  <2>1. CASE Goto(b, "lance") /\ UNCHANGED tmp
    <3>1. TypeOK'
      BY <1>5, <2>1, <1>types DEF Embed, Goto, TypeOK, boundVars
    <3>2. \A o \in Builds : Underway(o)' = Underway(o) /\ (pc[o] = "swap") = (pc'[o] = "swap")
                             /\ (pc[o] = "idle") = (pc'[o] = "idle")
      BY <1>5, <2>1, <1>types DEF Embed, Goto, TypeOK, Underway
    <3>3. TaskFollows' /\ OneActiveTask'
      BY <2>1, <3>2 DEF IInv, Goto, TaskFollows, OneActiveTask, Active
    <3>4. AloneOwnsTmp' /\ DocsScanned'
      BY <1>5, <2>1, <3>2 DEF IInv, Embed, Goto, AloneOwnsTmp, DocsScanned
    <3> QED BY <3>1, <3>3, <3>4 DEF IInv
  <2>2. CASE tmp' = None /\ Finish(b, tmp # None) /\ UNCHANGED alone
    <3>1. Underway(b) /\ UNCHANGED <<docs, alone, upc, boundVars>>
      BY <1>5, <2>2 DEF Embed, Underway
    <3>2. stale' \in BOOLEAN /\ tmp' \in Dirs \cup {None} /\ final' \in Dirs \cup {None}
      BY <1>5, <2>2, <1>types DEF Embed, TypeOK
    <3>3. (tmp # None) \in BOOLEAN
      OBVIOUS
    <3> QED BY <2>2, <3>1, <3>2, <3>3, FinishInv
  <2> QED BY <1>5, <2>1, <2>2 DEF Embed
<1>6. ASSUME NEW b \in Builds, CreateTable(b) PROVE IInv'
  <2>1. Underway(b) /\ pc[b] = "lance" /\ UNCHANGED <<docs, stale, final, upc, boundVars>>
    BY <1>6 DEF CreateTable, Underway
  <2>2. CASE tmp' = [Found EXCEPT !["vector"] = ver[b]] /\ Goto(b, "swap")
    <3>1. Found \in Dirs
      BY <1>types, DirTypes DEF Found, TypeOK
    <3>2. tmp' \in Dirs /\ tmp'["keyword"] = Found["keyword"] /\ tmp'["vector"] = ver[b]
      BY <2>2, <3>1, <1>types DEF TypeOK, Dirs, Parts
    <3>3. TypeOK'
      BY <2>1, <2>2, <3>2, <1>types DEF Goto, TypeOK, boundVars
    <3>4. /\ pc'[b] = "swap" /\ \A o \in Builds \ {b} : pc'[o] = pc[o]
          /\ UNCHANGED <<ver, kind, task, alone, docs>>
      BY <2>1, <2>2, <1>types DEF Goto, TypeOK
    <3>5. TaskFollows' /\ OneActiveTask'
      BY <2>1, <3>4 DEF IInv, TaskFollows, OneActiveTask, Active
    <3>6. \A o \in Builds : Underway(o)' <=> Underway(o)
      BY <2>1, <3>4 DEF Underway
    <3>7. AloneOwnsTmp'
      <4> SUFFICES ASSUME NEW x \in Builds, alone'[x], Underway(x)'
                   PROVE  /\ \A o \in Builds : Underway(o)' => o = x
                          /\ tmp' # None /\ tmp'["keyword"] = ver'[x]
                          /\ tmp'["vector"] = IF pc'[x] = "swap" THEN ver'[x] ELSE None
        BY DEF AloneOwnsTmp
      <4>1. /\ \A o \in Builds : Underway(o) => o = x
            /\ tmp # None /\ tmp["keyword"] = ver[x]
        BY <3>4, <3>6 DEF IInv, AloneOwnsTmp
      <4>2. x = b
        BY <2>1, <4>1
      <4> QED BY <3>2, <3>4, <3>6, <4>1, <4>2, CaseIndexAssumption DEF CaseIndexAssumption, Found
    <3> QED BY <3>3, <3>4, <3>5, <3>6, <3>7 DEF IInv, DocsScanned
  <2>3. CASE Finish(b, FALSE) /\ UNCHANGED <<tmp, alone>>
    <3>1. stale' \in BOOLEAN /\ tmp' \in Dirs \cup {None} /\ final' \in Dirs \cup {None}
      BY <2>1, <2>3, <1>types DEF TypeOK
    <3> QED BY <2>1, <2>3, <3>1, FinishInv
  <2> QED BY <1>6, <2>2, <2>3 DEF CreateTable
<1>7. ASSUME NEW b \in Builds, Swap(b) PROVE IInv'
  <2>1. Underway(b) /\ UNCHANGED <<docs, alone, upc, boundVars>>
    BY <1>7 DEF Swap, Underway
  <2>2. \E r \in BOOLEAN : Finish(b, r)
    BY <1>7 DEF Swap
  <2>3. stale' \in BOOLEAN /\ tmp' \in Dirs \cup {None} /\ final' \in Dirs \cup {None}
    BY <1>7, <1>types DEF Swap, TypeOK, Dirs, Parts
  <2> QED BY <2>1, <2>2, <2>3, FinishInv
<1>8. CASE Crash
  <2>1. tmp' \in Dirs \cup {None} /\ final' \in Dirs \cup {None}
    BY <1>8, <1>types, DirTypes DEF Crash, TypeOK
  <2>2. TypeOK'
    <3>1. crashes' \in 0..MaxCrashes
      BY <1>8, <1>types, CaseIndexAssumption DEF CaseIndexAssumption, Crash, TypeOK
    <3> QED BY <1>8, <1>types, <2>1, <3>1 DEF Crash, TypeOK
  <2>3. \A b \in Builds : ~Underway(b)' /\ ~Active(b)' /\ pc'[b] = "idle"
    BY <1>8 DEF Crash, Underway, Active
  <2> QED BY <2>2, <2>3 DEF IInv, TaskFollows, OneActiveTask, AloneOwnsTmp, DocsScanned
<1>9. CASE UNCHANGED vars
  <2>1. TypeOK'
    BY <1>9, <1>types DEF vars, diskVars, buildVars, boundVars, TypeOK
  <2>2. TaskFollows' /\ OneActiveTask' /\ AloneOwnsTmp' /\ DocsScanned'
    BY <1>9 DEF vars, diskVars, buildVars, IInv, TaskFollows, OneActiveTask, AloneOwnsTmp,
                DocsScanned, Active, Underway
  <2> QED BY <2>1, <2>2 DEF IInv
<1> QED
  BY <1>1, <1>2, <1>3, <1>4, <1>5, <1>6, <1>7, <1>8, <1>9 DEF Next, BuildStep

\* The inductive invariant holds in every reachable state.
THEOREM InductiveInvariant == Spec => []IInv
  BY InitInv, StepInv, PTL DEF Spec

\* At most one index task of a library is queued or running (router.py:153).
THEOREM TasksExclusive == Spec => []OneActiveTask
<1>1. IInv => OneActiveTask
  BY DEF IInv
<1> QED BY <1>1, InductiveInvariant, PTL

\* The index that a build publishes while nobody else builds has all its parts,
\* made from the documents the build scanned (builder.py:143-253).
THEOREM AloneComplete == Spec => AlonePublishesComplete
<1>1. ASSUME IInv, NEW b \in Builds, Swap(b), alone[b] PROVE final' = Complete(ver[b])
  <2>1. tmp \in Dirs /\ tmp["keyword"] = ver[b] /\ tmp["vector"] = ver[b] /\ tmp # None
    BY <1>1 DEF IInv, TypeOK, AloneOwnsTmp, Underway, Swap
  <2>2. final' = [tmp EXCEPT !["manifest"] = ver[b]]
    BY <1>1, <2>1 DEF Swap
  <2> QED BY <2>1, <2>2 DEF Dirs, Parts, Complete
<1>2. IInv => (\A b \in Builds : Swap(b) /\ alone[b] => final' = Complete(ver[b]))
  BY <1>1
<1> QED BY <1>2, InductiveInvariant, PTL DEF AlonePublishesComplete
=============================================================================
