----------------------- MODULE IngestPipeline_proofs ------------------------
(* auto_ingest keeps its checkpoints, its snapshot and the log in step, and *)
(* implements WikiTransaction, for any jobs, sources, pages, texts, blocks, *)
(* retries, pauses, edits and crashes.                                      *)
EXTENDS IngestPipeline, FiniteSetTheorems, TLAPS

\* What the users and the queue do: no run is touched.
External ==
    \/ \E j \in Jobs : Enqueue(j) \/ PauseJob(j) \/ ResumeJob(j)
    \/ \E s \in Sources : EditSource(s)

\* Where nothing is said of the locals of a run.
Quiet == {"idle", "start", "open", "read", "cache", "load", "missing", "raise", "return"}

-----------------------------------------------------------------------------
(* What a step leaves alone.                                                *)

LEMMA Frame ==
    ASSUME Next
    PROVE  /\ cp' # cp => CheckCache \/ SaveCheckpoint \/ ParseBlocks \/ RemoveCheckpoint \/ Crash
           /\ pages' # pages => WritePage \/ WriteRaises \/ RestorePage \/ Crash
           /\ step' # step => SetStep \/ Return
           /\ cache' # cache => UpdateCache
           /\ crashes' # crashes => Crash
<1> USE DEF Goto, OnlyPc, Forget, rowVars, diskVars, localVars, boundVars
<1>1. CASE External
  BY <1>1 DEF External, Enqueue, PauseJob, ResumeJob, EditSource
<1>2. CASE Crash
  BY <1>2 DEF Crash
<1>3. CASE Work
  <2>1. cp' # cp => CheckCache \/ SaveCheckpoint \/ ParseBlocks \/ RemoveCheckpoint
    BY <1>3 DEF Work, TakeJob, StartExecute, EnsureNotPaused, OpenSource, ReadSource, LoadCheckpoint,
        ResumeAnalysis, Analyze, ResumeGeneration, Generate, SetStep, WritePage, UpdateCache,
        StageRaises, WriteRaises, RestorePage, Return, RetryOrFail
  <2>2. pages' # pages => WritePage \/ WriteRaises \/ RestorePage
    BY <1>3 DEF Work, TakeJob, StartExecute, EnsureNotPaused, OpenSource, ReadSource, CheckCache,
        LoadCheckpoint, ResumeAnalysis, Analyze, ResumeGeneration, Generate, SaveCheckpoint, SetStep,
        ParseBlocks, UpdateCache, RemoveCheckpoint, StageRaises, Return, RetryOrFail
  <2>3. step' # step => SetStep \/ Return
    BY <1>3 DEF Work, TakeJob, StartExecute, EnsureNotPaused, OpenSource, ReadSource, CheckCache,
        LoadCheckpoint, ResumeAnalysis, Analyze, ResumeGeneration, Generate, SaveCheckpoint,
        ParseBlocks, WritePage, UpdateCache, RemoveCheckpoint, StageRaises, WriteRaises, RestorePage,
        RetryOrFail
  <2>4. cache' # cache => UpdateCache
    BY <1>3 DEF Work, TakeJob, StartExecute, EnsureNotPaused, OpenSource, ReadSource, CheckCache,
        LoadCheckpoint, ResumeAnalysis, Analyze, ResumeGeneration, Generate, SaveCheckpoint, SetStep,
        ParseBlocks, WritePage, RemoveCheckpoint, StageRaises, WriteRaises, RestorePage, Return,
        RetryOrFail
  <2>5. crashes' = crashes
    BY <1>3 DEF Work, TakeJob, StartExecute, EnsureNotPaused, OpenSource, ReadSource, CheckCache,
        LoadCheckpoint, ResumeAnalysis, Analyze, ResumeGeneration, Generate, SaveCheckpoint, SetStep,
        ParseBlocks, WritePage, UpdateCache, RemoveCheckpoint, StageRaises, WriteRaises, RestorePage,
        Return, RetryOrFail
  <2> QED BY <2>1, <2>2, <2>3, <2>4, <2>5
<1> QED BY <1>1, <1>2, <1>3 DEF Next, External

LEMMA QuietLocals == pc' \in Quiet => LocalsFollow' /\ SnapshotKept'
  BY DEF Quiet, LocalsFollow, SnapshotKept, Unsettled

-----------------------------------------------------------------------------

LEMMA InitInv == Init => IInv
<1> SUFFICES ASSUME Init PROVE IInv
  OBVIOUS
<1>1. TypeOK
  <2>1. NoCheckpoint \in Checkpoints
    BY DEF NoCheckpoint, Checkpoints
  <2>2. DOMAIN snap = {}
    BY DEF Init, NoSnapshot
  <2>3. /\ 0 \in 0..MaxRetries /\ 0 \in 0..MaxCrashes /\ 0 \in 0..MaxEdits /\ 0 \in 0..MaxPauses
    BY PipelineAssumption
  <2>4. pages \in [Pages -> Seq(Gens)] /\ cp \in [Sources -> Checkpoints]
    BY <2>1 DEF Init
  <2>5. status \in [Jobs -> Statuses] /\ pc \in WorkerPcs
    BY DEF Init, Statuses, WorkerPcs
  <2>6. /\ retry \in [Jobs -> 0..MaxRetries] /\ step \in [Jobs -> 0..3]
        /\ cache \in [Sources -> Versions \cup {None}]
    BY <2>3 DEF Init
  <2>9. content \in [Sources -> Versions \cup {None}] /\ torn \in BOOLEAN
    BY DEF Init
  <2>7. /\ text \in Versions \cup {None} /\ ana \in Versions \cup {None}
        /\ gen \in Gens \cup {None} /\ eff \in 0..3 /\ todo \subseteq Pages /\ job \in Jobs
    BY DEF Init
  <2>8. crashes \in 0..MaxCrashes /\ edits \in 0..MaxEdits /\ pauses \in 0..MaxPauses
    BY <2>3 DEF Init
  <2> QED BY <2>2, <2>4, <2>5, <2>6, <2>7, <2>8, <2>9 DEF TypeOK
<1>2. RowsKnown /\ CheckpointBehindRow /\ FreshJobAccepted
  BY <1>1 DEF Init, RowsKnown, CheckpointBehindRow, FreshJobAccepted, Active, WorkerPcs
<1>3. CheckpointsWhole /\ LocalsFollow /\ SnapshotKept
  BY DEF Init, CheckpointsWhole, LocalsFollow, SnapshotKept, NoCheckpoint, Unsettled
<1>4. pages[Log] = <<>> /\ Wiki[Log] = <<>>
  BY PipelineAssumption DEF Init, Wiki, Unsettled
<1>5. LogSettled
  BY <1>4 DEF Init, LogSettled, EntriesApart, LoggedBehind, GenerationsNew, Logged, NoCheckpoint
<1>6. LogOnce
  <2>1. \A j \in Jobs : Entries(j) = {}
    BY <1>4 DEF Entries
  <2> QED BY <2>1, FS_EmptySet DEF LogOnce
<1> QED BY <1>1, <1>2, <1>3, <1>5, <1>6 DEF IInv

-----------------------------------------------------------------------------
(* The types.                                                               *)

LEMMA TypeStep ==
    ASSUME TypeOK, RowsKnown, LocalsFollow, SnapshotKept, Next
    PROVE  TypeOK'
<1> USE DEF TypeOK
<1>s. src \in Sources /\ cp[src] \in Checkpoints /\ NoCheckpoint \in Checkpoints
  BY PipelineAssumption DEF src, NoCheckpoint, Checkpoints
<1>f. Forget => /\ text' = None /\ ana' = None /\ gen' = None /\ eff' = 0
                /\ DOMAIN snap' = {} /\ todo' = {}
  BY DEF Forget, NoSnapshot
<1>e. \A p \in Pages : [pages EXCEPT ![p] = <<>>] \in [Pages -> Seq(Gens)]
  OBVIOUS
<1> USE DEF Goto, OnlyPc, WorkerPcs, rowVars, diskVars, localVars, boundVars
<1>1. CASE External
  <2>1. CASE \E j \in Jobs : Enqueue(j) \/ PauseJob(j) \/ ResumeJob(j)
    <3>1. status' \in [Jobs -> Statuses]
      BY <2>1 DEF Enqueue, PauseJob, ResumeJob, Statuses
    <3>2. pauses' \in 0..MaxPauses
      BY <2>1, PipelineAssumption DEF Enqueue, PauseJob, ResumeJob
    <3> QED BY <2>1, <3>1, <3>2 DEF Enqueue, PauseJob, ResumeJob
  <2>2. CASE \E s \in Sources : EditSource(s)
    BY <2>2, PipelineAssumption DEF EditSource
  <2> QED BY <1>1, <2>1, <2>2 DEF External
<1>2. CASE TakeJob \/ StartExecute \/ OpenSource
  BY <1>2 DEF TakeJob, StartExecute, OpenSource, Statuses
<1>3. CASE EnsureNotPaused
  BY <1>3, <1>f DEF EnsureNotPaused
<1>4. CASE ReadSource
  BY <1>4, <1>s DEF ReadSource
<1>5. CASE CheckCache
  BY <1>5, <1>s DEF CheckCache
<1>6. CASE LoadCheckpoint
  BY <1>6, <1>s DEF LoadCheckpoint, Checkpoints, Larger
<1>7. CASE ResumeAnalysis \/ Analyze \/ ResumeGeneration \/ StageRaises
  BY <1>7 DEF ResumeAnalysis, Analyze, ResumeGeneration, StageRaises, RowsKnown
<1>8. CASE Generate
  <2>1. PICK B \in BlockSets : gen' = [job |-> job, ana |-> ana, text |-> text, blocks |-> B]
    BY <1>8 DEF Generate
  <2>2. gen' \in Gens
    BY <1>8, <2>1, PipelineAssumption DEF Generate, Gens, RowsKnown, LocalsFollow
  <2> QED BY <1>8, <2>2 DEF Generate
<1>9. CASE SaveCheckpoint
  <2>1. /\ [step |-> 1, ana |-> ana, gen |-> None] \in Checkpoints
        /\ [step |-> 2, ana |-> ana, gen |-> gen] \in Checkpoints
    BY DEF Checkpoints
  <2> QED BY <1>9, <1>s, <2>1 DEF SaveCheckpoint
<1>10. CASE SetStep
  BY <1>10 DEF SetStep
<1>11. CASE ParseBlocks
  <2>1. gen \in Gens
    BY <1>11 DEF ParseBlocks, LocalsFollow
  <2>2. gen.blocks \subseteq Pages
    BY <2>1 DEF Gens
  <2> QED BY <1>11, <2>2, <1>s DEF ParseBlocks
<1>12. CASE WritePage
  <2>1. gen \in Gens
    BY <1>12 DEF WritePage, LocalsFollow, Unsettled
  <2>2. \A p \in Pages : <<gen>> \in Seq(Gens) /\ Append(pages[p], gen) \in Seq(Gens)
    BY <2>1
  <2>3. PICK p \in todo : pages' = [pages EXCEPT ![p] = <<gen>>]
                        \/ pages' = [pages EXCEPT ![p] = Append(pages[p], gen)]
    BY <1>12 DEF WritePage
  <2>4. PICK q \in Seq(Gens) : pages' = [pages EXCEPT ![p] = q]
    BY <2>2, <2>3
  <2>5. pages' \in [Pages -> Seq(Gens)]
    BY <2>4
  <2> QED BY <1>12, <2>5 DEF WritePage
<1>13. CASE UpdateCache
  BY <1>13, <1>s DEF UpdateCache
<1>14. CASE RemoveCheckpoint
  BY <1>14, <1>s DEF RemoveCheckpoint
<1>15. CASE WriteRaises
  BY <1>15, <1>e DEF WriteRaises
<1>16. CASE RestorePage
  BY <1>16, PipelineAssumption DEF RestorePage, SnapshotKept, Unsettled
<1>17. CASE Return
  BY <1>17, <1>f DEF Return, Statuses
<1>18. CASE RetryOrFail
  <2>1. status' \in [Jobs -> Statuses]
    BY <1>18 DEF RetryOrFail, Statuses
  <2>2. retry' \in [Jobs -> 0..MaxRetries]
    <3>1. MaxRetries \in Nat /\ retry[job] \in 0..MaxRetries
      BY PipelineAssumption
    <3>2. retry[job] < MaxRetries => retry[job] + 1 \in 0..MaxRetries
      BY <3>1
    <3> QED BY <1>18, <3>2 DEF RetryOrFail
  <2> QED BY <1>18, <1>f, <2>1, <2>2 DEF RetryOrFail
<1>19. CASE Crash
  <2>1. crashes' \in 0..MaxCrashes
    BY <1>19, PipelineAssumption DEF Crash
  <2>2. cp' \in [Sources -> Checkpoints] /\ pages' \in [Pages -> Seq(Gens)]
    BY <1>19, <1>s, <1>e DEF Crash
  <2>3. /\ cache' \in [Sources -> Versions \cup {None}] /\ torn' \in BOOLEAN
        /\ UNCHANGED <<status, retry, step, content, job, edits, pauses>> /\ pc' = "idle" /\ Forget
    BY <1>19 DEF Crash
  <2> QED BY <1>f, <2>1, <2>2, <2>3
<1> QED BY <1>1, <1>2, <1>3, <1>4, <1>5, <1>6, <1>7, <1>8, <1>9, <1>10, <1>11, <1>12, <1>13, <1>14,
           <1>15, <1>16, <1>17, <1>18, <1>19 DEF Next, Work, External

-----------------------------------------------------------------------------
(* The rows, the checkpoints, the locals and the pages of a run.            *)

LEMMA RowsStep ==
    ASSUME TypeOK, TypeOK', RowsKnown, Next
    PROVE  RowsKnown'
<1> USE DEF Goto, OnlyPc, Forget, rowVars, diskVars, localVars, boundVars, RowsKnown
<1>r. \A j \in Jobs : status'[j] = "none" => step'[j] = 0
  <2>1. CASE External
    BY <2>1 DEF External, Enqueue, PauseJob, ResumeJob, EditSource, TypeOK
  <2>2. CASE StartExecute \/ Return \/ RetryOrFail \/ SetStep
    BY <2>2 DEF StartExecute, Return, RetryOrFail, SetStep, TypeOK, Active
  <2>3. CASE UNCHANGED <<status, step>>
    BY <2>3
  <2> QED BY <2>1, <2>2, <2>3 DEF Next, Work, External, TakeJob, EnsureNotPaused, OpenSource,
        ReadSource, CheckCache, LoadCheckpoint, ResumeAnalysis, Analyze, ResumeGeneration, Generate,
        SaveCheckpoint, ParseBlocks, WritePage, UpdateCache, RemoveCheckpoint, StageRaises,
        WriteRaises, RestorePage, Crash
<1>a. pc' # "idle" => status'[job'] \in Active
  <2>1. CASE External
    BY <2>1 DEF External, Enqueue, PauseJob, ResumeJob, EditSource, TypeOK, Active
  <2>2. CASE TakeJob \/ StartExecute \/ Return \/ RetryOrFail
    BY <2>2 DEF TakeJob, StartExecute, Return, RetryOrFail, TypeOK, Active
  <2>3. CASE UNCHANGED <<status, job>> /\ (pc = "idle" => pc' = "idle")
    BY <2>3
  <2> QED BY <2>1, <2>2, <2>3 DEF Next, Work, External, EnsureNotPaused, OpenSource, ReadSource,
        CheckCache, LoadCheckpoint, ResumeAnalysis, Analyze, ResumeGeneration, Generate,
        SaveCheckpoint, SetStep, ParseBlocks, WritePage, UpdateCache, RemoveCheckpoint, StageRaises,
        WriteRaises, RestorePage, Crash
<1> DEFINE Reading == {"idle", "start", "open", "read", "clean", "restore", "missing", "raise", "return"}
<1>t. pc' \notin Reading => text' \in Versions
  <2>1. CASE ReadSource
    BY <2>1 DEF ReadSource, TypeOK
  <2>2. CASE pc' \in Reading
    BY <2>2
  <2>3. CASE UNCHANGED text /\ pc \notin Reading
    BY <2>3 DEF TypeOK
  <2>4. CASE UNCHANGED <<text, pc>>
    BY <2>4 DEF TypeOK
  <2> QED BY <2>1, <2>2, <2>3, <2>4 DEF Next, Work, External, Enqueue, PauseJob, ResumeJob, EditSource,
        TakeJob, StartExecute, EnsureNotPaused, OpenSource, CheckCache, LoadCheckpoint,
        ResumeAnalysis, Analyze, ResumeGeneration, Generate, SaveCheckpoint, SetStep, ParseBlocks,
        WritePage, UpdateCache, RemoveCheckpoint, StageRaises, WriteRaises, RestorePage, Return,
        RetryOrFail, Crash
<1> QED BY <1>r, <1>a, <1>t

LEMMA CheckpointsStep ==
    ASSUME TypeOK, CheckpointsWhole, LocalsFollow, Next
    PROVE  CheckpointsWhole'
<1>s. src \in Sources
  BY PipelineAssumption DEF src, TypeOK
<1>1. CASE SaveCheckpoint
  <2>1. CASE pc = "saveAna"
    BY <1>1, <1>s, <2>1 DEF SaveCheckpoint, CheckpointsWhole, LocalsFollow, TypeOK
  <2>2. CASE pc = "saveGen"
    BY <1>1, <1>s, <2>2 DEF SaveCheckpoint, CheckpointsWhole, LocalsFollow, TypeOK, src
  <2> QED BY <1>1, <2>1, <2>2 DEF SaveCheckpoint
<1>2. CASE cp' = [cp EXCEPT ![src] = NoCheckpoint]
  BY <1>2, <1>s DEF CheckpointsWhole, NoCheckpoint, TypeOK
<1>3. CASE cp' = cp
  BY <1>3 DEF CheckpointsWhole
<1> QED BY <1>1, <1>2, <1>3, Frame DEF CheckCache, ParseBlocks, RemoveCheckpoint, Crash, diskVars

LEMMA LocalsStep ==
    ASSUME TypeOK, CheckpointsWhole, LocalsFollow, SnapshotKept, RowsKnown, Next
    PROVE  LocalsFollow'
<1>s. src \in Sources
  BY PipelineAssumption DEF src, TypeOK
<1> USE DEF Goto, OnlyPc, rowVars, diskVars, localVars, boundVars
<1>1. CASE External
  <2>1. UNCHANGED <<step, cp, pc, job, ana, gen, eff>>
    BY <1>1 DEF External, Enqueue, PauseJob, ResumeJob, EditSource
  <2> QED BY <2>1 DEF LocalsFollow, Unsettled, src
<1>2. CASE pc' \in Quiet
  BY <1>2, QuietLocals
<1>3. CASE LoadCheckpoint
  BY <1>3 DEF LoadCheckpoint, LocalsFollow, Unsettled, src
<1>t. eff \in 0..3
  BY DEF TypeOK
<1>r. step[job] \in 0..3 /\ cp[src].step \in 0..2
  BY <1>s DEF TypeOK, Checkpoints
<1>4. CASE ResumeAnalysis
  <2>1. CASE ana = None
    BY <1>2, <1>4, <2>1 DEF ResumeAnalysis, Quiet
  <2>2. CASE ana # None
    <3>1. /\ pc = "analyze" /\ pc' = "generate" /\ eff' = eff /\ eff >= 1
          /\ UNCHANGED <<step, cp, job, ana, gen>>
      BY <1>4, <2>2 DEF ResumeAnalysis
    <3>2. ana = cp[src].ana /\ gen = cp[src].gen /\ eff = Larger(step[job], cp[src].step)
      BY <3>1 DEF LocalsFollow
    <3>3. eff < 2 => step[job] < 2
      BY <1>r, <3>2 DEF Larger
    <3> QED BY <2>2, <3>1, <3>2, <3>3 DEF LocalsFollow, Unsettled, src
  <2> QED BY <2>1, <2>2
<1>5. CASE Analyze
  <2>1. /\ pc = "analyze" /\ pc' = "saveAna" /\ ana' = text /\ eff < 1
        /\ UNCHANGED <<step, cp, job, gen, eff>>
    BY <1>5 DEF Analyze
  <2>2. text # None
    BY <2>1, PipelineAssumption DEF RowsKnown, WorkerPcs
  <2>3. step[job] < 1
    BY <1>r, <2>1 DEF LocalsFollow, Larger
  <2> QED BY <2>1, <2>2, <2>3 DEF LocalsFollow, Unsettled
<1>9. CASE ResumeGeneration
  <2>1. CASE gen = None
    BY <1>2, <1>9, <2>1 DEF ResumeGeneration, Quiet
  <2>2. CASE gen # None
    <3>1. pc = "generate" /\ pc' = "blocks" /\ eff >= 2 /\ UNCHANGED <<step, cp, job, ana, gen, eff>>
      BY <1>9, <2>2 DEF ResumeGeneration
    <3>2. gen = cp[src].gen
      BY <3>1, <1>t DEF LocalsFollow
    <3> QED BY <2>2, <3>1, <3>2 DEF LocalsFollow, Unsettled, src
  <2> QED BY <2>1, <2>2
<1>10. CASE Generate
  <2>1. PICK B \in BlockSets : gen' = [job |-> job, ana |-> ana, text |-> text, blocks |-> B]
    BY <1>10 DEF Generate
  <2>2. pc = "generate" /\ pc' = "saveGen" /\ eff < 2 /\ UNCHANGED <<step, cp, job, ana, eff>>
    BY <1>10 DEF Generate
  <2>3. ana # None /\ step[job] < 2
    BY <2>2 DEF LocalsFollow
  <2>4. gen' \in Gens
    BY <2>1, <2>2, <2>3, PipelineAssumption DEF Gens, RowsKnown, WorkerPcs, TypeOK
  <2> QED BY <2>1, <2>2, <2>3, <2>4, NoneIsNoGen DEF LocalsFollow, Unsettled
<1>6. CASE SaveCheckpoint
  BY <1>6, <1>s DEF SaveCheckpoint, LocalsFollow, Unsettled, src, TypeOK
<1>7. CASE SetStep
  <2>1. /\ UNCHANGED <<cp, job, ana, gen, eff>> /\ pc \in {"stepAna", "stepGen", "stepWrite"}
        /\ pc = "stepAna" => pc' = "generate" /\ step'[job] = 1
        /\ pc = "stepGen" => pc' = "blocks"
        /\ pc = "stepWrite" => pc' = "finalize"
    BY <1>7 DEF SetStep, TypeOK
  <2>2. CASE pc = "stepAna"
    BY <2>1, <2>2, <1>t, <1>r DEF LocalsFollow, Unsettled, src, CheckpointsWhole, Larger
  <2>3. CASE pc # "stepAna"
    BY <2>1, <2>3 DEF LocalsFollow, Unsettled, src
  <2> QED BY <2>2, <2>3
<1>8. CASE ParseBlocks \/ WritePage \/ UpdateCache \/ WriteRaises \/ RestorePage
  BY <1>8, <1>s DEF ParseBlocks, WritePage, UpdateCache, WriteRaises, RestorePage, LocalsFollow, Unsettled, src, Quiet
<1> QED BY <1>1, <1>2, <1>3, <1>4, <1>5, <1>6, <1>7, <1>8, <1>9, <1>10 DEF Next, Work, External, TakeJob,
        StartExecute, EnsureNotPaused, OpenSource, ReadSource, CheckCache, RemoveCheckpoint,
        StageRaises, Return, RetryOrFail, Crash, Quiet

LEMMA SnapshotStep ==
    ASSUME TypeOK, LocalsFollow, SnapshotKept, Next
    PROVE  SnapshotKept'
<1> USE DEF Goto, OnlyPc, rowVars, diskVars, localVars, boundVars
<1>1. CASE External
  <2>1. UNCHANGED <<pages, pc, gen, snap, todo>>
    BY <1>1 DEF External, Enqueue, PauseJob, ResumeJob, EditSource
  <2> QED BY <2>1 DEF SnapshotKept, Unsettled, T!Results
<1>2. CASE pc' \in Quiet \cup {"analyze", "saveAna", "stepAna", "generate", "saveGen", "stepGen", "blocks", "clean"}
  BY <1>2 DEF SnapshotKept, Unsettled, Quiet
<1>3. CASE ParseBlocks
  BY <1>3 DEF ParseBlocks, SnapshotKept, Unsettled
<1>4. CASE WritePage
  <2>g. gen \in Gens /\ gen.blocks \subseteq Pages
    BY <1>4 DEF WritePage, LocalsFollow, TypeOK, Unsettled, Gens
  <2>1. PICK p \in todo :
          /\ \/ p = Log /\ pages' = [pages EXCEPT ![p] = Append(pages[p], gen)]
             \/ p # Log /\ pages' = [pages EXCEPT ![p] = <<gen>>]
             \/ p # Log /\ pages' = [pages EXCEPT ![p] = Append(pages[p], gen)]
          /\ todo' = todo \ {p}
          /\ pc' = IF todo = {p} THEN "stepWrite" ELSE "write"
    BY <1>4 DEF WritePage
  <2>2. /\ pages[p] = snap[p] /\ p \in Pages /\ UNCHANGED <<gen, snap>>
        /\ pc = "write" /\ todo \subseteq gen.blocks
    BY <1>4, <2>g DEF WritePage, SnapshotKept, Unsettled
  <2>3. pages'[p] \in T!Results(p, snap[p], gen)
    BY <2>1, <2>2 DEF T!Results, TypeOK
  <2>4. \A q \in Pages \ {p} : pages'[q] = pages[q]
    BY <2>1 DEF TypeOK
  <2> QED BY <2>g, <2>1, <2>2, <2>3, <2>4 DEF SnapshotKept, Unsettled, T!Results
<1>5. CASE SetStep
  BY <1>5 DEF SetStep, SnapshotKept, Unsettled, T!Results
<1>6. CASE WriteRaises
  <2>g. gen \in Gens /\ gen.blocks \subseteq Pages
    BY <1>6 DEF WriteRaises, LocalsFollow, TypeOK, Unsettled, Gens
  <2>1. /\ UNCHANGED <<gen, snap>> /\ todo' = gen.blocks /\ pc' = "restore"
        /\ DOMAIN snap = gen.blocks /\ gen.blocks # {}
    BY <1>6 DEF WriteRaises, SnapshotKept, Unsettled
  <2>2. \A p \in gen.blocks : pages[p] = snap[p] \/ pages[p] \in T!Results(p, snap[p], gen)
    BY <1>6 DEF WriteRaises, SnapshotKept
  <2>3. \A p \in Pages : pages'[p] = pages[p] \/ pages'[p] = <<>>
    BY <1>6 DEF WriteRaises, TypeOK
  <2> QED BY <2>g, <2>1, <2>2, <2>3 DEF SnapshotKept, Unsettled, T!Results
<1>7. CASE RestorePage
  <2>g. gen \in Gens /\ gen.blocks \subseteq Pages
    BY <1>7 DEF RestorePage, LocalsFollow, TypeOK, Unsettled, Gens
  <2>1. PICK p \in todo : /\ pages' = [pages EXCEPT ![p] = snap[p]] /\ todo' = todo \ {p}
                          /\ pc' \in {"raise", "restore"}
    BY <1>7 DEF RestorePage
  <2>2. /\ UNCHANGED <<gen, snap>> /\ pc = "restore" /\ todo \subseteq gen.blocks
        /\ DOMAIN snap = gen.blocks /\ gen.blocks # {}
    BY <1>7 DEF RestorePage, SnapshotKept, Unsettled
  <2>3. pages'[p] = snap[p] /\ \A q \in Pages \ {p} : pages'[q] = pages[q]
    BY <2>1, <2>2, <2>g DEF TypeOK
  <2> QED BY <2>g, <2>1, <2>2, <2>3 DEF SnapshotKept, Unsettled, T!Results
<1> QED BY <1>1, <1>2, <1>3, <1>4, <1>5, <1>6, <1>7 DEF Next, Work, External, TakeJob,
        StartExecute, EnsureNotPaused, OpenSource, ReadSource, CheckCache, LoadCheckpoint,
        ResumeAnalysis, Analyze, ResumeGeneration, Generate, SaveCheckpoint, UpdateCache,
        RemoveCheckpoint, StageRaises, Return, RetryOrFail, Crash, Quiet

-----------------------------------------------------------------------------
(* The wiki of WikiTransaction and the log.                                 *)

\* The pages of a generation are pages.
LEMMA BlocksArePages ==
    ASSUME TypeOK, LocalsFollow, SnapshotKept, Unsettled
    PROVE  /\ gen \in Gens /\ gen.blocks # {} /\ gen.blocks \subseteq Pages
           /\ DOMAIN snap = gen.blocks /\ todo \subseteq gen.blocks /\ src \in Sources
  BY PipelineAssumption DEF TypeOK, LocalsFollow, SnapshotKept, Gens, src

\* Nothing a run does to its pages can be seen before the cache is updated.
LEMMA WikiKept ==
    ASSUME TypeOK, LocalsFollow, SnapshotKept, Next, ~UpdateCache, ~Crash
    PROVE  Wiki' = Wiki
<1> SUFFICES ASSUME NEW p \in Pages
             PROVE  (IF Unsettled /\ p \in DOMAIN snap THEN snap[p] ELSE pages[p])'
                    = IF Unsettled /\ p \in DOMAIN snap THEN snap[p] ELSE pages[p]
  BY DEF Wiki
<1> USE DEF Goto, OnlyPc, rowVars, diskVars, localVars, boundVars
<1>1. CASE UNCHANGED <<pages, snap>> /\ (Unsettled <=> Unsettled')
  BY <1>1
<1>2. CASE UNCHANGED pages /\ ~Unsettled /\ ~Unsettled'
  BY <1>2
<1>3. CASE ParseBlocks
  BY <1>3 DEF ParseBlocks, Unsettled
<1>4. CASE WritePage \/ WriteRaises
  <2>1. Unsettled /\ Unsettled' /\ UNCHANGED snap /\ \A q \in Pages \ todo : pages'[q] = pages[q]
    BY <1>4 DEF WritePage, WriteRaises, Unsettled, TypeOK
  <2>2. todo \subseteq DOMAIN snap
    BY <2>1, BlocksArePages
  <2> QED BY <2>1, <2>2
<1>5. CASE RestorePage
  <2>1. PICK q \in todo : /\ pages' = [pages EXCEPT ![q] = snap[q]]
                          /\ pc' = IF todo = {q} THEN "raise" ELSE "restore"
    BY <1>5 DEF RestorePage
  <2>2. Unsettled /\ UNCHANGED snap /\ (Unsettled' <=> todo # {q})
    BY <1>5, <2>1 DEF RestorePage, Unsettled
  <2>3. todo \subseteq DOMAIN snap /\ DOMAIN snap = gen.blocks
    BY <2>2, BlocksArePages
  <2>4. \A r \in gen.blocks \ todo : pages[r] = snap[r]
    BY <1>5 DEF RestorePage, SnapshotKept
  <2>5. pages'[q] = snap[q] /\ \A r \in Pages \ {q} : pages'[r] = pages[r]
    BY <2>1, <2>2, BlocksArePages DEF TypeOK
  <2> QED BY <2>2, <2>3, <2>4, <2>5
<1>6. CASE External
  BY <1>6 DEF External, Enqueue, PauseJob, ResumeJob, EditSource, Unsettled
<1>7. CASE SetStep
  BY <1>7 DEF SetStep, Unsettled
<1>8. CASE ~External /\ ~ParseBlocks /\ ~WritePage /\ ~WriteRaises /\ ~RestorePage /\ ~SetStep
  <2>1. UNCHANGED pages
    BY <1>8, Frame
  <2>2. ~Unsettled /\ ~Unsettled'
    BY <1>8 DEF Next, Work, External, TakeJob, StartExecute, EnsureNotPaused, OpenSource, ReadSource,
        CheckCache, LoadCheckpoint, ResumeAnalysis, Analyze, ResumeGeneration, Generate,
        SaveCheckpoint, RemoveCheckpoint, StageRaises, Return, RetryOrFail, Unsettled
  <2> QED BY <1>2, <2>1, <2>2
<1> QED BY <1>3, <1>4, <1>5, <1>6, <1>7, <1>8

\* When it is, the whole generation appears.
LEMMA WikiPublished ==
    ASSUME TypeOK, LocalsFollow, SnapshotKept, UpdateCache
    PROVE  \A p \in Pages : IF p \in gen.blocks THEN Wiki'[p] \in T!Results(p, Wiki[p], gen)
                                               ELSE Wiki'[p] = Wiki[p]
<1> SUFFICES ASSUME NEW p \in Pages
             PROVE  IF p \in gen.blocks THEN Wiki'[p] \in T!Results(p, Wiki[p], gen)
                                        ELSE Wiki'[p] = Wiki[p]
  OBVIOUS
<1>1. Unsettled /\ ~Unsettled' /\ pages' = pages
  BY DEF UpdateCache, Goto, Unsettled
<1>2. DOMAIN snap = gen.blocks
  BY <1>1, BlocksArePages
<1>3. p \in gen.blocks => pages[p] \in T!Results(p, snap[p], gen)
  BY DEF UpdateCache, SnapshotKept
<1>4. Wiki'[p] = pages[p] /\ Wiki[p] = IF p \in gen.blocks THEN snap[p] ELSE pages[p]
  BY <1>1, <1>2 DEF Wiki
<1> QED BY <1>3, <1>4

\* A death leaves each page of a generation as it was, written, or cut.
LEMMA WikiCut ==
    ASSUME TypeOK, LocalsFollow, SnapshotKept, Crash
    PROVE  \E g \in Gens : \A p \in Pages :
              Wiki'[p] \in {Wiki[p]} \cup (IF p \in g.blocks THEN T!Results(p, Wiki[p], g) \cup {<<>>}
                                                           ELSE {})
<1>1. ~Unsettled' /\ \A p \in Pages : Wiki'[p] = pages'[p]
  BY DEF Crash, Goto, Unsettled, Wiki
<1>2. \A p \in Pages : pages'[p] # pages[p] => pages'[p] = <<>> /\ p \in todo /\ Unsettled
  BY DEF Crash, diskVars, Unsettled, TypeOK
<1>3. CASE Unsettled
  <2>1. /\ gen \in Gens /\ DOMAIN snap = gen.blocks /\ todo \subseteq gen.blocks
    BY <1>3, BlocksArePages
  <2>2. \A p \in gen.blocks :
          pages[p] = snap[p] \/ pages[p] = <<>> \/ pages[p] \in T!Results(p, snap[p], gen)
    BY <1>3 DEF SnapshotKept, Unsettled
  <2>3. \A p \in Pages : Wiki[p] = IF p \in gen.blocks THEN snap[p] ELSE pages[p]
    BY <1>3, <2>1 DEF Wiki
  <2> QED BY <1>1, <1>2, <2>1, <2>2, <2>3
<1>4. CASE ~Unsettled
  <2>1. PICK v \in Versions : TRUE
    BY PipelineAssumption
  <2>2. [job |-> job, ana |-> v, text |-> v, blocks |-> {}] \in Gens
    BY DEF Gens, TypeOK
  <2>3. \A p \in Pages : Wiki'[p] = Wiki[p]
    BY <1>1, <1>2, <1>4 DEF Wiki
  <2> QED BY <2>2, <2>3
<1> QED BY <1>3, <1>4

LEMMA LogStep ==
    ASSUME TypeOK, TypeOK', CheckpointsWhole, LocalsFollow, SnapshotKept, LogSettled, Next
    PROVE  LogSettled'
<1> SUFFICES ASSUME crashes' = 0 PROVE EntriesApart' /\ LoggedBehind' /\ GenerationsNew'
  BY DEF LogSettled
<1>c. crashes = 0 /\ ~Crash
  <2>1. crashes \in Nat
    BY PipelineAssumption DEF TypeOK
  <2>2. ~Crash
    BY <2>1 DEF Crash
  <2> QED BY <2>2, Frame
<1>i. EntriesApart /\ LoggedBehind /\ GenerationsNew
  BY <1>c DEF LogSettled
<1>s. src \in Sources
  BY PipelineAssumption DEF TypeOK, src
<1>t. \A s \in Sources : cp[s].gen # None => cp[s].gen \in Gens /\ cp[s].gen.job \in Jobs
  BY DEF TypeOK, Checkpoints, Gens
<1> USE DEF Goto, OnlyPc, rowVars, diskVars, localVars, boundVars
<1>w. ~UpdateCache => /\ EntriesApart' /\ \A k \in Jobs : Logged(k)' <=> Logged(k)
  BY <1>c, <1>i, WikiKept DEF EntriesApart, Logged
<1>1. CASE UpdateCache
  <2>1. /\ Log \in Pages /\ gen \in Gens /\ gen.job \in Jobs /\ cp[src].gen = gen /\ gen # None
        /\ pc' = "clean" /\ pc = "finalize" /\ UNCHANGED <<step, cp, job>>
    BY <1>1, BlocksArePages, PipelineAssumption DEF UpdateCache, LocalsFollow, Unsettled, Gens
  <2>2. ~Logged(gen.job) /\ step[gen.job] >= 2
    BY <1>i, <1>s, <2>1 DEF GenerationsNew
  <2>3. Wiki[Log] \in Seq(Gens)
    BY <2>1 DEF Wiki, TypeOK
  <2>4. Wiki'[Log] = Wiki[Log] \/ Wiki'[Log] = Append(Wiki[Log], gen)
    BY <1>1, <2>1, WikiPublished DEF T!Results
  <2>5. EntriesApart' /\ \A k \in Jobs : Logged(k)' => Logged(k) \/ k = gen.job
    <3>1. CASE Wiki'[Log] = Wiki[Log]
      BY <1>i, <3>1 DEF EntriesApart, Logged
    <3>2. CASE Wiki'[Log] = Append(Wiki[Log], gen)
      <4> DEFINE n == Len(Wiki[Log])
      <4>1. /\ n \in Nat /\ DOMAIN Wiki[Log] = 1..n /\ DOMAIN Wiki'[Log] = 1..(n + 1)
            /\ Wiki'[Log][n + 1] = gen /\ \A i \in 1..n : Wiki'[Log][i] = Wiki[Log][i]
        BY <2>1, <2>3, <3>2
      <4>2. \A i \in 1..n : Wiki'[Log][i].job # gen.job
        BY <2>2, <4>1 DEF Logged
      <4> HIDE DEF n
      <4>3. \A i \in 1..(n + 1) : i \in 1..n \/ i = n + 1
        BY <4>1
      <4> QED BY <1>i, <4>1, <4>2, <4>3 DEF EntriesApart, Logged
    <3> QED BY <2>4, <3>1, <3>2
  <2>6. LoggedBehind'
    BY <1>i, <2>1, <2>2, <2>5 DEF LoggedBehind
  <2>7. GenerationsNew'
    <3> SUFFICES ASSUME NEW s \in Sources, cp[s].gen # None
                 PROVE  /\ step[cp[s].gen.job] >= 2
                        /\ Logged(cp[s].gen.job)' => s = src
      BY <2>1 DEF GenerationsNew, src
    <3>1. step[cp[s].gen.job] >= 2 /\ ~Logged(cp[s].gen.job)
      BY <1>i, <2>1 DEF GenerationsNew
    <3>2. cp[s].gen.job = gen.job => s = src
      BY <1>s, <2>1 DEF CheckpointsWhole
    <3>3. \A k \in Jobs : Logged(k)' => Logged(k) \/ k = gen.job
      BY <2>5
    <3> QED BY <1>t, <2>1, <3>1, <3>2, <3>3 DEF Logged
  <2> QED BY <2>5, <2>6, <2>7
<1>2. CASE SetStep
  <2>1. /\ UNCHANGED <<cp, job>> /\ pc \notin {"clean", "finalize"} /\ pc' \notin {"clean", "stepGen"}
        /\ pc = "stepGen" => step'[job] = 2
        /\ \A k \in Jobs \ {job} : step'[k] = step[k]
        /\ ~UpdateCache
    BY <1>2 DEF SetStep, TypeOK, UpdateCache
  <2>2. step[job] >= 2 => step'[job] >= 2
    <3>1. pc = "stepAna" => step[job] < 1
      BY DEF LocalsFollow
    <3>2. pc # "stepAna" => step'[job] \in {2, 3}
      BY <1>2 DEF SetStep, TypeOK
    <3>3. step[job] \in 0..3 /\ step'[job] \in 0..3
      BY <2>1 DEF TypeOK
    <3> QED BY <3>1, <3>2, <3>3
  <2>3. LoggedBehind'
    BY <1>i, <1>w, <2>1, <2>2 DEF LoggedBehind, TypeOK
  <2>4. GenerationsNew'
    <3> SUFFICES ASSUME NEW s \in Sources, cp[s].gen # None, NEW k \in Jobs, k = cp[s].gen.job
                 PROVE  step'[k] >= 2 /\ ~Logged(k)'
      BY <1>t, <2>1 DEF GenerationsNew
    <3>1. (step[k] >= 2 \/ (pc = "stepGen" /\ job = k)) /\ ~Logged(k)
      BY <1>i, <2>1 DEF GenerationsNew
    <3> QED BY <1>w, <2>1, <2>2, <3>1
  <2> QED BY <1>w, <2>1, <2>3, <2>4
<1>3. CASE Return
  <2>1. /\ UNCHANGED <<cp, job>> /\ pc = "return" /\ pc' = "idle" /\ step'[job] = 3
        /\ \A k \in Jobs \ {job} : step'[k] = step[k]
        /\ ~UpdateCache
    BY <1>3 DEF Return, TypeOK, UpdateCache
  <2>2. LoggedBehind'
    BY <1>i, <1>w, <2>1 DEF LoggedBehind
  <2>3. GenerationsNew'
    BY <1>i, <1>t, <1>w, <2>1 DEF GenerationsNew
  <2> QED BY <1>w, <2>1, <2>2, <2>3
<1>4. CASE SaveCheckpoint
  <2>1. /\ UNCHANGED <<step, job>> /\ pc \in {"saveAna", "saveGen"} /\ ~UpdateCache
        /\ \A s \in Sources \ {src} : cp'[s] = cp[s]
        /\ pc = "saveAna" => cp'[src].gen = None
        /\ pc = "saveGen" => cp'[src].gen = gen /\ pc' = "stepGen"
    BY <1>4, <1>s DEF SaveCheckpoint, TypeOK, UpdateCache
  <2>2. pc = "saveGen" => gen.job = job /\ ~Logged(job)
    <3>1. pc = "saveGen" => gen.job = job /\ step[job] < 2
      BY DEF LocalsFollow
    <3>2. step[job] \in 0..3 /\ (Logged(job) => step[job] >= 2)
      BY <1>i DEF LoggedBehind, TypeOK
    <3> QED BY <3>1, <3>2
  <2>3. LoggedBehind'
    BY <1>i, <1>w, <2>1 DEF LoggedBehind
  <2>4. GenerationsNew'
    BY <1>i, <1>t, <1>w, <2>1, <2>2 DEF GenerationsNew, TypeOK
  <2> QED BY <1>w, <2>1, <2>3, <2>4
<1>5. CASE cp' = [cp EXCEPT ![src] = NoCheckpoint] /\ UNCHANGED <<step, job>> /\ ~UpdateCache
           /\ pc # "stepGen"
  <2>1. cp'[src].gen = None /\ \A s \in Sources \ {src} : cp'[s] = cp[s]
    BY <1>5, <1>s DEF NoCheckpoint, TypeOK
  <2>2. LoggedBehind'
    BY <1>i, <1>w, <1>5 DEF LoggedBehind
  <2>3. GenerationsNew'
    BY <1>i, <1>t, <1>w, <1>5, <2>1 DEF GenerationsNew
  <2> QED BY <1>w, <1>5, <2>2, <2>3
<1>6. CASE UNCHANGED <<step, cp>> /\ ~UpdateCache /\ (pc \notin {"stepGen", "clean"} \/ UNCHANGED <<pc, job>>)
  <2>1. LoggedBehind'
    BY <1>i, <1>w, <1>6 DEF LoggedBehind
  <2>2. GenerationsNew'
    BY <1>i, <1>t, <1>w, <1>6 DEF GenerationsNew, src
  <2> QED BY <1>w, <1>6, <2>1, <2>2
<1>7. CASE External
  BY <1>6, <1>7 DEF External, Enqueue, PauseJob, ResumeJob, EditSource, UpdateCache
<1>8. CASE CheckCache \/ ParseBlocks \/ RemoveCheckpoint
  BY <1>5, <1>6, <1>8 DEF CheckCache, ParseBlocks, RemoveCheckpoint, UpdateCache
<1>9. CASE ~External /\ ~UpdateCache /\ ~SetStep /\ ~Return /\ ~SaveCheckpoint
           /\ ~(CheckCache \/ ParseBlocks \/ RemoveCheckpoint)
  <2>1. UNCHANGED <<step, cp>>
    BY <1>9, <1>c, Frame
  <2>2. pc \notin {"stepGen", "clean"}
    BY <1>9, <1>c DEF Next, Work, External, TakeJob, StartExecute, EnsureNotPaused, OpenSource,
        ReadSource, LoadCheckpoint, ResumeAnalysis, Analyze, ResumeGeneration, Generate, WritePage,
        StageRaises, WriteRaises, RestorePage, RetryOrFail
  <2> QED BY <1>6, <1>9, <2>1, <2>2
<1> QED BY <1>1, <1>2, <1>3, <1>4, <1>7, <1>8, <1>9

\* The log as it is on the disk has no entry that the settled log has not, but the
\* one of the generation under way.
LEMMA LogOnceHolds ==
    ASSUME TypeOK, LocalsFollow, SnapshotKept, LogSettled
    PROVE  LogOnce
<1> SUFFICES ASSUME crashes = 0, NEW j \in Jobs PROVE Cardinality(Entries(j)) <= 1
  BY DEF LogOnce
<1>i. EntriesApart /\ GenerationsNew
  BY DEF LogSettled
<1>l. Log \in Pages /\ pages[Log] \in Seq(Gens)
  BY PipelineAssumption DEF TypeOK
<1>1. \A a, b \in DOMAIN pages[Log] : pages[Log][a].job = pages[Log][b].job => a = b
  <2>1. CASE pages[Log] = Wiki[Log]
    BY <1>i, <2>1 DEF EntriesApart
  <2>2. CASE pages[Log] = <<>>
    BY <2>2
  <2>3. CASE /\ Unsettled /\ gen \in Gens /\ ~Logged(gen.job)
             /\ Wiki[Log] \in Seq(Gens) /\ pages[Log] = Append(Wiki[Log], gen)
    <3> DEFINE n == Len(Wiki[Log])
    <3>1. /\ n \in Nat /\ DOMAIN Wiki[Log] = 1..n /\ DOMAIN pages[Log] = 1..(n + 1)
          /\ pages[Log][n + 1] = gen /\ \A i \in 1..n : pages[Log][i] = Wiki[Log][i]
      BY <2>3
    <3>2. \A i \in 1..n : pages[Log][i].job # gen.job
      BY <2>3, <3>1 DEF Logged
    <3> HIDE DEF n
    <3>3. \A i \in 1..(n + 1) : i \in 1..n \/ i = n + 1
      BY <3>1
    <3> QED BY <1>i, <3>1, <3>2, <3>3 DEF EntriesApart
  <2>4. CASE Unsettled /\ Log \in DOMAIN snap
    <3>1. /\ gen \in Gens /\ gen.job \in Jobs /\ DOMAIN snap = gen.blocks /\ src \in Sources
          /\ Wiki[Log] = snap[Log] /\ snap[Log] \in Seq(Gens)
      BY <1>l, <2>4, BlocksArePages DEF Wiki, Gens, TypeOK
    <3>2. cp[src].gen = gen /\ gen # None /\ pc # "clean"
      BY <2>4 DEF LocalsFollow, Unsettled
    <3>3. ~Logged(gen.job)
      BY <1>i, <3>1, <3>2 DEF GenerationsNew
    <3>4. pages[Log] \in {snap[Log], <<>>, Append(snap[Log], gen)}
      BY <2>4, <3>1 DEF SnapshotKept, Unsettled, T!Results
    <3> QED BY <2>1, <2>2, <2>3, <2>4, <3>1, <3>3, <3>4
  <2>5. CASE ~(Unsettled /\ Log \in DOMAIN snap)
    BY <1>l, <2>1, <2>5 DEF Wiki
  <2> QED BY <2>4, <2>5
<1>2. CASE Entries(j) = {}
  BY <1>2, FS_EmptySet
<1>3. CASE Entries(j) # {}
  <2>1. PICK i \in Entries(j) : TRUE
    BY <1>3
  <2>2. Entries(j) = {i}
    BY <1>1, <2>1 DEF Entries
  <2> QED BY <2>2, FS_Singleton
<1> QED BY <1>2, <1>3

\* A run that is refused was resumed by its row alone.
LEMMA FreshStep ==
    ASSUME TypeOK, TypeOK', CheckpointsWhole, LocalsFollow, FreshJobAccepted, Next
    PROVE  FreshJobAccepted'
<1> SUFFICES ASSUME pc' = "missing" PROVE step'[job'] > cp'[src'].step
  BY DEF FreshJobAccepted, src
<1>s. src \in Sources /\ step[job] \in 0..3 /\ cp[src].step \in 0..2
  BY PipelineAssumption DEF src, TypeOK, Checkpoints
<1> USE DEF Goto, OnlyPc, rowVars, diskVars, localVars, boundVars
<1>1. CASE External
  <2>1. UNCHANGED <<step, cp, pc, job>>
    BY <1>1 DEF External, Enqueue, PauseJob, ResumeJob, EditSource
  <2> QED BY <2>1 DEF FreshJobAccepted, src
<1>2. CASE ResumeAnalysis
  <2>1. pc = "analyze" /\ eff >= 1 /\ ana = None /\ UNCHANGED <<step, cp, job>>
    BY <1>2 DEF ResumeAnalysis
  <2>2. cp[src].step < 1 /\ eff = Larger(step[job], cp[src].step)
    BY <1>s, <2>1 DEF LocalsFollow, CheckpointsWhole
  <2> QED BY <1>s, <2>1, <2>2 DEF Larger, src
<1>3. CASE ResumeGeneration
  <2>1. pc = "generate" /\ eff >= 2 /\ gen = None /\ UNCHANGED <<step, cp, job>>
    BY <1>3 DEF ResumeGeneration
  <2>2. eff \in 0..3
    BY DEF TypeOK
  <2>3. cp[src].step < 2 /\ eff = Larger(step[job], cp[src].step)
    BY <1>s, <2>1, <2>2 DEF LocalsFollow, CheckpointsWhole
  <2> QED BY <1>s, <2>1, <2>3 DEF Larger, src
<1> QED BY <1>1, <1>2, <1>3 DEF Next, Work, External, TakeJob,
        StartExecute, EnsureNotPaused, OpenSource, ReadSource, CheckCache, LoadCheckpoint, Analyze,
        Generate, SaveCheckpoint, SetStep, ParseBlocks, WritePage, UpdateCache, RemoveCheckpoint,
        StageRaises, WriteRaises, RestorePage, Return, RetryOrFail, Crash

LEMMA ResumeStep ==
    ASSUME TypeOK, TypeOK', RowsKnown, CheckpointsWhole, LocalsFollow, CheckpointBehindRow, Next
    PROVE  CheckpointBehindRow'
<1> DEFINE Held(c, n) == (n >= 1 => c.ana # None) /\ (n >= 2 => c.gen # None)
           Waits(j) == /\ Alone(j) /\ status[j] \in {"pending", "processing", "paused"}
                       /\ ~(pc = "return" /\ job = j)
<1> SUFFICES ASSUME crashes' = 0, NEW j \in Jobs, Waits(j)'
             PROVE  Held(cp'[SourceOf[j]], step'[j])
  BY DEF CheckpointBehindRow
<1>c. crashes = 0 /\ ~Crash
  <2>1. crashes \in Nat
    BY PipelineAssumption DEF TypeOK
  <2>2. ~Crash
    BY <2>1 DEF Crash
  <2> QED BY <2>2, Frame
<1>s. src \in Sources /\ SourceOf[j] \in Sources /\ step[job] \in 0..3 /\ step[j] \in 0..3
  BY PipelineAssumption DEF src, TypeOK
<1>h. Waits(j) => Held(cp[SourceOf[j]], step[j])
  BY <1>c DEF CheckpointBehindRow
<1> USE DEF Goto, OnlyPc, rowVars, diskVars, localVars, boundVars
<1>1. CASE External
  <2>1. UNCHANGED <<step, cp, pc, job>>
    BY <1>1 DEF External, Enqueue, PauseJob, ResumeJob, EditSource
  <2>2. CASE status[j] = "none"
    BY <1>s, <2>1, <2>2 DEF RowsKnown
  <2>3. CASE status[j] # "none"
    <3>1. \A k \in Jobs : status'[k] = "none" => status[k] = "none"
      BY <1>1 DEF External, Enqueue, PauseJob, ResumeJob, EditSource, TypeOK
    <3>2. Alone(j)
      BY <3>1 DEF Alone
    <3>3. status[j] \in {"pending", "processing", "paused"}
      BY <1>1, <2>3 DEF External, Enqueue, PauseJob, ResumeJob, EditSource, TypeOK
    <3> QED BY <1>h, <2>1, <3>2, <3>3
  <2> QED BY <2>2, <2>3
<1>2. CASE TakeJob
  <2>1. UNCHANGED <<status, step, cp>> /\ pc = "idle"
    BY <1>2 DEF TakeJob
  <2> QED BY <1>h, <2>1 DEF Alone
<1>3. CASE Work /\ ~TakeJob
  <2>1. /\ job' = job /\ pc # "idle" /\ status'[job] # "none"
        /\ \A k \in Jobs \ {job} : status'[k] = status[k]
    BY <1>3 DEF Work, StartExecute, EnsureNotPaused, OpenSource, ReadSource, CheckCache,
        LoadCheckpoint, ResumeAnalysis, Analyze, ResumeGeneration, Generate, SaveCheckpoint, SetStep,
        ParseBlocks, WritePage, UpdateCache, RemoveCheckpoint, StageRaises, WriteRaises, RestorePage,
        Return, RetryOrFail, TypeOK, RowsKnown, Active
  <2>2. status[job] \in {"pending", "processing", "paused"}
    BY <2>1 DEF RowsKnown, Active
  <2>3. CASE j # job
    <3>1. SourceOf[j] # src
      BY <2>1, <2>3 DEF Alone, src, TypeOK
    <3>2. \A s \in Sources \ {src} : cp'[s] = cp[s]
      BY <1>c, Frame DEF CheckCache, SaveCheckpoint, ParseBlocks, RemoveCheckpoint, TypeOK
    <3>3. step'[j] = step[j]
      BY <2>3, Frame DEF SetStep, Return, TypeOK
    <3>4. Waits(j)
      BY <2>1, <2>2, <2>3 DEF Alone
    <3> QED BY <1>h, <1>s, <3>1, <3>2, <3>3, <3>4
  <2>4. CASE j = job
    <3>1. SourceOf[j] = src /\ Alone(j) /\ pc' # "return"
      BY <2>1, <2>4 DEF Alone, src
    <3>2. Held(cp[src], step[job]) \/ pc = "return"
      BY <1>h, <2>2, <2>4, <3>1
    <3>3. CASE SetStep
      <4>1. UNCHANGED cp /\ step'[job] \in 1..3 /\ (pc = "stepAna" => step'[job] = 1)
            /\ pc \in {"stepAna", "stepGen", "stepWrite"}
        BY <3>3 DEF SetStep, TypeOK
      <4>2. pc = "stepAna" => cp[src].ana # None
        BY DEF LocalsFollow
      <4>3. pc # "stepAna" => cp[src].gen # None
        BY <4>1 DEF LocalsFollow, Unsettled
      <4>4. pc # "stepAna" => cp[src].ana # None
        BY <1>s, <4>3 DEF CheckpointsWhole
      <4> QED BY <2>4, <3>1, <4>1, <4>2, <4>3, <4>4
    <3>4. CASE SaveCheckpoint
      <4>1. /\ step' = step /\ pc \in {"saveAna", "saveGen"} /\ cp'[src].ana = ana
            /\ pc = "saveGen" => cp'[src].gen = gen
        BY <1>s, <3>4 DEF SaveCheckpoint, TypeOK
      <4>2. ana # None /\ (pc = "saveAna" => step[job] < 1) /\ (pc = "saveGen" => gen # None)
        BY <4>1 DEF LocalsFollow
      <4> QED BY <1>s, <2>4, <3>1, <4>1, <4>2
    <3>5. CASE Return
      BY <2>4, <3>5 DEF Return, TypeOK
    <3>6. CASE CheckCache \/ ParseBlocks \/ RemoveCheckpoint
      <4>1. UNCHANGED <<step, cp>> /\ pc # "return"
        BY <3>1, <3>6 DEF CheckCache, ParseBlocks, RemoveCheckpoint
      <4> QED BY <2>4, <3>1, <3>2, <4>1
    <3>7. CASE ~SetStep /\ ~SaveCheckpoint /\ ~Return /\ ~(CheckCache \/ ParseBlocks \/ RemoveCheckpoint)
      <4>1. UNCHANGED <<step, cp>>
        BY <1>c, <3>7, Frame
      <4>2. pc # "return"
        BY <1>3, <3>7 DEF Work, TakeJob, StartExecute, EnsureNotPaused, OpenSource, ReadSource,
            LoadCheckpoint, ResumeAnalysis, Analyze, ResumeGeneration, Generate, WritePage,
            UpdateCache, StageRaises, WriteRaises, RestorePage, RetryOrFail
      <4> QED BY <2>4, <3>1, <3>2, <4>1, <4>2
    <3> QED BY <3>3, <3>4, <3>5, <3>6, <3>7
  <2> QED BY <2>3, <2>4
<1> QED BY <1>1, <1>2, <1>3, <1>c DEF Next, External

-----------------------------------------------------------------------------

\* Every step keeps the invariant.
LEMMA StepInv == IInv /\ [Next]_vars => IInv'
<1> SUFFICES ASSUME IInv, [Next]_vars PROVE IInv'
  OBVIOUS
<1> USE DEF IInv
<1>1. CASE Next
  <2>1. TypeOK'
    BY <1>1, TypeStep
  <2>2. RowsKnown' /\ CheckpointsWhole'
    BY <1>1, <2>1, RowsStep, CheckpointsStep
  <2>3. LocalsFollow' /\ SnapshotKept'
    BY <1>1, LocalsStep, SnapshotStep
  <2>4. LogSettled' /\ FreshJobAccepted' /\ CheckpointBehindRow'
    BY <1>1, <2>1, LogStep, FreshStep, ResumeStep
  <2>5. LogOnce'
    BY <2>1, <2>3, <2>4, LogOnceHolds, PTL
  <2> QED BY <2>1, <2>2, <2>3, <2>4, <2>5
<1>2. CASE UNCHANGED vars
  <2> USE <1>2 DEF vars, rowVars, diskVars, localVars, boundVars
  <2>1. TypeOK' /\ RowsKnown' /\ CheckpointsWhole'
    BY DEF TypeOK, RowsKnown, CheckpointsWhole
  <2>2. LocalsFollow' /\ SnapshotKept' /\ FreshJobAccepted'
    BY DEF LocalsFollow, SnapshotKept, FreshJobAccepted, src, Unsettled, T!Results
  <2>3. LogOnce' /\ CheckpointBehindRow'
    BY DEF LogOnce, Entries, CheckpointBehindRow, Alone
  <2>4. Wiki' = Wiki
    BY DEF Wiki, Unsettled
  <2>5. LogSettled'
    BY <2>4 DEF LogSettled, EntriesApart, LoggedBehind, GenerationsNew, Logged, src
  <2> QED BY <2>1, <2>2, <2>3, <2>5
<1> QED BY <1>1, <1>2

\* What each phase of auto_ingest holds, in memory and on the disk, is true in every
\* reachable state, for any number of jobs, sources, pages and failures.
THEOREM InductiveInvariant == Spec => []IInv
<1>1. Init => IInv
  BY InitInv
<1>2. IInv /\ [Next]_vars => IInv'
  BY StepInv
<1> QED BY <1>1, <1>2, PTL DEF Spec

\* A job that starts from scratch is never refused for a missing checkpoint.
THEOREM FreshAccepted == Spec => []FreshJobAccepted
<1>1. IInv => FreshJobAccepted
  BY DEF IInv
<1> QED BY <1>1, InductiveInvariant, PTL

\* While no process dies, wiki/log.md has one entry of a job at most, and a job that
\* is alone with its source finds the checkpoint its row tells of.
THEOREM LogAndCheckpoints == Spec => [](LogOnce /\ CheckpointBehindRow)
<1>1. IInv => LogOnce /\ CheckpointBehindRow
  BY DEF IInv
<1> QED BY <1>1, InductiveInvariant, PTL

-----------------------------------------------------------------------------
(* The refinement.                                                          *)

LEMMA InitTransaction == Init => T!Init
<1> SUFFICES ASSUME Init PROVE T!Init
  OBVIOUS
<1>1. Wiki = [p \in Pages |-> <<>>]
  BY DEF Init, Wiki, Unsettled
<1>2. Compiled = [s \in Sources |-> {}]
  BY DEF Init, Compiled
<1> QED BY <1>1, <1>2 DEF Init, T!Init

LEMMA StepTransaction == IInv /\ [Next]_vars => [T!Next]_(T!vars)
<1> SUFFICES ASSUME IInv, [Next]_vars PROVE [T!Next]_(T!vars)
  OBVIOUS
<1> USE DEF IInv
<1>1. CASE UpdateCache
  <2>1. /\ src \in Sources /\ gen \in Gens /\ gen.blocks # {} /\ text \in Versions /\ text # None
        /\ cache' = [cache EXCEPT ![src] = text] /\ crashes' = crashes
    BY <1>1, BlocksArePages, PipelineAssumption
       DEF UpdateCache, Unsettled, RowsKnown, WorkerPcs, boundVars
  <2>2. Compiled' = [Compiled EXCEPT ![src] = {text}]
    BY <2>1 DEF Compiled, TypeOK
  <2>3. T!Publish(src)
    BY <1>1, <2>1, <2>2, WikiPublished DEF T!Publish
  <2> QED BY <2>1, <2>3 DEF T!Next
<1>2. CASE Crash
  <2>1. cache' = cache /\ crashes' = crashes + 1
    BY <1>2 DEF Crash, diskVars
  <2>2. T!Die
    BY <1>2, <2>1, WikiCut DEF T!Die, Compiled
  <2> QED BY <2>2 DEF T!Next
<1>3. CASE Next /\ ~UpdateCache /\ ~Crash
  <2>1. Wiki' = Wiki
    BY <1>3, WikiKept
  <2>2. UNCHANGED <<cache, crashes>>
    BY <1>3, Frame
  <2> QED BY <2>1, <2>2 DEF T!vars, Compiled
<1>4. CASE UNCHANGED vars
  BY <1>4 DEF vars, diskVars, localVars, boundVars, T!vars, Wiki, Unsettled, Compiled
<1> QED BY <1>1, <1>2, <1>3, <1>4

\* auto_ingest implements the transaction: the pages of a generation and the cache
\* entry of its source appear in one step of the wiki, or a death cuts them short.
THEOREM Implements == Spec => Transaction
<1>1. Init => T!Init
  BY InitTransaction
<1>2. IInv /\ [Next]_vars => [T!Next]_(T!vars)
  BY StepTransaction
<1> QED BY <1>1, <1>2, InductiveInvariant, PTL DEF Spec, Transaction, T!Spec
=============================================================================
