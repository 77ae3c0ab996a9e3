--------------------------- MODULE IngestPipeline ---------------------------
(***************************************************************************)
(* auto_ingest of app/ingest/pipeline.py: what one run of an ingest job    *)
(* does to the disk of a project, with its checkpoints (pipeline.py), the  *)
(* ingest cache (cache.py) and the page writer (writer.py).                *)
(*                                                                         *)
(* IngestQueue shows that a project has one running task at a time         *)
(* (Serial), so one worker runs here, job after job; the queue is reduced  *)
(* to the row fields the worker reads and writes.  A text is known by its  *)
(* version, an analysis by the version it was made from, and a page is the *)
(* sequence of the generations that contributed to it.                     *)
(***************************************************************************)
EXTENDS Integers, FiniteSets, Sequences

CONSTANTS
    Jobs, Sources,
    SourceOf,    \* the source document of each job
    Pages,       \* paths under wiki/
    Log,         \* wiki/log.md, the page that is appended to
    Versions,    \* the texts a source may hold, an empty one apart
    BlockSets,   \* the sets of paths the LLM may emit FILE blocks for
    None,        \* no text, analysis, generation or cache entry
    MaxRetries,  \* MAX_RETRIES
    MaxCrashes,  \* bound: process deaths
    MaxEdits,    \* bound: changes of a source document
    MaxPauses    \* bound: pauses

ASSUME PipelineAssumption ==
    /\ SourceOf \in [Jobs -> Sources]
    /\ Log \in Pages /\ BlockSets \subseteq SUBSET Pages
    /\ None \notin Versions /\ Versions # {}
    /\ MaxRetries \in Nat /\ MaxCrashes \in Nat /\ MaxEdits \in Nat /\ MaxPauses \in Nat

\* The FILE blocks generated for a job, from an analysis and a text.
Gens == [job : Jobs, ana : Versions, text : Versions, blocks : SUBSET Pages]
ASSUME NoneIsNoGen == None \notin Gens

VARIABLES
    status, retry, step,  \* the row of each job in ingest_jobs
    content,   \* the staged source file; None when it has no text
    cp,        \* the checkpoint file of each source
    cache,     \* ingest-cache.json: the version whose hash each source has
    torn,      \* ingest-cache.json is cut short
    pages,     \* wiki/
    pc,        \* where the worker is
    job,       \* the job it runs
    text, ana, gen,   \* auto_ingest's content, analysis and generation
    eff,       \* effective_step
    snap,      \* target_snapshot
    todo,      \* the pages still to be written, or to be restored
    crashes, edits, pauses

rowVars    == <<status, retry, step>>
diskVars   == <<cp, cache, torn, pages>>
localVars  == <<text, ana, gen, eff, snap, todo>>
boundVars  == <<crashes, edits, pauses>>
vars == <<rowVars, content, diskVars, pc, job, localVars, boundVars>>

Statuses == {"none", "pending", "processing", "paused", "done", "failed"}
WorkerPcs == {"idle", "start", "open", "read", "cache", "load", "analyze", "saveAna",
              "stepAna", "generate", "saveGen", "stepGen", "blocks", "write",
              "stepWrite", "finalize", "clean", "restore", "missing", "raise", "return"}

NoCheckpoint == [step |-> 0, ana |-> None, gen |-> None]
NoSnapshot == [p \in {} |-> <<>>]
src == SourceOf[job]

Init ==
    /\ status = [j \in Jobs |-> "none"]
    /\ retry = [j \in Jobs |-> 0]
    /\ step = [j \in Jobs |-> 0]
    /\ content \in [Sources -> Versions]
    /\ cp = [s \in Sources |-> NoCheckpoint]
    /\ cache = [s \in Sources |-> None]
    /\ torn = FALSE
    /\ pages = [p \in Pages |-> <<>>]
    /\ pc = "idle" /\ job \in Jobs
    /\ text = None /\ ana = None /\ gen = None /\ eff = 0
    /\ snap = NoSnapshot /\ todo = {}
    /\ crashes = 0 /\ edits = 0 /\ pauses = 0

-----------------------------------------------------------------------------
(* The queue and its users, as far as auto_ingest sees them: a resumed job  *)
(* is run again (IngestQueue shows when it is not).                         *)

Enqueue(j) ==
    /\ status[j] = "none"
    /\ status' = [status EXCEPT ![j] = "pending"]
    /\ UNCHANGED <<retry, step, content, diskVars, pc, job, localVars, boundVars>>

PauseJob(j) ==
    /\ pauses < MaxPauses /\ status[j] \in {"pending", "processing"}
    /\ pauses' = pauses + 1
    /\ status' = [status EXCEPT ![j] = "paused"]
    /\ UNCHANGED <<retry, step, content, diskVars, pc, job, localVars, crashes, edits>>

ResumeJob(j) ==
    /\ status[j] = "paused"
    /\ status' = [status EXCEPT ![j] = "pending"]
    /\ UNCHANGED <<retry, step, content, diskVars, pc, job, localVars, boundVars>>

\* A new version is staged, uploaded or pulled while a job may be under way.
EditSource(s) ==
    /\ edits < MaxEdits
    /\ edits' = edits + 1
    /\ \E v \in (Versions \cup {None}) \ {content[s]} : content' = [content EXCEPT ![s] = v]
    /\ UNCHANGED <<rowVars, diskVars, pc, job, localVars, crashes, pauses>>

-----------------------------------------------------------------------------
(* One run of auto_ingest.                                                  *)

Goto(l) == pc' = l
OnlyPc == UNCHANGED <<rowVars, content, diskVars, job, localVars, boundVars>>
Forget ==    \* the locals of a run end with it
    /\ text' = None /\ ana' = None /\ gen' = None /\ eff' = 0
    /\ snap' = NoSnapshot /\ todo' = {}

\* A job left "processing" by a crash is scheduled again like a pending one.
TakeJob ==
    /\ pc = "idle"
    /\ \E j \in Jobs : status[j] \in {"pending", "processing"} /\ job' = j
    /\ Goto("start")
    /\ UNCHANGED <<rowVars, content, diskVars, localVars, boundVars>>

StartExecute ==
    /\ pc = "start"
    /\ status' = [status EXCEPT ![job] = "processing"]
    /\ Goto("open")
    /\ UNCHANGED <<retry, step, content, diskVars, job, localVars, boundVars>>

\* _ensure_not_paused raises JobPaused: the run ends, the row stays "paused".
EnsureNotPaused ==
    /\ \/ pc \in {"open", "blocks"}
       \/ pc = "analyze" /\ eff < 1
       \/ pc = "generate" /\ eff < 2
    /\ status[job] = "paused"
    /\ Goto("idle") /\ Forget
    /\ UNCHANGED <<rowVars, content, diskVars, job, boundVars>>
NotPaused == status[job] # "paused"

OpenSource ==
    /\ pc = "open" /\ NotPaused
    /\ Goto("read") /\ OnlyPc

\* parse_document; a text of blanks ends the run before anything is looked up.
ReadSource ==
    /\ pc = "read"
    /\ text' = content[src]
    /\ Goto(IF content[src] = None THEN "return" ELSE "cache")
    /\ UNCHANGED <<rowVars, content, diskVars, job, ana, gen, eff, snap, todo, boundVars>>

\* check_cache; json.loads raises on a cut file.
CheckCache ==
    /\ pc = "cache"
    /\ IF torn THEN Goto("raise") /\ UNCHANGED cp
       ELSE IF cache[src] = text
       THEN Goto("return") /\ cp' = [cp EXCEPT ![src] = NoCheckpoint]
       ELSE Goto("load") /\ UNCHANGED cp
    /\ UNCHANGED <<rowVars, content, cache, torn, pages, job, localVars, boundVars>>

Larger(a, b) == IF a >= b THEN a ELSE b

LoadCheckpoint ==
    /\ pc = "load"
    /\ eff' = Larger(step[job], cp[src].step)
    /\ ana' = cp[src].ana /\ gen' = cp[src].gen
    /\ Goto("analyze")
    /\ UNCHANGED <<rowVars, content, diskVars, job, text, snap, todo, boundVars>>

ResumeAnalysis ==
    /\ pc = "analyze" /\ eff >= 1
    /\ Goto(IF ana = None THEN "missing" ELSE "generate")
    /\ OnlyPc

Analyze ==
    /\ pc = "analyze" /\ eff < 1 /\ NotPaused
    /\ ana' = text
    /\ Goto("saveAna")
    /\ UNCHANGED <<rowVars, content, diskVars, job, text, gen, eff, snap, todo, boundVars>>

ResumeGeneration ==
    /\ pc = "generate" /\ eff >= 2
    /\ Goto(IF gen = None THEN "missing" ELSE "blocks")
    /\ OnlyPc

Generate ==
    /\ pc = "generate" /\ eff < 2 /\ NotPaused
    /\ \E B \in BlockSets :
          gen' = [job |-> job, ana |-> ana, text |-> text, blocks |-> B]
    /\ Goto("saveGen")
    /\ UNCHANGED <<rowVars, content, diskVars, job, text, ana, eff, snap, todo, boundVars>>

\* Mutant of SaveCheckpoint: the second checkpoint drops the analysis.
SaveGenerationOnly ==
    /\ \/ /\ pc = "saveAna" /\ Goto("stepAna")
          /\ cp' = [cp EXCEPT ![src] = [step |-> 1, ana |-> ana, gen |-> None]]
       \/ /\ pc = "saveGen" /\ Goto("stepGen")
          /\ cp' = [cp EXCEPT ![src] = [step |-> 2, ana |-> None, gen |-> gen]]
    /\ UNCHANGED <<rowVars, content, cache, torn, pages, job, localVars, boundVars>>

\* _save_checkpoint replaces the source's checkpoint, whichever job left it.
SaveCheckpoint ==
    /\ \/ /\ pc = "saveAna" /\ Goto("stepAna")
          /\ cp' = [cp EXCEPT ![src] = [step |-> 1, ana |-> ana, gen |-> None]]
       \/ /\ pc = "saveGen" /\ Goto("stepGen")
          /\ cp' = [cp EXCEPT ![src] = [step |-> 2, ana |-> ana, gen |-> gen]]
    /\ UNCHANGED <<rowVars, content, cache, torn, pages, job, localVars, boundVars>>

\* on_step persists the step to the row.
SetStep ==
    /\ \/ pc = "stepAna" /\ Goto("generate") /\ step' = [step EXCEPT ![job] = 1]
       \/ pc = "stepGen" /\ Goto("blocks") /\ step' = [step EXCEPT ![job] = 2]
       \/ pc = "stepWrite" /\ Goto("finalize") /\ step' = [step EXCEPT ![job] = 3]
    /\ UNCHANGED <<status, retry, content, diskVars, job, localVars, boundVars>>

\* Mutant of ParseBlocks: the checkpoint is removed before the pages are written.
RemoveBeforeWrite ==
    /\ pc = "blocks" /\ NotPaused
    /\ cp' = [cp EXCEPT ![src] = NoCheckpoint]
    /\ IF gen.blocks = {}
       THEN Goto("return") /\ UNCHANGED <<snap, todo>>
       ELSE /\ Goto("write")
            /\ snap' = [p \in gen.blocks |-> pages[p]]
            /\ todo' = gen.blocks
    /\ UNCHANGED <<rowVars, content, cache, torn, pages, job, text, ana, gen, eff, boundVars>>

ParseBlocks ==
    /\ pc = "blocks" /\ NotPaused
    /\ IF gen.blocks = {}
       THEN /\ Goto("return") /\ cp' = [cp EXCEPT ![src] = NoCheckpoint]
            /\ UNCHANGED <<snap, todo>>
       ELSE /\ Goto("write") /\ UNCHANGED cp
            /\ snap' = [p \in gen.blocks |-> pages[p]]
            /\ todo' = gen.blocks
    /\ UNCHANGED <<rowVars, content, cache, torn, pages, job, text, ana, gen, eff, boundVars>>

\* write_file_blocks: log.md is appended to; any other page that has text is
\* merged by the LLM or, as the merge goes, replaced.
WritePage ==
    /\ pc = "write"
    /\ \E p \in todo :
          /\ \/ p = Log /\ pages' = [pages EXCEPT ![p] = Append(@, gen)]
             \/ p # Log /\ pages' = [pages EXCEPT ![p] = <<gen>>]
             \/ p # Log /\ pages[p] # <<>> /\ pages' = [pages EXCEPT ![p] = Append(@, gen)]
          /\ todo' = todo \ {p}
          /\ Goto(IF todo = {p} THEN "stepWrite" ELSE "write")
    /\ UNCHANGED <<rowVars, content, cp, cache, torn, job, text, ana, gen, eff, snap, boundVars>>

\* Embedding has run, or failed, which is only logged.
UpdateCache ==
    /\ pc = "finalize"
    /\ cache' = [cache EXCEPT ![src] = text]
    /\ Goto("clean")
    /\ UNCHANGED <<rowVars, content, cp, torn, pages, job, localVars, boundVars>>

RemoveCheckpoint ==
    /\ pc = "clean"
    /\ cp' = [cp EXCEPT ![src] = NoCheckpoint]
    /\ Goto("return")
    /\ UNCHANGED <<rowVars, content, cache, torn, pages, job, localVars, boundVars>>

\* The parser, the LLM and the disk may fail.  A failure inside the try puts the
\* snapshot back, page by page; a page opened for writing may be empty by then.
StageRaises ==
    /\ pc \in {"read", "analyze", "generate"}
    /\ Goto("raise") /\ OnlyPc

\* Mutant of WriteRaises: the failure is passed on without a rollback.
RaiseWithoutRollback ==
    /\ pc \in {"write", "stepWrite", "finalize"}
    /\ Goto("raise") /\ OnlyPc

WriteRaises ==
    /\ pc \in {"write", "stepWrite", "finalize"}
    /\ \/ UNCHANGED pages
       \/ \E p \in todo : pages' = [pages EXCEPT ![p] = <<>>]
    /\ todo' = DOMAIN snap
    /\ Goto("restore")
    /\ UNCHANGED <<rowVars, content, cp, cache, torn, job, text, ana, gen, eff, snap, boundVars>>

RestorePage ==
    /\ pc = "restore"
    /\ \E p \in todo :
          /\ pages' = [pages EXCEPT ![p] = snap[p]]
          /\ todo' = todo \ {p}
          /\ Goto(IF todo = {p} THEN "raise" ELSE "restore")
    /\ UNCHANGED <<rowVars, content, cp, cache, torn, job, text, ana, gen, eff, snap, boundVars>>

\* What the caller, IngestQueue._execute, does with the outcome.
Return ==
    /\ pc = "return"
    /\ status' = [status EXCEPT ![job] = "done"]
    /\ step' = [step EXCEPT ![job] = 3]
    /\ Goto("idle") /\ Forget
    /\ UNCHANGED <<retry, content, diskVars, job, boundVars>>

RetryOrFail ==
    /\ pc \in {"raise", "missing"}
    /\ IF retry[job] < MaxRetries
       THEN /\ status' = [status EXCEPT ![job] = "pending"]
            /\ retry' = [retry EXCEPT ![job] = @ + 1]
            /\ Goto("start")
       ELSE /\ status' = [status EXCEPT ![job] = "failed"]
            /\ Goto("idle") /\ UNCHANGED retry
    /\ Forget
    /\ UNCHANGED <<step, content, diskVars, job, boundVars>>

Work ==
    \/ TakeJob \/ StartExecute \/ EnsureNotPaused \/ OpenSource \/ ReadSource
    \/ CheckCache \/ LoadCheckpoint \/ ResumeAnalysis \/ Analyze \/ ResumeGeneration
    \/ Generate \/ SaveCheckpoint \/ SetStep \/ ParseBlocks \/ WritePage \/ UpdateCache
    \/ RemoveCheckpoint \/ StageRaises \/ WriteRaises \/ RestorePage \/ Return \/ RetryOrFail

-----------------------------------------------------------------------------
\* Process death.  A file is opened with "w" before it is written: the one under
\* way may be left empty.  Pages are not put back.
Crash ==
    /\ crashes < MaxCrashes /\ pc # "idle"
    /\ crashes' = crashes + 1
    /\ \/ UNCHANGED diskVars
       \/ /\ pc \in {"saveAna", "saveGen"} /\ cp' = [cp EXCEPT ![src] = NoCheckpoint]
          /\ UNCHANGED <<cache, torn, pages>>
       \/ /\ pc = "finalize" /\ torn' = TRUE /\ UNCHANGED <<cp, cache, pages>>
       \/ /\ pc \in {"write", "restore"}
          /\ \E p \in todo : pages' = [pages EXCEPT ![p] = <<>>]
          /\ UNCHANGED <<cp, cache, torn>>
    /\ Goto("idle") /\ Forget
    /\ UNCHANGED <<rowVars, content, job, edits, pauses>>

Next ==
    \/ \E j \in Jobs : Enqueue(j) \/ PauseJob(j) \/ ResumeJob(j)
    \/ \E s \in Sources : EditSource(s)
    \/ Work
    \/ Crash

Spec == Init /\ [][Next]_vars

-----------------------------------------------------------------------------
(* Properties.                                                              *)

Checkpoints == [step : 0..2, ana : Versions \cup {None}, gen : Gens \cup {None}]
\* The type invariant.
TypeOK ==
    /\ status \in [Jobs -> Statuses] /\ retry \in [Jobs -> 0..MaxRetries]
    /\ step \in [Jobs -> 0..3]
    /\ content \in [Sources -> Versions \cup {None}]
    /\ cp \in [Sources -> Checkpoints]
    /\ cache \in [Sources -> Versions \cup {None}] /\ torn \in BOOLEAN
    /\ pages \in [Pages -> Seq(Gens)]
    /\ pc \in WorkerPcs /\ job \in Jobs
    /\ text \in Versions \cup {None} /\ ana \in Versions \cup {None}
    /\ gen \in Gens \cup {None} /\ eff \in 0..3
    /\ DOMAIN snap \subseteq Pages /\ \A p \in DOMAIN snap : snap[p] \in Seq(Gens)
    /\ todo \subseteq Pages
    /\ crashes \in 0..MaxCrashes /\ edits \in 0..MaxEdits /\ pauses \in 0..MaxPauses

\* The wiki without the writes of a run that may still be rolled back.
Unsettled == pc \in {"write", "stepWrite", "finalize", "restore"}
Wiki == [p \in Pages |-> IF Unsettled /\ p \in DOMAIN snap THEN snap[p] ELSE pages[p]]
Compiled == [s \in Sources |-> IF cache[s] = None THEN {} ELSE {cache[s]}]

T == INSTANCE WikiTransaction WITH wiki <- Wiki, compiled <- Compiled, deaths <- crashes

\* auto_ingest is a transaction: through failures of the parser, the LLM and the
\* writer, retries, pauses and edits, the pages of a generation and the cache entry
\* of its source appear together or not at all (pipeline.py:268-287); only when the
\* process dies are some pages of one generation there, or empty, by themselves.
Transaction == T!Spec

Entries(j) == {i \in DOMAIN pages[Log] : pages[Log][i].job = j}
\* The FILE blocks of one generation reach the append-only wiki/log.md at most
\* once, although each attempt that fails behind the writer writes them anew.
LogOnce == crashes = 0 => \A j \in Jobs : Cardinality(Entries(j)) <= 1

\* A job whose row is behind a step finds what that step left in its source's
\* checkpoint, so the attempt it is resumed for is not refused, unless another job
\* of the source has been there or the process died.
Alone(j) == \A k \in Jobs \ {j} : SourceOf[k] = SourceOf[j] => status[k] = "none"
CheckpointBehindRow ==
    \A j \in Jobs :
        (/\ crashes = 0 /\ Alone(j)
         /\ status[j] \in {"pending", "processing", "paused"}
         /\ ~(pc = "return" /\ job = j)) =>
        /\ step[j] >= 1 => cp[SourceOf[j]].ana # None
        /\ step[j] >= 2 => cp[SourceOf[j]].gen # None

\* "re-run from scratch" (pipeline.py:212) does help: a job that starts at step 0
\* is never refused for what an earlier job, a crash or a cut file left behind.
FreshJobAccepted ==
    pc = "missing" => step[job] > cp[src].step

\* A run under way has a text and a row that is neither new nor ended.
Active == {"pending", "processing", "paused"}
RowsKnown ==
    /\ \A j \in Jobs : status[j] = "none" => step[j] = 0
    /\ pc # "idle" => status[job] \in Active
    /\ pc \in WorkerPcs \ {"idle", "start", "open", "read", "clean", "restore", "missing",
                          "raise", "return"} => text \in Versions

\* A checkpoint holds what its step says, for a job of its source.
CheckpointsWhole ==
    \A s \in Sources :
        /\ cp[s].step >= 1 => cp[s].ana # None
        /\ cp[s].step >= 2 => cp[s].gen # None
        /\ cp[s].gen # None => cp[s].step = 2 /\ SourceOf[cp[s].gen.job] = s

\* What the run holds is what the checkpoint holds, or is about to hold.
LocalsFollow ==
    /\ pc = "analyze" \/ (pc = "generate" /\ eff >= 1) =>
         ana = cp[src].ana /\ gen = cp[src].gen /\ eff = Larger(step[job], cp[src].step)
    /\ pc \in {"saveAna", "stepAna"} => ana # None /\ eff < 1 /\ step[job] < 1
    /\ pc \in {"stepAna", "generate"} => ana # None /\ cp[src].ana = ana
    /\ pc = "generate" /\ eff < 2 => step[job] < 2
    /\ pc = "saveGen" => ana # None /\ gen # None /\ gen.job = job /\ step[job] < 2
    /\ Unsettled \/ pc \in {"stepGen", "blocks", "clean"} => gen # None /\ cp[src].gen = gen
    /\ pc = "stepGen" => gen.job = job

\* Each page of the generation is as it was, or written, and, on the way back, cut.
SnapshotKept ==
    /\ Unsettled => gen.blocks # {} /\ DOMAIN snap = gen.blocks /\ todo \subseteq gen.blocks
    /\ pc \in {"stepWrite", "finalize"} => todo = {}
    /\ pc \in {"write", "stepWrite", "finalize"} =>
         \A p \in gen.blocks : IF p \in todo THEN pages[p] = snap[p]
                                ELSE pages[p] \in T!Results(p, snap[p], gen)
    /\ pc = "restore" =>
         \A p \in gen.blocks :
            IF p \in todo THEN pages[p] \in {snap[p], <<>>} \cup T!Results(p, snap[p], gen)
            ELSE pages[p] = snap[p]

\* While no process has died, the settled log has one entry of each job at most; a
\* job that is in it has its step behind it, and its checkpoint is, or is being, removed.
Logged(k) == \E i \in DOMAIN Wiki[Log] : Wiki[Log][i].job = k
EntriesApart == \A a, b \in DOMAIN Wiki[Log] : Wiki[Log][a].job = Wiki[Log][b].job => a = b
LoggedBehind == \A k \in Jobs : Logged(k) => step[k] >= 2
GenerationsNew ==
    \A s \in Sources : cp[s].gen # None =>
        /\ step[cp[s].gen.job] >= 2 \/ (pc = "stepGen" /\ job = cp[s].gen.job)
        /\ Logged(cp[s].gen.job) => pc = "clean" /\ s = src
LogSettled == crashes = 0 => EntriesApart /\ LoggedBehind /\ GenerationsNew

\* The inductive invariant: the log and the checkpoints as stated above
\* (pipeline.py:57, writer.py), whatever fails, is retried, or dies.
IInv ==
    /\ TypeOK /\ LogOnce /\ CheckpointBehindRow /\ FreshJobAccepted
    /\ RowsKnown /\ CheckpointsWhole /\ LocalsFollow /\ SnapshotKept /\ LogSettled

-----------------------------------------------------------------------------
(* What docs and comments say, and the code does not do.                    *)

\* "Return True if the content is unchanged since last ingest" (cache.py:36): the
\* hash that is stored is that of the text the pages were generated from.  The
\* pages may come from the checkpoint of an earlier text.
HashOfIngestedText ==
    [][UpdateCache => gen.text = text /\ gen.ana = text]_vars

\* "Checkpoints allow resuming from the last completed step after a crash"
\* (pipeline.py:13), and a paused job resumes from its own
\* (docs/ingest-compile-pipeline.html:449): no attempt finds its checkpoint gone.
ResumeAccepted == pc # "missing"

\* The same sentence of pipeline.py:13: an attempt gets as far as its checkpoint.
CacheReadable == pc = "cache" => ~torn

\* "3=written" (models.py:21), and work goes on from the last completed step
\* (docs/ingest-compile-pipeline.html:375): what is written is not written again.
WrittenOnce == [][WritePage => step[job] < 3]_vars
=============================================================================
