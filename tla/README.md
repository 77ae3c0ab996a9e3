# A TLA+ model of llm-wiki-engine

The engine compiles source documents into a wiki with an LLM, keeps indexes of
the pages, answers questions with agents that read them, and repairs pages from
the answers' feedback. It is one asyncio process: a FastAPI application, an
SQLite or PostgreSQL database, and a directory per project on disk. Two
coroutines interleave at every `await`; nothing but the database and the disk
survives the process.

## 1. Inventory

| component | state | operations | hard behaviour | what makes it correct |
|---|---|---|---|---|
| ingest queue (`app/ingest/queue.py`, `router.py`) | `ingest_jobs` rows, `projects.ingest_paused`, in-memory `_tasks` and one `asyncio.Lock` per project | enqueue, pause, resume, pause-all, resume-all, retry, delete, recovery at start-up, the task itself | handlers and tasks rewrite the same row between each other's reads and writes; restart loses `_tasks` and the locks | one running job per project; every accepted job reaches an end; the retry limit; no step lost |
| ingest pipeline (`pipeline.py`, `cache.py`, `writer.py`, `parser.py`) | pages under `wiki/`, a checkpoint file per source, `ingest-cache.json` | `auto_ingest`: parse, cache check, analysis, generation, write, embed, finalize, rollback | failure of any stage, pause between stages, process death inside a file write, jobs that share a checkpoint, edited sources | pages and cache entry of a generation appear together or not at all; a resumed job finds its checkpoint; the log gets one entry |
| feedback loop (`app/feedback`) | `feedback_tasks` rows, background runs, a working copy per compilation, wiki files | evaluate, repair, approve, reject, revise, reevaluate, recompile, apply, delete; the compiler's tools | every run works on its own copy of the row, with LLM calls of minutes in between; a repair is compiled on a copy of the wiki | legal transitions; what is reviewed has a candidate made with the latest guidance; only approved tasks are applied; waiting tasks are carried |
| case index (`app/case_index`) | index directory, temporary directory, stale marker, rebuild flags and task table in memory | rebuild (four callers), mark stale, status, search | builds share one temporary directory; swap is remove-then-rename | readers see one complete build; "ready" means up to date |
| git sync and publish (`app/projects/git_sync.py`) | locks per repository and for publishing, sync status columns, scheduler | sync, sync all, publish, auto publish, manual mode | check-then-acquire; waits for ingest jobs | sync and publish exclude each other; a status "syncing" ends |
| wiki pages (`app/wiki/router.py`) | files under `wiki/` | PUT, search, read | written by users, ingest and repairs without a common lock | a failure takes back its own writes only |
| embedding store (`app/embedding/service.py`) | a LanceDB table per project | embed pages, rebuild | delete then add; rebuild removes the directory | each page's chunks are those of its text |
| agent tool loop, LLM client (`app/agents`, `app/llm/client.py`) | the messages of one turn, the budget of calls | a turn: rounds, tools, compression, cancellation, retries | a response with several calls at the end of the budget; compression in the middle of the loop; cancellation at any await | every call answered; bounded rounds and requests; what is persisted is what was shown |
| stored conversations (`app/chat`, `app/agents`) | a file per conversation and a list of them, for two kinds of store | turns and deletions, by project members, agents' users and visitors | read-modify-write of two files with awaits, disconnects, cut files | what a client was told is stored and listed |
| users, projects, agents (`app/projects`, `app/agents/service.py`, `app/admin`) | rows | register, roles, members, ticket projects, knowledge API, backup and restore | checks before a later commit; no foreign keys are enforced | an administrator is left; bindings stay filtered; a backup is restored exactly |
| configuration (`app/config.py`, `app/database.py`) | `system_settings`, the configuration in memory, Git fields of projects and repositories | save, reload, migrate, PATCH, backup and restore | partial updates, start-ups that are cut short, old backups | memory follows the table; migrations run once; manual mode and syncing exclude each other |
| runtime (`app/runtime`, `runtime_main.py`) | extracted bundle, its configuration file, hook results | extract, update the configuration, run hooks | processes launched with one bundle; deaths | a bundle that is used is complete; accepted updates stay |
| search, knowledge graph | none | rank fusion, token budget, graph of links | pure | agrees with its definition |
| documents, auth tokens, OpenAI-compatible API | rows and files | request-response | little | |

How they interact. HTTP handlers call the queue; the queue's tasks call the
pipeline, which calls back `on_step`, `on_progress` and the pause checker, all
of which write or read the job's row. A completed job publishes through git
sync; git sync enqueues jobs and waits for them. An agent's turn that needed raw
documents creates a feedback task, whose repair is applied to the same wiki
files the pipeline writes, and publishes too. Uploads and syncs rebuild or mark
the case index.

## 2. Modules

| module | models |
|---|---|
| `IngestQueue` | `queue.py` and the ingest endpoints, one action per stretch of code between two database operations; `auto_ingest` seen from outside |
| `IngestQueue_proofs` | theorems about it |
| `IngestPipeline` | `auto_ingest` and what it does to the disk, one job at a time (which is what `IngestQueue` shows) |
| `IngestPipeline_proofs` | theorems about it, the refinement among them |
| `WikiTransaction` | the abstract specification `IngestPipeline` implements |
| `FeedbackTask` | one feedback task, its background runs and its reviewers |
| `FeedbackTask_proofs` | theorems about it |
| `CaseIndex` | builds of one case library's index, uploads, the stale marker |
| `CaseIndex_proofs` | theorems about it |
| `GitSync` | syncs and publishes of one project, and the locks between them |
| `GitSync_proofs` | theorems about it |
| `WikiWriters` | who writes the pages and the vectors of one project: the editor, an ingest run, a repair from its working copy to its apply, rebuilds |
| `WikiWriters_proofs` | theorems about it |
| `AgentTurn` | one turn of an agent: tool loop, compression, the LLM client's retries |
| `AgentTurn_proofs` | theorems about it |
| `Conversations` | the files of a project's chat and of an agent's |
| `Registry` | users, projects, members, agents, the knowledge API, the backup |
| `Configuration` | settings, Git fields, migrations, the backup |
| `Runtime` | the stand-alone runtime's processes, one bundle between them |
| `Stores_proofs` | theorems about `Conversations`, `Registry`, `Configuration` and `Runtime` |
| `MCIngestQueue`, `MCIngestPipeline`, `MCFeedbackTask`, `MCCaseIndex`, `MCGitSync`, `MCWikiWriters`, `MCAgentTurn`, `MCConversations`, `MCRegistry`, `MCConfiguration`, `MCRuntime` | constants and symmetry sets for TLC |

The modules meet at their edges. `IngestQueue` sees a run of the pipeline as steps
that end or raise, and shows that two jobs of a project never run at once, which is
why `IngestPipeline` has one running job. What `IngestQueue` can do to a job (end,
fail, be paused, superseded, deleted) is what `GitSync` lets happen to the job a
sync waits for. The publish that `AutoPublish` and the feedback's apply only call is
a process of its own in `GitSync`. The upload that marks or rebuilds the index in
`CaseIndex` is the one that edits a source in `IngestPipeline`. `WikiWriters` takes a run
of the pipeline for its writes to shared files (with `IngestQueue`'s promise that there
is one at a time) and a repair of `FeedbackTask` for its copy, its changes and its apply.
What `AgentTurn` shows to be persisted is what `Conversations` stores, and the turns it
hands over are those `FeedbackTask` begins with. `Registry` and `Configuration` keep
different rows of one database, and each has its part of the backup.

`Stores_proofs` extends the four modules of what is stored beside the wiki, which share
nothing; for its sake their definitions, constants and variables have names of their own
(`RuntimeInit`, `ConfigurationSpec`, `settingsRows`, ...).

### IngestQueue

A job's row is `status`, `retry`, `step`; `"none"` is a row not inserted yet and
`"gone"` one that was deleted, and an UPDATE by id touches neither (`SetStatus`).
`registry` is `IngestQueue._tasks`, `line` the project's `asyncio.Lock`: its
holder first, the waiters in the order they asked. A task is a job and a copy
number, because the code can create two tasks for one job; `pc` says at which
await it is, `at` is the `resume_step` or the step reached, `seen` the retry count
read by the except branch, `runs` (a history variable) how often it has called
`_execute`. A request keeps what it read in `scope`, `fetched` and `picked`.

| action | code |
|---|---|
| `AcquireLock`, `WaitUntilResumed`, `ReleaseLock`, `DoneCallback` | `_run_job`, the polling loop, the done callback |
| `StartExecute`, `CheckPause`, `ParseSource`, `FinishStep`, `WritePages`, `StageRaises`, `CompleteJob`, `AutoPublish` | `_execute` and the calls `auto_ingest` makes to its hooks |
| `ReadFailedRow`, `RetryOrFail` | the two sessions of the except branch |
| `Enqueue`, `EnqueueCheck`, `EnqueueSchedule` | `enqueue_many`: commit, the await on the project's flag, the scheduling loop |
| `PauseJob`, `PauseRead`, `PauseWrite`, `ResumeJob`, `ResumeRead`, `ResumeWrite`, `ResumeCheck`, `ResumeSchedule` | the endpoints' checks, then `pause_job` and `resume_job` |
| `PauseProject`, `ClearWaiting`, `ListProcessing` | `pause_project`, then `pause_job` for each row |
| `ResumeProject`, `ListPending`, `SchedulePending`, `ListPaused` | `resume_project`, `resume_all` |
| `RetryJob`, `Supersede`, `RetryInsert`, `DeleteJob`, `DeleteWrite`, `UpdateProject` | the remaining endpoints |
| `Crash`, `Recover` | process death or `stop()`; `recover_interrupted_jobs` |

Loops over rows without an await (`ScheduleAll`) are one action, and the order in
which tasks of different rows join the line is left open. `Recover` is one action
because it finishes before the first request is served.

### IngestPipeline and WikiTransaction

A text is its version, an analysis the version it was made from, a generation the
record `[job, ana, text, blocks]`, a page the sequence of generations that
contributed to it, a checkpoint `[step, ana, gen]`, the cache the version whose
hash is stored. `WritePage` replaces or merges a page and appends to `log.md`; the
order of a generation's blocks is left open. `WriteRaises` is a failure inside the
`try`, `RestorePage` the rollback, page by page. `Crash` may leave empty the file
that was being written, because files are opened with `"w"` and written in place.

`WikiTransaction` promises that a generation's pages and the cache entry of its
source appear in one step, and that a death (`Die`) leaves behind no more than some pages
of one generation, or empty ones. The refinement maps the pages of a run that may still be
rolled back to their snapshot: the linearization point is the cache update.

### FeedbackTask

One row; each run and each request holds its own copy (`wcopy`, `ccopy`), because
every session loads the row once and `expire_on_commit` is off. `Legal` is the
check of `transition_status` on the copy, `Flush` the UPDATE of a commit: only the
attributes that were changed in the copy are written. A candidate is known by the
guidance it was compiled with. Guidance is known by the number of the request that
gave it. The history variables count the revisions that were answered with success
(`granted`), the approvals (`approvals`), the writes of a candidate (`wiki`) and the apply
requests that came while another was under way (`contested`), and say whether every
request so far came while no other was (`alone`), and no run either (`calm`). Two of the
documents' sentences on a task's history are stated for calm behaviours, and refuted
without `calm` (section 4); that an approval lets one apply write (`AppliedOnce`) is
stated of all behaviours.

### CaseIndex

Documents are known by the number of changes made to them (`docs`), each part of an
index by the documents it was made from; `tmp` and `final` are the two directories,
`None` when absent. A build runs from await to await: `StartBuild` (remove the
temporary directory, scan, write the keyword part), `Embed`, `CreateTable`, `Swap`
(manifest, remove the old index, rename, clear the marker). What another build has
done to the temporary directory decides whether a step works on it, makes it again or
raises. `kind` says who asked: `"bare"` builds of uploads and syncs look at nothing,
`"flagged"` and `"task"` ones go through `_do_rebuild`, whose `finally` is `Finish`.
`alone` (a history variable) is true of a build that has overlapped no other. `Crash`
may leave part of a directory that was being removed.

### GitSync

`syncLock` and `pubLock` name the holder. The code tests `locked()` and then enters
`async with lock`; taking a free `asyncio.Lock` does not suspend, so the two are one
action, nobody waits for a lock, and a test that fails is a refusal. `sync-all` is one
task with a set of repositories in `todo`; a refusal is an exception it swallows. `Pull` and
`Push` are the two steps with git commands, and may never be taken (section 3, fairness).

| action | code |
|---|---|
| `TriggerSync`, `TriggerGitSync`, `TriggerSyncAll`, `ScheduledSync` | the endpoints and the scheduler; the scheduler may name a repository that has left the table |
| `StartSync`, `ReadRepo`, `MarkSyncing`, `Pull`, `WaitReturns`, `WaitTimesOut`, `Conclude` | `sync_source_repository` and `_wait_for_jobs` |
| `JobDone`, `JobMoves` | what the ingest queue does to the job waited for (`held`: paused or superseded) |
| `TriggerPublish`, `FeedbackApplied`, `JobDone` | who publishes |
| `StartPublish`, `ReadProject`, `CheckSyncs`, `Push` | `_publish_project_to_git` |
| `CreateRepo`, `SetManual`, `DeleteRepo` | the repositories' endpoints |

The jobs of one sync are one job, the one that decides the wait. `cut` (a history
variable) holds the repositories whose sync died with the process.

### WikiWriters

A text is known by the request that wrote it. `req` holds each request with what it has
read (`snap`, `paths`, `got`, `ids`). The application and the stand-alone runtime are two
values of `app`; they differ in the tasks that rebuild.

| action | code |
|---|---|
| `AskPut`, `TakeIngest`, `AskRebuild`, `AskTask` | who begins: PUT of a page, a job, `/search/reindex`, an index task |
| `Snapshot`, `OpenPage`, `WritePage`, `IngestFails`, `RestorePage`, `Finalize` | the writes of the pipeline and of a PUT; `open(.., "w")` cuts the page an await before the text is there |
| `CopyWiki`, `EditPage`, `Collect`, `DropRepair` | the compiler: `WorkingCopy.create`, the writing tools, `collect_changes`, failure or rejection |
| `Apply`, `ApplyFails` | `_apply_wiki_changes` with its two git snapshots; `Git` is a commit, `Rollback` `_git_rollback` |
| `RemoveStore`, `ReadPage`, `NoVectors`, `Connect`, `DeleteChunks`, `Store`, `EmbedRaises`, `RebuildCases` | `rebuild_project_embeddings`, `embed_pages`, the tasks around them |

The history variables say which requests have been alone (`lone`), whether none have
overlapped since a rebuild that was (`calm`), which pages two requests have been writing
at once (`clash`), what each page should hold (`kept`), which pages' last change did
not get to the vectors (`behind`), and whether an apply has failed while git was busy
(`gitBusy`). A git command may fail without anybody noticing, because the thread of a
publish may hold `index.lock`; `gitBusy` is set by that choice, whatever the rollback does
to the pages.

### AgentTurn

Messages are what the provider and the conversation file depend on: how many turns of
history are shown, and for each assistant message how many calls it has and how many tool
messages answer it (`groups`). `executed` and `rejected` count calls against the budget,
`kept`, `note` and `compressed` are what is to be persisted, `requests` counts the
requests to the provider.

| action | code |
|---|---|
| `StartRound`, `Complete`, `Read`, `Retry` | a round of `run_agent_turn`, `complete_with_tools` under `_with_llm_retries` |
| `Compress`, `SumHistory`, `Shrink`, `SumTools` | `context_compress.py`: history first, tool groups if that is not enough |
| `Answer`, `AskTools`, `RunTool`, `ToolRaises`, `EndRound` | what the response asks for, `REJECT_MSG` above the budget |
| `Fallback`, `Stream` | the stream without tools when all rounds are used up |
| `Disconnect`, `Abort` | the client leaves; the polls that notice it |

### Conversations

`file` is each conversation's file (absent, whole or cut) and `listing` each store's
list. A project's chat keeps the history it read when the turn began and writes with an
await around each file operation (`BeginTurn`, `Answered`, `OpenMessages`,
`WriteMessages`, `ReadList`, `OpenList`, `WriteList`, `Finish`); an agent's reads and
writes both files in one step when the turn is done (`AppendTurn`); a visitor's turn
stores nothing (`Visit`, `PassOn`). `BeginDelete` and `DeleteAgentConv` are the
deletions, `Fails`, `Disconnect` and `Crash` what cuts a turn short. `told` holds the
turns whose client got the done event, `evaluated` those handed to the feedback loop.

### Registry

A request is two steps: what it checks (`Ask` and the action named for the endpoint), and
its commit (`Commit...`), between which others commit. On SQLite `create_agent` takes the
write lock while it validates; with PostgreSQL, which the code supports, the two steps
are real. `Restart` seeds the administrator. `OldBundles` are backups of an older
version, in which an agent may be bound to a case library. A new user gets the largest id
plus one (`IsNewId`), as SQLite gives it. A project whose row is deleted is `"gone"`, one that never
had a row `"none"`: ids are random and not given out again. `calm` says that requests have not
overlapped, `sought` (also a history variable) holds the model names that two projects have asked
for at once, each before the other's commit.

### Configuration

`stored` and `memory` are the overrides in the table and in the process, `git`, `pub` and
`repo` the Git fields of a project, of its publishing and of its source repositories.
`MigrateSource` and `MigratePublish` are the two migrations of a start-up, the first of
which is on disk before the second's transaction; `ProcessDies` may come between them. `edit`
is what each request holds between two awaits, `kept` the backup, `answered` the overrides whose
save was answered with success. The backup is read in two steps, as the export has a SELECT for
each table: `ExportProjects` reads the Git fields into `export`, `ExportSettings` the overrides and
the markers of the migrations, and others commit in between. `pieced` (a history variable, carried
by what is read and restored) says of rows that they come from a backup with an import between
the two. A session's flush writes what changed in the session (`Flushed`), so two requests
on one row do not always overwrite each other.

### Runtime

`dir` is the directory the bundle is extracted to, as the set of its parts, `configFile` the
configuration in it, `mem` what each process has loaded. `Launch`, `Unpack`, `FindOld`,
`RemoveOld`, `Place` and `ExtractFails` are `prepare_runtime_bundle`, `LoadConfig`,
`PutConfig` and `PutPrompt` the configuration, `StartRun` and `HookEnds` the hooks, `Exit`
and `Die` the end of a process. `raced` says that two processes have extracted at once,
`dirty` that an update was refused or cut; the last two are history variables.

## 3. Runs

Bounds are in the cfg files. Names with `Max` count events over a whole behaviour,
except `MaxAtOnce` (requests under way at once), sizes (`MaxUser`, `MaxHistory`,
`MaxAsked`) and settings of the code (`MaxToolCalls`, `MaxAttempts`, `MaxRetries`,
`MaxRevisions`); `Copies` is the number of tasks that may be alive for
one job. Symmetry of interchangeable model values is declared in the runs without a
liveness property (`queue_core`, `pipeline`, `registry`, `configuration`,
`conversations`, `runtime`, `wiki_writers`), whose properties are symmetric in them.

| run | instance | shows |
|---|---|---|
| `queue_core` | 2 jobs of one project, 2 tasks per job, 3 requests of any endpoint, 1 crash | jobs never overlap (`Serial`), no task runs a job too often (`RetryBudget`); `IInv`, before it is proved inductive |
| `queue_live` | 2 jobs, 2 clients at once, no pauses, 1 crash | the registry names exactly the live tasks and no row is left without one (`TasksMatchRows`, in `CalmInv`, which is inductive), `StepForward`, and under fairness `JobsSettle` |
| `pipeline` | 2 jobs of one source, a failure anywhere, an edit, a pause, a crash at any step | `Transaction` (refinement of `WikiTransaction`), `FreshJobAccepted`, `IInv` (the log gets one entry, the checkpoint is not behind the row) |
| `feedback` | 2 background runs, 2 reviewers with 3 requests that may overlap, 1 crash | `Inv` (what is reviewed has a candidate, what waits has a run, and the inductive invariant), `AppliedOnce`, `RunsSettle`; in calm behaviours `LegalHistory`, `RevisionsCount` |
| `case_index` | 2 builds of every kind, an uploader, 3 rebuilds, 1 crash | `AlonePublishesComplete`, `RebuildsSettle`, `IInv` (one active task) |
| `git_sync` | 2 repositories, 2 syncs, 2 publishes, 2 requests (publishes of jobs come on top), 1 crash | `PublishExcludesSync`, `EveryoneLeaves` (who does not hang in git ends), `IInv` (a status syncing has its sync) |
| `wiki_writers` | 3 requests, 2 at once, 2 pages of one stem, one of them there at first | `SavedStays` (a failed run or apply takes back its own writes only), `RebuildIsExact`, `VectorsFollow`, `IInv` (one task per target; what requests know between their awaits) |
| `agent_turn` | a budget of 3 calls, responses with up to 2, 3 attempts, a history of 4 turns | `AnsweredBeforeAsking`, `RoundsSuffice`, `TurnEnds`, `IInv` (the budget; each stage's share of the requests; what is persisted) |
| `conversations` | 3 turns or deletions, 2 conversations of a project and 1 of an agent, 1 crash | `HoldsWhatWasTold`, `AgentKeeps`, `ConversationsInv` (list and files agree) |
| `registry` | 2 clients, 4 requests, 2 users, 2 projects, an agent, 1 restart | `ModelNamesApart` (whatever else overlaps), `RestoreIsExact`, `RegistryInv` (an administrator is left, links and bindings are legal) |
| `configuration` | 2 clients, 3 requests, 2 fields, 2 starts | `SavedSticks`, `PublishKept`, `ConfigurationInv` (memory follows the table, source URLs are not published to, manual mode); backups are read while others write |
| `runtime` | 2 processes, 3 launches, 2 updates, 2 hook runs of 2 scripts, 1 death | `ServesWhole`, `UpdatesStay`, `RuntimeInv` (results of one run, in order) |

Each property of each run is violated by a mutant of the module (the definitions that
begin with "Mutant of"): a dropped guard, a missing reset, a stale read.

Why the bounds are enough: each hazard involves one row, file, directory or lock and at
most two other actors, so two jobs of one project (or of one source), two clients, two
background runs, two builds, two syncs, two processes contain every pair of conflicting
accesses; one crash is enough for each file and each row to be cut once and recovered
once, and `MaxRetries` 1 lets an attempt fail, be retried and be given up. `queue_core`
has one client, `queue_live` two. Publishing a repository created under the publish's eyes
takes two requests (`TriggerPublish`, `TriggerGitSync`). Three requests on the wiki let two overlap and a
third find what they left; three calls of budget and two per response put the end of the
budget inside a response. The theorems do not depend on
bounds.

**History variables that weaken a property.** Several properties hold only while requests
do not overlap (`calm`, `alone`, `serial`, `clash`, `sought`, `contested`, `raced`), or unless something
else went before (`gitBusy`, `pieced`, `early`, `dirty`), because the code takes no lock there; what
happens without them is in section 4. They record causes (who was under way, whether git
failed, what was read around an import) and never what came of them, and no action looks at
them.

**Fairness.** `WF` of each task's, build's and run's steps, of each client's where the run
waits for one, of `Recover`, `Work` and `TurnStep`, and of those of a sync and a publish
that run no git command (`SyncGoesOn`, `PublishGoesOn`). The event loop runs every coroutine
that is ready; awaited calls return or raise, because LLM calls have timeouts (`config.py:55,
93`), the client library bounds the embedding calls, and the database has its own
(`database.py:23`); an hour passes (`WaitTimesOut`); and a restarted process runs its start-up
code. Git commands have no timeout (`_run_git`, `git_sync.py:66-73`), so nothing is assumed of
`Pull` and `Push`, of the publish that ends a job (`pc[t] = "publish"` in `IngestQueue`), nor of
the requests of `FeedbackTask`, of which an apply publishes. `EveryoneLeaves` says of each sync
and each publish that it ends or hangs in git itself, and `JobsSettle` of a job that it
settles if no publish of its project hangs, since that one would keep the project's lock.
No user is assumed to send a request, no step to succeed, and no ingest job to end.
`asyncio.Lock` is fair by construction: the queue's line is a queue.

**Deadlock** is checked in `agent_turn`, whose ended turns stutter by an action of their
own. In the other runs it is not: when nothing is pending and the bounds are used up, the
system rests.

## 4. Known divergences

The modules state more than the runs check: sentences of documents, comments and
docstrings that TLC refutes. To see the trace, put the property into the named cfg in
place of its other properties, without SYMMETRY. For the queue's, start from
`queue_live.cfg` with `MaxRequests = 3` and `Ops = {"enqueue", "pause",
"resume", "pauseAll", "resumeAll", "update"}`.

| property | in | sentence | what happens |
|---|---|---|---|
| `InterruptedJobRuns` | queue | `queue.py:6-7`, interrupted jobs are re-enqueued | recovery skips a paused project; resuming it lists pending rows only, and the processing row is nobody's |
| `ResumedJobRuns` | queue | a resumed job is scheduled | resume reads `_tasks` between `JobPaused` and the done callback: no task, no schedule |
| `ClearedJobStaysCleared` | queue | pausing a project clears waiting jobs | the waiting task of a deleted row still executes it |
| `AttemptsBounded` | queue | `docs/ingest-compile-pipeline.html:375`, MAX_RETRIES = 2 | a job whose row was deleted by a project pause reads its retry count as 0 and is retried without end |
| `NoSecondTask` | queue | `_tasks` holds the task of a job | two tasks for one job after a resume-all during an enqueue |
| `DoneStaysDone` | queue | done is final | `pause_job` checks, awaits and writes by id |
| `HashOfIngestedText` | `pipeline` | `cache.py:36`, unchanged since last ingest | an edit between two attempts: new text is cached, its pages are made from the old one |
| `ResumeAccepted` | `pipeline` | `pipeline.py:13`, checkpoints allow resuming | "Checkpoint missing" after a crash inside the write; also, without a crash, when another job of the source finishes first |
| `CacheReadable` | `pipeline` | the same | `ingest-cache.json` cut by a crash is not parsed |
| `WrittenOnce` | `pipeline` | `models.py:21`, step 3 is written | the attempt after a crash writes again what the row counts as written |
| `LegalHistory`, `RevisionsCount`, without `calm` | `feedback` | `docs/feedback-repair-loop.html:51, 61, 67` | two requests, or a request and a run, work on copies of one row |
| `AppliedOnce` without `contested` | `feedback` | `feedback/router.py:237`, "Task must be approved before applying" | two applies of one approval both write, because the row is marked after the publish |
| `RepairsOnlyEdit` | `wiki_writers` | `wiki_tools.py:10`, "diff the working copy vs the original" | the copy is compared with the live wiki when the compiler ends: what others saved meanwhile is in the changes, reverted, and written by the apply |
| `BehindIsMarked` | `case_index` | an upload marks the index stale | a document uploaded during a build is lost from the index, which clears the marker and shows as ready |
| `ReadyIsComplete` | `case_index` | `builder.py:250`, "Atomic swap" | parts of two overlapping builds, or of a removal cut short, under one manifest |
| `SucceededPublishes` | `case_index` | `case_index/router.py:108`, the task says the index was rebuilt | a build without documents or embeddings returns a manifest that says failed, and its task succeeds |
| `SuccessIsDone` | `git_sync` | `git_sync.py:783`, "all ingest jobs reach a terminal state" | a deleted job counts as done; a failed one that is retried is not counted as failed |
| `NoneSkipped` | `git_sync` | `git_sync.py:746`, "Sync all source repositories" | the jobs of the first repository publish automatically and the second sync is refused; its row says nothing |
| `AdminRemains` without `calm`, `ModelNamesApart` without `sought` | `registry` | `admin/router.py:734`, `knowledge_router.py:104` | two administrators demote each other at once; two projects get one model name, and the API fails on it |
| `SourceStaysSource`, `PublishKept`, without `pieced` | `configuration` | `database.py:308-310`, the old fields become `publish_*`, those of sources stay apart | the export reads `projects` (`admin/router.py:108`) before `system_settings` (112); an import in between gives a backup whose fields and markers of migrations do not match, and the start after its restore migrates twice, or not at all |
| `SavedSticks` with `"feedback"` for `"llm"` | `configuration` | the settings that were saved are in effect | nested groups are replaced by a shallow update |
| `HoldsWhatWasTold`, without `alone` | `conversations` | a conversation stores its turns | turns of one project's chat that overlap store the history each has read |
| `ServesWhole` without `raced`, `UpdatesStay` without `dirty` | `runtime` | a bundle is extracted once; an update that was refused changes nothing | a process removes what another has just placed; an update is written before it is validated, stays in the file, and the next launch fails |

Met while reading, and stated by no property:

- Feedback: forced recompilation (`feedback/router.py:205`) is refused in half of the
  statuses it is offered for; a candidate without changes can be approved and never
  applied; a task that is rejected during its apply ends as applied; a reevaluation between
  another reviewer's read and write of an approval clears the candidate that is approved
  (`ReviewableHasCandidate` is about one reviewer at a time).
- Git: a command that hangs keeps its repository, or the publishing of its project, locked until
  the process ends, and in a job's publish the project's queue; a crash leaves the status
  `syncing` of a repository and of a publish for ever (`SyncingIsHeld` names the exception); two refreshes of the schedule that overlap may
  leave jobs of rows that were read before a change; the project's own Git fields
  overwrite `sync_enabled` of a repository in manual mode
  (`source_repositories.py:186-214`) against `projects/router.py:511`.
- Wiki: the snapshot before an apply fails silently when git is busy, so a rollback
  reverts more than the apply wrote (`SavedStays` without `gitBusy`); vectors are not embedded anew after an apply or a
  rollback; page ids are stems, so pages of one stem overwrite each other's chunks; a
  rebuild whose embedding call fails leaves no vectors and a task that succeeded; a page
  saved during an ingest run that has its snapshot is lost by the run.
- Rows: SQLite is opened without `PRAGMA foreign_keys`, so `ON DELETE` never acts, and a
  user id that is given out again inherits memberships; `create_project` may link a case
  library to a case library, which `update_project` refuses; `_ensure_knowledge_agent` binds an agent to a case library,
  which `agents/service.py:44` refuses; a backup lacks API tokens, model names and manual
  modes, and is read table by table.
- Configuration: an older backup leaves its migrations due until the next start; the
  source migration runs before the publish one, against the comment at
  `database.py:305-311`.
- Chat: a disconnect while a file is open leaves it empty, and later requests fail; a
  compressed agent turn that overlaps another drops it.
- Runtime: a death inside an update leaves an empty file that is read as the defaults; a
  GET followed by a PUT writes resolved paths and expanded `${ENV}` values; two processes
  write one configuration file and each trusts its memory.

## 5. Proofs

`IngestQueue_proofs` proves for all jobs, projects, clients, retries and bounds:

| theorem | statement |
|---|---|
| `InductiveInvariant` | `Spec => []IInv` (its first conjunct is the type invariant) |
| `SerialIngest` | `Spec => []Serial` |
| `FailedIsExhausted` | `Spec => []FailedExhausted` |
| `RetriesBounded` | `Spec => []RetryBudget` |
| `CalmInvariant` | if `Ops` has no pauses and resumes, `Spec => []CalmInv` |
| `StepsForward` | under the same hypothesis, `Spec => StepForward` |

Assumption: `QueueAssumption` (finitely many jobs, each of one project, natural
bounds). `Serial` is not inductive: `InsideHolds` says that a task past the lock is
the head of its line, so two of them are the same task. `FailedExhausted` and
`RetryBudget` need `SettleSeesRow` (between the except branch's read and its write
nobody changes the count, because only the lock's holder does and there is one) and
`AttemptsCounted` (every attempt but the running one is counted in the row), and
these need `KnownRows` (nothing refers to a row that was never inserted, so a new
row starts with nobody working on it). Each action has one step of the proof per
conjunct it can disturb.

`CalmInv` is about a system whose requests enqueue, retry and delete
(`Ops \subseteq {"enqueue", "retry", "delete"}`); the hypothesis is needed, because a
resume may create a second task for a job (`NoSecondTask`, section 4). It contains
`TasksMatchRows`, which is not inductive alone: that the done callback leaves no row behind
needs `StatusFollowsTask`, that a schedule overwrites no task needs `RequestsApart` (a
request that is to schedule a row is the only one to have it, and nobody has written it
since), and that recovery creates each task once needs `DownIsEmpty`. `StepForward` needs
`StepsReached`: no task starts, or is, before the step its row has. `IInv` is used next to
`CalmInv` in every step.

`IngestPipeline_proofs`, for any jobs, sources, pages, texts, generations, retries, pauses,
edits and crashes (`PipelineAssumption`, `NoneIsNoGen`: each job has a source, the log is a
page, `None` is neither a text nor a generation):

| theorem | statement |
|---|---|
| `InductiveInvariant` | `Spec => []IInv` |
| `Implements` | `Spec => Transaction` |
| `FreshAccepted` | `Spec => []FreshJobAccepted` |
| `LogAndCheckpoints` | `Spec => [](LogOnce /\ CheckpointBehindRow)` |

`SnapshotKept` says what each page of a generation holds while it is written and rolled
back: what the snapshot has, the result of the block, or a cut file. With it
each step of the pipeline leaves the mapped wiki as it is, except `UpdateCache`, which is
`Publish`, and `Crash`, which is `Die`. `FreshJobAccepted` needs `CheckpointsWhole` (a
checkpoint has what its step says) and `LocalsFollow` (what a run holds is what is, or is about
to be, in the checkpoint). `LogOnce` counts entries, and is preserved in the form of
`LogSettled`: entries of the settled log are of different jobs, a logged job has its
step behind it, and the generation in a checkpoint is not in the log unless its run is
about to remove it. That says why an attempt that finds a checkpoint of another job does not log
that job twice.

`FeedbackTask_proofs`, for any number of background runs and reviewers and any limits
(`FeedbackAssumption`: natural bounds, `None` is no number):

| theorem | statement |
|---|---|
| `InductiveInvariant` | `Spec => []IInv` |
| `WaitingIsCarried` | `Spec => []Carried` |
| `RevisionsLimited` | `Spec => []RevisionsCount` |
| `StatusMovesLegally` | `Spec => LegalHistory` |
| `ApprovalsAreSpent` | `Spec => []AppliedOnce` |
| `ReviewedHasCandidate` | `Spec => []Inv` |

Copies are the difficulty: a step checks its copy and writes the row. `RequestsAccepted` and
`RunsReady` say what a copy may be when its holder goes on, `RunsCarry` is `Carried` with the
status of the copy in it, and `CalmIsAlone` says that in calm behaviours the copy is the
row, from which what is stated of calm behaviours follows. The proofs have a lemma for what each
kind of step does to the row, and use that rather than the actions. `AppliedOnce` needs
`ApprovalsLeft`: an approval that has not been used is there for the applies that are about to write
(`Unwritten`), and when none is under way a row that is approved has one left. A run whose copy is old
cannot make it approved again, because no run moves a row there. The candidate of what is reviewed
is kept by `CandidateStays`, with `AloneIsOne`: while requests come one at a time, what another
would clear is not under review.

`WikiWriters_proofs`, for any requests, pages and ids, and any number of requests at once
(`WritersAssumption`: every page has an id, the wiki may begin with any of a set of sets of
pages, the markers `Old`, `Empty` and `None` differ from each other and from the requests):

| theorem | statement |
|---|---|
| `InductiveInvariant` | `Spec => []IInv` |
| `SavedPagesStay` | `Spec => []SavedStays` |
| `RebuildExact` | `Spec => RebuildIsExact` |
| `VectorsFollowPages` | `Spec => []VectorsFollow` |

`PhaseFits` ties what a request has read to where it is. `PagesFollow` says for each
writer how far its pages are from what was saved last: its own text, a file that was cut, or
the text it can put back from its snapshot; with `WritersFollow` (a page outside `clash` has one
writer) a rollback of one request cannot undo another's page. An apply writes in one step, so what
its rollback takes back is what was staged when it began; that this is what was saved fails only
while git is busy, so all three are stated for `~gitBusy`, which the steps that fail for any other
reason leave true. `AloneIsAlone` makes the history
variables mean what they are named for. `LoneRebuild` says that a rebuild that is alone has an empty
store until it adds its chunks, and that those it has are the ones of the pages it has read, so
`Store` leaves exactly the pages. For `VectorsFollow`, `ChunksFollow` says that chunks that are about
to be added are of what the pages hold, that these pages are behind until then, and that of
their ids old chunks are left only where the request has still to delete, or was refused; `RowsFollow`
says it of the store. All hold while requests do not overlap (`calm`), and `IInv` says so.

`CaseIndex_proofs`, for any builds, uploaders, documents and crashes
(`CaseIndexAssumption`: natural bounds, `None` is none of them):

| theorem | statement |
|---|---|
| `InductiveInvariant` | `Spec => []IInv` |
| `TasksExclusive` | `Spec => []OneActiveTask` |
| `AloneComplete` | `Spec => AlonePublishesComplete` |

The flag excludes nothing, so `OneActiveTask` rests on the table: `TaskFollows` ties a
task to its build, which lets go of it only at its end. `AloneOwnsTmp` says what the
temporary directory of a build that is alone contains at each of its steps;
`StartBuild` establishes it whatever was there, because it removes the directory
first, and every step of another build ends being alone. `DocsScanned` is needed
because a build without documents returns before it has scanned anything.

`GitSync_proofs`, for any repositories, syncs, publishes, requests and crashes
(`GitSyncAssumption`: natural bounds, `NoOne` is neither a task nor a repository):

| theorem | statement |
|---|---|
| `InductiveInvariant` | `Spec => []IInv` |
| `PublishAlone` | `Spec => []PublishExcludesSync` |
| `SyncingTrue` | `Spec => []SyncingIsHeld` |

`PublishExcludesSync` needs `UnseenAreFree`: a repository that is missing from the
list the publish has read was created since, while the publish held its lock, so no
sync of it can have started; that needs `KnownRepos` (no lock of a repository before
its row) and `LockOwners` (who is past the acquisition is who holds the lock). The
step lemmas have one step per action and one per conjunct.

`AgentTurn_proofs`, for any budget, number of attempts, history and size of a response
(`AgentTurnAssumption`: natural numbers, some of them positive):

| theorem | statement |
|---|---|
| `InductiveInvariant` | `Spec => []IInv` |
| `CallsAnswered` | `Spec => []AnsweredBeforeAsking` |
| `RoundsBounded` | `Spec => []RoundsSuffice` |
| `BudgetIsKept` | `Spec => [](BudgetKept /\ FallbackIsDeserved)` |
| `HistoryPersisted` | `Spec => []PersistedCoversPrompt` |

`AnsweredBeforeAsking` needs `LastOpen`: while tools run, only the last group has calls
without an answer, and it has as many answers as calls have been looked at; compression
removes groups from the front and whole, so what remains is answered. `FallbackIsDeserved`
needs `RoundsCost`: each round that was not the last has used or lost a call, so after
`max_tool_calls + 2` of them two calls were refused. `RequestsBounded`, the other half of
`RoundsSuffice`, is preserved as `RequestsShare`: each round has three stages that ask the
model, and each stage has made `MaxAttempts` requests at most. It multiplies two
constants, which the provers do only one step at a time (lemma `Share`).

`Stores_proofs`, for four components.

*Runtime*, for any processes, callers and hooks and any bounds on events (`RuntimeAssumption`: natural
numbers, at least one script, `"startup"` is no caller and `Nothing` no configuration):

| theorem | statement |
|---|---|
| `RuntimeInvariant` | `RuntimeSpec => []RuntimeInv` |
| `RuntimeServesWhole` | `RuntimeSpec => []ServesWhole` |
| `RuntimeUpdatesStay` | `RuntimeSpec => []UpdatesStay` |

`ServesWhole` and `UpdatesStay` follow from `BundleWhole`: until two processes extract at once, one
that extracts finds no directory, so it removes nothing, and whoever is past extraction finds
every part. `HooksInOrder` needs `ProcessesFit`: two runs of hooks that are both on have
overlapped, so a list that is not `mixed` belongs to one run, at the command after its
last result.

*Conversations*, for any requests, conversations and crashes (`ConversationsAssumption`: no
conversation is of both kinds, `"none"` is no conversation):

| theorem | statement |
|---|---|
| `ConversationsInvariant` | `ConversationsSpec => []ConversationsInv` |
| `ConversationsHoldWhatWasTold` | `ConversationsSpec => []HoldsWhatWasTold` |
| `AgentsKeepTurns` | `ConversationsSpec => []AgentKeeps` |

What is stated of quiet stores is not inductive: between the awaits of a turn the file is ahead
of what was told, and the list behind the file. `MessagesKept` and `CountsKept` say how far, for
each place a request may be at; `ListKept` says that a list about to be written has every
conversation that was told, so a list that was cut is never replaced by a shorter one.
They need `Alone` (one request at a time works in a store) and `TurnsFit` (what was read, stored
or dropped are turns of that conversation that have been written). `AgentKeeps` and `AgentsKept`
need none of that, since an agent's chat reads and writes in one step; they are inductive with
`TurnsFit`, and hold while turns overlap.

*Configuration*, for any keys, clients, requests and starts (`ConfigurationAssumption`: natural
bounds, at least one start, and `NoRow` is no set of keys, that is, a section without a row is
not one whose row overrides nothing):

| theorem | statement |
|---|---|
| `ConfigurationInvariant` | `ConfigurationSpec => []ConfigurationInv` |
| `ConfigurationSavedSticks` | `ConfigurationSpec => []SavedSticks` |
| `ConfigurationPublishKept` | `ConfigurationSpec => []PublishKept` |

`SavedSticks` is a statement about two copies: `AnsweredIsStored` carries it in the table, through
`ReadIsCurrent` (a lone request writes what it computed from the row that is still there), and
`MemoryFollowsDb` from the table to the memory. `PublishKept` and `SourceStaysSource` are about the two
migrations: `MigratesRightly` says of any state of the fields what they will be once the
migrations that are due have run, and `AllMigrateRightly` says it of the tables, of the backup that
is kept, of one that is being restored, and of the rows an export has read, together with the
markers it is still to read: an edit or a start in between changes no marker while there are
requests, and an import makes the rows `pieced`.

*Registry*, for any users, projects, agents, model names, clients and restarts
(`RegistryAssumption`: natural bounds, at least one user, `None` is no id and no name):

| theorem | statement |
|---|---|
| `RegistryInvariant` | `RegistrySpec => []RegistryInv` |
| `RegistryNamesApart` | `RegistrySpec => []ModelNamesApart` |
| `RegistryRestoresExactly` | `RegistrySpec => RestoreIsExact` |

Every commit acts on what was checked before others committed. `StillHolds` says that what a lone
request has checked is true when it commits, and `RequestFits` what remains true whatever is
committed in between. A backup is read table by table and restored later, so `BundleFits` says of
the tables in it what the invariant says of the rows. `LibrariesUnbound` holds while requests overlap
because a project never changes its type: `OfOneKind` says that one assignment of kinds fits
the rows, the backup and every request, so no binding that a request has validated can become
one to a case library. For `RestoreIsExact` the lemma `ImportEnds` shows that the step that ends an
import is its commit, and `ImportIsExact` what it leaves. `ModelNamesApart` has an inductive
invariant of its own, `NamesInv`: what the lookup of a name has found (`NameStillFree`) stays true
until the commit, since whoever could take the name meanwhile asks for it too, and then the name
is in `sought`; a project that is deleted or comes back from a backup has no name.

Only model-checked: what is stated under fairness (`JobsSettle`, `RunsSettle`, `RebuildsSettle`,
`EveryoneLeaves`, `TurnEnds`), because the prover has neither fairness nor ENABLED. Every other
property of every run is a theorem; `CalmInv` and `StepForward` of `IngestQueue` are under the
hypothesis of no pauses, as in their runs.

## 6. Not modelled

- Failures of the disk other than process death (a full disk, permissions), of the
  database, and of the rollback itself.
- The texts: prompts, front matter, the block parser's lines, progress messages, the
  messages' formats of the LLM providers, how a page is cut into chunks. No property is
  about them, and string functions are better tested than model-checked.
- Reads: search, rank fusion and token budgets (floating-point scores without state), the
  knowledge graph and lookups (string matching over the pages of one request), listings,
  status endpoints. What a read may find is what the invariants say of the state.
- Uploads and documents beyond the change of a source they make; auth tokens, passwords,
  skills; the OpenAI-compatible translation, which keeps nothing; packing a bundle.
- Deleting a project while its jobs, syncs or builds run. Every component would have to
  be composed with it, and each finds its row or directory gone at another await.
- In `IngestQueue`, what `maybe_auto_publish_project_to_git` does (it returns, raises when the
  project is gone, or hangs), and the tracker of background enqueues (`enqueue_service.py`), which
  calls the same `enqueue_many`.
- `find_duplicate` of the feedback service, which nothing calls.
- In `CaseIndex`, the parsing of cases, search, and the runtime's own reindexing.
- In `GitSync`, the git commands, the manual ones included, the refresh of the
  schedule, and the second copy of the default repository's status.
- In `WikiWriters`, process deaths (they are in `IngestPipeline`), a second attempt to
  apply one repair, and the compiler's reading tools.

## 7. Plan

1. The enqueue tracker, and `SyncSchedule`: the refresh of the schedule against changes
   of its rows.
2. A run of a repair that is taken up after a restart, once the code has one
   (`feedback/queue.py:85`), and `RepairsOnlyEdit` once the changes of a repair are computed
   against the pages it has copied.
3. Operators, each against a reference definition: file status resolution and
   selection, front matter merge, block parsing; in modules of their own, since the
   recursive ones are out of the prover's reach.
