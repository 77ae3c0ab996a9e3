---------------------------- MODULE IngestQueue ----------------------------
(***************************************************************************)
(* The ingest task queue of app/ingest/queue.py with the HTTP handlers of  *)
(* app/ingest/router.py that drive it.                                     *)
(*                                                                         *)
(* One row of the ingest_jobs table is a job.  A job is run by an asyncio  *)
(* task; the tasks of one project wait on one asyncio.Lock, in order.      *)
(* Every await on the database is a place where another task or handler    *)
(* may run, so each database operation is an action of its own and what a  *)
(* coroutine read before an await is kept in its local variables.          *)
(*                                                                         *)
(* auto_ingest is seen from outside: its pause checks, the steps it        *)
(* persists, its early returns and its exceptions.  IngestPipeline models  *)
(* what it does to the disk.                                               *)
(***************************************************************************)
EXTENDS Integers, FiniteSets, Sequences, SequencesExt

CONSTANTS
    Jobs,        \* job ids (uuid4, never reused)
    Projects,
    ProjectOf,   \* the project of each job
    Clients,     \* concurrent HTTP requests
    Copies,      \* bound: asyncio tasks alive at once for one job
    MaxRetries,  \* MAX_RETRIES
    MaxRequests, \* bound: requests served
    MaxCrashes,  \* bound: process deaths
    Ops          \* the endpoints that are called

OpNames == {"enqueue", "pause", "resume", "pauseAll", "resumeAll", "retry", "delete", "update"}

ASSUME QueueAssumption ==
    /\ IsFiniteSet(Jobs) /\ ProjectOf \in [Jobs -> Projects]
    /\ Copies \in Nat /\ MaxRetries \in Nat
    /\ MaxRequests \in Nat /\ MaxCrashes \in Nat
    /\ Ops \subseteq OpNames

Tasks == Jobs \X (1..Copies)
JobOf(t) == t[1]
ProjOf(t) == ProjectOf[JobOf(t)]
RunsCap == MaxRetries + 2      \* bound: _execute calls counted per task

VARIABLES
    status,    \* ingest_jobs.status; "none" not inserted yet, "gone" deleted
    retry,     \* ingest_jobs.retry_count
    step,      \* ingest_jobs.step
    paused,    \* projects.ingest_paused
    up,        \* the process is serving
    registry,  \* IngestQueue._tasks: the copy registered for a job, 0 for none
    line,      \* the project's lock: its holder first, then the waiters
    pc,        \* where each task is
    at,        \* the step this run of auto_ingest starts from or has reached
    seen,      \* retry_count as the exception handler read it
    runs,      \* _execute calls made by this task
    cpc,       \* where each request is
    scope,     \* the project of a pause-all or resume-all request
    fetched,   \* rows <<job, step>> a request has read and still works on
    picked,    \* the row it is working on
    requests, crashes

rowVars    == <<status, retry, step, paused>>
taskVars   == <<registry, line, pc, at, seen, runs>>
clientVars == <<cpc, scope, fetched, picked>>
boundVars  == <<requests, crashes>>
vars == <<rowVars, taskVars, clientVars, boundVars, up>>

Statuses == {"none", "pending", "processing", "paused", "done", "failed",
             "superseded", "gone"}
TaskPcs == {"none", "lock", "wait", "start", "open", "parse", "check", "work",
            "skipped", "written", "publish", "failing", "settle", "exit", "ended"}
ClientPcs == {"idle", "enqCheck", "enqSched", "pauseRead", "pauseWrite",
              "resumeRead", "resumeWrite", "resumeCheck", "resumeSched",
              "allClear", "allList", "allPending", "allSched", "allRest",
              "retryWrite", "retryInsert", "deleteWrite"}
Steps == 0..3
Rows == Jobs \X Steps

\* The row is in the table: an UPDATE or DELETE by id touches it.
Exists(j) == status[j] \notin {"none", "gone"}
SetStatus(j, s) == status' = [status EXCEPT ![j] = IF Exists(j) THEN s ELSE @]
SetStep(j, s) == step' = [step EXCEPT ![j] = IF Exists(j) THEN s ELSE @]
JobsIn(p) == {j \in Jobs : ProjectOf[j] = p}
RowsWith(p, ss) == {<<j, step[j]>> : j \in {i \in JobsIn(p) : status[i] \in ss}}

Init ==
    /\ status = [j \in Jobs |-> "none"]
    /\ retry = [j \in Jobs |-> 0]
    /\ step = [j \in Jobs |-> 0]
    /\ paused = [p \in Projects |-> FALSE]
    /\ up = TRUE
    /\ registry = [j \in Jobs |-> 0]
    /\ line = [p \in Projects |-> <<>>]
    /\ pc = [t \in Tasks |-> "none"]
    /\ at = [t \in Tasks |-> 0]
    /\ seen = [t \in Tasks |-> 0]
    /\ runs = [t \in Tasks |-> 0]
    /\ cpc = [c \in Clients |-> "idle"]
    /\ scope = [c \in Clients |-> {}]
    /\ fetched = [c \in Clients |-> {}]
    /\ picked = [c \in Clients |-> {}]
    /\ requests = 0
    /\ crashes = 0

-----------------------------------------------------------------------------
(* _schedule_task, for every row of a loop that does not await.             *)

Free(j) == {k \in 1..Copies : pc[<<j, k>>] = "none"}
NewCopy(j) == CHOOSE k \in Free(j) : TRUE
NewTask(r) == <<r[1], NewCopy(r[1])>>

ScheduleAll(rows) ==
    /\ \A r \in rows : Free(r[1]) # {}
    /\ LET new == {NewTask(r) : r \in rows}
           In(p) == {t \in new : ProjOf(t) = p}
       IN /\ pc' = [t \in Tasks |-> IF t \in new THEN "lock" ELSE pc[t]]
          /\ at' = [t \in Tasks |->
                      IF t \in new THEN (CHOOSE r \in rows : NewTask(r) = t)[2] ELSE at[t]]
          /\ registry' = [j \in Jobs |->
                      IF \E t \in new : JobOf(t) = j THEN NewCopy(j) ELSE registry[j]]
          /\ \E ord \in [Projects -> UNION {SetToSeqs(S) : S \in SUBSET new}] :
                /\ \A p \in Projects : ord[p] \in SetToSeqs(In(p))
                /\ line' = [p \in Projects |-> line[p] \o ord[p]]
    /\ UNCHANGED <<seen, runs>>

-----------------------------------------------------------------------------
(* The asyncio task: _run_job, _execute and the hooks auto_ingest calls.    *)

Goto(t, l) == pc' = [pc EXCEPT ![t] = l]
OnlyPc == UNCHANGED <<rowVars, registry, line, at, seen, runs, clientVars, boundVars, up>>

\* Mutant of Holds: one lock per job instead of one per project.
HoldsJobLock(t) ==
    \E i \in DOMAIN line[ProjOf(t)] :
        /\ line[ProjOf(t)][i] = t
        /\ \A k \in 1..(i - 1) : JobOf(line[ProjOf(t)][k]) # JobOf(t)

Holds(t) == line[ProjOf(t)] # <<>> /\ Head(line[ProjOf(t)]) = t

AcquireLock(t) ==
    /\ pc[t] = "lock" /\ Holds(t)
    /\ Goto(t, "wait") /\ OnlyPc

\* _wait_until_resumed: polls while the row is paused, the lock held meanwhile.
WaitUntilResumed(t) ==
    /\ pc[t] = "wait" /\ status[JobOf(t)] # "paused"
    /\ Goto(t, "start") /\ OnlyPc

StartExecute(t) ==
    /\ pc[t] = "start"
    /\ SetStatus(JobOf(t), "processing")
    /\ runs' = [runs EXCEPT ![t] = IF @ < RunsCap THEN @ + 1 ELSE @]
    /\ Goto(t, "open")
    /\ UNCHANGED <<retry, step, paused, registry, line, at, seen, clientVars, boundVars, up>>

\* check_pause at the three places before a stage; JobPaused ends the run.
CheckPause(t) ==
    /\ pc[t] \in {"open", "check"}
    /\ Goto(t, IF status[JobOf(t)] = "paused" THEN "exit"
               ELSE IF pc[t] = "open" THEN "parse" ELSE "work")
    /\ OnlyPc

ParseSource(t) ==
    /\ pc[t] = "parse"
    /\ \/ /\ \E k \in {at[t]} \cup at[t]..2 : at' = [at EXCEPT ![t] = k]
          /\ Goto(t, "check")       \* the checkpoint may be ahead of the row
       \/ Goto(t, "skipped") /\ UNCHANGED at    \* empty document or cache hit
       \/ Goto(t, "failing") /\ UNCHANGED at
    /\ UNCHANGED <<rowVars, registry, line, seen, runs, clientVars, boundVars, up>>

FinishStep(t) ==                  \* analysis or generation: checkpoint, then on_step
    /\ pc[t] = "work" /\ at[t] < 2
    /\ at' = [at EXCEPT ![t] = @ + 1]
    /\ SetStep(JobOf(t), at[t] + 1)
    /\ Goto(t, "check")
    /\ UNCHANGED <<status, retry, paused, registry, line, seen, runs, clientVars, boundVars, up>>

WritePages(t) ==                  \* a pause during embedding is swallowed there
    /\ pc[t] = "work" /\ at[t] >= 2
    /\ \/ SetStep(JobOf(t), 3) /\ \E l \in {"written", "failing"} : Goto(t, l)
       \/ Goto(t, "skipped") /\ UNCHANGED step      \* no FILE block parsed
    /\ UNCHANGED <<status, retry, paused, registry, line, at, seen, runs, clientVars, boundVars, up>>

StageRaises(t) ==
    /\ pc[t] = "work"
    /\ Goto(t, "failing") /\ OnlyPc

CompleteJob(t) ==
    /\ pc[t] \in {"skipped", "written"}
    /\ SetStatus(JobOf(t), "done")
    /\ SetStep(JobOf(t), 3)
    /\ Goto(t, IF pc[t] = "written" THEN "publish" ELSE "exit")
    /\ UNCHANGED <<retry, paused, registry, line, at, seen, runs, clientVars, boundVars, up>>

\* maybe_auto_publish_project_to_git: reports failure by returning FALSE.
AutoPublish(t) ==
    /\ pc[t] = "publish"
    /\ Goto(t, "exit") /\ OnlyPc

\* Mutant of ReadFailedRow: the retry starts over.
RetryFromScratch(t) ==
    /\ pc[t] = "failing"
    /\ seen' = [seen EXCEPT ![t] = IF Exists(JobOf(t)) THEN retry[JobOf(t)] ELSE 0]
    /\ at' = [at EXCEPT ![t] = 0]
    /\ Goto(t, "settle")
    /\ UNCHANGED <<rowVars, registry, line, runs, clientVars, boundVars, up>>

\* The except branch reads the row ...
ReadFailedRow(t) ==
    /\ pc[t] = "failing"
    /\ seen' = [seen EXCEPT ![t] = IF Exists(JobOf(t)) THEN retry[JobOf(t)] ELSE 0]
    /\ at' = [at EXCEPT ![t] = IF Exists(JobOf(t)) THEN step[JobOf(t)] ELSE 0]
    /\ Goto(t, "settle")
    /\ UNCHANGED <<rowVars, registry, line, runs, clientVars, boundVars, up>>

\* Mutants of RetryOrFail: giving up one attempt early, ...
FailOneEarly(t) ==
    /\ pc[t] = "settle"
    /\ LET j == JobOf(t) IN
       \/ /\ seen[t] + 1 < MaxRetries
          /\ SetStatus(j, "pending")
          /\ retry' = [retry EXCEPT ![j] = IF Exists(j) THEN seen[t] + 1 ELSE @]
          /\ Goto(t, "start")
       \/ /\ seen[t] + 1 >= MaxRetries
          /\ SetStatus(j, "failed")
          /\ Goto(t, "exit")
          /\ UNCHANGED retry
    /\ UNCHANGED <<step, paused, registry, line, at, seen, runs, clientVars, boundVars, up>>

\* ... a retry that is not counted.
RetryUncounted(t) ==
    /\ pc[t] = "settle"
    /\ LET j == JobOf(t) IN
       \/ /\ seen[t] < MaxRetries
          /\ SetStatus(j, "pending")
          /\ UNCHANGED retry
          /\ Goto(t, "start")
       \/ /\ seen[t] >= MaxRetries
          /\ SetStatus(j, "failed")
          /\ Goto(t, "exit")
          /\ UNCHANGED retry
    /\ UNCHANGED <<step, paused, registry, line, at, seen, runs, clientVars, boundVars, up>>

\* ... and retries under the same lock, or gives up.
RetryOrFail(t) ==
    /\ pc[t] = "settle"
    /\ LET j == JobOf(t) IN
       \/ /\ seen[t] < MaxRetries
          /\ SetStatus(j, "pending")
          /\ retry' = [retry EXCEPT ![j] = IF Exists(j) THEN seen[t] + 1 ELSE @]
          /\ Goto(t, "start")
       \/ /\ seen[t] >= MaxRetries
          /\ SetStatus(j, "failed")
          /\ Goto(t, "exit")
          /\ UNCHANGED retry
    /\ UNCHANGED <<step, paused, registry, line, at, seen, runs, clientVars, boundVars, up>>

\* Mutant of ReleaseLock: acquire() without a finally.
KeepLock(t) ==
    /\ pc[t] = "exit"
    /\ line' = [line EXCEPT ![ProjOf(t)] = IF status[JobOf(t)] = "failed" THEN @ ELSE Tail(@)]
    /\ Goto(t, "ended")
    /\ UNCHANGED <<rowVars, registry, at, seen, runs, clientVars, boundVars, up>>

\* The task leaves `async with lock` and ends ...
ReleaseLock(t) ==
    /\ pc[t] = "exit"
    /\ line' = [line EXCEPT ![ProjOf(t)] = Tail(@)]
    /\ Goto(t, "ended")
    /\ UNCHANGED <<rowVars, registry, at, seen, runs, clientVars, boundVars, up>>

\* ... and its done callback pops the job's entry, whichever task it names.
DoneCallback(t) ==
    /\ pc[t] = "ended"
    /\ registry' = [registry EXCEPT ![JobOf(t)] = 0]
    /\ Goto(t, "none")
    /\ at' = [at EXCEPT ![t] = 0]
    /\ seen' = [seen EXCEPT ![t] = 0]
    /\ runs' = [runs EXCEPT ![t] = 0]
    /\ UNCHANGED <<rowVars, line, clientVars, boundVars, up>>

TaskStep(t) ==
    \/ AcquireLock(t) \/ WaitUntilResumed(t) \/ StartExecute(t) \/ CheckPause(t)
    \/ ParseSource(t) \/ FinishStep(t) \/ WritePages(t) \/ StageRaises(t)
    \/ CompleteJob(t) \/ AutoPublish(t) \/ ReadFailedRow(t) \/ RetryOrFail(t)
    \/ ReleaseLock(t) \/ DoneCallback(t)

-----------------------------------------------------------------------------
(* The HTTP handlers.                                                       *)

Serve(c, op) ==
    /\ up /\ cpc[c] = "idle"
    /\ op \in Ops /\ requests < MaxRequests
    /\ requests' = requests + 1
    /\ UNCHANGED <<crashes, up>>
Continue == UNCHANGED <<boundVars, up>>

To(c, l) == cpc' = [cpc EXCEPT ![c] = l]
Fetch(c, rows) == fetched' = [fetched EXCEPT ![c] = rows]
Reply(c) ==
    /\ To(c, "idle") /\ Fetch(c, {})
    /\ scope' = [scope EXCEPT ![c] = {}]
    /\ picked' = [picked EXCEPT ![c] = {}]
\* A loop over the rows a request fetched: go on at l, or reply after the last.
Loop(c, rows, l) ==
    IF rows = {} THEN Reply(c)
    ELSE /\ To(c, l) /\ Fetch(c, rows)
         /\ picked' = [picked EXCEPT ![c] = {}]
         /\ UNCHANGED scope
Pick(c, r, l) ==
    /\ To(c, l) /\ Fetch(c, fetched[c] \ {r})
    /\ picked' = [picked EXCEPT ![c] = {<<r[1], step[r[1]]>>}]
    /\ UNCHANGED scope

Fresh(p) == {j \in JobsIn(p) : status[j] = "none"}
Insert(c, S) ==                                   \* rows added in one transaction
    /\ status' = [j \in Jobs |-> IF j \in S THEN "pending" ELSE status[j]]
    /\ Fetch(c, S \X {0}) /\ To(c, "enqCheck")

Enqueue(c) ==
    /\ Serve(c, "enqueue")
    /\ \E p \in Projects : \E S \in SUBSET Fresh(p) \ {{}} : Insert(c, S)
    /\ UNCHANGED <<retry, step, paused, taskVars, scope, picked>>

EnqueueCheck(c) ==
    /\ cpc[c] = "enqCheck"
    /\ \/ /\ \E r \in fetched[c] : paused[ProjectOf[r[1]]]
          /\ Reply(c)
       \/ /\ \A r \in fetched[c] : ~paused[ProjectOf[r[1]]]
          /\ To(c, "enqSched") /\ UNCHANGED <<scope, fetched, picked>>
    /\ Continue /\ UNCHANGED <<rowVars, taskVars>>

EnqueueSchedule(c) ==
    /\ cpc[c] = "enqSched"
    /\ ScheduleAll(fetched[c]) /\ Reply(c)
    /\ Continue /\ UNCHANGED rowVars

PauseJob(c) ==
    /\ Serve(c, "pause")
    /\ \E j \in Jobs : /\ status[j] \in {"pending", "processing"}
                       /\ Fetch(c, {<<j, step[j]>>})
    /\ To(c, "pauseRead")
    /\ UNCHANGED <<rowVars, taskVars, scope, picked>>

PauseRead(c) ==
    /\ cpc[c] = "pauseRead"
    /\ \E r \in fetched[c] :
          IF status[r[1]] \in {"pending", "processing"}
          THEN Pick(c, r, "pauseWrite")
          ELSE Loop(c, fetched[c] \ {r}, "pauseRead")
    /\ Continue /\ UNCHANGED <<rowVars, taskVars>>

PauseWrite(c) ==
    /\ cpc[c] = "pauseWrite"
    /\ \E r \in picked[c] : SetStatus(r[1], "paused")
    /\ Loop(c, fetched[c], "pauseRead")
    /\ Continue /\ UNCHANGED <<retry, step, paused, taskVars>>

ResumeJob(c) ==
    /\ Serve(c, "resume")
    /\ \E j \in Jobs : status[j] = "paused" /\ Fetch(c, {<<j, step[j]>>})
    /\ To(c, "resumeRead")
    /\ UNCHANGED <<rowVars, taskVars, scope, picked>>

ResumeRead(c) ==
    /\ cpc[c] = "resumeRead"
    /\ \E r \in fetched[c] :
          IF status[r[1]] = "paused"
          THEN Pick(c, r, "resumeWrite")
          ELSE Loop(c, fetched[c] \ {r}, "resumeRead")
    /\ Continue /\ UNCHANGED <<rowVars, taskVars>>

ResumeWrite(c) ==
    /\ cpc[c] = "resumeWrite"
    /\ \E r \in picked[c] : SetStatus(r[1], "pending")
    /\ To(c, "resumeCheck")
    /\ Continue /\ UNCHANGED <<retry, step, paused, taskVars, scope, fetched, picked>>

\* A job that still has a task is left to it.
ResumeCheck(c) ==
    /\ cpc[c] = "resumeCheck"
    /\ \E r \in picked[c] :
          IF registry[r[1]] # 0 \/ paused[ProjectOf[r[1]]]
          THEN Loop(c, fetched[c], "resumeRead")
          ELSE To(c, "resumeSched") /\ UNCHANGED <<scope, fetched, picked>>
    /\ Continue /\ UNCHANGED <<rowVars, taskVars>>

ResumeSchedule(c) ==
    /\ cpc[c] = "resumeSched"
    /\ ScheduleAll(picked[c])
    /\ Loop(c, fetched[c], "resumeRead")
    /\ Continue /\ UNCHANGED rowVars

\* pause_project: raise the flag, clear what waits, then pause what runs.
PauseProject(c) ==
    /\ Serve(c, "pauseAll")
    /\ \E p \in Projects : /\ paused' = [paused EXCEPT ![p] = TRUE]
                           /\ scope' = [scope EXCEPT ![c] = {p}]
    /\ To(c, "allClear")
    /\ UNCHANGED <<status, retry, step, taskVars, fetched, picked>>

\* PATCH of the project: the flag alone, nothing cleared and nothing scheduled.
UpdateProject(c) ==
    /\ Serve(c, "update")
    /\ \E p \in Projects, b \in BOOLEAN : paused' = [paused EXCEPT ![p] = b]
    /\ UNCHANGED <<status, retry, step, taskVars, clientVars>>

ClearWaiting(c) ==
    /\ cpc[c] = "allClear"
    /\ status' = [j \in Jobs |->
                    IF ProjectOf[j] \in scope[c] /\ status[j] \in {"pending", "paused"}
                    THEN "gone" ELSE status[j]]
    /\ To(c, "allList")
    /\ Continue /\ UNCHANGED <<retry, step, paused, taskVars, scope, fetched, picked>>

ListProcessing(c) ==
    /\ cpc[c] = "allList"
    /\ \E p \in scope[c] : Loop(c, RowsWith(p, {"processing"}), "pauseRead")
    /\ Continue /\ UNCHANGED <<rowVars, taskVars>>

\* The resume endpoint: resume_project, then resume_all.
ResumeProject(c) ==
    /\ Serve(c, "resumeAll")
    /\ \E p \in Projects : /\ paused' = [paused EXCEPT ![p] = FALSE]
                           /\ scope' = [scope EXCEPT ![c] = {p}]
    /\ To(c, "allPending")
    /\ UNCHANGED <<status, retry, step, taskVars, fetched, picked>>

ListPending(c) ==
    /\ cpc[c] = "allPending"
    /\ \E p \in scope[c] : Fetch(c, RowsWith(p, {"pending"}))
    /\ To(c, "allSched")
    /\ Continue /\ UNCHANGED <<rowVars, taskVars, scope, picked>>

SchedulePending(c) ==
    /\ cpc[c] = "allSched"
    /\ ScheduleAll({r \in fetched[c] : registry[r[1]] = 0})
    /\ Fetch(c, {}) /\ To(c, "allRest")
    /\ Continue /\ UNCHANGED <<rowVars, scope, picked>>

ListPaused(c) ==
    /\ cpc[c] = "allRest"
    /\ \E p \in scope[c] : Loop(c, RowsWith(p, {"paused"}), "resumeRead")
    /\ Continue /\ UNCHANGED <<rowVars, taskVars>>

RetryJob(c) ==
    /\ Serve(c, "retry")
    /\ \E j \in Jobs : /\ status[j] = "failed"
                       /\ picked' = [picked EXCEPT ![c] = {<<j, step[j]>>}]
    /\ To(c, "retryWrite")
    /\ UNCHANGED <<rowVars, taskVars, scope, fetched>>

\* The flush of a row deleted meanwhile fails the request.
Supersede(c) ==
    /\ cpc[c] = "retryWrite"
    /\ \E r \in picked[c] :
          IF Exists(r[1])
          THEN /\ SetStatus(r[1], "superseded")
               /\ To(c, "retryInsert") /\ UNCHANGED <<scope, fetched, picked>>
          ELSE Reply(c) /\ UNCHANGED status
    /\ Continue /\ UNCHANGED <<retry, step, paused, taskVars>>

RetryInsert(c) ==
    /\ cpc[c] = "retryInsert"
    /\ \E r \in picked[c] : \E j \in Fresh(ProjectOf[r[1]]) : Insert(c, {j})
    /\ picked' = [picked EXCEPT ![c] = {}]
    /\ Continue /\ UNCHANGED <<retry, step, paused, taskVars, scope>>

DeleteJob(c) ==
    /\ Serve(c, "delete")
    /\ \E j \in Jobs : /\ Exists(j) /\ status[j] \notin {"pending", "processing"}
                       /\ picked' = [picked EXCEPT ![c] = {<<j, step[j]>>}]
    /\ To(c, "deleteWrite")
    /\ UNCHANGED <<rowVars, taskVars, scope, fetched>>

DeleteWrite(c) ==
    /\ cpc[c] = "deleteWrite"
    /\ \E r \in picked[c] : SetStatus(r[1], "gone")
    /\ Reply(c)
    /\ Continue /\ UNCHANGED <<retry, step, paused, taskVars>>

Arrive(c) ==
    \/ Enqueue(c) \/ PauseJob(c) \/ ResumeJob(c) \/ PauseProject(c)
    \/ ResumeProject(c) \/ UpdateProject(c) \/ RetryJob(c) \/ DeleteJob(c)

Handle(c) ==
    \/ EnqueueCheck(c) \/ EnqueueSchedule(c) \/ PauseRead(c) \/ PauseWrite(c)
    \/ ResumeRead(c) \/ ResumeWrite(c) \/ ResumeCheck(c) \/ ResumeSchedule(c)
    \/ ClearWaiting(c) \/ ListProcessing(c) \/ ListPending(c) \/ SchedulePending(c)
    \/ ListPaused(c) \/ Supersede(c) \/ RetryInsert(c) \/ DeleteWrite(c)

-----------------------------------------------------------------------------
(* Process death (or stop(), which cancels every task) and restart.         *)

Crash ==
    /\ up /\ crashes < MaxCrashes
    /\ crashes' = crashes + 1
    /\ up' = FALSE
    /\ registry' = [j \in Jobs |-> 0]
    /\ line' = [p \in Projects |-> <<>>]
    /\ pc' = [t \in Tasks |-> "none"]
    /\ at' = [t \in Tasks |-> 0]
    /\ seen' = [t \in Tasks |-> 0]
    /\ runs' = [t \in Tasks |-> 0]
    /\ cpc' = [c \in Clients |-> "idle"]
    /\ scope' = [c \in Clients |-> {}]
    /\ fetched' = [c \in Clients |-> {}]
    /\ picked' = [c \in Clients |-> {}]
    /\ UNCHANGED <<rowVars, requests>>

\* Mutant of Recover: only "pending" rows are re-enqueued.
RecoverPendingOnly ==
    /\ ~up
    /\ up' = TRUE
    /\ ScheduleAll(UNION {RowsWith(p, {"pending"}) : p \in {q \in Projects : ~paused[q]}})
    /\ UNCHANGED <<rowVars, clientVars, boundVars>>

\* recover_interrupted_jobs runs before the first request is served.
Recover ==
    /\ ~up
    /\ up' = TRUE
    /\ ScheduleAll(UNION {RowsWith(p, {"pending", "processing"}) :
                             p \in {q \in Projects : ~paused[q]}})
    /\ UNCHANGED <<rowVars, clientVars, boundVars>>

Next ==
    \/ \E t \in Tasks : TaskStep(t)
    \/ \E c \in Clients : Arrive(c) \/ Handle(c)
    \/ Crash
    \/ Recover

Spec == Init /\ [][Next]_vars

(* The event loop runs every ready coroutine, and a restarted process       *)
(* recovers; nobody has to send a request, and a publish need not end.      *)
Fairness ==
    /\ \A t \in Tasks : WF_vars(TaskStep(t) /\ pc[t] # "publish")
    /\ \A c \in Clients : WF_vars(Handle(c))
    /\ WF_vars(Recover)

FairSpec == Spec /\ Fairness

-----------------------------------------------------------------------------
(* Properties.                                                              *)

RowTypes ==
    /\ status \in [Jobs -> Statuses]
    /\ retry \in [Jobs -> 0..MaxRetries]
    /\ step \in [Jobs -> Steps]
    /\ paused \in [Projects -> BOOLEAN]
TaskTypes ==
    /\ registry \in [Jobs -> 0..Copies]
    /\ line \in [Projects -> Seq(Tasks)]
    /\ pc \in [Tasks -> TaskPcs]
    /\ at \in [Tasks -> Steps]
    /\ seen \in [Tasks -> 0..MaxRetries]
    /\ runs \in [Tasks -> 0..RunsCap]
ClientTypes ==
    /\ cpc \in [Clients -> ClientPcs]
    /\ scope \in [Clients -> SUBSET Projects]
    /\ fetched \in [Clients -> SUBSET Rows]
    /\ picked \in [Clients -> SUBSET Rows]
BoundTypes ==
    /\ requests \in 0..MaxRequests
    /\ crashes \in 0..MaxCrashes
    /\ up \in BOOLEAN
\* The type invariant.
TypeOK == RowTypes /\ TaskTypes /\ ClientTypes /\ BoundTypes

\* The task is inside `async with lock`.
Inside(t) == pc[t] \notin {"none", "lock", "ended"}

\* "Each project's ingest jobs run serially (to avoid index.md race
\* conditions)" (queue.py:3): whatever is scheduled, resumed, recovered or
\* scheduled twice, at most one task of a project is past the lock.
Serial ==
    \A t, u \in Tasks : Inside(t) /\ Inside(u) /\ ProjOf(t) = ProjOf(u) => t = u

\* A job is reported "failed" only with its retries used up, even when pauses,
\* a restart or a second task of the job come between the attempts.
FailedExhausted ==
    \A j \in Jobs : status[j] = "failed" => retry[j] = MaxRetries

\* One task executes a job that is still in the table at most 1 + MAX_RETRIES
\* times: the count is read from the row, so it must survive every interleaving
\* with the handlers that rewrite the row's status.
RetryBudget ==
    \A t \in Tasks : Exists(JobOf(t)) => runs[t] <= MaxRetries + 1

\* The inductive strengthening of the three invariants above.
\* What follows a request or a task is in the table, or was.
KnownRows ==
    /\ \A c \in Clients : \A r \in fetched[c] \cup picked[c] : status[r[1]] # "none"
    /\ \A t \in Tasks : pc[t] # "none" => status[JobOf(t)] # "none"
\* Only the head of the line is past the lock.
InsideHolds == \A t \in Tasks : Inside(t) => Holds(t)
\* Nobody changes the retry count between the handler's read and its write.
SettleSeesRow ==
    \A t \in Tasks : pc[t] = "settle" /\ Exists(JobOf(t)) => seen[t] = retry[JobOf(t)]
\* Every attempt but the running one has been counted in the row.
AttemptsCounted ==
    \A t \in Tasks :
        /\ pc[t] \in {"none", "lock", "wait"} => runs[t] = 0
        /\ Exists(JobOf(t)) => runs[t] <= IF pc[t] \in {"none", "lock", "wait", "start"}
                                          THEN retry[JobOf(t)] ELSE retry[JobOf(t)] + 1

\* What every step preserves: the conjunction that carries Serial,
\* FailedExhausted and RetryBudget through handlers, crashes and recoveries.
IInv ==
    /\ TypeOK /\ KnownRows /\ InsideHolds
    /\ SettleSeesRow /\ AttemptsCounted /\ FailedExhausted

\* The registry names exactly the live tasks, so "has a task" can be read from
\* it (resume_job and resume_project do): no job gets two tasks, and the done
\* callback never pops an entry that is not its own.  Needs that nobody resumes.
OneTaskPerJob ==
    \A t \in Tasks : pc[t] # "none" <=> registry[JobOf(t)] = t[2]

\* A request that will still schedule the job.
InHands(j) == \E c \in Clients : /\ cpc[c] \in {"enqCheck", "enqSched"}
                                 /\ \E r \in fetched[c] : r[1] = j
Carried(j) == \E k \in 1..Copies : pc[<<j, k>>] \notin {"none", "exit", "ended"}

\* While the process is up, a job reported "pending" or "processing" has a task
\* that is going to execute it, or a request about to create one: the states
\* between the commit of a row and its scheduling, between two attempts and
\* after a recovery leave nothing behind.
NoOrphan ==
    up => \A j \in Jobs : status[j] \in {"pending", "processing"} => Carried(j) \/ InHands(j)

\* The registry and the rows agree: one live task per job and none missing
\* (queue.py:96, 134-160, 340).
TasksMatchRows == OneTaskPerJob /\ NoOrphan

\* What carries it while jobs are only enqueued, retried and deleted.
Finished == {"done", "failed", "superseded", "gone"}
\* A request that is to schedule jobs is the only one to have them, and they are
\* as it inserted them; the row a retry or a delete works on is at its end.
RequestsApart ==
    /\ \A c \in Clients : cpc[c] \in {"enqCheck", "enqSched"} => \A r \in fetched[c] :
          status[r[1]] = "pending" /\ registry[r[1]] = 0 /\ step[r[1]] = 0 /\ r[2] = 0
    /\ \A c, d \in Clients :
          cpc[c] \in {"enqCheck", "enqSched"} /\ cpc[d] \in {"enqCheck", "enqSched"} /\ c # d
          => \A r \in fetched[c] : \A s \in fetched[d] : r[1] # s[1]
    /\ \A c \in Clients : cpc[c] \in {"retryWrite", "retryInsert", "deleteWrite"} =>
          \A r \in picked[c] : status[r[1]] \in Finished
\* Nothing is paused: no job, no project, no request that pauses or resumes.
NobodyPauses ==
    /\ \A j \in Jobs : status[j] # "paused"
    /\ \A p \in Projects : ~paused[p]
    /\ \A c \in Clients : cpc[c] \in {"idle", "enqCheck", "enqSched", "retryWrite",
                                     "retryInsert", "deleteWrite"}
\* The row's status follows the task that runs the job.
StatusFollowsTask ==
    \A t \in Tasks :
        /\ pc[t] \in {"lock", "wait", "start"} => status[JobOf(t)] \in {"pending", "processing"}
        /\ pc[t] \in {"publish", "exit", "ended"} => status[JobOf(t)] \in Finished
        /\ pc[t] \notin {"none", "lock", "wait", "start", "publish", "exit", "ended"} =>
              status[JobOf(t)] = "processing"
\* A task starts from what its row says is done, or from further on.
StepsReached ==
    /\ \A j \in Jobs : status[j] = "none" => step[j] = 0
    /\ \A t \in Tasks :
          pc[t] \notin {"none", "failing", "written", "publish", "exit", "ended"} =>
              step[JobOf(t)] <= at[t]
\* A dead process has no task and no request.
DownIsEmpty ==
    ~up => /\ \A t \in Tasks : pc[t] = "none"
           /\ \A j \in Jobs : registry[j] = 0
           /\ \A c \in Clients : cpc[c] = "idle"

\* The registry and the rows agree, with what every step of such a system
\* preserves.
CalmInv ==
    /\ TasksMatchRows /\ RequestsApart /\ NobodyPauses
    /\ StatusFollowsTask /\ StepsReached /\ DownIsEmpty

\* "失败自动重试，且从上次完成 step 继续" (docs/ingest-compile-pipeline.html:375):
\* neither a retry nor a recovery takes a job back behind a step it completed.
StepForward ==
    [][\A j \in Jobs : Exists(j) => step'[j] >= step[j]]_vars

\* Every accepted job reaches an end, through failures, retries and restarts, unless the
\* publish of a job of its project hangs: git has no timeout (git_sync.py:66), and the
\* publish runs under the project's lock (queue.py:386).
JobsSettle ==
    \A j \in Jobs :
        (\A t \in Tasks : ProjOf(t) = ProjectOf[j] => []<>(pc[t] # "publish"))
        => (status[j] \in {"pending", "processing"} ~> status[j] \in {"done", "failed", "superseded", "gone"})

-----------------------------------------------------------------------------
(* What the tests and comments of the repository say, and the code does not *)
(* do: TLC refutes each on a single job.                                    *)

\* tests/test_ingest_pause.py:88: a resumed job that still has a task is left to
\* that task, so it does run.  The task may already have raised JobPaused.
ResumedJobRuns ==
    \A j \in Jobs : status[j] = "pending" ~> status[j] # "pending"

\* tests/test_ingest_pause.py:211: pausing a project clears what waits.  A cleared
\* job has a task that is not told.
ClearedJobStaysCleared ==
    [][\A t \in Tasks : StartExecute(t) => Exists(JobOf(t))]_vars

\* docs/ingest-compile-pipeline.html:375: MAX_RETRIES = 2.  An attempt for a
\* deleted row reads its retry count as 0.
AttemptsBounded ==
    \A t \in Tasks : runs[t] <= MaxRetries + 1

\* tests/test_ingest_pause.py:88: no second task is scheduled for a job whose
\* task is alive.
NoSecondTask ==
    \A t, u \in Tasks : pc[t] # "none" /\ pc[u] # "none" /\ JobOf(t) = JobOf(u) => t = u

\* queue.py:6: jobs left "processing" by a crash are re-enqueued.  A paused
\* project is skipped, and resuming it later schedules "pending" rows only.
InterruptedJobRuns ==
    \A j \in Jobs : <>[](~paused[ProjectOf[j]]) => []<>(status[j] # "processing")

\* tests/test_ingest_pause.py:53: a job that is done cannot be paused.
DoneStaysDone ==
    [][\A j \in Jobs : status[j] = "done" => status'[j] # "paused"]_vars
=============================================================================
