------------------------------ MODULE GitSync ------------------------------
(* Git sync and publish of one project (src/app/projects/git_sync.py): a    *)
(* lock for each source repository and one for publishing, in memory; a     *)
(* sync that waits for the ingest jobs it enqueued; publishes that those    *)
(* jobs, the feedback loop and users start.                                 *)
(*                                                                          *)
(* An asyncio.Lock that was found free is taken without giving way, so no   *)
(* task ever waits for a lock: it is refused.  The jobs of a sync are known *)
(* by the one that decides it.                                              *)
EXTENDS Naturals

CONSTANTS
    Repos,          \* source repositories, by id: an id is never used again
    Syncs,          \* tasks that sync: requests and the scheduler's runs
    Publishes,      \* tasks that publish
    MaxRequests, MaxCrashes,    \* bounds on events
    NoOne

ASSUME GitSyncAssumption ==
    /\ MaxRequests \in Nat /\ MaxCrashes \in Nat
    /\ NoOne \notin Syncs \cup Publishes \cup Repos

VARIABLES
    row, manual, status,    \* per repository: its row, manual_git_mode, last_sync_status
    syncLock, pubLock,      \* _sync_locks: who holds them
    spc, todo, target, job, \* per sync: where it is, the repositories it has yet to
                            \* sync, the one it is at, and the job it waits for
    ppc, auto, seen,        \* per publish: where it is, is it automatic, the
                            \* repositories it has read
    pubStatus,              \* projects.last_publish_status
    cut,                    \* history: repositories whose last sync died with the process
    requests, crashes

repoVars == <<row, manual>>
syncVars == <<status, syncLock, spc, todo, target>>
pubVars == <<pubLock, ppc, auto, seen, pubStatus>>
boundVars == <<requests, crashes>>
vars == <<repoVars, syncVars, job, pubVars, cut, boundVars>>

There(r) == row[r] = "there"
Rows == {r \in Repos : There(r)}

\* Past the acquisition of the lock.
Locked(s) == spc[s] \in {"read", "mark", "pull", "wait", "check", "fail"}
Publishing(p) == ppc[p] \in {"read", "check", "push"}

Init ==
    /\ row \in [Repos -> {"none", "there"}]
    /\ manual = [r \in Repos |-> FALSE]
    /\ status = [r \in Repos |-> "idle"]
    /\ syncLock = [r \in Repos |-> NoOne] /\ pubLock = NoOne
    /\ spc = [s \in Syncs |-> "idle"]
    /\ todo = [s \in Syncs |-> {}]
    /\ target = [s \in Syncs |-> NoOne]
    /\ job = [s \in Syncs |-> "none"]
    /\ ppc = [p \in Publishes |-> "idle"]
    /\ auto = [p \in Publishes |-> FALSE]
    /\ seen = [p \in Publishes |-> {}]
    /\ pubStatus = "idle" /\ cut = {}
    /\ requests = 0 /\ crashes = 0

Request == requests < MaxRequests /\ requests' = requests + 1 /\ UNCHANGED crashes

-----------------------------------------------------------------------------
(* The repositories' endpoints.                                             *)

CreateRepo(r) ==
    /\ Request /\ row[r] = "none"
    /\ row' = [row EXCEPT ![r] = "there"]
    /\ UNCHANGED <<manual, syncVars, job, pubVars, cut>>

\* No lock is asked for, whatever sync is under way.
SetManual(r) ==
    /\ Request /\ There(r)
    /\ manual' = [manual EXCEPT ![r] = ~@]
    /\ UNCHANGED <<row, syncVars, job, pubVars, cut>>

DeleteRepo(r) ==
    /\ Request /\ There(r)
    /\ row' = [row EXCEPT ![r] = "gone"]
    /\ UNCHANGED <<manual, syncVars, job, pubVars, cut>>

-----------------------------------------------------------------------------
(* Who asks for a sync.                                                     *)

Schedule(s, rs) ==
    /\ spc[s] = "idle"
    /\ spc' = [spc EXCEPT ![s] = "start"]
    /\ todo' = [todo EXCEPT ![s] = rs]
    /\ UNCHANGED <<manual, status, syncLock, target, job, pubVars, cut>>

TriggerSync(s, r) ==
    /\ Request /\ There(r) /\ ~manual[r] /\ syncLock[r] = NoOne
    /\ Schedule(s, {r})
    /\ UNCHANGED row

\* POST /git/sync: the project's own Git fields make the default repository.
TriggerGitSync(s, r) ==
    /\ Request /\ row[r] # "gone" /\ syncLock[r] = NoOne
    /\ row' = [row EXCEPT ![r] = "there"]
    /\ Schedule(s, {r})

\* sync_all_source_repositories has read the repositories of the project.
TriggerSyncAll(s) ==
    /\ Request /\ Rows # {}
    /\ Schedule(s, Rows)
    /\ UNCHANGED row

\* The scheduler's jobs are those of the last refresh: a repository may have
\* left the schedule, or the table, since.
ScheduledSync(s, r) ==
    /\ Request /\ row[r] # "none"
    /\ Schedule(s, {r})
    /\ UNCHANGED row

-----------------------------------------------------------------------------
(* sync_source_repository.                                                  *)

SyncAt(s, where) == spc' = [spc EXCEPT ![s] = where]

\* Mutant of StartSync: a lock that is held is waited for.
StartSyncWhenFree(s) ==
    /\ spc[s] = "start"
    /\ \E r \in todo[s] :
        /\ syncLock[r] = NoOne /\ pubLock = NoOne
        /\ todo' = [todo EXCEPT ![s] = @ \ {r}]
        /\ syncLock' = [syncLock EXCEPT ![r] = s]
        /\ target' = [target EXCEPT ![s] = r]
        /\ SyncAt(s, "read")
    /\ UNCHANGED <<repoVars, status, job, pubVars, cut, boundVars>>

\* A refusal is an exception: sync_all goes on with the next repository.
StartSync(s) ==
    /\ spc[s] = "start"
    /\ \E r \in todo[s] :
        /\ todo' = [todo EXCEPT ![s] = @ \ {r}]
        /\ IF syncLock[r] # NoOne \/ pubLock # NoOne
           THEN UNCHANGED <<syncLock, spc, target>>
           ELSE /\ syncLock' = [syncLock EXCEPT ![r] = s]
                /\ target' = [target EXCEPT ![s] = r]
                /\ SyncAt(s, "read")
    /\ UNCHANGED <<repoVars, status, job, pubVars, cut, boundVars>>

EndSync(s) ==
    /\ spc[s] = "start" /\ todo[s] = {}
    /\ SyncAt(s, "idle")
    /\ UNCHANGED <<repoVars, status, syncLock, todo, target, job, pubVars, cut, boundVars>>

\* Leaving the lock, with or without an exception.
Unlock(s) ==
    /\ syncLock' = [syncLock EXCEPT ![target[s]] = NoOne]
    /\ target' = [target EXCEPT ![s] = NoOne]
    /\ SyncAt(s, "start")
    /\ UNCHANGED todo

\* An UPDATE by id touches no row that is gone.
SetStatus(r, v) ==
    /\ status' = IF There(r) THEN [status EXCEPT ![r] = v] ELSE status
    /\ cut' = IF There(r) THEN cut \ {r} ELSE cut

Refuse(s) == Unlock(s) /\ UNCHANGED <<status, cut>>

\* The row is read: it may be gone, lack its URL or token, which its status then
\* tells, or be in manual mode.
ReadRepo(s) ==
    /\ spc[s] = "read"
    /\ \/ ~There(target[s]) /\ Refuse(s)
       \/ There(target[s]) /\ manual[target[s]] /\ Refuse(s)
       \/ There(target[s]) /\ SetStatus(target[s], "failed") /\ Unlock(s)
       \/ /\ There(target[s]) /\ ~manual[target[s]]
          /\ SyncAt(s, "mark")
          /\ UNCHANGED <<status, syncLock, todo, target, cut>>
    /\ UNCHANGED <<repoVars, job, pubVars, boundVars>>

\* The commit raises when the row is gone by now.
MarkSyncing(s) ==
    /\ spc[s] = "mark"
    /\ SetStatus(target[s], "syncing")
    /\ IF There(target[s])
       THEN SyncAt(s, "pull") /\ UNCHANGED <<syncLock, todo, target>>
       ELSE Unlock(s)
    /\ UNCHANGED <<repoVars, job, pubVars, boundVars>>

\* Clone or pull, compare the files with the ingest cache, enqueue what changed
\* or update the case index.
Pull(s) ==
    /\ spc[s] = "pull"
    /\ \/ SyncAt(s, "fail") /\ UNCHANGED job
       \/ SyncAt(s, "check") /\ UNCHANGED job
       \/ SyncAt(s, "wait") /\ job' = [job EXCEPT ![s] = "open"]
    /\ UNCHANGED <<repoVars, status, syncLock, todo, target, pubVars, cut, boundVars>>

\* All of the rows that are still there are done or failed.
WaitReturns(s) ==
    /\ spc[s] = "wait" /\ job[s] \in {"done", "failed", "gone"}
    /\ SyncAt(s, "check")
    /\ UNCHANGED <<repoVars, status, syncLock, todo, target, job, pubVars, cut, boundVars>>

\* An hour has passed; the rows are not read again.
WaitTimesOut(s) ==
    /\ spc[s] = "wait"
    /\ SyncAt(s, "fail")
    /\ UNCHANGED <<repoVars, status, syncLock, todo, target, job, pubVars, cut, boundVars>>

\* Mutant of Conclude: a failure leaves without telling the row.
ConcludeQuietly(s) ==
    /\ spc[s] \in {"check", "fail"}
    /\ IF spc[s] = "fail" THEN UNCHANGED <<status, cut>> ELSE SetStatus(target[s], "success")
    /\ job' = [job EXCEPT ![s] = "none"]
    /\ Unlock(s)
    /\ UNCHANGED <<repoVars, pubVars, boundVars>>

\* Count the failed jobs, tell the row how it went, leave.
Conclude(s) ==
    /\ spc[s] \in {"check", "fail"}
    /\ SetStatus(target[s], IF spc[s] = "fail" \/ job[s] = "failed" THEN "failed" ELSE "success")
    /\ job' = [job EXCEPT ![s] = "none"]
    /\ Unlock(s)
    /\ UNCHANGED <<repoVars, pubVars, boundVars>>

\* Every step but the one that git has to finish first.
SyncGoesOn(s) ==
    \/ StartSync(s) \/ EndSync(s) \/ ReadRepo(s) \/ MarkSyncing(s)
    \/ WaitReturns(s) \/ WaitTimesOut(s) \/ Conclude(s)

-----------------------------------------------------------------------------
(* What happens meanwhile to the jobs (IngestQueue has the details).        *)

Queue(p, isAuto) ==
    /\ ppc[p] = "idle"
    /\ ppc' = [ppc EXCEPT ![p] = "start"]
    /\ auto' = [auto EXCEPT ![p] = isAuto]
    /\ UNCHANGED <<pubLock, seen, pubStatus>>

\* The row says done before the job publishes what it has written.
JobDone(s) ==
    /\ job[s] = "open"
    /\ job' = [job EXCEPT ![s] = "done"]
    /\ (\E p \in Publishes : Queue(p, TRUE)) \/ UNCHANGED pubVars
    /\ UNCHANGED <<repoVars, syncVars, cut, boundVars>>

\* A job fails, or is deleted, or is held up: paused, or superseded by a retry.
JobMoves(s) ==
    /\ \/ job[s] = "open" /\ \E v \in {"failed", "held", "gone"} : job' = [job EXCEPT ![s] = v]
       \/ job[s] = "held" /\ \E v \in {"open", "gone"} : job' = [job EXCEPT ![s] = v]
       \/ job[s] = "failed" /\ job' = [job EXCEPT ![s] = "held"]
    /\ UNCHANGED <<repoVars, syncVars, pubVars, cut, boundVars>>

-----------------------------------------------------------------------------
(* _publish_project_to_git.                                                 *)

TriggerPublish(p) ==
    /\ Request /\ pubLock = NoOne
    /\ Queue(p, FALSE)
    /\ UNCHANGED <<repoVars, syncVars, job, cut>>

FeedbackApplied(p) ==
    /\ Request
    /\ Queue(p, TRUE)
    /\ UNCHANGED <<repoVars, syncVars, job, cut>>

PublishAt(p, where) == ppc' = [ppc EXCEPT ![p] = where]
Leave(p) ==
    /\ pubLock' = NoOne
    /\ auto' = [auto EXCEPT ![p] = FALSE]
    /\ seen' = [seen EXCEPT ![p] = {}]
    /\ PublishAt(p, "idle")

StartPublish(p) ==
    /\ ppc[p] = "start"
    /\ IF pubLock # NoOne
       THEN auto' = [auto EXCEPT ![p] = FALSE] /\ PublishAt(p, "idle") /\ UNCHANGED pubLock
       ELSE PublishAt(p, "read") /\ pubLock' = p /\ UNCHANGED auto
    /\ UNCHANGED <<repoVars, syncVars, job, seen, pubStatus, cut, boundVars>>

\* Publishing may be disabled or not configured.  Only a publish that was asked
\* for reads which repositories it has to look at.
ReadProject(p) ==
    /\ ppc[p] = "read"
    /\ \/ Leave(p)
       \/ auto[p] /\ PublishAt(p, "check") /\ UNCHANGED <<pubLock, auto, seen>>
       \/ ~auto[p] /\ PublishAt(p, "check") /\ seen' = [seen EXCEPT ![p] = Rows]
                   /\ UNCHANGED <<pubLock, auto>>
    /\ UNCHANGED <<repoVars, syncVars, job, pubStatus, cut, boundVars>>

\* Mutant of CheckSyncs: one repository that is free is enough.
CheckSomeSync(p) ==
    /\ ppc[p] = "check"
    /\ IF ~auto[p] /\ seen[p] # {} /\ \A r \in seen[p] : syncLock[r] # NoOne
       THEN Leave(p) /\ UNCHANGED pubStatus
       ELSE PublishAt(p, "push") /\ pubStatus' = "syncing"
            /\ UNCHANGED <<pubLock, auto, seen>>
    /\ UNCHANGED <<repoVars, syncVars, job, cut, boundVars>>

\* "该项目已有源仓库同步正在执行，无法发布" (git_sync.py:488).
CheckSyncs(p) ==
    /\ ppc[p] = "check"
    /\ IF ~auto[p] /\ \E r \in seen[p] : syncLock[r] # NoOne
       THEN Leave(p) /\ UNCHANGED pubStatus
       ELSE PublishAt(p, "push") /\ pubStatus' = "syncing"
            /\ UNCHANGED <<pubLock, auto, seen>>
    /\ UNCHANGED <<repoVars, syncVars, job, cut, boundVars>>

\* Commit, push, and tell the row how it went.
Push(p) ==
    /\ ppc[p] = "push"
    /\ pubStatus' \in {"success", "failed"}
    /\ Leave(p)
    /\ UNCHANGED <<repoVars, syncVars, job, cut, boundVars>>

PublishGoesOn(p) == StartPublish(p) \/ ReadProject(p) \/ CheckSyncs(p)

-----------------------------------------------------------------------------
\* Process death: locks and tasks are in memory, the rows are not.
Crash ==
    /\ crashes < MaxCrashes /\ crashes' = crashes + 1
    /\ cut' = {r \in Repos : status[r] = "syncing"}
    /\ syncLock' = [r \in Repos |-> NoOne] /\ pubLock' = NoOne
    /\ spc' = [s \in Syncs |-> "idle"]
    /\ todo' = [s \in Syncs |-> {}]
    /\ target' = [s \in Syncs |-> NoOne]
    /\ job' = [s \in Syncs |-> "none"]
    /\ ppc' = [p \in Publishes |-> "idle"]
    /\ auto' = [p \in Publishes |-> FALSE]
    /\ seen' = [p \in Publishes |-> {}]
    /\ UNCHANGED <<repoVars, status, pubStatus, requests>>

Next ==
    \/ \E r \in Repos : CreateRepo(r) \/ SetManual(r) \/ DeleteRepo(r)
    \/ \E s \in Syncs : \/ TriggerSyncAll(s) \/ SyncGoesOn(s) \/ Pull(s) \/ JobDone(s) \/ JobMoves(s)
                        \/ \E r \in Repos : TriggerSync(s, r) \/ TriggerGitSync(s, r) \/ ScheduledSync(s, r)
    \/ \E p \in Publishes : TriggerPublish(p) \/ FeedbackApplied(p) \/ PublishGoesOn(p) \/ Push(p)
    \/ Crash

Spec == Init /\ [][Next]_vars

\* The event loop runs what was scheduled, and an hour passes.  No job has to end, and
\* neither has a git command: _run_git sets no timeout (git_sync.py:66), so a fetch or a
\* push may hang for ever.
FairSpec ==
    /\ Spec
    /\ \A s \in Syncs : WF_vars(SyncGoesOn(s))
    /\ \A p \in Publishes : WF_vars(PublishGoesOn(p))
-----------------------------------------------------------------------------
(* Properties.                                                              *)

SyncStates == {"idle", "start", "read", "mark", "pull", "wait", "check", "fail"}

\* The type invariant.
TypeOK ==
    /\ row \in [Repos -> {"none", "there", "gone"}] /\ manual \in [Repos -> BOOLEAN]
    /\ status \in [Repos -> {"idle", "syncing", "success", "failed"}]
    /\ syncLock \in [Repos -> Syncs \cup {NoOne}] /\ pubLock \in Publishes \cup {NoOne}
    /\ spc \in [Syncs -> SyncStates]
    /\ todo \in [Syncs -> SUBSET Repos] /\ target \in [Syncs -> Repos \cup {NoOne}]
    /\ job \in [Syncs -> {"none", "open", "held", "done", "failed", "gone"}]
    /\ ppc \in [Publishes -> {"idle", "start", "read", "check", "push"}]
    /\ auto \in [Publishes -> BOOLEAN] /\ seen \in [Publishes -> SUBSET Repos]
    /\ pubStatus \in {"idle", "syncing", "success", "failed"}
    /\ cut \subseteq Repos
    /\ requests \in 0..MaxRequests /\ crashes \in 0..MaxCrashes

\* A publish that was asked for and the sync of a repository the project has never
\* run at once (git_sync.py:488, 588), though each looks at the other's locks
\* before or after taking its own, and the list of repositories is read earlier.
PublishExcludesSync ==
    \A p \in Publishes, r \in Rows : ppc[p] = "push" /\ ~auto[p] => syncLock[r] = NoOne

\* A status "syncing" (git_sync.py:621) belongs to a sync under way, which holds
\* the lock, however it leaves: only process death and deletion leave one behind.
SyncingIsHeld ==
    \A r \in Rows : status[r] = "syncing" =>
        \/ r \in cut
        \/ \E s \in Syncs : syncLock[r] = s /\ target[s] = r
                            /\ spc[s] \in {"pull", "wait", "check", "fail"}

\* A git command that hangs keeps its lock for ever (git_sync.py:66) and holds up nobody
\* else: a lock is refused and never waited for (git_sync.py:456, 585).  Every other sync
\* and publish ends, though a sync waits for jobs that may never end (git_sync.py:782).
EveryoneLeaves ==
    /\ \A s \in Syncs : spc[s] # "idle" ~> spc[s] = "idle" \/ [](spc[s] = "pull")
    /\ \A p \in Publishes : ppc[p] # "idle" ~> ppc[p] = "idle" \/ [](ppc[p] = "push")

\* What every step preserves.
LockOwners ==
    /\ \A s \in Syncs : Locked(s) <=> target[s] # NoOne
    /\ \A s \in Syncs, r \in Repos : target[s] = r <=> syncLock[r] = s
    /\ \A p \in Publishes : Publishing(p) <=> pubLock = p

\* Nobody syncs a repository before its row has been there.
KnownRepos ==
    /\ \A r \in Repos : row[r] = "none" => syncLock[r] = NoOne /\ status[r] = "idle"
    /\ \A s \in Syncs : \A r \in todo[s] : row[r] # "none"

\* A repository the publish has not seen was created while it held its lock.
UnseenAreFree ==
    \A p \in Publishes : ppc[p] = "check" /\ ~auto[p] =>
        \A r \in Rows \ seen[p] : syncLock[r] = NoOne

\* The inductive invariant that carries PublishExcludesSync and SyncingIsHeld.
IInv ==
    /\ TypeOK /\ LockOwners /\ KnownRepos
    /\ UnseenAreFree /\ PublishExcludesSync /\ SyncingIsHeld

-----------------------------------------------------------------------------
(* What docs and comments say, and the code does not do.                    *)

\* "Poll until all ingest jobs reach a terminal state" (git_sync.py:783): a sync
\* that succeeds has had its jobs done.  A deleted job counts as done, and so
\* does one that failed and is retried before the failures are counted.
SuccessIsDone ==
    [][\A s \in Syncs : spc[s] = "check" /\ spc'[s] = "start" /\ status'[target[s]] = "success"
            => job[s] \in {"none", "done"}]_vars

\* "Sync all source repositories for a project" (git_sync.py:746): a sync-all tries
\* every repository.  The publish of the first one's jobs refuses the second.
NoneSkipped ==
    [][\A s \in Syncs : spc[s] = "start" /\ spc'[s] = "start" => todo'[s] = todo[s]]_vars

=============================================================================
