------------------------ MODULE IngestQueue_proofs -------------------------
(***************************************************************************)
(* Proofs about IngestQueue, for every set of jobs, projects and requests, *)
(* every number of retries and every interleaving.                         *)
(***************************************************************************)
EXTENDS IngestQueue, FiniteSetTheorems, TLAPS

\* The tasks that can exist are finitely many, so any set of them has a
\* cardinality and the order in which they are scheduled is a sequence.
LEMMA TasksFinite == IsFiniteSet(Tasks)
<1>1. IsFiniteSet(Jobs) /\ Copies \in Nat
  BY QueueAssumption DEF QueueAssumption
<1>2. IsFiniteSet(1..Copies)
  BY <1>1, FS_Interval
<1> QED BY <1>1, <1>2, FS_Product DEF Tasks

LEMMA OrdersAreSequences ==
  ASSUME NEW S \in SUBSET Tasks, NEW s \in SetToSeqs(S)
  PROVE  s \in Seq(Tasks)
<1>1. IsFiniteSet(S)
  BY TasksFinite, FS_Subset
<1>2. Cardinality(S) \in Nat
  BY <1>1, FS_CardinalityType
<1> QED BY <1>2 DEF SetToSeqs

-----------------------------------------------------------------------------
(* _schedule_task: what a loop of them leaves behind.                       *)

LEMMA NewTaskIsFree ==
  ASSUME NEW rows \in SUBSET Rows, ScheduleAll(rows), NEW r \in rows
  PROVE  NewTask(r) \in Tasks /\ JobOf(NewTask(r)) = r[1] /\ pc[NewTask(r)] = "none"
<1>1. r[1] \in Jobs /\ Free(r[1]) # {}
  BY DEF Rows, ScheduleAll
<1>2. NewCopy(r[1]) \in Free(r[1])
  BY <1>1 DEF NewCopy
<1> QED BY <1>1, <1>2 DEF NewTask, Free, Tasks, JobOf

\* New tasks wait for the lock of their project, behind everybody who is there.
LEMMA ScheduleAllEffect ==
  ASSUME TypeOK, NEW rows \in SUBSET Rows, ScheduleAll(rows)
  PROVE  /\ \A t \in Tasks : \/ pc'[t] = pc[t]
                             \/ /\ pc[t] = "none" /\ pc'[t] = "lock"
                                /\ \E r \in rows : JobOf(t) = r[1]
         /\ pc' \in [Tasks -> TaskPcs]
         /\ at' \in [Tasks -> Steps]
         /\ registry' \in [Jobs -> 0..Copies]
         /\ line' \in [Projects -> Seq(Tasks)]
         /\ \A p \in Projects : line[p] # <<>> =>
                line'[p] # <<>> /\ Head(line'[p]) = Head(line[p])
<1> DEFINE new == {NewTask(r) : r \in rows}
           In(p) == {t \in new : ProjOf(t) = p}
<1>1. new \in SUBSET Tasks
  BY NewTaskIsFree
<1>2. pc' = [t \in Tasks |-> IF t \in new THEN "lock" ELSE pc[t]]
  BY DEF ScheduleAll
<1>3. \A t \in new : pc[t] = "none" /\ \E r \in rows : JobOf(t) = r[1]
  BY NewTaskIsFree
<1>4. at' \in [Tasks -> Steps]
  <2>1. at' = [t \in Tasks |->
                 IF t \in new THEN (CHOOSE r \in rows : NewTask(r) = t)[2] ELSE at[t]]
    BY DEF ScheduleAll
  <2>2. ASSUME NEW t \in new
        PROVE  (CHOOSE r \in rows : NewTask(r) = t)[2] \in Steps
    <3>1. \E r \in rows : NewTask(r) = t
      OBVIOUS
    <3>2. (CHOOSE r \in rows : NewTask(r) = t) \in rows
      BY <3>1
    <3> QED BY <3>2 DEF Rows
  <2> QED BY <2>1, <2>2 DEF TypeOK, TaskTypes
<1>5. registry' \in [Jobs -> 0..Copies]
  <2>1. registry' = [j \in Jobs |->
                       IF \E t \in new : JobOf(t) = j THEN NewCopy(j) ELSE registry[j]]
    BY DEF ScheduleAll
  <2>2. ASSUME NEW j \in Jobs, NEW t \in new, JobOf(t) = j
        PROVE  NewCopy(j) \in 1..Copies
    <3>1. PICK r \in rows : t = NewTask(r)
      OBVIOUS
    <3>2. r[1] = j
      BY <2>2, <3>1, NewTaskIsFree
    <3>3. Free(j) # {}
      BY <3>2 DEF ScheduleAll
    <3>4. NewCopy(j) \in Free(j)
      BY <3>3 DEF NewCopy
    <3> QED BY <3>4 DEF Free
  <2> QED BY <2>1, <2>2 DEF TypeOK, TaskTypes
<1>6. PICK ord \in [Projects -> UNION {SetToSeqs(S) : S \in SUBSET new}] :
          /\ \A p \in Projects : ord[p] \in SetToSeqs(In(p))
          /\ line' = [p \in Projects |-> line[p] \o ord[p]]
  BY DEF ScheduleAll
<1>7. ASSUME NEW p \in Projects
      PROVE  ord[p] \in Seq(Tasks)
  <2>1. In(p) \in SUBSET Tasks
    BY <1>1
  <2> QED BY <1>6, <2>1, OrdersAreSequences
<1>8. line \in [Projects -> Seq(Tasks)]
  BY DEF TypeOK, TaskTypes
<1>9. line' \in [Projects -> Seq(Tasks)]
  BY <1>6, <1>7, <1>8
<1>10. ASSUME NEW p \in Projects, line[p] # <<>>
       PROVE  line'[p] # <<>> /\ Head(line'[p]) = Head(line[p])
  BY <1>6, <1>7, <1>8, <1>10
<1>11. pc' \in [Tasks -> TaskPcs]
  BY <1>2 DEF TypeOK, TaskTypes, TaskPcs
<1> QED BY <1>2, <1>3, <1>4, <1>5, <1>9, <1>10, <1>11

-----------------------------------------------------------------------------
(* Type correctness.                                                        *)

LEMMA ConstantTypes ==
  /\ ProjectOf \in [Jobs -> Projects]
  /\ Copies \in Nat /\ MaxRetries \in Nat /\ MaxRequests \in Nat /\ MaxCrashes \in Nat
  /\ \A t \in Tasks : JobOf(t) \in Jobs /\ ProjOf(t) \in Projects
BY QueueAssumption DEF QueueAssumption, Tasks, JobOf, ProjOf

LEMMA InitTypes == Init => TypeOK
BY ConstantTypes DEF Init, TypeOK, RowTypes, TaskTypes, ClientTypes, BoundTypes,
                     Statuses, TaskPcs, ClientPcs, Steps, Rows, RunsCap

(* What the helper operators of the actions return. *)
LEMMA SetStatusTypes ==
  ASSUME RowTypes, NEW j \in Jobs, NEW s \in Statuses, SetStatus(j, s)
  PROVE  status' \in [Jobs -> Statuses]
BY DEF RowTypes, SetStatus

LEMMA SetStepTypes ==
  ASSUME RowTypes, NEW j \in Jobs, NEW k \in Steps, SetStep(j, k)
  PROVE  step' \in [Jobs -> Steps]
BY DEF RowTypes, SetStep

LEMMA GotoTypes ==
  ASSUME TaskTypes, NEW t \in Tasks, NEW l \in TaskPcs, Goto(t, l)
  PROVE  pc' \in [Tasks -> TaskPcs]
BY DEF TaskTypes, Goto

LEMMA ReplyTypes ==
  ASSUME ClientTypes, NEW c \in Clients, Reply(c)
  PROVE  ClientTypes'
BY DEF ClientTypes, Reply, To, Fetch, ClientPcs

LEMMA LoopTypes ==
  ASSUME ClientTypes, NEW c \in Clients, NEW rows \in SUBSET Rows, NEW l \in ClientPcs,
         Loop(c, rows, l)
  PROVE  ClientTypes'
<1>1. CASE rows = {}
  BY <1>1, ReplyTypes DEF Loop
<1>2. CASE rows # {}
  BY <1>2 DEF ClientTypes, Loop, To, Fetch
<1> QED BY <1>1, <1>2

LEMMA PickTypes ==
  ASSUME RowTypes, ClientTypes, NEW c \in Clients, NEW r \in fetched[c], NEW l \in ClientPcs,
         Pick(c, r, l)
  PROVE  ClientTypes'
<1>1. r[1] \in Jobs
  BY DEF ClientTypes, Rows
<1>2. <<r[1], step[r[1]]>> \in Rows
  BY <1>1 DEF RowTypes, Rows
<1> QED BY <1>2 DEF ClientTypes, Pick, To, Fetch

LEMMA RowsWithTypes ==
  ASSUME RowTypes, NEW p, NEW ss
  PROVE  RowsWith(p, ss) \in SUBSET Rows
BY DEF RowTypes, RowsWith, JobsIn, Rows

LEMMA TaskStepTypes ==
  ASSUME TypeOK, InsideHolds, NEW t \in Tasks, TaskStep(t)
  PROVE  TypeOK'
<1>0. RowTypes /\ TaskTypes /\ ClientTypes /\ BoundTypes /\ JobOf(t) \in Jobs /\ ProjOf(t) \in Projects
  BY ConstantTypes DEF TypeOK
<1>1. CASE AcquireLock(t)
  <2>1. pc' \in [Tasks -> TaskPcs]
    BY <1>0, <1>1, GotoTypes DEF AcquireLock, TaskPcs
  <2> QED BY <1>0, <1>1, <2>1
          DEF AcquireLock, OnlyPc, TypeOK, RowTypes, TaskTypes, ClientTypes, BoundTypes,
              rowVars, clientVars, boundVars
<1>2. CASE WaitUntilResumed(t)
  <2>1. pc' \in [Tasks -> TaskPcs]
    BY <1>0, <1>2, GotoTypes DEF WaitUntilResumed, TaskPcs
  <2> QED BY <1>0, <1>2, <2>1
          DEF WaitUntilResumed, OnlyPc, TypeOK, RowTypes, TaskTypes, ClientTypes, BoundTypes,
              rowVars, clientVars, boundVars
<1>3. CASE StageRaises(t)
  <2>1. pc' \in [Tasks -> TaskPcs]
    BY <1>0, <1>3, GotoTypes DEF StageRaises, TaskPcs
  <2> QED BY <1>0, <1>3, <2>1
          DEF StageRaises, OnlyPc, TypeOK, RowTypes, TaskTypes, ClientTypes, BoundTypes,
              rowVars, clientVars, boundVars
<1>4. CASE AutoPublish(t)
  <2>1. pc' \in [Tasks -> TaskPcs]
    BY <1>0, <1>4, GotoTypes DEF AutoPublish, TaskPcs
  <2> QED BY <1>0, <1>4, <2>1
          DEF AutoPublish, OnlyPc, TypeOK, RowTypes, TaskTypes, ClientTypes, BoundTypes,
              rowVars, clientVars, boundVars
<1>5. CASE CheckPause(t)
  <2>1. pc' \in [Tasks -> TaskPcs]
    BY <1>0, <1>5, GotoTypes DEF CheckPause, TaskPcs
  <2> QED BY <1>0, <1>5, <2>1
          DEF CheckPause, OnlyPc, TypeOK, RowTypes, TaskTypes, ClientTypes, BoundTypes,
              rowVars, clientVars, boundVars
<1>6. CASE StartExecute(t)
  <2>1. RowTypes'
    BY <1>0, <1>6, SetStatusTypes DEF StartExecute, RowTypes, Statuses
  <2>2. TaskTypes'
    <3>1. pc' \in [Tasks -> TaskPcs]
      BY <1>0, <1>6, GotoTypes DEF StartExecute, TaskPcs
    <3>2. runs' \in [Tasks -> 0..RunsCap]
      BY <1>0, <1>6, ConstantTypes DEF StartExecute, TaskTypes, RunsCap
    <3> QED BY <1>0, <1>6, <3>1, <3>2 DEF StartExecute, TaskTypes
  <2> QED BY <1>0, <1>6, <2>1, <2>2
          DEF StartExecute, TypeOK, ClientTypes, BoundTypes, clientVars, boundVars
<1>7. CASE ParseSource(t)
  <2>1. RowTypes'
    BY <1>0, <1>7 DEF ParseSource, RowTypes, rowVars
  <2>2. TaskTypes'
    <3>1. pc' \in [Tasks -> TaskPcs]
      BY <1>0, <1>7, GotoTypes DEF ParseSource, TaskPcs
    <3>2. PICK k \in {at[t]} \cup at[t]..2 : \/ at' = [at EXCEPT ![t] = k]
                                               \/ UNCHANGED at
      BY <1>7 DEF ParseSource
    <3>3. k \in Steps
      <4>1. at[t] \in 0..3
        BY <1>0 DEF TaskTypes, Steps
      <4>2. CASE k = at[t]
        BY <4>1, <4>2 DEF Steps
      <4>3. CASE k \in at[t]..2
        BY <4>1, <4>3 DEF Steps
      <4> QED BY <4>2, <4>3
    <3> QED BY <1>0, <1>7, <3>1, <3>2, <3>3 DEF ParseSource, TaskTypes
  <2> QED BY <1>0, <1>7, <2>1, <2>2
          DEF ParseSource, TypeOK, ClientTypes, BoundTypes, clientVars, boundVars
<1>8. CASE FinishStep(t)
  <2>1. RowTypes'
    <3>0. at[t] \in 0..3 /\ at[t] < 2
      BY <1>0, <1>8 DEF FinishStep, TaskTypes, Steps
    <3>1. at[t] + 1 \in Steps
      BY <3>0 DEF Steps
    <3> QED BY <1>0, <1>8, <3>1, SetStepTypes DEF FinishStep, RowTypes
  <2>2. TaskTypes'
    <3>1. pc' \in [Tasks -> TaskPcs]
      BY <1>0, <1>8, GotoTypes DEF FinishStep, TaskPcs
    <3>2. at[t] \in 0..3 /\ at[t] < 2
      BY <1>0, <1>8 DEF FinishStep, TaskTypes, Steps
    <3>3. at[t] + 1 \in Steps
      BY <3>2 DEF Steps
    <3> QED BY <1>0, <1>8, <3>1, <3>3 DEF FinishStep, TaskTypes
  <2> QED BY <1>0, <1>8, <2>1, <2>2
          DEF FinishStep, TypeOK, ClientTypes, BoundTypes, clientVars, boundVars
<1>9. CASE WritePages(t)
  <2>1. RowTypes'
    BY <1>0, <1>9, SetStepTypes DEF WritePages, RowTypes, Steps
  <2>2. TaskTypes'
    <3>1. pc' \in [Tasks -> TaskPcs]
      BY <1>0, <1>9, GotoTypes DEF WritePages, TaskPcs
    <3> QED BY <1>0, <1>9, <3>1 DEF WritePages, TaskTypes
  <2> QED BY <1>0, <1>9, <2>1, <2>2
          DEF WritePages, TypeOK, ClientTypes, BoundTypes, clientVars, boundVars
<1>10. CASE CompleteJob(t)
  <2>1. RowTypes'
    BY <1>0, <1>10, SetStatusTypes, SetStepTypes DEF CompleteJob, RowTypes, Statuses, Steps
  <2>2. TaskTypes'
    <3>1. pc' \in [Tasks -> TaskPcs]
      BY <1>0, <1>10, GotoTypes DEF CompleteJob, TaskPcs
    <3> QED BY <1>0, <1>10, <3>1 DEF CompleteJob, TaskTypes
  <2> QED BY <1>0, <1>10, <2>1, <2>2
          DEF CompleteJob, TypeOK, ClientTypes, BoundTypes, clientVars, boundVars
<1>11. CASE ReadFailedRow(t)
  <2>1. RowTypes'
    BY <1>0, <1>11 DEF ReadFailedRow, RowTypes, rowVars
  <2>2. TaskTypes'
    <3>1. pc' \in [Tasks -> TaskPcs]
      BY <1>0, <1>11, GotoTypes DEF ReadFailedRow, TaskPcs
    <3>2. at' \in [Tasks -> Steps] /\ seen' \in [Tasks -> 0..MaxRetries]
      BY <1>0, <1>11, ConstantTypes DEF ReadFailedRow, TaskTypes, RowTypes, Steps
    <3> QED BY <1>0, <1>11, <3>1, <3>2 DEF ReadFailedRow, TaskTypes
  <2> QED BY <1>0, <1>11, <2>1, <2>2
          DEF ReadFailedRow, TypeOK, ClientTypes, BoundTypes, clientVars, boundVars
<1>12. CASE RetryOrFail(t)
  <2>1. RowTypes'
    <3>1. status' \in [Jobs -> Statuses]
      BY <1>0, <1>12, SetStatusTypes DEF RetryOrFail, Statuses
    <3>2. CASE UNCHANGED retry
      BY <1>0, <1>12, <3>1, <3>2 DEF RetryOrFail, RowTypes
    <3>3. CASE /\ seen[t] < MaxRetries
               /\ retry' = [retry EXCEPT ![JobOf(t)] =
                              IF Exists(JobOf(t)) THEN seen[t] + 1 ELSE @]
      <4>1. seen[t] \in 0..MaxRetries /\ MaxRetries \in Nat
        BY <1>0, ConstantTypes DEF TaskTypes
      <4>2. seen[t] + 1 \in 0..MaxRetries
        BY <3>3, <4>1
      <4> QED BY <1>0, <1>12, <3>1, <3>3, <4>2 DEF RetryOrFail, RowTypes
    <3> QED BY <1>12, <3>2, <3>3 DEF RetryOrFail
  <2>2. TaskTypes'
    <3>1. pc' \in [Tasks -> TaskPcs]
      BY <1>0, <1>12, GotoTypes DEF RetryOrFail, TaskPcs
    <3> QED BY <1>0, <1>12, <3>1 DEF RetryOrFail, TaskTypes
  <2> QED BY <1>0, <1>12, <2>1, <2>2
          DEF RetryOrFail, TypeOK, ClientTypes, BoundTypes, clientVars, boundVars
<1>13. CASE ReleaseLock(t)
  <2>1. RowTypes'
    BY <1>0, <1>13 DEF ReleaseLock, RowTypes, rowVars
  <2>2. TaskTypes'
    <3>1. line[ProjOf(t)] # <<>>
      BY <1>13 DEF ReleaseLock, InsideHolds, Inside, Holds
    <3>2. line' \in [Projects -> Seq(Tasks)]
      BY <1>0, <1>13, <3>1 DEF ReleaseLock, TaskTypes
    <3>3. pc' \in [Tasks -> TaskPcs]
      BY <1>0, <1>13, GotoTypes DEF ReleaseLock, TaskPcs
    <3> QED BY <1>0, <1>13, <3>2, <3>3 DEF ReleaseLock, TaskTypes
  <2> QED BY <1>0, <1>13, <2>1, <2>2
          DEF ReleaseLock, TypeOK, ClientTypes, BoundTypes, clientVars, boundVars
<1>14. CASE DoneCallback(t)
  <2>1. RowTypes'
    BY <1>0, <1>14 DEF DoneCallback, RowTypes, rowVars
  <2>2. TaskTypes'
    <3>1. pc' \in [Tasks -> TaskPcs]
      BY <1>0, <1>14, GotoTypes DEF DoneCallback, TaskPcs
    <3>2. registry' \in [Jobs -> 0..Copies]
      BY <1>0, <1>14, ConstantTypes DEF DoneCallback, TaskTypes
    <3>3. at' \in [Tasks -> Steps]
      BY <1>0, <1>14 DEF DoneCallback, TaskTypes, Steps
    <3>4. seen' \in [Tasks -> 0..MaxRetries] /\ runs' \in [Tasks -> 0..RunsCap]
      BY <1>0, <1>14, ConstantTypes DEF DoneCallback, TaskTypes, RunsCap
    <3> QED BY <1>0, <1>14, <3>1, <3>2, <3>3, <3>4 DEF DoneCallback, TaskTypes
  <2> QED BY <1>0, <1>14, <2>1, <2>2
          DEF DoneCallback, TypeOK, ClientTypes, BoundTypes, clientVars, boundVars
<1> QED BY <1>1, <1>2, <1>3, <1>4, <1>5, <1>6, <1>7, <1>8, <1>9, <1>10, <1>11, <1>12, <1>13, <1>14 DEF TaskStep

LEMMA ArriveTypes ==
  ASSUME TypeOK, NEW c \in Clients, Arrive(c)
  PROVE  TypeOK'
<1>0. RowTypes /\ TaskTypes /\ ClientTypes /\ BoundTypes
  BY DEF TypeOK
<1>1. TaskTypes'
  BY <1>0 DEF Arrive, Enqueue, PauseJob, ResumeJob, PauseProject, ResumeProject, UpdateProject,
              RetryJob, DeleteJob, TaskTypes, taskVars
<1>2. BoundTypes'
  BY <1>0, ConstantTypes
     DEF Arrive, Enqueue, PauseJob, ResumeJob, PauseProject, ResumeProject, UpdateProject,
         RetryJob, DeleteJob, Serve, BoundTypes
<1>3. RowTypes' /\ ClientTypes'
  <2>1. CASE Enqueue(c)
    <3>1. PICK S \in SUBSET Jobs : Insert(c, S)
      BY <2>1 DEF Enqueue, Fresh, JobsIn
    <3>2. S \X {0} \in SUBSET Rows
      BY DEF Rows, Steps
    <3> QED BY <1>0, <2>1, <3>1, <3>2
            DEF Enqueue, Insert, Fetch, To, RowTypes, ClientTypes, ClientPcs, Statuses
  <2>2. CASE PauseJob(c)
    <3>1. \A j \in Jobs : {<<j, step[j]>>} \in SUBSET Rows
      BY <1>0 DEF RowTypes, Rows
    <3> QED BY <1>0, <2>2, <3>1
            DEF PauseJob, Fetch, To, RowTypes, ClientTypes, ClientPcs, rowVars
  <2>3. CASE ResumeJob(c)
    <3>1. \A j \in Jobs : {<<j, step[j]>>} \in SUBSET Rows
      BY <1>0 DEF RowTypes, Rows
    <3> QED BY <1>0, <2>3, <3>1
            DEF ResumeJob, Fetch, To, RowTypes, ClientTypes, ClientPcs, rowVars
  <2>4. CASE PauseProject(c)
    BY <1>0, <2>4 DEF PauseProject, To, RowTypes, ClientTypes, ClientPcs
  <2>5. CASE ResumeProject(c)
    BY <1>0, <2>5 DEF ResumeProject, To, RowTypes, ClientTypes, ClientPcs
  <2>6. CASE UpdateProject(c)
    BY <1>0, <2>6 DEF UpdateProject, RowTypes, ClientTypes, clientVars
  <2>7. CASE RetryJob(c)
    <3>1. \A j \in Jobs : {<<j, step[j]>>} \in SUBSET Rows
      BY <1>0 DEF RowTypes, Rows
    <3> QED BY <1>0, <2>7, <3>1
            DEF RetryJob, Fetch, To, RowTypes, ClientTypes, ClientPcs, rowVars
  <2>8. CASE DeleteJob(c)
    <3>1. \A j \in Jobs : {<<j, step[j]>>} \in SUBSET Rows
      BY <1>0 DEF RowTypes, Rows
    <3> QED BY <1>0, <2>8, <3>1
            DEF DeleteJob, Fetch, To, RowTypes, ClientTypes, ClientPcs, rowVars
  <2> QED BY <2>1, <2>2, <2>3, <2>4, <2>5, <2>6, <2>7, <2>8 DEF Arrive
<1> QED BY <1>1, <1>2, <1>3 DEF TypeOK

LEMMA HandleTypes ==
  ASSUME TypeOK, NEW c \in Clients, Handle(c)
  PROVE  TypeOK'
<1>0. /\ RowTypes /\ TaskTypes /\ ClientTypes /\ BoundTypes
      /\ fetched[c] \in SUBSET Rows /\ picked[c] \in SUBSET Rows
      /\ \A r \in Rows : r[1] \in Jobs
  BY DEF TypeOK, ClientTypes, Rows
<1>1. CASE EnqueueCheck(c)
  <2>1. RowTypes'
    BY <1>0, <1>1 DEF EnqueueCheck, RowTypes, rowVars
  <2>2. ClientTypes'
    BY <1>0, <1>1, ReplyTypes DEF EnqueueCheck, To, ClientTypes, ClientPcs
  <2> QED BY <1>0, <1>1, <2>1, <2>2
          DEF EnqueueCheck, Continue, TypeOK, TaskTypes, taskVars, BoundTypes, boundVars
<1>2. CASE EnqueueSchedule(c)
  <2>1. PICK rows \in SUBSET Rows : ScheduleAll(rows)
    BY <1>0, <1>2 DEF EnqueueSchedule
  <2>2. TaskTypes'
    BY <1>0, <2>1, ScheduleAllEffect DEF TaskTypes, ScheduleAll
  <2>3. ClientTypes'
    BY <1>0, <1>2, ReplyTypes DEF EnqueueSchedule
  <2> QED BY <1>0, <1>2, <2>2, <2>3
          DEF EnqueueSchedule, Continue, TypeOK, RowTypes, rowVars, BoundTypes, boundVars
<1>3. CASE PauseRead(c)
  <2>1. RowTypes'
    BY <1>0, <1>3 DEF PauseRead, RowTypes, rowVars
  <2>2. ClientTypes'
    <3>1. PICK r \in fetched[c] : IF status[r[1]] \in {"pending", "processing"}
                                  THEN Pick(c, r, "pauseWrite")
                                  ELSE Loop(c, fetched[c] \ {r}, "pauseRead")
      BY <1>3 DEF PauseRead
    <3> QED BY <1>0, <3>1, PickTypes, LoopTypes DEF ClientPcs
  <2> QED BY <1>0, <1>3, <2>1, <2>2
          DEF PauseRead, Continue, TypeOK, TaskTypes, taskVars, BoundTypes, boundVars
<1>4. CASE PauseWrite(c)
  <2>1. RowTypes'
    BY <1>0, <1>4, SetStatusTypes DEF PauseWrite, RowTypes, Statuses
  <2>2. ClientTypes'
    BY <1>0, <1>4, LoopTypes DEF PauseWrite, ClientPcs
  <2> QED BY <1>0, <1>4, <2>1, <2>2
          DEF PauseWrite, Continue, TypeOK, TaskTypes, taskVars, BoundTypes, boundVars
<1>5. CASE ResumeRead(c)
  <2>1. RowTypes'
    BY <1>0, <1>5 DEF ResumeRead, RowTypes, rowVars
  <2>2. ClientTypes'
    <3>1. PICK r \in fetched[c] : IF status[r[1]] = "paused"
                                  THEN Pick(c, r, "resumeWrite")
                                  ELSE Loop(c, fetched[c] \ {r}, "resumeRead")
      BY <1>5 DEF ResumeRead
    <3> QED BY <1>0, <3>1, PickTypes, LoopTypes DEF ClientPcs
  <2> QED BY <1>0, <1>5, <2>1, <2>2
          DEF ResumeRead, Continue, TypeOK, TaskTypes, taskVars, BoundTypes, boundVars
<1>6. CASE ResumeWrite(c)
  <2>1. RowTypes'
    BY <1>0, <1>6, SetStatusTypes DEF ResumeWrite, RowTypes, Statuses
  <2>2. ClientTypes'
    BY <1>0, <1>6 DEF ResumeWrite, To, ClientTypes, ClientPcs
  <2> QED BY <1>0, <1>6, <2>1, <2>2
          DEF ResumeWrite, Continue, TypeOK, TaskTypes, taskVars, BoundTypes, boundVars
<1>7. CASE ResumeCheck(c)
  <2>1. RowTypes'
    BY <1>0, <1>7 DEF ResumeCheck, RowTypes, rowVars
  <2>2. ClientTypes'
    <3>1. CASE Loop(c, fetched[c], "resumeRead")
      BY <1>0, <3>1, LoopTypes DEF ClientPcs
    <3>2. CASE To(c, "resumeSched") /\ UNCHANGED <<scope, fetched, picked>>
      BY <1>0, <3>2 DEF To, ClientTypes, ClientPcs
    <3> QED BY <1>7, <3>1, <3>2 DEF ResumeCheck
  <2> QED BY <1>0, <1>7, <2>1, <2>2
          DEF ResumeCheck, Continue, TypeOK, TaskTypes, taskVars, BoundTypes, boundVars
<1>8. CASE ResumeSchedule(c)
  <2>1. PICK rows \in SUBSET Rows : ScheduleAll(rows)
    BY <1>0, <1>8 DEF ResumeSchedule
  <2>2. TaskTypes'
    BY <1>0, <2>1, ScheduleAllEffect DEF TaskTypes, ScheduleAll
  <2>3. ClientTypes'
    BY <1>0, <1>8, LoopTypes DEF ResumeSchedule, ClientPcs
  <2> QED BY <1>0, <1>8, <2>2, <2>3
          DEF ResumeSchedule, Continue, TypeOK, RowTypes, rowVars, BoundTypes, boundVars
<1>9. CASE ClearWaiting(c)
  <2>1. RowTypes'
    BY <1>0, <1>9 DEF ClearWaiting, RowTypes, Statuses
  <2>2. ClientTypes'
    BY <1>0, <1>9 DEF ClearWaiting, To, ClientTypes, ClientPcs
  <2> QED BY <1>0, <1>9, <2>1, <2>2
          DEF ClearWaiting, Continue, TypeOK, TaskTypes, taskVars, BoundTypes, boundVars
<1>10. CASE ListProcessing(c)
  <2>1. RowTypes'
    BY <1>0, <1>10 DEF ListProcessing, RowTypes, rowVars
  <2>2. ClientTypes'
    BY <1>0, <1>10, LoopTypes, RowsWithTypes DEF ListProcessing, ClientPcs
  <2> QED BY <1>0, <1>10, <2>1, <2>2
          DEF ListProcessing, Continue, TypeOK, TaskTypes, taskVars, BoundTypes, boundVars
<1>11. CASE ListPending(c)
  <2>1. RowTypes'
    BY <1>0, <1>11 DEF ListPending, RowTypes, rowVars
  <2>2. ClientTypes'
    BY <1>0, <1>11, RowsWithTypes DEF ListPending, Fetch, To, ClientTypes, ClientPcs
  <2> QED BY <1>0, <1>11, <2>1, <2>2
          DEF ListPending, Continue, TypeOK, TaskTypes, taskVars, BoundTypes, boundVars
<1>12. CASE SchedulePending(c)
  <2>1. PICK rows \in SUBSET Rows : ScheduleAll(rows)
    BY <1>0, <1>12 DEF SchedulePending
  <2>2. TaskTypes'
    BY <1>0, <2>1, ScheduleAllEffect DEF TaskTypes, ScheduleAll
  <2>3. ClientTypes'
    BY <1>0, <1>12 DEF SchedulePending, Fetch, To, ClientTypes, ClientPcs
  <2> QED BY <1>0, <1>12, <2>2, <2>3
          DEF SchedulePending, Continue, TypeOK, RowTypes, rowVars, BoundTypes, boundVars
<1>13. CASE ListPaused(c)
  <2>1. RowTypes'
    BY <1>0, <1>13 DEF ListPaused, RowTypes, rowVars
  <2>2. ClientTypes'
    BY <1>0, <1>13, LoopTypes, RowsWithTypes DEF ListPaused, ClientPcs
  <2> QED BY <1>0, <1>13, <2>1, <2>2
          DEF ListPaused, Continue, TypeOK, TaskTypes, taskVars, BoundTypes, boundVars
<1>14. CASE Supersede(c)
  <2>1. RowTypes'
    BY <1>0, <1>14, SetStatusTypes DEF Supersede, RowTypes, Statuses
  <2>2. ClientTypes'
    <3>1. CASE Reply(c)
      BY <1>0, <3>1, ReplyTypes
    <3>2. CASE To(c, "retryInsert") /\ UNCHANGED <<scope, fetched, picked>>
      BY <1>0, <3>2 DEF To, ClientTypes, ClientPcs
    <3> QED BY <1>14, <3>1, <3>2 DEF Supersede
  <2> QED BY <1>0, <1>14, <2>1, <2>2
          DEF Supersede, Continue, TypeOK, TaskTypes, taskVars, BoundTypes, boundVars
<1>15. CASE RetryInsert(c)
  <2>1. PICK j \in Jobs : Insert(c, {j})
    BY <1>15 DEF RetryInsert, Fresh, JobsIn
  <2>2. {j} \X {0} \in SUBSET Rows
    BY DEF Rows, Steps
  <2>3. RowTypes'
    BY <1>0, <1>15, <2>1 DEF RetryInsert, Insert, RowTypes, Statuses
  <2>4. ClientTypes'
    BY <1>0, <1>15, <2>1, <2>2 DEF RetryInsert, Insert, Fetch, To, ClientTypes, ClientPcs
  <2> QED BY <1>0, <1>15, <2>3, <2>4
          DEF RetryInsert, Continue, TypeOK, TaskTypes, taskVars, BoundTypes, boundVars
<1>16. CASE DeleteWrite(c)
  <2>1. RowTypes'
    BY <1>0, <1>16, SetStatusTypes DEF DeleteWrite, RowTypes, Statuses
  <2>2. ClientTypes'
    BY <1>0, <1>16, ReplyTypes DEF DeleteWrite
  <2> QED BY <1>0, <1>16, <2>1, <2>2
          DEF DeleteWrite, Continue, TypeOK, TaskTypes, taskVars, BoundTypes, boundVars
<1> QED BY <1>1, <1>2, <1>3, <1>4, <1>5, <1>6, <1>7, <1>8, <1>9, <1>10, <1>11, <1>12, <1>13, <1>14, <1>15, <1>16 DEF Handle

-----------------------------------------------------------------------------
(* The inductive invariant.                                                 *)

\* Two tasks past the lock of one project are both the head of its line.
LEMMA HoldersAreSerial ==
  ASSUME InsideHolds
  PROVE  Serial
BY DEF InsideHolds, Serial, Holds

LEMMA InitInv == Init => IInv
<1> SUFFICES ASSUME Init PROVE IInv
  OBVIOUS
<1>1. TypeOK
  BY InitTypes
<1>2. KnownRows
  BY DEF Init, KnownRows
<1>3. InsideHolds
  BY DEF Init, InsideHolds, Inside
<1>4. SettleSeesRow
  BY DEF Init, SettleSeesRow
<1>5. AttemptsCounted
  BY ConstantTypes DEF Init, AttemptsCounted
<1>6. FailedExhausted
  BY DEF Init, FailedExhausted
<1> QED BY <1>1, <1>2, <1>3, <1>4, <1>5, <1>6 DEF IInv

\* What a step of a task leaves alone.
LEMMA TaskFrame ==
  ASSUME TypeOK, NEW t \in Tasks, TaskStep(t)
  PROVE  /\ UNCHANGED clientVars
         /\ \A u \in Tasks \ {t} : pc'[u] = pc[u] /\ seen'[u] = seen[u] /\ runs'[u] = runs[u]
         /\ \A j \in Jobs : /\ Exists(j)' <=> Exists(j)
                            /\ status'[j] = "none" <=> status[j] = "none"
                            /\ j # JobOf(t) => status'[j] = status[j] /\ retry'[j] = retry[j]
<1>0. /\ status \in [Jobs -> Statuses] /\ retry \in [Jobs -> 0..MaxRetries]
      /\ pc \in [Tasks -> TaskPcs] /\ seen \in [Tasks -> 0..MaxRetries]
      /\ runs \in [Tasks -> 0..RunsCap] /\ JobOf(t) \in Jobs
  BY ConstantTypes DEF TypeOK, RowTypes, TaskTypes
<1>1. UNCHANGED clientVars
  BY DEF TaskStep, AcquireLock, WaitUntilResumed, StartExecute, CheckPause, ParseSource, FinishStep,
         WritePages, StageRaises, CompleteJob, AutoPublish, ReadFailedRow, RetryOrFail,
         ReleaseLock, DoneCallback, OnlyPc
<1>2. \A u \in Tasks \ {t} : pc'[u] = pc[u]
  BY <1>0
     DEF TaskStep, AcquireLock, WaitUntilResumed, StartExecute, CheckPause, ParseSource, FinishStep,
         WritePages, StageRaises, CompleteJob, AutoPublish, ReadFailedRow, RetryOrFail,
         ReleaseLock, DoneCallback, Goto
<1>3. \A u \in Tasks \ {t} : seen'[u] = seen[u] /\ runs'[u] = runs[u]
  BY <1>0
     DEF TaskStep, AcquireLock, WaitUntilResumed, StartExecute, CheckPause, ParseSource, FinishStep,
         WritePages, StageRaises, CompleteJob, AutoPublish, ReadFailedRow, RetryOrFail,
         ReleaseLock, DoneCallback, OnlyPc
<1>4. \/ UNCHANGED status
      \/ \E s \in Statuses \ {"none", "gone"} : SetStatus(JobOf(t), s)
  BY DEF TaskStep, AcquireLock, WaitUntilResumed, StartExecute, CheckPause, ParseSource, FinishStep,
         WritePages, StageRaises, CompleteJob, AutoPublish, ReadFailedRow, RetryOrFail,
         ReleaseLock, DoneCallback, OnlyPc, rowVars, Statuses
<1>5. \A j \in Jobs : /\ Exists(j)' <=> Exists(j)
                      /\ status'[j] = "none" <=> status[j] = "none"
                      /\ j # JobOf(t) => status'[j] = status[j]
  BY <1>0, <1>4 DEF SetStatus, Exists
<1>6. \A j \in Jobs : j # JobOf(t) => retry'[j] = retry[j]
  BY <1>0
     DEF TaskStep, AcquireLock, WaitUntilResumed, StartExecute, CheckPause, ParseSource, FinishStep,
         WritePages, StageRaises, CompleteJob, AutoPublish, ReadFailedRow, RetryOrFail,
         ReleaseLock, DoneCallback, OnlyPc, rowVars
<1> QED BY <1>1, <1>2, <1>3, <1>5, <1>6

(* A step of a task preserves every part of the invariant.                  *)

LEMMA TaskStepInsideHolds ==
  ASSUME IInv, NEW t \in Tasks, TaskStep(t)
  PROVE  InsideHolds'
<1>0. /\ TypeOK /\ InsideHolds
      /\ line \in [Projects -> Seq(Tasks)] /\ pc \in [Tasks -> TaskPcs]
      /\ \A u \in Tasks : ProjOf(u) \in Projects
  BY ConstantTypes DEF IInv, TypeOK, TaskTypes
<1>1. \A u \in Tasks \ {t} : pc'[u] = pc[u]
  BY <1>0, TaskFrame
<1>2. CASE AcquireLock(t)
  BY <1>0, <1>1, <1>2 DEF AcquireLock, OnlyPc, InsideHolds, Inside, Holds
<1>3. CASE ReleaseLock(t)
  <2>1. Serial /\ Inside(t)
    BY <1>0, <1>3, HoldersAreSerial DEF ReleaseLock, Inside
  <2>2. pc'[t] = "ended"
    BY <1>0, <1>3 DEF ReleaseLock, Goto
  <2>3. ASSUME NEW u \in Tasks, Inside(u)'
        PROVE  Holds(u)'
    <3>1. u # t /\ Inside(u)
      BY <1>1, <2>2, <2>3 DEF Inside
    <3>2. ProjOf(u) # ProjOf(t)
      BY <2>1, <3>1 DEF Serial
    <3>3. line'[ProjOf(u)] = line[ProjOf(u)]
      BY <1>0, <1>3, <3>2 DEF ReleaseLock
    <3> QED BY <1>0, <3>1, <3>3 DEF InsideHolds, Holds
  <2> QED BY <2>3 DEF InsideHolds
<1>4. CASE ~AcquireLock(t) /\ ~ReleaseLock(t)
  <2>1. UNCHANGED line
    BY <1>4 DEF TaskStep, StartExecute, ReadFailedRow, RetryOrFail, DoneCallback,
           WaitUntilResumed, CheckPause, ParseSource, FinishStep, WritePages,
           StageRaises, CompleteJob, AutoPublish, OnlyPc
  <2>2. Inside(t)' => Inside(t)
    BY <1>0, <1>4 DEF TaskStep, StartExecute, ReadFailedRow, RetryOrFail, DoneCallback,
           WaitUntilResumed, CheckPause, ParseSource, FinishStep, WritePages,
           StageRaises, CompleteJob, AutoPublish, Goto, Inside
  <2>3. \A u \in Tasks : Inside(u)' => Inside(u)
    BY <1>1, <2>2 DEF Inside
  <2> QED BY <1>0, <2>1, <2>3 DEF InsideHolds, Holds
<1> QED BY <1>2, <1>3, <1>4

LEMMA TaskStepKnownRows ==
  ASSUME IInv, NEW t \in Tasks, TaskStep(t)
  PROVE  KnownRows'
<1>0. /\ TypeOK /\ KnownRows /\ pc \in [Tasks -> TaskPcs]
      /\ \A u \in Tasks : JobOf(u) \in Jobs
      /\ \A c \in Clients : \A r \in fetched[c] \cup picked[c] : r[1] \in Jobs
  BY ConstantTypes DEF IInv, TypeOK, TaskTypes, ClientTypes, Rows
<1>1. /\ UNCHANGED <<fetched, picked>>
      /\ \A u \in Tasks \ {t} : pc'[u] = pc[u]
      /\ \A j \in Jobs : status'[j] = "none" <=> status[j] = "none"
  BY <1>0, TaskFrame DEF clientVars
<1>2. pc[t] # "none"
  BY DEF TaskStep, AcquireLock, StartExecute, ReadFailedRow, RetryOrFail, ReleaseLock,
         DoneCallback, WaitUntilResumed, CheckPause, ParseSource, FinishStep, WritePages,
           StageRaises, CompleteJob, AutoPublish
<1> QED BY <1>0, <1>1, <1>2 DEF KnownRows

LEMMA TaskStepSettle ==
  ASSUME IInv, NEW t \in Tasks, TaskStep(t)
  PROVE  SettleSeesRow'
<1>0. /\ TypeOK /\ SettleSeesRow /\ Serial
      /\ retry \in [Jobs -> 0..MaxRetries] /\ pc \in [Tasks -> TaskPcs]
      /\ seen \in [Tasks -> 0..MaxRetries]
      /\ \A u \in Tasks : JobOf(u) \in Jobs
  BY ConstantTypes, HoldersAreSerial DEF IInv, TypeOK, RowTypes, TaskTypes
<1>1. /\ \A u \in Tasks \ {t} : pc'[u] = pc[u] /\ seen'[u] = seen[u]
      /\ \A j \in Jobs : /\ Exists(j)' <=> Exists(j)
                         /\ j # JobOf(t) => retry'[j] = retry[j]
  BY <1>0, TaskFrame
<1>2. CASE ReadFailedRow(t)
  BY <1>0, <1>1, <1>2 DEF ReadFailedRow, rowVars, SettleSeesRow
<1>3. CASE RetryOrFail(t)
  <2>1. pc'[t] # "settle" /\ Inside(t)
    BY <1>0, <1>3 DEF RetryOrFail, Goto, Inside
  <2>2. \A u \in Tasks \ {t} : pc[u] = "settle" => JobOf(u) # JobOf(t)
    BY <1>0, <2>1 DEF Serial, Inside, ProjOf
  <2> QED BY <1>0, <1>1, <2>1, <2>2 DEF SettleSeesRow
<1>4. CASE ~ReadFailedRow(t) /\ ~RetryOrFail(t)
  <2>1. UNCHANGED retry
    BY <1>4 DEF TaskStep, AcquireLock, StartExecute, ReleaseLock, DoneCallback,
           WaitUntilResumed, CheckPause, ParseSource, FinishStep, WritePages,
           StageRaises, CompleteJob, AutoPublish, OnlyPc, rowVars
  <2>2. pc'[t] # "settle"
    BY <1>0, <1>4 DEF TaskStep, AcquireLock, StartExecute, ReleaseLock, DoneCallback,
           WaitUntilResumed, CheckPause, ParseSource, FinishStep, WritePages,
           StageRaises, CompleteJob, AutoPublish, Goto
  <2> QED BY <1>0, <1>1, <2>1, <2>2 DEF SettleSeesRow
<1> QED BY <1>2, <1>3, <1>4

LEMMA TaskStepAttempts ==
  ASSUME IInv, NEW t \in Tasks, TaskStep(t)
  PROVE  AttemptsCounted'
<1>0. /\ TypeOK /\ AttemptsCounted /\ SettleSeesRow /\ MaxRetries \in Nat
      /\ retry \in [Jobs -> 0..MaxRetries] /\ pc \in [Tasks -> TaskPcs]
      /\ runs \in [Tasks -> 0..RunsCap] /\ seen \in [Tasks -> 0..MaxRetries]
      /\ \A u \in Tasks : JobOf(u) \in Jobs
  BY ConstantTypes DEF IInv, TypeOK, RowTypes, TaskTypes
<1> DEFINE Early(u) == pc[u] \in {"none", "lock", "wait", "start"}
           Bound(u) == runs[u] <= IF Early(u) THEN retry[JobOf(u)] ELSE retry[JobOf(u)] + 1
<1>1. /\ \A u \in Tasks \ {t} : pc'[u] = pc[u] /\ runs'[u] = runs[u]
      /\ \A j \in Jobs : /\ Exists(j)' <=> Exists(j)
                         /\ j # JobOf(t) => retry'[j] = retry[j]
  BY <1>0, TaskFrame
<1>2. retry'[JobOf(t)] >= retry[JobOf(t)]
  <2>1. CASE RetryOrFail(t)
    <3>1. pc[t] = "settle" /\ (Exists(JobOf(t)) => seen[t] = retry[JobOf(t)])
      BY <1>0, <2>1 DEF RetryOrFail, SettleSeesRow
    <3> QED BY <1>0, <2>1, <3>1 DEF RetryOrFail
  <2>2. CASE ~RetryOrFail(t)
    <3>1. UNCHANGED retry
      BY <2>2 DEF TaskStep, AcquireLock, StartExecute, ReadFailedRow, ReleaseLock,
             DoneCallback, WaitUntilResumed, CheckPause, ParseSource, FinishStep, WritePages,
           StageRaises, CompleteJob, AutoPublish, OnlyPc, rowVars
    <3> QED BY <1>0, <3>1
  <2> QED BY <2>1, <2>2
<1>3. ASSUME NEW u \in Tasks \ {t}
      PROVE  /\ pc'[u] \in {"none", "lock", "wait"} => runs'[u] = 0
             /\ Exists(JobOf(u))' => Bound(u)'
  <2>1. pc'[u] = pc[u] /\ runs'[u] = runs[u] /\ runs[u] \in 0..RunsCap
    BY <1>0, <1>1
  <2>2. JobOf(u)' = JobOf(u) /\ JobOf(u) \in Jobs
    BY <1>0 DEF JobOf
  <2>3. retry'[JobOf(u)] >= retry[JobOf(u)]
    BY <1>0, <1>1, <1>2, <2>2
  <2>4. retry'[JobOf(u)] \in Int
    BY TaskStepTypes, ConstantTypes, <2>2 DEF IInv, TypeOK, RowTypes
  <2>5. Exists(JobOf(u))' => Bound(u)
    BY <1>0, <1>1, <2>2 DEF AttemptsCounted
  <2>6. retry[JobOf(u)] \in Int /\ runs[u] \in Int
    BY <1>0, <2>2 DEF RunsCap
  <2>7. Exists(JobOf(u))' => Bound(u)'
    BY <2>1, <2>2, <2>3, <2>4, <2>5, <2>6
  <2> QED BY <1>0, <2>1, <2>7 DEF AttemptsCounted
<1>4. /\ pc'[t] \in {"none", "lock", "wait"} => runs'[t] = 0
      /\ Exists(JobOf(t))' => Bound(t)'
  <2>0. /\ JobOf(t)' = JobOf(t) /\ JobOf(t) \in Jobs /\ (Exists(JobOf(t))' <=> Exists(JobOf(t)))
        /\ retry[JobOf(t)] \in 0..MaxRetries /\ runs[t] \in 0..(MaxRetries + 2)
        /\ pc[t] \in {"none", "lock", "wait"} => runs[t] = 0
        /\ Exists(JobOf(t)) => Bound(t)
    BY <1>0, <1>1 DEF JobOf, RunsCap, AttemptsCounted
  <2>1. CASE StartExecute(t)
    <3>1. pc[t] = "start" /\ pc'[t] = "open" /\ retry' = retry
      BY <1>0, <2>1 DEF StartExecute, Goto
    <3>2. runs'[t] = IF runs[t] < RunsCap THEN runs[t] + 1 ELSE runs[t]
      BY <1>0, <2>1 DEF StartExecute
    <3> QED BY <1>0, <2>0, <3>1, <3>2
  <2>2. CASE RetryOrFail(t)
    <3>1. pc[t] = "settle" /\ runs' = runs /\ pc'[t] \in {"start", "exit"}
      BY <1>0, <2>2 DEF RetryOrFail, Goto
    <3>2. CASE pc'[t] = "exit"
      <4>1. retry' = retry
        BY <1>0, <2>2, <3>2 DEF RetryOrFail, Goto
      <4> QED BY <1>0, <2>0, <3>1, <3>2, <4>1
    <3>3. CASE pc'[t] = "start"
      <4>1. Exists(JobOf(t)) => retry'[JobOf(t)] = retry[JobOf(t)] + 1
        BY <1>0, <2>0, <2>2, <3>1, <3>3 DEF RetryOrFail, Goto, SettleSeesRow
      <4> QED BY <1>0, <2>0, <3>1, <3>3, <4>1
    <3> QED BY <3>1, <3>2, <3>3
  <2>3. CASE DoneCallback(t)
    <3>1. pc'[t] = "none" /\ runs'[t] = 0 /\ retry' = retry
      BY <1>0, <2>3 DEF DoneCallback, Goto, rowVars
    <3> QED BY <1>0, <2>0, <3>1
  <2>4. CASE AcquireLock(t) \/ WaitUntilResumed(t)
    <3>1. pc[t] \in {"lock", "wait"} /\ pc'[t] \in {"wait", "start"} /\ runs' = runs /\ retry' = retry
      BY <1>0, <2>4 DEF AcquireLock, WaitUntilResumed, Goto, OnlyPc, rowVars
    <3> QED BY <1>0, <2>0, <3>1
  <2>5. CASE \/ ReadFailedRow(t) \/ ReleaseLock(t) \/ CheckPause(t) \/ ParseSource(t)
             \/ FinishStep(t) \/ WritePages(t) \/ StageRaises(t) \/ CompleteJob(t)
             \/ AutoPublish(t)
    <3>1. /\ ~Early(t) /\ pc'[t] \notin {"none", "lock", "wait", "start"}
      BY <1>0, <2>5 DEF ReadFailedRow, ReleaseLock, CheckPause, ParseSource, FinishStep,
             WritePages, StageRaises, CompleteJob, AutoPublish, Goto
    <3>2. runs' = runs /\ retry' = retry
      BY <2>5 DEF ReadFailedRow, ReleaseLock, CheckPause, ParseSource, FinishStep,
             WritePages, StageRaises, CompleteJob, AutoPublish, OnlyPc, rowVars
    <3> QED BY <1>0, <2>0, <3>1, <3>2
  <2> QED BY <2>1, <2>2, <2>3, <2>4, <2>5 DEF TaskStep
<1> QED BY <1>3, <1>4 DEF AttemptsCounted

LEMMA TaskStepFailed ==
  ASSUME IInv, NEW t \in Tasks, TaskStep(t)
  PROVE  FailedExhausted'
<1>0. /\ TypeOK /\ FailedExhausted /\ SettleSeesRow /\ MaxRetries \in Nat
      /\ status \in [Jobs -> Statuses] /\ retry \in [Jobs -> 0..MaxRetries]
      /\ seen \in [Tasks -> 0..MaxRetries] /\ JobOf(t) \in Jobs
  BY ConstantTypes DEF IInv, TypeOK, RowTypes, TaskTypes
<1>1. \A j \in Jobs : j # JobOf(t) => status'[j] = status[j] /\ retry'[j] = retry[j]
  BY <1>0, TaskFrame
<1>2. status'[JobOf(t)] = "failed" => retry'[JobOf(t)] = MaxRetries
  <2>1. CASE RetryOrFail(t)
    <3>1. Exists(JobOf(t)) => seen[t] = retry[JobOf(t)]
      BY <1>0, <2>1 DEF RetryOrFail, SettleSeesRow
    <3>2. CASE seen[t] < MaxRetries /\ SetStatus(JobOf(t), "pending")
      BY <1>0, <3>2 DEF SetStatus, Exists
    <3>3. CASE seen[t] >= MaxRetries /\ SetStatus(JobOf(t), "failed") /\ UNCHANGED retry
      BY <1>0, <3>1, <3>3 DEF SetStatus, Exists
    <3> QED BY <2>1, <3>2, <3>3 DEF RetryOrFail
  <2>2. CASE ~RetryOrFail(t)
    <3>1. UNCHANGED retry
      BY <2>2 DEF TaskStep, AcquireLock, StartExecute, ReadFailedRow, ReleaseLock,
             DoneCallback, WaitUntilResumed, CheckPause, ParseSource, FinishStep, WritePages,
           StageRaises, CompleteJob, AutoPublish, OnlyPc, rowVars
    <3>2. UNCHANGED status \/ SetStatus(JobOf(t), "processing") \/ SetStatus(JobOf(t), "done")
      BY <2>2 DEF TaskStep, AcquireLock, StartExecute, ReadFailedRow, ReleaseLock,
             DoneCallback, WaitUntilResumed, CheckPause, ParseSource, FinishStep, WritePages,
           StageRaises, CompleteJob, AutoPublish, OnlyPc, rowVars
    <3>3. status'[JobOf(t)] = "failed" => status[JobOf(t)] = "failed"
      BY <1>0, <3>2 DEF SetStatus, Exists
    <3> QED BY <1>0, <3>1, <3>3 DEF FailedExhausted
  <2> QED BY <2>1, <2>2
<1> QED BY <1>0, <1>1, <1>2 DEF FailedExhausted

(* A request, a crash and a recovery preserve the invariant.                *)

\* A handler gives no row the status "failed", brings no deleted row back and
\* leaves the retry count alone.
LEMMA HandlerRows ==
  ASSUME TypeOK, NEW c \in Clients, Arrive(c) \/ Handle(c)
  PROVE  /\ UNCHANGED retry
         /\ \A j \in Jobs : /\ status[j] # "none" => status'[j] # "none"
                            /\ status[j] # "none" /\ Exists(j)' => Exists(j)
                            /\ status'[j] = "failed" => status[j] = "failed"
<1>0. status \in [Jobs -> Statuses] /\ \A r \in fetched[c] \cup picked[c] : r[1] \in Jobs
  BY DEF TypeOK, RowTypes, ClientTypes, Rows
<1>1. UNCHANGED retry
  BY DEF Arrive, Enqueue, PauseJob, ResumeJob, PauseProject, ResumeProject, UpdateProject, RetryJob, DeleteJob,
         Handle, EnqueueCheck, EnqueueSchedule, PauseRead, PauseWrite, ResumeRead,
         ResumeWrite, ResumeCheck, ResumeSchedule, ClearWaiting, ListProcessing,
         ListPending, SchedulePending, ListPaused, Supersede, RetryInsert, DeleteWrite,
         Insert, rowVars
<1>2. \/ UNCHANGED status
      \/ \E S \in SUBSET Jobs : /\ \A j \in S : status[j] = "none"
                                /\ status' = [j \in Jobs |-> IF j \in S THEN "pending"
                                                             ELSE status[j]]
      \/ \E j \in Jobs, s \in {"paused", "pending", "superseded", "gone"} : SetStatus(j, s)
      \/ \E S \in SUBSET Jobs : /\ \A j \in S : Exists(j)
                                /\ status' = [j \in Jobs |-> IF j \in S THEN "gone"
                                                             ELSE status[j]]
  <2>1. ASSUME NEW S \in SUBSET Jobs, \A j \in S : status[j] = "none", Insert(c, S)
        PROVE  \E R \in SUBSET Jobs :
                  /\ \A j \in R : status[j] = "none"
                  /\ status' = [j \in Jobs |-> IF j \in R THEN "pending" ELSE status[j]]
    <3>1. status' = [j \in Jobs |-> IF j \in S THEN "pending" ELSE status[j]]
      BY <2>1 DEF Insert
    <3> QED BY <2>1, <3>1
  <2>5. CASE Enqueue(c)
    <3>0. PICK p \in Projects : \E S \in SUBSET Fresh(p) : Insert(c, S)
      BY <2>5 DEF Enqueue
    <3>1. PICK S \in SUBSET Fresh(p) : Insert(c, S)
      BY <3>0
    <3>2. S \in SUBSET Jobs /\ \A j \in S : status[j] = "none"
      BY DEF Fresh, JobsIn
    <3> QED BY <2>1, <3>1, <3>2
  <2>6. CASE RetryInsert(c)
    <3>1. PICK r \in picked[c] : \E j \in Fresh(ProjectOf[r[1]]) : Insert(c, {j})
      BY <2>6 DEF RetryInsert
    <3>2. PICK j \in Fresh(ProjectOf[r[1]]) : Insert(c, {j})
      BY <3>1
    <3>3. {j} \in SUBSET Jobs /\ \A i \in {j} : status[i] = "none"
      BY DEF Fresh, JobsIn
    <3> QED BY <2>1, <3>2, <3>3
  <2>2. CASE ClearWaiting(c)
    <3> DEFINE S == {j \in Jobs : ProjectOf[j] \in scope[c] /\ status[j] \in {"pending", "paused"}}
    <3>1. status' = [j \in Jobs |-> IF j \in S THEN "gone" ELSE status[j]]
      BY <2>2 DEF ClearWaiting
    <3>2. S \in SUBSET Jobs /\ \A j \in S : Exists(j)
      BY DEF Exists
    <3> QED BY <3>1, <3>2
  <2>3. CASE PauseWrite(c) \/ ResumeWrite(c) \/ Supersede(c) \/ DeleteWrite(c)
    BY <1>0, <2>3 DEF PauseWrite, ResumeWrite, Supersede, DeleteWrite
  <2>4. CASE \/ PauseJob(c) \/ ResumeJob(c) \/ PauseProject(c) \/ ResumeProject(c)
             \/ UpdateProject(c) \/ RetryJob(c) \/ DeleteJob(c) \/ EnqueueCheck(c) \/ EnqueueSchedule(c)
             \/ PauseRead(c) \/ ResumeRead(c) \/ ResumeCheck(c) \/ ResumeSchedule(c)
             \/ ListProcessing(c) \/ ListPending(c) \/ SchedulePending(c) \/ ListPaused(c)
    BY <2>4 DEF PauseJob, ResumeJob, PauseProject, ResumeProject, UpdateProject, RetryJob, DeleteJob,
           EnqueueCheck, EnqueueSchedule, PauseRead, ResumeRead, ResumeCheck, ResumeSchedule,
           ListProcessing, ListPending, SchedulePending, ListPaused, rowVars
  <2> QED BY <2>2, <2>3, <2>4, <2>5, <2>6 DEF Arrive, Handle
<1> QED BY <1>0, <1>1, <1>2 DEF SetStatus, Exists

\* It starts tasks for rows it has read, and touches no task otherwise.
LEMMA HandlerTasks ==
  ASSUME TypeOK, NEW c \in Clients, Arrive(c) \/ Handle(c)
  PROVE  \/ UNCHANGED taskVars
         \/ \E rows \in SUBSET (fetched[c] \cup picked[c]) : ScheduleAll(rows)
<1>1. CASE EnqueueSchedule(c) \/ ResumeSchedule(c) \/ SchedulePending(c)
  <2>1. CASE EnqueueSchedule(c)
    BY <2>1 DEF EnqueueSchedule
  <2>2. CASE ResumeSchedule(c)
    BY <2>2 DEF ResumeSchedule
  <2>3. CASE SchedulePending(c)
    <3> DEFINE rows == {r \in fetched[c] : registry[r[1]] = 0}
    <3>1. rows \in SUBSET (fetched[c] \cup picked[c]) /\ ScheduleAll(rows)
      BY <2>3 DEF SchedulePending
    <3> QED BY <3>1
  <2> QED BY <1>1, <2>1, <2>2, <2>3
<1>2. CASE ~EnqueueSchedule(c) /\ ~ResumeSchedule(c) /\ ~SchedulePending(c)
  BY <1>2
     DEF Arrive, Enqueue, PauseJob, ResumeJob, PauseProject, ResumeProject, UpdateProject, RetryJob, DeleteJob,
         Handle, EnqueueCheck, PauseRead, PauseWrite, ResumeRead, ResumeWrite, ResumeCheck,
         ClearWaiting, ListProcessing, ListPending, ListPaused, Supersede, RetryInsert,
         DeleteWrite
<1> QED BY <1>1, <1>2

\* It works on rows that are, or were, in the table.
LEMMA HandlerKnows ==
  ASSUME TypeOK, KnownRows, NEW c \in Clients, Arrive(c) \/ Handle(c)
  PROVE  \A d \in Clients : \A r \in fetched'[d] \cup picked'[d] : status'[r[1]] # "none"
<1>0. /\ status \in [Jobs -> Statuses]
      /\ fetched \in [Clients -> SUBSET Rows] /\ picked \in [Clients -> SUBSET Rows]
      /\ \A d \in Clients : \A r \in fetched[d] \cup picked[d] :
             r[1] \in Jobs /\ status[r[1]] # "none"
      /\ \A j \in Jobs : status[j] # "none" => status'[j] # "none"
  BY HandlerRows DEF TypeOK, RowTypes, ClientTypes, KnownRows, Rows
<1>1. \A d \in Clients \ {c} : fetched'[d] = fetched[d] /\ picked'[d] = picked[d]
  BY <1>0
     DEF Arrive, Enqueue, PauseJob, ResumeJob, PauseProject, ResumeProject, UpdateProject, RetryJob, DeleteJob,
         Handle, EnqueueCheck, EnqueueSchedule, PauseRead, PauseWrite, ResumeRead,
         ResumeWrite, ResumeCheck, ResumeSchedule, ClearWaiting, ListProcessing,
         ListPending, SchedulePending, ListPaused, Supersede, RetryInsert, DeleteWrite,
         Insert, Fetch, Loop, Reply, Pick, clientVars
<1>2. \A r \in fetched'[c] \cup picked'[c] : status'[r[1]] # "none"
  <2>1. CASE Arrive(c) /\ ~Enqueue(c)
    BY <1>0, <2>1 DEF Arrive, PauseJob, ResumeJob, PauseProject, ResumeProject, UpdateProject, RetryJob,
           DeleteJob, Fetch, Exists, UpdateProject, clientVars
  <2>2. CASE Enqueue(c) \/ RetryInsert(c)
    <3>1. PICK S \in SUBSET Jobs : Insert(c, S)
      BY <2>2 DEF Enqueue, RetryInsert, Fresh, JobsIn
    <3>2. /\ fetched'[c] = S \X {0} /\ picked'[c] \in {picked[c], {}}
          /\ \A j \in S : status'[j] = "pending"
      BY <1>0, <2>2, <3>1 DEF Enqueue, RetryInsert, Insert, Fetch
    <3> QED BY <1>0, <3>2
  <2>3. CASE ListProcessing(c) \/ ListPending(c) \/ ListPaused(c)
    <3>1. PICK p \in scope[c], s \in {"processing", "pending", "paused"} :
              fetched'[c] \in {RowsWith(p, {s}), {}} /\ picked'[c] \in {picked[c], {}}
      BY <1>0, <2>3 DEF ListProcessing, ListPending, ListPaused, Loop, Reply, Fetch
    <3>2. \A r \in RowsWith(p, {s}) : r[1] \in Jobs /\ status[r[1]] # "none"
      BY DEF RowsWith, JobsIn
    <3> QED BY <1>0, <3>1, <3>2
  <2>4. CASE PauseRead(c) \/ ResumeRead(c)
    <3>1. PICK r \in fetched[c] : /\ fetched'[c] \in {fetched[c] \ {r}, {}}
                                  /\ picked'[c] \in {{<<r[1], step[r[1]]>>}, {}}
      BY <1>0, <2>4 DEF PauseRead, ResumeRead, Pick, Loop, Reply, Fetch
    <3> QED BY <1>0, <3>1
  <2>5. CASE \/ EnqueueCheck(c) \/ EnqueueSchedule(c) \/ PauseWrite(c) \/ ResumeWrite(c)
             \/ ResumeCheck(c) \/ ResumeSchedule(c) \/ ClearWaiting(c)
             \/ SchedulePending(c) \/ Supersede(c) \/ DeleteWrite(c)
    <3>1. fetched'[c] \in {fetched[c], {}} /\ picked'[c] \in {picked[c], {}}
      BY <1>0, <2>5 DEF EnqueueCheck, EnqueueSchedule, PauseWrite, ResumeWrite, ResumeCheck,
             ResumeSchedule, ClearWaiting, SchedulePending, Supersede, DeleteWrite,
             Loop, Reply, Fetch
    <3> QED BY <1>0, <3>1
  <2> QED BY <2>1, <2>2, <2>3, <2>4, <2>5 DEF Arrive, Handle
<1> QED BY <1>1, <1>2, <1>0

\* A step that lets every task be, or adds tasks at the end of the lines.
LEMMA SchedulingKeepsInv ==
  ASSUME IInv, TypeOK', UNCHANGED retry,
         \/ UNCHANGED taskVars
         \/ \E rows \in SUBSET Rows : /\ ScheduleAll(rows)
                                      /\ \A r \in rows : status[r[1]] # "none",
         \A j \in Jobs : /\ status[j] # "none" => status'[j] # "none"
                         /\ status[j] # "none" /\ Exists(j)' => Exists(j)
                         /\ status'[j] = "failed" => status[j] = "failed",
         \A d \in Clients : \A r \in fetched'[d] \cup picked'[d] : status'[r[1]] # "none"
  PROVE  IInv'
<1>0. /\ TypeOK /\ KnownRows /\ InsideHolds /\ SettleSeesRow /\ AttemptsCounted
      /\ FailedExhausted /\ line \in [Projects -> Seq(Tasks)] /\ pc \in [Tasks -> TaskPcs]
      /\ retry \in [Jobs -> 0..MaxRetries] /\ MaxRetries \in Nat
      /\ \A t \in Tasks : JobOf(t) \in Jobs /\ ProjOf(t) \in Projects
  BY ConstantTypes DEF IInv, TypeOK, RowTypes, TaskTypes
<1>1. /\ UNCHANGED <<seen, runs>>
      /\ \A t \in Tasks : \/ pc'[t] = pc[t]
                          \/ /\ pc[t] = "none" /\ pc'[t] = "lock"
                             /\ status[JobOf(t)] # "none"
      /\ \A p \in Projects : line[p] # <<>> =>
             line'[p] # <<>> /\ Head(line'[p]) = Head(line[p])
  <2>1. CASE UNCHANGED taskVars
    BY <2>1 DEF taskVars
  <2>2. CASE \E rows \in SUBSET Rows : /\ ScheduleAll(rows)
                                       /\ \A r \in rows : status[r[1]] # "none"
    <3>1. PICK rows \in SUBSET Rows : /\ ScheduleAll(rows)
                                      /\ \A r \in rows : status[r[1]] # "none"
      BY <2>2
    <3>2. UNCHANGED <<seen, runs>>
      BY <3>1 DEF ScheduleAll
    <3>3. \A t \in Tasks : \/ pc'[t] = pc[t]
                           \/ /\ pc[t] = "none" /\ pc'[t] = "lock"
                              /\ \E r \in rows : JobOf(t) = r[1]
      BY <1>0, <3>1, ScheduleAllEffect
    <3>4. \A p \in Projects : line[p] # <<>> =>
             line'[p] # <<>> /\ Head(line'[p]) = Head(line[p])
      BY <1>0, <3>1, ScheduleAllEffect
    <3> QED BY <3>1, <3>2, <3>3, <3>4
  <2> QED BY <2>1, <2>2
<1>2. KnownRows'
  BY <1>0, <1>1 DEF KnownRows
<1>3. InsideHolds'
  BY <1>0, <1>1 DEF InsideHolds, Inside, Holds
<1>4. \A t \in Tasks : pc[t] # "none" /\ Exists(JobOf(t))' => Exists(JobOf(t))
  BY <1>0 DEF KnownRows
<1>5. SettleSeesRow'
  BY <1>0, <1>1, <1>4 DEF SettleSeesRow
<1>6. AttemptsCounted'
  <2> SUFFICES ASSUME NEW t \in Tasks
               PROVE  /\ pc'[t] \in {"none", "lock", "wait"} => runs'[t] = 0
                      /\ Exists(JobOf(t))' =>
                           runs'[t] <= IF pc'[t] \in {"none", "lock", "wait", "start"}
                                       THEN retry'[JobOf(t)] ELSE retry'[JobOf(t)] + 1
    BY DEF AttemptsCounted, JobOf
  <2>1. CASE pc[t] = "none"
    <3>1. runs'[t] = 0 /\ pc'[t] \in {"none", "lock"}
      BY <1>0, <1>1, <2>1 DEF AttemptsCounted
    <3>2. retry'[JobOf(t)] \in 0..MaxRetries
      BY <1>0
    <3> QED BY <1>0, <3>1, <3>2
  <2>2. CASE pc[t] # "none"
    BY <1>0, <1>1, <1>4, <2>2 DEF AttemptsCounted
  <2> QED BY <2>1, <2>2
<1>7. FailedExhausted'
  BY <1>0 DEF FailedExhausted
<1> QED BY <1>2, <1>3, <1>5, <1>6, <1>7 DEF IInv

LEMMA HandlerKeepsInv ==
  ASSUME IInv, NEW c \in Clients, Arrive(c) \/ Handle(c)
  PROVE  IInv'
<1>0. TypeOK /\ KnownRows
  BY DEF IInv
<1>1. TypeOK'
  BY <1>0, ArriveTypes, HandleTypes
<1>2. \/ UNCHANGED taskVars
      \/ \E rows \in SUBSET Rows : /\ ScheduleAll(rows)
                                   /\ \A r \in rows : status[r[1]] # "none"
  <2>1. fetched[c] \cup picked[c] \in SUBSET Rows
    BY <1>0 DEF TypeOK, ClientTypes
  <2>2. \A r \in fetched[c] \cup picked[c] : status[r[1]] # "none"
    BY <1>0 DEF KnownRows
  <2> QED BY <1>0, <2>1, <2>2, HandlerTasks
<1> QED BY <1>0, <1>1, <1>2, HandlerRows, HandlerKnows, SchedulingKeepsInv

LEMMA TaskKeepsInv ==
  ASSUME IInv, NEW t \in Tasks, TaskStep(t)
  PROVE  IInv'
<1>1. TypeOK'
  BY TaskStepTypes DEF IInv
<1> QED BY <1>1, TaskStepInsideHolds, TaskStepKnownRows, TaskStepSettle, TaskStepAttempts,
           TaskStepFailed DEF IInv

LEMMA CrashKeepsInv ==
  ASSUME IInv, Crash
  PROVE  IInv'
<1>0. /\ RowTypes /\ BoundTypes /\ FailedExhausted /\ UNCHANGED rowVars
      /\ MaxRetries \in Nat /\ MaxCrashes \in Nat /\ Copies \in Nat
      /\ retry \in [Jobs -> 0..MaxRetries] /\ \A t \in Tasks : JobOf(t) \in Jobs
  BY ConstantTypes DEF IInv, TypeOK, RowTypes, Crash
<1>1. RowTypes'
  BY <1>0 DEF RowTypes, rowVars
<1>2. TaskTypes'
  BY <1>0 DEF Crash, TaskTypes, TaskPcs, Steps, RunsCap
<1>3. ClientTypes'
  BY DEF Crash, ClientTypes, ClientPcs
<1>4. BoundTypes'
  <2>1. crashes \in Int /\ crashes >= 0 /\ crashes < MaxCrashes /\ MaxCrashes \in Int
    BY <1>0 DEF Crash, BoundTypes
  <2>2. crashes + 1 \in 0..MaxCrashes
    BY <2>1
  <2> QED BY <1>0, <2>2 DEF Crash, BoundTypes
<1>5. KnownRows' /\ InsideHolds' /\ SettleSeesRow'
  BY DEF Crash, KnownRows, InsideHolds, Inside, SettleSeesRow
<1>6. AttemptsCounted'
  BY <1>0 DEF Crash, AttemptsCounted, rowVars
<1>7. FailedExhausted'
  BY <1>0 DEF FailedExhausted, rowVars
<1> QED BY <1>1, <1>2, <1>3, <1>4, <1>5, <1>6, <1>7 DEF IInv, TypeOK

LEMMA RecoverKeepsInv ==
  ASSUME IInv, Recover
  PROVE  IInv'
<1> DEFINE rows == UNION {RowsWith(p, {"pending", "processing"}) :
                              p \in {q \in Projects : ~paused[q]}}
<1>0. TypeOK /\ KnownRows /\ UNCHANGED rowVars /\ UNCHANGED clientVars /\ UNCHANGED boundVars
  BY DEF IInv, Recover
<1>1. rows \in SUBSET Rows /\ ScheduleAll(rows)
  BY <1>0, RowsWithTypes DEF TypeOK, Recover
<1>2. \A r \in rows : status[r[1]] # "none"
  <2>1. \A p : \A r \in RowsWith(p, {"pending", "processing"}) : status[r[1]] # "none"
    BY DEF RowsWith, JobsIn
  <2> QED BY <2>1
<1>3. TaskTypes'
  BY <1>0, <1>1, ScheduleAllEffect DEF TypeOK, TaskTypes, ScheduleAll
<1>4. TypeOK'
  BY <1>0, <1>3 DEF TypeOK, RowTypes, ClientTypes, BoundTypes, rowVars, clientVars,
                    boundVars, Recover
<1>5. UNCHANGED retry /\ UNCHANGED status /\ UNCHANGED fetched /\ UNCHANGED picked
  BY <1>0 DEF rowVars, clientVars
<1>6. \A d \in Clients : \A r \in fetched'[d] \cup picked'[d] : status'[r[1]] # "none"
  BY <1>0, <1>5 DEF KnownRows
<1>7. \A j \in Jobs : /\ status[j] # "none" => status'[j] # "none"
                      /\ status[j] # "none" /\ Exists(j)' => Exists(j)
                      /\ status'[j] = "failed" => status[j] = "failed"
  BY <1>5 DEF Exists
<1> QED BY <1>1, <1>2, <1>4, <1>5, <1>6, <1>7, SchedulingKeepsInv

LEMMA StutterKeepsInv ==
  ASSUME IInv, UNCHANGED vars
  PROVE  IInv'
BY DEF IInv, TypeOK, RowTypes, TaskTypes, ClientTypes, BoundTypes, KnownRows, InsideHolds,
       Inside, Holds, SettleSeesRow, AttemptsCounted, FailedExhausted, Exists, vars, rowVars,
       taskVars, clientVars, boundVars

-----------------------------------------------------------------------------
(* The theorems.                                                            *)

\* Every step of the queue preserves the inductive invariant, whatever the
\* handlers, the tasks, a crash and the recovery interleave to.
THEOREM InductiveInvariant == Spec => []IInv
<1>1. Init => IInv
  BY InitInv
<1>2. IInv /\ [Next]_vars => IInv'
  <2> SUFFICES ASSUME IInv, [Next]_vars PROVE IInv'
    OBVIOUS
  <2>1. CASE \E t \in Tasks : TaskStep(t)
    BY <2>1, TaskKeepsInv
  <2>2. CASE \E c \in Clients : Arrive(c) \/ Handle(c)
    BY <2>2, HandlerKeepsInv
  <2>3. CASE Crash
    BY <2>3, CrashKeepsInv
  <2>4. CASE Recover
    BY <2>4, RecoverKeepsInv
  <2>5. CASE UNCHANGED vars
    BY <2>5, StutterKeepsInv
  <2> QED BY <2>1, <2>2, <2>3, <2>4, <2>5 DEF Next
<1> QED BY <1>1, <1>2, PTL DEF Spec

\* Every variable keeps its type (the state the code keeps stays in its ranges).
THEOREM TypeCorrect == Spec => []TypeOK
<1>1. IInv => TypeOK
  BY DEF IInv
<1> QED BY <1>1, InductiveInvariant, PTL

\* At most one task of a project is past its lock: the ingest jobs of a project
\* run one after the other (queue.py:3), for any number of jobs and requests.
THEOREM SerialIngest == Spec => []Serial
<1>1. IInv => Serial
  BY HoldersAreSerial DEF IInv
<1> QED BY <1>1, InductiveInvariant, PTL

\* A job is reported "failed" only after MAX_RETRIES retries (queue.py:406).
THEOREM FailedIsExhausted == Spec => []FailedExhausted
<1>1. IInv => FailedExhausted
  BY DEF IInv
<1> QED BY <1>1, InductiveInvariant, PTL

\* A task attempts a job that is in the table at most 1 + MAX_RETRIES times.
THEOREM RetriesBounded == Spec => []RetryBudget
<1>1. IInv => RetryBudget
  <2> SUFFICES ASSUME IInv, NEW t \in Tasks, Exists(JobOf(t))
               PROVE  runs[t] <= MaxRetries + 1
    BY DEF RetryBudget
  <2>1. /\ retry[JobOf(t)] \in 0..MaxRetries /\ MaxRetries \in Nat
        /\ runs[t] \in 0..(MaxRetries + 2)
    BY ConstantTypes DEF IInv, TypeOK, RowTypes, TaskTypes, RunsCap
  <2>2. runs[t] <= IF pc[t] \in {"none", "lock", "wait", "start"}
                   THEN retry[JobOf(t)] ELSE retry[JobOf(t)] + 1
    BY DEF IInv, AttemptsCounted
  <2> QED BY <2>1, <2>2
<1> QED BY <1>1, InductiveInvariant, PTL

-----------------------------------------------------------------------------
(* Jobs that are only enqueued, retried and deleted: the registry, the rows *)
(* and the requests agree.  (A resume may give a job a second task.)        *)

\* The endpoints that pause and resume nothing.
CalmOps == {"enqueue", "retry", "delete"}
\* Where a task no longer changes its job, or is none.
AtEnd == {"none", "publish", "exit", "ended"}

\* A job has one live task at most.
LEMMA OneTaskEach ==
  ASSUME TypeOK, OneTaskPerJob, NEW t \in Tasks, NEW u \in Tasks,
         pc[t] # "none", pc[u] # "none", JobOf(t) = JobOf(u)
  PROVE  t = u
<1>1. t = <<JobOf(t), t[2]>> /\ u = <<JobOf(u), u[2]>>
  BY DEF Tasks, JobOf
<1>2. registry[JobOf(t)] = t[2] /\ registry[JobOf(u)] = u[2]
  BY DEF OneTaskPerJob
<1> QED BY <1>1, <1>2

\* The task of a job that somebody has in hands, or that has no task, is none.
LEMMA NoTaskNoEntry ==
  ASSUME TypeOK, OneTaskPerJob, NEW t \in Tasks, registry[JobOf(t)] = 0
  PROVE  pc[t] = "none"
<1>1. t[2] \in 1..Copies /\ Copies \in Nat
  BY ConstantTypes DEF Tasks
<1>2. t[2] # 0
  BY <1>1
<1> QED BY <1>2 DEF OneTaskPerJob

\* What a task leaves alone, and when its entry goes.
LEMMA CalmTaskFrame ==
  ASSUME TypeOK, NEW t \in Tasks, TaskStep(t)
  PROVE  /\ pc[t] # "none"
         /\ UNCHANGED <<paused, up, clientVars>>
         /\ \A u \in Tasks \ {t} : pc'[u] = pc[u] /\ at'[u] = at[u]
         /\ \A j \in Jobs \ {JobOf(t)} : /\ status'[j] = status[j]
                                         /\ step'[j] = step[j]
                                         /\ registry'[j] = registry[j]
         /\ \/ pc[t] = "ended" /\ pc'[t] = "none" /\ registry'[JobOf(t)] = 0
            \/ pc'[t] # "none" /\ UNCHANGED registry
<1>0. /\ status \in [Jobs -> Statuses] /\ step \in [Jobs -> Steps]
      /\ pc \in [Tasks -> TaskPcs] /\ at \in [Tasks -> Steps] /\ registry \in [Jobs -> 0..Copies]
      /\ JobOf(t) \in Jobs
  BY ConstantTypes DEF TypeOK, RowTypes, TaskTypes
<1>1. pc[t] # "none"
  BY DEF TaskStep, AcquireLock, StartExecute, ReadFailedRow, RetryOrFail, ReleaseLock,
         DoneCallback, WaitUntilResumed, CheckPause, ParseSource, FinishStep, WritePages,
         StageRaises, CompleteJob, AutoPublish
<1>2. UNCHANGED <<paused, up>>
  BY DEF TaskStep, AcquireLock, WaitUntilResumed, StartExecute, CheckPause, ParseSource, FinishStep,
         WritePages, StageRaises, CompleteJob, AutoPublish, ReadFailedRow, RetryOrFail,
         ReleaseLock, DoneCallback, OnlyPc, rowVars
<1>3. \A u \in Tasks \ {t} : at'[u] = at[u]
  BY <1>0
     DEF TaskStep, AcquireLock, WaitUntilResumed, StartExecute, CheckPause, ParseSource, FinishStep,
         WritePages, StageRaises, CompleteJob, AutoPublish, ReadFailedRow, RetryOrFail,
         ReleaseLock, DoneCallback, OnlyPc
<1>4. \A j \in Jobs \ {JobOf(t)} : step'[j] = step[j]
  BY <1>0
     DEF TaskStep, AcquireLock, WaitUntilResumed, StartExecute, CheckPause, ParseSource, FinishStep,
         WritePages, StageRaises, CompleteJob, AutoPublish, ReadFailedRow, RetryOrFail,
         ReleaseLock, DoneCallback, OnlyPc, rowVars, SetStep
<1>5. CASE DoneCallback(t)
  <2>1. /\ pc[t] = "ended" /\ pc'[t] = "none" /\ registry'[JobOf(t)] = 0
        /\ \A j \in Jobs \ {JobOf(t)} : registry'[j] = registry[j]
    BY <1>0, <1>5 DEF DoneCallback, Goto
  <2> QED BY <1>1, <1>2, <1>3, <1>4, <2>1, TaskFrame
<1>6. CASE ~DoneCallback(t)
  <2>1. UNCHANGED registry
    BY <1>6 DEF TaskStep, AcquireLock, WaitUntilResumed, StartExecute, CheckPause, ParseSource,
           FinishStep, WritePages, StageRaises, CompleteJob, AutoPublish, ReadFailedRow,
           RetryOrFail, ReleaseLock, OnlyPc
  <2>2. pc'[t] # "none"
    BY <1>0, <1>6 DEF TaskStep, AcquireLock, WaitUntilResumed, StartExecute, CheckPause,
           ParseSource, FinishStep, WritePages, StageRaises, CompleteJob, AutoPublish,
           ReadFailedRow, RetryOrFail, ReleaseLock, Goto
  <2> QED BY <1>1, <1>2, <1>3, <1>4, <2>1, <2>2, TaskFrame
<1> QED BY <1>5, <1>6

\* What it does to its own row, where nobody pauses.
LEMMA CalmTaskRow ==
  ASSUME TypeOK, StatusFollowsTask, NobodyPauses, StepsReached, NEW t \in Tasks, TaskStep(t)
  PROVE  LET j == JobOf(t) IN
         /\ pc'[t] \in {"lock", "wait", "start"} => status'[j] \in {"pending", "processing"}
         /\ pc'[t] \in AtEnd => status'[j] \in Finished
         /\ pc'[t] \notin AtEnd \cup {"lock", "wait", "start"} => status'[j] = "processing"
         /\ status[j] \in Finished => status'[j] = status[j]
         /\ step'[j] >= step[j]
         /\ pc'[t] \notin AtEnd \cup {"failing", "written"} => step'[j] <= at'[t]
<1> DEFINE j == JobOf(t)
<1>0. /\ status \in [Jobs -> Statuses] /\ step \in [Jobs -> Steps] /\ step[j] \in 0..3
      /\ pc \in [Tasks -> TaskPcs] /\ at \in [Tasks -> Steps] /\ at[t] \in 0..3
      /\ j \in Jobs /\ status[j] # "paused"
      /\ pc[t] \in {"lock", "wait", "start"} => status[j] \in {"pending", "processing"}
      /\ pc[t] \in {"publish", "exit", "ended"} => status[j] \in Finished
      /\ pc[t] \notin AtEnd \cup {"lock", "wait", "start"} => status[j] = "processing"
      /\ pc[t] \notin AtEnd \cup {"failing", "written"} => step[j] <= at[t]
  BY ConstantTypes
     DEF TypeOK, RowTypes, TaskTypes, StatusFollowsTask, NobodyPauses, StepsReached, Steps, AtEnd
<1> HIDE DEF j
<1>1. CASE AcquireLock(t) \/ WaitUntilResumed(t) \/ StageRaises(t) \/ AutoPublish(t)
  <2>1. UNCHANGED <<status, step, at>>
    BY <1>1 DEF AcquireLock, WaitUntilResumed, StageRaises, AutoPublish, OnlyPc, rowVars
  <2>2. \/ pc[t] = "lock" /\ pc'[t] = "wait"
        \/ pc[t] = "wait" /\ pc'[t] = "start"
        \/ pc[t] = "work" /\ pc'[t] = "failing"
        \/ pc[t] = "publish" /\ pc'[t] = "exit"
    BY <1>0, <1>1 DEF AcquireLock, WaitUntilResumed, StageRaises, AutoPublish, Goto
  <2> QED BY <1>0, <2>1, <2>2 DEF AtEnd, Finished, j
<1>2. CASE StartExecute(t)
  <2>1. status'[j] = "processing" /\ UNCHANGED <<step, at>>
    BY <1>0, <1>2 DEF StartExecute, SetStatus, Exists, j
  <2>2. pc[t] = "start" /\ pc'[t] = "open"
    BY <1>0, <1>2 DEF StartExecute, Goto
  <2> QED BY <1>0, <2>1, <2>2 DEF AtEnd, Finished, j
<1>3. CASE CheckPause(t)
  <2>1. UNCHANGED <<status, step, at>>
    BY <1>3 DEF CheckPause, OnlyPc, rowVars
  <2>2. pc[t] \in {"open", "check"} /\ pc'[t] \in {"parse", "work"}
    BY <1>0, <1>3 DEF CheckPause, Goto, j
  <2> QED BY <1>0, <2>1, <2>2 DEF AtEnd, Finished, j
<1>4. CASE ParseSource(t)
  <2>1. UNCHANGED <<status, step>> /\ pc[t] = "parse" /\ pc'[t] \in {"check", "skipped", "failing"}
    BY <1>0, <1>4 DEF ParseSource, Goto, rowVars
  <2>2. at'[t] >= at[t] /\ at'[t] \in Int
    <3>1. CASE UNCHANGED at
      BY <1>0, <3>1
    <3>2. CASE \E k \in {at[t]} \cup at[t]..2 : at' = [at EXCEPT ![t] = k]
      <4>1. PICK k \in {at[t]} \cup at[t]..2 : at' = [at EXCEPT ![t] = k]
        BY <3>2
      <4>2. at'[t] = k
        BY <1>0, <4>1
      <4> QED BY <1>0, <4>1, <4>2
    <3> QED BY <1>4, <3>1, <3>2 DEF ParseSource
  <2>3. step'[j] <= at'[t]
    BY <1>0, <2>1, <2>2 DEF AtEnd
  <2> QED BY <1>0, <2>1, <2>3 DEF AtEnd, Finished, j
<1>5. CASE FinishStep(t)
  <2>1. /\ UNCHANGED status /\ pc[t] = "work" /\ pc'[t] = "check"
        /\ at'[t] = at[t] + 1 /\ step'[j] = at[t] + 1
    BY <1>0, <1>5 DEF FinishStep, Goto, SetStep, Exists, j, AtEnd
  <2> QED BY <1>0, <2>1 DEF AtEnd, Finished, j
<1>6. CASE WritePages(t)
  <2>1. /\ UNCHANGED <<status, at>> /\ pc[t] = "work"
        /\ \/ pc'[t] \in {"written", "failing"} /\ step'[j] = 3
           \/ pc'[t] = "skipped" /\ step'[j] = step[j]
    BY <1>0, <1>6 DEF WritePages, Goto, SetStep, Exists, j, AtEnd
  <2> QED BY <1>0, <2>1 DEF AtEnd, Finished, j
<1>7. CASE CompleteJob(t)
  <2>1. /\ pc[t] \in {"skipped", "written"} /\ pc'[t] \in {"publish", "exit"}
        /\ status'[j] = "done" /\ step'[j] = 3
    BY <1>0, <1>7 DEF CompleteJob, Goto, SetStep, SetStatus, Exists, j, AtEnd
  <2> QED BY <1>0, <2>1 DEF AtEnd, Finished, j
<1>8. CASE ReadFailedRow(t)
  <2>1. /\ pc[t] = "failing" /\ pc'[t] = "settle" /\ UNCHANGED <<status, step>>
        /\ at'[t] = step[j]
    BY <1>0, <1>8 DEF ReadFailedRow, Goto, rowVars, Exists, j, AtEnd
  <2> QED BY <1>0, <2>1 DEF AtEnd, Finished, j
<1>9. CASE RetryOrFail(t)
  <2>1. /\ pc[t] = "settle" /\ UNCHANGED <<step, at>>
        /\ \/ pc'[t] = "start" /\ status'[j] = "pending"
           \/ pc'[t] = "exit" /\ status'[j] = "failed"
    BY <1>0, <1>9 DEF RetryOrFail, Goto, SetStatus, Exists, j, AtEnd
  <2> QED BY <1>0, <2>1 DEF AtEnd, Finished, j
<1>10. CASE ReleaseLock(t) \/ DoneCallback(t)
  <2>1. /\ pc[t] \in {"exit", "ended"} /\ pc'[t] \in {"ended", "none"} /\ UNCHANGED <<status, step>>
    BY <1>0, <1>10 DEF ReleaseLock, DoneCallback, Goto, rowVars
  <2> QED BY <1>0, <2>1 DEF AtEnd, Finished, j
<1> QED BY <1>1, <1>2, <1>3, <1>4, <1>5, <1>6, <1>7, <1>8, <1>9, <1>10 DEF TaskStep


\* A step of a task keeps registry, rows and requests in agreement.
LEMMA CalmTask ==
  ASSUME IInv, CalmInv, NEW t \in Tasks, TaskStep(t)
  PROVE  CalmInv' /\ \A j \in Jobs : step'[j] >= step[j]
<1> DEFINE j == JobOf(t)
<1>0. /\ TypeOK /\ OneTaskPerJob /\ NoOrphan /\ RequestsApart /\ NobodyPauses
      /\ StatusFollowsTask /\ StepsReached /\ DownIsEmpty /\ KnownRows
      /\ \A u \in Tasks : JobOf(u) \in Jobs /\ u = <<JobOf(u), u[2]>> /\ u[2] \in 1..Copies
      /\ \A c \in Clients : \A r \in fetched[c] \cup picked[c] : r[1] \in Jobs
      /\ Copies \in Nat
  BY ConstantTypes
     DEF IInv, CalmInv, TasksMatchRows, TypeOK, ClientTypes, Rows, Tasks, JobOf
<1>1. /\ pc[t] # "none" /\ UNCHANGED <<paused, up, cpc, fetched, picked>>
      /\ \A u \in Tasks \ {t} : pc'[u] = pc[u] /\ at'[u] = at[u]
      /\ \A k \in Jobs \ {j} : /\ status'[k] = status[k]
                               /\ step'[k] = step[k]
                               /\ registry'[k] = registry[k]
      /\ \/ pc[t] = "ended" /\ pc'[t] = "none" /\ registry'[j] = 0
         \/ pc'[t] # "none" /\ UNCHANGED registry
  BY <1>0, CalmTaskFrame DEF clientVars
<1>2. /\ pc'[t] \in {"lock", "wait", "start"} => status'[j] \in {"pending", "processing"}
      /\ pc'[t] \in AtEnd => status'[j] \in Finished
      /\ pc'[t] \notin AtEnd \cup {"lock", "wait", "start"} => status'[j] = "processing"
      /\ status[j] \in Finished => status'[j] = status[j]
      /\ step'[j] >= step[j]
      /\ pc'[t] \notin AtEnd \cup {"failing", "written"} => step'[j] <= at'[t]
  BY <1>0, CalmTaskRow
<1>3. /\ j \in Jobs /\ registry[j] # 0
      /\ \A u \in Tasks \ {t} : pc[u] # "none" => JobOf(u) # j
  <2>1. registry[j] = t[2]
    BY <1>0, <1>1 DEF OneTaskPerJob
  <2> QED BY <1>0, <1>1, <2>1, OneTaskEach
<1> HIDE DEF j
<1>4. OneTaskPerJob'
  <2> SUFFICES ASSUME NEW u \in Tasks
               PROVE  pc'[u] # "none" <=> registry'[JobOf(u)] = u[2]
    BY DEF OneTaskPerJob, JobOf
  <2>1. CASE u = t
    BY <1>0, <1>1, <2>1 DEF OneTaskPerJob, j
  <2>2. CASE u # t /\ JobOf(u) = j
    <3>1. pc'[u] = "none" /\ u[2] # 0
      BY <1>0, <1>1, <1>3, <2>2
    <3>2. registry[j] # u[2]
      BY <1>0, <1>1, <1>3, <2>2 DEF OneTaskPerJob
    <3> QED BY <1>1, <2>2, <3>1, <3>2
  <2>3. CASE u # t /\ JobOf(u) # j
    BY <1>0, <1>1, <2>3 DEF OneTaskPerJob
  <2> QED BY <2>1, <2>2, <2>3
<1>5. StatusFollowsTask'
  <2> SUFFICES ASSUME NEW u \in Tasks, pc'[u] # "none"
               PROVE  /\ pc'[u] \in {"lock", "wait", "start"} =>
                            status'[JobOf(u)] \in {"pending", "processing"}
                      /\ pc'[u] \in {"publish", "exit", "ended"} => status'[JobOf(u)] \in Finished
                      /\ pc'[u] \notin AtEnd \cup {"lock", "wait", "start"} =>
                            status'[JobOf(u)] = "processing"
    BY DEF StatusFollowsTask, AtEnd, JobOf
  <2>1. CASE u = t
    BY <1>2, <2>1 DEF AtEnd, j
  <2>2. CASE u # t
    <3>1. status'[JobOf(u)] = status[JobOf(u)] /\ pc'[u] = pc[u]
      BY <1>0, <1>1, <1>3, <2>2
    <3> QED BY <1>0, <3>1 DEF StatusFollowsTask, AtEnd
  <2> QED BY <2>1, <2>2
<1>6. StepsReached'
  <2>1. \A k \in Jobs : status'[k] = "none" => step'[k] = 0
    <3>1. status'[j] # "none"
      BY <1>2 DEF Finished, AtEnd
    <3> QED BY <1>0, <1>1, <3>1 DEF StepsReached
  <2> SUFFICES ASSUME NEW u \in Tasks, pc'[u] \notin AtEnd \cup {"failing", "written"}
               PROVE  step'[JobOf(u)] <= at'[u]
    BY <2>1 DEF StepsReached, AtEnd, JobOf
  <2>2. CASE u = t
    BY <1>2, <2>2 DEF j
  <2>3. CASE u # t
    <3>1. /\ step'[JobOf(u)] = step[JobOf(u)] /\ at'[u] = at[u] /\ pc'[u] = pc[u]
      BY <1>0, <1>1, <1>3, <2>3 DEF AtEnd
    <3> QED BY <1>0, <3>1 DEF StepsReached, AtEnd
  <2> QED BY <2>2, <2>3
<1>7. NobodyPauses'
  <2>1. status'[j] # "paused"
    BY <1>2 DEF Finished, AtEnd
  <2> QED BY <1>0, <1>1, <2>1 DEF NobodyPauses
<1>8. RequestsApart'
  <2>1. \A c \in Clients : cpc[c] \in {"enqCheck", "enqSched"} => \A r \in fetched[c] : r[1] # j
    BY <1>0, <1>3 DEF RequestsApart
  <2>2. \A c \in Clients : cpc[c] \in {"retryWrite", "retryInsert", "deleteWrite"} =>
            \A r \in picked[c] : status'[r[1]] \in Finished
    <3> SUFFICES ASSUME NEW c \in Clients, NEW r \in picked[c], r[1] \in Jobs,
                        status[r[1]] \in Finished
                 PROVE  status'[r[1]] \in Finished
      BY <1>0 DEF RequestsApart
    <3>1. CASE r[1] = j
      BY <1>2, <3>1
    <3>2. CASE r[1] # j
      BY <1>1, <3>2
    <3> QED BY <3>1, <3>2
  <2>3. \A c \in Clients : cpc'[c] \in {"enqCheck", "enqSched"} => \A r \in fetched'[c] :
            status'[r[1]] = "pending" /\ registry'[r[1]] = 0 /\ step'[r[1]] = 0 /\ r[2] = 0
    BY <1>0, <1>1, <2>1 DEF RequestsApart
  <2>4. \A c, d \in Clients :
          cpc'[c] \in {"enqCheck", "enqSched"} /\ cpc'[d] \in {"enqCheck", "enqSched"} /\ c # d
          => \A r \in fetched'[c] : \A s \in fetched'[d] : r[1] # s[1]
    BY <1>0, <1>1 DEF RequestsApart
  <2> QED BY <1>1, <2>2, <2>3, <2>4 DEF RequestsApart
<1>9. DownIsEmpty'
  BY <1>0, <1>1 DEF DownIsEmpty
<1>10. NoOrphan'
  <2> SUFFICES ASSUME up, NEW k \in Jobs, status'[k] \in {"pending", "processing"}
               PROVE  Carried(k)' \/ InHands(k)'
    BY <1>1 DEF NoOrphan, Carried, InHands
  <2>1. CASE k = j
    <3>1. pc'[t] \notin {"none", "exit", "ended"}
      BY <1>2, <2>1 DEF AtEnd, Finished
    <3> QED BY <1>0, <2>1, <3>1 DEF Carried, j
  <2>2. CASE k # j
    <3>1. Carried(k) \/ InHands(k)
      BY <1>0, <1>1, <2>2 DEF NoOrphan
    <3>2. ASSUME Carried(k) PROVE Carried(k)'
      <4>1. PICK i \in 1..Copies : pc[<<k, i>>] \notin {"none", "exit", "ended"}
        BY <3>2 DEF Carried
      <4>2. <<k, i>> \in Tasks /\ JobOf(<<k, i>>) = k
        BY DEF Tasks, JobOf
      <4>3. <<k, i>> # t
        BY <2>2, <4>2 DEF j
      <4> QED BY <1>1, <4>1, <4>2, <4>3 DEF Carried
    <3>3. ASSUME InHands(k) PROVE InHands(k)'
      BY <1>1, <3>3 DEF InHands
    <3> QED BY <3>1, <3>2, <3>3
  <2> QED BY <2>1, <2>2
<1>11. \A k \in Jobs : step'[k] >= step[k]
  <2>1. step \in [Jobs -> Nat]
    BY <1>0 DEF TypeOK, RowTypes, Steps
  <2> QED BY <1>1, <1>2, <2>1
<1> QED BY <1>4, <1>5, <1>6, <1>7, <1>8, <1>9, <1>10, <1>11 DEF CalmInv, TasksMatchRows


\* Scheduling rows of jobs that have no task gives each job its task, which
\* starts from the step of its row.
LEMMA CalmSchedule ==
  ASSUME TypeOK, OneTaskPerJob, NEW rows \in SUBSET Rows, ScheduleAll(rows),
         \A r \in rows : registry[r[1]] = 0
  PROVE  /\ OneTaskPerJob'
         /\ \A t \in Tasks : \/ /\ pc[t] = "none" /\ pc'[t] = "lock"
                                /\ \E r \in rows : JobOf(t) = r[1] /\ at'[t] = r[2]
                             \/ pc'[t] = pc[t] /\ at'[t] = at[t]
         /\ \A r \in rows : NewCopy(r[1]) \in 1..Copies /\ pc'[<<r[1], NewCopy(r[1])>>] = "lock"
         /\ \A j \in Jobs : (\A r \in rows : r[1] # j) => registry'[j] = registry[j]
<1> DEFINE new == {NewTask(r) : r \in rows}
<1>0. /\ \A r \in rows : r[1] \in Jobs
      /\ \A t \in Tasks : JobOf(t) \in Jobs /\ t = <<JobOf(t), t[2]>> /\ t[2] \in 1..Copies
      /\ Copies \in Nat
  BY ConstantTypes DEF Rows, Tasks, JobOf
<1>1. /\ pc' = [t \in Tasks |-> IF t \in new THEN "lock" ELSE pc[t]]
      /\ at' = [t \in Tasks |->
                  IF t \in new THEN (CHOOSE r \in rows : NewTask(r) = t)[2] ELSE at[t]]
      /\ registry' = [j \in Jobs |->
                        IF \E t \in new : JobOf(t) = j THEN NewCopy(j) ELSE registry[j]]
  BY DEF ScheduleAll
<1>2. \A r \in rows : /\ NewTask(r) \in Tasks /\ JobOf(NewTask(r)) = r[1]
                      /\ NewTask(r) = <<r[1], NewCopy(r[1])>> /\ NewTask(r)[2] = NewCopy(r[1])
                      /\ pc[NewTask(r)] = "none"
  BY NewTaskIsFree DEF NewTask
<1>3. \A r \in rows : NewCopy(r[1]) \in 1..Copies
  BY <1>0, <1>2
<1>4. \A t \in Tasks : \/ /\ pc[t] = "none" /\ pc'[t] = "lock"
                          /\ \E r \in rows : JobOf(t) = r[1] /\ at'[t] = r[2]
                       \/ pc'[t] = pc[t] /\ at'[t] = at[t]
  <2> SUFFICES ASSUME NEW t \in Tasks, t \in new
               PROVE  /\ pc[t] = "none" /\ pc'[t] = "lock"
                      /\ \E r \in rows : JobOf(t) = r[1] /\ at'[t] = r[2]
    BY <1>1
  <2>1. \E r \in rows : NewTask(r) = t
    OBVIOUS
  <2>2. PICK r \in rows : r = CHOOSE q \in rows : NewTask(q) = t
    BY <2>1
  <2>3. NewTask(r) = t
    BY <2>1, <2>2
  <2>4. at'[t] = r[2] /\ pc'[t] = "lock"
    BY <1>1, <2>2
  <2> QED BY <1>2, <2>3, <2>4
<1>5. \A r \in rows : pc'[<<r[1], NewCopy(r[1])>>] = "lock"
  BY <1>1, <1>2
<1>6. \A j \in Jobs : (\A r \in rows : r[1] # j) => registry'[j] = registry[j]
  BY <1>1, <1>2
<1>7. \A r \in rows : registry'[r[1]] = NewCopy(r[1])
  <2> SUFFICES ASSUME NEW r \in rows PROVE registry'[r[1]] = NewCopy(r[1])
    OBVIOUS
  <2>1. \E t \in new : JobOf(t) = r[1]
    BY <1>2
  <2> QED BY <1>0, <1>1, <2>1
<1>8. OneTaskPerJob'
  <2> SUFFICES ASSUME NEW t \in Tasks
               PROVE  pc'[t] # "none" <=> registry'[JobOf(t)] = t[2]
    BY DEF OneTaskPerJob, JobOf
  <2>1. CASE \E r \in rows : r[1] = JobOf(t)
    <3>1. PICK r \in rows : r[1] = JobOf(t)
      BY <2>1
    <3>2. pc[t] = "none"
      BY <3>1, NoTaskNoEntry
    <3>3. t \in new <=> t[2] = NewCopy(JobOf(t))
      <4>1. ASSUME t[2] = NewCopy(JobOf(t)) PROVE t = NewTask(r)
        BY <1>0, <1>2, <3>1, <4>1
      <4>2. ASSUME t \in new PROVE t[2] = NewCopy(JobOf(t))
        <5>1. PICK q \in rows : t = NewTask(q)
          BY <4>2
        <5>2. JobOf(t) = q[1] /\ t[2] = NewCopy(q[1])
          BY <1>2, <5>1
        <5> QED BY <5>2
      <4> QED BY <4>1, <4>2
    <3>4. registry'[JobOf(t)] = NewCopy(JobOf(t))
      BY <1>7, <3>1
    <3>5. pc'[t] = IF t \in new THEN "lock" ELSE "none"
      BY <1>1, <3>2
    <3> QED BY <3>3, <3>4, <3>5
  <2>2. CASE \A r \in rows : r[1] # JobOf(t)
    <3>1. t \notin new
      BY <1>2, <2>2
    <3>2. pc'[t] = pc[t]
      BY <1>1, <3>1
    <3>3. registry'[JobOf(t)] = registry[JobOf(t)]
      BY <1>0, <1>6, <2>2
    <3> QED BY <3>2, <3>3 DEF OneTaskPerJob
  <2> QED BY <2>1, <2>2
<1> QED BY <1>3, <1>4, <1>5, <1>6, <1>8


\* A request that starts no task: it inserts rows it takes in hands, passes on
\* those it has, or rewrites rows that are at their end.
LEMMA CalmQuiet ==
  ASSUME IInv, CalmInv, up, NEW c \in Clients,
         UNCHANGED <<step, paused, registry, pc, at, up>>,
         \A j \in Jobs : \/ status'[j] = status[j]
                         \/ status[j] = "none" /\ status'[j] = "pending" /\ InHands(j)'
                         \/ status[j] \in Finished /\ status'[j] \in Finished,
         \A d \in Clients \ {c} : /\ cpc'[d] = cpc[d] /\ fetched'[d] = fetched[d]
                                  /\ picked'[d] = picked[d],
         cpc'[c] \in {"idle", "enqCheck", "enqSched", "retryWrite", "retryInsert", "deleteWrite"},
         cpc'[c] \in {"enqCheck", "enqSched"} => \A r \in fetched'[c] : r[1] \in Jobs /\
            \/ status[r[1]] = "none" /\ status'[r[1]] = "pending" /\ r[2] = 0
            \/ cpc[c] \in {"enqCheck", "enqSched"} /\ r \in fetched[c],
         cpc'[c] \in {"retryWrite", "retryInsert", "deleteWrite"} =>
            \A r \in picked'[c] : status'[r[1]] \in Finished,
         cpc[c] \in {"enqCheck", "enqSched"} => /\ cpc'[c] \in {"enqCheck", "enqSched"}
                                                /\ fetched'[c] = fetched[c]
  PROVE  CalmInv'
<1>0. /\ TypeOK /\ OneTaskPerJob /\ NoOrphan /\ RequestsApart /\ NobodyPauses
      /\ StatusFollowsTask /\ StepsReached /\ DownIsEmpty /\ KnownRows
      /\ \A u \in Tasks : JobOf(u) \in Jobs
      /\ \A d \in Clients : \A r \in fetched[d] \cup picked[d] : r[1] \in Jobs
      /\ Copies \in Nat
  BY ConstantTypes
     DEF IInv, CalmInv, TasksMatchRows, TypeOK, ClientTypes, Rows
<1>1. \A j \in Jobs : status[j] = "none" => registry[j] = 0 /\ step[j] = 0
  <2> SUFFICES ASSUME NEW j \in Jobs, status[j] = "none", registry[j] # 0
               PROVE  FALSE
    BY <1>0 DEF StepsReached
  <2>1. registry[j] \in 1..Copies
    BY <1>0 DEF TypeOK, TaskTypes
  <2>2. <<j, registry[j]>> \in Tasks /\ JobOf(<<j, registry[j]>>) = j
    BY <2>1 DEF Tasks, JobOf
  <2>3. pc[<<j, registry[j]>>] # "none"
    BY <2>2 DEF OneTaskPerJob, CalmInv, TasksMatchRows
  <2> QED BY <1>0, <2>2, <2>3 DEF KnownRows
<1>2. OneTaskPerJob' /\ DownIsEmpty'
  BY <1>0 DEF OneTaskPerJob, DownIsEmpty
<1>3. NobodyPauses'
  BY <1>0 DEF NobodyPauses, Finished
<1>4. StatusFollowsTask' /\ StepsReached'
  <2>1. \A u \in Tasks : pc[u] # "none" => \/ status'[JobOf(u)] = status[JobOf(u)]
                                           \/ /\ status[JobOf(u)] \in Finished
                                              /\ status'[JobOf(u)] \in Finished
    BY <1>0 DEF KnownRows
  <2>2. StatusFollowsTask'
    BY <1>0, <2>1 DEF StatusFollowsTask, Finished
  <2>3. StepsReached'
    BY <1>0 DEF StepsReached, Finished
  <2> QED BY <2>2, <2>3
<1>5. \A d \in Clients : cpc[d] \in {"enqCheck", "enqSched"} => \A r \in fetched[d] :
          status[r[1]] = "pending" /\ status'[r[1]] = "pending"
  BY <1>0 DEF RequestsApart, Finished
<1>6. \A r \in fetched'[c] : cpc'[c] \in {"enqCheck", "enqSched"} =>
          /\ status'[r[1]] = "pending" /\ registry[r[1]] = 0 /\ step[r[1]] = 0 /\ r[2] = 0
          /\ \A d \in Clients \ {c} : cpc[d] \in {"enqCheck", "enqSched"} =>
                \A s \in fetched[d] : r[1] # s[1]
  BY <1>0, <1>1, <1>5 DEF RequestsApart
<1>7. RequestsApart'
  <2>1. \A d \in Clients : cpc'[d] \in {"enqCheck", "enqSched"} => \A r \in fetched'[d] :
            status'[r[1]] = "pending" /\ registry'[r[1]] = 0 /\ step'[r[1]] = 0 /\ r[2] = 0
    BY <1>0, <1>5, <1>6 DEF RequestsApart
  <2>2. \A d, e \in Clients :
          cpc'[d] \in {"enqCheck", "enqSched"} /\ cpc'[e] \in {"enqCheck", "enqSched"} /\ d # e
          => \A r \in fetched'[d] : \A s \in fetched'[e] : r[1] # s[1]
    BY <1>0, <1>6 DEF RequestsApart
  <2>3. \A d \in Clients : cpc'[d] \in {"retryWrite", "retryInsert", "deleteWrite"} =>
            \A r \in picked'[d] : status'[r[1]] \in Finished
    <3> SUFFICES ASSUME NEW d \in Clients \ {c}, NEW r \in picked[d], r[1] \in Jobs,
                        status[r[1]] \in Finished
                 PROVE  status'[r[1]] \in Finished
      BY <1>0 DEF RequestsApart
    <3> QED BY DEF Finished
  <2> QED BY <2>1, <2>2, <2>3 DEF RequestsApart
<1>8. NoOrphan'
  <2> SUFFICES ASSUME NEW j \in Jobs, status'[j] \in {"pending", "processing"}, ~InHands(j)'
               PROVE  Carried(j)'
    BY DEF NoOrphan, Carried, InHands
  <2>1. status[j] = status'[j]
    BY DEF Finished
  <2>2. ~InHands(j)
    BY DEF InHands
  <2>3. Carried(j)
    BY <1>0, <2>1, <2>2 DEF NoOrphan
  <2> QED BY <2>3 DEF Carried
<1> QED BY <1>2, <1>3, <1>4, <1>7, <1>8 DEF CalmInv, TasksMatchRows

\* A request, or the recovery, that starts the tasks of rows nobody else has.
LEMMA CalmStart ==
  ASSUME IInv, CalmInv, NEW rows \in SUBSET Rows, ScheduleAll(rows), UNCHANGED rowVars, up',
         \A r \in rows : /\ status[r[1]] \in {"pending", "processing"}
                         /\ registry[r[1]] = 0 /\ step[r[1]] = r[2],
         \A d \in Clients : \/ cpc'[d] = "idle"
                            \/ /\ cpc'[d] = cpc[d] /\ fetched'[d] = fetched[d]
                               /\ picked'[d] = picked[d]
                               /\ cpc[d] \in {"enqCheck", "enqSched"} =>
                                     \A r \in rows : \A s \in fetched[d] : r[1] # s[1],
         \A j \in Jobs : status[j] \in {"pending", "processing"} =>
             \/ \E r \in rows : r[1] = j
             \/ Carried(j) \/ InHands(j)'
  PROVE  CalmInv'
<1>0. /\ TypeOK /\ OneTaskPerJob /\ RequestsApart /\ NobodyPauses
      /\ StatusFollowsTask /\ StepsReached
      /\ \A u \in Tasks : JobOf(u) \in Jobs
      /\ \A r \in rows : r[1] \in Jobs
      /\ \A d \in Clients : \A r \in fetched[d] \cup picked[d] : r[1] \in Jobs
      /\ UNCHANGED <<status, step, paused>>
  BY ConstantTypes
     DEF IInv, CalmInv, TasksMatchRows, TypeOK, ClientTypes, Rows, rowVars
<1>1. /\ OneTaskPerJob'
      /\ \A t \in Tasks : \/ /\ pc[t] = "none" /\ pc'[t] = "lock"
                             /\ \E r \in rows : JobOf(t) = r[1] /\ at'[t] = r[2]
                          \/ pc'[t] = pc[t] /\ at'[t] = at[t]
      /\ \A r \in rows : NewCopy(r[1]) \in 1..Copies /\ pc'[<<r[1], NewCopy(r[1])>>] = "lock"
      /\ \A j \in Jobs : (\A r \in rows : r[1] # j) => registry'[j] = registry[j]
  BY <1>0, CalmSchedule
<1>2. NobodyPauses'
  BY <1>0 DEF NobodyPauses
<1>3. StatusFollowsTask'
  <2> SUFFICES ASSUME NEW t \in Tasks, pc'[t] # pc[t]
               PROVE  pc'[t] = "lock" /\ status[JobOf(t)] \in {"pending", "processing"}
    BY <1>0 DEF StatusFollowsTask, JobOf
  <2> QED BY <1>1
<1>4. StepsReached'
  <2> SUFFICES ASSUME NEW t \in Tasks, pc'[t] # pc[t]
               PROVE  step[JobOf(t)] <= at'[t]
    BY <1>0, <1>1 DEF StepsReached, JobOf
  <2>1. step[JobOf(t)] = at'[t] /\ step[JobOf(t)] \in 0..3
    BY <1>0, <1>1 DEF TypeOK, RowTypes, Steps
  <2> QED BY <2>1
<1>5. RequestsApart'
  <2>1. \A d \in Clients : cpc'[d] \in {"enqCheck", "enqSched"} => \A r \in fetched'[d] :
            status'[r[1]] = "pending" /\ registry'[r[1]] = 0 /\ step'[r[1]] = 0 /\ r[2] = 0
    <3> SUFFICES ASSUME NEW d \in Clients, cpc[d] \in {"enqCheck", "enqSched"},
                        fetched'[d] = fetched[d], NEW r \in fetched[d],
                        \A q \in rows : q[1] # r[1]
                 PROVE  status'[r[1]] = "pending" /\ registry'[r[1]] = 0 /\ step'[r[1]] = 0 /\ r[2] = 0
      OBVIOUS
    <3> QED BY <1>0, <1>1 DEF RequestsApart
  <2>2. \A d, e \in Clients :
          cpc'[d] \in {"enqCheck", "enqSched"} /\ cpc'[e] \in {"enqCheck", "enqSched"} /\ d # e
          => \A r \in fetched'[d] : \A s \in fetched'[e] : r[1] # s[1]
    BY <1>0 DEF RequestsApart
  <2>3. \A d \in Clients : cpc'[d] \in {"retryWrite", "retryInsert", "deleteWrite"} =>
            \A r \in picked'[d] : status'[r[1]] \in Finished
    BY <1>0 DEF RequestsApart
  <2> QED BY <2>1, <2>2, <2>3 DEF RequestsApart
<1>6. DownIsEmpty'
  BY DEF DownIsEmpty
<1>7. NoOrphan'
  <2> SUFFICES ASSUME NEW j \in Jobs, status[j] \in {"pending", "processing"}, ~InHands(j)'
               PROVE  Carried(j)'
    BY <1>0 DEF NoOrphan, Carried, InHands
  <2>1. CASE \E r \in rows : r[1] = j
    BY <1>1, <2>1 DEF Carried
  <2>2. CASE Carried(j)
    <3>1. PICK k \in 1..Copies : pc[<<j, k>>] \notin {"none", "exit", "ended"}
      BY <2>2 DEF Carried
    <3>2. <<j, k>> \in Tasks
      BY DEF Tasks
    <3> QED BY <1>1, <3>1, <3>2 DEF Carried
  <2> QED BY <2>1, <2>2
<1> QED BY <1>1, <1>2, <1>3, <1>4, <1>5, <1>6, <1>7 DEF CalmInv, TasksMatchRows


\* The requests such a system serves.
LEMMA CalmRequests ==
  ASSUME Ops \subseteq CalmOps, TypeOK, NobodyPauses, NEW c \in Clients, Arrive(c) \/ Handle(c)
  PROVE  \/ Enqueue(c) \/ RetryJob(c) \/ DeleteJob(c)
         \/ EnqueueCheck(c) \/ EnqueueSchedule(c) \/ Supersede(c) \/ RetryInsert(c)
         \/ DeleteWrite(c)
<1>1. cpc[c] \in {"idle", "enqCheck", "enqSched", "retryWrite", "retryInsert", "deleteWrite"}
  BY DEF NobodyPauses
<1>2. CASE Arrive(c)
  BY <1>2 DEF Arrive, CalmOps, PauseJob, ResumeJob, PauseProject, ResumeProject, UpdateProject,
              Serve
<1>3. CASE Handle(c)
  BY <1>1, <1>3 DEF Handle, PauseRead, PauseWrite, ResumeRead, ResumeWrite, ResumeCheck,
              ResumeSchedule, ClearWaiting, ListProcessing, ListPending, SchedulePending,
              ListPaused
<1> QED BY <1>2, <1>3

LEMMA CalmHandler ==
  ASSUME Ops \subseteq CalmOps, IInv, CalmInv, NEW c \in Clients, Arrive(c) \/ Handle(c)
  PROVE  CalmInv' /\ UNCHANGED step
<1>0. /\ TypeOK /\ RequestsApart /\ NobodyPauses /\ DownIsEmpty /\ NoOrphan
      /\ status \in [Jobs -> Statuses]
      /\ cpc \in [Clients -> ClientPcs] /\ fetched \in [Clients -> SUBSET Rows]
      /\ picked \in [Clients -> SUBSET Rows]
      /\ \A d \in Clients : \A r \in fetched[d] \cup picked[d] : r[1] \in Jobs
  BY DEF IInv, CalmInv, TasksMatchRows, TypeOK, RowTypes, ClientTypes, Rows
<1>1. up
  <2>1. cpc[c] # "idle" \/ up
    BY DEF Arrive, Enqueue, PauseJob, ResumeJob, PauseProject, ResumeProject, UpdateProject,
           RetryJob, DeleteJob, Serve, Handle, EnqueueCheck, EnqueueSchedule, PauseRead,
           PauseWrite, ResumeRead, ResumeWrite, ResumeCheck, ResumeSchedule, ClearWaiting,
           ListProcessing, ListPending, SchedulePending, ListPaused, Supersede, RetryInsert,
           DeleteWrite
  <2> QED BY <1>0, <2>1 DEF DownIsEmpty
<1>2. CASE Enqueue(c) \/ RetryInsert(c)
  <2>1. PICK S \in SUBSET Jobs : Insert(c, S) /\ \A j \in S : status[j] = "none"
    <3>1. CASE Enqueue(c)
      <4>1. PICK p \in Projects : \E S \in SUBSET Fresh(p) : Insert(c, S)
        BY <3>1 DEF Enqueue
      <4>2. PICK S \in SUBSET Fresh(p) : Insert(c, S)
        BY <4>1
      <4> QED BY <4>2 DEF Fresh, JobsIn
    <3>2. CASE RetryInsert(c)
      <4>1. PICK r \in picked[c] : \E j \in Fresh(ProjectOf[r[1]]) : Insert(c, {j})
        BY <3>2 DEF RetryInsert
      <4>2. PICK j \in Fresh(ProjectOf[r[1]]) : Insert(c, {j})
        BY <4>1
      <4> QED BY <4>2 DEF Fresh, JobsIn
    <3> QED BY <1>2, <3>1, <3>2
  <2>2. /\ status' = [j \in Jobs |-> IF j \in S THEN "pending" ELSE status[j]]
        /\ cpc'[c] = "enqCheck" /\ fetched'[c] = S \X {0}
        /\ \A d \in Clients \ {c} : /\ cpc'[d] = cpc[d] /\ fetched'[d] = fetched[d]
                                    /\ picked'[d] = picked[d]
        /\ UNCHANGED <<step, paused, registry, pc, at, up>>
        /\ cpc[c] \in {"idle", "retryInsert"}
    BY <1>0, <1>2, <2>1
       DEF Enqueue, RetryInsert, Insert, Fetch, To, Serve, Continue, boundVars, taskVars
  <2>4. \A r \in fetched'[c] : /\ r[1] \in Jobs /\ status[r[1]] = "none"
                               /\ status'[r[1]] = "pending" /\ r[2] = 0
    BY <2>1, <2>2
  <2>5. \A j \in Jobs : \/ status'[j] = status[j]
                        \/ status[j] = "none" /\ status'[j] = "pending" /\ InHands(j)'
    <3> SUFFICES ASSUME NEW j \in Jobs, j \in S
                 PROVE  status[j] = "none" /\ status'[j] = "pending" /\ InHands(j)'
      BY <2>2
    <3>1. <<j, 0>> \in fetched'[c]
      BY <2>2
    <3> QED BY <2>1, <2>2, <3>1 DEF InHands
  <2> QED BY <1>1, <2>2, <2>4, <2>5, CalmQuiet
<1>3. CASE RetryJob(c) \/ DeleteJob(c)
  <2>1. PICK j \in Jobs : /\ status[j] \in Finished
                          /\ picked' = [picked EXCEPT ![c] = {<<j, step[j]>>}]
    BY <1>0, <1>3 DEF RetryJob, DeleteJob, Exists, Finished, Statuses, NobodyPauses
  <2>2. /\ UNCHANGED <<status, step, paused, registry, pc, at, up>>
        /\ cpc'[c] \in {"retryWrite", "deleteWrite"} /\ cpc[c] = "idle"
        /\ \A d \in Clients \ {c} : /\ cpc'[d] = cpc[d] /\ fetched'[d] = fetched[d]
                                    /\ picked'[d] = picked[d]
        /\ picked'[c] = {<<j, step[j]>>}
    BY <1>0, <1>3, <2>1 DEF RetryJob, DeleteJob, Serve, To, rowVars, taskVars
  <2> QED BY <1>1, <2>1, <2>2, CalmQuiet
<1>4. CASE EnqueueCheck(c)
  <2>1. /\ UNCHANGED <<status, step, paused, registry, pc, at, up>>
        /\ cpc'[c] = "enqSched" /\ cpc[c] = "enqCheck" /\ fetched'[c] = fetched[c]
        /\ \A d \in Clients \ {c} : /\ cpc'[d] = cpc[d] /\ fetched'[d] = fetched[d]
                                    /\ picked'[d] = picked[d]
    <3>1. \A r \in fetched[c] : ~paused[ProjectOf[r[1]]]
      BY <1>0, QueueAssumption DEF NobodyPauses, QueueAssumption
    <3> QED BY <1>0, <1>4, <3>1
            DEF EnqueueCheck, To, Continue, boundVars, rowVars, taskVars
  <2> QED BY <1>0, <1>1, <2>1, CalmQuiet
<1>5. CASE Supersede(c) \/ DeleteWrite(c)
  <2>1. PICK r \in picked[c] : \/ UNCHANGED status
                               \/ SetStatus(r[1], "superseded") \/ SetStatus(r[1], "gone")
    BY <1>5 DEF Supersede, DeleteWrite
  <2>2. status[r[1]] \in Finished /\ cpc[c] \in {"retryWrite", "deleteWrite"}
    BY <1>0, <1>5 DEF RequestsApart, Supersede, DeleteWrite
  <2>3. \A j \in Jobs : \/ status'[j] = status[j]
                        \/ status[j] \in Finished /\ status'[j] \in Finished
    BY <1>0, <2>1, <2>2 DEF SetStatus, Finished
  <2>4. /\ UNCHANGED <<step, paused, registry, pc, at, up>>
        /\ \A d \in Clients \ {c} : /\ cpc'[d] = cpc[d] /\ fetched'[d] = fetched[d]
                                    /\ picked'[d] = picked[d]
        /\ \/ cpc'[c] = "idle"
           \/ cpc'[c] = "retryInsert" /\ picked'[c] = picked[c]
    <3>1. UNCHANGED <<step, paused, registry, pc, at, up>>
      BY <1>5 DEF Supersede, DeleteWrite, Continue, taskVars
    <3>2. CASE Reply(c)
      BY <1>0, <3>1, <3>2 DEF Reply, To, Fetch
    <3>3. CASE To(c, "retryInsert") /\ UNCHANGED <<scope, fetched, picked>>
      BY <1>0, <3>1, <3>3 DEF To
    <3> QED BY <1>5, <3>2, <3>3 DEF Supersede, DeleteWrite
  <2>5. cpc'[c] = "retryInsert" => \A q \in picked'[c] : status'[q[1]] \in Finished
    <3>1. \A q \in picked[c] : q[1] \in Jobs /\ status[q[1]] \in Finished
      BY <1>0, <1>5, <2>2 DEF RequestsApart
    <3>2. \A q \in picked[c] : status'[q[1]] \in Finished
      BY <2>3, <3>1
    <3> QED BY <2>4, <3>2
  <2>6. cpc'[c] \in {"idle", "retryInsert"}
    BY <2>4
  <2> QED BY <1>1, <2>2, <2>3, <2>4, <2>5, <2>6, CalmQuiet
<1>6. CASE EnqueueSchedule(c)
  <2>1. /\ ScheduleAll(fetched[c]) /\ UNCHANGED rowVars /\ UNCHANGED up /\ cpc[c] = "enqSched"
        /\ cpc'[c] = "idle"
        /\ \A d \in Clients \ {c} : /\ cpc'[d] = cpc[d] /\ fetched'[d] = fetched[d]
                                    /\ picked'[d] = picked[d]
    BY <1>0, <1>6 DEF EnqueueSchedule, Reply, To, Fetch, Continue, boundVars
  <2>2. \A r \in fetched[c] : /\ status[r[1]] \in {"pending", "processing"}
                              /\ registry[r[1]] = 0 /\ step[r[1]] = r[2]
    BY <1>0, <2>1 DEF RequestsApart
  <2>3. \A d \in Clients \ {c} : cpc[d] \in {"enqCheck", "enqSched"} =>
            \A r \in fetched[c] : \A s \in fetched[d] : r[1] # s[1]
    BY <1>0, <2>1 DEF RequestsApart
  <2>4. ASSUME NEW j \in Jobs, status[j] \in {"pending", "processing"},
               \A r \in fetched[c] : r[1] # j
        PROVE  Carried(j) \/ InHands(j)'
    <3>1. Carried(j) \/ InHands(j)
      BY <1>0, <1>1, <2>4 DEF NoOrphan
    <3> QED BY <2>1, <2>4, <3>1 DEF InHands
  <2>5. CalmInv'
    BY <1>0, <1>1, <2>1, <2>2, <2>3, <2>4, CalmStart
  <2> QED BY <2>1, <2>5 DEF rowVars
<1>7. UNCHANGED step
  BY <1>0, CalmRequests
     DEF Enqueue, RetryJob, DeleteJob, EnqueueCheck, EnqueueSchedule, Supersede, RetryInsert,
         DeleteWrite, rowVars
<1> QED BY <1>0, <1>2, <1>3, <1>4, <1>5, <1>6, <1>7, CalmRequests


LEMMA CalmRecover ==
  ASSUME IInv, CalmInv, Recover
  PROVE  CalmInv' /\ UNCHANGED step
<1> DEFINE rows == UNION {RowsWith(p, {"pending", "processing"}) :
                              p \in {q \in Projects : ~paused[q]}}
<1>0. /\ TypeOK /\ NobodyPauses /\ DownIsEmpty /\ UNCHANGED rowVars /\ UNCHANGED clientVars
      /\ ~up /\ up'
  BY DEF IInv, CalmInv, Recover
<1>1. rows \in SUBSET Rows /\ ScheduleAll(rows)
  BY <1>0, RowsWithTypes DEF TypeOK, Recover
<1>2. \A r \in rows : r[1] \in Jobs /\ status[r[1]] \in {"pending", "processing"} /\ step[r[1]] = r[2]
  <2>1. \A p : \A r \in RowsWith(p, {"pending", "processing"}) :
            r[1] \in Jobs /\ status[r[1]] \in {"pending", "processing"} /\ step[r[1]] = r[2]
    BY DEF RowsWith, JobsIn
  <2> QED BY <2>1
<1>3. \A j \in Jobs : status[j] \in {"pending", "processing"} => \E r \in rows : r[1] = j
  <2> SUFFICES ASSUME NEW j \in Jobs, status[j] \in {"pending", "processing"}
               PROVE  \E r \in rows : r[1] = j
    OBVIOUS
  <2>1. ProjectOf[j] \in Projects /\ ~paused[ProjectOf[j]]
    BY <1>0, ConstantTypes DEF NobodyPauses
  <2>2. <<j, step[j]>> \in RowsWith(ProjectOf[j], {"pending", "processing"})
    BY DEF RowsWith, JobsIn
  <2>3. <<j, step[j]>> \in rows
    BY <2>1, <2>2
  <2> QED BY <2>3
<1>4. \A d \in Clients : cpc'[d] = "idle"
  BY <1>0 DEF DownIsEmpty, clientVars
<1>5. \A r \in rows : registry[r[1]] = 0
  BY <1>0, <1>2 DEF DownIsEmpty
<1> HIDE DEF rows
<1>6. CalmInv'
  BY <1>0, <1>1, <1>2, <1>3, <1>4, <1>5, CalmStart
<1> QED BY <1>0, <1>6 DEF rowVars

LEMMA CalmCrash ==
  ASSUME IInv, CalmInv, Crash
  PROVE  CalmInv' /\ UNCHANGED step
<1>0. /\ NobodyPauses /\ StepsReached /\ UNCHANGED <<status, step, paused>>
      /\ \A t \in Tasks : JobOf(t) \in Jobs /\ t[2] \in 1..Copies
      /\ Copies \in Nat
  BY ConstantTypes DEF CalmInv, Crash, rowVars, Tasks
<1>1. /\ ~up' /\ \A t \in Tasks : pc'[t] = "none"
      /\ \A j \in Jobs : registry'[j] = 0
      /\ \A c \in Clients : cpc'[c] = "idle"
  BY DEF Crash
<1>2. OneTaskPerJob'
  <2> SUFFICES ASSUME NEW t \in Tasks PROVE registry'[JobOf(t)] # t[2]
    BY <1>1 DEF OneTaskPerJob, JobOf
  <2>1. registry'[JobOf(t)] = 0 /\ t[2] # 0
    BY <1>0, <1>1
  <2> QED BY <2>1
<1>3. NoOrphan' /\ RequestsApart' /\ NobodyPauses' /\ StatusFollowsTask' /\ DownIsEmpty'
  BY <1>0, <1>1 DEF NoOrphan, RequestsApart, NobodyPauses, StatusFollowsTask, DownIsEmpty
<1>4. StepsReached'
  BY <1>0, <1>1 DEF StepsReached
<1> QED BY <1>0, <1>2, <1>3, <1>4 DEF CalmInv, TasksMatchRows

LEMMA CalmInit == Init => CalmInv
<1> SUFFICES ASSUME Init PROVE CalmInv
  OBVIOUS
<1>0. /\ \A t \in Tasks : JobOf(t) \in Jobs /\ t[2] \in 1..Copies
      /\ Copies \in Nat
  BY ConstantTypes DEF Tasks
<1>1. OneTaskPerJob
  <2> SUFFICES ASSUME NEW t \in Tasks PROVE registry[JobOf(t)] # t[2] /\ pc[t] = "none"
    BY DEF OneTaskPerJob
  <2>1. registry[JobOf(t)] = 0 /\ t[2] # 0
    BY <1>0 DEF Init
  <2> QED BY <2>1 DEF Init
<1>2. NoOrphan /\ NobodyPauses
  BY DEF Init, NoOrphan, NobodyPauses
<1>3. RequestsApart /\ StatusFollowsTask /\ StepsReached /\ DownIsEmpty
  BY <1>0 DEF Init, RequestsApart, StatusFollowsTask, StepsReached, DownIsEmpty
<1> QED BY <1>1, <1>2, <1>3 DEF CalmInv, TasksMatchRows

LEMMA CalmStep ==
  ASSUME Ops \subseteq CalmOps, IInv, CalmInv, [Next]_vars
  PROVE  CalmInv' /\ \A j \in Jobs : step'[j] >= step[j]
<1>0. \A j \in Jobs : step[j] >= step[j]
  BY DEF IInv, TypeOK, RowTypes, Steps
<1>1. CASE \E t \in Tasks : TaskStep(t)
  BY <1>1, CalmTask
<1>2. CASE \E c \in Clients : Arrive(c) \/ Handle(c)
  BY <1>0, <1>2, CalmHandler
<1>3. CASE Crash
  BY <1>0, <1>3, CalmCrash
<1>4. CASE Recover
  BY <1>0, <1>4, CalmRecover
<1>5. CASE UNCHANGED vars
  BY <1>0, <1>5
     DEF CalmInv, TasksMatchRows, OneTaskPerJob, NoOrphan, Carried, InHands, RequestsApart,
         NobodyPauses, StatusFollowsTask, StepsReached, DownIsEmpty, vars, rowVars, taskVars,
         clientVars
<1> QED BY <1>1, <1>2, <1>3, <1>4, <1>5 DEF Next

\* While jobs are only enqueued, retried and deleted, registry and rows agree:
\* a job has one task, and an unfinished job has a task or a request that is
\* about to give it one, through crashes and recoveries.
THEOREM CalmInvariant ==
  ASSUME Ops \subseteq CalmOps
  PROVE  Spec => []CalmInv
<1>1. Init => CalmInv
  BY CalmInit
<1>2. IInv /\ CalmInv /\ [Next]_vars => CalmInv'
  BY CalmStep
<1> QED BY <1>1, <1>2, InductiveInvariant, PTL DEF Spec

\* No retry and no recovery takes such a job back behind a step it completed.
THEOREM StepsForward ==
  ASSUME Ops \subseteq CalmOps
  PROVE  Spec => StepForward
<1>1. IInv /\ CalmInv /\ [Next]_vars => [\A j \in Jobs : Exists(j) => step'[j] >= step[j]]_vars
  BY CalmStep
<1> QED BY <1>1, InductiveInvariant, CalmInvariant, PTL DEF Spec, StepForward

=============================================================================
