--------------------------- MODULE GitSync_proofs ---------------------------
(* GitSync keeps publishes that were asked for apart from syncs, and no     *)
(* status "syncing" without its sync, for any repositories and tasks.       *)
EXTENDS GitSync, TLAPS

LEMMA InitInv == Init => IInv
<1> SUFFICES ASSUME Init PROVE IInv
  OBVIOUS
<1>1. TypeOK
  BY GitSyncAssumption DEF Init, TypeOK, GitSyncAssumption, SyncStates
<1>2. LockOwners
  BY GitSyncAssumption DEF Init, LockOwners, GitSyncAssumption, Locked, Publishing
<1>3. KnownRepos /\ UnseenAreFree /\ PublishExcludesSync /\ SyncingIsHeld
  BY DEF Init, KnownRepos, UnseenAreFree, PublishExcludesSync, SyncingIsHeld, Rows
<1> QED BY <1>1, <1>2, <1>3 DEF IInv

LEMMA TypeStep == TypeOK /\ Next => TypeOK'
<1> SUFFICES ASSUME TypeOK, Next PROVE TypeOK'
  OBVIOUS
<1> USE GitSyncAssumption DEF GitSyncAssumption, TypeOK, SyncStates, repoVars, syncVars, pubVars, boundVars,
        Request, There, Rows, SyncAt, Unlock, SetStatus, Refuse, Leave, PublishAt, Queue, Schedule
<1>1. ASSUME NEW r \in Repos, CreateRepo(r) \/ SetManual(r) \/ DeleteRepo(r) PROVE TypeOK'
  <2>1. row' \in [Repos -> {"none", "there", "gone"}]
    BY <1>1 DEF CreateRepo, SetManual, DeleteRepo
  <2>2. manual' \in [Repos -> BOOLEAN]
    BY <1>1, ZenonT(20) DEF CreateRepo, SetManual, DeleteRepo
  <2>3. requests' \in 0..MaxRequests
    BY <1>1 DEF CreateRepo, SetManual, DeleteRepo
  <2> QED BY <1>1, <2>1, <2>2, <2>3 DEF CreateRepo, SetManual, DeleteRepo
<1>2. ASSUME NEW s \in Syncs, NEW r \in Repos,
             TriggerSync(s, r) \/ TriggerGitSync(s, r) \/ ScheduledSync(s, r)
      PROVE  TypeOK'
  BY <1>2 DEF TriggerSync, TriggerGitSync, ScheduledSync
<1>3. ASSUME NEW s \in Syncs, TriggerSyncAll(s) PROVE TypeOK'
  BY <1>3 DEF TriggerSyncAll
<1>4. ASSUME NEW s \in Syncs, StartSync(s) \/ EndSync(s) PROVE TypeOK'
  <2>1. CASE EndSync(s)
    BY <2>1 DEF EndSync
  <2>2. CASE StartSync(s)
    <3>1. syncLock' \in [Repos -> Syncs \cup {NoOne}] /\ target' \in [Syncs -> Repos \cup {NoOne}]
      BY <2>2 DEF StartSync
    <3>2. todo' \in [Syncs -> SUBSET Repos]
      BY <2>2 DEF StartSync
    <3> QED BY <2>2, <3>1, <3>2 DEF StartSync
  <2> QED BY <1>4, <2>1, <2>2
<1>5. ASSUME NEW s \in Syncs, ReadRepo(s) PROVE TypeOK'
  <2>1. status' \in [Repos -> {"idle", "syncing", "success", "failed"}] /\ cut' \subseteq Repos
    BY <1>5 DEF ReadRepo
  <2> QED BY <1>5, <2>1 DEF ReadRepo
<1>6. ASSUME NEW s \in Syncs, MarkSyncing(s) PROVE TypeOK'
  <2>1. status' \in [Repos -> {"idle", "syncing", "success", "failed"}] /\ cut' \subseteq Repos
    BY <1>6 DEF MarkSyncing
  <2>2. CASE There(target[s])
    BY <1>6, <2>1, <2>2 DEF MarkSyncing
  <2>3. CASE ~There(target[s])
    BY <1>6, <2>1, <2>3 DEF MarkSyncing
  <2> QED BY <2>2, <2>3
<1>7. ASSUME NEW s \in Syncs, Pull(s) \/ WaitReturns(s) \/ WaitTimesOut(s) PROVE TypeOK'
  <2>1. CASE Pull(s)
    BY <2>1 DEF Pull
  <2>2. CASE WaitReturns(s)
    BY <2>2 DEF WaitReturns
  <2>3. CASE WaitTimesOut(s)
    BY <2>3 DEF WaitTimesOut
  <2> QED BY <1>7, <2>1, <2>2, <2>3
<1>8. ASSUME NEW s \in Syncs, Conclude(s) PROVE TypeOK'
  <2>1. status' \in [Repos -> {"idle", "syncing", "success", "failed"}] /\ cut' \subseteq Repos
    BY <1>8 DEF Conclude
  <2> QED BY <1>8, <2>1 DEF Conclude
<1>9. ASSUME NEW s \in Syncs, JobDone(s) \/ JobMoves(s) PROVE TypeOK'
  <2>1. auto' \in [Publishes -> BOOLEAN]
    BY <1>9, ZenonT(20) DEF JobDone, JobMoves
  <2>2. ppc' \in [Publishes -> {"idle", "start", "read", "check", "push"}]
    BY <1>9 DEF JobDone, JobMoves
  <2> QED BY <1>9, <2>1, <2>2 DEF JobDone, JobMoves
<1>10. ASSUME NEW p \in Publishes, TriggerPublish(p) \/ FeedbackApplied(p) PROVE TypeOK'
  <2>1. auto' \in [Publishes -> BOOLEAN]
    BY <1>10, ZenonT(20) DEF TriggerPublish, FeedbackApplied
  <2> QED BY <1>10, <2>1 DEF TriggerPublish, FeedbackApplied
<1>11. ASSUME NEW p \in Publishes, PublishGoesOn(p) \/ Push(p) PROVE TypeOK'
  <2>1. CASE StartPublish(p)
    <3>1. auto' \in [Publishes -> BOOLEAN]
      BY <2>1, ZenonT(20) DEF StartPublish
    <3> QED BY <2>1, <3>1 DEF StartPublish
  <2>2. CASE ReadProject(p)
    <3>1. auto' \in [Publishes -> BOOLEAN]
      BY <2>2, ZenonT(20) DEF ReadProject
    <3> QED BY <2>2, <3>1 DEF ReadProject
  <2>3. CASE CheckSyncs(p)
    <3>1. auto' \in [Publishes -> BOOLEAN]
      BY <2>3, ZenonT(20) DEF CheckSyncs
    <3> QED BY <2>3, <3>1 DEF CheckSyncs
  <2>4. CASE Push(p)
    <3>1. auto' \in [Publishes -> BOOLEAN]
      BY <2>4, ZenonT(20) DEF Push
    <3> QED BY <2>4, <3>1 DEF Push
  <2> QED BY <1>11, <2>1, <2>2, <2>3, <2>4 DEF PublishGoesOn
<1>12. CASE Crash
  BY <1>12 DEF Crash
<1> QED BY <1>1, <1>2, <1>3, <1>4, <1>5, <1>6, <1>7, <1>8, <1>9, <1>10, <1>11, <1>12
        DEF Next, SyncGoesOn

LEMMA Step == IInv /\ [Next]_vars => IInv'
<1> SUFFICES ASSUME IInv, [Next]_vars PROVE IInv'
  OBVIOUS
<1>0. TypeOK'
  BY TypeStep DEF IInv, vars, TypeOK, repoVars, syncVars, pubVars, boundVars
<1> DEFINE Rest == LockOwners /\ KnownRepos /\ UnseenAreFree /\ PublishExcludesSync /\ SyncingIsHeld
<1> USE GitSyncAssumption DEF GitSyncAssumption, IInv, TypeOK, SyncStates, repoVars, syncVars, pubVars, boundVars,
        Request, There, Rows, SyncAt, Unlock, SetStatus, Refuse, Leave, PublishAt, Queue, Schedule
<1>1. ASSUME NEW r \in Repos, CreateRepo(r) \/ SetManual(r) \/ DeleteRepo(r) PROVE Rest'
  <2>1. LockOwners'
    BY <1>1 DEF CreateRepo, SetManual, DeleteRepo, LockOwners, Locked, Publishing
  <2>2. KnownRepos'
    BY <1>1 DEF CreateRepo, SetManual, DeleteRepo, KnownRepos
  <2>3. UnseenAreFree'
    BY <1>1 DEF CreateRepo, SetManual, DeleteRepo, UnseenAreFree, KnownRepos
  <2>4. PublishExcludesSync'
    BY <1>1 DEF CreateRepo, SetManual, DeleteRepo, PublishExcludesSync, KnownRepos
  <2>5. SyncingIsHeld'
    BY <1>1 DEF CreateRepo, SetManual, DeleteRepo, SyncingIsHeld, KnownRepos
  <2> QED BY <2>1, <2>2, <2>3, <2>4, <2>5
<1>2. ASSUME NEW s \in Syncs, NEW r \in Repos, TriggerSync(s, r) \/ TriggerGitSync(s, r) \/ ScheduledSync(s, r) PROVE Rest'
  <2>1. LockOwners'
    BY <1>2 DEF TriggerSync, TriggerGitSync, ScheduledSync, LockOwners, Locked, Publishing
  <2>2. KnownRepos'
    BY <1>2 DEF TriggerSync, TriggerGitSync, ScheduledSync, KnownRepos
  <2>3. UnseenAreFree'
    BY <1>2 DEF TriggerSync, TriggerGitSync, ScheduledSync, UnseenAreFree
  <2>4. PublishExcludesSync'
    BY <1>2 DEF TriggerSync, TriggerGitSync, ScheduledSync, PublishExcludesSync
  <2>5. SyncingIsHeld'
    BY <1>2 DEF TriggerSync, TriggerGitSync, ScheduledSync, SyncingIsHeld, KnownRepos
  <2> QED BY <2>1, <2>2, <2>3, <2>4, <2>5
<1>3. ASSUME NEW s \in Syncs, TriggerSyncAll(s) PROVE Rest'
  <2>1. LockOwners'
    BY <1>3 DEF TriggerSyncAll, LockOwners, Locked, Publishing
  <2>2. KnownRepos'
    BY <1>3 DEF TriggerSyncAll, KnownRepos
  <2>3. UnseenAreFree'
    BY <1>3 DEF TriggerSyncAll, UnseenAreFree
  <2>4. PublishExcludesSync'
    BY <1>3 DEF TriggerSyncAll, PublishExcludesSync
  <2>5. SyncingIsHeld'
    BY <1>3 DEF TriggerSyncAll, SyncingIsHeld
  <2> QED BY <2>1, <2>2, <2>3, <2>4, <2>5
<1>4. ASSUME NEW s \in Syncs, StartSync(s) PROVE Rest'
  <2>1. LockOwners'
    BY <1>4 DEF StartSync, LockOwners, Locked, Publishing
  <2>2. KnownRepos'
    BY <1>4 DEF StartSync, KnownRepos
  <2>3. UnseenAreFree'
    BY <1>4 DEF StartSync, UnseenAreFree, LockOwners, Publishing
  <2>4. PublishExcludesSync'
    BY <1>4 DEF StartSync, PublishExcludesSync, LockOwners, Publishing
  <2>5. SyncingIsHeld'
    BY <1>4 DEF StartSync, SyncingIsHeld
  <2> QED BY <2>1, <2>2, <2>3, <2>4, <2>5
<1>5. ASSUME NEW s \in Syncs, EndSync(s) PROVE Rest'
  <2>1. LockOwners'
    BY <1>5 DEF EndSync, LockOwners, Locked, Publishing
  <2>2. KnownRepos'
    BY <1>5 DEF EndSync, KnownRepos
  <2>3. UnseenAreFree'
    BY <1>5 DEF EndSync, UnseenAreFree
  <2>4. PublishExcludesSync'
    BY <1>5 DEF EndSync, PublishExcludesSync
  <2>5. SyncingIsHeld'
    BY <1>5 DEF EndSync, SyncingIsHeld
  <2> QED BY <2>1, <2>2, <2>3, <2>4, <2>5
<1>6. ASSUME NEW s \in Syncs, ReadRepo(s) PROVE Rest'
  <2>1. LockOwners'
    BY <1>6 DEF ReadRepo, LockOwners, Locked, Publishing
  <2>2. KnownRepos'
    BY <1>6 DEF ReadRepo, KnownRepos
  <2>3. UnseenAreFree'
    BY <1>6 DEF ReadRepo, UnseenAreFree
  <2>4. PublishExcludesSync'
    BY <1>6 DEF ReadRepo, PublishExcludesSync
  <2>5. SyncingIsHeld'
    BY <1>6 DEF ReadRepo, SyncingIsHeld, LockOwners, Locked
  <2> QED BY <2>1, <2>2, <2>3, <2>4, <2>5
<1>7. ASSUME NEW s \in Syncs, MarkSyncing(s) PROVE Rest'
  <2>1. LockOwners'
    BY <1>7 DEF MarkSyncing, LockOwners, Locked, Publishing
  <2>2. KnownRepos'
    BY <1>7 DEF MarkSyncing, KnownRepos
  <2>3. UnseenAreFree'
    BY <1>7 DEF MarkSyncing, UnseenAreFree
  <2>4. PublishExcludesSync'
    BY <1>7 DEF MarkSyncing, PublishExcludesSync
  <2>5. SyncingIsHeld'
    BY <1>7 DEF MarkSyncing, SyncingIsHeld, LockOwners, Locked
  <2> QED BY <2>1, <2>2, <2>3, <2>4, <2>5
<1>8. ASSUME NEW s \in Syncs, Pull(s) \/ WaitReturns(s) \/ WaitTimesOut(s) PROVE Rest'
  <2>1. LockOwners'
    BY <1>8 DEF Pull, WaitReturns, WaitTimesOut, LockOwners, Locked, Publishing
  <2>2. KnownRepos'
    BY <1>8 DEF Pull, WaitReturns, WaitTimesOut, KnownRepos
  <2>3. UnseenAreFree'
    BY <1>8 DEF Pull, WaitReturns, WaitTimesOut, UnseenAreFree
  <2>4. PublishExcludesSync'
    BY <1>8 DEF Pull, WaitReturns, WaitTimesOut, PublishExcludesSync
  <2>5. SyncingIsHeld'
    BY <1>8 DEF Pull, WaitReturns, WaitTimesOut, SyncingIsHeld
  <2> QED BY <2>1, <2>2, <2>3, <2>4, <2>5
<1>9. ASSUME NEW s \in Syncs, Conclude(s) PROVE Rest'
  <2>1. LockOwners'
    BY <1>9 DEF Conclude, LockOwners, Locked, Publishing
  <2>2. KnownRepos'
    BY <1>9 DEF Conclude, KnownRepos
  <2>3. UnseenAreFree'
    BY <1>9 DEF Conclude, UnseenAreFree
  <2>4. PublishExcludesSync'
    BY <1>9 DEF Conclude, PublishExcludesSync
  <2>5. SyncingIsHeld'
    BY <1>9 DEF Conclude, SyncingIsHeld
  <2> QED BY <2>1, <2>2, <2>3, <2>4, <2>5
<1>10. ASSUME NEW s \in Syncs, JobDone(s) \/ JobMoves(s) PROVE Rest'
  <2>1. LockOwners'
    BY <1>10 DEF JobDone, JobMoves, LockOwners, Locked, Publishing
  <2>2. KnownRepos'
    BY <1>10 DEF JobDone, JobMoves, KnownRepos
  <2>3. UnseenAreFree'
    BY <1>10 DEF JobDone, JobMoves, UnseenAreFree
  <2>4. PublishExcludesSync'
    BY <1>10 DEF JobDone, JobMoves, PublishExcludesSync
  <2>5. SyncingIsHeld'
    BY <1>10 DEF JobDone, JobMoves, SyncingIsHeld
  <2> QED BY <2>1, <2>2, <2>3, <2>4, <2>5
<1>11. ASSUME NEW p \in Publishes, TriggerPublish(p) \/ FeedbackApplied(p) PROVE Rest'
  <2>1. LockOwners'
    BY <1>11 DEF TriggerPublish, FeedbackApplied, LockOwners, Locked, Publishing
  <2>2. KnownRepos'
    BY <1>11 DEF TriggerPublish, FeedbackApplied, KnownRepos
  <2>3. UnseenAreFree'
    BY <1>11 DEF TriggerPublish, FeedbackApplied, UnseenAreFree
  <2>4. PublishExcludesSync'
    BY <1>11 DEF TriggerPublish, FeedbackApplied, PublishExcludesSync
  <2>5. SyncingIsHeld'
    BY <1>11 DEF TriggerPublish, FeedbackApplied, SyncingIsHeld
  <2> QED BY <2>1, <2>2, <2>3, <2>4, <2>5
<1>12. ASSUME NEW p \in Publishes, StartPublish(p) PROVE Rest'
  <2>1. LockOwners'
    BY <1>12 DEF StartPublish, LockOwners, Locked, Publishing
  <2>2. KnownRepos'
    BY <1>12 DEF StartPublish, KnownRepos
  <2>3. UnseenAreFree'
    BY <1>12 DEF StartPublish, UnseenAreFree
  <2>4. PublishExcludesSync'
    BY <1>12 DEF StartPublish, PublishExcludesSync
  <2>5. SyncingIsHeld'
    BY <1>12 DEF StartPublish, SyncingIsHeld
  <2> QED BY <2>1, <2>2, <2>3, <2>4, <2>5
<1>13. ASSUME NEW p \in Publishes, ReadProject(p) PROVE Rest'
  <2>1. LockOwners'
    BY <1>13 DEF ReadProject, LockOwners, Locked, Publishing
  <2>2. KnownRepos'
    BY <1>13 DEF ReadProject, KnownRepos
  <2>3. UnseenAreFree'
    BY <1>13 DEF ReadProject, UnseenAreFree
  <2>4. PublishExcludesSync'
    BY <1>13 DEF ReadProject, PublishExcludesSync
  <2>5. SyncingIsHeld'
    BY <1>13 DEF ReadProject, SyncingIsHeld
  <2> QED BY <2>1, <2>2, <2>3, <2>4, <2>5
<1>14. ASSUME NEW p \in Publishes, CheckSyncs(p) PROVE Rest'
  <2>1. LockOwners'
    BY <1>14 DEF CheckSyncs, LockOwners, Locked, Publishing
  <2>2. KnownRepos'
    BY <1>14 DEF CheckSyncs, KnownRepos
  <2>3. UnseenAreFree'
    BY <1>14 DEF CheckSyncs, UnseenAreFree
  <2>4. PublishExcludesSync'
    BY <1>14 DEF CheckSyncs, PublishExcludesSync, UnseenAreFree
  <2>5. SyncingIsHeld'
    BY <1>14 DEF CheckSyncs, SyncingIsHeld
  <2> QED BY <2>1, <2>2, <2>3, <2>4, <2>5
<1>15. ASSUME NEW p \in Publishes, Push(p) PROVE Rest'
  <2>1. LockOwners'
    BY <1>15 DEF Push, LockOwners, Locked, Publishing
  <2>2. KnownRepos'
    BY <1>15 DEF Push, KnownRepos
  <2>3. UnseenAreFree'
    BY <1>15 DEF Push, UnseenAreFree
  <2>4. PublishExcludesSync'
    BY <1>15 DEF Push, PublishExcludesSync
  <2>5. SyncingIsHeld'
    BY <1>15 DEF Push, SyncingIsHeld
  <2> QED BY <2>1, <2>2, <2>3, <2>4, <2>5
<1>16. ASSUME Crash PROVE Rest'
  <2>1. LockOwners'
    BY <1>16 DEF Crash, LockOwners, Locked, Publishing
  <2>2. KnownRepos'
    BY <1>16 DEF Crash, KnownRepos
  <2>3. UnseenAreFree'
    BY <1>16 DEF Crash, UnseenAreFree
  <2>4. PublishExcludesSync'
    BY <1>16 DEF Crash, PublishExcludesSync
  <2>5. SyncingIsHeld'
    BY <1>16 DEF Crash, SyncingIsHeld
  <2> QED BY <2>1, <2>2, <2>3, <2>4, <2>5
<1>17. ASSUME UNCHANGED vars PROVE Rest'
  <2>1. LockOwners'
    BY <1>17 DEF vars, LockOwners, Locked, Publishing
  <2>2. KnownRepos'
    BY <1>17 DEF vars, KnownRepos
  <2>3. UnseenAreFree'
    BY <1>17 DEF vars, UnseenAreFree
  <2>4. PublishExcludesSync'
    BY <1>17 DEF vars, PublishExcludesSync
  <2>5. SyncingIsHeld'
    BY <1>17 DEF vars, SyncingIsHeld
  <2> QED BY <2>1, <2>2, <2>3, <2>4, <2>5
<1> QED BY <1>0, <1>1, <1>2, <1>3, <1>4, <1>5, <1>6, <1>7, <1>8, <1>9, <1>10, <1>11, <1>12, <1>13, <1>14, <1>15, <1>16, <1>17 DEF Next, SyncGoesOn, PublishGoesOn

\* The inductive invariant, for any number of repositories, syncs and publishes
\* (git_sync.py:445-759).
THEOREM InductiveInvariant == Spec => []IInv
  BY InitInv, Step, PTL DEF Spec

\* A publish that was asked for pushes only while no repository of the project is
\* being synced (git_sync.py:488, 588).
THEOREM PublishAlone == Spec => []PublishExcludesSync
<1>1. IInv => PublishExcludesSync
  BY DEF IInv
<1> QED BY InductiveInvariant, <1>1, PTL

\* A status "syncing" has its sync, or its sync died with the process
\* (git_sync.py:621, 697, 723).
THEOREM SyncingTrue == Spec => []SyncingIsHeld
<1>1. IInv => SyncingIsHeld
  BY DEF IInv
<1> QED BY InductiveInvariant, <1>1, PTL
=============================================================================
