------------------------ MODULE FeedbackTask_proofs ------------------------
(***************************************************************************)
(* Proofs about FeedbackTask, for every set of runs and reviewers, every   *)
(* number of revisions and every interleaving of what they load and write. *)
(***************************************************************************)
EXTENDS FeedbackTask, FiniteSetTheorems, TLAPS

-----------------------------------------------------------------------------
(* The table of transitions, and what a commit writes.                      *)

LEMMA Table ==
  /\ Transitions["pending_evaluation"] = {"evaluation_done", "rejected", "compile_failed"}
  /\ Transitions["evaluation_done"] = {"pending_evaluation", "pending_review", "pending_recompile"}
  /\ Transitions["pending_review"] =
        {"pending_evaluation", "approved", "rejected", "pending_recompile"}
  /\ Transitions["pending_recompile"] = {"pending_evaluation", "pending_review", "compile_failed"}
  /\ Transitions["approved"] = {"applied"}
  /\ Transitions["rejected"] = {"pending_evaluation", "pending_recompile"}
  /\ Transitions["compile_failed"] = {"pending_evaluation", "pending_recompile", "rejected"}
  /\ Transitions["applied"] = {}
BY DEF Transitions, Statuses

\* A status is never a successor of itself, so a legal move is a change.
LEMMA LegalMoves ==
  ASSUME NEW r \in Rows, r.status \in Statuses, NEW s, Legal(r, s)
  PROVE  s \in Statuses /\ s # r.status
BY Table DEF Legal, Statuses

\* The values the parameters stand for.
LEMMA ConstantTypes ==
  /\ MaxRevisions \in Nat /\ MaxRequests \in Nat /\ MaxCrashes \in Nat
  /\ None \notin Nat /\ Ops \subseteq OpNames
BY FeedbackAssumption DEF FeedbackAssumption

LEMMA AbsentRow == Absent \in Rows /\ NewRow \in Rows /\ Absent.status = "absent"
BY ConstantTypes DEF Absent, NewRow, Rows, Guidances, Statuses

\* A commit writes the attributes in which the copy was changed ...
LEMMA FlushFields ==
  ASSUME NEW copy \in Rows, NEW new \in Rows, row \in Rows, Flush(copy, new)
  PROVE  /\ row' \in Rows
         /\ ~Stored => row' = row
         /\ Stored =>
              /\ row'.status = IF new.status # copy.status THEN new.status ELSE row.status
              /\ row'.candidate = IF new.candidate # copy.candidate THEN new.candidate
                                  ELSE row.candidate
              /\ row'.guidance = IF new.guidance # copy.guidance THEN new.guidance
                                 ELSE row.guidance
              /\ row'.revisions = IF new.revisions # copy.revisions THEN new.revisions
                                  ELSE row.revisions
<1>1. row' = [f \in {"status", "candidate", "guidance", "revisions"} |->
                IF Stored /\ new[f] # copy[f] THEN new[f] ELSE row[f]]
  <2>1. DOMAIN row = {"status", "candidate", "guidance", "revisions"}
    BY DEF Rows
  <2> QED BY <2>1 DEF Flush
<1>2. row' = [status |-> IF Stored /\ new.status # copy.status THEN new.status ELSE row.status,
              candidate |-> IF Stored /\ new.candidate # copy.candidate THEN new.candidate
                            ELSE row.candidate,
              guidance |-> IF Stored /\ new.guidance # copy.guidance THEN new.guidance
                           ELSE row.guidance,
              revisions |-> IF Stored /\ new.revisions # copy.revisions THEN new.revisions
                            ELSE row.revisions]
  BY <1>1
<1>3. row' \in Rows
  BY <1>2 DEF Rows
<1>4. ~Stored => row' = row
  BY <1>2 DEF Rows
<1> QED BY <1>2, <1>3, <1>4

\* ... so a copy that was up to date becomes the row, ...
LEMMA FlushExact ==
  ASSUME NEW new \in Rows, row \in Rows, Stored, Flush(row, new)
  PROVE  row' = new
<1>1. /\ row' \in Rows
      /\ row'.status = new.status /\ row'.candidate = new.candidate
      /\ row'.guidance = new.guidance /\ row'.revisions = new.revisions
  BY FlushFields
<1> QED BY <1>1 DEF Rows

\* ... and one that was only moved to another status moves the row there, from
\* whatever status the row has by then.
LEMMA FlushStatus ==
  ASSUME NEW copy \in Rows, row \in Rows, NEW s \in Statuses, copy.status # s,
         Flush(copy, [copy EXCEPT !.status = s])
  PROVE  row' = IF Stored THEN [row EXCEPT !.status = s] ELSE row
<1> DEFINE new == [copy EXCEPT !.status = s]
<1>1. /\ new \in Rows /\ new.status = s /\ new.candidate = copy.candidate
      /\ new.guidance = copy.guidance /\ new.revisions = copy.revisions
  BY DEF Rows
<1> HIDE DEF new
<1>2. /\ row' \in Rows
      /\ ~Stored => row' = row
      /\ Stored => /\ row'.status = s /\ row'.candidate = row.candidate
                   /\ row'.guidance = row.guidance /\ row'.revisions = row.revisions
  BY <1>1, FlushFields DEF new
<1>3. Stored => row' = [row EXCEPT !.status = s]
  BY <1>2 DEF Rows
<1> QED BY <1>2, <1>3

-----------------------------------------------------------------------------
(* What a step of a run does.                                               *)

\* The run w goes on at l with the given copy; the others stay where they are.
Moves(w, l, copy) ==
    /\ wpc'[w] = l /\ wcopy'[w] = copy
    /\ wpc' \in [Workers -> RunPcs] /\ wcopy' \in [Workers -> Rows]
    /\ \A v \in Workers \ {w} : wpc'[v] = wpc[v] /\ wcopy'[v] = wcopy[v]

LEMMA RunGoesMoves ==
  ASSUME TypeOK, NEW w \in Workers, NEW l \in RunPcs, NEW copy \in Rows, RunGoes(w, l, copy)
  PROVE  Moves(w, l, copy)
BY DEF TypeOK, RunGoes, Moves

WithStatus(s) == [row EXCEPT !.status = s]
LEMMA WithStatusType ==
  ASSUME row \in Rows, NEW s \in Statuses
  PROVE  /\ WithStatus(s) \in Rows /\ WithStatus(s).status = s
         /\ WithStatus(s).candidate = row.candidate
         /\ WithStatus(s).guidance = row.guidance
         /\ WithStatus(s).revisions = row.revisions
BY DEF Rows, WithStatus

\* The steps of a run, one by one.
RunKinds(w) ==
    \/ /\ wpc[w] = "evalLoad" /\ row' = row
       /\ Stored => Moves(w, "evaluating", row)
       /\ ~Stored => Moves(w, "idle", Absent)
    \/ /\ wpc[w] = "evaluating" /\ row' = row /\ Moves(w, "idle", Absent)
       /\ ~Stored \/ wcopy[w].status # "pending_evaluation"
    \/ /\ wpc[w] = "evaluating" /\ Stored
       /\ \E s \in {"rejected", "compile_failed"} :
             /\ Legal(wcopy[w], s) /\ row' = WithStatus(s) /\ Moves(w, "idle", Absent)
    \/ /\ wpc[w] = "evaluating" /\ Stored /\ Legal(wcopy[w], "evaluation_done")
       /\ row' = WithStatus("evaluation_done") /\ Moves(w, "repairLoad", Absent)
    \/ /\ wpc[w] = "repairLoad" /\ row' = row
       /\ \/ Stored /\ row.status = "pending_recompile" /\ Moves(w, "compiling", row)
          \/ Stored /\ Legal(row, "pending_recompile") /\ Moves(w, "repairWrite", row)
          \/ (~Stored \/ row.status # "pending_recompile") /\ Moves(w, "idle", Absent)
    \/ /\ wpc[w] = "repairWrite" /\ Stored
       /\ row' = WithStatus("pending_recompile") /\ Moves(w, "refresh", wcopy[w])
    \/ /\ wpc[w] = "repairWrite" /\ ~Stored /\ row' = row /\ Moves(w, "idle", Absent)
    \/ /\ wpc[w] = "refresh" /\ row' = row
       /\ Stored => Moves(w, "compiling", row)
       /\ ~Stored => Moves(w, "idle", Absent)
    \/ /\ wpc[w] = "compiling" /\ row' = row /\ Moves(w, "idle", Absent)
       /\ ~Stored \/ wcopy[w].status # "pending_recompile"
    \/ /\ wpc[w] = "compiling" /\ Stored /\ Legal(wcopy[w], "compile_failed")
       /\ row' = WithStatus("compile_failed") /\ Moves(w, "idle", Absent)
    \/ /\ wpc[w] = "compiling" /\ Stored /\ Legal(wcopy[w], "pending_review")
       /\ row' = [row EXCEPT !.status = "pending_review", !.candidate = wcopy[w].guidance]
       /\ Moves(w, "idle", Absent)

LEMMA RunEffect ==
  ASSUME TypeOK, RunsReady, NEW w \in Workers, RunStep(w)
  PROVE  /\ RunKinds(w)
         /\ UNCHANGED <<cpc, ccopy, granted, approvals, wiki, contested, alone, calm, requests, crashes>>
<1>0. /\ row \in Rows /\ Absent \in Rows /\ wcopy[w] \in Rows
      /\ Stored <=> row.status \in Statuses
      /\ wpc[w] \in {"evaluating", "repairWrite", "compiling"} => wcopy[w].status \in Statuses
      /\ wpc[w] = "repairWrite" => Legal(wcopy[w], "pending_recompile")
  BY AbsentRow DEF TypeOK, RunsReady, Stored
<1>1. UNCHANGED <<cpc, ccopy, granted, approvals, wiki, contested, alone, calm, requests, crashes>>
  BY DEF RunStep, LoadForEvaluation, Evaluate, LoadForRepair, MarkRecompiling, RefreshRow,
         Compile, RunFrame, clientVars, histories, counts
<1>2. \A l \in RunPcs : RunGoes(w, l, row) => Moves(w, l, row)
  BY <1>0, RunGoesMoves
<1>3. \A l \in RunPcs : RunGoes(w, l, Absent) => Moves(w, l, Absent)
  BY <1>0, RunGoesMoves
<1>4. EndRun(w) => Moves(w, "idle", Absent)
  BY <1>3 DEF EndRun, RunPcs
<1>5. CASE LoadForEvaluation(w)
  BY <1>0, <1>1, <1>2, <1>4, <1>5 DEF LoadForEvaluation, RunKinds, RunPcs
<1>6. CASE Evaluate(w)
  <2>1. wpc[w] = "evaluating" /\ wcopy[w].status \in Statuses
    BY <1>0, <1>6 DEF Evaluate
  <2>2. ASSUME NEW s \in {"rejected", "compile_failed"}, Settle(w, s)
        PROVE  RunKinds(w)
    <3>1. CASE Legal(wcopy[w], s) /\ Stored
      <4>1. wcopy[w].status # s /\ s \in Statuses
        BY <1>0, <2>1, <3>1, LegalMoves
      <4>2. row' = WithStatus(s)
        BY <1>0, <2>2, <3>1, <4>1, FlushStatus DEF Settle, WithStatus
      <4> QED BY <1>4, <2>1, <2>2, <3>1, <4>2 DEF RunKinds, Settle
    <3>2. CASE Legal(wcopy[w], s) /\ ~Stored
      <4>1. wcopy[w].status # s /\ s \in Statuses
        BY <1>0, <2>1, <3>2, LegalMoves
      <4>2. row' = row
        BY <1>0, <2>2, <3>2, <4>1, FlushStatus DEF Settle
      <4> QED BY <1>4, <2>1, <2>2, <3>2, <4>2 DEF RunKinds, Settle
    <3>3. CASE ~Legal(wcopy[w], s)
      <4>1. wcopy[w].status # "pending_evaluation"
        BY <3>3, Table DEF Legal
      <4> QED BY <1>4, <2>1, <2>2, <3>3, <4>1 DEF RunKinds, Settle
    <3> QED BY <3>1, <3>2, <3>3
  <2>3. ASSUME Stored, Legal(wcopy[w], "evaluation_done"),
               Flush(wcopy[w], [wcopy[w] EXCEPT !.status = "evaluation_done"]),
               RunGoes(w, "repairLoad", Absent)
        PROVE  RunKinds(w)
    <3>1. wcopy[w].status # "evaluation_done" /\ "evaluation_done" \in Statuses
      BY <1>0, <2>1, <2>3, LegalMoves
    <3>2. row' = WithStatus("evaluation_done")
      BY <1>0, <2>3, <3>1, FlushStatus DEF WithStatus
    <3>3. Moves(w, "repairLoad", Absent)
      BY <1>3, <2>3 DEF RunPcs
    <3> QED BY <2>1, <2>3, <3>2, <3>3 DEF RunKinds
  <2> QED BY <1>1, <1>6, <2>2, <2>3 DEF Evaluate
<1>7. CASE LoadForRepair(w)
  BY <1>0, <1>1, <1>2, <1>4, <1>7 DEF LoadForRepair, RunKinds, RunPcs
<1>8. CASE MarkRecompiling(w)
  <2>1. wpc[w] = "repairWrite" /\ wcopy[w].status # "pending_recompile"
    BY <1>0, <1>8, LegalMoves DEF MarkRecompiling
  <2>2. row' = IF Stored THEN WithStatus("pending_recompile") ELSE row
    BY <1>0, <1>8, <2>1, FlushStatus DEF MarkRecompiling, WithStatus, Statuses
  <2>3. CASE Stored
    <3>1. Moves(w, "refresh", wcopy[w])
      BY <1>0, <1>8, <2>3, RunGoesMoves DEF MarkRecompiling, RunPcs
    <3> QED BY <1>1, <2>1, <2>2, <2>3, <3>1 DEF RunKinds
  <2>4. CASE ~Stored
    BY <1>1, <1>4, <1>8, <2>1, <2>2, <2>4 DEF RunKinds, MarkRecompiling
  <2> QED BY <2>3, <2>4
<1>9. CASE RefreshRow(w)
  BY <1>0, <1>1, <1>2, <1>4, <1>9 DEF RefreshRow, RunKinds, RunPcs
<1>10. CASE Compile(w)
  <2>1. wpc[w] = "compiling" /\ wcopy[w].status \in Statuses
    BY <1>0, <1>10 DEF Compile
  <2>2. ASSUME Settle(w, "compile_failed")
        PROVE  RunKinds(w)
    <3>1. CASE Legal(wcopy[w], "compile_failed")
      <4>1. wcopy[w].status # "compile_failed" /\ "compile_failed" \in Statuses
        BY <1>0, <2>1, <3>1, LegalMoves
      <4>2. row' = IF Stored THEN WithStatus("compile_failed") ELSE row
        BY <1>0, <2>2, <3>1, <4>1, FlushStatus DEF Settle, WithStatus
      <4> QED BY <1>4, <2>1, <2>2, <3>1, <4>2 DEF RunKinds, Settle
    <3>2. CASE ~Legal(wcopy[w], "compile_failed")
      <4>1. wcopy[w].status # "pending_recompile"
        BY <3>2, Table DEF Legal
      <4> QED BY <1>4, <2>1, <2>2, <3>2, <4>1 DEF RunKinds, Settle
    <3> QED BY <3>1, <3>2
  <2>3. ASSUME IF Stored /\ Legal(wcopy[w], "pending_review")
               THEN row' = [row EXCEPT !.status = "pending_review",
                                       !.candidate = wcopy[w].guidance]
               ELSE UNCHANGED row,
               EndRun(w)
        PROVE  RunKinds(w)
    <3>1. wcopy[w].status = "pending_recompile" => Legal(wcopy[w], "pending_review")
      BY Table DEF Legal
    <3> QED BY <1>4, <2>1, <2>3, <3>1 DEF RunKinds
  <2> QED BY <1>1, <1>10, <2>2, <2>3 DEF Compile
<1> QED BY <1>5, <1>6, <1>7, <1>8, <1>9, <1>10 DEF RunStep

-----------------------------------------------------------------------------
(* What a step of a request does.                                           *)

ClientPcs == OpNames \cup {"idle", "published"}

\* The request of c goes on at l; the other requests stay where they are.
Replies(c, l, copy) ==
    /\ cpc'[c] = l /\ ccopy'[c] = copy
    /\ cpc' \in [Clients -> ClientPcs] /\ ccopy' \in [Clients -> Rows]
    /\ \A d \in Clients \ {c} : cpc'[d] = cpc[d] /\ ccopy'[d] = ccopy[d]
NoRunMoves == wpc' = wpc /\ wcopy' = wcopy
Starts(l) == \E w \in Workers : wpc[w] = "idle" /\ Moves(w, l, Absent)

LEMMA AnswerReplies ==
  ASSUME TypeOK, NEW c \in Clients, Answer(c)
  PROVE  Replies(c, "idle", Absent) /\ UNCHANGED <<contested, alone, calm, requests, crashes>>
BY AbsentRow DEF TypeOK, Answer, Replies, ClientPcs

LEMMA SpawnStarts ==
  ASSUME TypeOK, NEW l \in RunPcs, Spawn(l)
  PROVE  Starts(l)
<1>1. PICK w \in Workers : wpc[w] = "idle" /\ RunGoes(w, l, Absent)
  BY DEF Spawn
<1>2. Moves(w, l, Absent)
  BY <1>1, AbsentRow, RunGoesMoves
<1> QED BY <1>1, <1>2 DEF Starts

ServeKinds(c) ==
    \/ /\ \/ /\ cpc[c] = "approve" /\ row' = IF Stored THEN WithStatus("approved") ELSE row
             /\ approvals' = approvals + 1
          \/ /\ cpc[c] = "reject" /\ row' = IF Stored THEN WithStatus("rejected") ELSE row
             /\ UNCHANGED approvals
          \/ /\ cpc[c] = "published" /\ row' = IF Stored THEN WithStatus("applied") ELSE row
             /\ UNCHANGED approvals
       /\ NoRunMoves /\ Replies(c, "idle", Absent) /\ UNCHANGED <<granted, wiki>>
    \/ /\ cpc[c] = "revise" /\ row' \in Rows
       /\ Flush(ccopy[c], [ccopy[c] EXCEPT !.status = "pending_recompile",
                                           !.guidance = requests, !.revisions = @ + 1])
       /\ ~Stored => row' = row /\ granted' = granted /\ NoRunMoves
       /\ Stored => /\ row'.status = "pending_recompile" /\ row'.candidate = row.candidate
                    /\ granted' = granted + 1 /\ Starts("repairLoad")
       /\ Replies(c, "idle", Absent) /\ UNCHANGED <<approvals, wiki>>
    \/ /\ cpc[c] = "reevaluate" /\ row' \in Rows
       /\ ~Stored => row' = row /\ NoRunMoves
       /\ Stored => /\ row'.status = "pending_evaluation" /\ row'.revisions = row.revisions
                    /\ Starts("evalLoad")
       /\ Replies(c, "idle", Absent) /\ UNCHANGED <<granted, approvals, wiki>>
    \/ /\ cpc[c] = "recompile"
       /\ ~Stored => row' = row /\ NoRunMoves
       /\ Stored => row' = WithStatus("pending_recompile") /\ Starts("repairLoad")
       /\ Replies(c, "idle", Absent) /\ UNCHANGED <<granted, approvals, wiki>>
    \/ /\ cpc[c] = "apply" /\ row' = row /\ NoRunMoves /\ UNCHANGED <<granted, approvals>>
       /\ \/ wiki' = wiki + 1 /\ Replies(c, "published", ccopy[c])
          \/ wiki' = wiki /\ Replies(c, "idle", Absent)
    \/ /\ cpc[c] = "delete" /\ row' = [Absent EXCEPT !.status = "deleted"]
       /\ NoRunMoves /\ Replies(c, "idle", Absent) /\ UNCHANGED <<granted, approvals, wiki>>

LEMMA ServeEffect ==
  ASSUME TypeOK, RequestsAccepted, NEW c \in Clients, Serve(c)
  PROVE  ServeKinds(c) /\ UNCHANGED <<contested, alone, calm, requests, crashes>>
<1>0. /\ row \in Rows /\ ccopy[c] \in Rows /\ cpc \in [Clients -> ClientPcs]
      /\ ccopy \in [Clients -> Rows] /\ cpc[c] # "idle" /\ ccopy[c].status \in Statuses
      /\ cpc[c] \in OpNames => Accepts(cpc[c], ccopy[c])
      /\ cpc[c] = "published" => CanApply(ccopy[c])
      /\ requests \in Guidances
      /\ Stored <=> row.status \in Statuses
  BY DEF TypeOK, RequestsAccepted, Stored, Guidances, ClientPcs, Serve, ReviewTask, ReviseTask,
         ReevaluateTask, RecompileTask, ApplyChanges, MarkApplied, DeleteTask
<1>1. Answer(c) => Replies(c, "idle", Absent) /\ UNCHANGED <<contested, alone, calm, requests, crashes>>
  BY AnswerReplies
<1>2. UNCHANGED runVars => NoRunMoves
  BY DEF runVars, NoRunMoves
<1>3. CASE ReviewTask(c)
  <2>1. CASE cpc[c] = "approve"
    <3>1. ccopy[c].status # "approved"
      BY <1>0, <2>1, LegalMoves DEF OpNames, Accepts
    <3>2. row' = IF Stored THEN WithStatus("approved") ELSE row
      BY <1>0, <1>3, <2>1, <3>1, FlushStatus DEF ReviewTask, WithStatus, Statuses
    <3> QED BY <1>1, <1>2, <1>3, <2>1, <3>2 DEF ReviewTask, ServeKinds
  <2>2. CASE cpc[c] = "reject"
    <3>1. ccopy[c].status # "rejected"
      BY <1>0, <2>2, LegalMoves DEF OpNames, Accepts
    <3>2. row' = IF Stored THEN WithStatus("rejected") ELSE row
      BY <1>0, <1>3, <2>2, <3>1, FlushStatus DEF ReviewTask, WithStatus, Statuses
    <3> QED BY <1>1, <1>2, <1>3, <2>2, <3>2 DEF ReviewTask, ServeKinds
  <2> QED BY <1>3, <2>1, <2>2 DEF ReviewTask
<1>4. CASE ReviseTask(c)
  <2> DEFINE new == [ccopy[c] EXCEPT !.status = "pending_recompile",
                                     !.guidance = requests, !.revisions = @ + 1]
  <2>1. /\ cpc[c] = "revise" /\ Flush(ccopy[c], new) /\ Answer(c) /\ UNCHANGED <<approvals, wiki>>
        /\ Stored => granted' = granted + 1 /\ Spawn("repairLoad")
        /\ ~Stored => UNCHANGED granted /\ UNCHANGED runVars
    BY <1>4 DEF ReviseTask
  <2>2. ccopy[c].status # "pending_recompile" /\ ccopy[c].revisions < MaxRevisions
    BY <1>0, <2>1, LegalMoves DEF OpNames, Accepts, CanRevise
  <2>3. ccopy[c].revisions + 1 \in 0..MaxRevisions
    BY <1>0, <2>2, ConstantTypes DEF Rows
  <2>4. /\ new \in Rows /\ new.status = "pending_recompile" /\ new.candidate = ccopy[c].candidate
    BY <1>0, <2>3 DEF Rows, Statuses
  <2> HIDE DEF new
  <2>5. /\ row' \in Rows
        /\ ~Stored => row' = row
        /\ Stored => row'.status = "pending_recompile" /\ row'.candidate = row.candidate
    BY <1>0, <2>1, <2>2, <2>4, FlushFields
  <2>6. Stored => Starts("repairLoad")
    BY <2>1, SpawnStarts DEF RunPcs
  <2> QED BY <1>1, <1>2, <2>1, <2>5, <2>6 DEF ServeKinds, new
<1>5. CASE ReevaluateTask(c)
  <2> DEFINE new == [ccopy[c] EXCEPT !.status = "pending_evaluation",
                                     !.candidate = None, !.guidance = 0]
  <2>1. /\ cpc[c] = "reevaluate" /\ Flush(ccopy[c], new) /\ Answer(c)
        /\ UNCHANGED counts
        /\ Stored => Spawn("evalLoad")
        /\ ~Stored => UNCHANGED runVars
    BY <1>5 DEF ReevaluateTask
  <2>2. ccopy[c].status # "pending_evaluation"
    BY <1>0, <2>1 DEF OpNames, Accepts, CanReevaluate
  <2>3. 0 \in Guidances
    BY ConstantTypes DEF Guidances
  <2>4. /\ new \in Rows /\ new.status = "pending_evaluation"
        /\ new.revisions = ccopy[c].revisions
    BY <1>0, <2>3 DEF Rows, Statuses
  <2> HIDE DEF new
  <2>5. /\ row' \in Rows
        /\ ~Stored => row' = row
        /\ Stored => row'.status = "pending_evaluation" /\ row'.revisions = row.revisions
    BY <1>0, <2>1, <2>2, <2>4, FlushFields
  <2>6. Stored => Starts("evalLoad")
    BY <2>1, SpawnStarts DEF RunPcs
  <2> QED BY <1>1, <1>2, <2>1, <2>5, <2>6 DEF ServeKinds, counts
<1>6. CASE RecompileTask(c)
  <2>1. /\ cpc[c] = "recompile" /\ Answer(c) /\ UNCHANGED counts
        /\ Flush(ccopy[c], [ccopy[c] EXCEPT !.status = "pending_recompile"])
        /\ Stored => Spawn("repairLoad")
        /\ ~Stored => UNCHANGED runVars
    BY <1>6 DEF RecompileTask
  <2>2. ccopy[c].status # "pending_recompile"
    BY <1>0, <2>1 DEF OpNames, Accepts, CanRecompile
  <2>3. row' = IF Stored THEN WithStatus("pending_recompile") ELSE row
    BY <1>0, <2>1, <2>2, FlushStatus DEF WithStatus, Statuses
  <2>4. Stored => Starts("repairLoad")
    BY <2>1, SpawnStarts DEF RunPcs
  <2> QED BY <1>1, <1>2, <2>1, <2>3, <2>4 DEF ServeKinds, counts
<1>7. CASE ApplyChanges(c)
  <2>1. cpc[c] = "apply" /\ row' = row /\ NoRunMoves /\ UNCHANGED <<granted, approvals>>
    BY <1>2, <1>7 DEF ApplyChanges
  <2>2. CASE /\ wiki' = wiki + 1
             /\ cpc' = [cpc EXCEPT ![c] = "published"]
             /\ UNCHANGED <<ccopy, contested, alone, calm, requests, crashes>>
    <3>1. Replies(c, "published", ccopy[c])
      BY <1>0, <2>2 DEF Replies, ClientPcs
    <3> QED BY <2>1, <2>2, <3>1 DEF ServeKinds
  <2>3. CASE Answer(c) /\ UNCHANGED wiki
    BY <1>1, <2>1, <2>3 DEF ServeKinds
  <2> QED BY <1>7, <2>2, <2>3 DEF ApplyChanges
<1>8. CASE MarkApplied(c)
  <2>1. cpc[c] = "published" /\ ccopy[c].status # "applied"
    BY <1>0, <1>8 DEF MarkApplied, CanApply
  <2>2. row' = IF Stored THEN WithStatus("applied") ELSE row
    BY <1>0, <1>8, <2>1, FlushStatus DEF MarkApplied, WithStatus, Statuses
  <2> QED BY <1>1, <1>2, <1>8, <2>1, <2>2 DEF MarkApplied, ServeKinds, counts
<1>9. CASE DeleteTask(c)
  BY <1>1, <1>2, <1>9 DEF DeleteTask, ServeKinds, counts
<1> QED BY <1>3, <1>4, <1>5, <1>6, <1>7, <1>8, <1>9 DEF Serve

-----------------------------------------------------------------------------
(* Type correctness.                                                        *)

LEMMA MovesTypes ==
  ASSUME NEW w \in Workers, NEW l, NEW copy, Moves(w, l, copy)
  PROVE  wpc' \in [Workers -> RunPcs] /\ wcopy' \in [Workers -> Rows]
BY DEF Moves

LEMMA RunTypes ==
  ASSUME TypeOK, RunsReady, NEW w \in Workers, RunStep(w)
  PROVE  TypeOK'
<1>1. RunKinds(w) /\ UNCHANGED <<cpc, ccopy, granted, approvals, wiki, contested, alone, calm, requests, crashes>>
  BY RunEffect
<1>2. row \in Rows /\ wcopy[w] \in Rows
  BY DEF TypeOK
<1>3. row' \in Rows
  <2>1. \A s \in Statuses : WithStatus(s) \in Rows
    BY <1>2, WithStatusType
  <2>2. [row EXCEPT !.status = "pending_review", !.candidate = wcopy[w].guidance] \in Rows
    BY <1>2 DEF Rows, Statuses
  <2> QED BY <1>1, <1>2, <2>1, <2>2 DEF RunKinds, Statuses
<1>4. wpc' \in [Workers -> RunPcs] /\ wcopy' \in [Workers -> Rows]
  BY <1>1 DEF RunKinds, Moves
<1> QED BY <1>1, <1>3, <1>4 DEF TypeOK

\* The applies that are about to write are open requests.
LEMMA UnwrittenCounted ==
  ASSUME RequestsCounted
  PROVE  IsFiniteSet(Unwritten) /\ Cardinality(Unwritten) \in Nat
<1>1. Unwritten \subseteq Open
  BY DEF Unwritten, Open
<1> QED BY <1>1, FS_Subset, FS_CardinalityType DEF RequestsCounted

\* One more open request, or one less.
LEMMA OpenGrows ==
  ASSUME RequestsCounted, NEW c \in Clients, cpc[c] = "idle",
         cpc'[c] \in OpNames, \A d \in Clients \ {c} : cpc'[d] = cpc[d]
  PROVE  IsFiniteSet(Open') /\ Cardinality(Open') = Cardinality(Open) + 1
         /\ Cardinality(Open) \in Nat
<1>1. Open' = Open \cup {c} /\ c \notin Open
  BY DEF Open, OpNames
<1> QED BY <1>1, FS_AddElement, FS_CardinalityType DEF RequestsCounted

LEMMA OpenShrinks ==
  ASSUME RequestsCounted, NEW c \in Clients, cpc[c] \in OpNames,
         cpc'[c] \in {"idle", "published"}, \A d \in Clients \ {c} : cpc'[d] = cpc[d]
  PROVE  IsFiniteSet(Open') /\ Cardinality(Open') = Cardinality(Open) - 1
         /\ Cardinality(Open) \in Nat /\ Cardinality(Open) > 0
<1>1. Open' = Open \ {c} /\ c \in Open
  BY DEF Open, OpNames
<1>2. Cardinality(Open) \in Nat /\ Cardinality(Open) # 0
  BY <1>1, FS_CardinalityType, FS_EmptySet DEF RequestsCounted
<1> QED BY <1>1, <1>2, FS_RemoveElement DEF RequestsCounted

LEMMA ServeCounts ==
  ASSUME TypeOK, RequestsCounted, RequestsAccepted, NEW c \in Clients, Serve(c)
  PROVE  RequestsCounted' /\ granted' \in 0..MaxRequests /\ approvals' \in 0..MaxRequests
         /\ wiki' \in 0..MaxRequests
<1>1. ServeKinds(c) /\ UNCHANGED <<contested, alone, calm, requests, crashes>>
  BY ServeEffect
<1>2. /\ granted \in Nat /\ approvals \in Nat /\ wiki \in Nat
      /\ requests \in Nat /\ requests <= MaxRequests
      /\ MaxRequests \in Nat /\ IsFiniteSet(Open)
      /\ granted + approvals + wiki + Cardinality(Open) <= requests
  BY ConstantTypes DEF TypeOK, RequestsCounted
<1>3. CASE cpc[c] = "published"
  <2>1. /\ cpc'[c] = "idle" /\ \A d \in Clients \ {c} : cpc'[d] = cpc[d]
        /\ UNCHANGED <<granted, approvals, wiki>>
    BY <1>1, <1>3 DEF ServeKinds, Replies
  <2>2. Open' = Open
    BY <1>3, <2>1 DEF Open
  <2> QED BY <1>1, <1>2, <2>1, <2>2, FS_CardinalityType DEF RequestsCounted
<1>4. CASE cpc[c] # "published"
  <2>1. /\ cpc[c] \in OpNames
        /\ cpc'[c] \in {"idle", "published"} /\ \A d \in Clients \ {c} : cpc'[d] = cpc[d]
    BY <1>1, <1>4 DEF ServeKinds, Replies, OpNames
  <2>2. /\ IsFiniteSet(Open') /\ Cardinality(Open') = Cardinality(Open) - 1
        /\ Cardinality(Open) \in Nat /\ Cardinality(Open) > 0
    BY <2>1, OpenShrinks DEF RequestsCounted, TypeOK
  <2>3. \/ granted' = granted /\ approvals' = approvals /\ wiki' = wiki
        \/ granted' = granted + 1 /\ approvals' = approvals /\ wiki' = wiki
        \/ granted' = granted /\ approvals' = approvals + 1 /\ wiki' = wiki
        \/ granted' = granted /\ approvals' = approvals /\ wiki' = wiki + 1
    BY <1>1, <1>4 DEF ServeKinds
  <2> QED BY <1>1, <1>2, <2>2, <2>3 DEF RequestsCounted
<1> QED BY <1>3, <1>4

LEMMA ServeTypes ==
  ASSUME TypeOK, RequestsCounted, RequestsAccepted, NEW c \in Clients, Serve(c)
  PROVE  TypeOK'
<1>1. ServeKinds(c) /\ UNCHANGED <<contested, alone, calm, requests, crashes>>
  BY ServeEffect
<1>2. row \in Rows /\ Absent \in Rows
  BY AbsentRow DEF TypeOK
<1>3. row' \in Rows
  <2>1. \A s \in Statuses : WithStatus(s) \in Rows
    BY <1>2, WithStatusType
  <2>2. [Absent EXCEPT !.status = "deleted"] \in Rows
    BY <1>2 DEF Rows
  <2> QED BY <1>1, <1>2, <2>1, <2>2 DEF ServeKinds, Statuses
<1>4. wpc' \in [Workers -> RunPcs] /\ wcopy' \in [Workers -> Rows]
  BY <1>1 DEF ServeKinds, NoRunMoves, Starts, Moves, TypeOK
<1>5. cpc' \in [Clients -> ClientPcs] /\ ccopy' \in [Clients -> Rows]
  BY <1>1 DEF ServeKinds, Replies
<1> QED BY <1>1, <1>3, <1>4, <1>5, ServeCounts DEF TypeOK, ClientPcs

\* A request that arrives: what it asks is accepted on the row it has read.
LEMMA ArriveEffect ==
  ASSUME TypeOK, NEW c \in Clients, ReadTask(c)
  PROVE  /\ Stored /\ cpc[c] = "idle" /\ cpc'[c] \in OpNames /\ Accepts(cpc'[c], row)
         /\ Replies(c, cpc'[c], row) /\ requests < MaxRequests
         /\ requests' = requests + 1 /\ calm' = (calm /\ Quiet) /\ alone' = (alone /\ NobodyAsks)
         /\ contested' = IF cpc'[c] = "apply" /\ Applying # {} THEN contested + 1 ELSE contested
         /\ UNCHANGED <<row, wpc, wcopy, granted, approvals, wiki, crashes>>
<1>1. PICK op \in Ops :
         /\ Accepts(op, row) /\ cpc' = [cpc EXCEPT ![c] = op]
         /\ contested' = IF op = "apply" /\ Applying # {} THEN contested + 1 ELSE contested
  BY DEF ReadTask
<1>2. op \in OpNames
  BY ConstantTypes
<1>3. cpc'[c] = op /\ cpc' \in [Clients -> ClientPcs] /\ \A d \in Clients \ {c} : cpc'[d] = cpc[d]
  BY <1>1, <1>2 DEF TypeOK, ClientPcs
<1>4. /\ ccopy'[c] = row /\ ccopy' \in [Clients -> Rows]
      /\ \A d \in Clients \ {c} : ccopy'[d] = ccopy[d]
  BY DEF TypeOK, ReadTask
<1> QED BY <1>1, <1>2, <1>3, <1>4 DEF ReadTask, Replies, runVars, counts

LEMMA ArriveTypes ==
  ASSUME TypeOK, RequestsCounted, NEW c \in Clients, ReadTask(c)
  PROVE  TypeOK' /\ RequestsCounted'
<1>1. /\ Stored /\ cpc[c] = "idle" /\ cpc'[c] \in OpNames
      /\ Replies(c, cpc'[c], row) /\ requests < MaxRequests
      /\ requests' = requests + 1 /\ contested' \in {contested, contested + 1}
      /\ UNCHANGED <<row, wpc, wcopy, granted, approvals, wiki, crashes>>
  BY ArriveEffect
<1>2. calm' \in BOOLEAN /\ alone' \in BOOLEAN
  BY DEF ReadTask
<1>3. requests' \in 0..MaxRequests /\ contested' \in 0..MaxRequests /\ contested' <= requests'
  BY <1>1, ConstantTypes DEF TypeOK, RequestsCounted
<1>4. TypeOK'
  BY <1>1, <1>2, <1>3 DEF TypeOK, Replies, ClientPcs
<1>5. /\ IsFiniteSet(Open') /\ Cardinality(Open') = Cardinality(Open) + 1
      /\ Cardinality(Open) \in Nat
  BY <1>1, OpenGrows DEF Replies
<1>6. RequestsCounted'
  BY <1>1, <1>3, <1>5, ConstantTypes DEF TypeOK, RequestsCounted
<1> QED BY <1>4, <1>6

-----------------------------------------------------------------------------
(* A step of a run preserves every part of the invariant.                   *)

\* What a run may write into the row.
LEMMA RunRow ==
  ASSUME TypeOK, NEW w \in Workers, RunKinds(w)
  PROVE  /\ wpc[w] # "idle"
         /\ \/ row' = row
            \/ /\ Stored /\ row'.status \in {"rejected", "compile_failed", "evaluation_done",
                                             "pending_recompile"}
               /\ row'.candidate = row.candidate
               /\ row'.guidance = row.guidance /\ row'.revisions = row.revisions
            \/ /\ Stored /\ wpc[w] = "compiling" /\ row'.status = "pending_review"
               /\ row'.candidate = wcopy[w].guidance
               /\ row'.guidance = row.guidance /\ row'.revisions = row.revisions
<1>1. wpc[w] # "idle"
  BY DEF RunKinds
<1>2. row \in Rows
  BY DEF TypeOK
<1>3. \A s \in Statuses : /\ WithStatus(s).status = s
                          /\ WithStatus(s).candidate = row.candidate
                          /\ WithStatus(s).guidance = row.guidance
                          /\ WithStatus(s).revisions = row.revisions
  BY <1>2, WithStatusType
<1>4. row' = [row EXCEPT !.status = "pending_review", !.candidate = wcopy[w].guidance] =>
         /\ row'.status = "pending_review" /\ row'.candidate = wcopy[w].guidance
         /\ row'.guidance = row.guidance /\ row'.revisions = row.revisions
  BY <1>2 DEF Rows
<1> QED BY <1>1, <1>3, <1>4 DEF RunKinds, Statuses

LEMMA RunReady ==
  ASSUME TypeOK, RunsReady, NEW w \in Workers, RunKinds(w)
  PROVE  RunsReady'
<1>1. /\ wpc'[w] \in {"evaluating", "compiling"} => wcopy'[w].status \in Statuses
      /\ wpc'[w] = "repairWrite" => /\ wcopy'[w].status \in Statuses
                                    /\ Legal(wcopy'[w], "pending_recompile")
  BY DEF RunKinds, Moves, Stored
<1>2. \A v \in Workers \ {w} : wpc'[v] = wpc[v] /\ wcopy'[v] = wcopy[v]
  BY DEF RunKinds, Moves
<1> QED BY <1>1, <1>2 DEF RunsReady, Legal

LEMMA RunCarries ==
  ASSUME TypeOK, RunsReady, RunsCarry, NEW w \in Workers, RunKinds(w), UNCHANGED crashes
  PROVE  RunsCarry'
<1> SUFFICES ASSUME crashes = 0
    PROVE /\ row'.status = "pending_evaluation" =>
               \E v \in Workers : \/ wpc'[v] = "evalLoad"
                                  \/ wpc'[v] = "evaluating" /\ wcopy'[v].status = "pending_evaluation"
          /\ row'.status = "pending_recompile" =>
               \E v \in Workers : \/ wpc'[v] \in {"repairLoad", "repairWrite", "refresh"}
                                  \/ wpc'[v] = "compiling" /\ wcopy'[v].status = "pending_recompile"
  BY DEF RunsCarry
<1>0. row \in Rows /\ (row.status \in {"pending_evaluation", "pending_recompile"} => Stored)
  BY DEF TypeOK, Stored, Statuses
<1>1. \A v \in Workers \ {w} : wpc'[v] = wpc[v] /\ wcopy'[v] = wcopy[v]
  BY DEF RunKinds, Moves
<1>2. ASSUME row'.status = "pending_evaluation"
      PROVE  \E v \in Workers : \/ wpc'[v] = "evalLoad"
                                \/ wpc'[v] = "evaluating" /\ wcopy'[v].status = "pending_evaluation"
  <2>1. row' = row
    BY <1>2, RunRow
  <2>2. PICK v \in Workers : \/ wpc[v] = "evalLoad"
                             \/ wpc[v] = "evaluating" /\ wcopy[v].status = "pending_evaluation"
    BY <1>2, <2>1 DEF RunsCarry
  <2>3. CASE v # w
    BY <1>1, <2>2, <2>3
  <2>4. CASE v = w /\ wpc[w] = "evalLoad"
    <3>1. Moves(w, "evaluating", row)
      BY <1>0, <1>2, <2>1, <2>4 DEF RunKinds
    <3> QED BY <1>2, <2>1, <3>1 DEF Moves
  <2>5. CASE v = w /\ wpc[w] = "evaluating" /\ wcopy[w].status = "pending_evaluation"
    <3>1. \E s \in {"rejected", "compile_failed", "evaluation_done"} : row' = WithStatus(s)
      BY <1>0, <1>2, <2>1, <2>5 DEF RunKinds
    <3> QED BY <1>0, <1>2, <3>1, WithStatusType DEF Statuses
  <2> QED BY <2>2, <2>3, <2>4, <2>5
<1>3. ASSUME row'.status = "pending_recompile"
      PROVE  \E v \in Workers : \/ wpc'[v] \in {"repairLoad", "repairWrite", "refresh"}
                                \/ wpc'[v] = "compiling" /\ wcopy'[v].status = "pending_recompile"
  <2>1. CASE row' # row
    <3>1. \A s \in Statuses : WithStatus(s).status = s
      BY <1>0, WithStatusType
    <3>2. row' = [row EXCEPT !.status = "pending_review", !.candidate = wcopy[w].guidance] =>
             row'.status = "pending_review"
      BY <1>0 DEF Rows
    <3>3. Moves(w, "refresh", wcopy[w])
      BY <1>3, <2>1, <3>1, <3>2 DEF RunKinds, Statuses
    <3> QED BY <3>3 DEF Moves
  <2>2. CASE row' = row
    <3>1. PICK v \in Workers : \/ wpc[v] \in {"repairLoad", "repairWrite", "refresh"}
                               \/ wpc[v] = "compiling" /\ wcopy[v].status = "pending_recompile"
      BY <1>3, <2>2 DEF RunsCarry
    <3>2. CASE v # w
      BY <1>1, <3>1, <3>2
    <3>3. CASE v = w /\ wpc[w] = "repairLoad"
      <4>1. Moves(w, "compiling", row) \/ Moves(w, "repairWrite", row)
        BY <1>0, <1>3, <2>2, <3>3 DEF RunKinds
      <4> QED BY <1>3, <2>2, <4>1 DEF Moves
    <3>4. CASE v = w /\ wpc[w] = "repairWrite"
      <4>1. Moves(w, "refresh", wcopy[w])
        BY <1>0, <1>3, <2>2, <3>4 DEF RunKinds
      <4> QED BY <4>1 DEF Moves
    <3>5. CASE v = w /\ wpc[w] = "refresh"
      <4>1. Moves(w, "compiling", row)
        BY <1>0, <1>3, <2>2, <3>5 DEF RunKinds
      <4> QED BY <1>3, <2>2, <4>1 DEF Moves
    <3>6. CASE v = w /\ wpc[w] = "compiling" /\ wcopy[w].status = "pending_recompile"
      <4>1. \/ row' = WithStatus("compile_failed")
            \/ row' = [row EXCEPT !.status = "pending_review", !.candidate = wcopy[w].guidance]
        BY <1>0, <1>3, <2>2, <3>6 DEF RunKinds
      <4>2. row'.status # "pending_recompile"
        BY <1>0, <4>1, WithStatusType DEF Rows, Statuses
      <4> QED BY <1>3, <4>2
    <3> QED BY <3>1, <3>2, <3>3, <3>4, <3>5, <3>6
  <2> QED BY <2>1, <2>2
<1> QED BY <1>2, <1>3

LEMMA RunAlone ==
  ASSUME TypeOK, CalmIsAlone, RevisionsCount, NEW w \in Workers, RunKinds(w),
         UNCHANGED <<cpc, ccopy, granted, calm>>
  PROVE  CalmIsAlone' /\ RevisionsCount'
<1> SUFFICES ASSUME calm PROVE CalmIsAlone' /\ RevisionsCount'
  BY DEF CalmIsAlone, RevisionsCount
<1>1. /\ wpc[w] # "idle"
      /\ \/ row' = row
         \/ /\ Stored /\ row'.status \in {"rejected", "compile_failed", "evaluation_done",
                                          "pending_recompile"}
            /\ row'.candidate = row.candidate
            /\ row'.guidance = row.guidance /\ row'.revisions = row.revisions
         \/ /\ Stored /\ wpc[w] = "compiling" /\ row'.status = "pending_review"
            /\ row'.candidate = wcopy[w].guidance
            /\ row'.guidance = row.guidance /\ row'.revisions = row.revisions
  BY RunRow
<1>2. /\ \A c \in Clients : cpc[c] = "idle"
      /\ \A v \in Workers \ {w} : wpc[v] = "idle"
      /\ wpc[w] = "compiling" => wcopy[w] = row
      /\ Stored => granted = row.revisions
  BY <1>1 DEF CalmIsAlone
<1>3. \A v \in Workers \ {w} : wpc'[v] = "idle"
  BY <1>2 DEF RunKinds, Moves
<1>4. wpc'[w] \in {"evaluating", "repairWrite", "compiling"} => wcopy'[w] = row'
  BY DEF RunKinds, Moves
<1>5. Stored' => Stored
  BY <1>1 DEF Stored
<1>6. CalmIsAlone'
  BY <1>1, <1>2, <1>3, <1>4, <1>5 DEF CalmIsAlone
<1>7. RevisionsCount'
  BY <1>1, <1>2 DEF RevisionsCount
<1> QED BY <1>6, <1>7

LEMMA RunKeepsInv ==
  ASSUME IInv, NEW w \in Workers, RunStep(w)
  PROVE  IInv'
<1>0. /\ TypeOK /\ RequestsCounted /\ RequestsAccepted /\ RunsReady /\ NothingBefore
      /\ RunsCarry /\ CalmIsAlone /\ AloneIsOne /\ RevisionsCount /\ ApprovalsLeft
  BY DEF IInv
<1>1. RunKinds(w) /\ UNCHANGED <<cpc, ccopy, granted, approvals, wiki, contested, alone, calm, requests, crashes>>
  BY <1>0, RunEffect
<1>2. TypeOK'
  BY <1>0, RunTypes
<1>3. RequestsCounted'
  BY <1>0, <1>1 DEF RequestsCounted, Open
<1>4. RequestsAccepted'
  BY <1>0, <1>1 DEF RequestsAccepted, Accepts, Legal, CanRevise, CanReevaluate, CanRecompile, CanApply
<1>5. NothingBefore'
  <2>1. row.status # "absent" /\ row'.status # "absent"
    BY <1>0, <1>1, RunRow DEF NothingBefore, Quiet
  <2> QED BY <2>1 DEF NothingBefore
<1>6. AloneIsOne'
  BY <1>0, <1>1 DEF AloneIsOne
<1>7. ApprovalsLeft'
  <2>1. row'.status = "approved" => row' = row
    BY <1>0, <1>1, RunRow
  <2>2. Unwritten' = Unwritten /\ Applying' = Applying
    BY <1>1 DEF Unwritten, Applying
  <2>3. CASE row'.status = "approved"
    BY <1>0, <1>1, <2>1, <2>2, <2>3 DEF ApprovalsLeft
  <2>4. CASE row'.status # "approved"
    <3>1. /\ wiki \in Int /\ approvals \in Int /\ contested \in Int /\ crashes \in Int
          /\ Cardinality(Unwritten) \in Nat
      BY <1>0, UnwrittenCounted, ConstantTypes DEF TypeOK
    <3> QED BY <1>0, <1>1, <2>2, <2>4, <3>1 DEF ApprovalsLeft
  <2> QED BY <2>3, <2>4
<1> QED BY <1>0, <1>1, <1>2, <1>3, <1>4, <1>5, <1>6, <1>7, RunReady, RunCarries, RunAlone DEF IInv

-----------------------------------------------------------------------------
(* So does a step of a request.                                             *)

\* What a request may write into the row.
LEMMA ServeRow ==
  ASSUME TypeOK, NEW c \in Clients, ServeKinds(c)
  PROVE  /\ cpc[c] # "idle"
         /\ \/ row' = row /\ NoRunMoves
            \/ row'.status = "deleted" /\ NoRunMoves
            \/ /\ Stored /\ row'.status \in {"approved", "rejected", "applied"} /\ NoRunMoves
               /\ row'.status = "approved" => cpc[c] = "approve"
               /\ row'.status = "applied" => cpc[c] = "published"
               /\ row'.candidate = row.candidate
               /\ row'.guidance = row.guidance /\ row'.revisions = row.revisions
            \/ /\ Stored /\ row'.status = "pending_recompile" /\ Starts("repairLoad")
               /\ cpc[c] \in {"revise", "recompile"} /\ row'.candidate = row.candidate
               /\ cpc[c] = "recompile" => row'.revisions = row.revisions
            \/ /\ Stored /\ row'.status = "pending_evaluation" /\ Starts("evalLoad")
               /\ cpc[c] = "reevaluate" /\ row'.revisions = row.revisions
<1>1. row \in Rows /\ Absent \in Rows
  BY AbsentRow DEF TypeOK
<1>2. \A s \in Statuses : /\ WithStatus(s).status = s
                          /\ WithStatus(s).candidate = row.candidate
                          /\ WithStatus(s).guidance = row.guidance
                          /\ WithStatus(s).revisions = row.revisions
  BY <1>1, WithStatusType
<1>3. row' = [Absent EXCEPT !.status = "deleted"] => row'.status = "deleted"
  BY <1>1 DEF Rows
<1>4. CASE cpc[c] = "approve"
  <2>1. NoRunMoves /\ row' = IF Stored THEN WithStatus("approved") ELSE row
    BY <1>4 DEF ServeKinds
  <2> QED BY <1>2, <1>4, <2>1 DEF Statuses
<1>5. CASE cpc[c] = "reject"
  <2>1. NoRunMoves /\ row' = IF Stored THEN WithStatus("rejected") ELSE row
    BY <1>5 DEF ServeKinds
  <2> QED BY <1>2, <1>5, <2>1 DEF Statuses
<1>6. CASE cpc[c] = "published"
  <2>1. NoRunMoves /\ row' = IF Stored THEN WithStatus("applied") ELSE row
    BY <1>6 DEF ServeKinds
  <2> QED BY <1>2, <1>6, <2>1 DEF Statuses
<1>7. CASE cpc[c] = "revise"
  BY <1>7 DEF ServeKinds
<1>8. CASE cpc[c] = "reevaluate"
  BY <1>8 DEF ServeKinds
<1>9. CASE cpc[c] = "recompile"
  BY <1>2, <1>9 DEF ServeKinds, Statuses
<1>10. CASE cpc[c] = "apply"
  BY <1>10 DEF ServeKinds
<1>11. CASE cpc[c] = "delete"
  BY <1>3, <1>11 DEF ServeKinds
<1> QED BY <1>4, <1>5, <1>6, <1>7, <1>8, <1>9, <1>10, <1>11 DEF ServeKinds

LEMMA ServeReplies ==
  ASSUME NEW c \in Clients, ServeKinds(c)
  PROVE  \/ Replies(c, "idle", Absent)
         \/ cpc[c] = "apply" /\ row' = row /\ Replies(c, "published", ccopy[c])
BY DEF ServeKinds

LEMMA ServeAccepted ==
  ASSUME RequestsAccepted, NEW c \in Clients, ServeKinds(c)
  PROVE  RequestsAccepted'
<1>1. \/ cpc'[c] = "idle"
      \/ cpc[c] = "apply" /\ cpc'[c] = "published" /\ ccopy'[c] = ccopy[c]
  BY ServeReplies DEF Replies
<1>2. \A d \in Clients \ {c} : cpc'[d] = cpc[d] /\ ccopy'[d] = ccopy[d]
  BY ServeReplies DEF Replies
<1>3. cpc[c] = "apply" => CanApply(ccopy[c]) /\ ccopy[c].status \in Statuses
  BY DEF RequestsAccepted, Accepts, OpNames
<1>4. /\ cpc'[c] # "idle" => ccopy'[c].status \in Statuses
      /\ cpc'[c] \in OpNames => Accepts(cpc'[c], ccopy'[c])
      /\ cpc'[c] = "published" => CanApply(ccopy'[c])
  BY <1>1, <1>3 DEF OpNames
<1>5. \A d \in Clients \ {c} : /\ cpc'[d] # "idle" => ccopy'[d].status \in Statuses
                               /\ cpc'[d] \in OpNames => Accepts(cpc'[d], ccopy'[d])
                               /\ cpc'[d] = "published" => CanApply(ccopy'[d])
  BY <1>2 DEF RequestsAccepted
<1> QED BY <1>4, <1>5 DEF RequestsAccepted, Accepts, Legal, CanRevise, CanReevaluate,
                          CanRecompile, CanApply

\* A run that starts has loaded nothing yet.
LEMMA StartsFresh ==
  ASSUME NEW l, Starts(l)
  PROVE  \E w \in Workers : /\ wpc[w] = "idle" /\ wpc'[w] = l
                            /\ \A v \in Workers \ {w} : wpc'[v] = wpc[v] /\ wcopy'[v] = wcopy[v]
BY DEF Starts, Moves

LEMMA ServeReady ==
  ASSUME TypeOK, RunsReady, NEW c \in Clients, ServeKinds(c)
  PROVE  RunsReady'
<1>1. NoRunMoves \/ Starts("repairLoad") \/ Starts("evalLoad")
  BY ServeRow
<1>2. CASE NoRunMoves
  BY <1>2 DEF NoRunMoves, RunsReady, Legal
<1>3. CASE Starts("repairLoad") \/ Starts("evalLoad")
  <2>1. PICK w \in Workers : /\ wpc'[w] \in {"repairLoad", "evalLoad"}
                             /\ \A v \in Workers \ {w} : wpc'[v] = wpc[v] /\ wcopy'[v] = wcopy[v]
    BY <1>3, StartsFresh
  <2> QED BY <2>1 DEF RunsReady, Legal
<1> QED BY <1>1, <1>2, <1>3

LEMMA ServeCarries ==
  ASSUME TypeOK, RunsCarry, NEW c \in Clients, ServeKinds(c), UNCHANGED crashes
  PROVE  RunsCarry'
<1>1. CASE row' = row /\ NoRunMoves
  BY <1>1 DEF RunsCarry, NoRunMoves
<1>2. CASE row'.status = "pending_recompile" /\ Starts("repairLoad")
  <2>1. \E w \in Workers : wpc'[w] = "repairLoad"
    BY <1>2, StartsFresh
  <2> QED BY <1>2, <2>1 DEF RunsCarry
<1>3. CASE row'.status = "pending_evaluation" /\ Starts("evalLoad")
  <2>1. \E w \in Workers : wpc'[w] = "evalLoad"
    BY <1>3, StartsFresh
  <2> QED BY <1>3, <2>1 DEF RunsCarry
<1>4. CASE row'.status \in {"deleted", "approved", "rejected", "applied"}
  BY <1>4 DEF RunsCarry
<1> QED BY <1>1, <1>2, <1>3, <1>4, ServeRow

\* When requests are calm the copy is the row, and nothing else is under way.
LEMMA CalmCopy ==
  ASSUME TypeOK, RequestsAccepted, CalmIsAlone, calm, NEW c \in Clients, cpc[c] # "idle"
  PROVE  /\ ccopy[c] = row /\ Stored /\ granted = row.revisions
         /\ \A w \in Workers : wpc[w] = "idle"
         /\ \A d \in Clients \ {c} : cpc[d] = "idle"
BY DEF CalmIsAlone, RequestsAccepted, Stored

\* What a granted revision leaves, where the copy is the row.
LEMMA CalmRevision ==
  ASSUME TypeOK, RequestsAccepted, CalmIsAlone, calm, NEW c \in Clients, cpc[c] = "revise",
         ServeKinds(c)
  PROVE  granted' = granted + 1 /\ row'.revisions = row.revisions + 1
         /\ row.revisions < MaxRevisions
<1>0. /\ ccopy[c] = row /\ Stored /\ row \in Rows /\ requests \in Guidances
  BY CalmCopy DEF TypeOK, Guidances
<1>1. row.revisions < MaxRevisions
  BY <1>0 DEF RequestsAccepted, Accepts, CanRevise, OpNames
<1>2. row.revisions + 1 \in 0..MaxRevisions
  BY <1>0, <1>1, ConstantTypes DEF Rows
<1> DEFINE new == [row EXCEPT !.status = "pending_recompile",
                              !.guidance = requests, !.revisions = @ + 1]
<1>3. new \in Rows /\ new.revisions = row.revisions + 1
  BY <1>0, <1>2 DEF Rows, Statuses
<1>4. Flush(row, new)
  BY <1>0 DEF ServeKinds
<1> HIDE DEF new
<1>5. row' = new
  BY <1>0, <1>3, <1>4, FlushExact
<1> QED BY <1>0, <1>1, <1>3, <1>5 DEF ServeKinds

LEMMA ServeAlone ==
  ASSUME TypeOK, RequestsAccepted, CalmIsAlone, RevisionsCount, NEW c \in Clients, ServeKinds(c),
         UNCHANGED calm
  PROVE  CalmIsAlone' /\ RevisionsCount'
<1> SUFFICES ASSUME calm PROVE CalmIsAlone' /\ RevisionsCount'
  BY DEF CalmIsAlone, RevisionsCount
<1>1. /\ ccopy[c] = row /\ Stored /\ granted = row.revisions /\ granted <= MaxRevisions
      /\ \A w \in Workers : wpc[w] = "idle"
      /\ \A d \in Clients \ {c} : cpc[d] = "idle"
      /\ granted \in Int /\ MaxRevisions \in Int
  BY CalmCopy, ServeRow, ConstantTypes DEF RevisionsCount, TypeOK
<1>2. /\ cpc[c] = "approve" => row.status = "pending_review"
      /\ cpc[c] = "published" => row.status = "approved"
  <2>1. cpc[c] = "approve" => Legal(row, "approved") /\ row.status \in Statuses
    BY <1>1 DEF RequestsAccepted, Accepts, OpNames
  <2>2. cpc[c] = "published" => row.status = "approved"
    BY <1>1 DEF RequestsAccepted, CanApply
  <2> QED BY <2>1, <2>2, Table DEF Legal, Statuses
<1>3. \/ NoRunMoves
      \/ \E w \in Workers : /\ wpc'[w] \in {"repairLoad", "evalLoad"}
                            /\ \A v \in Workers \ {w} : wpc'[v] = wpc[v]
  BY ServeRow, StartsFresh
<1>4. /\ \A d \in Clients \ {c} : cpc'[d] = "idle"
      /\ \/ cpc'[c] = "idle"
         \/ cpc[c] = "apply" /\ row' = row /\ ccopy'[c] = ccopy[c] /\ cpc'[c] = "published"
  BY <1>1, ServeReplies DEF Replies
<1>5. cpc[c] = "revise" => /\ granted' = granted + 1 /\ row'.revisions = row.revisions + 1
                           /\ row.revisions < MaxRevisions
  BY CalmRevision
<1>6. cpc[c] # "revise" => granted' = granted
  BY DEF ServeKinds
<1>7. Stored' => granted' = row'.revisions
  BY <1>1, <1>5, <1>6, ServeRow DEF Stored, Statuses
<1>8. cpc[c] = "apply" => NoRunMoves
  BY DEF ServeKinds
<1>9. CalmIsAlone'
  <2>1. \A d \in Clients : cpc'[d] # "idle" =>
            /\ ccopy'[d] = row'
            /\ \A w \in Workers : wpc'[w] = "idle"
            /\ \A e \in Clients \ {d} : cpc'[e] = "idle"
    BY <1>1, <1>4, <1>8 DEF NoRunMoves
  <2>2. \A w \in Workers : wpc'[w] # "idle" => \A v \in Workers \ {w} : wpc'[v] = "idle"
    BY <1>1, <1>3 DEF NoRunMoves
  <2>3. \A w \in Workers : wpc'[w] \notin {"evaluating", "repairWrite", "compiling"}
    BY <1>1, <1>3 DEF NoRunMoves
  <2> QED BY <1>7, <2>1, <2>2, <2>3 DEF CalmIsAlone
<1>10. RevisionsCount'
  <2>1. granted' <= MaxRevisions
    BY <1>1, <1>5, <1>6
  <2>2. row'.status \in {"pending_review", "approved", "applied"} => row'.candidate = row'.guidance
    BY <1>1, <1>2, ServeRow DEF RevisionsCount
  <2> QED BY <2>1, <2>2 DEF RevisionsCount
<1> QED BY <1>9, <1>10

LEMMA ServeLeaves ==
  ASSUME AloneIsOne, NEW c \in Clients, ServeKinds(c), UNCHANGED alone
  PROVE  AloneIsOne'
<1>1. \A d \in Clients : cpc'[d] # "idle" => cpc[d] # "idle"
  BY ServeReplies DEF Replies
<1> QED BY <1>1 DEF AloneIsOne

\* An apply that writes uses an approval; one that fails leaves it to the next.
LEMMA ServeApproves ==
  ASSUME TypeOK, RequestsCounted, ApprovalsLeft, NEW c \in Clients, ServeKinds(c),
         UNCHANGED <<contested, crashes>>
  PROVE  ApprovalsLeft'
<1>1. /\ wiki \in Int /\ approvals \in Int /\ contested \in Int /\ crashes \in Int
      /\ IsFiniteSet(Unwritten) /\ Cardinality(Unwritten) \in Nat
  BY UnwrittenCounted, ConstantTypes DEF TypeOK
<1>2. /\ cpc'[c] = "idle" \/ (cpc[c] = "apply" /\ cpc'[c] = "published")
      /\ \A d \in Clients \ {c} : cpc'[d] = cpc[d]
  BY ServeReplies DEF Replies
<1>3. CASE cpc[c] = "apply"
  <2>1. Unwritten' = Unwritten \ {c} /\ c \in Unwritten /\ c \in Applying
    BY <1>2, <1>3 DEF Unwritten, Applying
  <2>2. Cardinality(Unwritten') = Cardinality(Unwritten) - 1
    BY <1>1, <2>1, FS_RemoveElement
  <2>3. \/ wiki' = wiki + 1 /\ c \in Applying'
        \/ wiki' = wiki
    BY <1>3 DEF ServeKinds, Replies, Applying
  <2>4. approvals' = approvals
    BY <1>3 DEF ServeKinds
  <2> QED BY <1>1, <2>1, <2>2, <2>3, <2>4 DEF ApprovalsLeft
<1>4. CASE cpc[c] # "apply"
  <2>1. Unwritten' = Unwritten
    BY <1>2, <1>4 DEF Unwritten
  <2>2. wiki' = wiki /\ approvals' = IF cpc[c] = "approve" THEN approvals + 1 ELSE approvals
    BY <1>4 DEF ServeKinds
  <2>3. CASE row'.status = "approved" /\ cpc[c] # "approve"
    <3>1. row' = row /\ Stored
      BY <2>3, ServeRow DEF Stored, Statuses
    <3>2. cpc[c] # "published"
      <4>1. WithStatus("applied").status = "applied"
        BY WithStatusType DEF TypeOK, Statuses
      <4> QED BY <2>3, <3>1, <4>1 DEF ServeKinds
    <3>3. Applying' = Applying
      BY <1>2, <1>4, <3>2 DEF Applying
    <3> QED BY <1>1, <2>1, <2>2, <2>3, <3>1, <3>3 DEF ApprovalsLeft
  <2>4. CASE ~(row'.status = "approved" /\ cpc[c] # "approve")
    BY <1>1, <2>1, <2>2, <2>4 DEF ApprovalsLeft
  <2> QED BY <2>3, <2>4
<1> QED BY <1>3, <1>4

LEMMA ServeKeepsInv ==
  ASSUME IInv, NEW c \in Clients, Serve(c)
  PROVE  IInv'
<1>0. /\ TypeOK /\ RequestsCounted /\ RequestsAccepted /\ RunsReady /\ NothingBefore
      /\ RunsCarry /\ CalmIsAlone /\ AloneIsOne /\ RevisionsCount /\ ApprovalsLeft
  BY DEF IInv
<1>1. ServeKinds(c) /\ UNCHANGED <<contested, alone, calm, requests, crashes>>
  BY <1>0, ServeEffect
<1>2. TypeOK' /\ RequestsCounted'
  BY <1>0, ServeTypes, ServeCounts
<1>3. NothingBefore'
  <2>1. row.status # "absent"
    BY <1>0, <1>1, ServeRow DEF NothingBefore, Quiet, NobodyAsks
  <2>2. row'.status # "absent"
    BY <1>0, <1>1, <2>1, ServeRow
  <2> QED BY <2>2 DEF NothingBefore
<1> QED BY <1>0, <1>1, <1>2, <1>3, ServeAccepted, ServeReady, ServeCarries, ServeAlone, ServeLeaves, ServeApproves DEF IInv

-----------------------------------------------------------------------------
(* And a request that arrives, a task that is created, a crash.             *)

LEMMA ArriveKeepsInv ==
  ASSUME IInv, NEW c \in Clients, ReadTask(c)
  PROVE  IInv'
<1>0. /\ TypeOK /\ RequestsCounted /\ RequestsAccepted /\ RunsReady /\ NothingBefore
      /\ RunsCarry /\ CalmIsAlone /\ AloneIsOne /\ RevisionsCount /\ ApprovalsLeft
  BY DEF IInv
<1>1. /\ Stored /\ cpc[c] = "idle" /\ cpc'[c] \in OpNames /\ Accepts(cpc'[c], row)
      /\ Replies(c, cpc'[c], row)
      /\ UNCHANGED <<row, wpc, wcopy, granted, approvals, wiki, crashes>>
  BY <1>0, ArriveEffect
<1>2. /\ calm' = (calm /\ Quiet) /\ alone' = (alone /\ NobodyAsks)
      /\ contested' = IF cpc'[c] = "apply" /\ Applying # {} THEN contested + 1 ELSE contested
  BY <1>0, ArriveEffect
<1>3. /\ ccopy'[c] = row
      /\ \A d \in Clients \ {c} : cpc'[d] = cpc[d] /\ ccopy'[d] = ccopy[d]
  BY <1>1 DEF Replies
<1>4. TypeOK' /\ RequestsCounted'
  BY <1>0, ArriveTypes
<1>5. RequestsAccepted'
  <2>1. /\ ccopy'[c].status \in Statuses /\ Accepts(cpc'[c], ccopy'[c])
        /\ cpc'[c] # "published"
    BY <1>1, <1>3 DEF Stored, OpNames
  <2>2. \A d \in Clients \ {c} : /\ cpc'[d] # "idle" => ccopy'[d].status \in Statuses
                                 /\ cpc'[d] \in OpNames => Accepts(cpc'[d], ccopy'[d])
                                 /\ cpc'[d] = "published" => CanApply(ccopy'[d])
    BY <1>0, <1>3 DEF RequestsAccepted
  <2> QED BY <2>1, <2>2 DEF RequestsAccepted, Accepts, Legal, CanRevise, CanReevaluate,
                            CanRecompile, CanApply
<1>6. RunsReady' /\ RunsCarry' /\ NothingBefore'
  BY <1>0, <1>1 DEF RunsReady, RunsCarry, NothingBefore, Stored, Statuses, Legal
<1>7. CalmIsAlone'
  <2> SUFFICES ASSUME calm' PROVE CalmIsAlone'
    BY DEF CalmIsAlone
  <2>1. calm /\ Quiet
    BY <1>2, Zenon
  <2> QED BY <1>0, <1>1, <1>3, <2>1 DEF CalmIsAlone, Quiet, NobodyAsks, Stored
<1>8. RevisionsCount'
  <2>1. calm' => calm
    BY <1>2, Zenon
  <2> QED BY <1>0, <1>1, <2>1 DEF RevisionsCount
<1>9. AloneIsOne'
  <2> SUFFICES ASSUME alone' PROVE \A d, e \in Clients : cpc'[d] # "idle" /\ cpc'[e] # "idle" => d = e
    BY DEF AloneIsOne
  <2>1. NobodyAsks
    BY <1>2, Zenon
  <2> QED BY <1>3, <2>1 DEF NobodyAsks
<1>10. ApprovalsLeft'
  <2>1. /\ wiki \in Int /\ approvals \in Int /\ contested \in Int /\ crashes \in Int
        /\ IsFiniteSet(Unwritten) /\ Cardinality(Unwritten) \in Nat
    BY <1>0, UnwrittenCounted, ConstantTypes DEF TypeOK
  <2>2. CASE cpc'[c] = "apply"
    <3>1. Unwritten' = Unwritten \cup {c} /\ c \notin Unwritten /\ c \in Applying'
      BY <1>1, <1>3, <2>2 DEF Unwritten, Applying
    <3>2. Cardinality(Unwritten') = Cardinality(Unwritten) + 1
      BY <2>1, <3>1, FS_AddElement
    <3>3. row.status = "approved"
      BY <1>1, <2>2 DEF Accepts, CanApply
    <3> QED BY <1>0, <1>1, <1>2, <2>1, <2>2, <3>1, <3>2, <3>3 DEF ApprovalsLeft
  <2>3. CASE cpc'[c] # "apply"
    <3>1. Unwritten' = Unwritten /\ Applying' = Applying /\ contested' = contested
      BY <1>1, <1>2, <1>3, <2>3 DEF Unwritten, Applying, OpNames
    <3> QED BY <1>0, <1>1, <3>1 DEF ApprovalsLeft
  <2> QED BY <2>2, <2>3
<1> QED BY <1>4, <1>5, <1>6, <1>7, <1>8, <1>9, <1>10 DEF IInv

LEMMA CreateKeepsInv ==
  ASSUME IInv, CreateTask
  PROVE  IInv'
<1>0. /\ TypeOK /\ RequestsCounted /\ RequestsAccepted /\ RunsReady /\ NothingBefore
      /\ RevisionsCount /\ ApprovalsLeft
  BY DEF IInv
<1>1. /\ row.status = "absent" /\ row' = NewRow
      /\ UNCHANGED <<cpc, ccopy, granted, approvals, wiki, contested, alone, calm, requests, crashes>>
      /\ Starts("evalLoad")
  BY <1>0, SpawnStarts DEF CreateTask, RunFrame, clientVars, histories, counts, RunPcs
<1>2. Quiet /\ granted = 0
  BY <1>0, <1>1 DEF NothingBefore
<1>3. PICK w \in Workers : Moves(w, "evalLoad", Absent)
  BY <1>1 DEF Starts
<1>4. /\ row'.status = "pending_evaluation" /\ row'.candidate = None
      /\ row'.guidance = 0 /\ row'.revisions = 0 /\ row' \in Rows
  BY <1>1, AbsentRow DEF NewRow
<1>5. TypeOK'
  BY <1>0, <1>1, <1>3, <1>4 DEF TypeOK, Moves
<1>6. RequestsCounted'
  BY <1>0, <1>1 DEF RequestsCounted, Open
<1>7. RequestsAccepted'
  BY <1>0, <1>1 DEF RequestsAccepted, Accepts, Legal, CanRevise, CanReevaluate, CanRecompile, CanApply
<1>8. RunsReady' /\ RunsCarry' /\ NothingBefore'
  BY <1>0, <1>3, <1>4 DEF RunsReady, RunsCarry, NothingBefore, Moves, Legal
<1>9. CalmIsAlone'
  BY <1>1, <1>2, <1>3, <1>4 DEF CalmIsAlone, Quiet, NobodyAsks, Moves
<1>10. RevisionsCount' /\ AloneIsOne'
  BY <1>0, <1>1, <1>2, <1>4 DEF RevisionsCount, AloneIsOne, Quiet, NobodyAsks
<1>11. ApprovalsLeft'
  <2>1. Unwritten' = Unwritten /\ row.status # "approved" /\ row'.status # "approved"
    BY <1>1, <1>4 DEF Unwritten
  <2> QED BY <1>0, <1>1, <2>1 DEF ApprovalsLeft
<1> QED BY <1>5, <1>6, <1>7, <1>8, <1>9, <1>10, <1>11 DEF IInv

LEMMA CrashKeepsInv ==
  ASSUME IInv, Crash
  PROVE  IInv'
<1>0. /\ TypeOK /\ RequestsCounted /\ NothingBefore /\ CalmIsAlone /\ RevisionsCount /\ ApprovalsLeft
  BY DEF IInv
<1>1. /\ UNCHANGED <<row, granted, approvals, wiki, contested, alone, calm, requests>> /\ crashes' = crashes + 1
      /\ crashes < MaxCrashes
      /\ \A w \in Workers : wpc'[w] = "idle"
      /\ \A c \in Clients : cpc'[c] = "idle"
  BY DEF Crash, histories, counts
<1>2. crashes \in Nat /\ crashes' \in 0..MaxCrashes /\ crashes' # 0
  BY <1>0, <1>1, ConstantTypes DEF TypeOK
<1>3. /\ wpc' \in [Workers -> RunPcs] /\ wcopy' \in [Workers -> Rows]
      /\ cpc' \in [Clients -> ClientPcs] /\ ccopy' \in [Clients -> Rows]
  BY AbsentRow DEF Crash, RunPcs, ClientPcs
<1>4. TypeOK'
  BY <1>0, <1>1, <1>2, <1>3 DEF TypeOK, ClientPcs
<1>5. RequestsCounted'
  <2>1. Open' = {}
    BY <1>1 DEF Open
  <2>2. IsFiniteSet(Open') /\ Cardinality(Open') = 0
    BY <2>1, FS_EmptySet
  <2>3. Cardinality(Open) \in Nat /\ granted + approvals + wiki + Cardinality(Open) <= requests
    BY <1>0, FS_CardinalityType DEF RequestsCounted
  <2>4. granted \in Nat /\ approvals \in Nat /\ wiki \in Nat /\ requests \in Nat
    BY <1>0, ConstantTypes DEF TypeOK
  <2> QED BY <1>0, <1>1, <2>2, <2>3, <2>4 DEF RequestsCounted
<1>6. RequestsAccepted' /\ RunsReady' /\ RunsCarry' /\ NothingBefore'
  BY <1>0, <1>1, <1>2 DEF RequestsAccepted, RunsReady, RunsCarry, NothingBefore, Quiet, NobodyAsks, OpNames
<1>7. CalmIsAlone' /\ RevisionsCount'
  BY <1>0, <1>1 DEF CalmIsAlone, RevisionsCount, Stored
<1>8. AloneIsOne'
  BY <1>1 DEF AloneIsOne
<1>9. ApprovalsLeft'
  <2>1. /\ wiki \in Int /\ approvals \in Int /\ contested \in Int /\ crashes \in Int
        /\ IsFiniteSet(Unwritten) /\ Cardinality(Unwritten) \in Nat
    BY <1>0, UnwrittenCounted, ConstantTypes DEF TypeOK
  <2>2. Unwritten' = {}
    BY <1>1 DEF Unwritten
  <2>3. Cardinality(Unwritten') = 0
    BY <2>2, FS_EmptySet
  <2> QED BY <1>0, <1>1, <2>1, <2>3 DEF ApprovalsLeft
<1> QED BY <1>4, <1>5, <1>6, <1>7, <1>8, <1>9 DEF IInv

LEMMA StutterKeepsInv ==
  ASSUME IInv, UNCHANGED vars
  PROVE  IInv'
<1>1. /\ UNCHANGED <<row, wpc, wcopy, cpc, ccopy, granted, approvals, wiki, contested, requests, crashes>>
      /\ UNCHANGED <<alone, calm>>
  BY DEF vars, runVars, clientVars, histories, counts
<1>2. TypeOK' /\ RequestsCounted' /\ NothingBefore' /\ CalmIsAlone' /\ AloneIsOne' /\ RevisionsCount'
  BY <1>1 DEF IInv, TypeOK, RequestsCounted, Open, NothingBefore, Quiet, NobodyAsks, CalmIsAlone,
              AloneIsOne, Stored, RevisionsCount
<1>3. RequestsAccepted' /\ RunsReady' /\ RunsCarry'
  BY <1>1 DEF IInv, RequestsAccepted, Accepts, Legal, CanRevise, CanReevaluate, CanRecompile,
              CanApply, RunsReady, RunsCarry
<1>4. ApprovalsLeft'
  BY <1>1 DEF IInv, ApprovalsLeft, Unwritten, Applying
<1> QED BY <1>2, <1>3, <1>4 DEF IInv

LEMMA InitInv == Init => IInv
<1> SUFFICES ASSUME Init PROVE IInv
  OBVIOUS
<1>1. /\ row = Absent /\ row \in Rows /\ row.status = "absent"
      /\ \A w \in Workers : wpc[w] = "idle"
      /\ \A c \in Clients : cpc[c] = "idle"
      /\ granted = 0 /\ approvals = 0 /\ wiki = 0 /\ contested = 0 /\ requests = 0 /\ crashes = 0
  BY AbsentRow DEF Init
<1>2. /\ wpc \in [Workers -> RunPcs] /\ wcopy \in [Workers -> Rows]
      /\ cpc \in [Clients -> ClientPcs] /\ ccopy \in [Clients -> Rows]
  BY AbsentRow DEF Init, RunPcs, ClientPcs
<1>3. calm \in BOOLEAN /\ alone \in BOOLEAN
  BY DEF Init
<1>4. TypeOK
  BY <1>1, <1>2, <1>3, ConstantTypes DEF TypeOK, ClientPcs
<1>5. RequestsCounted
  <2>1. Open = {}
    BY <1>1 DEF Open
  <2> QED BY <1>1, <2>1, FS_EmptySet DEF RequestsCounted
<1>6. RequestsAccepted /\ RunsReady /\ RunsCarry /\ NothingBefore
  BY <1>1 DEF RequestsAccepted, RunsReady, RunsCarry, NothingBefore, Quiet, NobodyAsks, OpNames
<1>7. CalmIsAlone /\ AloneIsOne /\ RevisionsCount
  BY <1>1, ConstantTypes DEF CalmIsAlone, AloneIsOne, RevisionsCount, Stored, Statuses
<1>8. ApprovalsLeft
  <2>1. Unwritten = {}
    BY <1>1 DEF Unwritten
  <2>2. Cardinality(Unwritten) = 0
    BY <2>1, FS_EmptySet
  <2> QED BY <1>1, <2>2 DEF ApprovalsLeft
<1> QED BY <1>4, <1>5, <1>6, <1>7, <1>8 DEF IInv

-----------------------------------------------------------------------------
(* As long as reviewers do not overlap, what is put to review has a candidate. *)

LEMMA CarriedFollows == ASSUME RunsCarry PROVE Carried
BY Table DEF RunsCarry, Carried, Legal

Reviewable == {"pending_review", "approved", "applied"}

LEMMA RunKeepsCandidate ==
  ASSUME IInv, ReviewableHasCandidate, CandidateStays, NEW w \in Workers, RunStep(w)
  PROVE  ReviewableHasCandidate' /\ CandidateStays'
<1>1. RunKinds(w) /\ UNCHANGED <<cpc, ccopy, granted, approvals, wiki, contested, alone, calm, requests, crashes>>
  BY RunEffect DEF IInv
<1>2. wcopy[w].guidance # None
  BY ConstantTypes DEF IInv, TypeOK, Rows, Guidances
<1>3. /\ row'.candidate = row.candidate \/ row'.candidate # None
      /\ row'.status \in Reviewable => row' = row \/ row'.candidate # None
  BY <1>1, <1>2, RunRow DEF IInv, Reviewable
<1> QED BY <1>1, <1>3 DEF ReviewableHasCandidate, CandidateStays, Reviewable

LEMMA ServeKeepsCandidate ==
  ASSUME IInv, ReviewableHasCandidate, CandidateStays, NEW c \in Clients, Serve(c)
  PROVE  ReviewableHasCandidate' /\ CandidateStays'
<1>1. ServeKinds(c) /\ UNCHANGED alone
  BY ServeEffect DEF IInv
<1> SUFFICES ASSUME alone PROVE ReviewableHasCandidate' /\ CandidateStays'
  BY <1>1 DEF ReviewableHasCandidate, CandidateStays
<1>2. cpc[c] \in {"approve", "apply", "published"} => row.candidate # None
  BY DEF CandidateStays
<1>3. row'.status \in Reviewable => row' = row \/ row'.candidate # None
  BY <1>1, <1>2, ServeRow DEF IInv, Reviewable
<1>4. ReviewableHasCandidate'
  BY <1>3 DEF ReviewableHasCandidate, Reviewable
<1>5. \A d \in Clients \ {c} : cpc'[d] = "idle"
  <2>1. cpc[c] # "idle"
    BY <1>1, ServeRow DEF IInv
  <2> QED BY <1>1, <2>1, ServeReplies DEF IInv, AloneIsOne, Replies
<1>6. \/ cpc'[c] = "idle"
      \/ cpc'[c] = "published" /\ row'.candidate # None
  <2>1. CASE Replies(c, "idle", Absent)
    BY <2>1 DEF Replies
  <2>2. CASE cpc[c] = "apply" /\ row' = row /\ Replies(c, "published", ccopy[c])
    BY <1>2, <2>2 DEF Replies
  <2> QED BY <1>1, <2>1, <2>2, ServeReplies
<1>7. CandidateStays'
  BY <1>5, <1>6 DEF CandidateStays
<1> QED BY <1>4, <1>7

LEMMA ArriveKeepsCandidate ==
  ASSUME IInv, ReviewableHasCandidate, CandidateStays, NEW c \in Clients, ReadTask(c)
  PROVE  ReviewableHasCandidate' /\ CandidateStays'
<1>1. /\ Stored /\ cpc'[c] \in OpNames /\ Accepts(cpc'[c], row) /\ row' = row
      /\ \A d \in Clients \ {c} : cpc'[d] = cpc[d]
      /\ alone' = (alone /\ NobodyAsks)
  BY ArriveEffect DEF IInv, Replies
<1>0. alone' => alone
  BY <1>1, Zenon
<1> SUFFICES ASSUME alone PROVE ReviewableHasCandidate' /\ CandidateStays'
  BY <1>0 DEF ReviewableHasCandidate, CandidateStays
<1>2. cpc'[c] = "approve" => row.status = "pending_review"
  BY <1>1, Table DEF Accepts, Legal, Stored, Statuses
<1>3. cpc'[c] = "apply" => row.candidate # None
  BY <1>1 DEF Accepts, CanApply
<1>4. cpc'[c] \in {"approve", "apply", "published"} => row.candidate # None
  BY <1>1, <1>2, <1>3 DEF ReviewableHasCandidate, OpNames
<1> QED BY <1>1, <1>4 DEF ReviewableHasCandidate, CandidateStays

LEMMA OtherKeepsCandidate ==
  ASSUME IInv, ReviewableHasCandidate, CandidateStays, CreateTask \/ Crash \/ UNCHANGED vars
  PROVE  ReviewableHasCandidate' /\ CandidateStays'
<1>1. CASE CreateTask
  <2>1. row.status = "absent" /\ row'.status = "pending_evaluation" /\ cpc' = cpc
    BY <1>1 DEF CreateTask, NewRow, RunFrame, clientVars, histories, counts
  <2>2. \A c \in Clients : cpc[c] = "idle"
    BY <2>1 DEF IInv, NothingBefore, Quiet, NobodyAsks
  <2> QED BY <2>1, <2>2 DEF ReviewableHasCandidate, CandidateStays
<1>2. CASE Crash
  BY <1>2 DEF Crash, histories, ReviewableHasCandidate, CandidateStays
<1>3. CASE UNCHANGED vars
  BY <1>3 DEF vars, clientVars, histories, ReviewableHasCandidate, CandidateStays
<1> QED BY <1>1, <1>2, <1>3

-----------------------------------------------------------------------------
(* What a step of a calm history does.                                      *)

LEMMA CalmRunLegal ==
  ASSUME IInv, calm, NEW w \in Workers, RunStep(w), row'.status # row.status
  PROVE  row'.status \in Transitions[row.status]
<1>1. RunKinds(w) /\ row \in Rows
  BY RunEffect DEF IInv, TypeOK
<1>2. /\ wpc[w] \in {"evaluating", "repairWrite", "compiling"} => wcopy[w] = row
      /\ wpc[w] = "repairWrite" => Legal(wcopy[w], "pending_recompile")
  BY DEF IInv, CalmIsAlone, RunsReady
<1>3. \A s \in Statuses : WithStatus(s).status = s
  BY <1>1, WithStatusType
<1>4. row' = [row EXCEPT !.status = "pending_review", !.candidate = wcopy[w].guidance] =>
         row'.status = "pending_review"
  BY <1>1 DEF Rows
<1>5. Legal(row, row'.status)
  BY <1>1, <1>2, <1>3, <1>4 DEF RunKinds, Statuses
<1> QED BY <1>5 DEF Legal

LEMMA CalmServeLegal ==
  ASSUME IInv, calm, NEW c \in Clients, Serve(c), row'.status # row.status, Stored'
  PROVE  row'.status \in Transitions[row.status]
<1>1. ServeKinds(c) /\ row \in Rows /\ row' \in Rows
  BY ServeEffect, ServeTypes DEF IInv, TypeOK
<1>2. cpc[c] # "idle"
  BY <1>1, ServeRow DEF IInv
<1>3. ccopy[c] = row /\ row.status \in Statuses
  BY <1>2, CalmCopy DEF IInv, Stored
<1>4. /\ cpc[c] \in OpNames => Accepts(cpc[c], row)
      /\ cpc[c] = "published" => CanApply(row)
  BY <1>3 DEF IInv, RequestsAccepted
<1>5. \A s \in Statuses : WithStatus(s).status = s
  BY <1>1, WithStatusType
<1>6. CASE cpc[c] = "approve"
  <2>1. row'.status = "approved"
    BY <1>1, <1>5, <1>6 DEF ServeKinds, Statuses
  <2> QED BY <1>4, <1>6, <2>1 DEF Accepts, OpNames, Legal
<1>7. CASE cpc[c] = "reject"
  <2>1. row'.status = "rejected"
    BY <1>1, <1>5, <1>7 DEF ServeKinds, Statuses
  <2> QED BY <1>4, <1>7, <2>1 DEF Accepts, OpNames, Legal
<1>8. CASE cpc[c] = "published"
  <2>1. row'.status = "applied" /\ row.status = "approved"
    BY <1>1, <1>4, <1>5, <1>8 DEF ServeKinds, Statuses, CanApply
  <2> QED BY <2>1, Table
<1>9. CASE cpc[c] = "revise"
  <2>1. row'.status = "pending_recompile"
    BY <1>1, <1>9 DEF ServeKinds
  <2> QED BY <1>4, <1>9, <2>1 DEF Accepts, OpNames, CanRevise, Legal
<1>10. CASE cpc[c] = "reevaluate"
  <2>1. row'.status = "pending_evaluation"
    BY <1>1, <1>10 DEF ServeKinds
  <2> QED BY <1>4, <1>10, <2>1, Table DEF Accepts, OpNames, CanReevaluate
<1>11. CASE cpc[c] = "recompile"
  <2>1. row'.status = "pending_recompile"
    BY <1>1, <1>5, <1>11 DEF ServeKinds, Statuses
  <2> QED BY <1>4, <1>11, <2>1, Table DEF Accepts, OpNames, CanRecompile
<1>12. CASE cpc[c] = "apply"
  BY <1>1, <1>12 DEF ServeKinds
<1>13. CASE cpc[c] = "delete"
  <2>1. row'.status = "deleted"
    BY <1>1, <1>13, AbsentRow DEF ServeKinds, Rows
  <2> QED BY <2>1 DEF Stored, Statuses
<1> QED BY <1>1, <1>6, <1>7, <1>8, <1>9, <1>10, <1>11, <1>12, <1>13 DEF ServeKinds

LEMMA CalmStepLegal ==
  ASSUME IInv, [Next]_vars
  PROVE  calm' /\ Stored /\ Stored' /\ row'.status # row.status
            => row'.status \in Transitions[row.status]
<1> SUFFICES ASSUME calm', Stored, Stored', row'.status # row.status
             PROVE  row'.status \in Transitions[row.status]
  OBVIOUS
<1>1. CASE CreateTask
  BY <1>1 DEF CreateTask, Stored, Statuses
<1>2. CASE \E w \in Workers : RunStep(w)
  <2>1. PICK w \in Workers : RunStep(w)
    BY <1>2
  <2>2. calm
    BY <2>1, RunEffect DEF IInv
  <2> QED BY <2>1, <2>2, CalmRunLegal
<1>3. CASE \E c \in Clients : ReadTask(c)
  BY <1>3 DEF ReadTask
<1>4. CASE \E c \in Clients : Serve(c)
  <2>1. PICK c \in Clients : Serve(c)
    BY <1>4
  <2>2. calm
    BY <2>1, ServeEffect DEF IInv
  <2> QED BY <2>1, <2>2, CalmServeLegal
<1>5. CASE Crash \/ UNCHANGED vars
  BY <1>5 DEF Crash, vars
<1> QED BY <1>1, <1>2, <1>3, <1>4, <1>5 DEF Next

-----------------------------------------------------------------------------
(* The theorems.                                                            *)

\* Every step of a run, a request or a crash preserves the inductive invariant.
THEOREM InductiveInvariant == Spec => []IInv
<1>1. IInv /\ [Next]_vars => IInv'
  <2> SUFFICES ASSUME IInv, [Next]_vars PROVE IInv'
    OBVIOUS
  <2>1. CASE CreateTask
    BY <2>1, CreateKeepsInv
  <2>2. CASE \E w \in Workers : RunStep(w)
    BY <2>2, RunKeepsInv
  <2>3. CASE \E c \in Clients : ReadTask(c) \/ Serve(c)
    BY <2>3, ArriveKeepsInv, ServeKeepsInv
  <2>4. CASE Crash
    BY <2>4, CrashKeepsInv
  <2>5. CASE UNCHANGED vars
    BY <2>5, StutterKeepsInv
  <2> QED BY <2>1, <2>2, <2>3, <2>4, <2>5 DEF Next
<1> QED BY <1>1, InitInv, PTL DEF Spec

\* A row that waits for the evaluator or the compiler has a run that can move it
\* on, however many reviewers rewrite the row meanwhile (feedback/queue.py:85-190).
THEOREM WaitingIsCarried == Spec => []Carried
<1>1. IInv => Carried
  BY CarriedFollows DEF IInv
<1> QED BY <1>1, InductiveInvariant, PTL

\* When requests are calm, what is under review was compiled with the guidance of
\* the last revision, and no more than feedback.max_revisions are granted.
THEOREM RevisionsLimited == Spec => []RevisionsCount
<1>1. IInv => RevisionsCount
  BY DEF IInv
<1> QED BY <1>1, InductiveInvariant, PTL

\* When requests are calm, the stored status moves along _TRANSITIONS only.
THEOREM StatusMovesLegally == Spec => LegalHistory
<1>1. IInv /\ [Next]_vars =>
        [calm' /\ Stored /\ Stored' /\ row'.status # row.status
           => row'.status \in Transitions[row.status]]_vars
  BY CalmStepLegal
<1> QED BY <1>1, InductiveInvariant, PTL DEF Spec, LegalHistory

\* One approval lets one apply write to the wiki, for any number of reviewers and runs
\* that overwrite each other: one more for each apply that came while another was under
\* way, and for each death of the process between the write and mark_applied.
THEOREM ApprovalsAreSpent == Spec => []AppliedOnce
<1>1. IInv => AppliedOnce
  <2> SUFFICES ASSUME IInv PROVE AppliedOnce
    OBVIOUS
  <2>1. /\ wiki \in Int /\ approvals \in Int /\ contested \in Int /\ crashes \in Int
        /\ Cardinality(Unwritten) \in Nat
    BY UnwrittenCounted, ConstantTypes DEF IInv, TypeOK
  <2> QED BY <2>1 DEF IInv, ApprovalsLeft, AppliedOnce
<1> QED BY <1>1, InductiveInvariant, PTL

\* As long as reviewers do not overlap, what is put to review, approved or applied has
\* a candidate, whatever older runs still write.
THEOREM ReviewedHasCandidate == Spec => []Inv
<1> DEFINE J == ReviewableHasCandidate /\ CandidateStays
<1>1. Init => J
  BY DEF Init, Absent, NewRow, ReviewableHasCandidate, CandidateStays
<1>2. IInv /\ J /\ [Next]_vars => J'
  <2> SUFFICES ASSUME IInv, J, [Next]_vars PROVE J'
    OBVIOUS
  <2>1. CASE CreateTask \/ Crash \/ UNCHANGED vars
    BY <2>1, OtherKeepsCandidate
  <2>2. CASE \E w \in Workers : RunStep(w)
    BY <2>2, RunKeepsCandidate
  <2>3. CASE \E c \in Clients : ReadTask(c) \/ Serve(c)
    BY <2>3, ArriveKeepsCandidate, ServeKeepsCandidate
  <2> QED BY <2>1, <2>2, <2>3 DEF Next
<1>3. IInv /\ J => Inv
  BY CarriedFollows DEF IInv, Inv
<1> HIDE DEF J
<1> QED BY <1>1, <1>2, <1>3, InductiveInvariant, PTL DEF Spec

=============================================================================
