---------------------------- MODULE FeedbackTask ----------------------------
(***************************************************************************)
(* One feedback task of app/feedback: its row, the runs of the evaluator   *)
(* and the compiler (queue.py) and the reviewers' requests (router.py).    *)
(* Tasks do not touch each other's rows.                                   *)
(*                                                                         *)
(* Every run and every request loads the row into a session of its own and *)
(* works on that copy (expire_on_commit=False, database.py:45): the status *)
(* check of transition_status is made on the copy, and a commit writes the *)
(* attributes in which the copy was changed, whatever the row holds then.  *)
(***************************************************************************)
EXTENDS Integers, FiniteSets

CONSTANTS
    Workers,      \* background runs: create_task of an evaluation or a repair
    Clients,      \* requests of reviewers that are under way at once
    Ops,          \* the endpoints that are called
    None,         \* no repair candidate
    MaxRevisions, \* feedback.max_revisions
    MaxRequests,  \* bound: requests served
    MaxCrashes    \* bound: process deaths

OpNames == {"approve", "reject", "revise", "reevaluate", "recompile", "apply", "delete"}

ASSUME FeedbackAssumption ==
    /\ Ops \subseteq OpNames
    /\ MaxRevisions \in Nat /\ MaxRequests \in Nat /\ MaxCrashes \in Nat
    /\ None \notin Nat

VARIABLES
    row,     \* the row of feedback_tasks
    wpc,     \* where each run is
    wcopy,   \* its copy of the row
    cpc,     \* the request each client has sent
    ccopy,   \* its copy of the row
    granted, \* history: revisions that were granted
    approvals,  \* history: approve requests that ended
    wiki,       \* history: how often the candidate was written to the wiki
    contested,  \* history: apply requests that came while another was under way
    alone,   \* history: every request came while no other was under way
    calm,    \* history: ... and no run either
    requests, crashes

runVars == <<wpc, wcopy>>
clientVars == <<cpc, ccopy>>
counts == <<granted, approvals, wiki>>
histories == <<counts, contested, alone, calm>>
vars == <<row, runVars, clientVars, histories, requests, crashes>>

Statuses == {"pending_evaluation", "evaluation_done", "pending_review", "pending_recompile",
             "approved", "rejected", "applied", "compile_failed"}
Guidances == 0..MaxRequests     \* 0: none; else the request that gave it
\* The candidate is known by the guidance it was compiled with.
Rows == [status : Statuses \cup {"absent", "deleted"}, candidate : Guidances \cup {None},
         guidance : Guidances, revisions : 0..MaxRevisions]

NewRow == [status |-> "pending_evaluation", candidate |-> None, guidance |-> 0, revisions |-> 0]
Absent == [NewRow EXCEPT !.status = "absent"]
Stored == row.status \in Statuses

Transitions == [s \in Statuses |->
    CASE s = "pending_evaluation" -> {"evaluation_done", "rejected", "compile_failed"}
      [] s = "evaluation_done" -> {"pending_evaluation", "pending_review", "pending_recompile"}
      [] s = "pending_review" ->
            {"pending_evaluation", "approved", "rejected", "pending_recompile"}
      [] s = "pending_recompile" -> {"pending_evaluation", "pending_review", "compile_failed"}
      [] s = "approved" -> {"applied"}
      [] s = "rejected" -> {"pending_evaluation", "pending_recompile"}
      [] s = "compile_failed" -> {"pending_evaluation", "pending_recompile", "rejected"}
      [] s = "applied" -> {}]

\* transition_status raises ValueError unless:
Legal(copy, s) == s \in Transitions[copy.status]

\* The UPDATE of a commit; one that finds no row raises.
Flush(copy, new) ==
    row' = [f \in DOMAIN row |-> IF Stored /\ new[f] # copy[f] THEN new[f] ELSE row[f]]

Init ==
    /\ row = Absent
    /\ wpc = [w \in Workers |-> "idle"]
    /\ wcopy = [w \in Workers |-> Absent]
    /\ cpc = [c \in Clients |-> "idle"]
    /\ ccopy = [c \in Clients |-> Absent]
    /\ granted = 0 /\ approvals = 0 /\ wiki = 0 /\ contested = 0 /\ alone = TRUE /\ calm = TRUE
    /\ requests = 0 /\ crashes = 0

-----------------------------------------------------------------------------
(* Background runs.                                                         *)

RunGoes(w, l, copy) ==
    /\ wpc' = [wpc EXCEPT ![w] = l]
    /\ wcopy' = [wcopy EXCEPT ![w] = copy]
EndRun(w) == RunGoes(w, "idle", Absent)
Spawn(l) == \E w \in Workers : wpc[w] = "idle" /\ RunGoes(w, l, Absent)
RunFrame == UNCHANGED <<clientVars, histories, requests, crashes>>

\* maybe_trigger_feedback: create_feedback_task, then the evaluation.
CreateTask ==
    /\ row.status = "absent"
    /\ row' = NewRow
    /\ Spawn("evalLoad")
    /\ RunFrame

LoadForEvaluation(w) ==
    /\ wpc[w] = "evalLoad"
    /\ IF Stored THEN RunGoes(w, "evaluating", row) ELSE EndRun(w)
    /\ UNCHANGED row /\ RunFrame

\* The run leaves its copy in status s, or dies of an illegal transition.
Settle(w, s) ==
    /\ IF Legal(wcopy[w], s) THEN Flush(wcopy[w], [wcopy[w] EXCEPT !.status = s])
                             ELSE UNCHANGED row
    /\ EndRun(w)

\* Mutant of Evaluate: an evaluator that raises leaves the row as it is.
EvaluateKeepsOnError(w) ==
    /\ wpc[w] = "evaluating"
    /\ \/ Settle(w, "rejected")
       \/ EndRun(w) /\ UNCHANGED row
       \/ /\ Stored /\ Legal(wcopy[w], "evaluation_done")
          /\ Flush(wcopy[w], [wcopy[w] EXCEPT !.status = "evaluation_done"])
          /\ RunGoes(w, "repairLoad", Absent)
    /\ RunFrame

\* run_evaluator: no repair needed, an exception, or a repair needed.
Evaluate(w) ==
    /\ wpc[w] = "evaluating"
    /\ \/ Settle(w, "rejected")
       \/ Settle(w, "compile_failed")
       \/ /\ Stored /\ Legal(wcopy[w], "evaluation_done")
          /\ Flush(wcopy[w], [wcopy[w] EXCEPT !.status = "evaluation_done"])
          /\ RunGoes(w, "repairLoad", Absent)
    /\ RunFrame

LoadForRepair(w) ==
    /\ wpc[w] = "repairLoad"
    /\ IF ~Stored THEN EndRun(w)
       ELSE IF row.status = "pending_recompile" THEN RunGoes(w, "compiling", row)
       ELSE IF Legal(row, "pending_recompile") THEN RunGoes(w, "repairWrite", row)
       ELSE EndRun(w)
    /\ UNCHANGED row /\ RunFrame

MarkRecompiling(w) ==
    /\ wpc[w] = "repairWrite"
    /\ Flush(wcopy[w], [wcopy[w] EXCEPT !.status = "pending_recompile"])
    /\ IF Stored THEN RunGoes(w, "refresh", wcopy[w]) ELSE EndRun(w)
    /\ RunFrame

\* db.refresh raises when the row is gone.
RefreshRow(w) ==
    /\ wpc[w] = "refresh"
    /\ IF Stored THEN RunGoes(w, "compiling", row) ELSE EndRun(w)
    /\ UNCHANGED row /\ RunFrame

\* Mutant of Compile: a run that finds its copy moved on says nothing.
CompileDropsFailure(w) ==
    /\ wpc[w] = "compiling"
    /\ \/ EndRun(w) /\ UNCHANGED row
       \/ /\ IF Stored /\ Legal(wcopy[w], "pending_review")
             THEN row' = [row EXCEPT !.status = "pending_review", !.candidate = wcopy[w].guidance]
             ELSE UNCHANGED row
          /\ EndRun(w)
    /\ RunFrame

\* Mutant of Compile: the review guidance is left out of the compiler's input.
CompileIgnoresGuidance(w) ==
    /\ wpc[w] = "compiling"
    /\ \/ Settle(w, "compile_failed")
       \/ /\ IF Stored /\ Legal(wcopy[w], "pending_review")
             THEN row' = [row EXCEPT !.status = "pending_review", !.candidate = 0]
             ELSE UNCHANGED row
          /\ EndRun(w)
    /\ RunFrame

\* run_compiler: an exception (or no wiki directory), or a candidate.  Two
\* compilations never give the same text, so the candidate is always written.
Compile(w) ==
    /\ wpc[w] = "compiling"
    /\ \/ Settle(w, "compile_failed")
       \/ /\ IF Stored /\ Legal(wcopy[w], "pending_review")
             THEN row' = [row EXCEPT !.status = "pending_review", !.candidate = wcopy[w].guidance]
             ELSE UNCHANGED row
          /\ EndRun(w)
    /\ RunFrame

RunStep(w) ==
    \/ LoadForEvaluation(w) \/ Evaluate(w) \/ LoadForRepair(w)
    \/ MarkRecompiling(w) \/ RefreshRow(w) \/ Compile(w)

-----------------------------------------------------------------------------
(* Requests.  Each reads the row, checks its copy and commits.              *)

NobodyAsks == \A c \in Clients : cpc[c] = "idle"
Quiet == (\A w \in Workers : wpc[w] = "idle") /\ NobodyAsks
Applying == {c \in Clients : cpc[c] \in {"apply", "published"}}

\* Mutants of the checks below: force_recompile whatever the status, as its docstring
\* says, ...
CanAlwaysRecompile(r) == TRUE
\* ... what was applied once more, as if to publish it again.
CanApplyAgain(r) == r.status \in {"approved", "applied"} /\ r.candidate # None

CanRevise(r) == r.revisions < MaxRevisions /\ Legal(r, "pending_recompile")
CanReevaluate(r) ==
    r.status \in {"evaluation_done", "pending_review", "pending_recompile",
                  "compile_failed", "rejected"}
CanRecompile(r) == r.status \in {"evaluation_done", "pending_review", "compile_failed", "rejected"}
CanApply(r) == r.status = "approved" /\ r.candidate # None

Accepts(op, r) ==
    \/ op = "approve" /\ Legal(r, "approved")
    \/ op = "reject" /\ Legal(r, "rejected")
    \/ op = "revise" /\ CanRevise(r)
    \/ op = "reevaluate" /\ CanReevaluate(r)
    \/ op = "recompile" /\ CanRecompile(r)
    \/ op = "apply" /\ CanApply(r)
    \/ op = "delete"

ReadTask(c) ==
    /\ cpc[c] = "idle" /\ requests < MaxRequests
    /\ Stored
    /\ alone' = (alone /\ NobodyAsks) /\ calm' = (calm /\ Quiet)
    /\ \E op \in Ops :
          /\ Accepts(op, row)
          /\ cpc' = [cpc EXCEPT ![c] = op]
          /\ contested' = IF op = "apply" /\ Applying # {} THEN contested + 1 ELSE contested
    /\ ccopy' = [ccopy EXCEPT ![c] = row]
    /\ requests' = requests + 1
    /\ UNCHANGED <<row, runVars, counts, crashes>>

Answer(c) ==
    /\ cpc' = [cpc EXCEPT ![c] = "idle"]
    /\ ccopy' = [ccopy EXCEPT ![c] = Absent]
    /\ UNCHANGED <<contested, alone, calm, requests, crashes>>

ReviewTask(c) ==
    /\ \/ /\ cpc[c] = "approve"
          /\ Flush(ccopy[c], [ccopy[c] EXCEPT !.status = "approved"])
          /\ approvals' = approvals + 1
       \/ /\ cpc[c] = "reject"
          /\ Flush(ccopy[c], [ccopy[c] EXCEPT !.status = "rejected"])
          /\ UNCHANGED approvals
    /\ Answer(c)
    /\ UNCHANGED <<runVars, granted, wiki>>

ReviseTask(c) ==
    /\ cpc[c] = "revise"
    /\ Flush(ccopy[c], [ccopy[c] EXCEPT !.status = "pending_recompile",
                                        !.guidance = requests, !.revisions = @ + 1])
    /\ IF Stored THEN granted' = granted + 1 /\ Spawn("repairLoad")
                 ELSE UNCHANGED <<granted, runVars>>
    /\ Answer(c)
    /\ UNCHANGED <<approvals, wiki>>

ReevaluateTask(c) ==
    /\ cpc[c] = "reevaluate"
    /\ Flush(ccopy[c], [ccopy[c] EXCEPT !.status = "pending_evaluation",
                                        !.candidate = None, !.guidance = 0])
    /\ IF Stored THEN Spawn("evalLoad") ELSE UNCHANGED runVars
    /\ Answer(c)
    /\ UNCHANGED counts

RecompileTask(c) ==
    /\ cpc[c] = "recompile"
    /\ Flush(ccopy[c], [ccopy[c] EXCEPT !.status = "pending_recompile"])
    /\ IF Stored THEN Spawn("repairLoad") ELSE UNCHANGED runVars
    /\ Answer(c)
    /\ UNCHANGED counts

\* _apply_wiki_changes writes and commits without an await, then publishes; a
\* change that is refused rolls the wiki back and the request fails.
ApplyChanges(c) ==
    /\ cpc[c] = "apply"
    /\ \/ /\ wiki' = wiki + 1
          /\ cpc' = [cpc EXCEPT ![c] = "published"]
          /\ UNCHANGED <<ccopy, contested, alone, calm, requests, crashes>>
       \/ Answer(c) /\ UNCHANGED wiki
    /\ UNCHANGED <<row, runVars, granted, approvals>>

MarkApplied(c) ==
    /\ cpc[c] = "published"
    /\ Flush(ccopy[c], [ccopy[c] EXCEPT !.status = "applied"])
    /\ Answer(c)
    /\ UNCHANGED <<runVars, counts>>

DeleteTask(c) ==
    /\ cpc[c] = "delete"
    /\ row' = [Absent EXCEPT !.status = "deleted"]
    /\ Answer(c)
    /\ UNCHANGED <<runVars, counts>>

Serve(c) ==
    \/ ReviewTask(c) \/ ReviseTask(c) \/ ReevaluateTask(c) \/ RecompileTask(c)
    \/ ApplyChanges(c) \/ MarkApplied(c) \/ DeleteTask(c)

\* Nothing takes up the runs that die with the process.
Crash ==
    /\ crashes < MaxCrashes
    /\ crashes' = crashes + 1
    /\ wpc' = [w \in Workers |-> "idle"]
    /\ wcopy' = [w \in Workers |-> Absent]
    /\ cpc' = [c \in Clients |-> "idle"]
    /\ ccopy' = [c \in Clients |-> Absent]
    /\ UNCHANGED <<row, histories, requests>>

Next ==
    \/ CreateTask
    \/ \E w \in Workers : RunStep(w)
    \/ \E c \in Clients : ReadTask(c) \/ Serve(c)
    \/ Crash

Spec == Init /\ [][Next]_vars

\* The event loop goes on with the runs.  No request has to come, and none to end: an
\* apply waits for git, which has no timeout (git_sync.py:66).
FairSpec == Spec /\ \A w \in Workers : WF_vars(RunStep(w))

-----------------------------------------------------------------------------
(* Properties.                                                              *)

RunPcs == {"idle", "evalLoad", "evaluating", "repairLoad", "repairWrite", "refresh", "compiling"}
\* The type invariant; revision_count stays within feedback.max_revisions.
TypeOK ==
    /\ row \in Rows
    /\ wpc \in [Workers -> RunPcs] /\ wcopy \in [Workers -> Rows]
    /\ cpc \in [Clients -> OpNames \cup {"idle", "published"}] /\ ccopy \in [Clients -> Rows]
    /\ granted \in 0..MaxRequests /\ approvals \in 0..MaxRequests
    /\ wiki \in 0..MaxRequests /\ contested \in 0..MaxRequests
    /\ alone \in BOOLEAN /\ calm \in BOOLEAN /\ requests \in 0..MaxRequests /\ crashes \in 0..MaxCrashes

\* Whatever is put to review, approved or applied has a repair candidate, though
\* a re-evaluation clears it while older runs are still going to write, as long
\* as there is one reviewer at a time.
ReviewableHasCandidate ==
    alone /\ row.status \in {"pending_review", "approved", "applied"} => row.candidate # None

\* While the process lives, a row that waits for the evaluator or the compiler has
\* a run whose copy lets it move the row on, however requests and older runs
\* overwrite each other.
Carried == crashes = 0 =>
    /\ row.status = "pending_evaluation" =>
         \E w \in Workers : \/ wpc[w] = "evalLoad"
                            \/ wpc[w] = "evaluating" /\ wcopy[w].status = "pending_evaluation"
    /\ row.status = "pending_recompile" =>
         \E w \in Workers : \/ wpc[w] \in {"repairLoad", "repairWrite", "refresh"}
                            \/ wpc[w] = "compiling" /\ Legal(wcopy[w], "pending_review")

\* As long as requests are calm: a candidate under review was compiled with the
\* guidance of the last revision (docs/feedback-repair-loop.html:61), and a task is
\* revised at most feedback.max_revisions times (docs/feedback-repair-loop.html:67).
RevisionsCount ==
    calm => /\ row.status \in {"pending_review", "approved", "applied"}
                 => row.candidate = row.guidance
            /\ granted <= MaxRevisions

\* One approval lets one apply write to the wiki, whatever older runs write into the row
\* between the check for approval and mark_applied (router.py:236, 257): there is one write
\* more for each apply that came while another was under way, and one for each death of
\* the process, which may come before the row is marked.
AppliedOnce == wiki <= approvals + contested + crashes

\* What carries them.  A request that has not answered has written nothing, ...
Open == {c \in Clients : cpc[c] \notin {"idle", "published"}}
RequestsCounted == 
    /\ IsFiniteSet(Open) /\ granted + approvals + wiki + Cardinality(Open) <= requests
    /\ contested <= requests
\* ... and its copy is one its endpoint accepts.
RequestsAccepted ==
    \A c \in Clients :
        /\ cpc[c] # "idle" => ccopy[c].status \in Statuses
        /\ cpc[c] \in OpNames => Accepts(cpc[c], ccopy[c])
        /\ cpc[c] = "published" => CanApply(ccopy[c])
RunsReady ==
    \A w \in Workers :
        /\ wpc[w] \in {"evaluating", "repairWrite", "compiling"} => wcopy[w].status \in Statuses
        /\ wpc[w] = "repairWrite" => Legal(wcopy[w], "pending_recompile")
NothingBefore ==
    row.status = "absent" => Quiet /\ granted = 0
\* A run that is compiling moves a waiting row on whether it fails or not.
RunsCarry == crashes = 0 =>
    /\ row.status = "pending_evaluation" =>
         \E w \in Workers : \/ wpc[w] = "evalLoad"
                            \/ wpc[w] = "evaluating" /\ wcopy[w].status = "pending_evaluation"
    /\ row.status = "pending_recompile" =>
         \E w \in Workers : \/ wpc[w] \in {"repairLoad", "repairWrite", "refresh"}
                            \/ wpc[w] = "compiling" /\ wcopy[w].status = "pending_recompile"
\* When requests are calm, one request or one run is under way, and what it
\* has loaded is the row.
CalmIsAlone == calm =>
    /\ \A c \in Clients : cpc[c] # "idle" =>
          /\ ccopy[c] = row
          /\ \A w \in Workers : wpc[w] = "idle"
          /\ \A d \in Clients \ {c} : cpc[d] = "idle"
    /\ \A w \in Workers : wpc[w] # "idle" => \A v \in Workers \ {w} : wpc[v] = "idle"
    /\ \A w \in Workers : wpc[w] \in {"evaluating", "repairWrite", "compiling"} => wcopy[w] = row
    /\ Stored => granted = row.revisions
AloneIsOne == alone => \A c, d \in Clients : cpc[c] # "idle" /\ cpc[d] # "idle" => c = d
\* An approval is used by the applies that are about to write, or will be by the next one.
Unwritten == {c \in Clients : cpc[c] = "apply"}
ApprovalsLeft ==
    wiki + Cardinality(Unwritten) + (IF row.status = "approved" /\ Applying = {} THEN 1 ELSE 0)
        <= approvals + contested + crashes

\* What every step preserves, however many reviewers there are.
IInv ==
    /\ TypeOK /\ RequestsCounted /\ RequestsAccepted /\ RunsReady /\ NothingBefore
    /\ RunsCarry /\ CalmIsAlone /\ AloneIsOne /\ RevisionsCount /\ ApprovalsLeft

\* The candidate a lone reviewer has seen is not cleared under him.
CandidateStays == alone =>
    \A c \in Clients : cpc[c] \in {"approve", "apply", "published"} => row.candidate # None

\* In every state: a task put to review has something to review, and a task that is
\* waiting for a run has one (feedback/queue.py:85-190), with what every step preserves.
Inv == IInv /\ ReviewableHasCandidate /\ Carried /\ CandidateStays

\* So no task waits for ever, unless its runs died with the process.
Waiting == row.status \in {"pending_evaluation", "evaluation_done", "pending_recompile"}
RunsSettle == Waiting ~> ~Waiting \/ crashes > 0

(* What the documents say of a step holds as long as requests are calm.     *)

\* "状态迁移是受限的，不是任意跳转" (docs/feedback-repair-loop.html:51): the stored
\* status moves along _TRANSITIONS only.
LegalHistory ==
    [][calm' /\ Stored /\ Stored' /\ row'.status # row.status
         => row'.status \in Transitions[row.status]]_vars
=============================================================================
