------------------------------ MODULE AgentTurn ------------------------------
(***************************************************************************)
(* One turn of an agent: run_agent_turn asks the model, runs the tools it  *)
(* asks for within a budget, shortens the context when it grows, and gives *)
(* the answer or falls back on a stream without tools.  The llm client     *)
(* retries each request.  Messages are abstracted to what the provider and *)
(* the conversation file depend on: how many turns of history are shown,   *)
(* and for each assistant message how many calls it has and how many tool  *)
(* messages answer it.                                                     *)
(***************************************************************************)
EXTENDS Integers, Sequences, FiniteSets

CONSTANTS MaxToolCalls,   \* the agent's max_tool_calls
          MaxAttempts,    \* MAX_LLM_ATTEMPTS
          KeepTurns,      \* KEEP_RECENT_TURNS
          KeepGroups,     \* KEEP_RECENT_TOOL_GROUPS
          MaxHistory,     \* bound: turns in the history of the conversation
          MaxAsked        \* bound: tool calls in one response

ASSUME AgentTurnAssumption ==
    /\ MaxToolCalls \in Nat /\ MaxAttempts \in Nat \ {0} /\ MaxHistory \in Nat
    /\ KeepTurns \in Nat /\ KeepGroups \in Nat \ {0} /\ MaxAsked \in Nat \ {0}

\* Mutant of MaxRounds: no round for the second refusal.
MaxRoundsShort == MaxToolCalls + 1

MaxRounds == MaxToolCalls + 2

VARIABLES pc, round,
          asked,       \* calls of the response that are not answered yet
          groups,      \* tool groups in the messages
          executed,    \* tool_call_count
          rejected,    \* calls refused for the budget
          attempt,     \* of the request that is being made
          requests,    \* made so far in the turn, of every kind
          shown, kept, \* turns of history in the messages, and to be persisted
          note,        \* what the system prompt says of the turns not shown
          compressed,  \* context_compressed
          gone,        \* the client has disconnected
          tokens       \* chunks of answer sent to the client

loopVars == <<round, asked, groups, executed, rejected>>
histVars == <<shown, kept, note, compressed>>
vars == <<pc, loopVars, attempt, requests, histVars, gone, tokens>>

Group == [asked : 1..MaxAsked, answered : 0..MaxAsked]
Ended == {"done", "aborted", "error"}
\* Where a request to the model is under way, and where it is repeated after a pause.
Asking == {"complete", "sumHistory", "sumTools", "fallback"}
Busy == Asking \cup {"round", "reading", "compress", "shrink", "respond", "tools", "streaming"}

Init ==
    /\ pc = "round" /\ round = 0
    /\ asked = 0 /\ groups = <<>> /\ executed = 0 /\ rejected = 0
    /\ attempt = 0 /\ requests = 0
    /\ shown \in 0..MaxHistory /\ kept = shown
    /\ note = "none" /\ compressed = FALSE
    /\ gone = FALSE /\ tokens = 0

-----------------------------------------------------------------------------
(* The llm client.                                                          *)

Goto(where) == pc' = where /\ attempt' = 0

\* _with_llm_retries: a transient error is tried again until the attempts are
\* used up; any other error is raised at once.
Retry(where) ==
    \/ attempt + 1 < MaxAttempts /\ attempt' = attempt + 1 /\ UNCHANGED pc
    \/ Goto(where)

Disconnect ==
    /\ pc \notin Ended /\ ~gone
    /\ gone' = TRUE
    /\ UNCHANGED <<pc, loopVars, attempt, requests, histVars, tokens>>

\* _abort_if_cancelled, and the polls of a request or a stream under way.
Abort ==
    /\ gone /\ pc \in Busy \ {"sumHistory", "sumTools", "compress", "shrink"}
    /\ Goto("aborted")
    /\ UNCHANGED <<loopVars, requests, histVars, gone, tokens>>

-----------------------------------------------------------------------------
(* A round: complete_with_tools, then compression.                          *)

StartRound ==
    /\ pc = "round"
    /\ IF round < MaxRounds
       THEN round' = round + 1 /\ Goto("complete")
       ELSE Goto("fallback") /\ UNCHANGED round
    /\ UNCHANGED <<asked, groups, executed, rejected, requests, histVars, gone, tokens>>

\* The request is answered, or streams; an error after the first chunk is not
\* retried.
Complete ==
    /\ pc = "complete"
    /\ requests' = requests + 1
    /\ Retry("error") \/ Goto("reading") \/ Goto("compress")
    /\ UNCHANGED <<loopVars, histVars, gone, tokens>>

Read ==
    /\ pc = "reading"
    /\ Goto("compress") \/ Goto("error")
    /\ UNCHANGED <<loopVars, requests, histVars, gone, tokens>>

Least(a, b) == IF a <= b THEN a ELSE b

\* should_compress decides on the tokens of the prompt: either may be the case.
Compress ==
    /\ pc = "compress"
    /\ \/ Goto("respond") /\ UNCHANGED compressed
       \/ /\ compressed' = TRUE
          /\ Goto(IF shown > KeepTurns THEN "sumHistory" ELSE "shrink")
    /\ UNCHANGED <<loopVars, requests, shown, kept, note, gone, tokens>>

\* A summary stands for the older turns; without one the oldest turns are dropped
\* from what is persisted until it is short enough.
SumHistory ==
    /\ pc = "sumHistory"
    /\ requests' = requests + 1
    /\ \/ /\ Goto("shrink")
          /\ shown' = KeepTurns /\ kept' = Least(kept, KeepTurns)
          /\ note' = "summary"
       \/ /\ Retry("shrink")
          /\ IF pc' = pc THEN UNCHANGED <<shown, kept, note>>
             ELSE /\ kept' \in (IF kept > KeepTurns THEN KeepTurns..kept ELSE {kept})
                  /\ shown' = Least(kept', KeepTurns)
                  /\ note' = "truncated"
    /\ UNCHANGED <<loopVars, compressed, gone, tokens>>

\* Tool groups are summarised when the prompt is still above its target.
Shrink ==
    /\ pc = "shrink"
    /\ \/ Goto("respond")
       \/ Len(groups) > KeepGroups /\ Goto("sumTools")
    /\ UNCHANGED <<loopVars, requests, histVars, gone, tokens>>

\* Mutant of SumTools: messages are counted where groups are meant, and the
\* assistant message goes without its results.
SumToolsCutsGroup ==
    /\ pc = "sumTools"
    /\ requests' = requests + 1
    /\ Goto("respond") \/ Retry("respond")
    /\ groups' = IF pc' = pc THEN groups
                 ELSE [SubSeq(groups, Len(groups) - KeepGroups + 1, Len(groups))
                         EXCEPT ![1].answered = @ - 1]
    /\ UNCHANGED <<round, asked, executed, rejected, histVars, gone, tokens>>

\* With or without a summary only the last groups stay.
SumTools ==
    /\ pc = "sumTools"
    /\ requests' = requests + 1
    /\ Goto("respond") \/ Retry("respond")
    /\ groups' = IF pc' = pc THEN groups
                 ELSE SubSeq(groups, Len(groups) - KeepGroups + 1, Len(groups))
    /\ UNCHANGED <<round, asked, executed, rejected, histVars, gone, tokens>>

-----------------------------------------------------------------------------
(* What the model has said.                                                 *)

\* Without tool calls the response is the answer, if it has any text.
Answer ==
    /\ pc = "respond"
    /\ tokens' \in {tokens, tokens + 1}
    /\ Goto("done")
    /\ UNCHANGED <<loopVars, requests, histVars, gone>>

AskTools ==
    /\ pc = "respond"
    /\ \E n \in 1..MaxAsked :
        /\ asked' = n
        /\ groups' = Append(groups, [asked |-> n, answered |-> 0])
    /\ Goto("tools")
    /\ UNCHANGED <<round, executed, rejected, requests, histVars, gone, tokens>>

\* Mutant of RunTool: a refused call gets no tool message.
RunToolUnanswered ==
    /\ pc = "tools" /\ asked > 0
    /\ asked' = asked - 1
    /\ IF executed >= MaxToolCalls
       THEN rejected' = rejected + 1 /\ UNCHANGED <<executed, groups>>
       ELSE executed' = executed + 1 /\ UNCHANGED rejected
            /\ groups' = [groups EXCEPT ![Len(groups)].answered = @ + 1]
    /\ UNCHANGED <<pc, attempt, round, requests, histVars, gone, tokens>>

\* A call above the budget is answered with REJECT_MSG.
RunTool ==
    /\ pc = "tools" /\ asked > 0
    /\ asked' = asked - 1
    /\ IF executed >= MaxToolCalls
       THEN rejected' = rejected + 1 /\ UNCHANGED executed
       ELSE executed' = executed + 1 /\ UNCHANGED rejected
    /\ groups' = [groups EXCEPT ![Len(groups)].answered = @ + 1]
    /\ UNCHANGED <<pc, attempt, round, requests, histVars, gone, tokens>>

\* execute_tool catches nothing: arguments of another type, or a search that
\* fails, end the turn.
ToolRaises ==
    /\ pc = "tools" /\ asked > 0 /\ executed < MaxToolCalls
    /\ Goto("error")
    /\ UNCHANGED <<loopVars, requests, histVars, gone, tokens>>

\* Mutant of EndRound: with the budget used up there is no next round.
EndRoundWithinBudget ==
    /\ pc = "tools" /\ asked = 0 /\ executed < MaxToolCalls
    /\ Goto("round")
    /\ UNCHANGED <<loopVars, requests, histVars, gone, tokens>>

EndRound ==
    /\ pc = "tools" /\ asked = 0
    /\ Goto("round")
    /\ UNCHANGED <<loopVars, requests, histVars, gone, tokens>>

-----------------------------------------------------------------------------
(* All rounds are used up: stream() without tools.                          *)

Fallback ==
    /\ pc = "fallback"
    /\ requests' = requests + 1
    /\ Retry("error") \/ Goto("streaming")
    /\ UNCHANGED <<loopVars, histVars, gone, tokens>>

\* Chunks come one by one; an error in between ends the turn without a done event.
Stream ==
    /\ pc = "streaming"
    /\ \/ tokens < 2 /\ tokens' = tokens + 1 /\ UNCHANGED <<pc, attempt>>
       \/ Goto("done") /\ UNCHANGED tokens
       \/ Goto("error") /\ UNCHANGED tokens
    /\ UNCHANGED <<loopVars, requests, histVars, gone>>

TurnStep ==
    \/ StartRound \/ Complete \/ Read \/ Compress \/ SumHistory \/ Shrink \/ SumTools
    \/ Answer \/ AskTools \/ RunTool \/ ToolRaises \/ EndRound \/ Fallback \/ Stream \/ Abort

Finished == pc \in Ended /\ UNCHANGED vars

Next == TurnStep \/ Disconnect \/ Finished

Spec == Init /\ [][Next]_vars

\* Every request has a timeout, and the event loop goes on with the turn.
FairSpec == Spec /\ WF_vars(TurnStep)

-----------------------------------------------------------------------------
(* Properties.                                                              *)

TypeOK ==
    /\ pc \in Busy \cup Ended
    /\ round \in 0..MaxRounds /\ asked \in 0..MaxAsked
    /\ groups \in Seq(Group)
    /\ executed \in Nat /\ rejected \in Nat
    /\ attempt \in 0..(MaxAttempts - 1) /\ requests \in Nat
    /\ shown \in 0..MaxHistory /\ kept \in 0..MaxHistory
    /\ note \in {"none", "summary", "truncated"}
    /\ compressed \in BOOLEAN /\ gone \in BOOLEAN /\ tokens \in Nat

\* A provider refuses messages in which a tool call has no result: whenever the
\* model is asked, every call of every group in the messages is answered, refused
\* calls and shortened contexts included (orchestrator.py:278-335,
\* context_compress.py:247-294).
AnsweredBeforeAsking ==
    pc \in Asking \cup {"round", "reading", "streaming"} =>
        \A i \in DOMAIN groups : groups[i].answered = groups[i].asked

\* The budget holds across rounds and responses with several calls, and nothing is
\* refused before it is used up (orchestrator.py:298).
BudgetKept ==
    /\ executed <= MaxToolCalls
    /\ rejected > 0 => executed = MaxToolCalls

\* "max_tool_calls + 2 to allow rejection + final text" (orchestrator.py:191): the
\* tools are taken from the model only after the whole budget was used and two
\* calls were refused.
FallbackIsDeserved ==
    pc \in {"fallback", "streaming"} => executed = MaxToolCalls /\ rejected >= 2

\* A turn makes a bounded number of requests, whatever fails and is retried
\* (client.py:231): in each round one for the answer and two for summaries.
RequestsBounded == requests <= MaxAttempts * (3 * MaxRounds + 1)

\* The bound on rounds (orchestrator.py:192) neither cuts a turn short nor lets it
\* go on.
RoundsSuffice == FallbackIsDeserved /\ RequestsBounded

\* Everything the prompt shows of the history is in what will be persisted, and
\* what is persisted differs from the file only if the done event says so
\* (context_compress.py:212-232, orchestrator.py:272).
PersistedCoversPrompt ==
    /\ shown <= kept
    /\ ~compressed => shown = kept /\ note = "none"
    /\ note # "none" => compressed

\* The inductive invariant: outside the tool loop nothing is left unanswered and in
\* it only the last group; each round that asked for tools has used or lost a call
\* of the budget.
Unread == {"complete", "reading", "compress", "sumHistory", "shrink", "sumTools", "respond"}
LastOpen ==
    /\ pc \notin Ended \cup {"tools"} => asked = 0
    /\ \A i \in 1..Len(groups) :
          i < Len(groups) \/ pc \notin Ended \cup {"tools"} =>
              groups[i].answered = groups[i].asked
    /\ pc = "tools" =>
          /\ groups # <<>>
          /\ groups[Len(groups)].answered + asked = groups[Len(groups)].asked
    /\ pc = "sumTools" => Len(groups) > KeepGroups

RoundsCost ==
    /\ pc = "round" => executed + rejected >= round
    /\ pc \in Unread => executed + rejected >= round - 1
    /\ pc = "tools" => executed + rejected + asked >= round
    /\ pc \in {"fallback", "streaming"} => executed + rejected >= MaxRounds

LoopInv ==
    /\ TypeOK /\ LastOpen /\ BudgetKept /\ RoundsCost /\ PersistedCoversPrompt
    /\ pc = "sumHistory" => shown > KeepTurns
    /\ pc \in {"sumHistory", "shrink", "sumTools"} => compressed

\* Each stage that asks the model, three in a round and the fallback, has made its
\* attempts at most.
Stages ==
    CASE pc = "complete" -> 3 * (round - 1)
      [] pc \in {"reading", "compress", "sumHistory"} -> 3 * (round - 1) + 1
      [] pc \in {"shrink", "sumTools"} -> 3 * (round - 1) + 2
      [] pc \in {"respond", "tools", "round"} -> 3 * round
      [] pc = "fallback" -> 3 * MaxRounds
      [] OTHER -> 3 * MaxRounds + 1
RequestsShare ==
    /\ pc \notin Asking => attempt = 0
    /\ requests <= MaxAttempts * Stages + attempt

IInv == LoopInv /\ RequestsShare

\* Every turn ends: answered, aborted, or with an error.
TurnEnds == <>(pc \in Ended)
=============================================================================
