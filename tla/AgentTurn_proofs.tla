-------------------------- MODULE AgentTurn_proofs --------------------------
(* The tool loop keeps the messages acceptable to the provider, its budget, *)
(* and the history it persists, for every budget, history and response.     *)
EXTENDS AgentTurn, TLAPS

LEMMA InitLoop == Init => LoopInv
<1> SUFFICES ASSUME Init PROVE LoopInv
  OBVIOUS
<1> USE AgentTurnAssumption DEF AgentTurnAssumption
<1>1. TypeOK
  <2>1. groups \in Seq(Group)
    BY DEF Init
  <2>2. round \in 0..MaxRounds /\ attempt \in 0..(MaxAttempts - 1) /\ asked \in 0..MaxAsked
    BY DEF Init, MaxRounds
  <2>3. shown \in 0..MaxHistory /\ kept \in 0..MaxHistory
    BY DEF Init
  <2> QED BY <2>1, <2>2, <2>3 DEF Init, TypeOK, Busy
<1>2. LastOpen /\ BudgetKept /\ RoundsCost /\ PersistedCoversPrompt
  BY DEF Init, LastOpen, BudgetKept, RoundsCost, PersistedCoversPrompt, Unread, Ended
<1> QED BY <1>1, <1>2 DEF LoopInv, Init

\* Steps that leave the messages and the counters of the loop alone.
LEMMA LoopUntouched ==
    ASSUME LoopInv, UNCHANGED loopVars, pc' \in Busy \cup Ended,
           attempt' \in 0..(MaxAttempts - 1), requests' \in Nat, tokens' \in Nat, gone' \in BOOLEAN,
           shown' \in 0..MaxHistory, kept' \in 0..MaxHistory,
           note' \in {"none", "summary", "truncated"}, compressed' \in BOOLEAN,
           PersistedCoversPrompt',
           pc' = "sumHistory" => shown' > KeepTurns,
           pc' \in {"sumHistory", "shrink", "sumTools"} => compressed',
           pc' = "sumTools" => Len(groups) > KeepGroups,
           \/ pc' = pc
           \/ pc' \in Ended
           \/ pc \in Unread /\ pc' \in Unread
           \/ pc = "tools" /\ asked = 0 /\ pc' = "round"
           \/ pc = "round" /\ round >= MaxRounds /\ pc' = "fallback"
           \/ pc = "fallback" /\ pc' = "streaming"
    PROVE  LoopInv'
<1> USE AgentTurnAssumption DEF AgentTurnAssumption, LoopInv, loopVars
<1>1. TypeOK'
  BY DEF TypeOK
<1>2. BudgetKept'
  BY DEF BudgetKept
<1>3. RoundsCost'
  BY DEF RoundsCost, Unread, TypeOK, MaxRounds, Ended
<1>4. LastOpen'
  <2>1. pc' \notin Ended \cup {"tools"} => asked' = 0
    BY DEF LastOpen, Unread, Ended
  <2>2. pc' = "tools" => groups' # <<>> /\ groups'[Len(groups')].answered + asked' = groups'[Len(groups')].asked
    BY DEF LastOpen, Unread, Ended
  <2>3. \A i \in 1..Len(groups) :
          i < Len(groups) \/ pc' \notin Ended \cup {"tools"} => groups[i].answered = groups[i].asked
    <3> SUFFICES ASSUME NEW i \in 1..Len(groups), i < Len(groups) \/ pc' \notin Ended \cup {"tools"}
                 PROVE  groups[i].answered = groups[i].asked
      OBVIOUS
    <3>1. CASE i < Len(groups)
      BY <3>1 DEF LastOpen
    <3>2. CASE pc \notin Ended \cup {"tools"}
      BY <3>2 DEF LastOpen
    <3>3. CASE pc = "tools" /\ asked = 0 /\ pc' = "round" /\ i = Len(groups)
      <4>1. groups[i] \in Group /\ groups[i].answered + asked = groups[i].asked
        BY <3>3 DEF LastOpen, TypeOK
      <4> QED BY <3>3, <4>1 DEF Group
    <3>4. Len(groups) \in Nat
      BY DEF TypeOK
    <3>5. pc' \notin Ended \cup {"tools"} => pc \notin Ended \cup {"tools"} \/ (pc = "tools" /\ asked = 0 /\ pc' = "round")
      <4>1. CASE pc' = pc
        BY <4>1
      <4>2. CASE pc' # pc
        BY <4>2 DEF Ended, Unread
      <4> QED BY <4>1, <4>2
    <3> QED BY <3>1, <3>2, <3>3, <3>4, <3>5
  <2> QED BY <2>1, <2>2, <2>3 DEF LastOpen
<1> QED BY <1>1, <1>2, <1>3, <1>4

LEMMA LoopStep == LoopInv /\ [Next]_vars => LoopInv'
<1> SUFFICES ASSUME LoopInv, [Next]_vars PROVE LoopInv'
  OBVIOUS
<1> USE AgentTurnAssumption DEF AgentTurnAssumption
<1>t. TypeOK /\ PersistedCoversPrompt /\ BudgetKept /\ LastOpen /\ RoundsCost
  BY DEF LoopInv
<1>0. CASE UNCHANGED vars
  BY <1>0, <1>t, LoopUntouched DEF LoopInv, vars, histVars, loopVars, TypeOK, PersistedCoversPrompt, LastOpen
<1>1. CASE Disconnect
  BY <1>1, <1>t, LoopUntouched DEF Disconnect, LoopInv, histVars, loopVars, TypeOK, PersistedCoversPrompt, LastOpen
<1>2. CASE Abort
  BY <1>2, <1>t, LoopUntouched DEF Abort, Goto, LoopInv, histVars, loopVars, TypeOK, PersistedCoversPrompt, Ended
<1>3. CASE StartRound
  <2>1. CASE round < MaxRounds
    <3>1. TypeOK'
      BY <1>3, <2>1, <1>t DEF StartRound, Goto, TypeOK, histVars, Busy, Asking, MaxRounds
    <3>2. LastOpen' /\ BudgetKept' /\ RoundsCost' /\ PersistedCoversPrompt'
      BY <1>3, <2>1, <1>t DEF StartRound, Goto, LastOpen, BudgetKept, RoundsCost, PersistedCoversPrompt,
                                histVars, Unread, Ended, TypeOK, MaxRounds
    <3> QED BY <1>3, <2>1, <3>1, <3>2 DEF StartRound, Goto, LoopInv
  <2>2. CASE ~(round < MaxRounds)
    BY <1>3, <2>2, <1>t, LoopUntouched
       DEF StartRound, Goto, LoopInv, histVars, loopVars, TypeOK, PersistedCoversPrompt, Busy, Asking, MaxRounds
  <2> QED BY <2>1, <2>2
<1>4. CASE Complete
  BY <1>4, <1>t, LoopUntouched DEF Complete, Retry, Goto, LoopInv, histVars, loopVars, TypeOK,
        PersistedCoversPrompt, Busy, Asking, Ended, Unread
<1>5. CASE Read
  BY <1>5, <1>t, LoopUntouched DEF Read, Goto, LoopInv, histVars, loopVars, TypeOK,
        PersistedCoversPrompt, Busy, Asking, Ended, Unread
<1>6. CASE Compress
  <2>1. /\ pc = "compress" /\ UNCHANGED <<loopVars, requests, shown, kept, note, gone, tokens>>
        /\ pc' \in {"respond", "sumHistory", "shrink"} /\ attempt' = 0
        /\ pc' = "sumHistory" => shown > KeepTurns
        /\ IF pc' = "respond" THEN compressed' = compressed ELSE compressed' = TRUE
    BY <1>6 DEF Compress, Goto
  <2>2. compressed' \in BOOLEAN /\ (compressed => compressed')
    BY <2>1, <1>t DEF TypeOK
  <2>3. PersistedCoversPrompt'
    BY <2>1, <2>2, <1>t DEF PersistedCoversPrompt
  <2> QED BY <2>1, <2>2, <2>3, <1>t, LoopUntouched DEF TypeOK, Busy, Asking, Ended, Unread
<1>7. CASE SumHistory
  <2>1. shown > KeepTurns /\ compressed /\ pc = "sumHistory" /\ UNCHANGED <<loopVars, compressed, gone, tokens>>
    BY <1>7 DEF SumHistory, LoopInv
  <2>2. /\ shown' \in 0..MaxHistory /\ kept' \in 0..MaxHistory /\ shown' <= kept'
        /\ note' \in {"none", "summary", "truncated"}
        /\ pc' = "sumHistory" => shown' > KeepTurns
    BY <1>7, <2>1, <1>t DEF SumHistory, Retry, Goto, Least, TypeOK, PersistedCoversPrompt
  <2>3. /\ pc' \in {"sumHistory", "shrink"} /\ attempt' \in 0..(MaxAttempts - 1) /\ requests' \in Nat
    BY <1>7, <1>t DEF SumHistory, Retry, Goto, TypeOK
  <2>4. PersistedCoversPrompt'
    BY <2>1, <2>2 DEF PersistedCoversPrompt
  <2> QED BY <2>1, <2>2, <2>3, <2>4, <1>t, LoopUntouched DEF loopVars, TypeOK, Busy, Asking, Ended, Unread
<1>8. CASE Shrink
  BY <1>8, <1>t, LoopUntouched DEF Shrink, Goto, LoopInv, histVars, loopVars, TypeOK,
        PersistedCoversPrompt, Busy, Asking, Ended, Unread
<1>9. CASE SumTools
  <2> DEFINE rest == SubSeq(groups, Len(groups) - KeepGroups + 1, Len(groups))
  <2>1. /\ pc = "sumTools" /\ UNCHANGED <<round, asked, executed, rejected, histVars, gone, tokens>>
        /\ requests' \in Nat /\ attempt' \in 0..(MaxAttempts - 1) /\ pc' \in {"sumTools", "respond"}
    BY <1>9, <1>t DEF SumTools, Retry, Goto, TypeOK
  <2>2. CASE groups' = groups
    <3>1. pc' = "sumTools" => Len(groups) > KeepGroups
      BY <2>1, <1>t DEF LastOpen
    <3> QED BY <2>1, <2>2, <3>1, <1>t, LoopUntouched DEF loopVars, histVars, LoopInv, TypeOK, PersistedCoversPrompt,
              Busy, Asking, Ended, Unread
  <2>3. CASE pc' # pc /\ groups' = rest
    <3>1. /\ Len(groups) \in Nat /\ Len(groups) > KeepGroups
          /\ \A i \in 1..Len(groups) : groups[i] \in Group /\ groups[i].answered = groups[i].asked
      BY <2>1, <1>t DEF LastOpen, TypeOK, Ended
    <3>2. rest \in Seq(Group) /\ Len(rest) = KeepGroups
      BY <3>1, <1>t DEF TypeOK
    <3>3. \A i \in 1..KeepGroups : rest[i] = groups[Len(groups) - KeepGroups + i]
      <4> SUFFICES ASSUME NEW i \in 1..KeepGroups PROVE rest[i] = groups[Len(groups) - KeepGroups + i]
        OBVIOUS
      <4>1. groups \in Seq(Group)
        BY <1>t DEF TypeOK
      <4>2. /\ Len(groups) - KeepGroups + 1 \in Nat /\ Len(groups) - KeepGroups + 1 >= 1
            /\ i \in 1..(Len(groups) - (Len(groups) - KeepGroups + 1) + 1)
            /\ (Len(groups) - KeepGroups + 1) + i - 1 = Len(groups) - KeepGroups + i
        BY <3>1
      <4> QED BY <4>1, <4>2
    <3>4. \A i \in 1..Len(groups') : groups'[i].answered = groups'[i].asked
      <4> SUFFICES ASSUME NEW i \in 1..KeepGroups PROVE rest[i].answered = rest[i].asked
        BY <2>3, <3>2
      <4>1. Len(groups) - KeepGroups + i \in 1..Len(groups)
        BY <3>1
      <4> QED BY <3>1, <3>3, <4>1
    <3>5. pc' = "respond"
      BY <2>1, <2>3
    <3>6. TypeOK'
      BY <2>1, <2>3, <3>2, <3>5, <1>t DEF TypeOK, histVars, Busy, Asking
    <3>7. LastOpen'
      BY <2>1, <3>4, <3>5, <1>t DEF LastOpen, Ended
    <3>8. BudgetKept' /\ RoundsCost' /\ PersistedCoversPrompt'
      BY <2>1, <3>5, <1>t DEF BudgetKept, RoundsCost, PersistedCoversPrompt, Unread, histVars
    <3> QED BY <3>5, <3>6, <3>7, <3>8 DEF LoopInv
  <2> QED BY <1>9, <2>2, <2>3 DEF SumTools
<1>10. CASE Answer
  BY <1>10, <1>t, LoopUntouched DEF Answer, Goto, LoopInv, histVars, loopVars, TypeOK, PersistedCoversPrompt, Ended
<1>11. CASE AskTools
  <2>1. PICK n \in 1..MaxAsked : asked' = n /\ groups' = Append(groups, [asked |-> n, answered |-> 0])
    BY <1>11 DEF AskTools
  <2>2. [asked |-> n, answered |-> 0] \in Group
    BY DEF Group
  <2>3. /\ groups' \in Seq(Group) /\ Len(groups') = Len(groups) + 1 /\ Len(groups) \in Nat
        /\ groups'[Len(groups')] = [asked |-> n, answered |-> 0]
        /\ \A i \in 1..Len(groups) : groups'[i] = groups[i]
    BY <2>1, <2>2, <1>t DEF TypeOK
  <2>4. /\ pc = "respond" /\ pc' = "tools" /\ attempt' = 0
        /\ UNCHANGED <<round, executed, rejected, requests, histVars, gone, tokens>>
    BY <1>11 DEF AskTools, Goto
  <2>5. TypeOK'
    BY <2>1, <2>3, <2>4, <1>t DEF TypeOK, histVars, Busy
  <2>6. LastOpen'
    <3>1. \A i \in 1..Len(groups') : i < Len(groups') => groups'[i].answered = groups'[i].asked
      BY <2>3, <2>4, <1>t DEF LastOpen, Ended
    <3>2. groups' # <<>>
      BY <2>3
    <3> QED BY <2>1, <2>3, <2>4, <3>1, <3>2 DEF LastOpen, Ended
  <2>7. BudgetKept' /\ RoundsCost' /\ PersistedCoversPrompt'
    BY <2>1, <2>4, <1>t DEF BudgetKept, RoundsCost, PersistedCoversPrompt, Unread, histVars, TypeOK
  <2> QED BY <2>4, <2>5, <2>6, <2>7 DEF LoopInv
<1>12. CASE RunTool
  <2> DEFINE last == Len(groups)
  <2>1. /\ pc = "tools" /\ pc' = "tools" /\ attempt' = attempt /\ asked > 0 /\ asked' = asked - 1
        /\ groups' = [groups EXCEPT ![last].answered = @ + 1]
        /\ UNCHANGED <<round, requests, histVars, gone, tokens>>
    BY <1>12 DEF RunTool
  <2>2. /\ last \in Nat /\ last # 0 /\ groups[last] \in Group
        /\ groups[last].answered + asked = groups[last].asked
    <3>1. groups \in Seq(Group)
      BY <1>t DEF TypeOK
    <3>2. groups # <<>> /\ groups[last].answered + asked = groups[last].asked
      BY <2>1, <1>t DEF LastOpen
    <3>3. last \in Nat /\ last # 0
      BY <3>1, <3>2
    <3>4. groups[last] \in Group
      BY <3>1, <3>3
    <3> QED BY <3>2, <3>3, <3>4
  <2>3. /\ groups' \in Seq(Group) /\ Len(groups') = last
        /\ \A i \in 1..last : i # last => groups'[i] = groups[i]
        /\ groups'[last].answered = groups[last].answered + 1 /\ groups'[last].asked = groups[last].asked
    <3>1. [groups[last] EXCEPT !.answered = @ + 1] \in Group
      <4>1. groups[last].asked \in 1..MaxAsked /\ groups[last].answered \in 0..MaxAsked
        BY <2>2 DEF Group
      <4>2. asked \in 0..MaxAsked
        BY <1>t DEF TypeOK
      <4>3. groups[last].answered + 1 \in 0..MaxAsked
        <5>1. groups[last].answered + asked = groups[last].asked /\ asked > 0
          BY <2>1, <2>2
        <5> HIDE DEF last
        <5> QED BY <4>1, <4>2, <5>1
      <4> QED BY <2>2, <4>1, <4>3 DEF Group
    <3>2. groups \in Seq(Group)
      BY <1>t DEF TypeOK
    <3>3. groups' = [groups EXCEPT ![last] = [groups[last] EXCEPT !.answered = @ + 1]]
      BY <2>1, <2>2
    <3>4. groups' \in Seq(Group) /\ Len(groups') = last /\ \A i \in 1..last : i # last => groups'[i] = groups[i]
      BY <2>2, <3>1, <3>2, <3>3
    <3>5. groups'[last] = [groups[last] EXCEPT !.answered = @ + 1]
      BY <2>2, <3>2, <3>3
    <3> QED BY <2>2, <3>4, <3>5 DEF Group
  <2>4. LastOpen'
    <3>1. \A i \in 1..Len(groups') : i < Len(groups') => groups'[i].answered = groups'[i].asked
      BY <2>2, <2>3, <1>t DEF LastOpen
    <3>2. groups' # <<>>
      BY <2>2, <2>3
    <3>3. groups'[Len(groups')].answered + asked' = groups'[Len(groups')].asked
      <4>1. groups[last].answered \in Int /\ asked \in Int
        BY <2>2, <1>t DEF TypeOK, Group
      <4>2. /\ groups'[Len(groups')].answered = groups[last].answered + 1
            /\ groups'[Len(groups')].asked = groups[last].asked
        BY <2>3
      <4> QED BY <2>1, <2>2, <4>1, <4>2
    <3> QED BY <2>1, <3>1, <3>2, <3>3 DEF LastOpen, Ended
  <2>5. /\ executed' \in Nat /\ rejected' \in Nat /\ executed' + rejected' = executed + rejected + 1
        /\ BudgetKept'
    <3>1. executed \in Nat /\ rejected \in Nat /\ executed <= MaxToolCalls
      BY <1>t DEF TypeOK, BudgetKept
    <3>2. CASE executed >= MaxToolCalls
      <4>1. rejected' = rejected + 1 /\ executed' = executed
        BY <1>12, <3>2 DEF RunTool
      <4> QED BY <3>1, <3>2, <4>1 DEF BudgetKept
    <3>3. CASE ~(executed >= MaxToolCalls)
      <4>1. rejected' = rejected /\ executed' = executed + 1
        BY <1>12, <3>3 DEF RunTool
      <4>2. rejected = 0
        BY <3>1, <3>3, <1>t DEF BudgetKept
      <4> QED BY <3>1, <3>3, <4>1, <4>2 DEF BudgetKept
    <3> QED BY <3>2, <3>3
  <2>6. TypeOK'
    <3>1. asked' \in 0..MaxAsked
      <4>1. asked \in 0..MaxAsked
        BY <1>t DEF TypeOK
      <4> QED BY <2>1, <4>1
    <3>2. /\ pc' \in Busy \cup Ended /\ round' \in 0..MaxRounds /\ attempt' \in 0..(MaxAttempts - 1)
          /\ requests' \in Nat /\ gone' \in BOOLEAN /\ tokens' \in Nat
      BY <2>1, <1>t DEF TypeOK, Busy
    <3>3. /\ shown' \in 0..MaxHistory /\ kept' \in 0..MaxHistory
          /\ note' \in {"none", "summary", "truncated"} /\ compressed' \in BOOLEAN
      BY <2>1, <1>t DEF TypeOK, histVars
    <3> QED BY <2>3, <2>5, <3>1, <3>2, <3>3 DEF TypeOK
  <2>7. RoundsCost' /\ PersistedCoversPrompt'
    <3>1. PersistedCoversPrompt'
      BY <2>1, <1>t DEF PersistedCoversPrompt, histVars
    <3>2. executed \in Nat /\ rejected \in Nat /\ round \in Nat /\ asked \in Nat /\ executed + rejected + asked >= round
      BY <2>1, <1>t DEF RoundsCost, TypeOK, MaxRounds
    <3>3. executed' + rejected' + asked' >= round'
      BY <2>1, <2>5, <3>2
    <3> QED BY <2>1, <3>1, <3>3 DEF RoundsCost, Unread
  <2> QED BY <2>1, <2>4, <2>5, <2>6, <2>7 DEF LoopInv
<1>13. CASE ToolRaises
  BY <1>13, <1>t, LoopUntouched DEF ToolRaises, Goto, LoopInv, histVars, loopVars, TypeOK, PersistedCoversPrompt, Ended
<1>14. CASE EndRound
  BY <1>14, <1>t, LoopUntouched DEF EndRound, Goto, LoopInv, histVars, loopVars, TypeOK, PersistedCoversPrompt, Busy
<1>15. CASE Fallback
  BY <1>15, <1>t, LoopUntouched DEF Fallback, Retry, Goto, LoopInv, histVars, loopVars, TypeOK,
        PersistedCoversPrompt, Busy, Asking, Ended, Unread
<1>16. CASE Stream
  BY <1>16, <1>t, LoopUntouched DEF Stream, Goto, LoopInv, histVars, loopVars, TypeOK,
        PersistedCoversPrompt, Busy, Asking, Ended, Unread
<1> QED BY <1>0, <1>1, <1>2, <1>3, <1>4, <1>5, <1>6, <1>7, <1>8, <1>9, <1>10, <1>11, <1>12, <1>13, <1>14,
           <1>15, <1>16 DEF Next, TurnStep, Finished

-----------------------------------------------------------------------------
(* The requests of a turn.                                                  *)

\* A share of m requests is not exceeded when a request is made within it, when the
\* stage ends, and when no request is made.
LEMMA Share ==
    ASSUME NEW m \in Nat, NEW s \in Int, NEW t \in Int, NEW r \in Int, NEW a \in Int, NEW b \in Int,
           r <= m * s + a,
           NEW q \in Int,
           \/ q = r + 1 /\ t = s /\ b = a + 1
           \/ q = r /\ t >= s /\ b = a
           \/ q <= r + 1 /\ t >= s + 1 /\ b = 0 /\ a + 1 <= m
    PROVE  q <= m * t + b
<1>1. \A x \in Nat : m * (s + x) = m * s + m * x /\ m * x >= 0
  OBVIOUS
<1>2. CASE q = r + 1 /\ t = s /\ b = a + 1
  BY <1>2
<1>3. CASE q = r /\ t >= s /\ b = a
  <2>1. t - s \in Nat /\ s + (t - s) = t
    BY <1>3
  <2>2. m * t = m * s + m * (t - s) /\ m * (t - s) >= 0
    BY <1>1, <2>1
  <2> QED BY <1>3, <2>2
<1>4. CASE q <= r + 1 /\ t >= s + 1 /\ b = 0 /\ a + 1 <= m
  <2>1. t - (s + 1) \in Nat /\ s + 1 + (t - (s + 1)) = t
    BY <1>4
  <2>2. m * (s + 1) = m * s + m
    OBVIOUS
  <2>3. m * t >= m * (s + 1)
    <3>1. m * (s + 1 + (t - (s + 1))) = m * (s + 1) + m * (t - (s + 1)) /\ m * (t - (s + 1)) >= 0
      BY <2>1
    <3> QED BY <2>1, <3>1
  <2>4. m * s \in Int /\ m * t \in Int
    OBVIOUS
  <2> QED BY <1>4, <2>2, <2>3, <2>4
<1> QED BY <1>2, <1>3, <1>4

LEMMA RequestsStep ==
    ASSUME TypeOK, TypeOK', RequestsShare, Next
    PROVE  RequestsShare'
<1> USE AgentTurnAssumption DEF AgentTurnAssumption, Goto, Retry, loopVars, histVars
<1>t. /\ round \in Int /\ 0 <= round /\ round <= MaxRounds /\ MaxRounds \in Int
      /\ attempt \in Int /\ 0 <= attempt /\ attempt + 1 <= MaxAttempts /\ requests \in Int
      /\ pc \in Busy \cup Ended /\ round' \in Int
  BY DEF TypeOK, MaxRounds
<1>1. pc' \notin Asking => attempt' = 0
  <2>1. pc \notin Asking => attempt = 0
    BY DEF RequestsShare
  <2> QED BY <2>1 DEF Next, TurnStep, Finished, StartRound, Complete, Read, Compress, SumHistory, Shrink,
        SumTools, Answer, AskTools, RunTool, ToolRaises, EndRound, Fallback, Stream, Abort, Disconnect,
        Asking, vars
<1>2. Stages \in Int /\ Stages' \in Int
  BY <1>t DEF Stages
<1>3. \/ requests' = requests + 1 /\ Stages' = Stages /\ attempt' = attempt + 1
      \/ requests' = requests /\ Stages' >= Stages /\ attempt' = attempt
      \/ requests' <= requests + 1 /\ Stages' >= Stages + 1 /\ attempt' = 0
  <2>s. Stages <= 3 * MaxRounds + 1 /\ (pc \notin Ended \cup {"streaming"} => Stages <= 3 * MaxRounds)
    BY <1>t DEF Stages, Busy, Ended, Asking
  <2>e. pc' \in Ended \cup {"streaming"} => Stages' = 3 * MaxRounds + 1
    BY DEF Stages, Ended
  <2>a. pc \notin Asking => attempt = 0
    BY DEF RequestsShare
  <2>1. CASE pc' = pc /\ round' = round /\ requests' = requests /\ attempt' = attempt
    BY <1>2, <2>1 DEF Stages
  <2>2. CASE pc' = pc /\ round' = round /\ requests' = requests + 1 /\ attempt' = attempt + 1
    BY <2>2 DEF Stages
  <2>3. CASE Abort
    <3>1. requests' = requests /\ attempt' = 0 /\ pc' = "aborted" /\ pc \notin Ended
      BY <2>3 DEF Abort, Busy, Asking, Ended
    <3>2. CASE pc = "streaming"
      BY <1>1, <1>2, <3>1, <3>2, <2>s, <2>e, <2>a DEF Asking, Ended
    <3>3. CASE pc # "streaming"
      BY <1>t, <1>2, <3>1, <3>3, <2>s, <2>e DEF Ended
    <3> QED BY <3>2, <3>3
  <2>4. CASE StartRound
    <3>1. pc = "round" /\ requests' = requests /\ attempt' = 0 /\ Stages = 3 * round /\ attempt = 0
      BY <2>4, <2>a DEF StartRound, Stages, Asking
    <3>2. \/ pc' = "complete" /\ Stages' = 3 * round
          \/ pc' = "fallback" /\ Stages' = 3 * MaxRounds
      BY <1>t, <2>4 DEF StartRound, Stages
    <3> QED BY <1>t, <3>1, <3>2
  <2>5. CASE Complete
    BY <1>t, <2>2, <2>5, <2>s, <2>e DEF Complete, Stages, Ended
  <2>6. CASE Read \/ Compress \/ Shrink
    <3>1. requests' = requests /\ attempt' = 0 /\ attempt = 0 /\ round' = round
      BY <2>6, <2>a DEF Read, Compress, Shrink, Asking
    <3>2. Stages' >= Stages
      <4>1. \/ <<pc, pc'>> \in {<<"reading", "compress">>, <<"compress", "sumHistory">>,
                <<"compress", "shrink">>, <<"compress", "respond">>, <<"shrink", "respond">>,
                <<"shrink", "sumTools">>}
            \/ pc' = "error" /\ pc = "reading"
        BY <2>6 DEF Read, Compress, Shrink
      <4>2. CASE pc' = "error"
        BY <1>2, <4>2, <2>s, <2>e DEF Ended
      <4>3. CASE pc' # "error"
        BY <1>t, <3>1, <4>1, <4>3 DEF Stages
      <4> QED BY <4>2, <4>3
    <3> QED BY <3>1, <3>2
  <2>7. CASE SumHistory \/ SumTools
    <3>1. \/ pc' = pc /\ round' = round /\ requests' = requests + 1 /\ attempt' = attempt + 1
          \/ requests' = requests + 1 /\ attempt' = 0 /\ round' = round
             /\ <<pc, pc'>> \in {<<"sumHistory", "shrink">>, <<"sumTools", "respond">>}
      BY <2>7 DEF SumHistory, SumTools
    <3> QED BY <1>t, <2>2, <3>1 DEF Stages
  <2>8. CASE Answer \/ AskTools \/ ToolRaises \/ EndRound
    <3>1. requests' = requests /\ attempt' = 0 /\ attempt = 0 /\ round' = round
      BY <2>8, <2>a DEF Answer, AskTools, ToolRaises, EndRound, Asking
    <3>2. Stages' >= Stages
      BY <1>t, <2>8, <2>s, <2>e DEF Answer, AskTools, ToolRaises, EndRound, Stages, Ended
    <3> QED BY <3>1, <3>2
  <2>9. CASE RunTool \/ Disconnect \/ Finished
    BY <2>1, <2>9 DEF RunTool, Disconnect, Finished, vars
  <2>10. CASE Fallback
    BY <1>t, <2>2, <2>10, <2>s, <2>e DEF Fallback, Stages, Ended
  <2>11. CASE Stream
    <3>1. requests' = requests /\ attempt' = 0 /\ attempt = 0
      BY <1>1, <2>11, <2>a DEF Stream, Asking
    <3>2. Stages' = 3 * MaxRounds + 1 /\ Stages = 3 * MaxRounds + 1
      BY <2>11, <2>e DEF Stream, Stages, Ended
    <3> QED BY <3>1, <3>2, <1>t
  <2> QED BY <2>3, <2>4, <2>5, <2>6, <2>7, <2>8, <2>9, <2>10, <2>11 DEF Next, TurnStep
<1>4. requests <= MaxAttempts * Stages + attempt
  BY DEF RequestsShare
<1>5. requests' \in Int /\ attempt' \in Int /\ MaxAttempts \in Nat
  BY DEF TypeOK
<1>6. requests' <= MaxAttempts * Stages' + attempt'
  BY <1>t, <1>2, <1>3, <1>4, <1>5, Share
<1> QED BY <1>1, <1>6 DEF RequestsShare

-----------------------------------------------------------------------------

LEMMA InitInv == Init => IInv
<1> SUFFICES ASSUME Init PROVE IInv
  OBVIOUS
<1>1. LoopInv
  BY InitLoop
<1>2. RequestsShare
  BY AgentTurnAssumption DEF AgentTurnAssumption, Init, RequestsShare, Stages
<1> QED BY <1>1, <1>2 DEF IInv

\* Every step keeps the invariant.
LEMMA Step == IInv /\ [Next]_vars => IInv'
<1> SUFFICES ASSUME IInv, [Next]_vars PROVE IInv'
  OBVIOUS
<1>1. LoopInv'
  BY LoopStep DEF IInv
<1>2. RequestsShare'
  <2>1. CASE Next
    BY <1>1, <2>1, RequestsStep DEF IInv, LoopInv
  <2>2. CASE UNCHANGED vars
    BY <2>2 DEF IInv, RequestsShare, Stages, vars, loopVars
  <2> QED BY <2>1, <2>2
<1> QED BY <1>1, <1>2 DEF IInv

\* The invariant holds in every reachable state, for all budgets and bounds.
THEOREM InductiveInvariant == Spec => []IInv
<1>1. Init => IInv
  BY InitInv
<1>2. IInv /\ [Next]_vars => IInv'
  BY Step
<1> QED BY <1>1, <1>2, PTL DEF Spec

\* Whenever the model is asked, every tool call in the messages has its result.
THEOREM CallsAnswered == Spec => []AnsweredBeforeAsking
<1>1. IInv => AnsweredBeforeAsking
  <2> SUFFICES ASSUME IInv, pc \in Asking \cup {"round", "reading", "streaming"},
                      NEW i \in DOMAIN groups
               PROVE  groups[i].answered = groups[i].asked
    BY DEF AnsweredBeforeAsking
  <2>1. i \in 1..Len(groups) /\ pc \notin Ended \cup {"tools"}
    BY DEF IInv, LoopInv, TypeOK, Asking, Ended
  <2> QED BY <2>1 DEF IInv, LoopInv, LastOpen
<1> QED BY <1>1, InductiveInvariant, PTL

\* No tool runs above the budget and none is refused below it; a turn that loses
\* its tools has used the whole budget and was refused twice.
THEOREM BudgetIsKept == Spec => [](BudgetKept /\ FallbackIsDeserved)
<1>1. IInv => BudgetKept /\ FallbackIsDeserved
  BY AgentTurnAssumption DEF AgentTurnAssumption, IInv, LoopInv, TypeOK, BudgetKept,
        FallbackIsDeserved, RoundsCost, MaxRounds
<1> QED BY <1>1, InductiveInvariant, PTL

\* The bound on rounds neither cuts a turn short, a tool being refused twice before
\* the fallback, nor lets it go on: the requests of a turn are bounded, summaries and
\* retries included.
THEOREM RoundsBounded == Spec => []RoundsSuffice
<1>1. IInv => FallbackIsDeserved
  BY AgentTurnAssumption DEF AgentTurnAssumption, IInv, LoopInv, TypeOK, BudgetKept,
        FallbackIsDeserved, RoundsCost, MaxRounds
<1>2. IInv => RequestsBounded
  <2> SUFFICES ASSUME IInv PROVE requests <= MaxAttempts * (3 * MaxRounds + 1)
    BY DEF RequestsBounded
  <2> USE AgentTurnAssumption DEF AgentTurnAssumption
  <2>1. /\ round \in Int /\ 0 <= round /\ round <= MaxRounds /\ MaxRounds \in Int
        /\ attempt \in Int /\ 0 <= attempt /\ attempt + 1 <= MaxAttempts /\ requests \in Int
        /\ requests <= MaxAttempts * Stages + attempt /\ (pc \notin Asking => attempt = 0)
    BY DEF IInv, LoopInv, TypeOK, RequestsShare, MaxRounds
  <2>2. Stages \in Int /\ Stages <= 3 * MaxRounds + 1 /\ (pc \in Asking => Stages <= 3 * MaxRounds)
    BY <2>1 DEF Stages, Asking
  <2>3. MaxAttempts \in Nat /\ 3 * MaxRounds + 1 \in Int
    BY <2>1
  <2>4. CASE pc \in Asking
    <3>1. requests <= requests + 1 /\ 3 * MaxRounds + 1 >= Stages + 1 /\ attempt + 1 <= MaxAttempts
      BY <2>1, <2>2, <2>4
    <3> QED BY <2>1, <2>2, <2>3, <3>1, Share
  <2>5. CASE pc \notin Asking
    <3>1. 3 * MaxRounds + 1 >= Stages /\ attempt = 0
      BY <2>1, <2>2, <2>5
    <3> QED BY <2>1, <2>2, <2>3, <3>1, Share
  <2> QED BY <2>4, <2>5
<1> QED BY <1>1, <1>2, InductiveInvariant, PTL DEF RoundsSuffice

\* What the prompt shows of the history is what will be persisted.
THEOREM HistoryPersisted == Spec => []PersistedCoversPrompt
<1>1. IInv => PersistedCoversPrompt
  BY DEF IInv, LoopInv
<1> QED BY <1>1, InductiveInvariant, PTL
=============================================================================
