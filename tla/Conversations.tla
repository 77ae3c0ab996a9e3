---------------------------- MODULE Conversations ----------------------------
(***************************************************************************)
(* Stored conversations: a file of messages per conversation and one list  *)
(* of conversations, rewritten in place.  A project's chat reads and writes*)
(* them with an await around every file operation and keeps the history it *)
(* read when the turn began; an agent's chat reads and writes both files   *)
(* without an await when the turn is done.  Clients disconnect at any      *)
(* point of a turn, and the process may die.                               *)
(***************************************************************************)
EXTENDS Naturals, Sequences, Functions

CONSTANTS Requests,               \* turns and deletions, each made once
          ChatConvs, AgentConvs,  \* conversations of the two stores
          MaxCrashes              \* bound: crashes of the process

ASSUME ConversationsAssumption ==
    /\ ChatConvs \cap AgentConvs = {} /\ "none" \notin ChatConvs \cup AgentConvs
    /\ MaxCrashes \in Nat

VARIABLES file,       \* messages of a conversation: absent, whole or cut short, and the turns in it
          listing,    \* the list of each store: whole or cut short, and message counts (0 is not listed)
          request,    \* the requests
          crashes,
          told,       \* turns whose answer was ended with done
          evaluated,  \* turns that were handed to the feedback loop
          dropped,    \* history: turns that compression left out of what a later turn stored
          torn,       \* history: a file was cut short
          alone       \* history: no two requests of one store have overlapped

disk == <<file, listing>>
conversationsVars == <<disk, request, crashes, told, evaluated, dropped, torn, alone>>

Convs == ChatConvs \cup AgentConvs
Stores == {"chat", "agent"}
StoreOf(v) == IF v \in ChatConvs THEN "chat" ELSE "agent"
Absent == [state |-> "absent", turns |-> <<>>]
Cut == [state |-> "cut", turns |-> <<>>]
Whole(s) == [state |-> "whole", turns |-> s]
TurnsIn(v) == Range(file[v].turns)

New == [op |-> "none", pc |-> "new"]
Active(r) == request[r].pc \notin {"new", "ended"}
Conv(r) == request[r].conv
Visits(r) == request[r].op = "visit"
At(r, pc) == request[r].pc = pc
Goto(r, pc) == request' = [request EXCEPT ![r].pc = pc]
End(r) == Goto(r, "ended")

ConversationsInit ==
    /\ file = [v \in Convs |-> Absent]
    /\ listing = [s \in Stores |-> [state |-> "whole", count |-> [v \in Convs |-> 0]]]
    /\ request = [r \in Requests |-> New]
    /\ crashes = 0 /\ told = {} /\ evaluated = {} /\ dropped = {} /\ torn = FALSE /\ alone = TRUE

-----------------------------------------------------------------------------
(* A turn begins: the stored history is read.                               *)

Overlaps(v) == \E r \in Requests : Active(r) /\ ~Visits(r) /\ StoreOf(Conv(r)) = StoreOf(v)

\* A conversation is new, or its id was told to the client.
Known(v) == \E r \in told : Conv(r) = v
Nameable(v) == ~Known(v) => \A r \in Requests : ~At(r, "new") => Conv(r) # v

\* A history that cannot be parsed is an error at once.
BeginTurn(r, v) ==
    /\ At(r, "new") /\ Nameable(v)
    /\ request' = [request EXCEPT ![r] = [op |-> "turn", conv |-> v, hist |-> file[v].turns,
                                          base |-> <<>>, short |-> FALSE, copy |-> <<>>,
                                          pc |-> IF file[v].state = "cut" THEN "ended" ELSE "answering"]]
    /\ alone' = (alone /\ ~Overlaps(v))
    /\ UNCHANGED <<disk, crashes, told, evaluated, dropped, torn>>

\* A public agent's chat without a login has no history.
Visit(r) ==
    /\ At(r, "new")
    /\ request' = [request EXCEPT ![r] = [op |-> "visit", conv |-> "none", hist |-> <<>>, base |-> <<>>,
                                          short |-> FALSE, copy |-> <<>>, pc |-> "answering"]]
    /\ UNCHANGED <<disk, crashes, told, evaluated, dropped, torn, alone>>

\* The agent loop ends: with the whole history, or with what compression kept of it.
Answered(r) ==
    /\ At(r, "answering")
    /\ \E k \in 0..Len(request[r].hist), short \in BOOLEAN :
          /\ k > 0 => short
          /\ request' = [request EXCEPT ![r].pc = "answered", ![r].short = short,
                                        ![r].base = SubSeq(request[r].hist, k + 1, Len(request[r].hist))]
    /\ UNCHANGED <<disk, crashes, told, evaluated, dropped, torn, alone>>

\* The model, a tool or the loop raises.
Fails(r) ==
    /\ At(r, "answering") /\ End(r)
    /\ UNCHANGED <<disk, crashes, told, evaluated, dropped, torn, alone>>

LeftOut(r) == Range(request[r].hist) \ Range(request[r].base)

-----------------------------------------------------------------------------
(* A project's chat: five operations on files, each in a thread.            *)

\* Opening the file for writing empties it.
OpenMessages(r) ==
    /\ At(r, "answered") /\ Conv(r) \in ChatConvs
    /\ file' = [file EXCEPT ![Conv(r)] = Cut]
    /\ Goto(r, "saving")
    /\ UNCHANGED <<listing, crashes, told, evaluated, dropped, torn, alone>>

\* Mutant of WriteMessages: only the new turn is written.
WriteMessagesOnly(r) ==
    /\ At(r, "saving") /\ Goto(r, "saved")
    /\ file' = [file EXCEPT ![Conv(r)] = Whole(<<r>>)]
    /\ dropped' = dropped \cup LeftOut(r)
    /\ UNCHANGED <<listing, crashes, told, evaluated, torn, alone>>

\* What is written is the history as it was when the turn began, and the turn.
WriteMessages(r) ==
    /\ At(r, "saving") /\ Goto(r, "saved")
    /\ file' = [file EXCEPT ![Conv(r)] = Whole(Append(request[r].base, r))]
    /\ dropped' = dropped \cup LeftOut(r)
    /\ UNCHANGED <<listing, crashes, told, evaluated, torn, alone>>

Count(r) == Len(request[r].base) + 1

\* Mutant of ReadList: a list that cannot be parsed counts as empty.
ReadListAnyway(r) ==
    /\ At(r, "saved") \/ At(r, "unlinked")
    /\ request' = [request EXCEPT ![r].pc = "listed",
                                  ![r].copy = [listing["chat"].count EXCEPT
                                      ![Conv(r)] = IF request[r].op = "turn" THEN Count(r) ELSE 0]]
    /\ UNCHANGED <<disk, crashes, told, evaluated, dropped, torn, alone>>

\* A list that cannot be parsed is an error: the turn is stored and never listed.
ReadList(r) ==
    /\ At(r, "saved") \/ At(r, "unlinked")
    /\ IF listing["chat"].state = "cut" THEN End(r)
       ELSE request' = [request EXCEPT ![r].pc = "listed",
                                       ![r].copy = [listing["chat"].count EXCEPT
                                           ![Conv(r)] = IF request[r].op = "turn" THEN Count(r) ELSE 0]]
    /\ UNCHANGED <<disk, crashes, told, evaluated, dropped, torn, alone>>

EmptyList == [state |-> "cut", count |-> [v \in Convs |-> 0]]
OpenList(r) ==
    /\ At(r, "listed") /\ Goto(r, "listing")
    /\ listing' = [listing EXCEPT !["chat"] = EmptyList]
    /\ UNCHANGED <<file, crashes, told, evaluated, dropped, torn, alone>>

\* The list is written, and the answer ends with done and the conversation's id.
WriteList(r) ==
    /\ At(r, "listing")
    /\ listing' = [listing EXCEPT !["chat"] = [state |-> "whole", count |-> request[r].copy]]
    /\ IF request[r].op = "turn" THEN told' = told \cup {r} /\ Goto(r, "done")
       ELSE UNCHANGED told /\ End(r)
    /\ UNCHANGED <<file, crashes, evaluated, dropped, torn, alone>>

\* DELETE of a project's conversation; the list is rewritten as after a turn.
BeginDelete(r, v) ==
    /\ At(r, "new") /\ Known(v) /\ v \in ChatConvs
    /\ request' = [request EXCEPT ![r] = [op |-> "delete", conv |-> v, pc |-> "unlinked", hist |-> <<>>,
                                          base |-> <<>>, short |-> FALSE, copy |-> <<>>]]
    /\ file' = [file EXCEPT ![v] = Absent]
    /\ dropped' = dropped \cup {q \in told : Conv(q) = v}
    /\ alone' = (alone /\ ~Overlaps(v))
    /\ UNCHANGED <<listing, crashes, told, evaluated, torn>>

-----------------------------------------------------------------------------
(* An agent's chat: append_turn and delete_conversation do not await.       *)

\* The messages as they are now, or what compression kept of those read before.
Stored(r) == Append(IF request[r].short THEN request[r].base ELSE file[Conv(r)].turns, r)

\* Mutant of AppendTurn: the history of the request is stored, as in a project's chat.
AppendTurnStale(r) ==
    LET v == Conv(r)  s == Append(request[r].base, r) IN
    /\ At(r, "answered") /\ v \in AgentConvs
    /\ IF file[v].state = "cut" THEN End(r) /\ UNCHANGED <<disk, told, dropped>>
       ELSE /\ file' = [file EXCEPT ![v] = Whole(s)]
            /\ dropped' = IF request[r].short THEN dropped \cup LeftOut(r) ELSE dropped
            /\ listing' = [listing EXCEPT !["agent"].count[v] = Len(s)]
            /\ told' = told \cup {r} /\ Goto(r, "done")
    /\ UNCHANGED <<crashes, evaluated, torn, alone>>

\* A file that cannot be parsed is an error, unless compression replaces it; so is the list.
AppendTurn(r) ==
    LET v == Conv(r)  unread == file[v].state = "cut" /\ ~request[r].short IN
    /\ At(r, "answered") /\ v \in AgentConvs
    /\ file' = IF unread THEN file ELSE [file EXCEPT ![v] = Whole(Stored(r))]
    /\ dropped' = IF request[r].short /\ ~unread THEN dropped \cup LeftOut(r) ELSE dropped
    /\ IF unread \/ listing["agent"].state = "cut" THEN End(r) /\ UNCHANGED <<listing, told>>
       ELSE /\ listing' = [listing EXCEPT !["agent"].count[v] = Len(Stored(r))]
            /\ told' = told \cup {r} /\ Goto(r, "done")
    /\ UNCHANGED <<crashes, evaluated, torn, alone>>

\* Nothing is stored of a turn without a login.
PassOn(r) ==
    /\ At(r, "answered") /\ Visits(r) /\ Goto(r, "done")
    /\ UNCHANGED <<disk, crashes, told, evaluated, dropped, torn, alone>>

DeleteAgentConv(r, v) ==
    /\ At(r, "new") /\ Known(v) /\ v \in AgentConvs
    /\ file' = [file EXCEPT ![v] = Absent]
    /\ listing' = [listing EXCEPT !["agent"].count[v] = 0]
    /\ request' = [request EXCEPT ![r] = [op |-> "delete", conv |-> v, pc |-> "ended", hist |-> <<>>,
                                          base |-> <<>>, short |-> FALSE, copy |-> <<>>]]
    /\ dropped' = dropped \cup {q \in told : Conv(q) = v}
    /\ alone' = (alone /\ ~Overlaps(v))
    /\ UNCHANGED <<crashes, told, evaluated, torn>>

-----------------------------------------------------------------------------
(* The end of a turn, and what cuts it short.                               *)

\* A client that is still there has its turn evaluated if tools were used.
Finish(r) ==
    /\ At(r, "done") /\ End(r)
    /\ evaluated' \in {evaluated, evaluated \cup {r}}
    /\ UNCHANGED <<disk, crashes, told, dropped, torn, alone>>

\* The task of an answer is cancelled wherever it waits.  A file it has opened is
\* closed by the thread at work, with what was to be written or empty.
Disconnect(r) ==
    /\ Active(r) /\ request[r].op # "delete" /\ End(r)
    /\ file' \in {file} \cup IF At(r, "saving")
                             THEN {[file EXCEPT ![Conv(r)] = Whole(Append(request[r].base, r))]} ELSE {}
    /\ listing' \in {listing} \cup IF At(r, "listing")
                 THEN {[listing EXCEPT !["chat"] = [state |-> "whole", count |-> request[r].copy]]} ELSE {}
    /\ torn' = (torn \/ request[r].pc \in {"saving", "saved", "listed", "listing"})
    /\ UNCHANGED <<crashes, told, evaluated, dropped, alone>>

\* Files that are open stay empty; an agent's turn may be cut in either of its files
\* or between them.
Crash ==
    /\ crashes < MaxCrashes
    /\ crashes' = crashes + 1
    /\ request' = [r \in Requests |-> IF Active(r) THEN [request[r] EXCEPT !.pc = "ended"] ELSE request[r]]
    /\ \/ UNCHANGED disk
       \/ \E r \in Requests : At(r, "answered") /\ Conv(r) \in AgentConvs
             /\ \/ file' = [file EXCEPT ![Conv(r)] = Cut] /\ UNCHANGED listing
                \/ /\ file' = [file EXCEPT ![Conv(r)] = Whole(Stored(r))]
                   /\ listing' \in {listing, [listing EXCEPT !["agent"] = EmptyList]}
    /\ torn' = (torn \/ \E r \in Requests : Active(r) /\ request[r].pc \notin {"answering", "done"})
    /\ UNCHANGED <<told, evaluated, dropped, alone>>

Step(r) ==
    \/ \E v \in Convs : BeginTurn(r, v) \/ BeginDelete(r, v) \/ DeleteAgentConv(r, v)
    \/ Visit(r) \/ Answered(r) \/ Fails(r) \/ Finish(r) \/ Disconnect(r)
    \/ OpenMessages(r) \/ WriteMessages(r) \/ ReadList(r) \/ OpenList(r) \/ WriteList(r)
    \/ AppendTurn(r) \/ PassOn(r)

ConversationsNext == Crash \/ \E r \in Requests : Step(r)

ConversationsSpec == ConversationsInit /\ [][ConversationsNext]_conversationsVars

-----------------------------------------------------------------------------
(* Properties.                                                              *)

Pcs == {"new", "answering", "answered", "saving", "saved", "unlinked", "listed", "listing", "done", "ended"}
Asked == [op : {"turn", "visit", "delete"}, conv : Convs \cup {"none"}, hist : Seq(Requests),
          base : Seq(Requests), short : BOOLEAN, copy : {<<>>} \cup [Convs -> Nat], pc : Pcs \ {"new"}]
ConversationsTypeOK ==
    /\ file \in [Convs -> [state : {"absent", "whole", "cut"}, turns : Seq(Requests)]]
    /\ \A v \in Convs : (file[v].state = "whole") <=> (file[v].turns # <<>>)
    /\ listing \in [Stores -> [state : {"whole", "cut"}, count : [Convs -> Nat]]]
    /\ request \in [Requests -> {New} \cup Asked]
    /\ crashes \in 0..MaxCrashes
    /\ told \subseteq Requests /\ evaluated \subseteq Requests /\ dropped \subseteq Requests
    /\ torn \in BOOLEAN /\ alone \in BOOLEAN

Quiet(s) == \A r \in Requests : Active(r) /\ ~Visits(r) => StoreOf(Conv(r)) # s

\* Turns of v that the client was told are stored, and that were not given up since.
Kept(v) == {r \in told : Conv(r) = v} \ dropped

\* A conversation holds what was told, no less and no more: compression and deletion
\* are the only ways out of it, as long as requests do not overlap and no file was cut
\* (chat/router.py:107-160, conversations.py:56-100).
HoldsWhatWasTold ==
    alone /\ ~torn => \A v \in Convs : Quiet(StoreOf(v)) => TurnsIn(v) = Kept(v)

\* An agent's chat reads the file when the turn is done, so turns of a conversation may
\* overlap: none is lost unless one of them was compressed.
AgentKeeps ==
    ~torn => \A r \in told : Conv(r) \in AgentConvs /\ r \notin dropped
                    /\ (\A q \in Requests : ~At(q, "new") /\ Conv(q) = Conv(r) => ~request[q].short)
                 => r \in TurnsIn(Conv(r))

\* The count in the list is that of the file, for an agent's chat also when turns overlap.
ListAgrees ==
    ~torn => \A v \in Convs : (v \in AgentConvs \/ (alone /\ Quiet("chat")))
                 => listing[StoreOf(v)].count[v] = Len(file[v].turns)

\* A list that was cut is not replaced by a shorter one: what was told and not deleted is
\* listed whenever there is a list, also after disconnects and crashes.
ToldIsListed ==
    alone => \A s \in Stores : Quiet(s) /\ listing[s].state = "whole"
                => \A r \in told \ dropped : StoreOf(Conv(r)) = s => listing[s].count[Conv(r)] > 0

\* Only an answer that was stored is handed to the feedback loop (chat/router.py:183-195,
\* feedback/trigger.py:54-73), unless there was no login to store it for.
EvaluatedIsTold == \A r \in evaluated : Visits(r) \/ r \in told

-----------------------------------------------------------------------------
(* The inductive invariant.                                                 *)

\* Where a turn or a deletion of a project's chat is while it rewrites its files.
Writing == {"saving", "saved", "unlinked", "listed", "listing"}
PhasesFit ==
    \A r \in Requests : ~At(r, "new") =>
        /\ Visits(r) <=> Conv(r) = "none"
        /\ request[r].pc \in Writing => Conv(r) \in ChatConvs
        /\ request[r].op = "delete" => request[r].pc \in {"unlinked", "listed", "listing", "ended"}
        /\ At(r, "unlinked") => request[r].op = "delete"
        /\ At(r, "answering") => ~request[r].short
        /\ request[r].pc \in {"listed", "listing"} => request[r].copy \in [Convs -> Nat]
        /\ At(r, "done") => Visits(r) \/ r \in told

\* What is stored, was read or was dropped of a conversation are turns of it that have
\* got to writing; what was told has been written.
Wrote(q, v) ==
    /\ request[q].op = "turn" /\ Conv(q) = v
    /\ request[q].pc \in {"saved", "listed", "listing", "done", "ended"}
TurnsFit ==
    /\ \A v \in Convs : \A q \in TurnsIn(v) : Wrote(q, v)
    /\ \A r \in Requests : ~At(r, "new") =>
          /\ \A q \in Range(request[r].hist) : Wrote(q, Conv(r))
          /\ Range(request[r].base) \subseteq Range(request[r].hist)
    /\ \A q \in dropped : Wrote(q, Conv(q))
    /\ \A q \in told : Wrote(q, Conv(q)) /\ request[q].pc \in {"done", "ended"}

Works(r) == Active(r) /\ ~Visits(r)
Alone ==
    alone => \A r, q \in Requests :
        Works(r) /\ Works(q) /\ StoreOf(Conv(r)) = StoreOf(Conv(q)) => r = q

\* How far the file of a conversation is from what was told, while a turn is stored.
SavesTurn(r, v) == At(r, "saving") /\ Conv(r) = v
StoredTurn(r, v) == request[r].op = "turn" /\ request[r].pc \in {"saved", "listed", "listing"} /\ Conv(r) = v
MessagesKept ==
    alone /\ ~torn => \A v \in Convs :
        /\ (\A r \in Requests : ~SavesTurn(r, v) /\ ~StoredTurn(r, v)) =>
              TurnsIn(v) = Kept(v) /\ file[v].state # "cut"
        /\ \A r \in Requests :
              /\ SavesTurn(r, v) => Range(request[r].hist) = Kept(v)
              /\ StoredTurn(r, v) => TurnsIn(v) = Kept(v) \cup {r} /\ r \notin dropped
              /\ request[r].op = "turn" /\ request[r].pc \in {"answering", "answered"} /\ Conv(r) = v =>
                    request[r].hist = file[v].turns

\* How far the list of a project's conversations is from the files.
Lists(r) == request[r].pc \in {"listed", "listing"}
CountsKept ==
    alone /\ ~torn =>
        /\ (\A r \in Requests : request[r].pc \notin Writing) =>
              \A v \in ChatConvs : listing["chat"].count[v] = Len(file[v].turns)
        /\ \A r \in Requests :
              /\ request[r].pc \in {"saving", "saved", "unlinked"} =>
                    \A v \in ChatConvs : v # Conv(r) => listing["chat"].count[v] = Len(file[v].turns)
              /\ At(r, "saved") => Len(file[Conv(r)].turns) = Count(r)
              /\ At(r, "unlinked") => file[Conv(r)] = Absent
              /\ Lists(r) => \A v \in ChatConvs : request[r].copy[v] = Len(file[v].turns)

\* A list, also one that is about to be written, has what was told and not dropped.
Covers(count) == \A q \in told \ dropped : Conv(q) \in ChatConvs => count[Conv(q)] > 0
ListKept ==
    /\ ~torn /\ listing["chat"].state = "cut" => \E r \in Requests : At(r, "listing")
    /\ alone =>
        /\ listing["chat"].state = "whole" => Covers(listing["chat"].count)
        /\ \A r \in Requests :
              /\ Lists(r) => Covers(request[r].copy) /\ (request[r].op = "turn" => request[r].copy[Conv(r)] > 0)
              /\ request[r].op = "delete" /\ Active(r) =>
                    \A q \in told : Conv(q) = Conv(r) => q \in dropped

\* Files of an agent are cut by a crash only, and its list then stays cut.
AgentsKept ==
    /\ ~torn => listing["agent"].state = "whole" /\ \A v \in AgentConvs :
          file[v].state # "cut" /\ listing["agent"].count[v] = Len(file[v].turns)
    /\ listing["agent"].state = "whole" =>
          \A q \in told \ dropped : Conv(q) \in AgentConvs => listing["agent"].count[Conv(q)] > 0

ConversationsIInv ==
    /\ ConversationsTypeOK /\ PhasesFit /\ TurnsFit /\ Alone /\ MessagesKept /\ CountsKept /\ ListKept
    /\ AgentsKept /\ AgentKeeps /\ EvaluatedIsTold

\* Files, lists and what clients were told agree as stated above
\* (chat/router.py:80-195, agents/conversations.py:80), inductively.
ConversationsInv == ConversationsIInv /\ ListAgrees /\ ToldIsListed
=============================================================================
