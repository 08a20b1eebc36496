--------------------------- MODULE SessionHistory ---------------------------
(* The chat history of the REPL (cliui/repl.go) and its record on disk
   (cliui/session.go): turns that are committed or rolled back, compaction
   (agent/compact.go), /clear, the JSONL file of a session, crashes,
   failed writes, resume, and several chats over one directory of sessions.
   A message is its role, the turn it belongs to, the number of its tool call
   and, for a user message, the turns whose content it carries: its own, and
   after a compaction those of the summary in front of it. *)
EXTENDS Integers, Sequences, SequencesExt, FiniteSets, FiniteSetsExt

CONSTANTS
    Chats,       \* the chat processes
    Keep,        \* agent.compaction.keep_recent_turns
    MaxTurns,    \* bound: turns started by all chats together
    MaxOpens,    \* bound: sessions opened, resumed or rotated to
    MaxSecond,   \* bound: the clock that session IDs are made of
    MaxFaults    \* bound: failed writes and crashes

ASSUME KeepAssumption == Keep \in Nat /\ Keep > 0    \* config.go:615 makes 0 the default
ASSUME BoundsAssumption == MaxTurns \in Nat /\ MaxSecond \in Nat

VARIABLES
    at,        \* per chat: "off", "prompt" or "record" (in commitTurn)
    history,   \* st.history
    queue,     \* the messages of the turn that recordSession has yet to write
    id,        \* the session ID: the second it was made in and a suffix
    files,     \* the session files: the lines of each ID
    clock, started, opened, faults,
    said,      \* history: the turns committed since the chat was opened or cleared
    unsound,   \* history: IDs whose file lost a line or had two writers
    heir       \* history: the chats that resumed an unsound file

chat == <<at, history, queue, id, said, heir>>
vars == <<chat, files, clock, started, opened, faults, unsound>>

NoID == <<0, 0>>
SessionIDs == (1 .. MaxSecond) \X (1 .. MaxTurns + 1)    \* at most one file per turn

User(t)      == [role |-> "user", turn |-> t, call |-> 0, covers |-> {t}]
Assistant(t) == [role |-> "assistant", turn |-> t, call |-> 0, covers |-> {}]
Call(t, n)   == [role |-> "call", turn |-> t, call |-> n, covers |-> {}]
Result(t, n) == [role |-> "tool", turn |-> t, call |-> n, covers |-> {}]

\* A piece of a line without its end, and a line that was appended to one.
Torn    == [role |-> "torn"]
Spoiled == [role |-> "spoiled"]

IsUser(m) == m.role = "user"
IsCall(m) == m.role = "call"

-----------------------------------------------------------------------------
(* Compaction. *)

\* The k-th of a set of numbers in ascending order.
Nth(S, k) == CHOOSE n \in S : Cardinality({m \in S : m <= n}) = k

\* userTurnStarts; the history holds no system message, as the system prompt
\* travels beside it.
userTurnStarts(h) == {i \in DOMAIN h : IsUser(h[i])}

\* The index of the first message that CompactMessages keeps; 1: none is cut.
cutIdx(h) ==
    LET starts == userTurnStarts(h)
        turns  == Cardinality(starts)
    IN  IF Keep >= turns THEN 1 ELSE Nth(starts, turns - Keep + 1)

Covered(h) == UNION {h[i].covers : i \in DOMAIN h}

\* Mutation: what is cut is forgotten.
CompactForgetful(h) == SubSeq(h, cutIdx(h), Len(h))

\* CompactMessages with a summary: it goes in front of the first kept user message.
CompactMessages(h) ==
    LET cut == cutIdx(h) IN
    IF cut = 1 THEN h
    ELSE LET head == [h[cut] EXCEPT !.covers = @ \cup Covered(SubSeq(h, 1, cut - 1))]
         IN  <<head>> \o SubSeq(h, cut + 1, Len(h))

-----------------------------------------------------------------------------
(* Session files. *)

Exists(i) == files[i] # <<>>

\* newSessionID in second s: the first suffix that has no file.
newSessionID(s) == <<s, Min({n \in 1 .. MaxTurns + 1 : ~ Exists(<<s, n>>)})>>

\* latestSessionID: the last in lexical order (which is that of suffixes of one digit).
Earlier(i, j) == i[1] < j[1] \/ (i[1] = j[1] /\ i[2] < j[2])
latestSessionID ==
    CHOOSE i \in SessionIDs : Exists(i) /\ \A j \in SessionIDs : Exists(j) => ~ Earlier(i, j)

\* loadSession: lines that are no JSON are skipped.
loadSession(i) ==
    LET good == {n \in DOMAIN files[i] : files[i][n] \notin {Torn, Spoiled}}
    IN  [k \in 1 .. Cardinality(good) |-> files[i][Nth(good, k)]]

\* Mutation: a new line is begun after a torn one.
AppendAfterTorn(lines, m) == Append(lines, m)

\* O_APPEND after a torn line completes it to a line that is no JSON, or leaves it
\* without its end once more.
AppendLine(lines, m) ==
    IF lines # <<>> /\ Last(lines) = Torn
    THEN Append(Front(lines), IF m = Torn THEN Torn ELSE Spoiled)
    ELSE Append(lines, m)

-----------------------------------------------------------------------------
Init ==
    /\ at = [c \in Chats |-> "off"]
    /\ history = [c \in Chats |-> <<>>]
    /\ queue = [c \in Chats |-> <<>>]
    /\ id = [c \in Chats |-> NoID]
    /\ said = [c \in Chats |-> {}]
    /\ heir = [c \in Chats |-> FALSE]
    /\ files = [i \in SessionIDs |-> <<>>]
    /\ clock = 1 /\ started = 0 /\ opened = 0 /\ faults = 0
    /\ unsound = {}

Shared(c, i) == \E d \in Chats \ {c} : at[d] # "off" /\ id[d] = i

\* The process is gone, and its memory with it.
Leave(c) ==
    /\ at' = [at EXCEPT ![c] = "off"]
    /\ history' = [history EXCEPT ![c] = <<>>]
    /\ queue' = [queue EXCEPT ![c] = <<>>]
    /\ id' = [id EXCEPT ![c] = NoID]
    /\ said' = [said EXCEPT ![c] = {}]
    /\ heir' = [heir EXCEPT ![c] = FALSE]

\* The session of a chat is now i, with history h.
Begin(c, i, h) ==
    /\ opened < MaxOpens
    /\ opened' = opened + 1
    /\ id' = [id EXCEPT ![c] = i]
    /\ history' = [history EXCEPT ![c] = h]
    /\ said' = [said EXCEPT ![c] = Covered(h)]
    /\ unsound' = IF Shared(c, i) THEN unsound \cup {i} ELSE unsound
    /\ heir' = [heir EXCEPT ![c] = i \in unsound']
    /\ at' = [at EXCEPT ![c] = "prompt"]
    /\ UNCHANGED <<queue, files, started, faults>>

BeginNew(c) ==
    /\ clock' \in clock .. MaxSecond
    /\ Begin(c, newSessionID(clock'), <<>>)

\* runChatSession and Run, up to the first prompt: a new session, or the latest
\* one resumed.
Open(c) == at[c] = "off" /\ BeginNew(c)

ResumeLatestSession(c) ==
    /\ at[c] = "off"
    /\ IF \E i \in SessionIDs : Exists(i)
       THEN Begin(c, latestSessionID, loadSession(latestSessionID)) /\ UNCHANGED clock
       ELSE BeginNew(c)

\* Mutation: a turn without an answer leaves its user message behind.
CommitKeepingUser(c, userMsg, turnMessages) ==
    /\ history' = [history EXCEPT ![c] = Append(@, userMsg) \o turnMessages]
    /\ queue' = [queue EXCEPT ![c] = IF turnMessages = <<>> THEN <<>>
                                     ELSE <<userMsg>> \o turnMessages]
    /\ said' = [said EXCEPT ![c] = IF turnMessages = <<>> THEN @ ELSE @ \cup {userMsg.turn}]
    /\ at' = [at EXCEPT ![c] = "record"]

\* commitTurn: the history at once, the record message by message.
commitTurn(c, userMsg, turnMessages) ==
    /\ IF turnMessages = <<>>
       THEN UNCHANGED <<history, queue, said>>
       ELSE LET turn == <<userMsg>> \o turnMessages IN
            /\ history' = [history EXCEPT ![c] = @ \o turn]
            /\ queue' = [queue EXCEPT ![c] = turn]
            /\ said' = [said EXCEPT ![c] = @ \cup {userMsg.turn}]
    /\ at' = [at EXCEPT ![c] = "record"]

\* nextAutomaticToolCallID: the calls in the history are counted.
nextAutomaticToolCallID(h) == 1 + Cardinality({i \in DOMAIN h : IsCall(h[i])})

\* What finishTurn may return for a turn: nothing, a text that was cut short or
\* complete, or a complete answer after an automatic tool call.
TurnResults(h, t) ==
    LET n == nextAutomaticToolCallID(h)
    IN  {<<>>, <<Assistant(t)>>, <<Call(t, n), Result(t, n), Assistant(t)>>}

\* executeMessage up to commitTurn, for a line or for /image.
executeMessage(c) ==
    /\ at[c] = "prompt"
    /\ started < MaxTurns
    /\ started' = started + 1
    /\ \E result \in TurnResults(history[c], started') :
           commitTurn(c, User(started'), result)
    /\ UNCHANGED <<id, heir, files, clock, opened, faults, unsound>>

\* recordSession of the next message.
Record(c) ==
    /\ queue[c] # <<>>
    /\ files' = [files EXCEPT ![id[c]] = AppendLine(@, Head(queue[c]))]
    /\ queue' = [queue EXCEPT ![c] = Tail(@)]
    /\ unsound' = IF Shared(c, id[c]) THEN unsound \cup {id[c]} ELSE unsound
    /\ UNCHANGED <<at, history, id, said, heir, clock, started, opened, faults>>

\* The write fails, with nothing or a piece of the line written; the chat goes on.
RecordFails(c) ==
    /\ queue[c] # <<>>
    /\ faults < MaxFaults
    /\ \/ UNCHANGED files
       \/ files' = [files EXCEPT ![id[c]] = AppendLine(@, Torn)]
    /\ queue' = [queue EXCEPT ![c] = Tail(@)]
    /\ unsound' = unsound \cup {id[c]}
    /\ faults' = faults + 1
    /\ UNCHANGED <<at, history, id, said, heir, clock, started, opened>>

\* The rest of executeMessage: the end of the chat (Ctrl-C in the turn, a signal),
\* or the check of the usage and a compaction, which any failure or interrupt
\* leaves without effect.
EndTurn(c) ==
    /\ at[c] = "record" /\ queue[c] = <<>>
    /\ \/ Leave(c)
       \/ /\ at' = [at EXCEPT ![c] = "prompt"]
          /\ history' \in {history, [history EXCEPT ![c] = CompactMessages(@)]}
          /\ UNCHANGED <<queue, id, said, heir>>
    /\ UNCHANGED <<files, clock, started, opened, faults, unsound>>

\* /compact, when it succeeds.
SlashCompact(c) ==
    /\ at[c] = "prompt"
    /\ history' = [history EXCEPT ![c] = CompactMessages(@)]
    /\ UNCHANGED <<at, queue, id, said, heir, files, clock, started, opened, faults, unsound>>

\* Mutation: the history is dropped and the file kept.
ClearKeepingFile(c) ==
    /\ at[c] = "prompt"
    /\ history' = [history EXCEPT ![c] = <<>>]
    /\ said' = [said EXCEPT ![c] = {}]
    /\ UNCHANGED <<at, queue, id, heir, files, clock, started, opened, faults, unsound>>

\* /clear: the history is dropped and the recorder rotated to a new session.
Clear(c) == at[c] = "prompt" /\ BeginNew(c)

\* /quit, end of input, Ctrl-C at the prompt.
Quit(c) ==
    /\ at[c] = "prompt"
    /\ Leave(c)
    /\ UNCHANGED <<files, clock, started, opened, faults, unsound>>

\* The process dies in the middle of a record, perhaps of a write.
Crash(c) ==
    /\ queue[c] # <<>>
    /\ faults < MaxFaults
    /\ \/ UNCHANGED files
       \/ files' = [files EXCEPT ![id[c]] = AppendLine(@, Torn)]
    /\ Leave(c)
    /\ unsound' = unsound \cup {id[c]}
    /\ faults' = faults + 1
    /\ UNCHANGED <<clock, started, opened>>

Next ==
    \E c \in Chats :
        \/ Open(c) \/ ResumeLatestSession(c)
        \/ executeMessage(c) \/ Record(c) \/ RecordFails(c) \/ EndTurn(c)
        \/ SlashCompact(c) \/ Clear(c) \/ Quit(c) \/ Crash(c)

Spec == Init /\ [][Next]_vars

-----------------------------------------------------------------------------
TypeOK ==
    /\ at \in [Chats -> {"off", "prompt", "record"}]
    /\ \A c \in Chats : at[c] = "off" <=> id[c] = NoID
    /\ \A c \in Chats : queue[c] # <<>> => at[c] = "record" /\ IsSuffix(queue[c], history[c])
    /\ \A i \in SessionIDs : \A n \in 1 .. Len(files[i]) - 1 : files[i][n] # Torn
    /\ unsound \subseteq SessionIDs

\* What providers accept (and llama-server answers with 400 otherwise, repl.go:201):
\* no two user messages in a row, every call followed by its own result, no
\* result without its call.
Accepted(h) ==
    /\ h # <<>> => IsUser(h[1])
    /\ \A i \in 2 .. Len(h) :
           /\ ~ (IsUser(h[i - 1]) /\ IsUser(h[i]))
           /\ (h[i].role = "tool") <=> IsCall(h[i - 1])
           /\ IsCall(h[i - 1]) => h[i].call = h[i - 1].call
    /\ h # <<>> => ~ IsCall(Last(h))

\* The history with the next user message is one that providers accept, through
\* rollbacks, compactions, /clear and resumes of sound files: executeMessage,
\* commitTurn and CompactMessages never leave a chat that can only be refused.
HistoryIsAccepted ==
    \A c \in Chats :
        at[c] = "prompt" /\ ~ heir[c] => Accepted(Append(history[c], User(0)))

\* Compaction forgets nothing: what the chat carries, in messages or summaries,
\* is every turn committed since it was opened or cleared, however often and in
\* whatever order it was compacted (CompactMessages, shouldCompact, /compact).
TurnsAreRemembered ==
    \A c \in Chats : at[c] = "prompt" => Covered(history[c]) = said[c]

\* The file of a session with one writer and no fault holds the whole chat, from
\* its start or the last /clear: what the history kept in full is the end of it,
\* and a resume would bring every turn back, summarised ones included.
RecordIsComplete ==
    \A c \in Chats :
        at[c] = "prompt" /\ ~ heir[c] /\ id[c] \notin unsound =>
            /\ Covered(loadSession(id[c])) = said[c]
            /\ history[c] # <<>> => IsSuffix(Tail(history[c]), loadSession(id[c]))

\* loop.go:789 of nextAutomaticToolCallID: an ID that is not used twice in the
\* same history.
CallIDsAreUnique ==
    \A c \in Chats : \A i, j \in DOMAIN history[c] :
        IsCall(history[c][i]) /\ IsCall(history[c][j]) /\ i # j =>
            history[c][i].call # history[c][j].call

Symmetry == Permutations(Chats)
=============================================================================
