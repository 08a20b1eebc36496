---------------------------- MODULE TerminalTurn ----------------------------
(* The chat on a terminal (cliui/repl.go, rawmode.go, approval_prompt.go): the
   prompt with its line editor, a turn that is watched for keys, approval
   prompts, and compaction. One goroutine reads the bytes of the user, in
   whichever of these it is; the agent runs beside it. The terminal is raw
   throughout: Enter is CR. A lone ESC is told from a sequence by the bytes that
   follow at once, and a terminal sends the bytes of a sequence together. *)
EXTENDS LineEditor

CONSTANTS
    Keys,        \* what the user may type, see Unit
    MaxKeys,     \* bound: units typed
    MaxAhead,    \* bound: bytes not yet taken when the next unit is typed
    MaxAsks      \* bound: approvals asked for

\* What is typed by hand is told from what is pasted: "p" and "q" stand for the lines
\* of a paste, and the last byte of a marker comes with its first. The lines of the
\* history file were typed, so that they fit.
TypingAssumption ==
    /\ MaxLine \in Nat \ {0, 1} /\ MaxEntries \in Nat
    /\ Keys \subseteq {"Paste", "Arrow", "Line", "Yes"}
                      \cup (Bytes \ {"p", "q", "200~", "201~"})

ASSUME TypingAssumption

VARIABLES
    input,       \* bytes typed and not yet taken: the terminal, bytePump and its channel
    pending,     \* pump.pending
    ed,          \* the line editor
    mode,        \* what the REPL goroutine is in, see TypeOK
    acc,         \* bytes collected by passThroughEscSequence or readAnswerLine
    turn,        \* turnState, and runTurn's quit
    agent,       \* the goroutine of svc.Run: "off", "working", "deciding", "done"
    ask,         \* the call last offered for approval: "none", "offered", "shown" or
                 \* what Decide returned for it
    expired,     \* its timeout has passed
    reply,       \* its reply channel
    shown,       \* the prompt handleApprovalPrompt is at: "no", "own" for the call in ask,
                 \* "stale" for one that Decide has given up
    asks, typed,
    yes,         \* history: the prompt of the call in ask got a yes
    bitten       \* history: a paste lost bytes to something other than editor and turn

editor == <<input, pending, ed>>
approval == <<agent, asks, ask, expired, reply, shown, yes>>
vars == <<input, pending, ed, mode, acc, turn, agent, asks, ask, expired, reply, shown,
          typed, yes, bitten>>

NewTurn == [interrupted |-> FALSE, pasteActive |-> FALSE, quit |-> FALSE]

\* Bound: the history file a chat starts with, the newest line first.
OldLines == << <<Char("n")>>, <<Char("y"), Char("n")>> >>

\* The bytes of what the user types: one paste of two lines, an
\* arrow, a line that is entered, one that ends with Ctrl-J, or a key.
PasteBytes == pasteStart \o <<"p", "Enter", "q">> \o pasteEnd
Unit(k) ==
    CASE k = "Paste" -> PasteBytes
      [] k = "Arrow" -> <<"esc", "[", "A">>
      [] k = "Line" -> <<"y", "Enter">>
      [] k = "Yes" -> <<"y", "LF">>
      [] OTHER -> <<k>>

Init ==
    /\ input = <<>> /\ pending = <<>> /\ acc = <<>>
    /\ ed = NewTerminal(OldLines)
    /\ mode = "prompt" /\ turn = NewTurn
    /\ agent = "off" /\ asks = 0 /\ ask = "none" /\ expired = FALSE
    /\ reply = "none" /\ shown = "no" /\ yes = FALSE
    /\ typed = 0 /\ bitten = FALSE

Type ==
    /\ typed < MaxKeys /\ mode # "ended"
    /\ Len(input) <= MaxAhead
    /\ typed' = typed + 1
    /\ \E k \in Keys : input' = input \o Unit(k)
    /\ UNCHANGED <<pending, ed, mode, acc, turn, approval, bitten>>

-----------------------------------------------------------------------------
(* The prompt. *)

Parsed == bytesToKey(ed.remainder, ed.pasteActive).key # "incomplete"

\* pumpReader.Read: what was pushed back, or what has arrived so far.
EditorRead ==
    /\ mode = "prompt" /\ ~ Parsed
    /\ IF pending # <<>>
       THEN /\ ed' = [ed EXCEPT !.remainder = @ \o pending]
            /\ pending' = <<>>
            /\ UNCHANGED input
       ELSE \E n \in 1 .. Len(input) :
            /\ ed' = [ed EXCEPT !.remainder = @ \o SubSeq(input, 1, n)]
            /\ input' = SubSeq(input, n + 1, Len(input))
            /\ UNCHANGED pending
    /\ UNCHANGED <<mode, acc, turn, approval, typed, bitten>>

\* One key in readLine; the end of input ends the chat, and a line that is not
\* blank starts a turn.
EditorKey ==
    /\ mode = "prompt" /\ Parsed
    /\ LET e == readKey(ed)
           k == bytesToKey(ed.remainder, ed.pasteActive)
       IN  /\ ed' = [e EXCEPT !.result = "none"]
           /\ bitten' = (bitten \/ (k.key = "Unknown" /\ ed.remainder[k.size] \in {"200~", "201~"}))
           /\ CASE e.result = "eof" -> mode' = "ended" /\ UNCHANGED <<turn, agent>>
                [] e.result = "line" /\ e.text # <<>> ->
                       mode' = "turn" /\ turn' = NewTurn /\ agent' = "working"
                [] OTHER -> UNCHANGED <<mode, turn, agent>>
    /\ UNCHANGED <<input, pending, acc, asks, ask, expired, reply, shown, typed, yes>>

-----------------------------------------------------------------------------
(* Keys during a turn. *)

Interrupt == turn' = [turn EXCEPT !.interrupted = TRUE]

\* Mutation: ESC interrupts at once.
TurnKeyAtOnce ==
    /\ mode \in {"turn", "key"} /\ input # <<>>
    /\ input' = Tail(input)
    /\ mode' = "turn"
    /\ CASE Head(input) = "esc" -> Interrupt /\ UNCHANGED pending
         [] Head(input) = "^C" ->
                turn' = [turn EXCEPT !.interrupted = TRUE, !.quit = TRUE] /\ UNCHANGED pending
         [] OTHER -> pending' = Append(pending, Head(input)) /\ UNCHANGED turn
    /\ UNCHANGED <<ed, acc, approval, typed, bitten>>

\* handleTurnKey, from the select ("turn") or from its own recursion ("key").
handleTurnKey ==
    /\ mode \in {"turn", "key"} /\ input # <<>>
    /\ input' = Tail(input)
    /\ CASE Head(input) = "esc" -> mode' = "grace" /\ UNCHANGED <<turn, pending>>
         [] Head(input) = "^C" ->
                /\ turn' = [turn EXCEPT !.interrupted = TRUE, !.quit = TRUE]
                /\ mode' = "turn" /\ UNCHANGED pending
         [] OTHER ->
                /\ pending' = Append(pending, Head(input))
                /\ mode' = "turn" /\ UNCHANGED turn
    /\ UNCHANGED <<ed, acc, approval, typed, bitten>>

\* Nothing, or something else than an introducer, follows: a lone ESC.
LoneEsc ==
    IF turn.pasteActive THEN pending' = Append(pending, "esc") /\ UNCHANGED turn
                        ELSE Interrupt /\ UNCHANGED pending

readPumpByte ==
    /\ mode = "grace"
    /\ IF input # <<>> /\ Head(input) = "["
       THEN /\ mode' = "sequence" /\ acc' = <<"esc", "[">> /\ input' = Tail(input)
            /\ UNCHANGED <<turn, pending>>
       ELSE /\ LoneEsc
            /\ mode' = IF input = <<>> THEN "turn" ELSE "key"
            /\ UNCHANGED <<acc, input>>
    /\ UNCHANGED <<ed, approval, typed, bitten>>

\* To the end of the sequence or of what has come; a sequence of the modelled
\* units is shorter than maxSeqLen.
passThroughEscSequence ==
    /\ mode = "sequence"
    /\ LET n == FirstIndex(input, Final)
           more == IF n = 0 THEN Len(input) ELSE n
           seq == acc \o SubSeq(input, 1, more)
       IN  /\ pending' = pending \o seq
           /\ input' = SubSeq(input, more + 1, Len(input))
           /\ turn' = [turn EXCEPT !.pasteActive =
                           seq = pasteStart \/ (@ /\ seq # pasteEnd)]
    /\ mode' = "turn" /\ acc' = <<>>
    /\ UNCHANGED <<ed, approval, typed, bitten>>

-----------------------------------------------------------------------------
(* Approvals: ApprovalPrompter.Decide on the agent's side, the rest on the REPL's. *)

\* The context of the call in ask; that of a stale prompt is done.
Done == expired \/ turn.interrupted

AgentAsks ==
    /\ agent = "working" /\ asks < MaxAsks
    /\ asks' = asks + 1
    /\ agent' = "deciding"
    /\ ask' = "offered" /\ expired' = FALSE /\ reply' = "none" /\ yes' = FALSE
    /\ UNCHANGED <<editor, mode, acc, turn, shown, typed, bitten>>

Expire ==
    /\ agent = "deciding" /\ ~ expired
    /\ expired' = TRUE
    /\ UNCHANGED <<editor, mode, acc, turn, agent, asks, ask, reply, shown, typed, yes, bitten>>

\* The deadline, or the reply; both may be ready.
Decide ==
    /\ agent = "deciding"
    /\ \/ Done /\ ask' = "timeout"
       \/ reply # "none" /\ ask' = reply
    /\ agent' = "working"
    /\ shown' = IF shown = "own" THEN "stale" ELSE shown
    /\ UNCHANGED <<editor, mode, acc, turn, asks, expired, reply, typed, yes, bitten>>

\* Mutation: one channel for all calls.
SendToLast(answer, own) ==
    /\ reply' = answer
    /\ yes' = (yes \/ (own /\ answer = "allowed"))

\* handleApprovalPrompt's select: the channel has room, the context may be done as
\* well. Nobody receives what is sent for a stale prompt.
Send(answer, own) ==
    /\ \/ own /\ reply' = answer
       \/ (own => Done) /\ UNCHANGED reply
    /\ yes' = (yes \/ (own /\ answer = "allowed"))

\* readApprovalAnswer and the rest of handleApprovalPrompt.
Yes == {<<"y">>, <<"y", "Enter">>}    \* trimTrailingCR
AnswerLine(line, own) ==
    /\ Send(IF line \in Yes THEN "allowed" ELSE "denied", own)
    /\ mode' = "turn" /\ acc' = <<>> /\ shown' = "no"
    /\ UNCHANGED turn
AnswerQuit(quit, own) ==
    /\ Send("denied", own)
    /\ mode' = "turn" /\ acc' = <<>> /\ shown' = "no"
    /\ turn' = [turn EXCEPT !.interrupted = TRUE, !.quit = @ \/ quit]

\* A byte that is taken now may be one of a paste.
PasteUnderway ==
    FirstIndex(ed.remainder \o acc \o pending \o input, {"200~", "p", "q", "201~"}) # 0

\* runTurn takes the request; readAnswerLine looks at what was pushed back first.
handleApprovalPrompt ==
    /\ mode = "turn" /\ agent = "deciding" /\ ask = "offered"
    /\ ask' = "shown"
    /\ bitten' = (bitten \/ PasteUnderway)
    /\ LET n == FirstIndex(pending, {"LF", "^C", "esc"}) IN
       IF n = 0
       THEN /\ acc' = pending /\ pending' = <<>>
            /\ mode' = "answer" /\ shown' = "own"
            /\ UNCHANGED <<turn, reply, yes>>
       ELSE IF pending[n] = "LF"
       THEN /\ AnswerLine(SubSeq(pending, 1, n - 1), TRUE)
            /\ pending' = SubSeq(pending, n + 1, Len(pending))
       ELSE AnswerQuit(pending[n] = "^C", TRUE) /\ pending' = <<>>
    /\ UNCHANGED <<input, ed, agent, asks, expired, typed>>

\* The next byte of readAnswerLine.
readAnswerLine ==
    /\ mode = "answer" /\ input # <<>>
    /\ input' = Tail(input)
    /\ bitten' = (bitten \/ PasteUnderway)
    /\ CASE Head(input) = "LF" -> AnswerLine(acc, shown = "own")
         [] Head(input) \in {"esc", "^C"} -> AnswerQuit(Head(input) = "^C", shown = "own")
         [] OTHER -> acc' = Append(acc, Head(input)) /\ UNCHANGED <<mode, turn, shown, reply, yes>>
    /\ UNCHANGED <<pending, ed, agent, asks, ask, expired, typed>>

\* Mutation: the prompt outlives its deadline.
AnswerNeverExpires == FALSE /\ UNCHANGED vars

\* The context of the prompt is done: no answer.
AnswerExpires ==
    /\ mode = "answer" /\ (shown = "own" => Done)
    /\ Send("denied", shown = "own")
    /\ mode' = "turn" /\ acc' = <<>> /\ shown' = "no"
    /\ UNCHANGED <<editor, turn, agent, asks, ask, expired, typed, bitten>>

-----------------------------------------------------------------------------
(* The end of a turn. *)

AgentFinishes ==
    /\ agent = "working"
    /\ agent' = "done"
    /\ UNCHANGED <<editor, mode, acc, turn, asks, ask, expired, reply, shown, typed, yes, bitten>>

\* Mutation: the request to quit is lost with the turn.
EndTurnForgetful ==
    /\ mode = "turn" /\ agent = "done"
    /\ agent' = "off" /\ mode' = "prompt"
    /\ UNCHANGED <<editor, acc, turn, asks, ask, expired, reply, shown, typed, yes, bitten>>

\* The rest of executeMessage: the chat ends, goes on, or compacts its history.
EndTurn ==
    /\ mode = "turn" /\ agent = "done"
    /\ agent' = "off"
    /\ IF turn.quit THEN mode' = "ended" ELSE mode' \in {"prompt", "compact"}
    /\ ask' = "none" /\ expired' = FALSE /\ reply' = "none" /\ yes' = FALSE
    /\ UNCHANGED <<editor, acc, turn, asks, shown, typed, bitten>>

\* compactHistory: keys are dropped; ESC and Ctrl-C end the compaction.
CompactKey ==
    /\ mode = "compact" /\ input # <<>>
    /\ input' = Tail(input)
    /\ bitten' = (bitten \/ PasteUnderway)
    /\ mode' = IF Head(input) \in {"esc", "^C"} THEN "prompt" ELSE "compact"
    /\ UNCHANGED <<pending, ed, acc, turn, approval, typed>>

CompactDone ==
    /\ mode = "compact"
    /\ mode' = "prompt"
    /\ UNCHANGED <<editor, acc, turn, approval, typed, bitten>>

REPL ==
    \/ EditorRead \/ EditorKey
    \/ handleTurnKey \/ readPumpByte \/ passThroughEscSequence
    \/ handleApprovalPrompt \/ readAnswerLine \/ AnswerExpires
    \/ EndTurn \/ CompactKey \/ CompactDone

Next == Type \/ REPL \/ AgentAsks \/ Expire \/ Decide \/ AgentFinishes

\* Every wait of the REPL has a ready case in the end: the deadline of an approval
\* and the timeout of a compaction fall due, and the agent ends its turn.
Fairness ==
    /\ WF_vars(REPL) /\ WF_vars(EndTurn) /\ WF_vars(AnswerExpires)
    /\ WF_vars(Expire) /\ WF_vars(Decide) /\ WF_vars(AgentFinishes) /\ WF_vars(CompactDone)

Spec == Init /\ [][Next]_vars /\ Fairness

-----------------------------------------------------------------------------
TypeOK ==
    /\ mode \in {"prompt", "turn", "key", "grace", "sequence", "answer", "compact", "ended"}
    /\ mode = "answer" <=> shown # "no"
    /\ mode \in {"turn", "key", "grace", "sequence", "answer"} <=> agent # "off"
    /\ agent = "deciding" <=> ask \in {"offered", "shown"}
    /\ ed.pos \in 0 .. Len(ed.line) /\ Len(ed.line) <= MaxLine
    /\ ed.historyIndex \in -1 .. Len(ed.entries) - 1

Pasted == <<Char("p"), Char("LF"), Char("q")>>

\* A paste of several lines is one prompt or none, in one piece, wherever it
\* arrives: at the prompt or during a turn, split between both, behind an ESC that
\* interrupts. Excepted are pastes that an approval prompt, a compaction or an
\* unfinished ESC at the prompt took bytes of (handleTurnKey,
\* passThroughEscSequence, bytesToKey, finishPaste, expandPastes).
PasteStaysWhole ==
    ~ bitten =>
        /\ \A i \in DOMAIN ed.text : ed.text[i] = Char("p") =>
               i + 2 <= Len(ed.text) /\ SubSeq(ed.text, i, i + 2) = Pasted
        /\ \A i \in DOMAIN ed.text : ed.text[i] = Char("q") =>
               i > 2 /\ ed.text[i - 2] = Char("p")

\* What a search shows is the entry it stands at, and unless it failed that entry
\* holds the query (searchAppend, searchBackspace, searchNext).
SearchShowsMatch ==
    ed.search.active /\ ed.search.index >= 0 =>
        /\ ed.line = historyAt(ed, ed.search.index)
        /\ ~ ed.search.failed => Matches(ed.line, ed.search.query)

\* A call is approved only by a yes to its own prompt, however late the answers to
\* earlier prompts come (Decide's channel for each request).
AllowedAtItsPrompt == ask = "allowed" => yes

\* Every turn comes back to the prompt or ends the chat: the REPL does not stay in
\* an approval prompt that nobody waits for, nor the agent in Decide.
TurnComesBack == mode = "turn" ~> mode \in {"prompt", "compact", "ended"}

\* Ctrl-C during a turn ends the chat, whatever the turn is waiting for
\* (handleTurnKey, handleApprovalPrompt, executeMessage).
QuitEnds == turn.quit ~> mode = "ended"

\* README.md:334: y runs the tool. A y with Enter is not left to time out.
YesIsApproved ==
    [][mode = "answer" /\ acc = <<"y", "Enter">> /\ input' = input
       => mode' = mode \/ reply' # "denied"]_vars
=============================================================================
