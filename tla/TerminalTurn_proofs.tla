-------------------------- MODULE TerminalTurn_proofs --------------------------
(***************************************************************************)
(* The terminal, for any keys in any order, any number of them and of      *)
(* approvals, and lines of any length:                                     *)
(*                                                                         *)
(* ApprovedAtItsPrompt, GoroutinesAgree.  A prompt that outlives its call  *)
(* is stale (Agree), what is typed at it reaches no channel, and each call *)
(* has a channel of its own, which is empty when the call is offered       *)
(* (ReplyIsOwn).                                                           *)
(*                                                                         *)
(* StatesAreTyped, SearchShows.  Every key leaves a sound editor sound     *)
(* (Sound): the cursor in the line, the line within MaxLine, the history   *)
(* and the search at an entry that exists, the search at one that matches. *)
(*                                                                         *)
(* PasteIsWhole.  What the editor has taken of a paste, what it has left,  *)
(* what was pushed back, the escape sequence that is being collected and   *)
(* what is to come are one stream, and as long as nothing else took bytes  *)
(* of a paste, each special byte of the stream is at its place in a paste  *)
(* that is there in full (StreamIsKept, Covered). A turn passes the stream *)
(* on, or takes bytes that are of no paste. So the editor collects whole   *)
(* pastes, and a line has a character of one only by an expanded token     *)
(* (Clean).                                                                *)
(***************************************************************************)
EXTENDS TerminalTurn, FiniteSetTheorems, SequenceTheorems, WellFoundedInduction, TLAPS

InTurn == {"turn", "key", "grace", "sequence", "answer"}

-------------------------------------------------------------------------------
(* Approvals.                                                              *)
\* Where the two goroutines are, and what they know of the approval.
Agree ==
    /\ mode \in InTurn \cup {"prompt", "compact", "ended"}
    /\ agent \in {"off", "working", "deciding", "done"}
    /\ reply \in {"none", "allowed", "denied"}
    /\ mode \in InTurn <=> agent # "off"
    /\ mode = "answer" <=> shown # "no"
    /\ shown \in {"no", "own", "stale"}
    /\ shown = "own" => agent = "deciding"
    /\ agent = "deciding" <=> ask \in {"offered", "shown"}
    /\ agent = "deciding" /\ ask = "offered" => shown # "own"

ReplyIsOwn == reply = "allowed" => yes

IInv == Agree /\ AllowedAtItsPrompt /\ ReplyIsOwn

LEMMA InitIInv == ASSUME Init PROVE IInv
  BY DEF Init, IInv, Agree, InTurn, AllowedAtItsPrompt, ReplyIsOwn

\* What Send leaves of the channel, and of the yes.
LEMMA SendKeeps ==
    ASSUME NEW answer \in {"allowed", "denied"}, NEW own \in BOOLEAN,
           IInv, Send(answer, own)
    PROVE  /\ reply' \in {"none", "allowed", "denied"}
           /\ reply' = "allowed" => yes'
           /\ ask = "allowed" => yes'
  BY DEF Send, IInv, Agree, AllowedAtItsPrompt, ReplyIsOwn

\* The steps that read bytes or end the prompt, at the prompt, in a turn and in a
\* compaction.
LEMMA KeysKeepIInv ==
    ASSUME IInv,
           \/ Type \/ EditorRead \/ EditorKey
           \/ handleTurnKey \/ readPumpByte \/ passThroughEscSequence
           \/ CompactKey \/ CompactDone
    PROVE  IInv'
<1>1. CASE EditorKey
  <2>1. /\ UNCHANGED <<asks, ask, expired, reply, shown, yes>> /\ mode = "prompt"
        /\ \/ UNCHANGED <<mode, agent>>
           \/ mode' = "ended" /\ UNCHANGED agent
           \/ mode' = "turn" /\ agent' = "working"
    BY <1>1 DEF EditorKey
  <2> QED BY <2>1 DEF IInv, Agree, InTurn, AllowedAtItsPrompt, ReplyIsOwn
<1>2. CASE Type \/ EditorRead \/ handleTurnKey \/ readPumpByte \/ passThroughEscSequence
              \/ CompactKey \/ CompactDone
  <2>1. /\ UNCHANGED <<agent, ask, reply, shown, yes>>
        /\ \/ mode' = mode
           \/ mode \in InTurn \ {"answer"} /\ mode' \in InTurn \ {"answer"}
           \/ mode = "compact" /\ mode' = "prompt"
    <3>1. CASE Type
      BY <3>1 DEF Type, approval
    <3>2. CASE EditorRead
      BY <3>2 DEF EditorRead, approval
    <3>3. CASE handleTurnKey
      BY <3>3 DEF handleTurnKey, approval, InTurn
    <3>4. CASE readPumpByte
      BY <3>4 DEF readPumpByte, approval, InTurn
    <3>5. CASE passThroughEscSequence
      BY <3>5 DEF passThroughEscSequence, approval, InTurn
    <3>6. CASE CompactKey
      BY <3>6 DEF CompactKey, approval
    <3>7. CASE CompactDone
      BY <3>7 DEF CompactDone, approval
    <3> QED BY <1>2, <3>1, <3>2, <3>3, <3>4, <3>5, <3>6, <3>7
  <2> QED BY <2>1 DEF IInv, Agree, InTurn, AllowedAtItsPrompt, ReplyIsOwn
<1> QED BY <1>1, <1>2

\* The prompt is shown, and answered at once by what was typed before it.
LEMMA PromptKeepsIInv == ASSUME IInv, handleApprovalPrompt PROVE IInv'
<1>1. /\ mode = "turn" /\ agent = "deciding" /\ ask' = "shown" /\ agent' = agent
  BY DEF handleApprovalPrompt
<1>2. \/ mode' = "answer" /\ shown' = "own" /\ UNCHANGED <<reply, yes>>
      \/ /\ mode' = "turn" /\ shown' = "no"
         /\ \E answer \in {"allowed", "denied"} : Send(answer, TRUE)
  BY DEF handleApprovalPrompt, AnswerLine, AnswerQuit
<1>3. /\ reply' \in {"none", "allowed", "denied"}
      /\ reply' = "allowed" => yes'
  BY <1>2, SendKeeps DEF IInv, Agree, ReplyIsOwn
<1> QED BY <1>1, <1>2, <1>3 DEF IInv, Agree, InTurn, AllowedAtItsPrompt, ReplyIsOwn

\* The prompt is answered, or its context ends.
LEMMA AnswerKeepsIInv == ASSUME IInv, readAnswerLine \/ AnswerExpires PROVE IInv'
<1>1. mode = "answer" /\ UNCHANGED <<agent, ask>>
  BY DEF readAnswerLine, AnswerExpires, editor
<1>2. \/ UNCHANGED <<mode, shown, reply, yes>>
      \/ /\ mode' = "turn" /\ shown' = "no"
         /\ \E answer \in {"allowed", "denied"} : Send(answer, shown = "own")
  BY DEF readAnswerLine, AnswerExpires, AnswerLine, AnswerQuit
<1>3. /\ reply' \in {"none", "allowed", "denied"}
      /\ reply' = "allowed" => yes'
      /\ ask = "allowed" => yes'
  <2>1. (shown = "own") \in BOOLEAN
    OBVIOUS
  <2> QED BY <1>2, <2>1, SendKeeps DEF IInv, Agree, ReplyIsOwn, AllowedAtItsPrompt
<1> QED BY <1>1, <1>2, <1>3 DEF IInv, Agree, InTurn, AllowedAtItsPrompt, ReplyIsOwn

\* The agent asks, decides and ends its turn.
LEMMA AgentKeepsIInv ==
    ASSUME IInv, AgentAsks \/ Expire \/ Decide \/ AgentFinishes \/ EndTurn
    PROVE  IInv'
<1> USE DEF IInv, Agree, InTurn, AllowedAtItsPrompt, ReplyIsOwn
<1>1. CASE AgentAsks
  BY <1>1 DEF AgentAsks
<1>2. CASE Expire
  BY <1>2 DEF Expire
<1>3. CASE Decide
  BY <1>3 DEF Decide
<1>4. CASE AgentFinishes
  BY <1>4 DEF AgentFinishes
<1>5. CASE EndTurn
  BY <1>5 DEF EndTurn
<1> QED BY <1>1, <1>2, <1>3, <1>4, <1>5

\* All steps.
LEMMA NextKeepsIInv == ASSUME IInv, [Next]_vars PROVE IInv'
<1>1. CASE UNCHANGED vars
  BY <1>1 DEF vars, IInv, Agree, AllowedAtItsPrompt, ReplyIsOwn
<1>2. CASE Next
  BY <1>2, KeysKeepIInv, PromptKeepsIInv, AnswerKeepsIInv, AgentKeepsIInv DEF Next, REPL
<1> QED BY <1>1, <1>2

-------------------------------------------------------------------------------
(* The editor: what it has, and its lines.                                 *)
Runes == [rune : Bytes \cup {"#"}, paste : Nat, lines : Nat]
Lines == Seq(Runes)
Searches == [active : BOOLEAN, query : Lines, index : Int, failed : BOOLEAN,
             line : Lines, pos : Nat]
Editors ==
    [line : Lines, pos : Nat, remainder : Seq(Bytes), result : {"none", "line", "eof"},
     text : Lines, pasteActive : BOOLEAN, pasteBuf : Lines, pasteLastCR : BOOLEAN,
     pastes : Seq([token : Runes, content : Lines]), entries : Seq(Lines),
     historyIndex : Int, historyPending : Lines, search : Searches]

\* The cursor is in the line, the line is not too long, and neither is one that may
\* come back; and the history is looked at where it has an entry.
Fits(e) ==
    /\ e.pos <= Len(e.line) /\ Len(e.line) <= MaxLine
    /\ e.historyIndex \in -1 .. Len(e.entries) - 1
    /\ \A i \in DOMAIN e.entries : Len(e.entries[i]) <= MaxLine
    /\ Len(e.historyPending) <= MaxLine
    /\ e.search.active =>
           /\ ~ e.pasteActive
           /\ e.search.pos <= Len(e.search.line) /\ Len(e.search.line) <= MaxLine
           /\ e.search.index \in -1 .. Len(e.entries) - 1

Shows(e) ==
    e.search.active /\ e.search.index >= 0 =>
        /\ e.line = historyAt(e, e.search.index)
        /\ ~ e.search.failed => Matches(e.line, e.search.query)

\* No character of a paste has come into a line by itself.
Plain(s) == \A i \in DOMAIN s : s[i].rune \notin {"p", "q"}
Whole(s) ==
    /\ \A i \in DOMAIN s : s[i] = Char("p") => i + 2 <= Len(s) /\ SubSeq(s, i, i + 2) = Pasted
    /\ \A i \in DOMAIN s : s[i] = Char("q") => i > 2 /\ s[i - 2] = Char("p")
Clean(e) ==
    /\ Whole(e.text)
    /\ Plain(e.line) /\ Plain(e.historyPending)
    /\ \A i \in DOMAIN e.entries : Plain(e.entries[i])
    /\ e.search.active => Plain(e.search.line)
    /\ \A i \in DOMAIN e.pastes : e.pastes[i].content = Pasted /\ e.pastes[i].token.paste # 0

Sound(e) == e \in Editors /\ Fits(e) /\ Shows(e)

\* f comes from e by a key that takes no input and is not part of a paste.
Goes(e, f) ==
    /\ Sound(f)
    /\ f.remainder = e.remainder /\ f.pasteActive = e.pasteActive
    /\ f.pasteBuf = e.pasteBuf /\ f.pasteLastCR = e.pasteLastCR
Becomes(e, f) == Goes(e, f) /\ (Clean(e) => Clean(f))

-------------------------------------------------------------------------------
LEMMA Limits == MaxLine \in Nat /\ MaxLine >= 2 /\ MaxEntries \in Nat
  BY TypingAssumption DEF TypingAssumption

LEMMA CharIsRune == ASSUME NEW c \in Bytes PROVE Char(c) \in Runes
  BY DEF Char, Runes

\* The parts of a line.
LEMMA PartIsLine ==
    ASSUME NEW s \in Lines, NEW m \in 1 .. Len(s) + 1, NEW n \in 0 .. Len(s)
    PROVE  /\ SubSeq(s, m, n) \in Lines
           /\ Len(SubSeq(s, m, n)) = IF m <= n THEN n - m + 1 ELSE 0
           /\ Plain(s) => Plain(SubSeq(s, m, n))
<1>1. SubSeq(s, m, n) \in Lines /\ Len(SubSeq(s, m, n)) = IF m <= n THEN n - m + 1 ELSE 0
  BY DEF Lines
<1>2. \A i \in 1 .. Len(SubSeq(s, m, n)) : SubSeq(s, m, n)[i] = s[m + i - 1] /\ m + i - 1 \in 1 .. Len(s)
  BY <1>1 DEF Lines
<1>3. \A t \in Lines : DOMAIN t = 1 .. Len(t)
  BY DEF Lines
<1> QED BY <1>1, <1>2, <1>3 DEF Plain

\* Two lines, one after the other.
LEMMA JoinIsLine ==
    ASSUME NEW s \in Lines, NEW t \in Lines
    PROVE  /\ s \o t \in Lines /\ Len(s \o t) = Len(s) + Len(t)
           /\ Plain(s) /\ Plain(t) => Plain(s \o t)
<1>1. s \o t \in Lines /\ Len(s \o t) = Len(s) + Len(t)
  BY DEF Lines
<1>2. \A i \in 1 .. Len(s) + Len(t) :
        (s \o t)[i] = IF i <= Len(s) THEN s[i] ELSE t[i - Len(s)]
  BY DEF Lines
<1>3. \A u \in Lines : DOMAIN u = 1 .. Len(u) /\ Len(u) \in Nat
  BY DEF Lines
<1>4. ASSUME Plain(s), Plain(t), NEW i \in DOMAIN (s \o t)
      PROVE  (s \o t)[i].rune \notin {"p", "q"}
  <2>1. i \in 1 .. Len(s) + Len(t) /\ Len(s) \in Nat /\ Len(t) \in Nat
    BY <1>1, <1>3
  <2>2. CASE i <= Len(s)
    <3>1. i \in DOMAIN s /\ (s \o t)[i] = s[i]
      BY <2>1, <2>2, <1>2, <1>3
    <3> QED BY <3>1, <1>4 DEF Plain
  <2>3. CASE i > Len(s)
    <3>1. i - Len(s) \in DOMAIN t /\ (s \o t)[i] = t[i - Len(s)]
      BY <2>1, <2>3, <1>2, <1>3
    <3> QED BY <3>1, <1>4 DEF Plain
  <2> QED BY <2>1, <2>2, <2>3
<1>5. Plain(s) /\ Plain(t) => Plain(s \o t)
  BY <1>4 DEF Plain
<1> QED BY <1>1, <1>5

\* Outside of a search, a step that changes the line and the cursor.
LEMMA LineFits ==
    ASSUME NEW e, Sound(e), ~ e.search.active,
           NEW l \in Lines, Len(l) <= MaxLine, NEW p \in 0 .. Len(l)
    PROVE  /\ Goes(e, [e EXCEPT !.line = l, !.pos = p])
           /\ Clean(e) /\ Plain(l) => Clean([e EXCEPT !.line = l, !.pos = p])
<1> DEFINE f == [e EXCEPT !.line = l, !.pos = p]
<1>1. e \in Editors /\ Fits(e) /\ Len(l) \in Nat
  BY DEF Sound, Lines
<1>2. /\ f \in Editors /\ f.line = l /\ f.pos = p /\ f.entries = e.entries
      /\ f.historyIndex = e.historyIndex /\ f.historyPending = e.historyPending
      /\ f.search = e.search /\ f.pastes = e.pastes /\ f.text = e.text
      /\ f.remainder = e.remainder /\ f.pasteActive = e.pasteActive
      /\ f.pasteBuf = e.pasteBuf /\ f.pasteLastCR = e.pasteLastCR
  <2>1. p \in Nat
    BY <1>1
  <2>2. f \in Editors
    BY <1>1, <2>1 DEF Editors
  <2> QED BY <1>1, <2>2 DEF Editors
<1> HIDE DEF f
<1>3. Fits(f) /\ Shows(f)
  BY <1>1, <1>2 DEF Fits, Shows
<1>4. Clean(e) /\ Plain(l) => Clean(f)
  BY <1>1, <1>2 DEF Clean
<1> QED BY <1>2, <1>3, <1>4 DEF Goes, Sound, f

\* The same, when the new line has no more characters of a paste than the old one.
LEMMA LineChanges ==
    ASSUME NEW e, Sound(e), ~ e.search.active,
           NEW l \in Lines, Len(l) <= MaxLine, NEW p \in 0 .. Len(l), Plain(e.line) => Plain(l)
    PROVE  Becomes(e, [e EXCEPT !.line = l, !.pos = p])
<1> DEFINE f == [e EXCEPT !.line = l, !.pos = p]
<1>1. Goes(e, f) /\ (Clean(e) /\ Plain(l) => Clean(f))
  BY LineFits
<1>2. Clean(e) => Plain(e.line)
  BY DEF Clean
<1> HIDE DEF f
<1>3. Becomes(e, f)
  BY <1>1, <1>2 DEF Becomes
<1> QED BY <1>3 DEF f

\* insertRunes, and with it a typed key and a paste of one line.
LEMMA insertRunesSound ==
    ASSUME NEW e, Sound(e), ~ e.search.active, NEW cs \in Lines
    PROVE  /\ Goes(e, insertRunes(e, cs))
           /\ Plain(cs) => Becomes(e, insertRunes(e, cs))
<1> DEFINE room == MaxLine - Len(e.line)
           n == IF Len(cs) < room THEN Len(cs) ELSE room
           l == SubSeq(e.line, 1, e.pos) \o SubSeq(cs, 1, n)
                    \o SubSeq(e.line, e.pos + 1, Len(e.line))
<1>1. /\ e \in Editors /\ e.line \in Lines /\ e.pos \in Nat /\ Len(e.line) \in Nat
      /\ e.pos <= Len(e.line) /\ Len(e.line) <= MaxLine /\ MaxLine \in Nat
  BY Limits DEF Sound, Fits, Editors, Lines
<1>2. n \in 0 .. Len(cs) /\ Len(cs) \in Nat /\ n <= room
  <2>1. Len(cs) \in Nat /\ room \in Nat
    BY <1>1 DEF Lines
  <2> QED BY <2>1
<1>3. /\ SubSeq(e.line, 1, e.pos) \in Lines /\ Len(SubSeq(e.line, 1, e.pos)) = e.pos
      /\ Plain(e.line) => Plain(SubSeq(e.line, 1, e.pos))
  BY <1>1, PartIsLine
<1>4. /\ SubSeq(cs, 1, n) \in Lines /\ Len(SubSeq(cs, 1, n)) = n
      /\ (Plain(cs) => Plain(SubSeq(cs, 1, n)))
  <2> HIDE DEF n
  <2>1. 1 \in 1 .. Len(cs) + 1
    BY <1>2
  <2> QED BY <1>2, <2>1, PartIsLine
<1>5. /\ SubSeq(e.line, e.pos + 1, Len(e.line)) \in Lines
      /\ Len(SubSeq(e.line, e.pos + 1, Len(e.line))) = Len(e.line) - e.pos
      /\ Plain(e.line) => Plain(SubSeq(e.line, e.pos + 1, Len(e.line)))
  <2>1. e.pos + 1 \in 1 .. Len(e.line) + 1 /\ Len(e.line) \in 0 .. Len(e.line)
    BY <1>1
  <2> QED BY <1>1, <2>1, PartIsLine
<1>6. l \in Lines /\ Len(l) = Len(e.line) + n
      /\ (Plain(e.line) /\ Plain(cs) => Plain(l))
  <2> DEFINE a == SubSeq(e.line, 1, e.pos)
             b == SubSeq(cs, 1, n)
             c == SubSeq(e.line, e.pos + 1, Len(e.line))
  <2> HIDE DEF a, b, c, n
  <2>0. a \in Lines /\ b \in Lines /\ c \in Lines
    BY <1>3, <1>4, <1>5 DEF a, b, c
  <2>1. /\ a \o b \in Lines /\ Len(a \o b) = Len(a) + Len(b)
        /\ Plain(a) /\ Plain(b) => Plain(a \o b)
    BY <2>0, JoinIsLine
  <2>2. /\ a \o b \o c \in Lines /\ Len(a \o b \o c) = Len(a \o b) + Len(c)
        /\ Plain(a \o b) /\ Plain(c) => Plain(a \o b \o c)
    BY <2>0, <2>1, JoinIsLine
  <2>3. Len(a) = e.pos /\ Len(b) = n /\ Len(c) = Len(e.line) - e.pos
    BY <1>3, <1>4, <1>5 DEF a, b, c
  <2>4. (Plain(cs) => Plain(b)) /\ (Plain(e.line) => Plain(a) /\ Plain(c))
    BY <1>3, <1>4, <1>5 DEF a, b, c
  <2>5. Len(a \o b \o c) = Len(e.line) + n
    BY <1>1, <1>2, <2>1, <2>2, <2>3
  <2>6. l = a \o b \o c
    BY DEF a, b, c
  <2> HIDE DEF l
  <2> QED BY <2>1, <2>2, <2>4, <2>5, <2>6
<1>7. insertRunes(e, cs) = [e EXCEPT !.line = l, !.pos = e.pos + n]
  BY DEF insertRunes
<1>8. Len(l) <= MaxLine /\ e.pos + n \in 0 .. Len(l)
  <2> HIDE DEF l, n
  <2> QED BY <1>1, <1>2, <1>6
<1> HIDE DEF l, n
<1>9. /\ Goes(e, [e EXCEPT !.line = l, !.pos = e.pos + n])
      /\ Clean(e) /\ Plain(l) => Clean([e EXCEPT !.line = l, !.pos = e.pos + n])
  BY <1>6, <1>8, LineFits
<1>10. Clean(e) => Plain(e.line)
  BY DEF Clean
<1> QED BY <1>6, <1>7, <1>9, <1>10 DEF Becomes

-------------------------------------------------------------------------------
(* Editing, and the history.                                               *)
LEMMA SameBecomes == ASSUME NEW e, Sound(e) PROVE Becomes(e, e)
  BY DEF Becomes, Goes

\* One key after another.
LEMMA BecomesTwice ==
    ASSUME NEW e, NEW f, NEW g, Becomes(e, f), Becomes(f, g) PROVE Becomes(e, g)
  BY DEF Becomes, Goes

\* What the keys find in the editor.
LEMMA EditorHas ==
    ASSUME NEW e, Sound(e)
    PROVE  /\ e \in Editors /\ Fits(e) /\ Shows(e)
           /\ e.line \in Lines /\ e.pos \in 0 .. Len(e.line) /\ Len(e.line) \in Nat
           /\ Len(e.line) <= MaxLine
           /\ DOMAIN e.line = 1 .. Len(e.line)
           /\ \A i \in 1 .. Len(e.line) : e.line[i] \in Runes
  BY DEF Sound, Editors, Fits, Lines

\* The cursor moves.
LEMMA MoveSound ==
    ASSUME NEW e, Sound(e), ~ e.search.active, NEW p \in 0 .. Len(e.line)
    PROVE  Becomes(e, [e EXCEPT !.pos = p])
<1>1. e \in Editors /\ e.line \in Lines /\ Len(e.line) <= MaxLine
  BY EditorHas
<1>2. Becomes(e, [e EXCEPT !.line = e.line, !.pos = p])
  BY <1>1, LineChanges
<1>3. [e EXCEPT !.line = e.line, !.pos = p] = [e EXCEPT !.pos = p]
  BY <1>1 DEF Editors
<1> QED BY <1>2, <1>3

\* eraseNPreviousChars, with any count.
LEMMA eraseSound ==
    ASSUME NEW e, Sound(e), ~ e.search.active, NEW n \in Nat
    PROVE  Becomes(e, eraseNPreviousChars(e, n))
<1> DEFINE k == IF e.pos < n THEN e.pos ELSE n
           a == SubSeq(e.line, 1, e.pos - k)
           b == SubSeq(e.line, e.pos + 1, Len(e.line))
<1>1. /\ e.line \in Lines /\ e.pos \in 0 .. Len(e.line) /\ Len(e.line) \in Nat
      /\ Len(e.line) <= MaxLine /\ MaxLine \in Nat
  BY EditorHas, Limits
<1>2. k \in 0 .. e.pos
  BY <1>1
<1> HIDE DEF k
<1>3. /\ a \in Lines /\ Len(a) = e.pos - k /\ (Plain(e.line) => Plain(a))
  <2>1. e.pos - k \in 0 .. Len(e.line) /\ 1 \in 1 .. Len(e.line) + 1
    BY <1>1, <1>2
  <2>2. e.pos - k >= 1 \/ e.pos - k = 0
    BY <1>1, <1>2
  <2> QED BY <1>1, <2>1, <2>2, PartIsLine
<1>4. /\ b \in Lines /\ Len(b) = Len(e.line) - e.pos /\ (Plain(e.line) => Plain(b))
  <2>1. e.pos + 1 \in 1 .. Len(e.line) + 1 /\ Len(e.line) \in 0 .. Len(e.line)
    BY <1>1
  <2> QED BY <1>1, <2>1, PartIsLine
<1> HIDE DEF a, b
<1>5. /\ a \o b \in Lines /\ Len(a \o b) = Len(a) + Len(b)
      /\ (Plain(e.line) => Plain(a \o b))
  BY <1>3, <1>4, JoinIsLine
<1>6. Len(a \o b) <= MaxLine /\ e.pos - k \in 0 .. Len(a \o b)
  <2>1. Len(a \o b) = (e.pos - k) + (Len(e.line) - e.pos)
    BY <1>3, <1>4, <1>5
  <2> HIDE DEF k
  <2> QED BY <1>1, <1>2, <2>1
<1>7. eraseNPreviousChars(e, n) = [e EXCEPT !.line = a \o b, !.pos = e.pos - k]
  <2>1. e \in Editors
    BY EditorHas
  <2> QED BY <2>1 DEF eraseNPreviousChars, Editors, a, b, k
<1>8. Becomes(e, [e EXCEPT !.line = a \o b, !.pos = e.pos - k])
  BY <1>5, <1>6, LineChanges
<1> QED BY <1>7, <1>8

\* A placeholder loses a rune: what is left is no character of a paste.
LEMMA BreakSound ==
    ASSUME NEW e, Sound(e), ~ e.search.active, NEW i \in 1 .. Len(e.line)
    PROVE  Becomes(e, BreakAt(e, i))
<1> DEFINE l == [e.line EXCEPT ![i] = Char("k")]
<1>1. /\ e \in Editors /\ e.line \in Lines /\ e.pos \in 0 .. Len(e.line)
      /\ Len(e.line) \in Nat /\ Len(e.line) <= MaxLine /\ DOMAIN e.line = 1 .. Len(e.line)
  BY EditorHas
<1>2. Char("k") \in Runes /\ Char("k").rune = "k"
  <2>1. "k" \in Bytes
    BY DEF Bytes, Text
  <2> QED BY <2>1, CharIsRune DEF Char
<1>3. l \in Lines /\ Len(l) = Len(e.line) /\ DOMAIN l = DOMAIN e.line
  BY <1>1, <1>2 DEF Lines
<1>4. \A j \in DOMAIN l : l[j] = Char("k") \/ l[j] = e.line[j]
  BY <1>1, <1>3
<1> HIDE DEF l
<1>5. Plain(e.line) => Plain(l)
  BY <1>2, <1>3, <1>4 DEF Plain
<1>6. BreakAt(e, i) = [e EXCEPT !.line = l, !.pos = e.pos]
  BY <1>1 DEF BreakAt, Editors, l
<1>7. Becomes(e, [e EXCEPT !.line = l, !.pos = e.pos])
  BY <1>1, <1>3, <1>5, LineChanges
<1> QED BY <1>6, <1>7

\* Backspace, and Delete or Ctrl-D.
LEMMA eraseKeysSound ==
    ASSUME NEW e, Sound(e), ~ e.search.active
    PROVE  Becomes(e, erasePrevious(e)) /\ Becomes(e, eraseNext(e))
<1>1. /\ e \in Editors /\ e.pos \in 0 .. Len(e.line) /\ Len(e.line) \in Nat
  BY EditorHas
<1>2. Becomes(e, eraseNPreviousChars(e, 1))
  BY eraseSound
<1>3. Becomes(e, erasePrevious(e))
  <2>1. CASE e.pos > 0 /\ e.line[e.pos].paste # 0
    <3>1. e.pos \in 1 .. Len(e.line)
      BY <1>1, <2>1
    <3> QED BY <2>1, <3>1, BreakSound DEF erasePrevious
  <2>2. CASE ~ (e.pos > 0 /\ e.line[e.pos].paste # 0)
    BY <1>2, <2>2 DEF erasePrevious
  <2> QED BY <2>1, <2>2
<1>4. Becomes(e, eraseNext(e))
  <2>1. CASE e.pos = Len(e.line)
    BY <2>1, SameBecomes DEF eraseNext
  <2>2. CASE e.pos # Len(e.line) /\ e.line[e.pos + 1].paste # 0
    <3>1. e.pos + 1 \in 1 .. Len(e.line)
      BY <1>1, <2>2
    <3> QED BY <2>2, <3>1, BreakSound DEF eraseNext
  <2>3. CASE e.pos # Len(e.line) /\ e.line[e.pos + 1].paste = 0
    <3> DEFINE f == [e EXCEPT !.pos = @ + 1]
    <3>1. e.pos + 1 \in 0 .. Len(e.line)
      BY <1>1, <2>3
    <3>2. f = [e EXCEPT !.pos = e.pos + 1] /\ f.search = e.search
      BY <1>1 DEF Editors
    <3>3. Becomes(e, f)
      <4> HIDE DEF f
      <4> QED BY <3>1, <3>2, MoveSound
    <3>4. eraseNext(e) = eraseNPreviousChars(f, 1)
      BY <2>3 DEF eraseNext
    <3> HIDE DEF f
    <3>5. Becomes(f, eraseNPreviousChars(f, 1))
      BY <3>2, <3>3, eraseSound DEF Becomes, Goes
    <3> QED BY <3>3, <3>4, <3>5, BecomesTwice
  <2> QED BY <2>1, <2>2, <2>3
<1> QED BY <1>3, <1>4

\* The entries, and where the history stands.
LEMMA EntriesFit ==
    ASSUME NEW e, Sound(e), NEW i \in 0 .. Len(e.entries) - 1
    PROVE  /\ historyAt(e, i) \in Lines /\ Len(historyAt(e, i)) <= MaxLine
           /\ Clean(e) => Plain(historyAt(e, i))
<1>1. /\ e.entries \in Seq(Lines) /\ Len(e.entries) \in Nat
      /\ DOMAIN e.entries = 1 .. Len(e.entries)
  BY DEF Sound, Editors
<1>2. i + 1 \in DOMAIN e.entries /\ e.entries[i + 1] \in Lines
  BY <1>1
<1> QED BY <1>2 DEF Sound, Fits, Clean, historyAt

\* A line of the history is shown, or the one that was left for it.
LEMMA HistoryMoves ==
    ASSUME NEW e, Sound(e), ~ e.search.active,
           NEW l \in Lines, Len(l) <= MaxLine, Clean(e) => Plain(l),
           NEW n \in -1 .. Len(e.entries) - 1,
           NEW h \in Lines, Len(h) <= MaxLine, Clean(e) => Plain(h)
    PROVE  Becomes(e, [e EXCEPT !.line = l, !.pos = Len(l), !.historyIndex = n,
                                !.historyPending = h])
<1> DEFINE f == [e EXCEPT !.line = l, !.pos = Len(l), !.historyIndex = n,
                          !.historyPending = h]
<1>1. e \in Editors /\ Fits(e) /\ Len(l) \in Nat /\ n \in Int
  BY DEF Sound, Lines, Editors
<1>2. f \in Editors
  BY <1>1 DEF Editors
<1>3. /\ f.line = l /\ f.pos = Len(l) /\ f.entries = e.entries
      /\ f.historyIndex = n /\ f.historyPending = h
      /\ f.search = e.search /\ f.pastes = e.pastes /\ f.text = e.text
      /\ f.remainder = e.remainder /\ f.pasteActive = e.pasteActive
      /\ f.pasteBuf = e.pasteBuf /\ f.pasteLastCR = e.pasteLastCR
  BY <1>1 DEF Editors
<1> HIDE DEF f
<1>4. Fits(f) /\ Shows(f)
  BY <1>1, <1>3 DEF Fits, Shows
<1>5. Clean(e) => Clean(f)
  BY <1>3 DEF Clean
<1> QED BY <1>2, <1>3, <1>4, <1>5 DEF Becomes, Goes, Sound, f

\* historyPrevious and historyNext.
LEMMA HistoryKeysSound ==
    ASSUME NEW e, Sound(e), ~ e.search.active
    PROVE  Becomes(e, historyUp(e)) /\ Becomes(e, historyDown(e))
<1>1. /\ e \in Editors /\ Fits(e) /\ e.historyIndex \in -1 .. Len(e.entries) - 1
      /\ Len(e.entries) \in Nat
      /\ e.historyPending \in Lines /\ Len(e.historyPending) <= MaxLine
      /\ e.line \in Lines /\ Len(e.line) <= MaxLine
      /\ Clean(e) => Plain(e.line) /\ Plain(e.historyPending)
  BY DEF Sound, Editors, Fits, Clean
<1>2. Becomes(e, historyUp(e))
  <2>1. CASE ~ HasEntry(e, e.historyIndex + 1)
    BY <2>1, SameBecomes DEF historyUp
  <2>2. CASE HasEntry(e, e.historyIndex + 1)
    <3> DEFINE n == e.historyIndex + 1
               l == historyAt(e, n)
               h == IF e.historyIndex = -1 THEN e.line ELSE e.historyPending
    <3>1. n \in 0 .. Len(e.entries) - 1 /\ n \in -1 .. Len(e.entries) - 1
      BY <1>1, <2>2 DEF HasEntry
    <3>2. historyUp(e) = [e EXCEPT !.line = l, !.pos = Len(l), !.historyIndex = n,
                                   !.historyPending = h]
      BY <1>1, <2>2 DEF historyUp, setLine, Editors
    <3>3. h \in Lines /\ Len(h) <= MaxLine /\ (Clean(e) => Plain(h))
      BY <1>1
    <3> HIDE DEF n, h
    <3>4. l \in Lines /\ Len(l) <= MaxLine /\ (Clean(e) => Plain(l))
      BY <3>1, EntriesFit
    <3> HIDE DEF l
    <3>5. Becomes(e, [e EXCEPT !.line = l, !.pos = Len(l), !.historyIndex = n,
                               !.historyPending = h])
      BY <3>1, <3>3, <3>4, HistoryMoves
    <3> QED BY <3>2, <3>5
  <2> QED BY <2>1, <2>2
<1>3. Becomes(e, historyDown(e))
  <2>1. CASE e.historyIndex = -1
    BY <2>1, SameBecomes DEF historyDown
  <2>2. CASE e.historyIndex # -1
    <3> DEFINE n == e.historyIndex - 1
               l == IF e.historyIndex = 0 THEN e.historyPending ELSE historyAt(e, n)
               h == e.historyPending
    <3>1. n \in -1 .. Len(e.entries) - 1
          /\ (e.historyIndex # 0 => n \in 0 .. Len(e.entries) - 1)
      BY <1>1, <2>2
    <3>2. historyDown(e) = [e EXCEPT !.line = l, !.pos = Len(l), !.historyIndex = n,
                                     !.historyPending = h]
      <4>1. CASE e.historyIndex = 0
        <5>1. n = -1 /\ l = e.historyPending
          BY <4>1
        <5> HIDE DEF n, l
        <5>2. historyDown(e) = [setLine(e, l) EXCEPT !.historyIndex = n]
          BY <4>1, <5>1 DEF historyDown
        <5> QED BY <1>1, <5>2 DEF setLine, Editors
      <4>2. CASE e.historyIndex # 0
        BY <1>1, <2>2, <4>2 DEF historyDown, setLine, Editors
      <4> QED BY <4>1, <4>2
    <3>3. l \in Lines /\ Len(l) <= MaxLine /\ (Clean(e) => Plain(l))
      <4>1. CASE e.historyIndex = 0
        BY <1>1, <4>1
      <4>2. CASE e.historyIndex # 0
        <5>1. n \in 0 .. Len(e.entries) - 1
          BY <3>1, <4>2
        <5> HIDE DEF n
        <5>2. /\ historyAt(e, n) \in Lines /\ Len(historyAt(e, n)) <= MaxLine
              /\ Clean(e) => Plain(historyAt(e, n))
          BY <5>1, EntriesFit
        <5> QED BY <4>2, <5>2
      <4> QED BY <4>1, <4>2
    <3> HIDE DEF n, l
    <3>4. Becomes(e, [e EXCEPT !.line = l, !.pos = Len(l), !.historyIndex = n,
                               !.historyPending = e.historyPending])
      BY <1>1, <3>1, <3>3, HistoryMoves
    <3> QED BY <3>2, <3>4
  <2> QED BY <2>1, <2>2
<1> QED BY <1>2, <1>3

-------------------------------------------------------------------------------
(* Lines with pastes.                                                      *)
LEMMA Smallest ==
    ASSUME NEW S \in SUBSET Nat, S # {}
    PROVE  \E m \in S : \A k \in S : m <= k
<1>1. PICK m \in S : \A k \in S : ~ (<<k, m>> \in OpToRel(<, Nat))
  BY NatLessThanWellFounded, WFMin
<1>2. \A k \in S : ~ (k < m)
  BY <1>1 DEF OpToRel
<1> QED BY <1>2

\* The first place of an element of S, or 0.
LEMMA FirstIndexIs ==
    ASSUME NEW X, NEW s \in Seq(X), NEW S
    PROVE  /\ FirstIndex(s, S) \in 0 .. Len(s)
           /\ FirstIndex(s, S) = 0 => \A i \in 1 .. Len(s) : s[i] \notin S
           /\ FirstIndex(s, S) # 0 =>
                  /\ s[FirstIndex(s, S)] \in S
                  /\ \A i \in 1 .. FirstIndex(s, S) - 1 : s[i] \notin S
<1> DEFINE hits == {i \in DOMAIN s : s[i] \in S}
<1>1. CASE hits = {}
  <2>1. FirstIndex(s, S) = 0
    BY <1>1 DEF FirstIndex
  <2>2. \A i \in 1 .. Len(s) : s[i] \notin S
    BY <1>1
  <2> QED BY <2>1, <2>2
<1>2. CASE hits # {}
  <2>1. PICK m \in hits : \A k \in hits : m <= k
    <3>1. hits \in SUBSET Nat
      OBVIOUS
    <3> HIDE DEF hits
    <3> QED BY <1>2, <3>1, Smallest
  <2> DEFINE n == CHOOSE i \in hits : \A j \in hits : i <= j
  <2>2. n \in hits /\ \A j \in hits : n <= j
    BY <2>1
  <2>3. FirstIndex(s, S) = n
    BY <1>2 DEF FirstIndex
  <2> HIDE DEF n
  <2>4. n \in 1 .. Len(s) /\ s[n] \in S
    BY <2>2
  <2>5. \A i \in 1 .. n - 1 : s[i] \notin S
    BY <2>2, <2>4
  <2> QED BY <2>3, <2>4, <2>5
<1> QED BY <1>1, <1>2

\* The paste, character by character.
LEMMA PastedIs ==
    /\ Pasted \in Lines /\ Len(Pasted) = 3
    /\ Pasted[1] = Char("p") /\ Pasted[2] = Char("LF") /\ Pasted[3] = Char("q")
    /\ Char("p") # Char("q") /\ Char("p") # Char("LF") /\ Char("q") # Char("LF")
    /\ \A i \in 1 .. 3 : Pasted[i].paste = 0
<1>1. Char("p") \in Runes /\ Char("LF") \in Runes /\ Char("q") \in Runes
  <2>1. "p" \in Bytes /\ "LF" \in Bytes /\ "q" \in Bytes
    BY DEF Bytes, Text
  <2> QED BY <2>1, CharIsRune
<1>2. Pasted \in Lines /\ Len(Pasted) = 3
      /\ Pasted[1] = Char("p") /\ Pasted[2] = Char("LF") /\ Pasted[3] = Char("q")
  BY <1>1 DEF Pasted, Lines
<1>3. Char("p") # Char("q") /\ Char("p") # Char("LF") /\ Char("q") # Char("LF")
  BY DEF Char
<1>4. Char("p").paste = 0 /\ Char("LF").paste = 0 /\ Char("q").paste = 0
  BY DEF Char
<1>5. \A i \in 1 .. 3 : i = 1 \/ i = 2 \/ i = 3
  OBVIOUS
<1> QED BY <1>2, <1>3, <1>4, <1>5

\* A piece of three characters is the paste if they are.
LEMMA PieceIsPasted ==
    ASSUME NEW s \in Lines, NEW i \in 1 .. Len(s), i + 2 <= Len(s)
    PROVE  SubSeq(s, i, i + 2) = Pasted
               <=> s[i] = Char("p") /\ s[i + 1] = Char("LF") /\ s[i + 2] = Char("q")
<1> DEFINE t == SubSeq(s, i, i + 2)
<1>1. t \in Lines /\ Len(t) = 3 /\ t[1] = s[i] /\ t[2] = s[i + 1] /\ t[3] = s[i + 2]
  <2>1. i + 2 \in 0 .. Len(s) /\ Len(s) \in Nat
    BY DEF Lines
  <2>2. t \in Lines /\ Len(t) = 3
    BY <2>1 DEF Lines
  <2>3. \A k \in 1 .. 3 : t[k] = s[i + k - 1]
    BY <2>1 DEF Lines
  <2> QED BY <2>2, <2>3
<1> HIDE DEF t
<1>2. t = Pasted <=> t[1] = Pasted[1] /\ t[2] = Pasted[2] /\ t[3] = Pasted[3]
  <2>1. ASSUME t[1] = Pasted[1], t[2] = Pasted[2], t[3] = Pasted[3] PROVE t = Pasted
    <3>1. \A k \in 1 .. 3 : k = 1 \/ k = 2 \/ k = 3
      OBVIOUS
    <3>2. \A k \in 1 .. 3 : t[k] = Pasted[k]
      BY <2>1, <3>1
    <3>3. t \in Seq(Runes) /\ Pasted \in Seq(Runes) /\ Len(t) = Len(Pasted)
      BY <1>1, PastedIs DEF Lines
    <3>4. \A k \in 1 .. Len(t) : t[k] = Pasted[k]
      BY <1>1, <3>2
    <3> HIDE DEF Pasted
    <3> QED BY <3>3, <3>4, SeqEqual
  <2> QED BY <2>1
<1> QED BY <1>1, <1>2, PastedIs DEF t

\* Whole, character by character.
LEMMA WholeIs ==
    ASSUME NEW s \in Lines
    PROVE  Whole(s) <=>
             /\ \A i \in 1 .. Len(s) : s[i] = Char("p") =>
                    i + 2 <= Len(s) /\ s[i + 1] = Char("LF") /\ s[i + 2] = Char("q")
             /\ \A i \in 1 .. Len(s) : s[i] = Char("q") => i > 2 /\ s[i - 2] = Char("p")
<1>1. DOMAIN s = 1 .. Len(s)
  BY DEF Lines
<1>2. \A i \in 1 .. Len(s) : i + 2 <= Len(s) =>
        (SubSeq(s, i, i + 2) = Pasted
            <=> s[i] = Char("p") /\ s[i + 1] = Char("LF") /\ s[i + 2] = Char("q"))
  BY PieceIsPasted
<1> QED BY <1>1, <1>2 DEF Whole

\* A line without characters of a paste is whole.
LEMMA PlainIsWhole == ASSUME NEW s \in Lines, Plain(s) PROVE Whole(s)
<1>1. \A i \in DOMAIN s : s[i] # Char("p") /\ s[i] # Char("q")
  BY DEF Plain, Char
<1> QED BY <1>1 DEF Whole

LEMMA JoinAt ==
    ASSUME NEW s \in Lines, NEW t \in Lines, NEW i \in 1 .. Len(s) + Len(t)
    PROVE  (s \o t)[i] = IF i <= Len(s) THEN s[i] ELSE t[i - Len(s)]
  BY DEF Lines

\* A placeholder is replaced: a paste that was whole stays so, another joins it.
LEMMA ReplaceIsLine ==
    ASSUME NEW s \in Lines, NEW t \in Lines, NEW c
    PROVE  /\ ReplaceFirst(s, c, t) \in Lines
           /\ Whole(s) /\ t = Pasted /\ c.paste # 0 => Whole(ReplaceFirst(s, c, t))
<1> DEFINE n == FirstIndex(s, {c})
           r == ReplaceFirst(s, c, t)
           a == SubSeq(s, 1, n - 1)
           b == SubSeq(s, n + 1, Len(s))
<1>1. n \in 0 .. Len(s) /\ (n # 0 => s[n] = c) /\ Len(s) \in Nat
  BY FirstIndexIs DEF Lines
<1>2. CASE n = 0
  <2>1. r = s
    BY <1>2 DEF ReplaceFirst
  <2> QED BY <2>1
<1>3. CASE n # 0
  <2>1. r = a \o t \o b
    BY <1>3 DEF ReplaceFirst
  <2> HIDE DEF n, r
  <2>2. a \in Lines /\ Len(a) = n - 1 /\ b \in Lines /\ Len(b) = Len(s) - n
    BY <1>1, <1>3 DEF Lines
  <2>3. \A i \in 1 .. n - 1 : a[i] = s[i]
    BY <1>1, <1>3 DEF Lines
  <2>4. \A i \in 1 .. Len(s) - n : b[i] = s[i + n]
    BY <1>1, <1>3 DEF Lines
  <2> HIDE DEF a, b
  <2>5. a \o t \in Lines /\ Len(a \o t) = n - 1 + Len(t) /\ Len(t) \in Nat
    <3>1. Len(t) \in Nat
      BY DEF Lines
    <3> QED BY <2>2, <3>1, JoinIsLine
  <2>6. r \in Lines /\ Len(r) = Len(s) - 1 + Len(t)
    <3>1. r \in Lines /\ Len(r) = (n - 1 + Len(t)) + (Len(s) - n)
      <4> DEFINE u == a \o t
      <4>1. r = u \o b /\ u \in Lines /\ Len(u) = n - 1 + Len(t)
        BY <2>1, <2>5
      <4> HIDE DEF u
      <4>2. u \o b \in Lines /\ Len(u \o b) = Len(u) + Len(b)
        BY <2>2, <4>1, JoinIsLine
      <4> QED BY <2>2, <4>1, <4>2
    <3> QED BY <1>1, <2>5, <3>1
  <2>7. ASSUME Whole(s), t = Pasted, c.paste # 0 PROVE Whole(r)
    <3>1. /\ Len(t) = 3 /\ t[1] = Char("p") /\ t[2] = Char("LF") /\ t[3] = Char("q")
          /\ Char("p") # Char("q") /\ Char("p") # Char("LF") /\ Char("q") # Char("LF")
      BY <2>7, PastedIs
    <3>2. c # Char("p") /\ c # Char("q") /\ c # Char("LF")
      BY <2>7 DEF Char
    <3>3. \A i \in 1 .. n - 1 : r[i] = s[i]
      <4>1. \A i \in 1 .. n - 1 : i \in 1 .. Len(a \o t) /\ (a \o t)[i] = a[i]
        BY <1>1, <2>2, <2>5 DEF Lines
      <4>2. \A i \in 1 .. Len(a \o t) : r[i] = (a \o t)[i]
        BY <2>1, <2>2, <2>5 DEF Lines
      <4> QED BY <2>3, <4>1, <4>2
    <3>4. r[n] = Char("p") /\ r[n + 1] = Char("LF") /\ r[n + 2] = Char("q")
      <4>1. \A i \in 1 .. Len(a \o t) : r[i] = (a \o t)[i]
        BY <2>1, <2>2, <2>5 DEF Lines
      <4>2. \A i \in 1 .. 3 : (a \o t)[n - 1 + i] = t[i] /\ n - 1 + i \in 1 .. Len(a \o t)
        BY <1>1, <1>3, <2>2, <2>5, <3>1 DEF Lines
      <4>3. \A i \in 1 .. 3 : r[n - 1 + i] = t[i]
        BY <4>1, <4>2
      <4>4. n - 1 + 1 = n /\ n - 1 + 2 = n + 1 /\ n - 1 + 3 = n + 2
        BY <1>1
      <4> QED BY <3>1, <4>3, <4>4
    <3>5. \A i \in n + 3 .. Len(s) + 2 : r[i] = s[i - 2] /\ i - 2 \in 1 .. Len(s)
      <4> SUFFICES ASSUME NEW i \in n + 3 .. Len(s) + 2
                   PROVE  r[i] = s[i - 2] /\ i - 2 \in 1 .. Len(s)
        OBVIOUS
      <4>1. Len(a \o t) = n + 2 /\ Len(b) = Len(s) - n /\ i - (n + 2) \in 1 .. Len(b)
        BY <1>1, <2>2, <2>5, <3>1
      <4>2. r[i] = b[i - (n + 2)]
        <5> DEFINE u == a \o t
        <5>1. u \in Lines /\ Len(u) = n + 2 /\ r = u \o b /\ i \in Len(u) + 1 .. Len(u) + Len(b)
          BY <1>1, <2>1, <2>5, <4>1
        <5> HIDE DEF u
        <5>2. i \in 1 .. Len(u) + Len(b) /\ ~ (i <= Len(u))
          BY <1>1, <4>1, <5>1
        <5>3. r[i] = b[i - Len(u)]
          BY <2>2, <5>1, <5>2, JoinAt
        <5> QED BY <5>1, <5>3
      <4>3. b[i - (n + 2)] = s[i - 2]
        BY <1>1, <2>4, <4>1
      <4> QED BY <1>1, <4>2, <4>3
    <3>6. /\ \A i \in 1 .. Len(s) : s[i] = Char("p") =>
                i + 2 <= Len(s) /\ s[i + 1] = Char("LF") /\ s[i + 2] = Char("q")
          /\ \A i \in 1 .. Len(s) : s[i] = Char("q") => i > 2 /\ s[i - 2] = Char("p")
      BY <2>7, WholeIs
    <3>7. Len(r) = Len(s) + 2 /\ n \in 1 .. Len(s) /\ s[n] = c
      BY <1>1, <1>3, <2>6, <3>1
    <3>8. ASSUME NEW i \in 1 .. Len(r), r[i] = Char("p")
          PROVE  i + 2 <= Len(r) /\ r[i + 1] = Char("LF") /\ r[i + 2] = Char("q")
      <4>1. CASE i <= n - 1
        <5>1. s[i] = Char("p") /\ i \in 1 .. Len(s)
          BY <1>1, <3>3, <3>8, <4>1
        <5>2. i + 2 <= Len(s) /\ s[i + 1] = Char("LF") /\ s[i + 2] = Char("q")
          BY <3>6, <5>1
        <5>3. i + 1 # n /\ i + 2 # n
          BY <3>2, <3>7, <5>2
        <5>4. i + 1 \in 1 .. n - 1 /\ i + 2 \in 1 .. n - 1
          BY <1>1, <4>1, <5>3
        <5> QED BY <1>1, <3>3, <3>7, <5>2, <5>4
      <4>2. CASE i = n
        BY <3>4, <3>7, <4>2
      <4>3. CASE i = n + 1 \/ i = n + 2
        BY <3>1, <3>4, <3>8, <4>3
      <4>4. CASE i >= n + 3
        <5>1. i \in n + 3 .. Len(s) + 2
          BY <3>7, <4>4
        <5>2. s[i - 2] = Char("p") /\ i - 2 \in 1 .. Len(s)
          BY <3>5, <3>8, <5>1
        <5>3. (i - 2) + 2 <= Len(s) /\ s[(i - 2) + 1] = Char("LF") /\ s[(i - 2) + 2] = Char("q")
          BY <3>6, <5>2
        <5>4. i + 1 \in n + 3 .. Len(s) + 2 /\ i + 2 \in n + 3 .. Len(s) + 2
          BY <1>1, <5>1, <5>3
        <5>5. r[i + 1] = s[(i - 2) + 1] /\ r[i + 2] = s[(i - 2) + 2]
          <6>1. (i + 1) - 2 = (i - 2) + 1 /\ (i + 2) - 2 = (i - 2) + 2
            BY <5>1
          <6> QED BY <3>5, <5>4, <6>1
        <5> QED BY <3>7, <5>3, <5>4, <5>5
      <4> QED BY <1>1, <4>1, <4>2, <4>3, <4>4
    <3>9. ASSUME NEW i \in 1 .. Len(r), r[i] = Char("q")
          PROVE  i > 2 /\ r[i - 2] = Char("p")
      <4>1. CASE i <= n - 1
        <5>1. s[i] = Char("q") /\ i \in 1 .. Len(s)
          BY <1>1, <3>3, <3>9, <4>1
        <5>2. i > 2 /\ s[i - 2] = Char("p")
          BY <3>6, <5>1
        <5>3. i - 2 \in 1 .. n - 1
          BY <1>1, <4>1, <5>2
        <5> QED BY <3>3, <5>2, <5>3
      <4>2. CASE i = n \/ i = n + 1
        BY <3>1, <3>4, <3>9, <4>2
      <4>3. CASE i = n + 2
        <5>1. i - 2 = n /\ i > 2
          BY <3>7, <4>3
        <5> QED BY <3>4, <5>1
      <4>4. CASE i >= n + 3
        <5>1. i \in n + 3 .. Len(s) + 2
          BY <3>7, <4>4
        <5>2. s[i - 2] = Char("q") /\ i - 2 \in 1 .. Len(s)
          BY <3>5, <3>9, <5>1
        <5> DEFINE j == (i - 2) - 2
        <5>3. i - 2 > 2 /\ s[j] = Char("p")
          BY <3>6, <5>2
        <5>4. j \in 1 .. Len(s)
          BY <5>2, <5>3
        <5>5. s[j + 1] = Char("LF")
          <6> HIDE DEF j
          <6> QED BY <3>6, <5>3, <5>4
        <5>6. j # n /\ j + 1 # n
          <6> HIDE DEF j
          <6> QED BY <3>2, <3>7, <5>3, <5>5
        <5>7. j > n
          BY <1>1, <5>1, <5>6
        <5>8. i - 2 \in n + 3 .. Len(s) + 2
          BY <1>1, <5>1, <5>7
        <5>9. r[i - 2] = s[j]
          BY <3>5, <5>8
        <5> QED BY <5>2, <5>3, <5>9
      <4> QED BY <1>1, <4>1, <4>2, <4>3, <4>4
    <3> QED BY <2>6, <3>8, <3>9, WholeIs
  <2> QED BY <2>6, <2>7 DEF r
<1> QED BY <1>2, <1>3

-------------------------------------------------------------------------------
(* enter.                                                                  *)
\* f goes on from d by the first n pastes of e, through lines in G.
Expands(f, e, d, n, G) ==
    /\ f \in [0 .. n -> G] /\ f[0] = d
    /\ \A i \in 1 .. n :
          f[i] = ReplaceFirst(f[i - 1], e.pastes[i].token, e.pastes[i].content)

\* The lines that an expansion of e may come to.
Expandable(e, G) ==
    \A s \in G, i \in 1 .. Len(e.pastes) :
        ReplaceFirst(s, e.pastes[i].token, e.pastes[i].content) \in G

\* The recursive function in expandPastes has a value at each of its arguments.
LEMMA ExpansionsExist ==
    ASSUME NEW e, NEW G, Len(e.pastes) \in Nat, Expandable(e, G), NEW d \in G
    PROVE  \E f : Expands(f, e, d, Len(e.pastes), G)
<1> DEFINE N == Len(e.pastes)
           Missed == {m \in 0 .. N : ~ \E f : Expands(f, e, d, m, G)}
<1> HIDE DEF N
<1>0. N \in Nat
  BY DEF N
<1>1. SUFFICES ASSUME Missed # {} PROVE FALSE
  <2>1. N \in 0 .. N
    BY <1>0
  <2> QED BY <2>1 DEF N
<1>2. PICK m \in Missed : \A k \in Missed : m <= k
  <2>1. Missed \in SUBSET Nat
    BY <1>0
  <2> HIDE DEF Missed
  <2> QED BY <1>1, <2>1, Smallest
<1>3. CASE m = 0
  <2> DEFINE f == [i \in 0 .. 0 |-> d]
  <2>1. f \in [0 .. 0 -> G] /\ f[0] = d
    OBVIOUS
  <2>2. Expands(f, e, d, 0, G)
    BY <2>1 DEF Expands
  <2> QED BY <1>2, <1>3, <2>2
<1>4. CASE m # 0
  <2>1. m \in 1 .. N /\ m - 1 \in 0 .. N /\ m - 1 \notin Missed
    BY <1>0, <1>2, <1>4
  <2>2. PICK f : Expands(f, e, d, m - 1, G)
    BY <2>1
  <2> DEFINE next == ReplaceFirst(f[m - 1], e.pastes[m].token, e.pastes[m].content)
             g == [i \in 0 .. m |-> IF i = m THEN next ELSE f[i]]
  <2>3. f \in [0 .. m - 1 -> G] /\ f[0] = d
        /\ \A i \in 1 .. m - 1 :
              f[i] = ReplaceFirst(f[i - 1], e.pastes[i].token, e.pastes[i].content)
    BY <2>2 DEF Expands
  <2>4. next \in G
    <3>1. f[m - 1] \in G
      BY <1>0, <2>1, <2>3
    <3> QED BY <2>1, <3>1 DEF Expandable, N
  <2>5. g[m] = next /\ g[0] = d /\ \A i \in 0 .. m - 1 : g[i] = f[i]
    BY <1>0, <2>1, <2>3
  <2>6. g \in [0 .. m -> G]
    <3> HIDE DEF next
    <3> QED BY <1>0, <2>1, <2>3, <2>4
  <2> HIDE DEF g
  <2>7. ASSUME NEW i \in 1 .. m
        PROVE  g[i] = ReplaceFirst(g[i - 1], e.pastes[i].token, e.pastes[i].content)
    <3>1. CASE i = m
      <4>1. g[m - 1] = f[m - 1]
        BY <1>0, <2>1, <2>5
      <4> QED BY <2>5, <3>1, <4>1
    <3>2. CASE i # m
      <4>1. i \in 1 .. m - 1 /\ i \in 0 .. m - 1 /\ i - 1 \in 0 .. m - 1
        BY <1>0, <2>1, <3>2
      <4> QED BY <2>3, <2>5, <4>1
    <3> QED BY <3>1, <3>2
  <2>8. Expands(g, e, d, m, G)
    BY <2>5, <2>6, <2>7 DEF Expands
  <2> QED BY <1>2, <2>8
<1> QED BY <1>3, <1>4

\* What every replacement keeps, expandPastes keeps.
LEMMA ExpansionStays ==
    ASSUME NEW e, NEW G, Len(e.pastes) \in Nat, Expandable(e, G), NEW d \in G
    PROVE  expandPastes(e, d) \in G
<1> DEFINE N == Len(e.pastes)
           body(f) == [n \in 0 .. N |->
                          IF n = 0 THEN d
                          ELSE ReplaceFirst(f[n - 1], e.pastes[n].token, e.pastes[n].content)]
           expanded == CHOOSE f : f = body(f)
<1>1. PICK f : Expands(f, e, d, N, G)
  BY ExpansionsExist
<1>2. f = body(f)
  <2>1. f \in [0 .. N -> G] /\ f[0] = d
        /\ \A i \in 1 .. N :
              f[i] = ReplaceFirst(f[i - 1], e.pastes[i].token, e.pastes[i].content)
    BY <1>1 DEF Expands
  <2>2. \A i \in 0 .. N : i = 0 \/ i \in 1 .. N
    OBVIOUS
  <2>3. DOMAIN f = 0 .. N /\ \A i \in 0 .. N : f[i] = body(f)[i]
    BY <2>1, <2>2
  <2> QED BY <2>1, <2>3
<1>3. expanded = body(expanded)
  BY <1>2
<1>4. expandPastes(e, d) = expanded[N]
  BY DEF expandPastes
<1>5. \A n \in 0 .. N : expanded[n] =
          IF n = 0 THEN d
          ELSE ReplaceFirst(expanded[n - 1], e.pastes[n].token, e.pastes[n].content)
  BY <1>3
<1> HIDE DEF expanded
<1> DEFINE Wrong == {n \in 0 .. N : expanded[n] \notin G}
<1>6. Wrong = {}
  <2>1. SUFFICES ASSUME Wrong # {} PROVE FALSE
    OBVIOUS
  <2>2. PICK m \in Wrong : \A k \in Wrong : m <= k
    <3>1. Wrong \in SUBSET Nat
      OBVIOUS
    <3> HIDE DEF Wrong
    <3> QED BY <2>1, <3>1, Smallest
  <2>3. m # 0
    BY <1>5, <2>2
  <2>4. m \in 1 .. N /\ m - 1 \in 0 .. N /\ m - 1 \notin Wrong
    BY <2>2, <2>3
  <2>5. expanded[m - 1] \in G
    BY <2>4
  <2>6. ReplaceFirst(expanded[m - 1], e.pastes[m].token, e.pastes[m].content) \in G
    BY <2>4, <2>5 DEF Expandable
  <2> QED BY <1>5, <2>2, <2>3, <2>6
<1>7. N \in 0 .. N
  OBVIOUS
<1> QED BY <1>4, <1>6, <1>7

LEMMA ElementOf ==
    ASSUME NEW R, NEW s \in Seq(R), NEW i \in 1 .. Len(s)
    PROVE  i \in DOMAIN s /\ s[i] \in R
  OBVIOUS

\* expandPastes makes a line, and a whole one of a clean editor.
LEMMA ExpansionIsLine ==
    ASSUME NEW e, Sound(e)
    PROVE  /\ expandPastes(e, e.line) \in Lines
           /\ Clean(e) => Whole(expandPastes(e, e.line))
<1>1. /\ e.line \in Lines /\ Len(e.pastes) \in Nat
      /\ \A i \in 1 .. Len(e.pastes) :
            i \in DOMAIN e.pastes /\ e.pastes[i].content \in Lines
  <2>1. e.line \in Lines /\ e.pastes \in Seq([token : Runes, content : Lines])
    BY DEF Sound, Editors
  <2>2. ASSUME NEW i \in 1 .. Len(e.pastes)
        PROVE  i \in DOMAIN e.pastes /\ e.pastes[i] \in [token : Runes, content : Lines]
    BY <2>1, ElementOf
  <2>3. Len(e.pastes) \in Nat
    BY <2>1
  <2> QED BY <2>1, <2>2, <2>3
<1>2. Expandable(e, Lines)
  BY <1>1, ReplaceIsLine DEF Expandable
<1>3. expandPastes(e, e.line) \in Lines
  BY <1>1, <1>2, ExpansionStays
<1>4. ASSUME Clean(e) PROVE Whole(expandPastes(e, e.line))
  <2> DEFINE G == {s \in Lines : Whole(s)}
  <2>1. Expandable(e, G)
    <3> SUFFICES ASSUME NEW s \in Lines, Whole(s), NEW i \in 1 .. Len(e.pastes)
                 PROVE  ReplaceFirst(s, e.pastes[i].token, e.pastes[i].content) \in G
      BY DEF Expandable
    <3>1. /\ e.pastes[i].content \in Lines
          /\ e.pastes[i].content = Pasted /\ e.pastes[i].token.paste # 0
      BY <1>1, <1>4 DEF Clean
    <3> QED BY <3>1, ReplaceIsLine
  <2>2. e.line \in G
    BY <1>1, <1>4, PlainIsWhole DEF Clean
  <2> HIDE DEF G
  <2>3. expandPastes(e, e.line) \in G
    BY <1>1, <2>1, <2>2, ExpansionStays
  <2> QED BY <2>3 DEF G
<1> QED BY <1>3, <1>4

-------------------------------------------------------------------------------
\* The history takes the line in front.
LEMMA historyAddIs ==
    ASSUME NEW e, Sound(e), NEW entry \in Lines, Len(entry) <= MaxLine,
           Clean(e) => Plain(entry)
    PROVE  \E s \in Seq(Lines) :
              /\ historyAdd(e, entry) = [e EXCEPT !.entries = s]
              /\ \A i \in DOMAIN s : Len(s[i]) <= MaxLine
              /\ Clean(e) => \A i \in DOMAIN s : Plain(s[i])
<1>1. /\ e \in Editors /\ e.entries \in Seq(Lines) /\ Len(e.entries) \in Nat
      /\ \A i \in 1 .. Len(e.entries) : i \in DOMAIN e.entries /\ Len(e.entries[i]) <= MaxLine
      /\ Clean(e) => \A i \in 1 .. Len(e.entries) : Plain(e.entries[i])
      /\ DOMAIN e.entries = 1 .. Len(e.entries)
  <2>1. e \in Editors /\ Fits(e)
    BY DEF Sound
  <2>2. e.entries \in Seq(Lines) /\ Len(e.entries) \in Nat
        /\ DOMAIN e.entries = 1 .. Len(e.entries)
    BY <2>1 DEF Editors
  <2> QED BY <2>1, <2>2 DEF Fits, Clean
<1>2. CASE entry = <<>> \/ (e.entries # <<>> /\ e.entries[1] = entry)
  <2>1. historyAdd(e, entry) = [e EXCEPT !.entries = e.entries]
    BY <1>1, <1>2 DEF historyAdd, Editors
  <2> QED BY <1>1, <2>1
<1>3. CASE ~ (entry = <<>> \/ (e.entries # <<>> /\ e.entries[1] = entry))
  <2> DEFINE n == IF Len(e.entries) < MaxEntries THEN Len(e.entries) + 1 ELSE MaxEntries
             t == <<entry>> \o e.entries
             s == SubSeq(t, 1, n)
  <2>1. historyAdd(e, entry) = [e EXCEPT !.entries = s]
    BY <1>1, <1>3 DEF historyAdd, Editors
  <2>2. n \in 0 .. Len(e.entries) + 1
    BY <1>1, Limits
  <2> HIDE DEF n
  <2>3. t \in Seq(Lines) /\ Len(t) = Len(e.entries) + 1
    BY <1>1
  <2>4. \A i \in 1 .. Len(e.entries) + 1 : t[i] = IF i = 1 THEN entry ELSE e.entries[i - 1]
    BY <1>1
  <2> HIDE DEF t
  <2>5. s \in Seq(Lines) /\ Len(s) = n /\ \A i \in 1 .. n : s[i] = t[i]
    BY <1>1, <2>2, <2>3
  <2>6. DOMAIN s = 1 .. n
    BY <2>5
  <2> HIDE DEF s
  <2>7. ASSUME NEW i \in 1 .. n
        PROVE  s[i] = entry \/ \E j \in 1 .. Len(e.entries) : s[i] = e.entries[j]
    <3>1. CASE i = 1
      BY <1>1, <2>2, <2>4, <2>5, <3>1
    <3>2. CASE i # 1
      <4>1. i - 1 \in 1 .. Len(e.entries) /\ i \in 1 .. Len(e.entries) + 1
        BY <1>1, <2>2, <3>2
      <4> QED BY <2>4, <2>5, <3>2, <4>1
    <3> QED BY <3>1, <3>2
  <2>8. \A i \in DOMAIN s : Len(s[i]) <= MaxLine
    BY <1>1, <2>6, <2>7
  <2>9. Clean(e) => \A i \in DOMAIN s : Plain(s[i])
    BY <1>1, <2>6, <2>7
  <2> QED BY <2>1, <2>5, <2>8, <2>9
<1> QED BY <1>2, <1>3

\* Enter: the line is expanded, handed out and remembered.
LEMMA enterSound ==
    ASSUME NEW e, Sound(e), ~ e.search.active
    PROVE  Becomes(e, enter(e))
<1> DEFINE text == expandPastes(e, e.line)
<1>1. e \in Editors /\ e.line \in Lines /\ Len(e.line) <= MaxLine /\ (Clean(e) => Plain(e.line))
      /\ Fits(e)
  BY DEF Sound, Editors, Fits, Clean
<1>2. PICK s \in Seq(Lines) :
        /\ historyAdd(e, e.line) = [e EXCEPT !.entries = s]
        /\ \A i \in DOMAIN s : Len(s[i]) <= MaxLine
        /\ Clean(e) => \A i \in DOMAIN s : Plain(s[i])
  BY <1>1, historyAddIs
<1>3. text \in Lines /\ (Clean(e) => Whole(text))
  BY ExpansionIsLine
<1> HIDE DEF text
<1> DEFINE f == [e EXCEPT !.entries = s, !.result = "line", !.text = text, !.pastes = <<>>,
                          !.line = <<>>, !.pos = 0, !.historyIndex = -1]
<1>4. enter(e) = f
  BY <1>1, <1>2 DEF enter, Editors, text
<1>5. <<>> \in Lines /\ Len(<<>>) = 0 /\ Plain(<<>>) /\ DOMAIN <<>> = {}
      /\ <<>> \in Seq([token : Runes, content : Lines])
  BY DEF Lines, Plain
<1>6. f \in Editors
  <2> DEFINE none == <<>>
             minus == -1
             g == [e EXCEPT !.line = none, !.pos = 0, !.historyIndex = minus, !.entries = s]
             h == [g EXCEPT !.result = "line", !.text = text, !.pastes = none]
  <2>1. minus \in Int /\ none \in Lines /\ none \in Seq([token : Runes, content : Lines])
    BY <1>5
  <2>2. f = h
    BY <1>1 DEF Editors
  <2> HIDE DEF none, minus, f
  <2>3. g \in Editors
    BY <1>1, <2>1 DEF Editors
  <2> HIDE DEF g
  <2>4. h \in Editors
    BY <1>3, <2>1, <2>3 DEF Editors
  <2> QED BY <2>2, <2>4
<1>7. /\ f.line = <<>> /\ f.pos = 0 /\ f.entries = s
      /\ f.historyIndex = -1 /\ f.historyPending = e.historyPending
      /\ f.search = e.search /\ f.pastes = <<>> /\ f.text = text
      /\ f.remainder = e.remainder /\ f.pasteActive = e.pasteActive
      /\ f.pasteBuf = e.pasteBuf /\ f.pasteLastCR = e.pasteLastCR
  BY <1>1 DEF Editors
<1> HIDE DEF f
<1>8. Len(s) \in Nat
  OBVIOUS
<1>9. Fits(f)
  <2>1. MaxLine \in Nat
    BY Limits
  <2> QED BY <1>1, <1>2, <1>5, <1>7, <1>8, <2>1 DEF Fits
<1>10. Shows(f)
  BY <1>7 DEF Shows
<1>11. Clean(e) => Clean(f)
  BY <1>2, <1>3, <1>5, <1>7 DEF Clean
<1> QED BY <1>4, <1>6, <1>7, <1>9, <1>10, <1>11 DEF Becomes, Goes, Sound

-------------------------------------------------------------------------------
(* The reverse search.                                                     *)
\* searchBackward finds an entry with the query, from start on to older ones, or none.
LEMMA searchBackwardIs ==
    ASSUME NEW e, NEW start \in Nat, Len(e.entries) \in Nat
    PROVE  \/ searchBackward(e, start) = -1
           \/ /\ searchBackward(e, start) \in start .. Len(e.entries) - 1
              /\ Matches(historyAt(e, searchBackward(e, start)), e.search.query)
<1> DEFINE hits == {i \in start .. Len(e.entries) - 1 :
                        Matches(historyAt(e, i), e.search.query)}
<1>1. CASE hits = {}
  BY <1>1 DEF searchBackward
<1>2. CASE hits # {}
  <2>1. PICK m \in hits : \A k \in hits : m <= k
    <3>1. hits \in SUBSET Nat
      OBVIOUS
    <3> HIDE DEF hits
    <3> QED BY <1>2, <3>1, Smallest
  <2> DEFINE n == CHOOSE i \in hits : \A j \in hits : i <= j
  <2>2. n \in hits
    BY <2>1
  <2>3. searchBackward(e, start) = n
    BY <1>2 DEF searchBackward
  <2> HIDE DEF n
  <2> QED BY <2>2, <2>3
<1> QED BY <1>1, <1>2

\* A search with the query q, which a key has left or made.
LEMMA SearchSound ==
    ASSUME NEW e, Sound(e), e.search.active, NEW q \in Lines, NEW start \in Nat
    PROVE  LET f == [e EXCEPT !.search.query = q]
           IN  Becomes(e, applySearchResult(f, searchBackward(f, start)))
<1> DEFINE f == [e EXCEPT !.search.query = q]
           n == searchBackward(f, start)
           g == applySearchResult(f, n)
<1>1. e \in Editors /\ Fits(e) /\ Shows(e) /\ e.search \in Searches
  BY DEF Sound, Editors
<1>2. /\ f \in Editors /\ f.line = e.line /\ f.pos = e.pos /\ f.entries = e.entries
      /\ f.historyIndex = e.historyIndex /\ f.historyPending = e.historyPending
      /\ f.pastes = e.pastes /\ f.text = e.text
      /\ f.remainder = e.remainder /\ f.pasteActive = e.pasteActive
      /\ f.pasteBuf = e.pasteBuf /\ f.pasteLastCR = e.pasteLastCR
      /\ f.search \in Searches /\ f.search.active = TRUE
      /\ f.search.query = q /\ f.search.index = e.search.index
      /\ f.search.line = e.search.line /\ f.search.pos = e.search.pos
  BY <1>1 DEF Editors, Searches
<1>3. Len(e.entries) \in Nat /\ f.line \in Lines /\ Len(f.line) \in Nat /\ Len(f.line) <= MaxLine
  BY <1>1 DEF Editors, Fits, Lines
<1> HIDE DEF f
<1>4. \/ n = -1
      \/ n \in start .. Len(e.entries) - 1 /\ Matches(historyAt(f, n), q)
  BY <1>2, <1>3, searchBackwardIs
<1> HIDE DEF n
<1>5. CASE n = -1
  <2>1. g = [f EXCEPT !.search.failed = TRUE, !.pos = Len(f.line)]
    BY <1>5 DEF applySearchResult
  <2> DEFINE s == [f.search EXCEPT !.failed = TRUE]
  <2>a. /\ s \in Searches /\ s.active = TRUE /\ s.failed = TRUE /\ s.index = f.search.index
        /\ s.line = f.search.line /\ s.pos = f.search.pos
    BY <1>2 DEF Searches
  <2>b. g = [f EXCEPT !.search = s, !.pos = Len(f.line)]
    BY <1>2, <2>1 DEF Editors
  <2> HIDE DEF s, g
  <2>2. g \in Editors
    BY <1>2, <1>3, <2>a, <2>b DEF Editors
  <2>3. /\ g.line = f.line /\ g.pos = Len(f.line) /\ g.entries = f.entries
        /\ g.historyIndex = f.historyIndex /\ g.historyPending = f.historyPending
        /\ g.pastes = f.pastes /\ g.text = f.text
        /\ g.remainder = f.remainder /\ g.pasteActive = f.pasteActive
        /\ g.pasteBuf = f.pasteBuf /\ g.pasteLastCR = f.pasteLastCR
        /\ g.search.active = TRUE /\ g.search.failed = TRUE
        /\ g.search.index = f.search.index
        /\ g.search.line = f.search.line /\ g.search.pos = f.search.pos
    BY <1>2, <2>a, <2>b DEF Editors
  <2>4. Fits(g)
    BY <1>1, <1>2, <1>3, <2>3 DEF Fits
  <2>5. Shows(g)
    BY <1>1, <1>2, <2>3 DEF Shows, historyAt
  <2>6. Clean(e) => Clean(g)
    BY <1>2, <2>3 DEF Clean
  <2> QED BY <1>2, <2>2, <2>3, <2>4, <2>5, <2>6 DEF Becomes, Goes, Sound, g, n, f
<1>6. CASE n # -1
  <2> DEFINE l == historyAt(f, n)
  <2>1. g = [f EXCEPT !.line = l, !.pos = Len(l), !.search.index = n, !.search.failed = FALSE]
    BY <1>2, <1>6 DEF applySearchResult, setLine, Editors
  <2>2. n \in 0 .. Len(e.entries) - 1 /\ Matches(l, q) /\ l = historyAt(e, n)
    BY <1>2, <1>3, <1>4, <1>6 DEF historyAt
  <2>3. l \in Lines /\ Len(l) <= MaxLine /\ (Clean(e) => Plain(l)) /\ Len(l) \in Nat
    BY <2>2, EntriesFit DEF Lines
  <2> HIDE DEF l
  <2> DEFINE s == [f.search EXCEPT !.index = n, !.failed = FALSE]
  <2>a. /\ s \in Searches /\ s.active = TRUE /\ s.query = q /\ s.index = n
        /\ s.line = f.search.line /\ s.pos = f.search.pos
    <3>1. n \in Int
      BY <1>3, <2>2
    <3>2. s = [[f.search EXCEPT !.index = n] EXCEPT !.failed = FALSE]
      BY <1>2 DEF Searches
    <3> DEFINE t == [f.search EXCEPT !.index = n]
    <3>3. /\ t \in Searches /\ t.active = TRUE /\ t.query = q /\ t.index = n
          /\ t.line = f.search.line /\ t.pos = f.search.pos
      BY <1>2, <3>1 DEF Searches
    <3> HIDE DEF s, t
    <3>4. s = [t EXCEPT !.failed = FALSE]
      BY <3>2 DEF t
    <3> QED BY <3>3, <3>4 DEF Searches
  <2>b. g = [f EXCEPT !.search = s, !.line = l, !.pos = Len(l)]
    BY <1>2, <2>1 DEF Editors
  <2> HIDE DEF s, g
  <2>4. g \in Editors
    BY <1>2, <2>a, <2>b, <2>3 DEF Editors
  <2>5. /\ g.line = l /\ g.pos = Len(l) /\ g.entries = f.entries
        /\ g.historyIndex = f.historyIndex /\ g.historyPending = f.historyPending
        /\ g.pastes = f.pastes /\ g.text = f.text
        /\ g.remainder = f.remainder /\ g.pasteActive = f.pasteActive
        /\ g.pasteBuf = f.pasteBuf /\ g.pasteLastCR = f.pasteLastCR
        /\ g.search.active = TRUE /\ g.search.query = q
        /\ g.search.index = n
        /\ g.search.line = f.search.line /\ g.search.pos = f.search.pos
    BY <1>2, <2>a, <2>b DEF Editors
  <2>6. Fits(g)
    BY <1>1, <1>2, <1>3, <2>2, <2>3, <2>5 DEF Fits
  <2>7. Shows(g)
    <3>1. historyAt(g, n) = l
      BY <1>2, <2>2, <2>5 DEF historyAt
    <3> QED BY <2>2, <2>5, <3>1 DEF Shows
  <2>8. Clean(e) => Clean(g)
    BY <1>1, <1>2, <2>3, <2>5 DEF Clean
  <2> QED BY <1>2, <2>4, <2>5, <2>6, <2>7, <2>8 DEF Becomes, Goes, Sound, g, n, f
<1> QED BY <1>5, <1>6 DEF g, n, f

\* The keys of a search.
LEMMA SearchKeysSound ==
    ASSUME NEW e, Sound(e), e.search.active, NEW c \in Runes
    PROVE  /\ Becomes(e, searchNext(e)) /\ Becomes(e, searchBackspace(e))
           /\ Becomes(e, searchAppend(e, c))
<1>1. /\ e \in Editors /\ Fits(e) /\ e.search \in Searches /\ e.search.query \in Lines
      /\ e.search.index \in -1 .. Len(e.entries) - 1
  BY DEF Sound, Editors, Searches, Fits
<1>2. Len(e.entries) \in Nat
  BY <1>1 DEF Editors
<1>3. Becomes(e, searchNext(e))
  <2> DEFINE q == e.search.query
             f == [e EXCEPT !.search.query = q]
             start == e.search.index + 1
  <2>1. f = e
    BY <1>1 DEF Editors, Searches
  <2>2. start \in Nat /\ q \in Lines
    BY <1>1, <1>2
  <2>3. searchNext(e) = applySearchResult(f, searchBackward(f, start))
    BY <2>1 DEF searchNext
  <2> HIDE DEF q, start
  <2>4. Becomes(e, applySearchResult(f, searchBackward(f, start)))
    BY <2>2, SearchSound
  <2> QED BY <2>3, <2>4
<1>4. Becomes(e, searchBackspace(e))
  <2>1. CASE e.search.query = <<>>
    BY <2>1, SameBecomes DEF searchBackspace
  <2>2. CASE e.search.query # <<>>
    <3> DEFINE q == Front(e.search.query)
               f == [e EXCEPT !.search.query = q]
    <3>1. q \in Lines
      BY <1>1, <2>2 DEF Front, Lines
    <3>2. searchBackspace(e) = applySearchResult(f, searchBackward(f, 0))
      BY <2>2 DEF searchBackspace
    <3> HIDE DEF q
    <3>3. Becomes(e, applySearchResult(f, searchBackward(f, 0)))
      BY <3>1, SearchSound
    <3> QED BY <3>2, <3>3
  <2> QED BY <2>1, <2>2
<1>5. Becomes(e, searchAppend(e, c))
  <2> DEFINE q == Append(e.search.query, c)
             f == [e EXCEPT !.search.query = q]
             start == IF f.search.index < 0 THEN 0 ELSE f.search.index
  <2>1. q \in Lines
    BY <1>1 DEF Lines
  <2>2. f.search.index = e.search.index
    BY <1>1 DEF Editors, Searches
  <2>3. start \in Nat
    BY <1>1, <1>2, <2>2
  <2>4. searchAppend(e, c) = applySearchResult(f, searchBackward(f, start))
    BY DEF searchAppend
  <2> HIDE DEF q, start
  <2>5. Becomes(e, applySearchResult(f, searchBackward(f, start)))
    BY <2>1, <2>3, SearchSound
  <2> QED BY <2>4, <2>5
<1> QED BY <1>3, <1>4, <1>5

\* The empty line.
LEMMA NothingFits ==
    /\ <<>> \in Lines /\ Len(<<>>) = 0 /\ Plain(<<>>) /\ DOMAIN <<>> = {}
    /\ <<>> \in Seq([token : Runes, content : Lines]) /\ <<>> \in Seq(Bytes)
  BY DEF Lines, Plain

\* A search starts: the line is put by.
LEMMA startSearchSound ==
    ASSUME NEW e, Sound(e), ~ e.pasteActive
    PROVE  Becomes(e, startSearch(e))
<1> DEFINE none == <<>>
           minus == -1
           s == [active |-> TRUE, query |-> none, index |-> minus, failed |-> FALSE,
                 line |-> e.line, pos |-> e.pos]
           g == [e EXCEPT !.line = none, !.pos = 0, !.search = s]
<1>1. e \in Editors /\ Fits(e) /\ e.line \in Lines /\ e.pos \in Nat /\ Len(e.entries) \in Nat
  BY DEF Sound, Editors
<1>2. none \in Lines /\ Len(none) = 0 /\ Plain(none) /\ minus \in Int
  BY NothingFits
<1>3. startSearch(e) = g
  <2>2. startSearch(e) = [[e EXCEPT !.line = none, !.pos = Len(none)] EXCEPT !.search = s]
    BY DEF startSearch, setLine
  <2> HIDE DEF s, none
  <2>3. startSearch(e) = g
    BY <1>1, <1>2, <2>2 DEF Editors
  <2> QED BY <2>3
<1> HIDE DEF none
<1>4. minus \in -1 .. Len(e.entries) - 1 /\ ~ (minus >= 0)
  BY <1>1
<1> HIDE DEF minus
<1>5. s \in Searches
  BY <1>1, <1>2 DEF Searches
<1>6. s.active = TRUE /\ s.index = minus /\ s.line = e.line /\ s.pos = e.pos
  OBVIOUS
<1> HIDE DEF s
<1>7. g \in Editors
  BY <1>1, <1>2, <1>5 DEF Editors
<1>8. /\ g.line = none /\ g.pos = 0 /\ g.entries = e.entries
      /\ g.historyIndex = e.historyIndex /\ g.historyPending = e.historyPending
      /\ g.search = s /\ g.pastes = e.pastes /\ g.text = e.text
      /\ g.remainder = e.remainder /\ g.pasteActive = e.pasteActive
      /\ g.pasteBuf = e.pasteBuf /\ g.pasteLastCR = e.pasteLastCR
  BY <1>1 DEF Editors
<1> HIDE DEF g
<1>9. Fits(g)
  BY <1>1, <1>2, <1>4, <1>6, <1>8, Limits DEF Fits
<1>10. Shows(g)
  BY <1>4, <1>6, <1>8 DEF Shows
<1>11. Clean(e) => Clean(g)
  BY <1>2, <1>6, <1>8 DEF Clean
<1> QED BY <1>3, <1>7, <1>8, <1>9, <1>10, <1>11 DEF Becomes, Goes, Sound

\* A search ends, with the entry or with the line that was put by.
LEMMA endSearchSound ==
    ASSUME NEW e, Sound(e), e.search.active, NEW abort \in BOOLEAN
    PROVE  /\ Becomes(e, endSearch(e, abort)) /\ ~ endSearch(e, abort).search.active
           /\ endSearch(e, abort).result = e.result
<1> DEFINE none == <<>>
           minus == -1
           l == IF abort THEN e.search.line ELSE e.line
           p == IF abort THEN e.search.pos ELSE e.pos
           g == [e EXCEPT !.search.active = FALSE, !.historyIndex = minus,
                          !.historyPending = none, !.line = l, !.pos = p]
<1>1. e \in Editors /\ Fits(e) /\ e.search \in Searches /\ Len(e.entries) \in Nat
  BY DEF Sound, Editors
<1>2. none \in Lines /\ Len(none) = 0 /\ Plain(none) /\ minus \in Int
  BY NothingFits
<1>3. endSearch(e, abort) = g
  BY <1>1 DEF endSearch, Editors, Searches
<1> HIDE DEF none
<1>4. minus \in -1 .. Len(e.entries) - 1
  BY <1>1
<1> HIDE DEF minus
<1>5. /\ l \in Lines /\ p \in Nat /\ p <= Len(l) /\ Len(l) <= MaxLine
      /\ Clean(e) => Plain(l)
  BY <1>1 DEF Fits, Clean, Editors, Searches
<1> HIDE DEF l, p
<1>6. g \in Editors
  BY <1>1, <1>2, <1>5 DEF Editors, Searches
<1>7. /\ g.line = l /\ g.pos = p /\ g.entries = e.entries
      /\ g.historyIndex = minus /\ g.historyPending = none
      /\ g.search.active = FALSE /\ g.pastes = e.pastes /\ g.text = e.text
      /\ g.remainder = e.remainder /\ g.pasteActive = e.pasteActive
      /\ g.pasteBuf = e.pasteBuf /\ g.pasteLastCR = e.pasteLastCR
      /\ g.result = e.result
  BY <1>1 DEF Editors, Searches
<1> HIDE DEF g
<1>8. Fits(g)
  BY <1>1, <1>2, <1>4, <1>5, <1>7, Limits DEF Fits
<1>9. Shows(g)
  BY <1>7 DEF Shows
<1>10. Clean(e) => Clean(g)
  BY <1>2, <1>5, <1>7 DEF Clean
<1> QED BY <1>3, <1>6, <1>7, <1>8, <1>9, <1>10 DEF Becomes, Goes, Sound

-------------------------------------------------------------------------------
(* What readKey changes beside the keys.                                   *)
LEMMA RemainderChanges ==
    ASSUME NEW e, Sound(e), NEW r \in Seq(Bytes)
    PROVE  LET f == [e EXCEPT !.remainder = r] IN
           /\ Sound(f) /\ (Clean(e) => Clean(f))
           /\ f.remainder = r /\ f.pasteActive = e.pasteActive
           /\ f.pasteBuf = e.pasteBuf /\ f.pasteLastCR = e.pasteLastCR
           /\ f.search = e.search /\ f.result = e.result
<1> DEFINE f == [e EXCEPT !.remainder = r]
<1>1. e \in Editors /\ Fits(e) /\ Shows(e)
  BY DEF Sound
<1>2. f \in Editors
  BY <1>1 DEF Editors
<1>3. /\ f.line = e.line /\ f.pos = e.pos /\ f.entries = e.entries
      /\ f.historyIndex = e.historyIndex /\ f.historyPending = e.historyPending
      /\ f.search = e.search /\ f.pastes = e.pastes /\ f.text = e.text
      /\ f.remainder = r /\ f.pasteActive = e.pasteActive
      /\ f.pasteBuf = e.pasteBuf /\ f.pasteLastCR = e.pasteLastCR /\ f.result = e.result
  BY <1>1 DEF Editors
<1> HIDE DEF f
<1>4. Fits(f) /\ Shows(f)
  BY <1>1, <1>3 DEF Fits, Shows, historyAt
<1>5. Clean(e) => Clean(f)
  BY <1>3 DEF Clean
<1> QED BY <1>2, <1>3, <1>4, <1>5 DEF Sound, f

\* readLine hands the line out.
LEMMA ResultChanges ==
    ASSUME NEW e, Sound(e), NEW r \in {"none", "line", "eof"}
    PROVE  LET f == [e EXCEPT !.result = r] IN
           /\ Goes(e, f) /\ Becomes(e, f) /\ f.result = r
           /\ f.search = e.search /\ f.text = e.text
<1> DEFINE f == [e EXCEPT !.result = r]
<1>1. e \in Editors /\ Fits(e) /\ Shows(e)
  BY DEF Sound
<1>2. f \in Editors
  BY <1>1 DEF Editors
<1>3. /\ f.line = e.line /\ f.pos = e.pos /\ f.entries = e.entries
      /\ f.historyIndex = e.historyIndex /\ f.historyPending = e.historyPending
      /\ f.search = e.search /\ f.pastes = e.pastes /\ f.text = e.text
      /\ f.remainder = e.remainder /\ f.pasteActive = e.pasteActive
      /\ f.pasteBuf = e.pasteBuf /\ f.pasteLastCR = e.pasteLastCR /\ f.result = r
  BY <1>1 DEF Editors
<1> HIDE DEF f
<1>4. Fits(f) /\ Shows(f)
  BY <1>1, <1>3 DEF Fits, Shows, historyAt
<1>5. Clean(e) => Clean(f)
  BY <1>3 DEF Clean
<1> QED BY <1>2, <1>3, <1>4, <1>5 DEF Sound, Goes, Becomes, f

\* The editor with the fields of a paste.
Pasting(e, a, b, c) == [e EXCEPT !.pasteActive = a, !.pasteBuf = b, !.pasteLastCR = c]

\* A paste starts or ends, or grows.
LEMMA PasteChanges ==
    ASSUME NEW e, Sound(e), NEW a \in BOOLEAN, a => ~ e.search.active,
           NEW b \in Lines, NEW c \in BOOLEAN
    PROVE  LET f == Pasting(e, a, b, c) IN
           /\ Sound(f) /\ (Clean(e) => Clean(f))
           /\ f.remainder = e.remainder /\ f.pasteActive = a
           /\ f.pasteBuf = b /\ f.pasteLastCR = c
           /\ f.search = e.search /\ f.result = e.result
           /\ f.line = e.line /\ f.pastes = e.pastes
<1> DEFINE f == Pasting(e, a, b, c)
<1>1. e \in Editors /\ Fits(e) /\ Shows(e)
  BY DEF Sound
<1>2. f \in Editors
  BY <1>1 DEF Editors, Pasting
<1>3. /\ f.line = e.line /\ f.pos = e.pos /\ f.entries = e.entries
      /\ f.historyIndex = e.historyIndex /\ f.historyPending = e.historyPending
      /\ f.search = e.search /\ f.pastes = e.pastes /\ f.text = e.text
      /\ f.remainder = e.remainder /\ f.pasteActive = a
      /\ f.pasteBuf = b /\ f.pasteLastCR = c /\ f.result = e.result
  BY <1>1 DEF Editors, Pasting
<1> HIDE DEF f
<1>4. Fits(f) /\ Shows(f)
  BY <1>1, <1>3 DEF Fits, Shows, historyAt
<1>5. Clean(e) => Clean(f)
  BY <1>3 DEF Clean
<1> QED BY <1>2, <1>3, <1>4, <1>5 DEF Sound, f

\* The search is given up with the input.
LEMMA SearchDropped ==
    ASSUME NEW e, Sound(e), NEW r \in Seq(Bytes)
    PROVE  LET f == [e EXCEPT !.search = NoSearch, !.result = "eof", !.remainder = r] IN
           /\ Sound(f) /\ (Clean(e) => Clean(f))
           /\ f.result = "eof" /\ f.pasteActive = e.pasteActive
<1> DEFINE none == NoSearch
           f == [e EXCEPT !.search = none, !.result = "eof", !.remainder = r]
<1>1. e \in Editors /\ Fits(e) /\ Shows(e)
  BY DEF Sound
<1>0. none \in Searches /\ ~ none.active
  <2> DEFINE empty == <<>>
             minus == -1
  <2>1. empty \in Lines /\ minus \in Int
    BY NothingFits
  <2>2. none = [active |-> FALSE, query |-> empty, index |-> minus, failed |-> FALSE,
                line |-> empty, pos |-> 0]
    BY DEF NoSearch
  <2> HIDE DEF empty, minus, none
  <2> QED BY <2>1, <2>2 DEF Searches
<1> HIDE DEF none
<1>2. f \in Editors
  BY <1>0, <1>1 DEF Editors
<1>3. /\ f.line = e.line /\ f.pos = e.pos /\ f.entries = e.entries
      /\ f.historyIndex = e.historyIndex /\ f.historyPending = e.historyPending
      /\ f.search = none /\ f.pastes = e.pastes /\ f.text = e.text
      /\ f.pasteActive = e.pasteActive /\ f.result = "eof"
  BY <1>1 DEF Editors
<1> HIDE DEF f
<1>4. Fits(f) /\ Shows(f)
  BY <1>0, <1>1, <1>3 DEF Fits, Shows, historyAt
<1>5. Clean(e) => Clean(f)
  BY <1>0, <1>3 DEF Clean
<1> QED BY <1>2, <1>3, <1>4, <1>5 DEF Sound, f, none

-------------------------------------------------------------------------------
(* Pastes.                                                                 *)
\* There is no search in a paste.
LEMMA PasteFits == ASSUME NEW e, Sound(e), e.pasteActive PROVE ~ e.search.active
  BY DEF Sound, Fits

\* abortPaste.
LEMMA abortPasteSound ==
    ASSUME NEW e, Sound(e)
    PROVE  /\ Sound(abortPaste(e)) /\ (Clean(e) => Clean(abortPaste(e)))
           /\ abortPaste(e).remainder = e.remainder /\ ~ abortPaste(e).pasteActive
           /\ abortPaste(e).search = e.search /\ abortPaste(e).result = e.result
           /\ abortPaste(e).line = e.line /\ abortPaste(e).pastes = e.pastes
<1> DEFINE none == <<>>
           off == FALSE
           f == Pasting(e, off, none, off)
<1>1. none \in Lines /\ off \in BOOLEAN /\ ~ off
  BY NothingFits
<1>2. abortPaste(e) = f
  BY DEF abortPaste, Pasting
<1> HIDE DEF none, off
<1>3. /\ Sound(f) /\ (Clean(e) => Clean(f))
      /\ f.remainder = e.remainder /\ f.pasteActive = off
      /\ f.search = e.search /\ f.result = e.result
      /\ f.line = e.line /\ f.pastes = e.pastes
  BY <1>1, PasteChanges
<1> QED BY <1>1, <1>2, <1>3

\* The character that a key of a paste adds.
PasteRune(key) == Char(IF key = "Enter" THEN "LF" ELSE key)

\* addPasteRune: one more character, and a LF after a CR is none.
LEMMA addPasteRuneSound ==
    ASSUME NEW e, Sound(e), e.pasteActive, NEW key \in Bytes
    PROVE  LET f == addPasteRune(e, key) IN
           /\ Sound(f) /\ (Clean(e) => Clean(f))
           /\ f.remainder = e.remainder /\ f.pasteActive = TRUE /\ f.result = e.result
           /\ key # "LF" => f.pasteBuf = Append(e.pasteBuf, PasteRune(key))
<1>0. ~ e.search.active
  BY PasteFits
<1>1. e \in Editors /\ e.pasteBuf \in Lines /\ e.pasteLastCR \in BOOLEAN
  BY DEF Sound, Editors
<1>2. CASE key = "LF" /\ e.pasteLastCR
  <2> DEFINE on == TRUE
             off == FALSE
             f == Pasting(e, on, e.pasteBuf, off)
  <2>1. addPasteRune(e, key) = f
    <3>1. addPasteRune(e, key) = [e EXCEPT !.pasteLastCR = FALSE]
      BY <1>2 DEF addPasteRune
    <3> QED BY <1>1, <3>1 DEF Editors, Pasting
  <2>2. /\ Sound(f) /\ (Clean(e) => Clean(f))
        /\ f.remainder = e.remainder /\ f.pasteActive = on /\ f.result = e.result
    <3>1. on \in BOOLEAN /\ off \in BOOLEAN
      OBVIOUS
    <3> HIDE DEF on, off
    <3> QED BY <1>0, <1>1, <3>1, PasteChanges
  <2> QED BY <1>2, <2>1, <2>2
<1>3. CASE ~ (key = "LF" /\ e.pasteLastCR)
  <2> DEFINE b == Append(e.pasteBuf, PasteRune(key))
             c == key = "Enter"
             on == TRUE
             f == Pasting(e, on, b, c)
  <2>1. b \in Lines
    <3>1. PasteRune(key) \in Runes
      BY CharIsRune DEF PasteRune, Bytes
    <3> QED BY <1>1, <3>1 DEF Lines
  <2>2. addPasteRune(e, key) = f
    <3>1. addPasteRune(e, key) = [e EXCEPT !.pasteLastCR = c, !.pasteBuf = b]
      BY <1>3 DEF addPasteRune, PasteRune
    <3> HIDE DEF b, c
    <3> QED BY <1>1, <3>1 DEF Editors, Pasting
  <2>3. c \in BOOLEAN
    OBVIOUS
  <2> HIDE DEF c
  <2>4. /\ Sound(f) /\ (Clean(e) => Clean(f))
        /\ f.remainder = e.remainder /\ f.pasteActive = on /\ f.result = e.result
        /\ f.pasteBuf = b
    <3>1. on \in BOOLEAN
      OBVIOUS
    <3> HIDE DEF b, on
    <3> QED BY <1>0, <2>1, <2>3, <3>1, PasteChanges
  <2> QED BY <2>2, <2>4
<1> QED BY <1>2, <1>3

\* A placeholder is a character that no key types.
LEMMA PlaceholderIsRune ==
    ASSUME NEW s \in Lines, s # <<>>, NEW n \in Nat
    PROVE  Placeholder(n, s) \in Runes
<1> DEFINE S == {i \in DOMAIN s : s[i] = Char("LF")}
<1>1. IsFiniteSet(S) /\ Cardinality(S) \in Nat
  <2>1. DOMAIN s = 1 .. Len(s) /\ Len(s) \in Nat
    BY DEF Lines
  <2>2. IsFiniteSet(1 .. Len(s))
    BY <2>1, FS_Interval
  <2>3. S \subseteq 1 .. Len(s)
    BY <2>1
  <2> HIDE DEF S
  <2>4. IsFiniteSet(S)
    BY <2>2, <2>3, FS_Subset
  <2> QED BY <2>4, FS_CardinalityType
<1>2. countPastedLines(s) \in Nat
  <2> DEFINE k == IF Last(s) = Char("LF") THEN 0 ELSE 1
  <2>1. countPastedLines(s) = Cardinality(S) + k
    BY DEF countPastedLines
  <2>2. k \in Nat
    OBVIOUS
  <2> HIDE DEF k, S
  <2> QED BY <1>1, <2>1, <2>2
<1> QED BY <1>2 DEF Placeholder, Runes

LEMMA OneIsLine ==
    ASSUME NEW c \in Runes
    PROVE  /\ <<c>> \in Lines /\ Len(<<c>>) = 1
           /\ c.rune \notin {"p", "q"} => Plain(<<c>>)
  BY DEF Lines, Plain

\* finishPaste: a paste that was collected in full becomes a placeholder of it.
LEMMA finishPasteSound ==
    ASSUME NEW e, Sound(e), e.pasteActive
    PROVE  LET f == finishPaste(e) IN
           /\ Sound(f) /\ f.remainder = e.remainder /\ ~ f.pasteActive
           /\ f.result = e.result
           /\ Clean(e) /\ e.pasteBuf = Pasted => Clean(f)
<1> DEFINE f == abortPaste(e)
           n == Len(e.pastes) + 1
           token == Placeholder(n, e.pasteBuf)
<1>0. ~ e.search.active /\ e.pasteBuf \in Lines /\ e.pastes \in Seq([token : Runes, content : Lines])
  BY PasteFits DEF Sound, Editors
<1>1. /\ Sound(f) /\ (Clean(e) => Clean(f))
      /\ f.remainder = e.remainder /\ ~ f.pasteActive
      /\ f.search = e.search /\ f.result = e.result
      /\ f.line = e.line /\ f.pastes = e.pastes
  BY <1>0, abortPasteSound
<1> HIDE DEF f
<1>2. CASE e.pasteBuf = <<>>
  <2>1. finishPaste(e) = f
    BY <1>2 DEF finishPaste, f
  <2> QED BY <1>1, <2>1
<1>3. CASE e.pasteBuf # <<>> /\ Inlinable(e.pasteBuf)
  <2>1. finishPaste(e) = insertRunes(f, e.pasteBuf)
    BY <1>3 DEF finishPaste, f
  <2>2. Goes(f, insertRunes(f, e.pasteBuf))
    BY <1>0, <1>1, insertRunesSound
  <2>3. e.pasteBuf # Pasted
    <3>1. SUFFICES ASSUME e.pasteBuf = Pasted PROVE FALSE
      OBVIOUS
    <3>2. 2 \in DOMAIN e.pasteBuf /\ e.pasteBuf[2].rune = "LF"
      BY <3>1 DEF Pasted, Char
    <3> QED BY <1>3, <3>2 DEF Inlinable, Text
  <2>4. insertRunes(f, e.pasteBuf).result = f.result
    BY <1>1 DEF insertRunes, Sound, Editors
  <2> QED BY <1>1, <2>1, <2>2, <2>3, <2>4 DEF Goes
<1>4. CASE e.pasteBuf # <<>> /\ ~ Inlinable(e.pasteBuf)
  <2>1. CASE Len(e.line) + 1 > MaxLine
    <3>1. finishPaste(e) = f
      BY <1>4, <2>1 DEF finishPaste, f
    <3> QED BY <1>1, <3>1
  <2>2. CASE ~ (Len(e.line) + 1 > MaxLine)
    <3> DEFINE item == [token |-> token, content |-> e.pasteBuf]
               ps == Append(e.pastes, item)
               g == [f EXCEPT !.pastes = ps]
               h == insertRunes(g, <<token>>)
    <3>1. n \in Nat /\ n # 0
      BY <1>0
    <3>2. token \in Runes /\ token.rune = "#" /\ token.paste = n
      <4>1. token.rune = "#" /\ token.paste = n
        BY DEF Placeholder
      <4> HIDE DEF n
      <4>2. token \in Runes
        BY <1>0, <1>4, <3>1, PlaceholderIsRune
      <4> QED BY <4>1, <4>2
    <3>3. finishPaste(e) = h
      BY <1>1, <1>4, <2>2 DEF finishPaste, f, addKeyToLine
    <3> HIDE DEF token, n
    <3>4. item \in [token : Runes, content : Lines] /\ item.token = token /\ item.content = e.pasteBuf
      BY <1>0, <3>2
    <3> HIDE DEF item
    <3>5. /\ ps \in Seq([token : Runes, content : Lines])
          /\ \A i \in DOMAIN ps : ps[i] = item \/ (i \in DOMAIN e.pastes /\ ps[i] = e.pastes[i])
      <4>1. /\ ps \in Seq([token : Runes, content : Lines]) /\ Len(ps) = Len(e.pastes) + 1
            /\ \A i \in 1 .. Len(e.pastes) : ps[i] = e.pastes[i]
            /\ ps[Len(e.pastes) + 1] = item
        BY <1>0, <3>4
      <4>2. DOMAIN ps = 1 .. Len(e.pastes) + 1 /\ DOMAIN e.pastes = 1 .. Len(e.pastes) /\ Len(e.pastes) \in Nat
        BY <1>0, <4>1
      <4> HIDE DEF ps
      <4>3. ASSUME NEW i \in DOMAIN ps
            PROVE  ps[i] = item \/ (i \in DOMAIN e.pastes /\ ps[i] = e.pastes[i])
        <5>1. i \in 1 .. Len(e.pastes) \/ i = Len(e.pastes) + 1
          BY <4>2
        <5>2. CASE i \in 1 .. Len(e.pastes)
          BY <4>1, <4>2, <5>2
        <5>3. CASE i = Len(e.pastes) + 1
          BY <4>1, <5>3
        <5> QED BY <5>1, <5>2, <5>3
      <4> QED BY <4>1, <4>3
    <3> HIDE DEF ps
    <3>6. f \in Editors /\ Fits(f) /\ Shows(f)
      BY <1>1 DEF Sound
    <3>7. g \in Editors
      BY <3>5, <3>6 DEF Editors
    <3>8. /\ g.line = f.line /\ g.pos = f.pos /\ g.entries = f.entries
          /\ g.historyIndex = f.historyIndex /\ g.historyPending = f.historyPending
          /\ g.search = f.search /\ g.pastes = ps /\ g.text = f.text
          /\ g.remainder = f.remainder /\ g.pasteActive = f.pasteActive
          /\ g.result = f.result
      BY <3>6 DEF Editors
    <3> HIDE DEF g
    <3>9. Sound(g)
      BY <3>6, <3>7, <3>8 DEF Sound, Fits, Shows, historyAt
    <3>10. Clean(e) /\ e.pasteBuf = Pasted => Clean(g)
      <4>1. SUFFICES ASSUME Clean(e), e.pasteBuf = Pasted PROVE Clean(g)
        OBVIOUS
      <4>2. Clean(f) /\ \A i \in DOMAIN e.pastes : e.pastes[i].content = Pasted /\ e.pastes[i].token.paste # 0
        BY <1>1, <4>1 DEF Clean
      <4>3. \A i \in DOMAIN ps : ps[i].content = Pasted /\ ps[i].token.paste # 0
        BY <3>1, <3>2, <3>4, <3>5, <4>1, <4>2
      <4> QED BY <3>8, <4>2, <4>3 DEF Clean
    <3>11. Becomes(g, h)
      <4>1. <<token>> \in Lines /\ Plain(<<token>>)
        BY <3>2, OneIsLine
      <4>2. ~ g.search.active
        BY <1>0, <1>1, <3>8
      <4> QED BY <3>9, <4>1, <4>2, insertRunesSound
    <3>12. h.result = g.result
      BY <3>7 DEF insertRunes, Editors
    <3> HIDE DEF h
    <3> QED BY <1>1, <3>3, <3>8, <3>10, <3>11, <3>12 DEF Becomes, Goes
  <2> QED BY <2>1, <2>2
<1> QED BY <1>2, <1>3, <1>4

-------------------------------------------------------------------------------
(* Keys.                                                                   *)
\* The keys outside of a search.
LEMMA editKeySound ==
    ASSUME NEW e, Sound(e), ~ e.search.active, ~ e.pasteActive, NEW key
    PROVE  /\ Goes(e, editKey(e, key))
           /\ key \notin {"p", "q"} => Becomes(e, editKey(e, key))
<1> SUFFICES ASSUME key \notin {"p", "q"} => Becomes(e, editKey(e, key)),
                    key \in {"p", "q"} => Goes(e, editKey(e, key))
             PROVE  Goes(e, editKey(e, key))
  <2>1. CASE key \in {"Enter", "LF"}
    <3>1. editKey(e, key) = enter(e)
      BY <2>1 DEF editKey, Text
    <3> QED BY <2>1, <3>1, enterSound
  <2>2. CASE key \in Text
    <3>1. editKey(e, key) = insertRunes(e, <<Char(key)>>)
      BY <2>2 DEF editKey, Text, addKeyToLine
    <3>2. Char(key) \in Runes /\ Char(key).rune = key
      BY <2>2, CharIsRune DEF Bytes, Char
    <3>3. <<Char(key)>> \in Lines /\ (key \notin {"p", "q"} => Plain(<<Char(key)>>))
      BY <3>2, OneIsLine
    <3> QED BY <3>1, <3>3, insertRunesSound
  <2>3. CASE key = "Backspace"
    <3>1. editKey(e, key) = erasePrevious(e)
      BY <2>3 DEF editKey, Text
    <3> QED BY <2>3, <3>1, eraseKeysSound
  <2>4. CASE key = "^D"
    <3>1. editKey(e, key) = eraseNext(e)
      BY <2>4 DEF editKey, Text
    <3> QED BY <2>4, <3>1, eraseKeysSound
  <2>5. CASE key \in {"Left", "Right", "Home", "End"}
    <3>1. /\ key = "Left" => editKey(e, key) = [e EXCEPT !.pos = IF e.pos = 0 THEN 0 ELSE e.pos - 1]
          /\ key = "Right" => editKey(e, key) =
                 [e EXCEPT !.pos = IF e.pos = Len(e.line) THEN e.pos ELSE e.pos + 1]
          /\ key = "Home" => editKey(e, key) = [e EXCEPT !.pos = 0]
          /\ key = "End" => editKey(e, key) = [e EXCEPT !.pos = Len(e.line)]
      BY DEF editKey, Text
    <3>2. \E p \in 0 .. Len(e.line) : editKey(e, key) = [e EXCEPT !.pos = p]
      <4>1. e.pos \in 0 .. Len(e.line) /\ Len(e.line) \in Nat
        BY EditorHas
      <4>2. CASE key = "Left"
        <5>1. (IF e.pos = 0 THEN 0 ELSE e.pos - 1) \in 0 .. Len(e.line)
          BY <4>1
        <5> QED BY <3>1, <4>2, <5>1
      <4>3. CASE key = "Right"
        <5>1. (IF e.pos = Len(e.line) THEN e.pos ELSE e.pos + 1) \in 0 .. Len(e.line)
          BY <4>1
        <5> QED BY <3>1, <4>3, <5>1
      <4>4. CASE key = "Home"
        <5>1. 0 \in 0 .. Len(e.line)
          BY <4>1
        <5> QED BY <3>1, <4>4, <5>1
      <4>5. CASE key = "End"
        <5>1. Len(e.line) \in 0 .. Len(e.line)
          BY <4>1
        <5> QED BY <3>1, <4>5, <5>1
      <4> QED BY <2>5, <4>2, <4>3, <4>4, <4>5
    <3> QED BY <2>5, <3>2, MoveSound
  <2>6. CASE key = "Up"
    <3>1. editKey(e, key) = historyUp(e)
      BY <2>6 DEF editKey, Text
    <3> QED BY <2>6, <3>1, HistoryKeysSound
  <2>7. CASE key = "Down"
    <3>1. editKey(e, key) = historyDown(e)
      BY <2>7 DEF editKey, Text
    <3> QED BY <2>7, <3>1, HistoryKeysSound
  <2>8. CASE key = "^R"
    <3>1. editKey(e, key) = startSearch(e)
      BY <2>8 DEF editKey, Text
    <3> QED BY <2>8, <3>1, startSearchSound
  <2>9. CASE key = "^U"
    <3>1. editKey(e, key) = eraseNPreviousChars(e, e.pos)
      BY <2>9 DEF editKey, Text
    <3>2. e.pos \in Nat
      BY EditorHas
    <3> QED BY <2>9, <3>1, <3>2, eraseSound
  <2>10. CASE key = "^K"
    <3> DEFINE l == SubSeq(e.line, 1, e.pos)
    <3>1. /\ e \in Editors /\ e.line \in Lines /\ e.pos \in 0 .. Len(e.line)
          /\ Len(e.line) \in Nat /\ Len(e.line) <= MaxLine /\ MaxLine \in Nat
      BY EditorHas, Limits
    <3>2. l \in Lines /\ Len(l) = e.pos /\ (Plain(e.line) => Plain(l))
      BY <3>1, PartIsLine
    <3>3. editKey(e, key) = [e EXCEPT !.line = l]
      BY <2>10 DEF editKey, Text
    <3> HIDE DEF l
    <3>4. [e EXCEPT !.line = l] = [e EXCEPT !.line = l, !.pos = e.pos]
      BY <3>1 DEF Editors
    <3>5. Len(l) <= MaxLine /\ e.pos \in 0 .. Len(l)
      BY <3>1, <3>2
    <3>6. Becomes(e, [e EXCEPT !.line = l, !.pos = e.pos])
      BY <3>2, <3>5, LineChanges
    <3> QED BY <2>10, <3>3, <3>4, <3>6
  <2>11. CASE key \notin {"Enter", "LF", "Backspace", "^D", "Left", "Right", "Home", "End",
                          "Up", "Down", "^R", "^U", "^K"} \cup Text
    <3>1. editKey(e, key) = e
      BY <2>11 DEF editKey
    <3> QED BY <2>11, <3>1, SameBecomes DEF Text
  <2> QED BY <2>1, <2>2, <2>3, <2>4, <2>5, <2>6, <2>7, <2>8, <2>9, <2>10, <2>11
<1> QED BY DEF Becomes

\* The keys of a search, those that end it and go on as a key included.
LEMMA handleSearchKeySound ==
    ASSUME NEW e, Sound(e), e.search.active, NEW key
    PROVE  /\ Goes(e, handleSearchKey(e, key))
           /\ key \notin {"p", "q"} => Becomes(e, handleSearchKey(e, key))
<1>0. ~ e.pasteActive
  BY DEF Sound, Fits
<1>1. CASE key \in {"^R", "Backspace", "^G", "Unknown"}
  <2>1. Becomes(e, searchNext(e)) /\ Becomes(e, searchBackspace(e))
    BY SearchKeysSound, CharIsRune DEF Bytes
  <2>2. Becomes(e, endSearch(e, TRUE))
    BY endSearchSound
  <2>3. /\ key = "^R" => handleSearchKey(e, key) = searchNext(e)
        /\ key = "Backspace" => handleSearchKey(e, key) = searchBackspace(e)
        /\ key \in {"^G", "Unknown"} => handleSearchKey(e, key) = endSearch(e, TRUE)
    BY DEF handleSearchKey, Text
  <2> QED BY <1>1, <2>1, <2>2, <2>3 DEF Becomes
<1>2. CASE key \in Text
  <2>1. handleSearchKey(e, key) = searchAppend(e, Char(key))
    BY <1>2 DEF handleSearchKey, Text
  <2>2. Char(key) \in Runes
    BY <1>2, CharIsRune DEF Bytes
  <2> QED BY <2>1, <2>2, SearchKeysSound DEF Becomes
<1>3. CASE key \notin {"^R", "Backspace", "^G", "Unknown"} \cup Text
  <2> DEFINE f == endSearch(e, FALSE)
  <2>1. handleSearchKey(e, key) = editKey(f, key)
    BY <1>3 DEF handleSearchKey
  <2>2. Becomes(e, f) /\ ~ f.search.active
    BY endSearchSound
  <2> HIDE DEF f
  <2>3. Sound(f) /\ ~ f.pasteActive
    BY <1>0, <2>2 DEF Becomes, Goes
  <2>4. key \notin {"p", "q"}
    BY <1>3 DEF Text
  <2>5. Becomes(f, editKey(f, key))
    BY <2>2, <2>3, <2>4, editKeySound
  <2>6. Becomes(e, editKey(f, key))
    BY <2>2, <2>5, BecomesTwice
  <2> QED BY <2>1, <2>6 DEF Becomes
<1> QED BY <1>1, <1>2, <1>3

\* handleKey outside of a paste.
LEMMA handleKeySound ==
    ASSUME NEW e, Sound(e), ~ e.pasteActive, NEW key
    PROVE  /\ Goes(e, handleKey(e, key))
           /\ key \notin {"p", "q"} => Becomes(e, handleKey(e, key))
<1>1. CASE e.search.active
  <2>1. handleKey(e, key) = handleSearchKey(e, key)
    BY <1>1 DEF handleKey
  <2> QED BY <1>1, <2>1, handleSearchKeySound
<1>2. CASE ~ e.search.active
  <2>1. handleKey(e, key) = editKey(e, key)
    BY <1>2 DEF handleKey
  <2> QED BY <1>2, <2>1, editKeySound
<1> QED BY <1>1, <1>2

-------------------------------------------------------------------------------
(* From bytes to keys.                                                     *)
Prefixed(b, m) == Len(m) <= Len(b) /\ \A i \in 1 .. Len(m) : b[i] = m[i]

\* The markers and the bytes of a paste, one by one.
LEMMA MarkersAre ==
    /\ pasteStart \in Seq(Bytes) /\ Len(pasteStart) = 3
    /\ pasteStart[1] = "esc" /\ pasteStart[2] = "[" /\ pasteStart[3] = "200~"
    /\ pasteEnd \in Seq(Bytes) /\ Len(pasteEnd) = 3
    /\ pasteEnd[1] = "esc" /\ pasteEnd[2] = "[" /\ pasteEnd[3] = "201~"
    /\ PasteBytes \in Seq(Bytes) /\ Len(PasteBytes) = 9
    /\ PasteBytes[1] = "esc" /\ PasteBytes[2] = "[" /\ PasteBytes[3] = "200~"
    /\ PasteBytes[4] = "p" /\ PasteBytes[5] = "Enter" /\ PasteBytes[6] = "q"
    /\ PasteBytes[7] = "esc" /\ PasteBytes[8] = "[" /\ PasteBytes[9] = "201~"
<1>1. /\ "esc" \in Bytes /\ "[" \in Bytes /\ "200~" \in Bytes /\ "201~" \in Bytes
      /\ "p" \in Bytes /\ "q" \in Bytes /\ "Enter" \in Bytes
  BY DEF Bytes, Text
<1>2. /\ pasteStart \in Seq(Bytes) /\ Len(pasteStart) = 3
      /\ pasteStart[1] = "esc" /\ pasteStart[2] = "[" /\ pasteStart[3] = "200~"
      /\ pasteEnd \in Seq(Bytes) /\ Len(pasteEnd) = 3
      /\ pasteEnd[1] = "esc" /\ pasteEnd[2] = "[" /\ pasteEnd[3] = "201~"
  BY <1>1 DEF pasteStart, pasteEnd
<1> DEFINE m == <<"p", "Enter", "q">>
<1>3. m \in Seq(Bytes) /\ Len(m) = 3 /\ m[1] = "p" /\ m[2] = "Enter" /\ m[3] = "q"
  BY <1>1
<1> HIDE DEF m
<1>4. PasteBytes = pasteStart \o m \o pasteEnd
  BY DEF PasteBytes, m
<1>5. /\ PasteBytes \in Seq(Bytes) /\ Len(PasteBytes) = 9
      /\ \A i \in 1 .. 9 : PasteBytes[i] = IF i <= 3 THEN pasteStart[i]
                                          ELSE IF i <= 6 THEN m[i - 3] ELSE pasteEnd[i - 6]
  <2> DEFINE u == pasteStart \o m
  <2>1. /\ u \in Seq(Bytes) /\ Len(u) = 6
        /\ \A i \in 1 .. 6 : u[i] = IF i <= 3 THEN pasteStart[i] ELSE m[i - 3]
    <3>1. /\ u \in Seq(Bytes) /\ Len(u) = Len(pasteStart) + Len(m)
          /\ \A i \in 1 .. Len(pasteStart) + Len(m) :
                u[i] = IF i <= Len(pasteStart) THEN pasteStart[i] ELSE m[i - Len(pasteStart)]
      <4>1. pasteStart \in Seq(Bytes) /\ m \in Seq(Bytes)
        BY <1>2, <1>3
      <4> QED BY <4>1, ConcatProperties
    <3>2. Len(pasteStart) = 3 /\ Len(m) = 3
      BY <1>2, <1>3
    <3> HIDE DEF u
    <3> QED BY <3>1, <3>2
  <2>2. PasteBytes = u \o pasteEnd
    BY <1>4
  <2> HIDE DEF u
  <2>3. /\ PasteBytes \in Seq(Bytes) /\ Len(PasteBytes) = 9
        /\ \A i \in 1 .. 9 : PasteBytes[i] = IF i <= 6 THEN u[i] ELSE pasteEnd[i - 6]
    <3>1. /\ PasteBytes \in Seq(Bytes) /\ Len(PasteBytes) = Len(u) + Len(pasteEnd)
          /\ \A i \in 1 .. Len(u) + Len(pasteEnd) :
                PasteBytes[i] = IF i <= Len(u) THEN u[i] ELSE pasteEnd[i - Len(u)]
      <4>1. pasteEnd \in Seq(Bytes) /\ u \in Seq(Bytes)
        BY <1>2, <2>1
      <4> QED BY <2>2, <4>1, ConcatProperties
    <3>2. Len(pasteEnd) = 3 /\ Len(u) = 6
      BY <1>2, <2>1
    <3> QED BY <3>1, <3>2
  <2> QED BY <2>1, <2>3
<1>6. /\ PasteBytes[1] = pasteStart[1] /\ PasteBytes[2] = pasteStart[2] /\ PasteBytes[3] = pasteStart[3]
      /\ PasteBytes[4] = m[1] /\ PasteBytes[5] = m[2] /\ PasteBytes[6] = m[3]
      /\ PasteBytes[7] = pasteEnd[1] /\ PasteBytes[8] = pasteEnd[2] /\ PasteBytes[9] = pasteEnd[3]
  BY <1>5
<1> QED BY <1>2, <1>3, <1>5, <1>6

\* The keys that an escape sequence may be.
LEMMA SequenceIs ==
    ASSUME NEW s \in Seq(Bytes)
    PROVE  /\ SequenceKey(s) \in {"Up", "PasteStart", "Unknown"}
           /\ SequenceKey(s) = "PasteStart" <=>
                  Len(s) = 3 /\ s[1] = "esc" /\ s[2] = "[" /\ s[3] = "200~"
           /\ SequenceKey(s) = "Up" => Len(s) = 3 /\ s[3] = "A"
<1>1. s = pasteStart <=> Len(s) = 3 /\ s[1] = "esc" /\ s[2] = "[" /\ s[3] = "200~"
  <2>1. ASSUME Len(s) = 3, s[1] = "esc", s[2] = "[", s[3] = "200~" PROVE s = pasteStart
    <3>1. \A i \in 1 .. 3 : s[i] = pasteStart[i]
      BY <2>1, MarkersAre
    <3> QED BY <2>1, <3>1, MarkersAre, SeqEqual
  <2> QED BY <2>1, MarkersAre
<1>2. s = <<"esc", "[", "A">> => Len(s) = 3 /\ s[3] = "A"
  OBVIOUS
<1> QED BY <1>1, <1>2 DEF SequenceKey

\* The kinds of keys a complete one is of.
PlainKey(b, k) == b # <<>> /\ b[1] # "esc" /\ k.key = b[1] /\ k.size = 1
PasteEndKey(b, k) == Prefixed(b, pasteEnd) /\ k.key = "PasteEnd" /\ k.size = 3
PasteEscKey(b, k) ==
    /\ b # <<>> /\ b[1] = "esc" /\ k.key = "esc" /\ k.size = 1
    /\ Len(b) > 1 /\ (Len(b) > 2 \/ b[2] # "[") /\ ~ Prefixed(b, pasteEnd)
EscKey(b, k) ==
    /\ b # <<>> /\ b[1] = "esc"
    /\ k.size \in 1 .. Len(b) /\ b[k.size] \in Final
    /\ \A i \in 1 .. k.size - 1 : b[i] \notin Final
    /\ k.key \in {"Up", "PasteStart", "Unknown"}
    /\ k.key = "PasteStart" <=> k.size = 3 /\ b[2] = "[" /\ b[3] = "200~"
    /\ k.key = "Up" => b[k.size] = "A"

\* What bytesToKey makes of the bytes.
LEMMA bytesToKeyIs ==
    ASSUME NEW b \in Seq(Bytes), NEW pasteActive \in BOOLEAN,
           bytesToKey(b, pasteActive).key # "incomplete"
    PROVE  LET k == bytesToKey(b, pasteActive) IN
           \/ PlainKey(b, k)
           \/ pasteActive /\ (PasteEndKey(b, k) \/ PasteEscKey(b, k))
           \/ ~ pasteActive /\ EscKey(b, k)
<1> DEFINE k == bytesToKey(b, pasteActive)
           P == IsPrefix(pasteEnd, b)
           Q == IsStrictPrefix(b, pasteEnd)
           n == FirstIndex(b, Final)
<1>1. Incomplete.key = "incomplete"
  BY DEF Incomplete
<1>2. b # <<>>
  BY <1>1 DEF bytesToKey
<1>3. Len(b) \in Nat \ {0} /\ b[1] \in Bytes
  BY <1>2
<1>4. P <=> Prefixed(b, pasteEnd)
  <2>1. P <=> Len(pasteEnd) <= Len(b) /\ SubSeq(pasteEnd, 1, Len(pasteEnd)) = SubSeq(b, 1, Len(pasteEnd))
    BY DEF IsPrefix
  <2>2. ASSUME 3 <= Len(b)
        PROVE  SubSeq(pasteEnd, 1, 3) = SubSeq(b, 1, 3) <=> \A i \in 1 .. 3 : b[i] = pasteEnd[i]
    <3> DEFINE s == SubSeq(pasteEnd, 1, 3)
               t == SubSeq(b, 1, 3)
    <3>1. /\ s \in Seq(Bytes) /\ Len(s) = 3 /\ \A i \in 1 .. 3 : s[i] = pasteEnd[i]
          /\ t \in Seq(Bytes) /\ Len(t) = 3
      BY <2>2, MarkersAre
    <3>2. \A i \in 1 .. 3 : t[i] = b[i]
      BY <2>2, <1>3
    <3> HIDE DEF s, t
    <3>3. s = t <=> \A i \in 1 .. 3 : s[i] = t[i]
      BY <3>1, SeqEqual
    <3> QED BY <3>1, <3>2, <3>3
  <2> QED BY <2>1, <2>2, MarkersAre DEF Prefixed
<1>5. ASSUME ~ (Len(b) > 1 /\ (Len(b) > 2 \/ b[2] # "[")), b[1] = "esc" PROVE Q
  <2> DEFINE L == Len(b)
  <2>0. L \in 1 .. 2 /\ (L > 1 => b[2] = "[")
    <3>1. L \in Nat \ {0} /\ ~ (L > 1 /\ (L > 2 \/ b[2] # "["))
      BY <1>3, <1>5
    <3> HIDE DEF L
    <3> QED BY <3>1
  <2> DEFINE s == SubSeq(pasteEnd, 1, Len(b))
             t == SubSeq(b, 1, Len(b))
  <2>1. Len(b) <= Len(pasteEnd) /\ b # pasteEnd
    <3>1. L = Len(b)
      OBVIOUS
    <3> HIDE DEF L
    <3>2. Len(b) # 3 /\ Len(b) <= 3
      BY <2>0, <3>1
    <3> QED BY <3>2, MarkersAre
  <2>2. /\ s \in Seq(Bytes) /\ Len(s) = Len(b) /\ t \in Seq(Bytes) /\ Len(t) = Len(b)
    BY <1>3, <2>1, MarkersAre
  <2>3. \A i \in 1 .. Len(b) : s[i] = pasteEnd[i] /\ t[i] = b[i]
    BY <1>3, <2>1, MarkersAre
  <2> HIDE DEF s, t
  <2>4. \A i \in 1 .. Len(b) : s[i] = t[i]
    <3>0. L = Len(b)
      OBVIOUS
    <3>1. \A i \in 1 .. Len(b) : i = 1 \/ (i = 2 /\ b[2] = "[")
      <4> HIDE DEF L
      <4>1. \A i \in 1 .. L : i = 1 \/ (i = 2 /\ b[2] = "[")
        BY <2>0
      <4> QED BY <3>0, <4>1
    <3>2. \A i \in 1 .. Len(b) : pasteEnd[i] = b[i]
      BY <1>5, <3>1, MarkersAre
    <3> QED BY <2>3, <3>2
  <2>5. s = t
    BY <2>2, <2>4, SeqEqual
  <2> QED BY <2>1, <2>5 DEF IsStrictPrefix, IsPrefix, s, t
<1>11. ~ (P /\ Q)
  <2>1. Q => Len(b) <= 3 /\ b # pasteEnd /\ SubSeq(b, 1, Len(b)) = SubSeq(pasteEnd, 1, Len(b))
    BY MarkersAre DEF IsStrictPrefix, IsPrefix
  <2>2. ASSUME P, Q PROVE FALSE
    <3>1. Len(b) = 3 /\ \A i \in 1 .. 3 : b[i] = pasteEnd[i]
      BY <1>3, <1>4, <2>1, <2>2, MarkersAre DEF Prefixed
    <3>2. b = pasteEnd
      BY <3>1, MarkersAre, SeqEqual
    <3> QED BY <2>1, <2>2, <3>2
  <2> QED BY <2>2
<1> HIDE DEF P, Q, n
<1>9. /\ b[1] # "esc" => k = [key |-> b[1], size |-> 1]
      /\ b[1] = "esc" /\ pasteActive => k = PastedKey(b)
      /\ b[1] = "esc" /\ ~ pasteActive => k = EscapedKey(b)
  BY <1>2 DEF bytesToKey
<1>10. k.key # "incomplete"
  OBVIOUS
<1> HIDE DEF k
<1>6. ASSUME b[1] # "esc" PROVE PlainKey(b, k)
  BY <1>2, <1>6, <1>9 DEF PlainKey
<1>7. ASSUME b[1] = "esc", pasteActive
      PROVE  PasteEndKey(b, k) \/ PasteEscKey(b, k)
  <2>1. CASE P
    <3>1. k = [key |-> "PasteEnd", size |-> 3]
      BY <1>1, <1>7, <1>9, <1>10, <2>1, <1>11 DEF PastedKey, P, Q
    <3>2. PasteEndKey(b, k)
      BY <1>4, <2>1, <3>1 DEF PasteEndKey
    <3> QED BY <3>2
  <2>2. CASE ~ P
    <3>1. ~ Q
      BY <1>1, <1>7, <1>9, <1>10, <2>2 DEF PastedKey, P, Q
    <3>2. k = [key |-> "esc", size |-> 1]
      BY <1>7, <1>9, <2>2, <3>1 DEF PastedKey, P, Q
    <3>3. PasteEscKey(b, k)
      BY <1>2, <1>4, <1>5, <1>7, <2>2, <3>1, <3>2 DEF PasteEscKey
    <3> QED BY <3>3
  <2> QED BY <2>1, <2>2
<1>8. ASSUME b[1] = "esc", ~ pasteActive PROVE EscKey(b, k)
  <2>1. n # 0
    BY <1>1, <1>8, <1>9, <1>10 DEF EscapedKey, n
  <2>2. k = [key |-> SequenceKey(SubSeq(b, 1, n)), size |-> n]
    BY <1>8, <1>9, <2>1 DEF EscapedKey, n
  <2>3. n \in 1 .. Len(b) /\ b[n] \in Final /\ \A i \in 1 .. n - 1 : b[i] \notin Final
    BY <1>3, <2>1, FirstIndexIs DEF n
  <2> DEFINE s == SubSeq(b, 1, n)
  <2>4. s \in Seq(Bytes) /\ Len(s) = n /\ \A i \in 1 .. n : s[i] = b[i]
    BY <1>3, <2>3
  <2> HIDE DEF s
  <2>5. /\ SequenceKey(s) \in {"Up", "PasteStart", "Unknown"}
        /\ SequenceKey(s) = "PasteStart" <=>
                  Len(s) = 3 /\ s[1] = "esc" /\ s[2] = "[" /\ s[3] = "200~"
        /\ SequenceKey(s) = "Up" => Len(s) = 3 /\ s[3] = "A"
    BY <2>4, SequenceIs
  <2>6. k.key = SequenceKey(s) /\ k.size = n
    BY <2>2 DEF s
  <2>7. 1 \in 1 .. n /\ (n = 3 => 2 \in 1 .. n /\ 3 \in 1 .. n)
    BY <2>3
  <2>8. k.key = "PasteStart" <=> k.size = 3 /\ b[2] = "[" /\ b[3] = "200~"
    BY <1>8, <2>4, <2>5, <2>6, <2>7
  <2>9. k.key = "Up" => b[k.size] = "A"
    BY <2>4, <2>5, <2>6, <2>7
  <2>10. EscKey(b, k)
    BY <1>2, <1>8, <2>3, <2>5, <2>6, <2>8, <2>9 DEF EscKey
  <2> QED BY <2>10
<1>12. \/ PlainKey(b, k)
       \/ pasteActive /\ (PasteEndKey(b, k) \/ PasteEscKey(b, k))
       \/ ~ pasteActive /\ EscKey(b, k)
  BY <1>6, <1>7, <1>8
<1> QED BY <1>12 DEF k

-------------------------------------------------------------------------------
(* One key of readLine.                                                    *)
\* What is left of b after the key k.
Taken(b, k, r) ==
    \/ r = SubSeq(b, k.size + 1, Len(b))
    \/ /\ k.key = "Enter" /\ k.size + 1 <= Len(b) /\ b[k.size + 1] = "LF"
       /\ r = SubSeq(b, k.size + 2, Len(b))

\* The ways the editor e comes to g by the key k.
Leaves(e, g) == g.result = "eof" /\ (Clean(e) => Clean(g))
PasteEnds(e, k, g) ==
    /\ e.pasteActive /\ PasteEndKey(e.remainder, k)
    /\ ~ g.pasteActive /\ g.result = "none"
    /\ Taken(e.remainder, k, g.remainder)
    /\ Clean(e) /\ e.pasteBuf = Pasted => Clean(g)
PasteGrows(e, k, g) ==
    /\ e.pasteActive /\ (PlainKey(e.remainder, k) \/ PasteEscKey(e.remainder, k))
    /\ g.pasteActive /\ g.result = "none" /\ (Clean(e) => Clean(g))
    /\ k.key # "LF" => g.pasteBuf = Append(e.pasteBuf, PasteRune(k.key))
    /\ Taken(e.remainder, k, g.remainder)
PasteStarts(e, k, g) ==
    /\ ~ e.pasteActive /\ EscKey(e.remainder, k) /\ k.key = "PasteStart"
    /\ g.pasteActive /\ g.pasteBuf = <<>> /\ g.result = "none" /\ (Clean(e) => Clean(g))
    /\ Taken(e.remainder, k, g.remainder)
Edits(e, k, g) ==
    /\ ~ e.pasteActive /\ (PlainKey(e.remainder, k) \/ EscKey(e.remainder, k))
    /\ k.key # "PasteStart"
    /\ ~ g.pasteActive /\ (Clean(e) /\ k.key \notin {"p", "q"} => Clean(g))
    /\ Taken(e.remainder, k, g.remainder)

LEMMA TailIs ==
    ASSUME NEW X, NEW s \in Seq(X), s # <<>>
    PROVE  /\ Len(s) \in Nat \ {0} /\ Tail(s) \in Seq(X) /\ Len(Tail(s)) = Len(s) - 1
           /\ \A i \in 1 .. Len(s) - 1 : Tail(s)[i] = s[i + 1]
  OBVIOUS

\* What is left of s without its first n elements.
LEMMA DropIs ==
    ASSUME NEW X, NEW s \in Seq(X), NEW n \in 0 .. Len(s)
    PROVE  /\ SubSeq(s, n + 1, Len(s)) \in Seq(X)
           /\ Len(SubSeq(s, n + 1, Len(s))) = Len(s) - n
           /\ \A i \in 1 .. Len(s) - n : SubSeq(s, n + 1, Len(s))[i] = s[n + i]
  OBVIOUS

\* One element more is left out.
LEMMA TailOfDrop ==
    ASSUME NEW X, NEW s \in Seq(X), NEW n \in 0 .. Len(s) - 1
    PROVE  Tail(SubSeq(s, n + 1, Len(s))) = SubSeq(s, n + 2, Len(s))
<1> DEFINE r == SubSeq(s, n + 1, Len(s))
           t == SubSeq(s, (n + 1) + 1, Len(s))
<1>0. Len(s) \in Nat /\ n \in 0 .. Len(s) /\ n + 1 \in 0 .. Len(s)
  OBVIOUS
<1>1. /\ r \in Seq(X) /\ Len(r) = Len(s) - n
      /\ \A i \in 1 .. Len(s) - n : r[i] = s[n + i]
  BY <1>0, DropIs
<1>2. /\ t \in Seq(X) /\ Len(t) = Len(s) - (n + 1)
      /\ \A i \in 1 .. Len(s) - (n + 1) : t[i] = s[(n + 1) + i]
  <2> DEFINE m == n + 1
  <2>1. m \in 0 .. Len(s)
    BY <1>0
  <2> HIDE DEF m
  <2>2. /\ SubSeq(s, m + 1, Len(s)) \in Seq(X) /\ Len(SubSeq(s, m + 1, Len(s))) = Len(s) - m
        /\ \A i \in 1 .. Len(s) - m : SubSeq(s, m + 1, Len(s))[i] = s[m + i]
    BY <2>1, DropIs
  <2> QED BY <2>2 DEF m
<1>3. (n + 1) + 1 = n + 2
  BY <1>0
<1> HIDE DEF r, t
<1>4. r # <<>>
  BY <1>0, <1>1
<1>5. /\ Tail(r) \in Seq(X) /\ Len(Tail(r)) = Len(r) - 1
      /\ \A i \in 1 .. Len(r) - 1 : Tail(r)[i] = r[i + 1]
  BY <1>1, <1>4, TailIs
<1>6. Len(Tail(r)) = Len(t) /\ \A i \in 1 .. Len(t) : Tail(r)[i] = t[i]
  <2> DEFINE L == Len(s)
             q == Tail(r)
  <2>1. /\ L \in Nat /\ n \in 0 .. L /\ n + 1 \in 0 .. L
        /\ Len(r) = L - n /\ Len(t) = L - (n + 1)
        /\ Len(q) = Len(r) - 1
    BY <1>0, <1>1, <1>2, <1>5
  <2>2. /\ \A i \in 1 .. L - n : r[i] = s[n + i]
        /\ \A i \in 1 .. L - (n + 1) : t[i] = s[(n + 1) + i]
        /\ \A i \in 1 .. Len(r) - 1 : q[i] = r[i + 1]
    BY <1>1, <1>2, <1>5
  <2> HIDE DEF L, q
  <2>3. Len(q) = Len(t) /\ Len(t) = L - (n + 1) /\ Len(r) - 1 = L - (n + 1)
    BY <2>1
  <2>4. ASSUME NEW i \in 1 .. L - (n + 1) PROVE q[i] = t[i]
    <3>1. i \in 1 .. Len(r) - 1 /\ i + 1 \in 1 .. L - n /\ n + (i + 1) = (n + 1) + i
      BY <2>1
    <3>2. q[i] = r[i + 1] /\ r[i + 1] = s[n + (i + 1)]
      BY <2>2, <3>1
    <3> QED BY <2>2, <3>1, <3>2
  <2> QED BY <2>3, <2>4 DEF q
<1>7. Tail(r) = t
  BY <1>2, <1>5, <1>6, SeqEqual
<1> QED BY <1>3, <1>7 DEF r, t

\* A key has at least a byte, and no more than there are.
LEMMA SizeOfKey ==
    ASSUME NEW b \in Seq(Bytes), NEW k,
           PlainKey(b, k) \/ PasteEndKey(b, k) \/ PasteEscKey(b, k) \/ EscKey(b, k)
    PROVE  k.size \in 1 .. Len(b) /\ Len(b) \in Nat
<1>1. Len(b) \in Nat /\ (b # <<>> => Len(b) >= 1)
  OBVIOUS
<1>2. CASE PlainKey(b, k)
  BY <1>1, <1>2 DEF PlainKey
<1>3. CASE PasteEndKey(b, k)
  BY <1>1, <1>3, MarkersAre DEF PasteEndKey, Prefixed
<1>4. CASE PasteEscKey(b, k)
  BY <1>1, <1>4 DEF PasteEscKey
<1>5. CASE EscKey(b, k)
  BY <1>1, <1>5 DEF EscKey
<1> QED BY <1>2, <1>3, <1>4, <1>5

\* readKey, with every key.
LEMMA readKeyIs ==
    ASSUME NEW e, Sound(e), e.result = "none",
           bytesToKey(e.remainder, e.pasteActive).key # "incomplete"
    PROVE  LET k == bytesToKey(e.remainder, e.pasteActive)
               g == readKey(e)
           IN  /\ Sound(g)
               /\ \/ Leaves(e, g) \/ PasteEnds(e, k, g) \/ PasteGrows(e, k, g)
                  \/ PasteStarts(e, k, g) \/ Edits(e, k, g)
<1> DEFINE b == e.remainder
           k == bytesToKey(e.remainder, e.pasteActive)
           g == readKey(e)
           rest == SubSeq(e.remainder, k.size + 1, Len(e.remainder))
           f == [e EXCEPT !.remainder = rest]
           more == k.key = "Enter" /\ rest # <<>> /\ rest[1] = "LF"
           h == IF more THEN [f EXCEPT !.remainder = Tail(rest)] ELSE f
<1>0. b \in Seq(Bytes) /\ e.pasteActive \in BOOLEAN /\ e \in Editors
  BY DEF Sound, Editors
<1>1. \/ PlainKey(b, k)
      \/ e.pasteActive /\ (PasteEndKey(b, k) \/ PasteEscKey(b, k))
      \/ ~ e.pasteActive /\ EscKey(b, k)
  BY <1>0, bytesToKeyIs
<1>2. k.size \in 1 .. Len(b) /\ Len(b) \in Nat
  <2> HIDE DEF k, b
  <2> QED BY <1>0, <1>1, SizeOfKey
<1>3. /\ k.key = "^C" => g = [abortPaste(f) EXCEPT !.search = NoSearch, !.result = "eof",
                                                  !.remainder = e.remainder]
      /\ k.key = "^D" /\ ~ e.pasteActive /\ currentLine(e) = <<>> =>
             g = [f EXCEPT !.search = NoSearch, !.result = "eof", !.remainder = e.remainder]
      /\ k.key = "PasteStart" =>
             g = [(IF e.search.active THEN endSearch(f, FALSE) ELSE f) EXCEPT
                     !.pasteActive = TRUE, !.pasteBuf = <<>>, !.pasteLastCR = FALSE]
      /\ k.key = "PasteEnd" => g = finishPaste(f)
      /\ /\ k.key \notin {"^C", "PasteStart", "PasteEnd"}
         /\ ~ (k.key = "^D" /\ ~ e.pasteActive /\ currentLine(e) = <<>>)
         => g = handleKey(h, k.key)
  BY DEF readKey
<1> HIDE DEF k, b, g
<1>4. /\ rest \in Seq(Bytes) /\ rest = SubSeq(b, k.size + 1, Len(b))
      /\ Len(rest) = Len(b) - k.size
      /\ \A i \in 1 .. Len(rest) : rest[i] = b[k.size + i]
  BY <1>0, <1>2 DEF b
<1>5. more => Tail(rest) \in Seq(Bytes) /\ Tail(rest) = SubSeq(b, k.size + 2, Len(b))
                  /\ k.size + 1 <= Len(b) /\ b[k.size + 1] = "LF"
  <2> SUFFICES ASSUME more
               PROVE  Tail(rest) \in Seq(Bytes) /\ Tail(rest) = SubSeq(b, k.size + 2, Len(b))
                      /\ k.size + 1 <= Len(b) /\ b[k.size + 1] = "LF"
    OBVIOUS
  <2>1. rest # <<>> /\ rest[1] = "LF"
    OBVIOUS
  <2> HIDE DEF more, rest
  <2>2. Len(rest) \in Nat \ {0} /\ Tail(rest) \in Seq(Bytes)
    BY <1>4, <2>1, TailIs
  <2>3. k.size + 1 <= Len(b) /\ b[k.size + 1] = "LF"
    <3>1. 1 \in 1 .. Len(rest)
      BY <2>2
    <3>2. rest[1] = b[k.size + 1]
      BY <1>4, <3>1
    <3> DEFINE n == k.size
               L == Len(b)
               r == Len(rest)
    <3>3. n \in 1 .. L /\ L \in Nat /\ r = L - n /\ r \in Nat \ {0}
      BY <1>2, <1>4, <2>2
    <3> HIDE DEF n, L, r
    <3>4. n + 1 <= L
      BY <3>3
    <3> QED BY <2>1, <3>2, <3>4 DEF n, L
  <2>4. Tail(rest) = SubSeq(b, k.size + 2, Len(b))
    <3> DEFINE n == k.size
    <3>1. n \in 0 .. Len(b) - 1
      BY <1>2, <2>3
    <3>2. Tail(rest) = Tail(SubSeq(b, n + 1, Len(b)))
      BY <1>4
    <3> HIDE DEF n
    <3>3. Tail(SubSeq(b, n + 1, Len(b))) = SubSeq(b, n + 2, Len(b))
      BY <1>0, <3>1, TailOfDrop
    <3> QED BY <3>2, <3>3 DEF n
  <2> QED BY <2>2, <2>3, <2>4
<1>6. /\ Sound(f) /\ (Clean(e) => Clean(f))
      /\ f.remainder = rest /\ f.pasteActive = e.pasteActive
      /\ f.pasteBuf = e.pasteBuf /\ f.search = e.search /\ f.result = e.result
  <2> HIDE DEF rest
  <2> QED BY <1>4, RemainderChanges
<1>7. /\ Sound(h) /\ (Clean(e) => Clean(h))
      /\ Taken(b, k, h.remainder) /\ h.pasteActive = e.pasteActive
      /\ h.pasteBuf = e.pasteBuf /\ h.search = e.search /\ h.result = e.result
  <2>1. CASE ~ more
    <3>1. h = f
      BY <2>1
    <3> HIDE DEF f, h, more
    <3> QED BY <1>4, <1>6, <3>1 DEF Taken
  <2>2. CASE more
    <3> DEFINE t == Tail(rest)
    <3>1. h = [f EXCEPT !.remainder = t]
      BY <2>2
    <3>2. t \in Seq(Bytes) /\ k.key = "Enter"
      BY <1>5, <2>2
    <3>3. Taken(b, k, t)
      BY <1>5, <2>2 DEF Taken
    <3> HIDE DEF t, f, h, more
    <3>4. LET x == [f EXCEPT !.remainder = t] IN
          /\ Sound(x) /\ (Clean(f) => Clean(x))
          /\ x.remainder = t /\ x.pasteActive = f.pasteActive
          /\ x.pasteBuf = f.pasteBuf
          /\ x.search = f.search /\ x.result = f.result
      BY <1>6, <3>2, RemainderChanges
    <3> QED BY <1>6, <3>1, <3>3, <3>4
  <2> QED BY <2>1, <2>2
<1>8. Taken(b, k, rest)
  BY <1>4 DEF Taken
<1> HIDE DEF rest, f, h, more
<1>9. CASE k.key = "^C"
  <2> DEFINE a == abortPaste(f)
             x == [a EXCEPT !.search = NoSearch, !.result = "eof", !.remainder = b]
  <2>1. Sound(a) /\ (Clean(e) => Clean(a))
    BY <1>6, abortPasteSound
  <2>2. g = x
    BY <1>3, <1>9 DEF b
  <2> HIDE DEF a
  <2>3. Sound(x) /\ (Clean(a) => Clean(x)) /\ x.result = "eof"
    BY <1>0, <2>1, SearchDropped
  <2> HIDE DEF x
  <2>4. Sound(g) /\ Leaves(e, g)
    BY <2>1, <2>2, <2>3 DEF Leaves
  <2> QED BY <2>4 DEF g
<1>10. CASE k.key = "^D" /\ ~ e.pasteActive /\ currentLine(e) = <<>>
  <2> DEFINE x == [f EXCEPT !.search = NoSearch, !.result = "eof", !.remainder = b]
  <2>1. g = x
    BY <1>3, <1>10 DEF b
  <2>2. Sound(x) /\ (Clean(f) => Clean(x)) /\ x.result = "eof"
    BY <1>0, <1>6, SearchDropped
  <2> HIDE DEF x
  <2>3. Sound(g) /\ Leaves(e, g)
    BY <1>6, <2>1, <2>2 DEF Leaves
  <2> QED BY <2>3 DEF g
<1>11. CASE k.key = "PasteStart"
  <2> DEFINE x == IF e.search.active THEN endSearch(f, FALSE) ELSE f
             none == <<>>
             on == TRUE
             off == FALSE
             y == Pasting(x, on, none, off)
  <2>1. Sound(x) /\ (Clean(e) => Clean(x)) /\ x.remainder = rest /\ ~ x.search.active /\ x.result = "none"
    <3>1. CASE e.search.active
      <4> DEFINE z == endSearch(f, FALSE)
      <4>1. /\ Becomes(f, z) /\ ~ z.search.active /\ z.result = f.result
        BY <1>6, <3>1, endSearchSound
      <4>2. x = z
        BY <3>1
      <4> HIDE DEF z, x
      <4> QED BY <1>6, <4>1, <4>2 DEF Becomes, Goes
    <3>2. CASE ~ e.search.active
      <4>1. x = f
        BY <3>2
      <4> HIDE DEF x
      <4> QED BY <1>6, <3>2, <4>1
    <3> QED BY <3>1, <3>2
  <2>2. g = y
    BY <1>3, <1>11 DEF Pasting
  <2>3. none \in Lines /\ on \in BOOLEAN /\ off \in BOOLEAN
    BY NothingFits
  <2>8. on = TRUE
    OBVIOUS
  <2> HIDE DEF x, none, on, off
  <2>4. /\ Sound(y) /\ (Clean(x) => Clean(y))
        /\ y.remainder = x.remainder /\ y.pasteActive = on /\ y.pasteBuf = none
        /\ y.result = x.result
    BY <2>1, <2>3, PasteChanges
  <2> HIDE DEF y
  <2>5. ~ e.pasteActive /\ EscKey(b, k)
    BY <1>0, <1>1, <1>11 DEF PlainKey, PasteEndKey, PasteEscKey, Bytes, Text
  <2>6. Sound(g) /\ g.pasteActive /\ g.pasteBuf = none /\ g.result = "none"
        /\ (Clean(e) => Clean(g)) /\ Taken(b, k, g.remainder)
    BY <1>8, <2>1, <2>2, <2>4, <2>8
  <2>7. PasteStarts(e, k, g)
    BY <1>11, <2>5, <2>6 DEF PasteStarts, b, none
  <2> QED BY <2>6, <2>7 DEF g, k
<1>12. CASE k.key = "PasteEnd"
  <2>1. e.pasteActive /\ PasteEndKey(b, k)
    BY <1>0, <1>1, <1>12 DEF PlainKey, EscKey, PasteEscKey, Bytes, Text
  <2> DEFINE y == finishPaste(f)
  <2>2. g = y
    BY <1>3, <1>12
  <2>3. /\ Sound(y) /\ y.remainder = f.remainder /\ ~ y.pasteActive
        /\ y.result = f.result
        /\ Clean(f) /\ f.pasteBuf = Pasted => Clean(y)
    BY <1>6, <2>1, finishPasteSound
  <2> HIDE DEF y
  <2>4. PasteEnds(e, k, g) /\ Sound(g)
    BY <1>6, <1>8, <2>1, <2>2, <2>3 DEF PasteEnds, b
  <2> QED BY <2>4 DEF g, k
<1>13. CASE /\ k.key \notin {"^C", "PasteStart", "PasteEnd"}
            /\ ~ (k.key = "^D" /\ ~ e.pasteActive /\ currentLine(e) = <<>>)
  <2>0. g = handleKey(h, k.key)
    BY <1>3, <1>13
  <2>1. CASE e.pasteActive
    <3>1. PlainKey(b, k) \/ PasteEscKey(b, k)
      BY <1>1, <1>13, <2>1 DEF PasteEndKey
    <3>2. k.key \in Bytes
      <4>1. b # <<>> => b[1] \in Bytes
        BY <1>0
      <4> QED BY <3>1, <4>1 DEF PlainKey, PasteEscKey, Bytes
    <3> DEFINE y == addPasteRune(h, k.key)
    <3>3. g = y
      BY <1>7, <2>0, <2>1 DEF handleKey
    <3>4. /\ Sound(y) /\ (Clean(h) => Clean(y))
          /\ y.remainder = h.remainder /\ y.pasteActive = TRUE /\ y.result = h.result
          /\ k.key # "LF" => y.pasteBuf = Append(h.pasteBuf, PasteRune(k.key))
      <4>1. h.pasteActive
        BY <1>7, <2>1
      <4> DEFINE key == k.key
      <4> HIDE DEF key
      <4>2. key \in Bytes
        BY <3>2 DEF key
      <4>3. LET z == addPasteRune(h, key) IN
            /\ Sound(z) /\ (Clean(h) => Clean(z))
            /\ z.remainder = h.remainder /\ z.pasteActive = TRUE /\ z.result = h.result
            /\ key # "LF" => z.pasteBuf = Append(h.pasteBuf, PasteRune(key))
        BY <1>7, <4>1, <4>2, addPasteRuneSound
      <4> QED BY <4>3 DEF key
    <3> HIDE DEF y
    <3>5. PasteGrows(e, k, g) /\ Sound(g)
      BY <1>7, <2>1, <3>1, <3>3, <3>4 DEF PasteGrows, b
    <3> QED BY <3>5 DEF g, k
  <2>2. CASE ~ e.pasteActive
    <3>1. PlainKey(b, k) \/ EscKey(b, k)
      BY <1>1, <2>2
    <3> DEFINE y == handleKey(h, k.key)
    <3>2. Goes(h, y) /\ (k.key \notin {"p", "q"} => Becomes(h, y))
      BY <1>7, <2>2, handleKeySound
    <3> HIDE DEF y
    <3>3. Edits(e, k, g) /\ Sound(g)
      BY <1>7, <1>13, <2>0, <2>2, <3>1, <3>2 DEF Edits, b, y, Goes, Becomes
    <3> QED BY <3>3 DEF g, k
  <2> QED BY <2>1, <2>2
<1> QED BY <1>9, <1>10, <1>11, <1>12, <1>13

-------------------------------------------------------------------------------
(* The editor is sound in every state.                                     *)
Bytewise == input \in Seq(Bytes) /\ pending \in Seq(Bytes) /\ acc \in Seq(Bytes)

EditorIsSound ==
    /\ Bytewise
    /\ Sound(ed) /\ ed.result = "none"
    /\ mode \in InTurn \cup {"compact"} => ~ ed.pasteActive

LEMMA TakeIs ==
    ASSUME NEW s \in Seq(Bytes), s # <<>>
    PROVE  Head(s) \in Bytes /\ Tail(s) \in Seq(Bytes)
  OBVIOUS

\* What may be typed.
LEMMA UnitIsBytes == ASSUME NEW k \in Keys PROVE Unit(k) \in Seq(Bytes)
<1>1. /\ "esc" \in Bytes /\ "[" \in Bytes /\ "A" \in Bytes /\ "y" \in Bytes
      /\ "Enter" \in Bytes /\ "LF" \in Bytes
  BY DEF Bytes, Text
<1>2. /\ <<"esc", "[", "A">> \in Seq(Bytes) /\ <<"y", "Enter">> \in Seq(Bytes)
      /\ <<"y", "LF">> \in Seq(Bytes) /\ PasteBytes \in Seq(Bytes)
  BY <1>1, MarkersAre
<1>3. k \in {"Paste", "Arrow", "Line", "Yes"} \/ k \in Bytes
  BY TypingAssumption DEF TypingAssumption
<1>4. CASE k \in {"Paste", "Arrow", "Line", "Yes"}
  BY <1>2, <1>4 DEF Unit
<1>5. CASE k \notin {"Paste", "Arrow", "Line", "Yes"}
  <2>1. Unit(k) = <<k>>
    BY <1>5 DEF Unit
  <2>2. k \in Bytes
    BY <1>3, <1>5
  <2> QED BY <2>1, <2>2
<1> QED BY <1>4, <1>5

\* The history file.
LEMMA OldLinesAre ==
    /\ OldLines \in Seq(Lines) /\ Len(OldLines) = 2
    /\ \A i \in DOMAIN OldLines : Len(OldLines[i]) <= MaxLine /\ Plain(OldLines[i])
<1> DEFINE n == Char("n")
           y == Char("y")
<1>1. n \in Runes /\ y \in Runes /\ n.rune = "n" /\ y.rune = "y"
  BY CharIsRune DEF Bytes, Text, Char
<1>2. OldLines = << <<n>>, <<y, n>> >>
  BY DEF OldLines
<1> HIDE DEF n, y
<1> DEFINE a == <<n>>
           c == <<y, n>>
<1>3. a \in Lines /\ Len(a) = 1 /\ c \in Lines /\ Len(c) = 2
  BY <1>1 DEF Lines
<1>4. Plain(a) /\ Plain(c)
  BY <1>1 DEF Plain
<1>5. OldLines = <<a, c>>
  BY <1>2
<1> HIDE DEF a, c
<1>6. Len(a) <= MaxLine /\ Len(c) <= MaxLine
  BY <1>3, Limits
<1>7. OldLines \in Seq(Lines) /\ Len(OldLines) = 2 /\ DOMAIN OldLines = 1 .. 2
      /\ OldLines[1] = a /\ OldLines[2] = c
  BY <1>3, <1>5
<1>8. ASSUME NEW i \in DOMAIN OldLines PROVE Len(OldLines[i]) <= MaxLine /\ Plain(OldLines[i])
  <2>1. i = 1 \/ i = 2
    BY <1>7
  <2> QED BY <1>4, <1>6, <1>7, <2>1
<1> QED BY <1>7, <1>8

\* The editor at the start.
LEMMA NewTerminalIs ==
    LET e == NewTerminal(OldLines)
    IN  Sound(e) /\ Clean(e) /\ ~ e.pasteActive /\ e.result = "none" /\ e.remainder = <<>>
<1> DEFINE none == <<>>
           minus == -1
           s == NoSearch
           e == [line |-> none, pos |-> 0, remainder |-> none, result |-> "none", text |-> none,
                 pasteActive |-> FALSE, pasteBuf |-> none, pasteLastCR |-> FALSE, pastes |-> none,
                 entries |-> OldLines, historyIndex |-> minus, historyPending |-> none,
                 search |-> s]
<1>1. NewTerminal(OldLines) = e
  BY DEF NewTerminal
<1>2. /\ none \in Lines /\ Len(none) = 0 /\ Plain(none) /\ DOMAIN none = {}
      /\ none \in Seq([token : Runes, content : Lines]) /\ none \in Seq(Bytes)
      /\ minus \in Int /\ minus \in -1 .. 1
  BY NothingFits
<1>3. s \in Searches /\ ~ s.active
  <2>1. s = [active |-> FALSE, query |-> none, index |-> minus, failed |-> FALSE,
             line |-> none, pos |-> 0]
    BY DEF NoSearch
  <2> HIDE DEF s, none, minus
  <2> QED BY <1>2, <2>1 DEF Searches
<1> HIDE DEF s, none, minus
<1>4. e \in Editors
  BY <1>2, <1>3, OldLinesAre DEF Editors
<1>5. /\ e.line = none /\ e.pos = 0 /\ e.remainder = none /\ e.result = "none"
      /\ e.text = none /\ ~ e.pasteActive /\ e.pastes = none /\ e.entries = OldLines
      /\ e.historyIndex = minus /\ e.historyPending = none /\ e.search = s
  OBVIOUS
<1> HIDE DEF e
<1>6. Fits(e)
  BY <1>2, <1>3, <1>5, OldLinesAre, Limits DEF Fits
<1>7. Shows(e)
  BY <1>3, <1>5 DEF Shows
<1>8. Whole(none)
  BY <1>2, PlainIsWhole
<1>9. Clean(e)
  BY <1>2, <1>3, <1>5, <1>8, OldLinesAre DEF Clean
<1> QED BY <1>1, <1>4, <1>5, <1>6, <1>7, <1>9 DEF Sound, none

LEMMA InitEditor == ASSUME Init PROVE EditorIsSound
<1>1. <<>> \in Seq(Bytes)
  OBVIOUS
<1> QED BY <1>1, NewTerminalIs DEF Init, EditorIsSound, Bytewise, InTurn

LEMMA TypeKeepsEditor == ASSUME EditorIsSound, Type PROVE EditorIsSound'
<1>1. PICK k \in Keys : input' = input \o Unit(k)
  BY DEF Type
<1>2. input' \in Seq(Bytes)
  BY <1>1, UnitIsBytes DEF EditorIsSound, Bytewise
<1>3. UNCHANGED <<pending, ed, mode, acc>>
  BY DEF Type
<1> QED BY <1>2, <1>3 DEF EditorIsSound, Bytewise

LEMMA EditorReadKeepsEditor == ASSUME EditorIsSound, EditorRead PROVE EditorIsSound'
<1>1. /\ mode = "prompt" /\ UNCHANGED <<mode, acc>>
      /\ ed.remainder \in Seq(Bytes) /\ Sound(ed)
  BY DEF EditorRead, EditorIsSound, Sound, Editors
<1>2. PICK r \in Seq(Bytes) : /\ ed' = [ed EXCEPT !.remainder = r]
                              /\ pending' \in Seq(Bytes) /\ input' \in Seq(Bytes)
  <2>1. CASE pending # <<>>
    <3>1. /\ ed' = [ed EXCEPT !.remainder = ed.remainder \o pending]
          /\ pending' = <<>> /\ input' = input
      BY <2>1 DEF EditorRead
    <3>2. ed.remainder \o pending \in Seq(Bytes) /\ <<>> \in Seq(Bytes)
      BY <1>1 DEF EditorIsSound, Bytewise
    <3> QED BY <3>1, <3>2 DEF EditorIsSound, Bytewise
  <2>2. CASE pending = <<>>
    <3>1. PICK n \in 1 .. Len(input) :
              /\ ed' = [ed EXCEPT !.remainder = ed.remainder \o SubSeq(input, 1, n)]
              /\ input' = SubSeq(input, n + 1, Len(input)) /\ pending' = pending
      BY <2>2 DEF EditorRead
    <3>2. /\ SubSeq(input, 1, n) \in Seq(Bytes)
          /\ SubSeq(input, n + 1, Len(input)) \in Seq(Bytes)
      BY DEF EditorIsSound, Bytewise
    <3>3. ed.remainder \o SubSeq(input, 1, n) \in Seq(Bytes)
      BY <1>1, <3>2
    <3> QED BY <3>1, <3>2, <3>3 DEF EditorIsSound, Bytewise
  <2> QED BY <2>1, <2>2
<1>3. Sound(ed') /\ ed'.result = "none"
  BY <1>1, <1>2, RemainderChanges DEF EditorIsSound
<1> QED BY <1>1, <1>2, <1>3 DEF EditorIsSound, Bytewise, InTurn

LEMMA EditorKeyKeepsEditor == ASSUME EditorIsSound, EditorKey PROVE EditorIsSound'
<1> DEFINE e == readKey(ed)
           k == bytesToKey(ed.remainder, ed.pasteActive)
<1>1. /\ k.key # "incomplete" /\ UNCHANGED <<input, pending, acc>> /\ mode = "prompt"
      /\ ed' = [e EXCEPT !.result = "none"]
      /\ mode' = "ended" \/ mode' = "prompt" \/ (mode' = "turn" /\ e.result = "line")
  BY DEF EditorKey, Parsed
<1>2. /\ Sound(e)
      /\ \/ Leaves(ed, e) \/ PasteEnds(ed, k, e) \/ PasteGrows(ed, k, e)
         \/ PasteStarts(ed, k, e) \/ Edits(ed, k, e)
  BY <1>1, readKeyIs DEF EditorIsSound
<1> HIDE DEF e, k
<1>3. e.result = "line" => ~ e.pasteActive
  BY <1>2 DEF Leaves, PasteEnds, PasteGrows, PasteStarts, Edits
<1>4. Sound(ed') /\ ed'.result = "none" /\ ed'.pasteActive = e.pasteActive
  BY <1>1, <1>2, ResultChanges DEF Goes
<1> QED BY <1>1, <1>3, <1>4 DEF EditorIsSound, Bytewise, InTurn

\* The other steps leave the editor alone, and take bytes out of sequences.
LEMMA TurnKeepsEditor ==
    ASSUME EditorIsSound, REPL, ~ EditorRead, ~ EditorKey
    PROVE  EditorIsSound'
<1> USE DEF EditorIsSound, Bytewise
<1>0. \A s \in Seq(Bytes) : s # <<>> => Head(s) \in Bytes /\ Tail(s) \in Seq(Bytes)
  BY TakeIs
<1>a. "esc" \in Bytes /\ "[" \in Bytes
  BY DEF Bytes, Text
<1>b. <<"esc", "[">> \in Seq(Bytes) /\ <<>> \in Seq(Bytes)
  BY <1>a
<1>c. \A s \in Seq(Bytes), c \in Bytes : Append(s, c) \in Seq(Bytes)
  OBVIOUS
<1>1. CASE handleTurnKey
  <2>1. /\ mode \in InTurn /\ UNCHANGED <<ed, acc>>
        /\ input # <<>> /\ input' = Tail(input)
        /\ pending' = pending \/ pending' = Append(pending, Head(input))
    BY <1>1 DEF handleTurnKey, InTurn
  <2> QED BY <1>0, <1>c, <2>1
<1>2. CASE readPumpByte
  <2>1. /\ mode \in InTurn /\ UNCHANGED ed
        /\ input' = input \/ (input # <<>> /\ input' = Tail(input))
        /\ pending' = pending \/ pending' = Append(pending, "esc")
        /\ acc' = acc \/ acc' = <<"esc", "[">>
    BY <1>2 DEF readPumpByte, LoneEsc, InTurn
  <2> QED BY <1>0, <1>a, <1>b, <1>c, <2>1
<1>3. CASE passThroughEscSequence
  <2> DEFINE n == FirstIndex(input, Final)
             more == IF n = 0 THEN Len(input) ELSE n
  <2>1. /\ mode \in InTurn /\ UNCHANGED ed /\ acc' = <<>>
        /\ pending' = pending \o (acc \o SubSeq(input, 1, more))
        /\ input' = SubSeq(input, more + 1, Len(input))
    BY <1>3 DEF passThroughEscSequence, InTurn
  <2>2. more \in 0 .. Len(input) /\ Len(input) \in Nat
    BY FirstIndexIs
  <2> HIDE DEF more
  <2>3. SubSeq(input, 1, more) \in Seq(Bytes) /\ SubSeq(input, more + 1, Len(input)) \in Seq(Bytes)
    BY <2>2
  <2>4. acc \o SubSeq(input, 1, more) \in Seq(Bytes)
    BY <2>3
  <2>5. pending \o (acc \o SubSeq(input, 1, more)) \in Seq(Bytes)
    BY <2>4
  <2> QED BY <1>b, <2>1, <2>3, <2>5
<1>4. CASE handleApprovalPrompt
  <2> DEFINE n == FirstIndex(pending, {"LF", "^C", "esc"})
  <2>1. /\ mode \in InTurn /\ UNCHANGED <<input, ed>>
        /\ \/ acc' = pending /\ pending' = <<>>
           \/ acc' = <<>> /\ pending' = <<>>
           \/ acc' = <<>> /\ n # 0 /\ pending' = SubSeq(pending, n + 1, Len(pending))
    BY <1>4 DEF handleApprovalPrompt, InTurn, AnswerLine, AnswerQuit
  <2>2. n \in 0 .. Len(pending)
    BY FirstIndexIs
  <2> HIDE DEF n
  <2>3. SubSeq(pending, n + 1, Len(pending)) \in Seq(Bytes)
    BY <2>2
  <2> QED BY <1>b, <2>1, <2>3
<1>5. CASE readAnswerLine
  <2>1. /\ mode \in InTurn /\ UNCHANGED <<pending, ed>>
        /\ input # <<>> /\ input' = Tail(input)
        /\ acc' = <<>> \/ acc' = Append(acc, Head(input))
    BY <1>5 DEF readAnswerLine, InTurn, AnswerLine, AnswerQuit
  <2> QED BY <1>0, <1>b, <1>c, <2>1
<1>6. CASE AnswerExpires
  BY <1>6, <1>b DEF AnswerExpires, editor, InTurn
<1>7. CASE EndTurn
  BY <1>7 DEF EndTurn, editor, InTurn
<1>8. CASE CompactKey
  <2>1. /\ mode = "compact" /\ UNCHANGED <<pending, ed, acc>>
        /\ input # <<>> /\ input' = Tail(input)
    BY <1>8 DEF CompactKey
  <2> QED BY <1>0, <2>1
<1>9. CASE CompactDone
  BY <1>9 DEF CompactDone, editor
<1> QED BY <1>1, <1>2, <1>3, <1>4, <1>5, <1>6, <1>7, <1>8, <1>9 DEF REPL

\* All steps.
LEMMA NextKeepsEditor == ASSUME EditorIsSound, [Next]_vars PROVE EditorIsSound'
<1>1. CASE UNCHANGED vars
  BY <1>1 DEF vars, EditorIsSound, Bytewise
<1>2. CASE Type
  BY <1>2, TypeKeepsEditor
<1>3. CASE REPL
  BY <1>3, EditorReadKeepsEditor, EditorKeyKeepsEditor, TurnKeepsEditor
<1>4. CASE AgentAsks \/ Expire \/ Decide \/ AgentFinishes
  BY <1>4 DEF AgentAsks, Expire, Decide, AgentFinishes, editor, EditorIsSound, Bytewise
<1> QED BY <1>1, <1>2, <1>3, <1>4 DEF Next

-------------------------------------------------------------------------------
(* The stream of bytes and the pastes in it.                               *)
Special == {"p", "q", "200~", "201~"}

\* Where such a byte is in the bytes of a paste.
Place(c) == CASE c = "200~" -> 3 [] c = "p" -> 4 [] c = "q" -> 6 [] OTHER -> 9

PasteAt(s, b) == b >= 0 /\ b + 9 <= Len(s) /\ \A j \in 1 .. 9 : s[b + j] = PasteBytes[j]
Covered(s) == \A i \in 1 .. Len(s) : s[i] \in Special => PasteAt(s, i - Place(s[i]))
Free(s) == \A i \in 1 .. Len(s) : s[i] \notin Special

\* Each special byte is in a paste once.
LEMMA PlaceIs ==
    /\ \A c : Place(c) \in 1 .. 9
    /\ \A c \in Special : PasteBytes[Place(c)] = c
    /\ \A j \in 1 .. 9 : PasteBytes[j] \in Special => Place(PasteBytes[j]) = j
<1>1. \A c : Place(c) \in {3, 4, 6, 9}
  BY DEF Place
<1>2. /\ Place("200~") = 3 /\ Place("p") = 4 /\ Place("q") = 6 /\ Place("201~") = 9
  BY DEF Place
<1>3. \A c \in Special : PasteBytes[Place(c)] = c
  BY <1>2, MarkersAre DEF Special
<1>4. ASSUME NEW j \in 1 .. 9, PasteBytes[j] \in Special PROVE Place(PasteBytes[j]) = j
  <2>1. j \in {1, 2, 3, 4, 5, 6, 7, 8, 9}
    OBVIOUS
  <2>2. j \notin {1, 2, 5, 7, 8}
    BY <1>4, MarkersAre DEF Special
  <2>3. j \in {3, 4, 6, 9}
    BY <2>1, <2>2
  <2> QED BY <1>2, <2>3, MarkersAre
<1>5. \A c : Place(c) \in 1 .. 9
  BY <1>1
<1> QED BY <1>3, <1>4, <1>5

LEMMA FreeIsCovered == ASSUME NEW s, Free(s) PROVE Covered(s)
  BY DEF Free, Covered

LEMMA CoveredIs ==
    ASSUME NEW s \in Seq(Bytes), Covered(s), NEW i \in 1 .. Len(s), s[i] \in Special
    PROVE  /\ PasteAt(s, i - Place(s[i])) /\ Place(s[i]) \in 1 .. 9
           /\ Len(s) \in Nat /\ i \in Nat
  BY PlaceIs DEF Covered

\* A paste somewhere in a part of a sequence is one of the sequence.
LEMMA JoinIsCovered ==
    ASSUME NEW s \in Seq(Bytes), NEW t \in Seq(Bytes), Covered(s), Covered(t)
    PROVE  /\ Covered(s \o t)
           /\ \A b \in Nat : PasteAt(s, b) => PasteAt(s \o t, b)
<1> DEFINE v == s \o t
           m == Len(s)
           n == Len(t)
<1>1. /\ m \in Nat /\ n \in Nat /\ v \in Seq(Bytes) /\ Len(v) = m + n
      /\ \A i \in 1 .. m + n : v[i] = IF i <= m THEN s[i] ELSE t[i - m]
  BY ConcatProperties
<1> HIDE DEF v
<1>2. ASSUME NEW b \in Nat, PasteAt(s, b) PROVE PasteAt(v, b)
  <2>1. b + 9 <= m /\ \A j \in 1 .. 9 : s[b + j] = PasteBytes[j]
    BY <1>2 DEF PasteAt
  <2> HIDE DEF m, n
  <2>2. ASSUME NEW j \in 1 .. 9 PROVE v[b + j] = s[b + j]
    <3>1. b + 9 <= m /\ m \in Nat /\ n \in Nat
      BY <1>1, <2>1
    <3>2. b + j \in 1 .. m + n /\ b + j <= m
      BY <3>1
    <3> QED BY <1>1, <3>2
  <2>3. b + 9 <= Len(v)
    <3> DEFINE L == Len(v)
    <3>1. L = m + n /\ m \in Nat /\ n \in Nat /\ b + 9 <= m
      BY <1>1, <2>1
    <3> HIDE DEF L
    <3>2. b + 9 <= L
      BY <3>1
    <3> QED BY <3>2 DEF L
  <2> QED BY <2>1, <2>2, <2>3 DEF PasteAt
<1>3. ASSUME NEW b \in Nat, PasteAt(t, b) PROVE PasteAt(v, m + b)
  <2>1. b + 9 <= n /\ \A j \in 1 .. 9 : t[b + j] = PasteBytes[j]
    BY <1>3 DEF PasteAt
  <2> HIDE DEF m, n
  <2>2. ASSUME NEW j \in 1 .. 9 PROVE v[(m + b) + j] = t[b + j]
    <3>1. b + 9 <= n /\ m \in Nat /\ n \in Nat
      BY <1>1, <2>1
    <3>2. (m + b) + j \in 1 .. m + n /\ ~ ((m + b) + j <= m) /\ ((m + b) + j) - m = b + j
      BY <3>1
    <3> QED BY <1>1, <3>2
  <2>3. (m + b) + 9 <= Len(v) /\ m + b >= 0
    <3> DEFINE L == Len(v)
    <3>1. L = m + n /\ m \in Nat /\ n \in Nat /\ b + 9 <= n
      BY <1>1, <2>1
    <3> HIDE DEF L
    <3>2. (m + b) + 9 <= L /\ m + b >= 0
      BY <3>1
    <3> QED BY <3>2 DEF L
  <2> QED BY <2>1, <2>2, <2>3 DEF PasteAt
<1>4. ASSUME NEW i \in 1 .. Len(v), v[i] \in Special PROVE PasteAt(v, i - Place(v[i]))
  <2> DEFINE p == Place(v[i])
  <2>1. p \in 1 .. 9
    BY PlaceIs
  <2>2. CASE i <= m
    <3>1. v[i] = s[i] /\ i \in 1 .. m
      BY <1>1, <2>2
    <3>2. PasteAt(s, i - p)
      BY <1>4, <3>1 DEF Covered
    <3> HIDE DEF p
    <3>3. i - p \in Nat
      <4>1. i - p >= 0
        BY <3>2 DEF PasteAt
      <4> QED BY <2>1, <3>1, <4>1
    <3>4. PasteAt(v, i - p)
      BY <1>2, <3>2, <3>3
    <3> QED BY <3>4 DEF p
  <2>3. CASE i > m
    <3>1. v[i] = t[i - m] /\ i - m \in 1 .. n
      BY <1>1, <2>3
    <3>2. PasteAt(t, (i - m) - p)
      BY <1>4, <3>1 DEF Covered
    <3> HIDE DEF p
    <3>3. (i - m) - p \in Nat
      <4>1. (i - m) - p >= 0
        BY <3>2 DEF PasteAt
      <4> QED BY <2>1, <3>1, <4>1
    <3> DEFINE b == (i - m) - p
    <3>4. PasteAt(v, m + b)
      BY <1>3, <3>2, <3>3
    <3>5. m + b = i - p
      BY <1>1, <2>1
    <3> HIDE DEF b
    <3>6. PasteAt(v, i - p)
      BY <3>4, <3>5
    <3> QED BY <3>6 DEF p
  <2> QED BY <1>1, <2>2, <2>3
<1>5. Covered(v) /\ \A b \in Nat : PasteAt(s, b) => PasteAt(v, b)
  BY <1>2, <1>4 DEF Covered
<1> QED BY <1>5 DEF v

\* What is left when bytes are taken that cut no paste in two.
LEMMA DropIsCovered ==
    ASSUME NEW s \in Seq(Bytes), Covered(s), NEW n \in 0 .. Len(s),
           \A b \in 0 .. n - 1 : PasteAt(s, b) => b + 9 <= n
    PROVE  Covered(SubSeq(s, n + 1, Len(s)))
<1> DEFINE t == SubSeq(s, n + 1, Len(s))
           L == Len(s)
<1>1. /\ t \in Seq(Bytes) /\ Len(t) = L - n /\ L \in Nat
      /\ \A i \in 1 .. L - n : t[i] = s[n + i]
  BY DropIs
<1> HIDE DEF t
<1>2. ASSUME NEW i \in 1 .. Len(t), t[i] \in Special PROVE PasteAt(t, i - Place(t[i]))
  <2> DEFINE p == Place(t[i])
             b == (n + i) - p
  <2>1. p \in 1 .. 9
    BY PlaceIs
  <2>2. t[i] = s[n + i] /\ n + i \in 1 .. L
    BY <1>1
  <2>3. PasteAt(s, b)
    BY <1>2, <2>2 DEF Covered
  <2>4. b >= 0 /\ b + 9 <= L /\ \A j \in 1 .. 9 : s[b + j] = PasteBytes[j]
    BY <2>3 DEF PasteAt
  <2> HIDE DEF p, L
  <2>5. b \in Nat
    BY <1>1, <2>1, <2>4
  <2>6. b >= n
    <3>1. SUFFICES ASSUME b < n PROVE FALSE
      BY <2>5
    <3>2. b \in 0 .. n - 1
      BY <2>5, <3>1
    <3> HIDE DEF b
    <3>3. b + 9 <= n
      BY <2>3, <3>2
    <3> QED BY <1>1, <2>1, <3>3 DEF b
  <2>7. i - p \in Nat /\ n + (i - p) = b
    BY <1>1, <2>1, <2>5, <2>6
  <2>8. (i - p) + 9 <= Len(t)
    BY <1>1, <2>4, <2>7
  <2>9. ASSUME NEW j \in 1 .. 9 PROVE t[(i - p) + j] = PasteBytes[j]
    <3>1. (i - p) + j \in 1 .. L - n /\ n + ((i - p) + j) = b + j
      BY <1>1, <2>1, <2>7, <2>8
    <3>2. t[(i - p) + j] = s[b + j]
      BY <1>1, <3>1
    <3> QED BY <2>4, <3>2
  <2>10. PasteAt(t, i - p)
    BY <2>7, <2>8, <2>9 DEF PasteAt
  <2> QED BY <2>10 DEF p
<1>3. Covered(t)
  BY <1>2 DEF Covered
<1> QED BY <1>3 DEF t

\* Two pastes do not overlap.
LEMMA PastesAreApart ==
    ASSUME NEW s \in Seq(Bytes), NEW a \in Nat, NEW b \in Nat, a < b, PasteAt(s, a), PasteAt(s, b)
    PROVE  a + 9 <= b
<1>1. SUFFICES ASSUME b < a + 9 PROVE FALSE
  OBVIOUS
<1> DEFINE d == b - a
<1>2. d \in 1 .. 8 /\ b = a + d
  BY <1>1
<1>3. /\ \A j \in 1 .. 9 : s[a + j] = PasteBytes[j]
      /\ \A j \in 1 .. 9 : s[b + j] = PasteBytes[j]
  BY DEF PasteAt
<1> HIDE DEF d
<1>4. \A j \in 1 .. 9 : d + j \in 1 .. 9 => PasteBytes[d + j] = PasteBytes[j]
  <2>1. TAKE j \in 1 .. 9
  <2>2. HAVE d + j \in 1 .. 9
  <2>3. s[b + j] = PasteBytes[j] /\ s[a + (d + j)] = PasteBytes[d + j]
    BY <1>3, <2>2
  <2>4. b + j = a + (d + j)
    BY <1>2
  <2> QED BY <2>3, <2>4
<1>5. d \in {1, 2, 3, 4, 5, 6, 7, 8}
  BY <1>2
<1>6. d + 1 \in 1 .. 9 /\ PasteBytes[d + 1] = PasteBytes[1]
  BY <1>2, <1>4
<1>7. d = 6
  BY <1>5, <1>6, MarkersAre
<1>8. PasteBytes[9] = PasteBytes[3]
  BY <1>4, <1>7
<1> QED BY <1>8, MarkersAre

-------------------------------------------------------------------------------
(* Bytes taken out of the stream.                                          *)
\* A byte is taken that is of no paste.
LEMMA RemoveIsCovered ==
    ASSUME NEW s \in Seq(Bytes), NEW t \in Seq(Bytes), NEW c \in Bytes,
           Covered(s \o (<<c>> \o t)),
           \A j \in 1 .. 9 : PasteBytes[j] = c =>
               j < 9 /\ (t # <<>> => t[1] # PasteBytes[j + 1])
    PROVE  Covered(s \o t)
<1> DEFINE o == <<c>>
           u == o \o t
           v == s \o u
           w == s \o t
           m == Len(s)
           n == Len(t)
<1>1. /\ o \in Seq(Bytes) /\ Len(o) = 1 /\ o[1] = c
  OBVIOUS
<1> HIDE DEF o
<1>2. /\ u \in Seq(Bytes) /\ Len(u) = 1 + n /\ n \in Nat
      /\ \A i \in 1 .. 1 + n : u[i] = IF i <= 1 THEN o[i] ELSE t[i - 1]
  <2>1. /\ u \in Seq(Bytes) /\ Len(u) = Len(o) + n /\ n \in Nat
        /\ \A i \in 1 .. Len(o) + n : u[i] = IF i <= Len(o) THEN o[i] ELSE t[i - Len(o)]
    <3>1. o \in Seq(Bytes)
      BY <1>1
    <3> QED BY <3>1, ConcatProperties
  <2> HIDE DEF u, n
  <2> QED BY <1>1, <2>1
<1> HIDE DEF u
<1>3. /\ v \in Seq(Bytes) /\ Len(v) = m + (1 + n) /\ m \in Nat
      /\ \A i \in 1 .. m + (1 + n) : v[i] = IF i <= m THEN s[i] ELSE u[i - m]
  BY <1>2, ConcatProperties
<1>4. /\ w \in Seq(Bytes) /\ Len(w) = m + n
      /\ \A i \in 1 .. m + n : w[i] = IF i <= m THEN s[i] ELSE t[i - m]
  BY ConcatProperties
<1>5. Covered(v)
  BY DEF o, u
<1> HIDE DEF v, w
<1>6. n > 0 => t # <<>>
  OBVIOUS
<1>7. m \in Nat /\ n \in Nat
  BY <1>2, <1>3
<1> HIDE DEF m, n
<1>8. /\ \A i \in 1 .. m : v[i] = w[i]
      /\ \A i \in m + 1 .. m + n : v[i + 1] = w[i]
      /\ v[m + 1] = c /\ (n > 0 => v[m + 2] = t[1])
  <2>1. ASSUME NEW i \in 1 .. m PROVE v[i] = w[i]
    <3>1. i \in 1 .. m + n /\ i \in 1 .. m + (1 + n) /\ i <= m
      BY <1>7
    <3> QED BY <1>3, <1>4, <3>1
  <2>2. ASSUME NEW i \in m + 1 .. m + n PROVE v[i + 1] = w[i]
    <3>1. /\ i \in 1 .. m + n /\ ~ (i <= m) /\ i + 1 \in 1 .. m + (1 + n) /\ ~ (i + 1 <= m)
          /\ (i + 1) - m \in 1 .. 1 + n /\ ~ ((i + 1) - m <= 1) /\ ((i + 1) - m) - 1 = i - m
      BY <1>7
    <3>2. v[i + 1] = u[(i + 1) - m] /\ u[(i + 1) - m] = t[i - m]
      BY <1>2, <1>3, <3>1
    <3>3. w[i] = t[i - m]
      BY <1>4, <3>1
    <3> QED BY <3>2, <3>3
  <2>3. v[m + 1] = c
    <3>1. m + 1 \in 1 .. m + (1 + n) /\ ~ (m + 1 <= m) /\ (m + 1) - m = 1 /\ 1 \in 1 .. 1 + n
      BY <1>7
    <3> QED BY <1>1, <1>2, <1>3, <3>1
  <2>4. ASSUME n > 0 PROVE v[m + 2] = t[1]
    <3>1. /\ m + 2 \in 1 .. m + (1 + n) /\ ~ (m + 2 <= m) /\ (m + 2) - m = 2 /\ 2 \in 1 .. 1 + n
          /\ ~ (2 <= 1) /\ 2 - 1 = 1
      BY <1>7, <2>4
    <3>2. v[m + 2] = u[2] /\ u[2] = t[1]
      BY <1>2, <1>3, <3>1
    <3> QED BY <3>2
  <2> QED BY <2>1, <2>2, <2>3, <2>4
\* No paste goes across the byte.
<1>9. ASSUME NEW b \in Nat, PasteAt(v, b) PROVE b + 9 <= m \/ b >= m + 1
  <2>1. SUFFICES ASSUME b + 9 > m, b < m + 1 PROVE FALSE
    BY <1>7
  <2> DEFINE j == (m + 1) - b
  <2>2. j \in 1 .. 9 /\ b + j = m + 1 /\ b + (j + 1) = m + 2
    BY <1>7, <2>1
  <2>3. /\ \A i \in 1 .. 9 : v[b + i] = PasteBytes[i]
        /\ b + 9 <= Len(v)
    BY <1>9 DEF PasteAt
  <2> HIDE DEF j
  <2>4. PasteBytes[j] = c
    BY <1>8, <2>2, <2>3
  <2>5. j < 9 /\ (t # <<>> => t[1] # PasteBytes[j + 1])
    BY <2>2, <2>4
  <2>6. n > 0
    <3> DEFINE L == Len(v)
    <3>1. L = m + (1 + n) /\ b + 9 <= L
      BY <1>3, <2>3
    <3> HIDE DEF L
    <3> QED BY <1>7, <2>2, <2>5, <3>1
  <2>7. j + 1 \in 1 .. 9
    BY <2>2, <2>5
  <2>8. v[m + 2] = PasteBytes[j + 1]
    BY <2>2, <2>3, <2>7
  <2> QED BY <1>6, <1>8, <2>5, <2>6, <2>8
<1>10. ASSUME NEW i \in 1 .. Len(w), w[i] \in Special PROVE PasteAt(w, i - Place(w[i]))
  <2> DEFINE p == Place(w[i])
  <2>1. p \in 1 .. 9
    BY PlaceIs
  <2>2. i \in 1 .. m + n
    BY <1>4
  <2>3. CASE i <= m
    <3> DEFINE b == i - p
    <3>1. v[i] = w[i] /\ i \in 1 .. m /\ i \in 1 .. m + (1 + n)
      BY <1>7, <1>8, <2>2, <2>3
    <3>2. PasteAt(v, b)
      BY <1>3, <1>5, <1>10, <3>1 DEF Covered
    <3> HIDE DEF p
    <3>3. b >= 0 /\ \A j \in 1 .. 9 : v[b + j] = PasteBytes[j]
      BY <3>2 DEF PasteAt
    <3>4. b \in Nat /\ b < m + 1
      BY <1>7, <2>1, <2>3, <3>1, <3>3
    <3> HIDE DEF b
    <3>5. b + 9 <= m
      BY <1>7, <1>9, <3>2, <3>4
    <3>6. ASSUME NEW j \in 1 .. 9 PROVE w[b + j] = PasteBytes[j]
      <4>1. b + j \in 1 .. m
        BY <1>7, <3>4, <3>5
      <4> QED BY <1>8, <3>3, <4>1
    <3>7. b + 9 <= Len(w)
      <4> DEFINE L == Len(w)
      <4>1. L = m + n
        BY <1>4
      <4> HIDE DEF L
      <4>2. b + 9 <= L
        BY <1>7, <3>4, <3>5, <4>1
      <4> QED BY <4>2 DEF L
    <3>8. PasteAt(w, b)
      BY <3>3, <3>6, <3>7 DEF PasteAt
    <3> QED BY <3>8 DEF b, p
  <2>4. CASE i > m
    <3> DEFINE b == (i + 1) - p
               a == i - p
    <3>1. v[i + 1] = w[i] /\ i \in m + 1 .. m + n /\ i + 1 \in 1 .. m + (1 + n)
      BY <1>7, <1>8, <2>2, <2>4
    <3>2. PasteAt(v, b)
      BY <1>3, <1>5, <1>10, <3>1 DEF Covered
    <3> HIDE DEF p
    <3>3. b >= 0 /\ \A j \in 1 .. 9 : v[b + j] = PasteBytes[j]
      BY <3>2 DEF PasteAt
    <3>4. b \in Nat /\ b + 9 > m /\ b = a + 1 /\ a \in Int
      <4>1. p \in 1 .. 9 /\ m \in Nat /\ n \in Nat /\ i \in m + 1 .. m + n
        BY <1>7, <2>1, <3>1
      <4>2. b >= 0
        BY <3>3
      <4> QED BY <4>1, <4>2
    <3>5. b + 9 <= m + (1 + n)
      <4> DEFINE L == Len(v)
      <4>1. L = m + (1 + n) /\ b + 9 <= L
        BY <1>3, <3>2 DEF PasteAt
      <4> QED BY <4>1
    <3> HIDE DEF a, b
    <3>6. b >= m + 1
      BY <1>7, <1>9, <3>2, <3>4
    <3>7. ASSUME NEW j \in 1 .. 9 PROVE w[a + j] = PasteBytes[j]
      <4>1. a + j \in m + 1 .. m + n /\ (a + j) + 1 = b + j
        BY <1>7, <3>4, <3>5, <3>6
      <4> QED BY <1>8, <3>3, <4>1
    <3>8. a + 9 <= Len(w) /\ a >= 0
      <4> DEFINE L == Len(w)
      <4>1. L = m + n
        BY <1>4
      <4> HIDE DEF L
      <4>2. a + 9 <= L /\ a >= 0
        BY <1>7, <3>4, <3>5, <3>6, <4>1
      <4> QED BY <4>2 DEF L
    <3>9. PasteAt(w, a)
      BY <3>7, <3>8 DEF PasteAt
    <3> QED BY <3>9 DEF a, p
  <2> QED BY <1>7, <2>2, <2>3, <2>4
<1>11. Covered(w)
  BY <1>10 DEF Covered
<1> QED BY <1>11 DEF w

\* Sequences without a byte of a paste.
LEMMA FreeJoin ==
    ASSUME NEW s \in Seq(Bytes), NEW t \in Seq(Bytes)
    PROVE  Free(s \o t) <=> Free(s) /\ Free(t)
<1> DEFINE v == s \o t
           m == Len(s)
           n == Len(t)
<1>1. /\ m \in Nat /\ n \in Nat /\ Len(v) = m + n
      /\ \A i \in 1 .. m + n : v[i] = IF i <= m THEN s[i] ELSE t[i - m]
  BY ConcatProperties
<1> HIDE DEF v, m, n
<1>2. ASSUME NEW i \in 1 .. m PROVE i \in 1 .. m + n /\ v[i] = s[i]
  <2>1. i \in 1 .. m + n /\ i <= m
    BY <1>1
  <2> QED BY <1>1, <2>1
<1>3. ASSUME NEW i \in 1 .. n PROVE m + i \in 1 .. m + n /\ v[m + i] = t[i]
  <2>1. m + i \in 1 .. m + n /\ ~ (m + i <= m) /\ (m + i) - m = i
    BY <1>1
  <2> QED BY <1>1, <2>1
<1>4. ASSUME Free(v) PROVE Free(s) /\ Free(t)
  <2>1. \A i \in 1 .. m + n : v[i] \notin Special
    BY <1>1, <1>4 DEF Free
  <2> QED BY <1>2, <1>3, <2>1 DEF Free, m, n
<1>5. ASSUME Free(s), Free(t) PROVE Free(v)
  <2>1. (\A i \in 1 .. m : s[i] \notin Special) /\ (\A i \in 1 .. n : t[i] \notin Special)
    BY <1>5 DEF Free, m, n
  <2>2. ASSUME NEW i \in 1 .. m + n PROVE v[i] \notin Special
    <3>1. CASE i <= m
      BY <1>1, <1>2, <2>1, <3>1
    <3>2. CASE ~ (i <= m)
      <4>1. i - m \in 1 .. n /\ v[i] = t[i - m]
        BY <1>1, <3>2
      <4> QED BY <2>1, <4>1
    <3> QED BY <3>1, <3>2
  <2> QED BY <1>1, <2>2 DEF Free
<1>6. Free(v) <=> Free(s) /\ Free(t)
  BY <1>4, <1>5
<1> QED BY <1>6 DEF v

\* What is left of such a sequence.
LEMMA FreeDrop ==
    ASSUME NEW s \in Seq(Bytes), Free(s), NEW n \in 0 .. Len(s)
    PROVE  Free(SubSeq(s, n + 1, Len(s)))
<1> DEFINE t == SubSeq(s, n + 1, Len(s))
           L == Len(s)
<1>1. /\ Len(t) = L - n /\ L \in Nat /\ \A i \in 1 .. L - n : t[i] = s[n + i]
  BY DropIs
<1> HIDE DEF t
<1>2. \A i \in 1 .. L : s[i] \notin Special
  BY DEF Free
<1> HIDE DEF L
<1>3. n \in 0 .. L
  BY DEF L
<1>4. ASSUME NEW i \in 1 .. L - n PROVE t[i] \notin Special
  <2>1. n + i \in 1 .. L
    BY <1>1, <1>3
  <2> QED BY <1>1, <1>2, <2>1
<1>5. Free(t)
  BY <1>1, <1>4 DEF Free
<1> QED BY <1>5 DEF t

LEMMA FreeTail == ASSUME NEW s \in Seq(Bytes), s # <<>>, Free(s) PROVE Free(Tail(s))
<1>1. Len(Tail(s)) = Len(s) - 1 /\ \A i \in 1 .. Len(Tail(s)) : Tail(s)[i] = s[i + 1]
  BY HeadTailProperties
<1>2. Len(s) \in Nat \ {0}
  OBVIOUS
<1> DEFINE t == Tail(s)
<1> HIDE DEF t
<1>3. ASSUME NEW i \in 1 .. Len(t) PROVE t[i] \notin Special
  <2>1. i + 1 \in 1 .. Len(s) /\ t[i] = s[i + 1]
    BY <1>1, <1>2 DEF t
  <2> QED BY <2>1 DEF Free
<1> QED BY <1>3 DEF Free, t

LEMMA NothingIsFree == Free(<<>>)
  BY DEF Free

\* Of what is typed, the paste has all its special bytes, the rest none.
LEMMA UnitIsCovered == ASSUME NEW k \in Keys PROVE Covered(Unit(k))
<1>1. CASE k = "Paste"
  <2>1. Unit(k) = PasteBytes
    BY <1>1 DEF Unit
  <2>2. Len(PasteBytes) = 9
    BY MarkersAre
  <2>3. \A j \in 1 .. 9 : PasteBytes[j] \in Special => j - Place(PasteBytes[j]) = 0
    BY PlaceIs
  <2>4. PasteAt(PasteBytes, 0)
    BY <2>2 DEF PasteAt
  <2>5. Covered(PasteBytes)
    BY <2>2, <2>3, <2>4 DEF Covered
  <2> QED BY <2>1, <2>5
<1>2. CASE k # "Paste"
  <2>1. Free(Unit(k))
    <3>1. CASE k = "Arrow"
      BY <3>1 DEF Unit, Free, Special
    <3>2. CASE k = "Line"
      BY <3>2 DEF Unit, Free, Special
    <3>3. CASE k = "Yes"
      BY <3>3 DEF Unit, Free, Special
    <3>4. CASE k \notin {"Paste", "Arrow", "Line", "Yes"}
      <4>1. Unit(k) = <<k>> /\ k \notin Special
        BY <3>4, TypingAssumption DEF Unit, TypingAssumption, Special
      <4> QED BY <4>1 DEF Free
    <3> QED BY <1>2, <3>1, <3>2, <3>3, <3>4
  <2> QED BY <2>1, FreeIsCovered
<1> QED BY <1>1, <1>2

-------------------------------------------------------------------------------
(* One key of readLine, and the stream that follows it.                    *)
\* What the editor has taken of the paste it is in.
Eaten(e) == IF e.pasteActive THEN SubSeq(PasteBytes, 1, 3 + Len(e.pasteBuf)) ELSE <<>>
Before(e) == Eaten(e) \o e.remainder

\* A paste the editor is in is the beginning of the stream.
Begun(e, v) ==
    e.pasteActive =>
        /\ PasteAt(v, 0) /\ Len(e.pasteBuf) \in 0 .. 3
        /\ e.pasteBuf = SubSeq(Pasted, 1, Len(e.pasteBuf))

Kept(e, w) == Clean(e) /\ Covered(Before(e) \o w) /\ Begun(e, Before(e) \o w)

\* The bytes that the editor has of the paste it is in.
LEMMA EatenIs ==
    ASSUME NEW e, Sound(e), e.pasteActive => Len(e.pasteBuf) \in 0 .. 3
    PROVE  /\ Eaten(e) \in Seq(Bytes) /\ e.remainder \in Seq(Bytes) /\ Before(e) \in Seq(Bytes)
           /\ e.pasteActive => /\ Len(Eaten(e)) = 3 + Len(e.pasteBuf)
                               /\ \A i \in 1 .. 3 + Len(e.pasteBuf) : Eaten(e)[i] = PasteBytes[i]
           /\ ~ e.pasteActive => Eaten(e) = <<>> /\ Before(e) = e.remainder
<1>1. e.remainder \in Seq(Bytes)
  BY DEF Sound, Editors
<1>2. CASE e.pasteActive
  <2> DEFINE n == 3 + Len(e.pasteBuf)
             s == SubSeq(PasteBytes, 1, n)
  <2>1. n \in 0 .. 9
    <3> DEFINE m == Len(e.pasteBuf)
    <3>1. m \in 0 .. 3
      BY <1>2
    <3> HIDE DEF m
    <3>2. 3 + m \in 0 .. 9
      BY <3>1
    <3> QED BY <3>2 DEF m
  <2> HIDE DEF n
  <2>2. s \in Seq(Bytes) /\ Len(s) = n /\ \A i \in 1 .. n : s[i] = PasteBytes[i]
    <3>1. PasteBytes \in Seq(Bytes) /\ n \in 0 .. Len(PasteBytes)
      BY <2>1, MarkersAre
    <3> QED BY <2>1, <3>1
  <2>3. Eaten(e) = s
    BY <1>2 DEF Eaten, n
  <2> HIDE DEF s
  <2>4. Before(e) \in Seq(Bytes)
    BY <1>1, <2>2, <2>3, ConcatProperties DEF Before
  <2> QED BY <1>1, <1>2, <2>2, <2>3, <2>4 DEF n
<1>3. CASE ~ e.pasteActive
  <2>1. Eaten(e) = <<>> /\ <<>> \in Seq(Bytes)
    BY <1>3 DEF Eaten
  <2>2. Before(e) = e.remainder
    BY <1>1, <2>1, ConcatEmptySeq DEF Before
  <2> QED BY <1>1, <1>3, <2>1, <2>2
<1> QED BY <1>2, <1>3

\* The bytes of a stream that a key takes.
LEMMA DropOfJoin ==
    ASSUME NEW r \in Seq(Bytes), NEW w \in Seq(Bytes), NEW n \in 0 .. Len(r)
    PROVE  SubSeq(r, n + 1, Len(r)) \o w = SubSeq(r \o w, n + 1, Len(r \o w))
<1> DEFINE a == SubSeq(r, n + 1, Len(r))
           v == r \o w
           b == SubSeq(v, n + 1, Len(v))
           R == Len(r)
           W == Len(w)
<1>1. /\ a \in Seq(Bytes) /\ Len(a) = R - n
      /\ \A i \in 1 .. R - n : a[i] = r[n + i]
  BY DropIs
<1>2. /\ v \in Seq(Bytes) /\ Len(v) = R + W
      /\ \A i \in 1 .. R + W : v[i] = IF i <= R THEN r[i] ELSE w[i - R]
  BY ConcatProperties
<1>3. R \in Nat /\ W \in Nat /\ n \in 0 .. R
  OBVIOUS
<1> HIDE DEF a, v
<1>4. /\ b \in Seq(Bytes) /\ Len(b) = Len(v) - n
      /\ \A i \in 1 .. Len(v) - n : b[i] = v[n + i]
  <2>1. n \in 0 .. Len(v)
    <3> DEFINE K == Len(v)
    <3>1. K = R + W
      BY <1>2
    <3> HIDE DEF K, R, W
    <3>2. n \in 0 .. K
      BY <1>3, <3>1
    <3> QED BY <3>2 DEF K
  <2> QED BY <1>2, <2>1, DropIs
<1> HIDE DEF b
<1>5. /\ a \o w \in Seq(Bytes) /\ Len(a \o w) = Len(a) + W
      /\ \A i \in 1 .. Len(a) + W : (a \o w)[i] = IF i <= Len(a) THEN a[i] ELSE w[i - Len(a)]
  BY <1>1, ConcatProperties
<1> DEFINE c == a \o w
<1> HIDE DEF c, R, W
<1>6. Len(c) = Len(b) /\ Len(b) = (R + W) - n
  <2>1. Len(c) = (R - n) + W /\ Len(b) = (R + W) - n
    BY <1>1, <1>2, <1>4, <1>5 DEF c
  <2> QED BY <1>3, <2>1
<1>7. ASSUME NEW i \in 1 .. (R + W) - n PROVE c[i] = b[i]
  <2>0. /\ \A k \in 1 .. (R - n) + W : c[k] = IF k <= R - n THEN a[k] ELSE w[k - (R - n)]
        /\ \A k \in 1 .. (R + W) - n : b[k] = v[n + k]
    BY <1>1, <1>2, <1>4, <1>5 DEF c
  <2>1. i \in 1 .. (R - n) + W /\ n + i \in 1 .. R + W
    BY <1>3
  <2>2. CASE i <= R - n
    <3>1. i \in 1 .. R - n /\ n + i <= R
      BY <1>3, <2>2
    <3> QED BY <1>1, <1>2, <2>0, <2>1, <2>2, <3>1
  <2>3. CASE ~ (i <= R - n)
    <3>1. ~ (n + i <= R) /\ i - (R - n) = (n + i) - R
      BY <1>3, <2>3
    <3> QED BY <1>2, <2>0, <2>1, <2>3, <3>1
  <2> QED BY <2>2, <2>3
<1>8. c = b
  BY <1>4, <1>5, <1>6, <1>7, SeqEqual DEF c
<1> QED BY <1>8 DEF a, b, c, v

\* A key that is not part of a paste.
LEMMA EditsKeepStream ==
    ASSUME NEW e, Sound(e), NEW w \in Seq(Bytes), Kept(e, w), NEW k, NEW g, Sound(g),
           Edits(e, k, g), ~ (k.key = "Unknown" /\ e.remainder[k.size] \in {"200~", "201~"})
    PROVE  Kept(g, w)
<1> DEFINE r == e.remainder
           v == r \o w
           n == k.size
<1>1. ~ e.pasteActive /\ ~ g.pasteActive /\ (PlainKey(r, k) \/ EscKey(r, k))
      /\ k.key # "PasteStart" /\ Taken(r, k, g.remainder)
  BY DEF Edits
<1>2. r \in Seq(Bytes) /\ Before(e) = r /\ Before(g) = g.remainder
  BY <1>1, EatenIs
<1>3. Covered(v) /\ Clean(e)
  BY <1>2 DEF Kept
<1>4. n \in 1 .. Len(r) /\ Len(r) \in Nat
  BY <1>1, <1>2, SizeOfKey
<1>5. /\ v \in Seq(Bytes) /\ Len(v) = Len(r) + Len(w) /\ Len(w) \in Nat
      /\ \A i \in 1 .. Len(r) : v[i] = r[i]
  <2>1. /\ v \in Seq(Bytes) /\ Len(v) = Len(r) + Len(w) /\ Len(w) \in Nat
        /\ \A i \in 1 .. Len(r) + Len(w) : v[i] = IF i <= Len(r) THEN r[i] ELSE w[i - Len(r)]
    BY <1>2, ConcatProperties
  <2> DEFINE R == Len(r)
             W == Len(w)
  <2>2. R \in Nat /\ W \in Nat
    BY <1>4
  <2> HIDE DEF R, W, v, r
  <2>3. \A i \in 1 .. R : i \in 1 .. R + W /\ i <= R
    BY <2>2
  <2>4. \A i \in 1 .. R : v[i] = r[i]
    BY <2>1, <2>3 DEF R, W
  <2> QED BY <2>1, <2>4 DEF R
<1>6. \A b \in 0 .. Len(v) : PasteAt(v, b) => /\ \A j \in 1 .. 9 : v[b + j] = PasteBytes[j]
                                             /\ b + 9 <= Len(v)
  BY DEF PasteAt
<1> DEFINE V == Len(v)
           R == Len(r)
<1>7. R \in Nat /\ V \in Nat /\ R <= V /\ n \in 1 .. R
  <2> DEFINE W == Len(w)
  <2>1. V = R + W /\ W \in Nat /\ R \in Nat /\ n \in 1 .. R
    BY <1>4, <1>5
  <2> HIDE DEF V, R, W, n
  <2> QED BY <2>1
<1>8. \A i \in 1 .. R : v[i] = r[i]
  BY <1>5
<1> HIDE DEF v, r, n, V, R
\* Where a paste is, its bytes are not what the key has taken.
<1>9. /\ k.key \notin {"p", "q"}
      /\ \A b \in 0 .. n - 1 : ~ PasteAt(v, b)
  <2>1. CASE PlainKey(r, k)
    <3>1. n = 1 /\ r[1] # "esc" /\ k.key = r[1]
      BY <2>1 DEF PlainKey, n
    <3>2. v[1] = r[1] /\ 1 \in 1 .. V
      BY <1>7, <1>8, <3>1
    <3>3. ~ PasteAt(v, 0)
      BY <3>1, <3>2, MarkersAre DEF PasteAt
    <3>4. v[1] \notin Special
      <4>1. SUFFICES ASSUME v[1] \in Special PROVE FALSE
        OBVIOUS
      <4>2. 1 \in 1 .. Len(v)
        BY <3>2 DEF V
      <4>3. PasteAt(v, 1 - Place(v[1])) /\ Place(v[1]) \in 1 .. 9
        BY <1>3, <1>5, <4>1, <4>2, CoveredIs
      <4>4. 1 - Place(v[1]) >= 0
        BY <4>3 DEF PasteAt
      <4>5. Place(v[1]) = 1
        <5> DEFINE p == Place(v[1])
        <5>1. p \in 1 .. 9 /\ 1 - p >= 0
          BY <4>3, <4>4
        <5> HIDE DEF p
        <5>2. p = 1
          BY <5>1
        <5> QED BY <5>2 DEF p
      <4>6. PasteBytes[1] = v[1]
        BY <4>1, <4>5, PlaceIs
      <4> QED BY <3>1, <3>2, <4>6, MarkersAre
    <3>5. k.key \notin {"p", "q"}
      BY <3>1, <3>2, <3>4 DEF Special
    <3>6. \A b \in 0 .. n - 1 : b = 0
      BY <3>1
    <3> QED BY <3>3, <3>5, <3>6
  <2>2. CASE EscKey(r, k)
    <3>1. /\ r[n] \in Final /\ \A i \in 1 .. n - 1 : r[i] \notin Final
          /\ k.key \in {"Up", "PasteStart", "Unknown"}
          /\ k.key = "Up" => r[n] = "A"
      BY <2>2 DEF EscKey, n, r
    <3>2. r[n] \notin {"200~", "201~"}
      BY <1>1, <3>1 DEF n, r
    <3>3. ASSUME NEW b \in 0 .. n - 1, PasteAt(v, b) PROVE FALSE
      <4>1. \A j \in 1 .. 9 : v[b + j] = PasteBytes[j]
        BY <3>3 DEF PasteAt
      <4> DEFINE d == n - b
      <4>2. d \in 1 .. n /\ b + d = n /\ b \in Nat
        BY <1>7
      <4>3. v[n] = r[n] /\ v[b + 3] = PasteBytes[3]
        BY <1>7, <1>8, <4>1
      <4> HIDE DEF d
      <4>4. CASE d > 3
        <5>1. b + 3 \in 1 .. n - 1 /\ b + 3 \in 1 .. R
          BY <1>7, <4>2, <4>4
        <5>2. r[b + 3] = "200~"
          BY <1>8, <4>3, <5>1, MarkersAre
        <5> QED BY <3>1, <5>1, <5>2 DEF Final
      <4>5. CASE d <= 3
        <5>1. d \in 1 .. 9 /\ (d = 1 \/ d = 2 \/ d = 3)
          BY <4>2, <4>5
        <5>2. r[n] = PasteBytes[d]
          BY <4>1, <4>2, <4>3, <5>1
        <5>3. PasteBytes[d] \in {"esc", "[", "200~"}
          BY <5>1, MarkersAre
        <5> QED BY <3>1, <3>2, <5>2, <5>3 DEF Final, Text
      <4> QED BY <4>2, <4>4, <4>5
    <3> QED BY <3>1, <3>3
  <2> QED BY <1>1, <2>1, <2>2 DEF r
<1>10. PICK m \in {n, n + 1} :
           /\ m <= R /\ g.remainder = SubSeq(r, m + 1, Len(r))
           /\ \A b \in 0 .. m - 1 : ~ PasteAt(v, b)
  <2>1. CASE g.remainder = SubSeq(r, n + 1, Len(r))
    BY <1>7, <1>9, <2>1
  <2>2. CASE /\ k.size + 1 <= Len(r) /\ r[k.size + 1] = "LF"
             /\ g.remainder = SubSeq(r, k.size + 2, Len(r))
    <3>1. n + 1 <= R /\ r[n + 1] = "LF" /\ g.remainder = SubSeq(r, n + 2, Len(r))
      BY <2>2 DEF n, R
    <3>2. n + 2 = (n + 1) + 1
      BY <1>7
    <3>3. ~ PasteAt(v, n)
      <4>1. v[n + 1] = "LF"
        BY <1>7, <1>8, <3>1
      <4>2. PasteBytes[1] = "esc"
        BY MarkersAre
      <4>3. 1 \in 1 .. 9
        OBVIOUS
      <4>4. PasteAt(v, n) => v[n + 1] = PasteBytes[1]
        BY <4>3 DEF PasteAt
      <4> QED BY <4>1, <4>2, <4>4
    <3>4. \A b \in 0 .. (n + 1) - 1 : b = n \/ b \in 0 .. n - 1
      BY <1>7
    <3> QED BY <1>9, <3>1, <3>2, <3>3, <3>4
  <2> QED BY <1>1, <2>1, <2>2 DEF Taken, n, r
<1>11. m \in 0 .. R /\ m \in 0 .. V
  BY <1>7, <1>10
<1>12. Covered(SubSeq(v, m + 1, Len(v)))
  BY <1>3, <1>5, <1>10, <1>11, DropIsCovered DEF V
<1>13. g.remainder \o w = SubSeq(v, m + 1, Len(v))
  <2>1. m \in 0 .. Len(r)
    BY <1>11 DEF R
  <2> QED BY <1>2, <1>10, <2>1, DropOfJoin DEF v
<1>14. Clean(g)
  BY <1>3, <1>9 DEF Edits
<1> QED BY <1>1, <1>2, <1>12, <1>13, <1>14 DEF Kept, Begun

-------------------------------------------------------------------------------
(* The keys of a paste, and the stream that follows them.                  *)
\* In a paste, the next bytes are those of the paste.
LEMMA NextIs ==
    ASSUME NEW e, Sound(e), NEW w \in Seq(Bytes), Begun(e, Before(e) \o w), e.pasteActive,
           NEW i \in 1 .. Len(e.remainder), 3 + Len(e.pasteBuf) + i <= 9
    PROVE  e.remainder[i] = PasteBytes[3 + Len(e.pasteBuf) + i]
<1> DEFINE r == e.remainder
           E == Eaten(e)
           b == E \o r
           v == b \o w
           n == 3 + Len(e.pasteBuf)
           R == Len(r)
           W == Len(w)
<1>1. Len(e.pasteBuf) \in 0 .. 3 /\ PasteAt(v, 0)
  BY DEF Begun, Before
<1>2. E \in Seq(Bytes) /\ r \in Seq(Bytes) /\ Len(E) = n
  BY <1>1, EatenIs
<1>3. n \in Nat /\ R \in Nat /\ W \in Nat /\ i \in 1 .. R /\ n + i \in 1 .. 9
  <2> DEFINE m == Len(e.pasteBuf)
  <2>1. m \in Nat /\ R \in Nat /\ W \in Nat /\ 3 + m + i <= 9 /\ i \in 1 .. R
    BY <1>1, <1>2
  <2> HIDE DEF m, R, W
  <2>2. 3 + m \in Nat /\ (3 + m) + i \in 1 .. 9
    BY <2>1
  <2> QED BY <2>1, <2>2 DEF m
<1>4. /\ b \in Seq(Bytes) /\ Len(b) = n + R
      /\ \A k \in 1 .. n + R : b[k] = IF k <= n THEN E[k] ELSE r[k - n]
  <2>1. /\ b \in Seq(Bytes) /\ Len(b) = Len(E) + R
        /\ \A k \in 1 .. Len(E) + R : b[k] = IF k <= Len(E) THEN E[k] ELSE r[k - Len(E)]
    <3>1. E \in Seq(Bytes) /\ r \in Seq(Bytes)
      BY <1>2
    <3> HIDE DEF E, r
    <3> QED BY <3>1, ConcatProperties
  <2> HIDE DEF b, E, r, R, n
  <2> QED BY <1>2, <2>1
<1> HIDE DEF b
<1>5. /\ Len(v) = (n + R) + W
      /\ \A k \in 1 .. (n + R) + W : v[k] = IF k <= n + R THEN b[k] ELSE w[k - (n + R)]
  <2>1. /\ Len(v) = Len(b) + W
        /\ \A k \in 1 .. Len(b) + W : v[k] = IF k <= Len(b) THEN b[k] ELSE w[k - Len(b)]
    <3>1. b \in Seq(Bytes)
      BY <1>4
    <3> QED BY <3>1, ConcatProperties
  <2> HIDE DEF v, R, n, W
  <2> QED BY <1>4, <2>1
<1>6. v[0 + (n + i)] = PasteBytes[n + i]
  BY <1>1, <1>3 DEF PasteAt
<1> HIDE DEF v, R, n, W, r, E
<1>7. 0 + (n + i) = n + i /\ n + i \in 1 .. n + R /\ n + i \in 1 .. (n + R) + W /\ n + i <= n + R
      /\ ~ (n + i <= n) /\ (n + i) - n = i
  BY <1>3
<1>8. v[n + i] = b[n + i] /\ b[n + i] = r[i]
  BY <1>4, <1>5, <1>7
<1>9. r[i] = PasteBytes[n + i]
  BY <1>6, <1>7, <1>8
<1> QED BY <1>9 DEF r, n

\* What a sequence becomes when it is taken from the front of a longer one.
LEMMA DropFirst ==
    ASSUME NEW s \in Seq(Bytes), NEW t \in Seq(Bytes), NEW n \in 0 .. Len(t)
    PROVE  SubSeq(s \o t, Len(s) + n + 1, Len(s \o t)) = SubSeq(t, n + 1, Len(t))
<1> DEFINE v == s \o t
           S == Len(s)
           T == Len(t)
           a == SubSeq(v, S + n + 1, Len(v))
           b == SubSeq(t, n + 1, T)
           m == S + n
<1>1. /\ v \in Seq(Bytes) /\ Len(v) = S + T
      /\ \A i \in 1 .. S + T : v[i] = IF i <= S THEN s[i] ELSE t[i - S]
  BY ConcatProperties
<1>2. b \in Seq(Bytes) /\ Len(b) = T - n /\ \A i \in 1 .. T - n : b[i] = t[n + i]
  BY DropIs
<1>3. S \in Nat /\ T \in Nat /\ n \in 0 .. T
  OBVIOUS
<1> HIDE DEF v, b, S, T
<1>4. m \in 0 .. Len(v) /\ m + 1 = S + n + 1 /\ Len(v) - m = T - n
  <2> DEFINE V == Len(v)
  <2>1. V = S + T
    BY <1>1
  <2> HIDE DEF V
  <2>2. m \in 0 .. V /\ m + 1 = S + n + 1 /\ V - m = T - n
    BY <1>3, <2>1
  <2> QED BY <2>2 DEF V
<1> HIDE DEF m
<1>5. /\ SubSeq(v, m + 1, Len(v)) \in Seq(Bytes) /\ Len(SubSeq(v, m + 1, Len(v))) = Len(v) - m
      /\ \A i \in 1 .. Len(v) - m : SubSeq(v, m + 1, Len(v))[i] = v[m + i]
  BY <1>1, <1>4, DropIs
<1>6. a \in Seq(Bytes) /\ Len(a) = T - n /\ \A i \in 1 .. T - n : a[i] = v[m + i]
  <2>1. a = SubSeq(v, m + 1, Len(v))
    BY <1>4
  <2> HIDE DEF a
  <2> QED BY <1>4, <1>5, <2>1
<1> HIDE DEF a
<1>7. ASSUME NEW i \in 1 .. T - n PROVE a[i] = b[i]
  <2>1. m + i \in 1 .. S + T /\ ~ (m + i <= S) /\ (m + i) - S = n + i
    BY <1>3 DEF m
  <2> QED BY <1>1, <1>2, <1>6, <2>1
<1>8. a = b
  BY <1>2, <1>6, <1>7, SeqEqual
<1> QED BY <1>8 DEF a, b, v, S, T

LEMMA WholeOfParts ==
    ASSUME NEW r \in Seq(Bytes), NEW n \in 0 .. Len(r)
    PROVE  r = SubSeq(r, 1, n) \o SubSeq(r, n + 1, Len(r))
<1>1. Len(r) \in Nat /\ 1 \in 1 .. Len(r) + 1 /\ n \in 1 - 1 .. Len(r) /\ Len(r) \in n .. Len(r)
  OBVIOUS
<1>2. SubSeq(r, 1, n) \o SubSeq(r, n + 1, Len(r)) = SubSeq(r, 1, Len(r))
  BY <1>1, ConcatAdjacentSubSeq
<1> QED BY <1>2, SubSeqFull

LEMMA PastedParts ==
    /\ \A i \in 0 .. 3 : SubSeq(Pasted, 1, i) \in Seq(Runes) /\ Len(SubSeq(Pasted, 1, i)) = i
    /\ \A i \in 1 .. 3 : Pasted[i] \in Runes
<1>1. Pasted \in Seq(Runes) /\ Len(Pasted) = 3
  BY PastedIs DEF Lines
<1> DEFINE P == Pasted
           n == Len(P)
<1>2. P \in Seq(Runes) /\ n = 3
  BY <1>1
<1> HIDE DEF P
<1>3. \A i \in 1 .. n : P[i] \in Runes
  BY <1>2
<1>4. \A i \in 0 .. n : SubSeq(P, 1, i) \in Seq(Runes) /\ Len(SubSeq(P, 1, i)) = i
  <2>1. TAKE i \in 0 .. n
  <2>2. 1 \in 1 .. Len(P) + 1 /\ i \in 0 .. Len(P) /\ P \in Lines
    BY <1>2 DEF Lines
  <2>3. SubSeq(P, 1, i) \in Lines /\ Len(SubSeq(P, 1, i)) = IF 1 <= i THEN i - 1 + 1 ELSE 0
    BY <2>2, PartIsLine
  <2> QED BY <1>2, <2>3 DEF Lines
<1> QED BY <1>2, <1>3, <1>4 DEF P

\* The start of a paste: the marker goes from the remainder to what is eaten.
LEMMA PasteStartsKeepStream ==
    ASSUME NEW e, Sound(e), NEW w \in Seq(Bytes), Kept(e, w), NEW k, NEW g, Sound(g),
           PasteStarts(e, k, g)
    PROVE  Kept(g, w)
<1> DEFINE r == e.remainder
           v == r \o w
<1>1. /\ ~ e.pasteActive /\ EscKey(r, k) /\ k.key = "PasteStart" /\ Taken(r, k, g.remainder)
      /\ g.pasteActive /\ g.pasteBuf = <<>> /\ (Clean(e) => Clean(g))
  BY DEF PasteStarts
<1>2. r \in Seq(Bytes) /\ Before(e) = r
  BY <1>1, EatenIs
<1>3. Covered(v) /\ Clean(e)
  BY <1>2 DEF Kept
<1>4. /\ k.size = 3 /\ k.size \in 1 .. Len(r) /\ r[1] = "esc" /\ r[2] = "[" /\ r[3] = "200~"
      /\ g.remainder = SubSeq(r, 3 + 1, Len(r))
  BY <1>1 DEF EscKey, Taken
<1>5. 3 \in 0 .. Len(r) /\ Len(r) \in Nat
  BY <1>2, <1>4
<1>6. Len(g.pasteBuf) = 0 /\ g.pasteBuf = SubSeq(Pasted, 1, 0)
  BY <1>1, PastedIs DEF Lines
<1> DEFINE E == Eaten(g)
<1>7. E \in Seq(Bytes) /\ Len(E) = 3 /\ \A i \in 1 .. 3 : E[i] = PasteBytes[i]
  <2>1. Len(g.pasteBuf) \in 0 .. 3
    BY <1>6
  <2>2. /\ E \in Seq(Bytes) /\ Len(E) = 3 + Len(g.pasteBuf)
        /\ \A i \in 1 .. 3 + Len(g.pasteBuf) : E[i] = PasteBytes[i]
    BY <1>1, <2>1, EatenIs
  <2>3. 3 + Len(g.pasteBuf) = 3
    BY <1>6
  <2> HIDE DEF E
  <2> QED BY <2>2, <2>3
<1> HIDE DEF E
<1>8. E = SubSeq(r, 1, 3)
  <2> DEFINE s == SubSeq(r, 1, 3)
  <2>1. s \in Seq(Bytes) /\ Len(s) = 3 /\ s[1] = r[1] /\ s[2] = r[2] /\ s[3] = r[3]
    BY <1>2, <1>5
  <2> HIDE DEF s
  <2>2. \A i \in 1 .. 3 : E[i] = s[i]
    <3>1. E[1] = s[1] /\ E[2] = s[2] /\ E[3] = s[3]
      BY <1>4, <1>7, <2>1, MarkersAre
    <3>2. \A i \in 1 .. 3 : i = 1 \/ i = 2 \/ i = 3
      OBVIOUS
    <3> QED BY <3>1, <3>2
  <2>3. E = s
    BY <1>7, <2>1, <2>2, SeqEqual
  <2> QED BY <2>3 DEF s
<1>9. Before(g) = r
  BY <1>2, <1>4, <1>5, <1>8, WholeOfParts DEF Before, E
<1>10. PasteAt(v, 0)
  <2>1. /\ v \in Seq(Bytes) /\ Len(v) = Len(r) + Len(w)
        /\ \A i \in 1 .. Len(r) + Len(w) : v[i] = IF i <= Len(r) THEN r[i] ELSE w[i - Len(r)]
    BY <1>2, ConcatProperties
  <2> DEFINE R == Len(r)
             W == Len(w)
             V == Len(v)
  <2>2. R \in Nat /\ W \in Nat /\ 3 \in 0 .. R /\ V = R + W
    BY <1>5, <2>1
  <2> HIDE DEF R, W, V, v
  <2>3. 3 \in 1 .. R + W /\ 3 <= R /\ 3 \in 1 .. V
    BY <2>2
  <2>4. v[3] = "200~"
    BY <1>4, <2>1, <2>3 DEF R, W
  <2>5. PasteAt(v, 3 - Place(v[3]))
    <3>1. 3 \in 1 .. Len(v) /\ v[3] \in Special
      BY <2>3, <2>4 DEF V, Special
    <3> QED BY <1>3, <3>1 DEF Covered
  <2>6. Place(v[3]) = 3
    BY <2>4 DEF Place
  <2> QED BY <2>5, <2>6
<1> QED BY <1>1, <1>3, <1>6, <1>9, <1>10 DEF Kept, Begun

\* A byte of the paste, which is the next one of it.
LEMMA PasteGrowsKeepStream ==
    ASSUME NEW e, Sound(e), NEW w \in Seq(Bytes), Kept(e, w), NEW k, NEW g, Sound(g),
           PasteGrows(e, k, g)
    PROVE  Kept(g, w)
<1> DEFINE r == e.remainder
           L == Len(e.pasteBuf)
<1>1. /\ e.pasteActive /\ (PlainKey(r, k) \/ PasteEscKey(r, k))
      /\ g.pasteActive /\ (Clean(e) => Clean(g)) /\ Taken(r, k, g.remainder)
      /\ k.key # "LF" => g.pasteBuf = Append(e.pasteBuf, PasteRune(k.key))
  BY DEF PasteGrows
<1>2. /\ L \in 0 .. 3 /\ e.pasteBuf = SubSeq(Pasted, 1, L) /\ PasteAt(Before(e) \o w, 0)
      /\ Clean(e) /\ Covered(Before(e) \o w)
  BY <1>1 DEF Kept, Begun
<1>3. r \in Seq(Bytes) /\ Eaten(e) \in Seq(Bytes)
  BY <1>2, EatenIs
<1>4. k.size \in 1 .. Len(r) /\ Len(r) \in Nat
  BY <1>1, <1>3, SizeOfKey
<1>5. ASSUME NEW i \in 1 .. Len(r), 3 + L + i <= 9 PROVE r[i] = PasteBytes[3 + L + i]
  BY <1>1, <1>5, NextIs DEF Kept
<1> HIDE DEF L
<1>6. L # 3
  <2>1. SUFFICES ASSUME L = 3 PROVE FALSE
    OBVIOUS
  <2>2. r[1] = "esc"
    <3>1. 1 \in 1 .. Len(r) /\ 3 + L + 1 <= 9 /\ 3 + L + 1 = 7
      BY <1>4, <2>1
    <3> QED BY <1>5, <3>1, MarkersAre
  <2>3. PasteEscKey(r, k)
    BY <1>1, <2>2 DEF PlainKey
  <2>4. Len(r) > 1 /\ (Len(r) > 2 \/ r[2] # "[") /\ ~ Prefixed(r, pasteEnd)
    BY <2>3 DEF PasteEscKey
  <2>5. r[2] = "["
    <3>1. 2 \in 1 .. Len(r) /\ 3 + L + 2 <= 9 /\ 3 + L + 2 = 8
      BY <1>4, <2>1, <2>4
    <3> QED BY <1>5, <3>1, MarkersAre
  <2>6. r[3] = "201~" /\ 3 <= Len(r)
    <3>1. 3 \in 1 .. Len(r) /\ 3 + L + 3 <= 9 /\ 3 + L + 3 = 9
      BY <1>4, <2>1, <2>4, <2>5
    <3> QED BY <1>5, <3>1, MarkersAre
  <2>7. \A i \in 1 .. 3 : i = 1 \/ i = 2 \/ i = 3
    OBVIOUS
  <2>8. Prefixed(r, pasteEnd)
    BY <2>2, <2>5, <2>6, <2>7, MarkersAre DEF Prefixed
  <2> QED BY <2>4, <2>8
<1>7. L \in 0 .. 2
  BY <1>2, <1>6
<1>8. /\ r[1] = PasteBytes[4 + L] /\ r[1] \in {"p", "Enter", "q"}
      /\ PasteRune(r[1]) = Pasted[L + 1]
  <2>1. 1 \in 1 .. Len(r) /\ 3 + L + 1 <= 9 /\ 3 + L + 1 = 4 + L
    BY <1>4, <1>7
  <2>2. r[1] = PasteBytes[4 + L]
    BY <1>5, <2>1
  <2>3. CASE L = 0
    BY <2>2, <2>3, MarkersAre, PastedIs DEF PasteRune
  <2>4. CASE L = 1
    BY <2>2, <2>4, MarkersAre, PastedIs DEF PasteRune
  <2>5. CASE L = 2
    BY <2>2, <2>5, MarkersAre, PastedIs DEF PasteRune
  <2> QED BY <1>7, <2>2, <2>3, <2>4, <2>5
<1>9. PlainKey(r, k) /\ k.key = r[1] /\ k.size = 1
  BY <1>1, <1>8 DEF PlainKey, PasteEscKey
<1>10. g.remainder = SubSeq(r, 1 + 1, Len(r))
  <2>1. SUFFICES ASSUME k.key = "Enter", 2 <= Len(r), r[2] = "LF" PROVE FALSE
    BY <1>1, <1>9 DEF Taken
  <2>2. L = 1
    <3>1. PasteBytes[4 + L] = "Enter"
      BY <1>8, <1>9, <2>1
    <3>2. L = 0 \/ L = 1 \/ L = 2
      BY <1>7
    <3> QED BY <3>1, <3>2, MarkersAre
  <2>3. 2 \in 1 .. Len(r) /\ 3 + L + 2 <= 9 /\ 3 + L + 2 = 6
    BY <1>4, <2>1, <2>2
  <2>4. r[2] = PasteBytes[6]
    BY <1>5, <2>3
  <2> QED BY <2>1, <2>4, MarkersAre
<1>11. Len(g.pasteBuf) = L + 1 /\ g.pasteBuf = SubSeq(Pasted, 1, L + 1)
  <2> DEFINE s == SubSeq(Pasted, 1, L)
             t == SubSeq(Pasted, 1, L + 1)
  <2>1. Pasted \in Seq(Runes) /\ Len(Pasted) = 3
    BY PastedIs DEF Lines
  <2>0. \A i \in 0 .. 3 : SubSeq(Pasted, 1, i) \in Seq(Runes) /\ Len(SubSeq(Pasted, 1, i)) = i
    BY PastedParts
  <2>a. \A i \in 1 .. 3 : Pasted[i] \in Runes
    BY PastedParts
  <2>b. L + 1 \in 1 .. 3 /\ L + 1 \in 0 .. 3 /\ L \in 0 .. 3
    BY <1>7
  <2>2. s \in Seq(Runes) /\ t \in Seq(Runes) /\ Len(t) = L + 1
    <3> DEFINE n == L + 1
    <3>1. n \in 0 .. 3
      BY <2>b
    <3> HIDE DEF n
    <3>2. SubSeq(Pasted, 1, n) \in Seq(Runes) /\ Len(SubSeq(Pasted, 1, n)) = n
      BY <2>0, <3>1
    <3>3. SubSeq(Pasted, 1, L) \in Seq(Runes)
      BY <2>0, <2>b
    <3> QED BY <3>2, <3>3 DEF n
  <2>3. t = s \o <<Pasted[L + 1]>>
    <3> DEFINE n == L + 1
    <3>1. n \in 1 .. Len(Pasted) /\ 1 \in 1 .. Len(Pasted) /\ n - 1 = L
      BY <1>7, <2>1
    <3> HIDE DEF n
    <3>2. SubSeq(Pasted, 1, n) = SubSeq(Pasted, 1, n - 1) \o <<Pasted[n]>>
      BY <2>1, <3>1, SubSeqRecursiveSecond
    <3> QED BY <3>1, <3>2 DEF n
  <2>4. Pasted[L + 1] \in Runes
    <3> DEFINE n == L + 1
    <3>1. n \in 1 .. 3
      BY <2>b
    <3> HIDE DEF n
    <3>2. Pasted[n] \in Runes
      BY <2>a, <3>1
    <3> QED BY <3>2 DEF n
  <2>5. Append(s, Pasted[L + 1]) = t
    BY <2>2, <2>3, <2>4, AppendIsConcat
  <2>6. g.pasteBuf = Append(s, Pasted[L + 1])
    BY <1>1, <1>2, <1>8, <1>9
  <2> QED BY <2>2, <2>5, <2>6
<1>12. Before(g) = Before(e)
  <2> DEFINE E == SubSeq(PasteBytes, 1, 3 + L)
             F == SubSeq(PasteBytes, 1, 3 + (L + 1))
             o == <<r[1]>>
             q == SubSeq(r, 1 + 1, Len(r))
  <2>1. Eaten(e) = E /\ Eaten(g) = F
    BY <1>1, <1>11 DEF Eaten, L
  <2>2. PasteBytes \in Seq(Bytes) /\ Len(PasteBytes) = 9
    BY MarkersAre
  <2>3. F = E \o o
    <3> DEFINE n == 3 + (L + 1)
    <3>1. n \in 1 .. Len(PasteBytes) /\ 1 \in 1 .. Len(PasteBytes) /\ n - 1 = 3 + L /\ n = 4 + L
      BY <1>7, <2>2
    <3> HIDE DEF n
    <3>2. SubSeq(PasteBytes, 1, n) = SubSeq(PasteBytes, 1, n - 1) \o <<PasteBytes[n]>>
      BY <2>2, <3>1, SubSeqRecursiveSecond
    <3> QED BY <1>8, <3>1, <3>2 DEF n
  <2>4. r = o \o q
    <3>1. 1 \in 1 .. Len(r) /\ Len(r) \in 1 .. Len(r)
      BY <1>4
    <3>2. SubSeq(r, 1, Len(r)) = <<r[1]>> \o SubSeq(r, 1 + 1, Len(r))
      BY <1>3, <3>1, SubSeqRecursiveFirst
    <3> QED BY <1>3, <3>2, SubSeqFull
  <2>5. E \in Seq(Bytes) /\ o \in Seq(Bytes) /\ q \in Seq(Bytes)
    <3>1. E \in Seq(Bytes)
      BY <1>3, <2>1
    <3>2. r[1] \in Bytes
      BY <1>3, <1>4
    <3>3. q \in Seq(Bytes)
      BY <1>3, <1>4
    <3> QED BY <3>1, <3>2, <3>3
  <2>6. (E \o o) \o q = E \o (o \o q)
    <3> HIDE DEF E, o, q
    <3> QED BY <2>5, ConcatAssociative
  <2>7. Before(e) = E \o r /\ Before(g) = F \o q
    BY <1>10, <2>1 DEF Before
  <2> HIDE DEF E, F, o, q
  <2> QED BY <2>3, <2>4, <2>6, <2>7
<1>13. Len(g.pasteBuf) \in 0 .. 3
  BY <1>7, <1>11
<1> QED BY <1>1, <1>2, <1>11, <1>12, <1>13 DEF Kept, Begun

\* The end of the paste: all of it was collected.
LEMMA PasteEndsKeepStream ==
    ASSUME NEW e, Sound(e), NEW w \in Seq(Bytes), Kept(e, w), NEW k, NEW g, Sound(g),
           PasteEnds(e, k, g)
    PROVE  Kept(g, w)
<1> DEFINE r == e.remainder
           L == Len(e.pasteBuf)
           E == Eaten(e)
           b == E \o r
           v == b \o w
<1>1. /\ e.pasteActive /\ PasteEndKey(r, k) /\ ~ g.pasteActive /\ Taken(r, k, g.remainder)
      /\ Clean(e) /\ e.pasteBuf = Pasted => Clean(g)
  BY DEF PasteEnds
<1>2. /\ L \in 0 .. 3 /\ e.pasteBuf = SubSeq(Pasted, 1, L) /\ PasteAt(v, 0)
      /\ Clean(e) /\ Covered(v)
  BY <1>1 DEF Kept, Begun, Before
<1>3. r \in Seq(Bytes) /\ E \in Seq(Bytes) /\ Len(E) = 3 + L /\ Before(g) = g.remainder
  BY <1>1, <1>2, EatenIs
<1>4. /\ k.size = 3 /\ 3 <= Len(r) /\ r[1] = "esc" /\ Len(r) \in Nat
      /\ g.remainder = SubSeq(r, 3 + 1, Len(r))
  BY <1>1, <1>3, MarkersAre DEF PasteEndKey, Prefixed, Taken
<1>5. L = 3
  <2>1. SUFFICES ASSUME L # 3 PROVE FALSE
    OBVIOUS
  <2> HIDE DEF L
  <2>2. L = 0 \/ L = 1 \/ L = 2
    BY <1>2, <2>1
  <2>3. 1 \in 1 .. Len(r) /\ 3 + L + 1 <= 9 /\ 3 + L + 1 = 4 + L
    BY <1>4, <2>2
  <2>4. r[1] = PasteBytes[3 + L + 1]
    BY <1>1, <2>3, NextIs DEF Kept, L
  <2>5. PasteBytes[4 + L] \in {"p", "Enter", "q"}
    BY <2>2, MarkersAre
  <2> QED BY <1>4, <2>3, <2>4, <2>5
<1>6. e.pasteBuf = Pasted
  <2>1. Pasted \in Seq(Runes) /\ Len(Pasted) = 3
    BY PastedIs DEF Lines
  <2>2. SubSeq(Pasted, 1, Len(Pasted)) = Pasted
    BY <2>1, SubSeqFull
  <2> QED BY <1>2, <1>5, <2>1, <2>2
<1>7. b \in Seq(Bytes) /\ Len(b) = 6 + Len(r) /\ v \in Seq(Bytes)
  <2>1. Len(E) = 6
    BY <1>3, <1>5
  <2> HIDE DEF E, r
  <2>2. b \in Seq(Bytes) /\ Len(b) = Len(E) + Len(r)
    BY <1>3, ConcatProperties
  <2>3. v \in Seq(Bytes)
    BY <2>2, ConcatProperties
  <2> HIDE DEF b, v
  <2> QED BY <2>1, <2>2, <2>3
<1>8. Covered(SubSeq(v, 9 + 1, Len(v)))
  <2> HIDE DEF v
  <2>1. 9 \in 0 .. Len(v)
    <3>1. 9 <= Len(v) /\ Len(v) \in Nat
      BY <1>2, <1>7 DEF PasteAt
    <3> QED BY <3>1
  <2>2. ASSUME NEW a \in 0 .. 9 - 1, PasteAt(v, a) PROVE a + 9 <= 9
    <3>1. CASE a = 0
      BY <3>1
    <3>2. CASE a # 0
      <4>1. a \in Nat /\ 0 \in Nat /\ 0 < a
        BY <3>2
      <4>2. 0 + 9 <= a
        BY <1>2, <1>7, <2>2, <4>1, PastesAreApart
      <4> QED BY <4>2
    <3> QED BY <3>1, <3>2
  <2> QED BY <1>2, <1>7, <2>1, <2>2, DropIsCovered
<1>9. SubSeq(v, 9 + 1, Len(v)) = g.remainder \o w
  <2>1. SubSeq(b, 9 + 1, Len(b)) = g.remainder
    <3>1. 3 \in 0 .. Len(r) /\ Len(E) = 6
      BY <1>3, <1>4, <1>5
    <3> HIDE DEF E, r
    <3>2. SubSeq(E \o r, Len(E) + 3 + 1, Len(E \o r)) = SubSeq(r, 3 + 1, Len(r))
      BY <1>3, <3>1, DropFirst
    <3>3. Len(E) + 3 + 1 = 9 + 1
      BY <3>1
    <3> QED BY <1>4, <3>2, <3>3
  <2> HIDE DEF b
  <2>2. 9 \in 0 .. Len(b)
    BY <1>4, <1>7
  <2>3. SubSeq(b, 9 + 1, Len(b)) \o w = SubSeq(b \o w, 9 + 1, Len(b \o w))
    BY <1>7, <2>2, DropOfJoin
  <2> QED BY <2>1, <2>3
<1>10. Clean(g) /\ Covered(g.remainder \o w)
  BY <1>1, <1>2, <1>6, <1>8, <1>9
<1> QED BY <1>1, <1>3, <1>10 DEF Kept, Begun

-------------------------------------------------------------------------------
(* The stream: what the editor has, what was pushed back, what is collected of an *)
(* escape sequence, what is to come.                                             *)
Held(m) == CASE m = "grace" -> <<"esc">> [] m = "sequence" -> <<"esc", "[">> [] OTHER -> <<>>

StreamIsKept ==
    /\ mode = "sequence" => acc = <<"esc", "[">>
    /\ ~ bitten => /\ Clean(ed)
                   /\ mode # "ended" => Kept(ed, pending \o (Held(mode) \o input))

LEMMA HeldIs ==
    ASSUME NEW m, NEW s \in Seq(Bytes)
    PROVE  /\ Held(m) \in Seq(Bytes) /\ Held(m) \o s \in Seq(Bytes)
           /\ m = "grace" => Held(m) = <<"esc">>
           /\ m = "sequence" => Held(m) = <<"esc", "[">>
           /\ m \notin {"grace", "sequence"} => Held(m) = <<>> /\ Held(m) \o s = s
<1>1. "esc" \in Bytes /\ "[" \in Bytes
  BY DEF Bytes, Text
<1>2. <<"esc">> \in Seq(Bytes) /\ <<"esc", "[">> \in Seq(Bytes) /\ <<>> \in Seq(Bytes)
  BY <1>1
<1>3. /\ m = "grace" => Held(m) = <<"esc">>
      /\ m = "sequence" => Held(m) = <<"esc", "[">>
      /\ m \notin {"grace", "sequence"} => Held(m) = <<>>
  BY DEF Held
<1>4. Held(m) \in Seq(Bytes)
  BY <1>2, <1>3
<1>5. Held(m) \o s \in Seq(Bytes)
  BY <1>4, ConcatProperties
<1>6. <<>> \o s = s
  BY ConcatEmptySeq
<1> QED BY <1>3, <1>4, <1>5, <1>6

LEMMA HeadIsFirst ==
    ASSUME NEW s \in Seq(Bytes), s # <<>>
    PROVE  /\ Head(s) \in Bytes /\ Tail(s) \in Seq(Bytes) /\ <<Head(s)>> \in Seq(Bytes)
           /\ s = <<Head(s)>> \o Tail(s)
<1>1. Head(s) \in Bytes /\ Tail(s) \in Seq(Bytes)
  BY TakeIs
<1>2. 1 \in 1 .. Len(s) /\ Len(s) \in 1 .. Len(s) /\ Head(s) = s[1] /\ Tail(s) = SubSeq(s, 2, Len(s))
  OBVIOUS
<1>3. SubSeq(s, 1, Len(s)) = <<s[1]>> \o SubSeq(s, 1 + 1, Len(s))
  BY <1>2, SubSeqRecursiveFirst
<1>4. s = <<s[1]>> \o SubSeq(s, 2, Len(s))
  BY <1>3, SubSeqFull
<1>5. <<Head(s)>> \in Seq(Bytes)
  BY <1>1
<1> QED BY <1>1, <1>2, <1>4, <1>5

\* What the editor has taken and has left.
LEMMA BeforeIs ==
    ASSUME NEW e, Sound(e), NEW w, Kept(e, w)
    PROVE  /\ Eaten(e) \in Seq(Bytes) /\ e.remainder \in Seq(Bytes) /\ Before(e) \in Seq(Bytes)
           /\ ~ e.pasteActive => Eaten(e) = <<>> /\ Before(e) = e.remainder
  BY EatenIs DEF Kept, Begun

\* Nothing that the stream depends on changes.
LEMMA SameKept ==
    ASSUME NEW e, Sound(e), NEW w \in Seq(Bytes), Kept(e, w), NEW g, Goes(e, g), Clean(g)
    PROVE  Kept(g, w)
<1>1. Eaten(g) = Eaten(e) /\ Before(g) = Before(e)
  BY DEF Goes, Eaten, Before
<1> QED BY <1>1 DEF Kept, Begun, Goes

\* More is typed.
LEMMA MoreKept ==
    ASSUME NEW e, Sound(e), NEW w \in Seq(Bytes), Kept(e, w), NEW u \in Seq(Bytes), Covered(u)
    PROVE  Kept(e, w \o u)
<1> DEFINE b == Before(e)
           v == b \o w
<1>1. b \in Seq(Bytes) /\ v \in Seq(Bytes)
  BY BeforeIs, ConcatProperties
<1>2. Clean(e) /\ Covered(v) /\ Begun(e, v)
  BY DEF Kept
<1>3. v \o u = b \o (w \o u)
  BY <1>1, ConcatAssociative
<1> HIDE DEF v, b
<1>4. Covered(v \o u) /\ \A i \in Nat : PasteAt(v, i) => PasteAt(v \o u, i)
  BY <1>1, <1>2, JoinIsCovered
<1>5. Begun(e, v \o u)
  BY <1>2, <1>4 DEF Begun
<1>6. Covered(b \o (w \o u)) /\ Begun(e, b \o (w \o u))
  BY <1>3, <1>4, <1>5
<1> QED BY <1>2, <1>6 DEF Kept, b

\* The editor reads.
LEMMA ReadKept ==
    ASSUME NEW e, Sound(e), NEW x \in Seq(Bytes), NEW w \in Seq(Bytes), Kept(e, x \o w),
           NEW f, f = [e EXCEPT !.remainder = e.remainder \o x]
    PROVE  Kept(f, w)
<1> DEFINE r == e.remainder
           E == Eaten(e)
           q == r \o x
<1>1. E \in Seq(Bytes) /\ r \in Seq(Bytes)
  BY BeforeIs
<1>2. q \in Seq(Bytes)
  BY <1>1, ConcatProperties
<1>3. f = [e EXCEPT !.remainder = q]
  OBVIOUS
<1>4. /\ f.remainder = q /\ f.pasteActive = e.pasteActive /\ f.pasteBuf = e.pasteBuf
      /\ Clean(e) => Clean(f)
  <2> HIDE DEF q
  <2>1. LET y == [e EXCEPT !.remainder = q] IN
        /\ Clean(e) => Clean(y)
        /\ y.remainder = q /\ y.pasteActive = e.pasteActive /\ y.pasteBuf = e.pasteBuf
    BY <1>2, RemainderChanges
  <2> QED BY <1>3, <2>1
<1>5. Before(e) = E \o r /\ Before(f) = E \o q
  <2>1. Eaten(f) = Eaten(e)
    BY <1>4 DEF Eaten
  <2> HIDE DEF q
  <2> QED BY <1>4, <2>1 DEF Before
<1> HIDE DEF r, E
<1>6. (E \o (r \o x)) \o w = (E \o r) \o (x \o w)
  <2>1. E \o (r \o x) = (E \o r) \o x /\ E \o r \in Seq(Bytes)
    BY <1>1, ConcatAssociative, ConcatProperties
  <2> DEFINE a == E \o r
  <2> HIDE DEF a
  <2>2. (a \o x) \o w = a \o (x \o w)
    BY <2>1, ConcatAssociative DEF a
  <2> QED BY <2>1, <2>2 DEF a
<1>7. Before(f) \o w = Before(e) \o (x \o w)
  BY <1>5, <1>6
<1> QED BY <1>4, <1>7 DEF Kept, Begun

LEMMA Regroup ==
    \A b, p, u \in Seq(Bytes) : b \o (p \o u) = (b \o p) \o u
  BY ConcatAssociative

\* A byte of no paste is taken.
LEMMA RemoveKept ==
    ASSUME NEW e, Sound(e), ~ e.pasteActive, NEW p \in Seq(Bytes), NEW t \in Seq(Bytes),
           NEW c \in Bytes, Kept(e, p \o (<<c>> \o t)),
           \A j \in 1 .. 9 : PasteBytes[j] = c =>
               j < 9 /\ (t # <<>> => t[1] # PasteBytes[j + 1])
    PROVE  Kept(e, p \o t)
<1> DEFINE b == Before(e)
           o == <<c>>
           s == b \o p
           u == o \o t
<1>1. b \in Seq(Bytes) /\ o \in Seq(Bytes)
  BY BeforeIs
<1>2. s \in Seq(Bytes) /\ u \in Seq(Bytes)
  <2> HIDE DEF o, b
  <2> QED BY <1>1, ConcatProperties
<1>3. Clean(e) /\ Covered(b \o (p \o u))
  BY DEF Kept
<1>4. b \o (p \o u) = s \o u /\ b \o (p \o t) = s \o t
  <2>0. b \in Seq(Bytes) /\ u \in Seq(Bytes)
    BY <1>1, <1>2
  <2> HIDE DEF b, u
  <2>1. b \o (p \o u) = (b \o p) \o u
    BY <2>0, Regroup
  <2>2. b \o (p \o t) = (b \o p) \o t
    BY <2>0, Regroup
  <2> QED BY <2>1, <2>2
<1>5. Covered(s \o (<<c>> \o t))
  BY <1>3, <1>4
<1> HIDE DEF s, o, b
<1>6. Covered(s \o t)
  BY <1>2, <1>5, RemoveIsCovered
<1>7. Covered(b \o (p \o t))
  BY <1>4, <1>6
<1> QED BY <1>3, <1>7 DEF Kept, Begun, b

\* There is no paste at all.
LEMMA FreeKept ==
    ASSUME NEW e, Sound(e), ~ e.pasteActive, Clean(e), Free(e.remainder),
           NEW w \in Seq(Bytes), Free(w)
    PROVE  Kept(e, w)
<1>1. e.remainder \in Seq(Bytes) /\ Before(e) = e.remainder
  BY EatenIs
<1>2. Free(e.remainder \o w)
  BY <1>1, FreeJoin
<1> QED BY <1>1, <1>2, FreeIsCovered DEF Kept, Begun

-------------------------------------------------------------------------------
(* The steps that the editor takes.                                        *)
Coming == pending \o (Held(mode) \o input)

LEMMA ComingIs ==
    ASSUME EditorIsSound
    PROVE  /\ Held(mode) \o input \in Seq(Bytes) /\ Coming \in Seq(Bytes)
           /\ mode \notin {"grace", "sequence"} => Coming = pending \o input
<1>1. input \in Seq(Bytes) /\ pending \in Seq(Bytes)
  BY DEF EditorIsSound, Bytewise
<1>2. /\ Held(mode) \o input \in Seq(Bytes)
      /\ mode \notin {"grace", "sequence"} => Held(mode) \o input = input
  BY <1>1, HeldIs
<1> DEFINE h == Held(mode) \o input
<1> HIDE DEF h
<1>3. pending \o h \in Seq(Bytes)
  BY <1>1, <1>2, ConcatProperties DEF h
<1> QED BY <1>2, <1>3 DEF Coming, h

\* The same bytes are still to come to the same editor.
LEMMA SameStream ==
    ASSUME StreamIsKept, UNCHANGED <<ed, bitten>>, Coming' = Coming, mode # "ended",
           mode' = "sequence" => acc' = <<"esc", "[">>
    PROVE  StreamIsKept'
  BY DEF StreamIsKept, Coming

LEMMA InitStream == ASSUME Init PROVE StreamIsKept
<1>1. /\ Sound(ed) /\ Clean(ed) /\ ~ ed.pasteActive /\ ed.remainder = <<>>
  BY NewTerminalIs DEF Init
<1>2. mode = "prompt" /\ pending = <<>> /\ input = <<>>
  BY DEF Init
<1>3. <<>> \in Seq(Bytes)
  OBVIOUS
<1>4. pending \o (Held(mode) \o input) = <<>>
  BY <1>2, <1>3, HeldIs, ConcatEmptySeq
<1>5. Kept(ed, <<>>)
  BY <1>1, <1>3, NothingIsFree, FreeKept
<1> QED BY <1>1, <1>2, <1>4, <1>5 DEF StreamIsKept

\* More is typed, behind everything.
LEMMA TypeKeepsStream == ASSUME EditorIsSound, StreamIsKept, Type PROVE StreamIsKept'
<1>1. PICK k \in Keys : input' = input \o Unit(k)
  BY DEF Type
<1>2. UNCHANGED <<pending, ed, mode, acc, bitten>> /\ mode # "ended"
  BY DEF Type
<1> DEFINE u == Unit(k)
           h == Held(mode)
<1>3. u \in Seq(Bytes) /\ Covered(u)
  BY UnitIsBytes, UnitIsCovered
<1>4. /\ input \in Seq(Bytes) /\ pending \in Seq(Bytes) /\ h \in Seq(Bytes)
      /\ Coming \in Seq(Bytes) /\ h \o input \in Seq(Bytes) /\ Sound(ed)
  BY HeldIs, ComingIs DEF EditorIsSound, Bytewise
<1>5. Coming' = pending \o (h \o (input \o u))
  BY <1>1, <1>2 DEF Coming
<1> HIDE DEF u, h
<1>6. h \o (input \o u) = (h \o input) \o u
  BY <1>3, <1>4, Regroup
<1>7. pending \o ((h \o input) \o u) = (pending \o (h \o input)) \o u
  <2> DEFINE i == h \o input
  <2>1. i \in Seq(Bytes)
    BY <1>4
  <2> HIDE DEF i
  <2>2. pending \o (i \o u) = (pending \o i) \o u
    <3>1. pending \in Seq(Bytes) /\ u \in Seq(Bytes)
      BY <1>3, <1>4
    <3> QED BY <2>1, <3>1, Regroup
  <2> QED BY <2>2 DEF i
<1>8. Coming' = Coming \o u
  BY <1>5, <1>6, <1>7 DEF Coming, h
<1>9. ASSUME ~ bitten PROVE Clean(ed) /\ Kept(ed, Coming \o u)
  <2>1. Clean(ed) /\ Kept(ed, Coming)
    BY <1>2, <1>9 DEF StreamIsKept, Coming
  <2> QED BY <1>3, <1>4, <2>1, MoreKept
<1> QED BY <1>2, <1>8, <1>9 DEF StreamIsKept, Coming

\* The editor takes what was pushed back, or what has come.
LEMMA EditorReadKeepsStream ==
    ASSUME EditorIsSound, StreamIsKept, EditorRead PROVE StreamIsKept'
<1>1. mode = "prompt" /\ UNCHANGED <<mode, acc, bitten>>
  BY DEF EditorRead
<1>2. input \in Seq(Bytes) /\ pending \in Seq(Bytes) /\ Sound(ed)
  BY DEF EditorIsSound, Bytewise
<1>3. PICK x \in Seq(Bytes), w \in Seq(Bytes) :
          /\ ed' = [ed EXCEPT !.remainder = ed.remainder \o x]
          /\ pending \o input = x \o w /\ pending' \o input' = w
  <2>1. <<>> \in Seq(Bytes) /\ <<>> \o input = input /\ \A s \in Seq(Bytes) : <<>> \o s = s
    BY <1>2, ConcatEmptySeq
  <2>2. CASE pending # <<>>
    <3>1. /\ ed' = [ed EXCEPT !.remainder = ed.remainder \o pending]
          /\ pending' = <<>> /\ input' = input
      BY <2>2 DEF EditorRead
    <3> QED BY <1>2, <2>1, <3>1
  <2>3. CASE pending = <<>>
    <3>1. PICK n \in 1 .. Len(input) :
              /\ ed' = [ed EXCEPT !.remainder = ed.remainder \o SubSeq(input, 1, n)]
              /\ input' = SubSeq(input, n + 1, Len(input)) /\ pending' = pending
      BY <2>3 DEF EditorRead
    <3> DEFINE a == SubSeq(input, 1, n)
               b == SubSeq(input, n + 1, Len(input))
    <3>2. a \in Seq(Bytes) /\ b \in Seq(Bytes)
      BY <1>2
    <3>3. input = a \o b
      <4>1. n \in 0 .. Len(input)
        BY <1>2
      <4> QED BY <1>2, <4>1, WholeOfParts
    <3> HIDE DEF a, b
    <3>4. pending \o input = a \o b /\ pending' \o input' = b
      BY <2>1, <2>3, <3>1, <3>2, <3>3 DEF b
    <3> QED BY <3>1, <3>2, <3>4 DEF a
  <2> QED BY <2>2, <2>3
<1>4. Coming = x \o w
  BY <1>1, <1>3, ComingIs
<1>5. Coming' = w
  <2>1. EditorIsSound'
    BY EditorReadKeepsEditor
  <2>2. input' \in Seq(Bytes) /\ mode' \notin {"grace", "sequence"}
    BY <1>1, <2>1 DEF EditorIsSound, Bytewise
  <2>3. Held(mode') \o input' = input'
    BY <2>2, HeldIs
  <2> QED BY <1>3, <2>3 DEF Coming
<1>6. ASSUME ~ bitten PROVE Clean(ed') /\ Kept(ed', w)
  <2>1. Kept(ed, x \o w)
    BY <1>1, <1>4, <1>6 DEF StreamIsKept, Coming
  <2> DEFINE f == ed'
  <2>2. f = [ed EXCEPT !.remainder = ed.remainder \o x]
    BY <1>3
  <2> HIDE DEF f
  <2>3. Kept(f, w)
    BY <1>2, <2>1, <2>2, ReadKept
  <2> QED BY <2>3 DEF Kept, f
<1> QED BY <1>1, <1>5, <1>6 DEF StreamIsKept, Coming

\* One key of readLine.
LEMMA EditorKeyKeepsStream ==
    ASSUME EditorIsSound, StreamIsKept, EditorKey PROVE StreamIsKept'
<1> DEFINE e == readKey(ed)
           k == bytesToKey(ed.remainder, ed.pasteActive)
           g == [e EXCEPT !.result = "none"]
           unknown == k.key = "Unknown" /\ ed.remainder[k.size] \in {"200~", "201~"}
<1>1. /\ k.key # "incomplete" /\ UNCHANGED <<input, pending, acc>> /\ mode = "prompt"
      /\ ed' = g
      /\ ~ bitten' => ~ bitten /\ ~ unknown
      /\ mode' \in {"prompt", "ended", "turn"}
      /\ e.result = "eof" => mode' = "ended"
  BY DEF EditorKey, Parsed
<1>2. /\ Sound(e)
      /\ \/ Leaves(ed, e) \/ PasteEnds(ed, k, e) \/ PasteGrows(ed, k, e)
         \/ PasteStarts(ed, k, e) \/ Edits(ed, k, e)
  BY <1>1, readKeyIs DEF EditorIsSound
<1>3. Sound(ed) /\ Coming \in Seq(Bytes) /\ Coming = pending \o input
  BY <1>1, ComingIs DEF EditorIsSound
<1>4. Coming' = Coming
  <2>1. Held(mode') = <<>> /\ Held(mode) = <<>>
    BY <1>1 DEF Held
  <2> QED BY <1>1, <2>1 DEF Coming
<1> HIDE DEF e, k
<1>5. Goes(e, g) /\ (Clean(e) => Clean(g))
  BY <1>2, ResultChanges DEF Becomes
<1>6. ASSUME ~ bitten' PROVE Clean(g) /\ (mode' # "ended" => Kept(g, Coming))
  <2>1. Clean(ed) /\ Kept(ed, Coming)
    BY <1>1, <1>6 DEF StreamIsKept, Coming
  <2>2. CASE Leaves(ed, e)
    BY <1>1, <1>5, <2>1, <2>2 DEF Leaves
  <2>3. CASE ~ Leaves(ed, e)
    <3>1. ~ unknown
      BY <1>1, <1>6
    <3>2. Kept(e, Coming)
      <4> DEFINE d == ed
                 w == Coming
      <4> HIDE DEF d, w
      <4>1. Sound(d) /\ w \in Seq(Bytes) /\ Kept(d, w) /\ Sound(e)
        BY <1>2, <1>3, <2>1 DEF d, w
      <4>2. CASE PasteEnds(d, k, e)
        BY <4>1, <4>2, PasteEndsKeepStream DEF w
      <4>3. CASE PasteGrows(d, k, e)
        BY <4>1, <4>3, PasteGrowsKeepStream DEF w
      <4>4. CASE PasteStarts(d, k, e)
        BY <4>1, <4>4, PasteStartsKeepStream DEF w
      <4>5. CASE Edits(d, k, e)
        BY <3>1, <4>1, <4>5, EditsKeepStream DEF w, d
      <4> QED BY <1>2, <2>3, <4>2, <4>3, <4>4, <4>5 DEF d
    <3>3. Clean(g)
      BY <1>5, <3>2 DEF Kept
    <3> HIDE DEF g
    <3> QED BY <1>2, <1>3, <1>5, <3>2, <3>3, SameKept
  <2> QED BY <2>2, <2>3
<1> HIDE DEF g
<1> QED BY <1>1, <1>4, <1>6 DEF StreamIsKept, Coming

-------------------------------------------------------------------------------
(* The steps of a turn.                                                    *)
LEMMA PushIs ==
    ASSUME NEW p \in Seq(Bytes), NEW s \in Seq(Bytes), s # <<>>
    PROVE  Append(p, Head(s)) \o Tail(s) = p \o s
<1> DEFINE c == Head(s)
           o == <<c>>
           t == Tail(s)
<1>1. c \in Bytes /\ t \in Seq(Bytes) /\ o \in Seq(Bytes) /\ s = o \o t
  BY HeadIsFirst
<1> HIDE DEF c, t
<1>2. Append(p, c) = p \o o
  BY <1>1, AppendIsConcat
<1> HIDE DEF o
<1>3. p \o (o \o t) = (p \o o) \o t
  BY <1>1, Regroup
<1> QED BY <1>1, <1>2, <1>3 DEF c, t

\* A byte that the REPL takes and that is of no paste.
LEMMA TakenOutside ==
    ASSUME EditorIsSound, StreamIsKept, ~ ed.pasteActive, UNCHANGED <<ed, bitten>>,
           mode # "ended", mode' # "sequence",
           NEW c \in Bytes, NEW t \in Seq(Bytes),
           Coming = pending \o (<<c>> \o t), Coming' = pending \o t,
           \A j \in 1 .. 9 : PasteBytes[j] = c =>
               j < 9 /\ (t # <<>> => t[1] # PasteBytes[j + 1])
    PROVE  StreamIsKept'
<1>1. ASSUME ~ bitten PROVE Clean(ed) /\ Kept(ed, pending \o t)
  <2>1. Clean(ed) /\ Kept(ed, pending \o (<<c>> \o t))
    BY <1>1 DEF StreamIsKept, Coming
  <2>2. pending \in Seq(Bytes) /\ Sound(ed)
    BY DEF EditorIsSound, Bytewise
  <2> QED BY <2>1, <2>2, RemoveKept
<1> QED BY <1>1 DEF StreamIsKept, Coming

\* A key of a turn: put back, or an ESC or Ctrl-C, which are of no paste by themselves.
LEMMA handleTurnKeyKeepsStream ==
    ASSUME EditorIsSound, StreamIsKept, handleTurnKey PROVE StreamIsKept'
<1> DEFINE c == Head(input)
           t == Tail(input)
<1>1. /\ mode \in {"turn", "key"} /\ input # <<>> /\ input' = t
      /\ UNCHANGED <<ed, acc, bitten>> /\ ~ ed.pasteActive
  BY DEF handleTurnKey, EditorIsSound, InTurn
<1>2. input \in Seq(Bytes) /\ pending \in Seq(Bytes)
  BY DEF EditorIsSound, Bytewise
<1>3. c \in Bytes /\ t \in Seq(Bytes) /\ input = <<c>> \o t
  BY <1>1, <1>2, HeadIsFirst
<1>4. Coming = pending \o input
  BY <1>1, ComingIs
<1>5. Append(pending, c) \o t = pending \o input
  BY <1>1, <1>2, PushIs
<1>6. mode' \in {"grace", "turn"}
  BY DEF handleTurnKey
<1>7. CASE c = "esc"
  <2>1. mode' = "grace" /\ pending' = pending
    BY <1>7 DEF handleTurnKey
  <2> HIDE DEF c, t
  <2>2. Held(mode') = <<c>>
    BY <1>7, <2>1 DEF Held
  <2>3. Coming' = Coming
    BY <1>1, <1>3, <1>4, <2>1, <2>2 DEF Coming
  <2> QED BY <1>1, <1>6, <2>3, SameStream
<1>8. CASE c = "^C"
  <2>1. mode' = "turn" /\ pending' = pending
    BY <1>8 DEF handleTurnKey
  <2> HIDE DEF c, t
  <2>2. Held(mode') \o t = t
    BY <1>3, <2>1, HeldIs
  <2>3. Coming' = pending \o t /\ Coming = pending \o (<<c>> \o t)
    BY <1>1, <1>3, <1>4, <2>1, <2>2 DEF Coming
  <2>4. \A j \in 1 .. 9 : PasteBytes[j] # c
    <3>1. TAKE j \in 1 .. 9
    <3>2. j \in {1, 2, 3, 4, 5, 6, 7, 8, 9}
      OBVIOUS
    <3> QED BY <1>8, <3>2, MarkersAre
  <2> QED BY <1>1, <1>3, <1>6, <2>3, <2>4, TakenOutside
<1>9. CASE c \notin {"esc", "^C"}
  <2>1. mode' = "turn" /\ pending' = Append(pending, c)
    BY <1>9 DEF handleTurnKey
  <2> HIDE DEF c, t
  <2>2. Held(mode') \o t = t
    BY <1>3, <2>1, HeldIs
  <2>3. Coming' = Coming
    BY <1>1, <1>4, <1>5, <2>1, <2>2 DEF Coming
  <2> QED BY <1>1, <1>6, <2>3, SameStream
<1> QED BY <1>7, <1>8, <1>9

LEMMA TwoIs == ASSUME NEW c \in Bytes, NEW d \in Bytes PROVE <<c>> \o <<d>> = <<c, d>>
<1> DEFINE s == <<c>>
           t == <<d>>
           v == <<c, d>>
           w == s \o t
<1>1. /\ s \in Seq(Bytes) /\ Len(s) = 1 /\ s[1] = c
      /\ t \in Seq(Bytes) /\ Len(t) = 1 /\ t[1] = d
      /\ v \in Seq(Bytes) /\ Len(v) = 2 /\ v[1] = c /\ v[2] = d
  OBVIOUS
<1> HIDE DEF s, t, v
<1>2. /\ w \in Seq(Bytes) /\ Len(w) = Len(s) + Len(t)
      /\ \A i \in 1 .. Len(s) + Len(t) : w[i] = IF i <= Len(s) THEN s[i] ELSE t[i - Len(s)]
  BY <1>1, ConcatProperties
<1> HIDE DEF w
<1>3. Len(w) = 2 /\ w[1] = c /\ w[2] = d
  BY <1>1, <1>2
<1>4. \A i \in 1 .. 2 : w[i] = v[i]
  <2>1. \A i \in 1 .. 2 : i = 1 \/ i = 2
    OBVIOUS
  <2> QED BY <1>1, <1>3, <2>1
<1>5. w = v
  BY <1>1, <1>2, <1>3, <1>4, SeqEqual
<1> QED BY <1>5 DEF s, t, v, w

\* Behind an ESC: an introducer, or the ESC was a key.
LEMMA readPumpByteKeepsStream ==
    ASSUME EditorIsSound, StreamIsKept, readPumpByte PROVE StreamIsKept'
<1>1. mode = "grace" /\ UNCHANGED <<ed, bitten>> /\ ~ ed.pasteActive
  BY DEF readPumpByte, EditorIsSound, InTurn
<1>2. input \in Seq(Bytes) /\ pending \in Seq(Bytes)
  BY DEF EditorIsSound, Bytewise
<1>3. "esc" \in Bytes /\ "[" \in Bytes
  BY DEF Bytes, Text
<1> DEFINE c == "esc"
           o == <<c>>
<1>4. o \in Seq(Bytes) /\ c \in Bytes /\ c = "esc"
  BY <1>3
<1>5. Coming = pending \o (o \o input)
  BY <1>1 DEF Coming, Held
<1>6. CASE input # <<>> /\ Head(input) = "["
  <2>1. mode' = "sequence" /\ acc' = <<"esc", "[">> /\ input' = Tail(input) /\ pending' = pending
    BY <1>6 DEF readPumpByte
  <2> DEFINE d == Head(input)
             t == Tail(input)
             a == <<d>>
  <2>2. d \in Bytes /\ t \in Seq(Bytes) /\ a \in Seq(Bytes) /\ input = a \o t
    BY <1>2, <1>6, HeadIsFirst
  <2>3. Held(mode') = o \o a
    <3>1. Held(mode') = <<"esc", "[">> /\ d = "["
      BY <1>6, <2>1 DEF Held
    <3>2. o \o a = <<c, d>>
      <4> HIDE DEF c, d
      <4> QED BY <1>4, <2>2, TwoIs
    <3> HIDE DEF d
    <3> QED BY <3>1, <3>2
  <2> HIDE DEF a, t, o, d
  <2>4. (o \o a) \o t = o \o (a \o t)
    BY <1>4, <2>2, Regroup
  <2>5. Coming' = Coming
    BY <1>5, <2>1, <2>2, <2>3, <2>4 DEF Coming, t
  <2> QED BY <1>1, <2>1, <2>5, SameStream
<1>7. CASE ~ (input # <<>> /\ Head(input) = "[")
  <2>1. /\ mode' \in {"turn", "key"} /\ UNCHANGED <<acc, input>>
        /\ pending' = Append(pending, c) \/ pending' = pending
    BY <1>7 DEF readPumpByte, LoneEsc
  <2>2. Held(mode') \o input = input
    <3>1. mode' \notin {"grace", "sequence"}
      BY <2>1
    <3> QED BY <1>2, <3>1, HeldIs
  <2>3. CASE pending' = Append(pending, c)
    <3>1. Append(pending, c) = pending \o o
      BY <1>2, <1>4, AppendIsConcat
    <3> HIDE DEF o, c
    <3>2. (pending \o o) \o input = pending \o (o \o input)
      BY <1>2, <1>4, Regroup
    <3>3. Coming' = Coming
      BY <1>5, <2>1, <2>2, <2>3, <3>1, <3>2 DEF Coming
    <3> QED BY <1>1, <2>1, <3>3, SameStream
  <2>4. CASE pending' = pending
    <3>1. Coming' = pending \o input
      BY <2>1, <2>2, <2>4 DEF Coming
    <3>2. input # <<>> => input[1] # "["
      BY <1>2, <1>7
    <3> HIDE DEF c
    <3>3. ASSUME NEW j \in 1 .. 9, PasteBytes[j] = c
          PROVE  j < 9 /\ (input # <<>> => input[1] # PasteBytes[j + 1])
      <4>1. j \in {1, 2, 3, 4, 5, 6, 7, 8, 9}
        OBVIOUS
      <4>2. j = 1 \/ j = 7
        BY <1>4, <3>3, <4>1, MarkersAre
      <4>3. PasteBytes[j + 1] = "[" /\ j < 9
        <5>1. CASE j = 1
          BY <5>1, MarkersAre
        <5>2. CASE j = 7
          BY <5>2, MarkersAre
        <5> QED BY <4>2, <5>1, <5>2
      <4> QED BY <3>2, <4>3
    <3>4. Coming = pending \o (<<c>> \o input) /\ mode' # "sequence" /\ mode # "ended"
      BY <1>1, <1>5, <2>1
    <3> QED BY <1>1, <1>2, <1>4, <3>1, <3>3, <3>4, TakenOutside
  <2> QED BY <2>1, <2>3, <2>4
<1> QED BY <1>6, <1>7

\* A sequence is put back whole.
LEMMA passThroughEscSequenceKeepsStream ==
    ASSUME EditorIsSound, StreamIsKept, passThroughEscSequence PROVE StreamIsKept'
<1> DEFINE n == FirstIndex(input, Final)
           more == IF n = 0 THEN Len(input) ELSE n
           a == SubSeq(input, 1, more)
           b == SubSeq(input, more + 1, Len(input))
<1>1. /\ mode = "sequence" /\ UNCHANGED <<ed, bitten>> /\ mode' = "turn"
      /\ pending' = pending \o (acc \o a) /\ input' = b
  BY DEF passThroughEscSequence
<1>2. /\ input \in Seq(Bytes) /\ pending \in Seq(Bytes) /\ acc \in Seq(Bytes)
      /\ acc = Held(mode)
  BY <1>1 DEF EditorIsSound, Bytewise, StreamIsKept, Held
<1>3. more \in 0 .. Len(input)
  <2>1. n \in 0 .. Len(input) /\ Len(input) \in Nat
    BY <1>2, FirstIndexIs
  <2> QED BY <2>1
<1> HIDE DEF more
<1>4. a \in Seq(Bytes) /\ b \in Seq(Bytes) /\ input = a \o b
  <2>1. input = a \o b
    BY <1>2, <1>3, WholeOfParts
  <2>2. a \in Seq(Bytes) /\ b \in Seq(Bytes)
    BY <1>2, <1>3
  <2> QED BY <2>1, <2>2
<1> HIDE DEF a, b
<1>5. Held(mode') \o b = b
  <2>1. mode' \notin {"grace", "sequence"}
    BY <1>1
  <2> QED BY <1>4, <2>1, HeldIs
<1>6. (pending \o (acc \o a)) \o b = pending \o (acc \o (a \o b))
  <2>1. acc \o a \in Seq(Bytes)
    BY <1>2, <1>4, ConcatProperties
  <2>2. (pending \o (acc \o a)) \o b = pending \o ((acc \o a) \o b)
    <3> DEFINE d == acc \o a
    <3>1. d \in Seq(Bytes)
      BY <2>1
    <3> HIDE DEF d
    <3>2. (pending \o d) \o b = pending \o (d \o b)
      BY <1>2, <1>4, <3>1, Regroup
    <3> QED BY <3>2 DEF d
  <2>3. (acc \o a) \o b = acc \o (a \o b)
    BY <1>2, <1>4, Regroup
  <2> QED BY <2>2, <2>3
<1>7. Coming' = Coming
  BY <1>1, <1>2, <1>4, <1>5, <1>6 DEF Coming
<1> QED BY <1>1, <1>7, SameStream

-------------------------------------------------------------------------------
(* Approval prompts and compaction; the other steps.                       *)
\* What handleApprovalPrompt, readAnswerLine and CompactKey take when no paste is
\* underway.
LEMMA NoPasteUnderway ==
    ASSUME EditorIsSound, ~ PasteUnderway
    PROVE  Free(ed.remainder) /\ Free(pending) /\ Free(input)
<1> DEFINE r == ed.remainder
           a == r \o acc
           b == a \o pending
           v == b \o input
           S == {"200~", "p", "q", "201~"}
<1>1. r \in Seq(Bytes) /\ acc \in Seq(Bytes) /\ pending \in Seq(Bytes) /\ input \in Seq(Bytes)
  BY DEF EditorIsSound, Bytewise, Sound, Editors
<1>2. FirstIndex(v, S) = 0
  BY DEF PasteUnderway
<1> HIDE DEF r
<1>3. a \in Seq(Bytes)
  BY <1>1, ConcatProperties
<1> HIDE DEF a
<1>4. b \in Seq(Bytes)
  BY <1>1, <1>3, ConcatProperties
<1> HIDE DEF b
<1>5. v \in Seq(Bytes)
  BY <1>1, <1>4, ConcatProperties
<1> HIDE DEF v
<1>6. \A i \in 1 .. Len(v) : v[i] \notin S
  <2> HIDE DEF S
  <2> QED BY <1>2, <1>5, FirstIndexIs
<1>7. Free(v)
  BY <1>6 DEF Free, Special
<1>8. Free(b) /\ Free(input)
  BY <1>1, <1>4, <1>7, FreeJoin DEF v
<1>9. Free(a) /\ Free(pending)
  BY <1>1, <1>3, <1>8, FreeJoin DEF b
<1>10. Free(r)
  BY <1>1, <1>9, FreeJoin DEF a
<1> QED BY <1>8, <1>9, <1>10 DEF r

\* Those steps leave a stream without a paste.
LEMMA NoPasteComes ==
    ASSUME EditorIsSound, StreamIsKept, ~ ed.pasteActive,
           ed' = ed, bitten' = (bitten \/ PasteUnderway),
           mode' \notin {"grace", "sequence"},
           pending' \in Seq(Bytes), input' \in Seq(Bytes),
           Free(pending) => Free(pending'), Free(input) => Free(input')
    PROVE  StreamIsKept'
<1>1. SUFFICES ASSUME ~ bitten' PROVE Clean(ed) /\ Kept(ed, Coming')
  BY DEF StreamIsKept, Coming
<1>2. ~ bitten /\ ~ PasteUnderway
  BY <1>1
<1>3. Clean(ed) /\ Sound(ed)
  BY <1>2 DEF StreamIsKept, EditorIsSound
<1>4. Free(ed.remainder) /\ Free(pending') /\ Free(input')
  BY <1>2, NoPasteUnderway
<1> DEFINE p == pending'
           i == input'
<1> HIDE DEF p, i
<1>5. p \in Seq(Bytes) /\ i \in Seq(Bytes) /\ Free(p) /\ Free(i)
  BY <1>4 DEF p, i
<1>6. Held(mode') \o i = i
  BY <1>5, HeldIs
<1>7. p \o i \in Seq(Bytes) /\ Free(p \o i)
  BY <1>5, ConcatProperties, FreeJoin
<1>8. Kept(ed, p \o i)
  BY <1>3, <1>4, <1>7, FreeKept
<1>9. Coming' = p \o i
  BY <1>6 DEF Coming, p, i
<1> QED BY <1>3, <1>8, <1>9

\* The steps that may take bytes of a paste.
LEMMA PromptsKeepStream ==
    ASSUME EditorIsSound, StreamIsKept, handleApprovalPrompt \/ readAnswerLine \/ CompactKey
    PROVE  StreamIsKept'
<1>1. /\ input \in Seq(Bytes) /\ pending \in Seq(Bytes)
      /\ mode \in InTurn \cup {"compact"} => ~ ed.pasteActive
  BY DEF EditorIsSound, Bytewise
<1>2. <<>> \in Seq(Bytes)
  OBVIOUS
<1>3. CASE handleApprovalPrompt
  <2> DEFINE n == FirstIndex(pending, {"LF", "^C", "esc"})
  <2>1. /\ mode = "turn" /\ UNCHANGED <<input, ed>> /\ bitten' = (bitten \/ PasteUnderway)
        /\ mode' \in {"answer", "turn"}
        /\ \/ pending' = <<>>
           \/ n # 0 /\ pending' = SubSeq(pending, n + 1, Len(pending))
    BY <1>3 DEF handleApprovalPrompt, AnswerLine, AnswerQuit
  <2>2. n \in 0 .. Len(pending)
    BY <1>1, FirstIndexIs
  <2> HIDE DEF n
  <2>3. pending' \in Seq(Bytes) /\ (Free(pending) => Free(pending'))
    <3>1. CASE pending' = <<>>
      BY <1>2, <3>1, NothingIsFree
    <3>2. CASE pending' = SubSeq(pending, n + 1, Len(pending))
      <4>1. SubSeq(pending, n + 1, Len(pending)) \in Seq(Bytes)
        BY <1>1, <2>2
      <4>2. Free(pending) => Free(SubSeq(pending, n + 1, Len(pending)))
        BY <1>1, <2>2, FreeDrop
      <4> QED BY <3>2, <4>1, <4>2
    <3> QED BY <2>1, <3>1, <3>2
  <2>4. mode' \notin {"grace", "sequence"} /\ ~ ed.pasteActive
    BY <1>1, <2>1 DEF InTurn
  <2> QED BY <1>1, <2>1, <2>3, <2>4, NoPasteComes
<1>4. CASE readAnswerLine \/ CompactKey
  <2>1. /\ UNCHANGED <<pending, ed>> /\ bitten' = (bitten \/ PasteUnderway)
        /\ mode' \notin {"grace", "sequence"} /\ ~ ed.pasteActive
        /\ input # <<>> /\ input' = Tail(input)
    <3>1. CASE readAnswerLine
      <4>1. mode = "answer" /\ (mode' = "turn" \/ mode' = mode)
        BY <3>1 DEF readAnswerLine, AnswerLine, AnswerQuit
      <4>2. ~ ed.pasteActive
        BY <1>1, <4>1 DEF InTurn
      <4> QED BY <3>1, <4>1, <4>2 DEF readAnswerLine
    <3>2. CASE CompactKey
      <4>1. mode = "compact" /\ mode' \in {"prompt", "compact"}
        BY <3>2 DEF CompactKey
      <4>2. ~ ed.pasteActive
        BY <1>1, <4>1
      <4> QED BY <3>2, <4>1, <4>2 DEF CompactKey
    <3> QED BY <1>4, <3>1, <3>2
  <2>2. input' \in Seq(Bytes) /\ (Free(input) => Free(input'))
    BY <1>1, <2>1, TakeIs, FreeTail
  <2>3. pending' \in Seq(Bytes) /\ (Free(pending) => Free(pending'))
    BY <1>1, <2>1
  <2> QED BY <2>1, <2>2, <2>3, NoPasteComes
<1> QED BY <1>3, <1>4

\* The steps of the agent, and those that only change where the REPL is.
LEMMA OthersKeepStream ==
    ASSUME EditorIsSound, StreamIsKept,
           \/ AnswerExpires \/ EndTurn \/ CompactDone
           \/ AgentAsks \/ Expire \/ Decide \/ AgentFinishes
    PROVE  StreamIsKept'
<1>1. /\ UNCHANGED <<input, pending, ed, bitten>>
      /\ \/ UNCHANGED <<mode, acc>>
         \/ mode \in {"answer", "turn", "compact"} /\ mode' \in {"turn", "prompt", "compact", "ended"}
  <2>1. CASE AnswerExpires
    BY <2>1 DEF AnswerExpires, editor
  <2>2. CASE EndTurn
    BY <2>2 DEF EndTurn, editor
  <2>3. CASE CompactDone
    BY <2>3 DEF CompactDone, editor
  <2>4. CASE AgentAsks \/ Expire \/ Decide \/ AgentFinishes
    BY <2>4 DEF AgentAsks, Expire, Decide, AgentFinishes, editor
  <2> QED BY <2>1, <2>2, <2>3, <2>4
<1>2. Held(mode') = Held(mode)
  BY <1>1 DEF Held
<1>3. mode' = "sequence" => mode = "sequence" /\ acc' = acc
  BY <1>1
<1>4. mode' # "ended" => mode # "ended"
  BY <1>1
<1> QED BY <1>1, <1>2, <1>3, <1>4 DEF StreamIsKept

\* All steps.
LEMMA NextKeepsStream ==
    ASSUME EditorIsSound, StreamIsKept, [Next]_vars PROVE StreamIsKept'
<1>1. CASE UNCHANGED vars
  BY <1>1 DEF vars, StreamIsKept
<1>2. CASE Next
  BY <1>2, TypeKeepsStream, EditorReadKeepsStream, EditorKeyKeepsStream,
     handleTurnKeyKeepsStream, readPumpByteKeepsStream, passThroughEscSequenceKeepsStream,
     PromptsKeepStream, OthersKeepStream
     DEF Next, REPL
<1> QED BY <1>1, <1>2

-------------------------------------------------------------------------------
(* The theorems.                                                           *)
\* An approval was given to the call whose prompt was on the screen, however late the
\* answers to earlier prompts come (approval_prompt.go:57-82, repl.go:782-817).
THEOREM ApprovedAtItsPrompt == Spec => []AllowedAtItsPrompt
<1>1. Init => IInv
  BY InitIInv
<1>2. IInv /\ [Next]_vars => IInv'
  BY NextKeepsIInv
<1>3. IInv => AllowedAtItsPrompt
  BY DEF IInv
<1> QED BY <1>1, <1>2, <1>3, PTL DEF Spec

\* The REPL is in a prompt of a call only while the agent waits for that call, and in
\* a turn only while the agent runs (runTurn, ApprovalPrompter.Decide).
THEOREM GoroutinesAgree == Spec => []Agree
<1>1. Init => IInv
  BY InitIInv
<1>2. IInv /\ [Next]_vars => IInv'
  BY NextKeepsIInv
<1>3. IInv => Agree
  BY DEF IInv
<1> QED BY <1>1, <1>2, <1>3, PTL DEF Spec

\* The REPL is where the agent, the approval and the screen say it is; the cursor is
\* in a line that is not too long, and the history at an entry (runTurn,
\* handleApprovalPrompt, executeMessage; terminal.go handleKey, historyPrevious,
\* historyNext, insertRunes).
THEOREM StatesAreTyped == Spec => []TypeOK
<1>1. Init => IInv /\ EditorIsSound
  BY InitIInv, InitEditor
<1>2. IInv /\ EditorIsSound /\ [Next]_vars => IInv' /\ EditorIsSound'
  BY NextKeepsIInv, NextKeepsEditor
<1>3. IInv /\ EditorIsSound => TypeOK
  <2>1. SUFFICES ASSUME IInv, EditorIsSound PROVE TypeOK
    OBVIOUS
  <2>2. Agree /\ Sound(ed)
    BY <2>1 DEF IInv, EditorIsSound
  <2>3. ed.pos \in 0 .. Len(ed.line) /\ Len(ed.line) <= MaxLine
        /\ ed.historyIndex \in -1 .. Len(ed.entries) - 1
    <3>1. ed.pos \in Nat /\ ed.line \in Lines
      BY <2>2 DEF Sound, Editors
    <3>2. Len(ed.line) \in Nat
      BY <3>1 DEF Lines
    <3> QED BY <2>2, <3>1, <3>2 DEF Sound, Fits
  <2> QED BY <2>2, <2>3 DEF TypeOK, Agree, InTurn
<1> QED BY <1>1, <1>2, <1>3, PTL DEF Spec

\* A reverse search shows the entry it stands at, and one that holds the query unless
\* it says that it failed (searchAppend, searchBackspace, searchNext).
THEOREM SearchShows == Spec => []SearchShowsMatch
<1>1. Init => EditorIsSound
  BY InitEditor
<1>2. EditorIsSound /\ [Next]_vars => EditorIsSound'
  BY NextKeepsEditor
<1>3. EditorIsSound => SearchShowsMatch
  BY DEF EditorIsSound, Sound, Shows, SearchShowsMatch
<1> QED BY <1>1, <1>2, <1>3, PTL DEF Spec

\* A paste of several lines is part of one prompt, whole, or of none, wherever in a turn
\* or at the prompt its bytes arrive and however they are split, unless an approval
\* prompt, a compaction or an unfinished ESC took bytes of it (handleTurnKey,
\* passThroughEscSequence, bytesToKey, finishPaste, expandPastes).
THEOREM PasteIsWhole == Spec => []PasteStaysWhole
<1>1. Init => EditorIsSound /\ StreamIsKept
  BY InitEditor, InitStream
<1>2. EditorIsSound /\ StreamIsKept /\ [Next]_vars => (EditorIsSound /\ StreamIsKept)'
  <2>1. SUFFICES ASSUME EditorIsSound, StreamIsKept, [Next]_vars
                 PROVE  EditorIsSound' /\ StreamIsKept'
    OBVIOUS
  <2> QED BY <2>1, NextKeepsEditor, NextKeepsStream
<1>3. EditorIsSound /\ StreamIsKept => PasteStaysWhole
  BY DEF StreamIsKept, Clean, Whole, PasteStaysWhole
<1> QED BY <1>1, <1>2, <1>3, PTL DEF Spec
===============================================================================
