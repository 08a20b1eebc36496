----------------------------- MODULE LineEditor -----------------------------
(* The line editor of the prompt (cliui/lineedit and cliui/history.go): keys
   made of bytes, editing, history, reverse search and pastes. The editor is a
   record, and every operator gives the editor after one key. Painting is left
   out. A byte is a string; a byte that is a key of its own has the name of the
   key, and the end of a marker, "200~" or "201~", is one byte. A line consists of
   characters, and a placeholder of a paste is one of them. *)
EXTENDS Integers, Sequences, SequencesExt, FiniteSets

CONSTANTS
    MaxLine,       \* maxLineLength
    MaxEntries     \* historyMaxEntries

Text == {"y", "n", "k", "p", "q", "i", "[", "A"}    \* "k" stands for a character beyond ASCII
Bytes == Text \cup {"esc", "200~", "201~", "Enter", "LF", "Backspace", "Left", "Right", "Home",
                   "End", "Up", "Down", "^R", "^U", "^K", "^G", "^C", "^D"}
Final == (Text \ {"k", "["}) \cup {"200~", "201~"}    \* bytes that end a sequence

pasteStart == <<"esc", "[", "200~">>
pasteEnd   == <<"esc", "[", "201~">>

\* A character that was typed, and the placeholder of the n-th paste of a line.
Char(c) == [rune |-> c, paste |-> 0, lines |-> 0]
countPastedLines(content) ==
    Cardinality({i \in DOMAIN content : content[i] = Char("LF")})
        + IF Last(content) = Char("LF") THEN 0 ELSE 1
Placeholder(n, content) == [rune |-> "#", paste |-> n, lines |-> countPastedLines(content)]

NoSearch == [active |-> FALSE, query |-> <<>>, index |-> -1, failed |-> FALSE,
             line |-> <<>>, pos |-> 0]

\* entries: the history, the newest first; result: what readLine returns.
NewTerminal(entries) ==
    [line |-> <<>>, pos |-> 0, remainder |-> <<>>, result |-> "none", text |-> <<>>,
     pasteActive |-> FALSE, pasteBuf |-> <<>>, pasteLastCR |-> FALSE, pastes |-> <<>>,
     entries |-> entries, historyIndex |-> -1, historyPending |-> <<>>,
     search |-> NoSearch]

-----------------------------------------------------------------------------
(* Bytes to keys. *)

FirstIndex(s, S) ==
    LET hits == {i \in DOMAIN s : s[i] \in S}
    IN  IF hits = {} THEN 0 ELSE CHOOSE i \in hits : \A j \in hits : i <= j

Incomplete == [key |-> "incomplete", size |-> 0]

SequenceKey(seq) ==
    CASE seq = <<"esc", "[", "A">> -> "Up"
      [] seq = pasteStart -> "PasteStart"
      [] OTHER -> "Unknown"

\* The key of the sequence at the start of b, in a paste and otherwise.
PastedKey(b) ==
    CASE IsPrefix(pasteEnd, b) -> [key |-> "PasteEnd", size |-> 3]
      [] IsStrictPrefix(b, pasteEnd) -> Incomplete
      [] OTHER -> [key |-> "esc", size |-> 1]
EscapedKey(b) ==
    LET n == FirstIndex(b, Final)
    IN  IF n = 0 THEN Incomplete ELSE [key |-> SequenceKey(SubSeq(b, 1, n)), size |-> n]

\* The key at the start of b, and the bytes it takes.
bytesToKey(b, pasteActive) ==
    CASE b = <<>> -> Incomplete
      [] b # <<>> /\ b[1] # "esc" -> [key |-> b[1], size |-> 1]
      [] OTHER -> IF pasteActive THEN PastedKey(b) ELSE EscapedKey(b)

-----------------------------------------------------------------------------
(* Editing. *)

\* Mutation: the cursor stays where it was.
setLineOnly(e, newLine) == [e EXCEPT !.line = newLine]

setLine(e, newLine) == [e EXCEPT !.line = newLine, !.pos = Len(newLine)]

\* As many of them as the line has room for.
insertRunes(e, cs) ==
    LET room == MaxLine - Len(e.line)
        n == IF Len(cs) < room THEN Len(cs) ELSE room
    IN  [e EXCEPT !.line = SubSeq(@, 1, e.pos) \o SubSeq(cs, 1, n) \o SubSeq(@, e.pos + 1, Len(@)),
                  !.pos = @ + n]
addKeyToLine(e, c) == insertRunes(e, <<c>>)

eraseNPreviousChars(e, n) ==
    LET k == IF e.pos < n THEN e.pos ELSE n
    IN  [e EXCEPT !.pos = @ - k,
                  !.line = SubSeq(@, 1, e.pos - k) \o SubSeq(@, e.pos + 1, Len(@))]

\* Backspace and Delete take one rune of a placeholder: the rest no longer expands.
BreakAt(e, i) == [e EXCEPT !.line[i] = Char("k")]
erasePrevious(e) ==
    IF e.pos > 0 /\ e.line[e.pos].paste # 0 THEN BreakAt(e, e.pos)
    ELSE eraseNPreviousChars(e, 1)
eraseNext(e) ==
    IF e.pos = Len(e.line) THEN e
    ELSE IF e.line[e.pos + 1].paste # 0 THEN BreakAt(e, e.pos + 1)
    ELSE eraseNPreviousChars([e EXCEPT !.pos = @ + 1], 1)

\* historyAt, with fileHistory.At: nothing beyond either end.
HasEntry(e, idx) == idx \in 0 .. Len(e.entries) - 1
historyAt(e, idx) == e.entries[idx + 1]

historyUp(e) ==
    IF ~ HasEntry(e, e.historyIndex + 1) THEN e
    ELSE [setLine(e, historyAt(e, e.historyIndex + 1)) EXCEPT
             !.historyIndex = @ + 1,
             !.historyPending = IF e.historyIndex = -1 THEN e.line ELSE @]

historyDown(e) ==
    CASE e.historyIndex = -1 -> e
      [] e.historyIndex = 0 -> [setLine(e, e.historyPending) EXCEPT !.historyIndex = -1]
      [] OTHER -> [setLine(e, historyAt(e, e.historyIndex - 1)) EXCEPT !.historyIndex = @ - 1]

\* fileHistory.Add: neither empty lines nor the last one again.
historyAdd(e, entry) ==
    IF entry = <<>> \/ (e.entries # <<>> /\ e.entries[1] = entry) THEN e
    ELSE [e EXCEPT !.entries = SubSeq(<<entry>> \o @, 1,
                                      IF Len(@) < MaxEntries THEN Len(@) + 1 ELSE MaxEntries)]

\* expandPastes: each placeholder in turn, where it is found first.
ReplaceFirst(s, c, t) ==
    LET i == FirstIndex(s, {c})
    IN  IF i = 0 THEN s ELSE SubSeq(s, 1, i - 1) \o t \o SubSeq(s, i + 1, Len(s))

expandPastes(e, displayed) ==
    LET expanded[n \in 0 .. Len(e.pastes)] ==
            IF n = 0 THEN displayed
            ELSE ReplaceFirst(expanded[n - 1], e.pastes[n].token, e.pastes[n].content)
    IN  expanded[Len(e.pastes)]

\* Enter, and the rest of readLine once it has a line.
enter(e) ==
    [historyAdd(e, e.line) EXCEPT
        !.result = "line", !.text = expandPastes(e, e.line), !.pastes = <<>>,
        !.line = <<>>, !.pos = 0, !.historyIndex = -1]

-----------------------------------------------------------------------------
(* Reverse search. *)

Matches(s, q) == \E i \in 0 .. Len(s) - Len(q) : SubSeq(s, i + 1, i + Len(q)) = q

searchBackward(e, start) ==
    LET hits == {i \in start .. Len(e.entries) - 1 : Matches(historyAt(e, i), e.search.query)}
    IN  IF hits = {} THEN -1 ELSE CHOOSE i \in hits : \A j \in hits : i <= j

applySearchResult(e, idx) ==
    IF idx = -1 THEN [e EXCEPT !.search.failed = TRUE, !.pos = Len(e.line)]
    ELSE [setLine(e, historyAt(e, idx)) EXCEPT !.search.index = idx, !.search.failed = FALSE]

startSearch(e) ==
    [setLine(e, <<>>) EXCEPT
        !.search = [active |-> TRUE, query |-> <<>>, index |-> -1, failed |-> FALSE,
                    line |-> e.line, pos |-> e.pos]]

endSearch(e, abort) ==
    [e EXCEPT !.search.active = FALSE, !.historyIndex = -1, !.historyPending = <<>>,
              !.line = IF abort THEN e.search.line ELSE @,
              !.pos = IF abort THEN e.search.pos ELSE @]

\* Mutation: the candidate stays although the query has grown.
searchAppendLazily(e, c) == [e EXCEPT !.search.query = Append(@, c)]

searchAppend(e, c) ==
    LET f == [e EXCEPT !.search.query = Append(@, c)]
    IN  applySearchResult(f, searchBackward(f, IF f.search.index < 0 THEN 0 ELSE f.search.index))

searchBackspace(e) ==
    IF e.search.query = <<>> THEN e
    ELSE LET f == [e EXCEPT !.search.query = Front(@)]
         IN  applySearchResult(f, searchBackward(f, 0))

searchNext(e) == applySearchResult(e, searchBackward(e, e.search.index + 1))

-----------------------------------------------------------------------------
(* Pastes. *)

\* CR and LF are one line break, and so are both together.
addPasteRune(e, key) ==
    IF key = "LF" /\ e.pasteLastCR THEN [e EXCEPT !.pasteLastCR = FALSE]
    ELSE [e EXCEPT !.pasteLastCR = key = "Enter",
                   !.pasteBuf = Append(@, Char(IF key = "Enter" THEN "LF" ELSE key))]

Inlinable(content) == \A i \in DOMAIN content : content[i].rune \in Text

abortPaste(e) == [e EXCEPT !.pasteActive = FALSE, !.pasteBuf = <<>>, !.pasteLastCR = FALSE]

\* A short text goes into the line, anything else as a placeholder, if that fits.
finishPaste(e) ==
    LET f == abortPaste(e)
        token == Placeholder(Len(e.pastes) + 1, e.pasteBuf)
    IN  CASE e.pasteBuf = <<>> -> f
          [] e.pasteBuf # <<>> /\ Inlinable(e.pasteBuf) -> insertRunes(f, e.pasteBuf)
          [] OTHER ->
                 IF Len(e.line) + 1 > MaxLine THEN f
                 ELSE addKeyToLine([f EXCEPT !.pastes =
                          Append(@, [token |-> token, content |-> e.pasteBuf])], token)

-----------------------------------------------------------------------------
(* Keys. *)

\* The switch of handleKey.
editKey(e, key) ==
    CASE key \in {"Enter", "LF"} -> enter(e)
      [] key \in Text -> addKeyToLine(e, Char(key))
      [] key = "Backspace" -> erasePrevious(e)
      [] key = "^D" -> eraseNext(e)
      [] key = "Left" -> [e EXCEPT !.pos = IF @ = 0 THEN 0 ELSE @ - 1]
      [] key = "Right" -> [e EXCEPT !.pos = IF @ = Len(e.line) THEN @ ELSE @ + 1]
      [] key = "Home" -> [e EXCEPT !.pos = 0]
      [] key = "End" -> [e EXCEPT !.pos = Len(e.line)]
      [] key = "Up" -> historyUp(e)
      [] key = "Down" -> historyDown(e)
      [] key = "^R" -> startSearch(e)
      [] key = "^U" -> eraseNPreviousChars(e, e.pos)
      [] key = "^K" -> [e EXCEPT !.line = SubSeq(@, 1, e.pos)]
      [] OTHER -> e

\* A key that ends the search is handled once more without it.
handleSearchKey(e, key) ==
    CASE key = "^R" -> searchNext(e)
      [] key = "Backspace" -> searchBackspace(e)
      [] key \in {"^G", "Unknown"} -> endSearch(e, TRUE)
      [] key \in Text -> searchAppend(e, Char(key))
      [] OTHER -> editKey(endSearch(e, FALSE), key)

handleKey(e, key) ==
    IF e.pasteActive THEN addPasteRune(e, key)
    ELSE IF e.search.active THEN handleSearchKey(e, key)
    ELSE editKey(e, key)

currentLine(e) == IF e.search.active THEN e.search.line ELSE e.line

\* The loop of readLine for the first key of the remainder, which is complete.
readKey(e) ==
    LET k == bytesToKey(e.remainder, e.pasteActive)
        rest == SubSeq(e.remainder, k.size + 1, Len(e.remainder))
        f == [e EXCEPT !.remainder = rest]
    IN  CASE k.key = "^C" ->
                 [abortPaste(f) EXCEPT !.search = NoSearch, !.result = "eof", !.remainder = e.remainder]
          [] k.key = "^D" /\ ~ e.pasteActive /\ currentLine(e) = <<>> ->
                 [f EXCEPT !.search = NoSearch, !.result = "eof", !.remainder = e.remainder]
          [] k.key = "PasteStart" ->
                 [(IF e.search.active THEN endSearch(f, FALSE) ELSE f) EXCEPT
                     !.pasteActive = TRUE, !.pasteBuf = <<>>, !.pasteLastCR = FALSE]
          [] k.key = "PasteEnd" -> finishPaste(f)
          [] OTHER ->
                 handleKey(IF k.key = "Enter" /\ rest # <<>> /\ rest[1] = "LF"
                           THEN [f EXCEPT !.remainder = Tail(rest)] ELSE f, k.key)
=============================================================================
