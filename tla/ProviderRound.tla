---------------------------- MODULE ProviderRound -----------------------------
(* A conversation with a provider, one request after the other: the loop's
   streamTurn, the audit wrapper around the retry wrapper around the client
   (internal/llm, internal/audit/provider.go), and the server, which sends its
   response line by line and may stop, fail or talk nonsense at any line. A request
   for a summary (Chat) is the other use that the program has for a provider.
   The readers of the five clients differ in what they make of a line; one step
   reads one line or hands one event of the outbox on, through the wrapper to the
   loop. The wire formats are in ProviderWire. *)
EXTENDS ProviderWire, FiniteSetsExt

CONSTANTS
    Kinds,          \* the clients: openai, llamacpp, anthropic, ollama, gemini
    Backoffs,       \* retry settings: records of first, most and jitter
    MaxAttempts,    \* retry.Config.MaxAttempts
    Width,          \* bits of a time.Duration
    Pieces,         \* pieces in which the arguments of a call are sent
    MaxCalls,       \* bound: calls in a response
    MaxRounds       \* bound: requests of the conversation

VARIABLES
    kind, backoff, alnum,   \* the client and its settings
    hist,       \* the history of the loop
    round,      \* requests begun
    phase,      \* idle, trying, pausing, reading, over
    op,         \* Stream or Chat
    attempt,    \* the attempt of the retry loop, from 0; 0 outside it
    pause,      \* what it sleeps before the next attempt; 0 outside a sleep
    wire,       \* the payload of the last request
    sent,       \* per call of the response, the fragments sent: its opening and pieces
    open,       \* Anthropic: the call whose block is open, 0 if none
    finished,   \* the server has given its finish reason
    reader,     \* the streamReader
    heard,      \* the streamAccumulator of the loop
    noted,      \* the call that the audit wrapper noted
    log,        \* the audit events of requests and responses
    result      \* what the last request gave to the loop

conf == <<kind, backoff, alnum>>
server == <<sent, open, finished>>
stream == <<reader, heard, noted>>
vars == <<conf, hist, round, phase, op, attempt, pause, wire, server, stream, log, result>>

CallNumbers == 1 .. MaxCalls
NoEvent == [text |-> FALSE, call |-> NoCall, usage |-> FALSE]
NewReader == [acc |-> [i \in CallNumbers |-> NoCall], order |-> <<>>,
              outbox |-> <<>>, flushed |-> FALSE, cur |-> NoCall, count |-> 0]
Nothing == [call |-> NoCall, err |-> FALSE]

Init ==
    /\ kind \in Kinds /\ backoff \in Backoffs
    /\ alnum \in IF kind = "llamacpp" THEN BOOLEAN ELSE {FALSE}
    /\ \E image \in BOOLEAN : hist = <<Message("system"), UserMessage(image)>>
    /\ round = 0 /\ phase = "idle" /\ op = "Stream" /\ attempt = 0 /\ pause = 0
    /\ wire = [system |-> 0, messages |-> <<>>]
    /\ sent = [i \in CallNumbers |-> 0] /\ open = 0 /\ finished = FALSE
    /\ reader = NewReader /\ heard = NoEvent /\ noted = NoCall
    /\ log = <<>> /\ result = Nothing

-----------------------------------------------------------------------------
(* The audit wrapper and the end of a request.                                  *)
Event(type, r, call, err) == [type |-> type, round |-> r, call |-> call, err |-> err]

\* The wrapper writes the response of a stream when the reader has come to an end
\* or an error, and again when it is closed, unless it has written one.
\* Mutation: it does not look whether it has.
finishTwice(events, err) == Append(events, Event("response", round, noted, err))
finishOnce(events, err) ==
    IF Last(events).type = "response" THEN events
    ELSE Append(events, Event("response", round, noted, err))

\* The request ends for the loop. A streamed call of a tool that exists is executed
\* and its result joins the history; without a call the answer and the next message
\* of the user do. An error ends the turn, as does a call without the name of a tool.
EndWith(call, err) ==
    /\ result' = [call |-> IF err THEN NoCall ELSE call, err |-> err]
    /\ IF err \/ (call.of # 0 /\ call.name = 0)
       THEN phase' = "over" /\ UNCHANGED hist
       ELSE /\ phase' = "idle"
            /\ hist' = IF op = "Chat" THEN hist
                       ELSE IF call.of # 0
                       THEN hist \o <<CallMessage(call), ResultMessage(call)>>
                       ELSE hist \o <<Message("assistant"), UserMessage(FALSE)>>

\* Within the pair of audit events and the retry loop, which passes these errors on,
\* the client refuses images and marshals the payload.
Begin(o) ==
    LET msgs == IF o = "Chat" THEN SummaryRequest ELSE hist
        payload == Payload(kind, msgs)
        request == Append(log, Event("request", round + 1, NoCall, FALSE))
    IN  /\ phase = "idle" /\ round < MaxRounds
        /\ round' = round + 1 /\ op' = o /\ attempt' = 0
        /\ sent' = [i \in CallNumbers |-> 0] /\ open' = 0 /\ finished' = FALSE
        /\ reader' = NewReader /\ heard' = NoEvent /\ noted' = NoCall
        /\ IF Rejects(kind, msgs) \/ ~ Marshals(kind, payload, Pieces)
           THEN /\ log' = Append(request, Event("response", round + 1, NoCall, TRUE))
                /\ result' = [call |-> NoCall, err |-> TRUE] /\ phase' = "over"
                /\ UNCHANGED wire
           ELSE /\ log' = request /\ wire' = payload
                /\ result' = Nothing /\ phase' = "trying"
        /\ UNCHANGED <<conf, hist, pause>>

-----------------------------------------------------------------------------
(* The retry loop.                                                              *)
\* A status code, no connection, the deadline of the HTTP client, a cancelled
\* context, and for Chat a response that cannot be decoded.
Failures == {"429", "5xx", "4xx", "net", "deadline", "canceled", "decode"}
isRetryable(failure) == failure \in {"429", "5xx", "net", "deadline"}

\* Powers of two, a signed integer of Width bits, and one that is shifted to the left.
Power[n \in Nat] == IF n = 0 THEN 1 ELSE 2 * Power[n - 1]
Signed(x) == LET y == x % Power[Width]
             IN  IF y < Power[Width - 1] THEN y ELSE y - Power[Width]
Shifted(x, n) == Signed(x * Power[n])
Least(a, b) == IF a < b THEN a ELSE b

\* Settings whose product is small for the width, and may be larger by 2^u if the first
\* pause is a multiple of 2^u: in nanoseconds, as the milliseconds of the configuration
\* are multiples of 2^6.
Fits(b) == \E u \in 0 .. Width :
              /\ b.first % Power[u] = 0
              /\ b.first * b.most <= Power[u] * Power[Width - 2]

\* The pauses after attempt n; a jitter of ratio 1 spreads them from 0 to the double.
\* Mutation: only what is too long is cut off.
PausesTooLong(b, n) ==
    LET d == Shifted(b.first, Least(n, Width - 2))
    IN  {IF d > b.most THEN b.most ELSE d}
backoffForAttempt(b, n) ==
    LET d == Shifted(b.first, Least(n, Width - 2))
        cut == IF d <= 0 \/ d > b.most THEN b.most ELSE d
    IN  IF b.jitter THEN {1, cut, 2 * cut} ELSE {cut}

\* The error that is left goes to the wrapper and to the loop.
GiveUp ==
    /\ log' = Append(log, Event("response", round, NoCall, TRUE))
    /\ EndWith(NoCall, TRUE)

Fail(failure) ==
    /\ phase = "trying" /\ (failure = "decode" => op = "Chat")
    /\ IF isRetryable(failure) /\ attempt < MaxAttempts - 1
       THEN /\ phase' = "pausing" /\ pause' \in backoffForAttempt(backoff, attempt)
            /\ UNCHANGED <<hist, log, result>>
            /\ UNCHANGED attempt
       ELSE GiveUp /\ attempt' = 0 /\ UNCHANGED pause
    /\ UNCHANGED <<conf, round, op, wire, server, stream>>

\* The pause ends, or the context does before it.
Wake ==
    /\ phase = "pausing" /\ pause' = 0
    /\ \/ /\ phase' = "trying" /\ attempt' = attempt + 1
          /\ UNCHANGED <<hist, log, result>>
       \/ GiveUp /\ attempt' = 0
    /\ UNCHANGED <<conf, round, op, wire, server, stream>>

\* Chat: a whole response, of which the wrapper notes the first call and the
\* compaction uses only the text.
Answer(n) ==
    /\ phase = "trying" /\ op = "Chat"
    /\ log' = Append(log, Event("response", round,
                 IF n = 0 THEN NoCall ELSE Decoded(kind, 1, <<round, 1>>, Pieces, alnum), FALSE))
    /\ EndWith(NoCall, FALSE)
    /\ attempt' = 0
    /\ UNCHANGED <<conf, round, op, pause, wire, server, stream>>

Connect ==
    /\ phase = "trying" /\ op = "Stream"
    /\ phase' = "reading" /\ attempt' = 0
    /\ UNCHANGED <<conf, hist, round, op, pause, wire, server, stream, log, result>>

-----------------------------------------------------------------------------
(* The readers.                                                                 *)
ID(i) == <<round, i>>
Opened(i) == sent[i] > 0
Turn(i) == \A j \in 1 .. i - 1 : Opened(j)
Whole == Pieces + 1
TextEvent == [NoEvent EXCEPT !.text = TRUE]
CallEvent(call) == [NoEvent EXCEPT !.call = call]

\* An event on its way through the wrapper (auditStream.Recv) to the loop
\* (accumulateStreamEvent): a later call takes the place of an earlier one.
Deliver(ev) ==
    /\ noted' = IF ev.call.of # 0 THEN ev.call ELSE noted
    /\ heard' = [text |-> heard.text \/ ev.text,
                 call |-> IF ev.call.of # 0 THEN ev.call ELSE heard.call,
                 usage |-> heard.usage \/ ev.usage]

Reading == phase = "reading" /\ reader.outbox = <<>>
InStream == UNCHANGED <<conf, hist, round, phase, op, attempt, pause, wire, log, result>>

\* The calls of which a line may carry a fragment, one or two, in either order.
Fragments(size(_)) ==
    LET ready == {i \in CallNumbers : ~ finished /\ Turn(i) /\ size(i)}
    IN  {<<>>} \cup {<<i>> : i \in ready}
        \cup {f \in ready \X ready : f[1] # f[2]}
Sends(frags, size) ==
    sent' = [i \in CallNumbers |-> IF Contains(frags, i) THEN sent[i] + size ELSE sent[i]]

\* A line of OpenAI: each fragment is taken for a call, and the last one stays.
FragmentCall(i) ==
    IF Opened(i) THEN [NoCall EXCEPT !.of = i, !.args = <<sent[i]>>]
                 ELSE [NoCall EXCEPT !.of = i, !.id = ID(i), !.name = i]
ReadOpenai(frags, text, finish, usage) ==
    /\ kind = "openai" /\ Reading
    /\ frags \in Fragments(LAMBDA i : sent[i] < Whole)
    /\ Sends(frags, 1)
    /\ finished' = (finished \/ finish)
    /\ Deliver([text |-> text, usage |-> usage,
                call |-> IF frags = <<>> THEN NoCall ELSE FragmentCall(Last(frags))])
    /\ UNCHANGED open /\ UNCHANGED reader /\ InStream

\* The reader of llama.cpp gathers the fragments of each call and, once it has seen
\* the finish reason or the end, puts the calls into its outbox.
\* Mutation: a piece takes the place of the pieces before it.
GrownLast(call, i) ==
    IF Opened(i) THEN [call EXCEPT !.args = <<sent[i]>>]
                 ELSE [call EXCEPT !.of = i, !.id = ID(i), !.name = i]
Grown(call, i) ==
    IF Opened(i) THEN [call EXCEPT !.args = Append(@, sent[i])]
                 ELSE [call EXCEPT !.of = i, !.id = ID(i), !.name = i]
Accumulate(r, frags) ==
    [r EXCEPT !.order = @ \o Kept(frags, CallNumbers \ ToSet(@)),
              !.acc = [i \in CallNumbers |->
                          IF Contains(frags, i) THEN Grown(r.acc[i], i) ELSE r.acc[i]]]
Gathered(c) == [c EXCEPT !.id = NormalID(@, alnum),
                         !.args = IF @ = <<>> THEN <<0>> ELSE @]
flushToolCalls(r) ==
    IF r.flushed THEN r
    ELSE [r EXCEPT !.flushed = (r.order # <<>>),
                   !.outbox = @ \o [n \in DOMAIN r.order |-> CallEvent(Gathered(r.acc[r.order[n]]))]]
ReadLlama(frags, text, finish, usage) ==
    LET r == Accumulate(reader, frags)
        shown == IF text \/ usage THEN Append(r.outbox, [NoEvent EXCEPT !.text = text, !.usage = usage])
                                  ELSE r.outbox
        said == [r EXCEPT !.outbox = shown]
    IN  /\ kind = "llamacpp" /\ Reading
        /\ frags \in Fragments(LAMBDA i : sent[i] < Whole)
        /\ Sends(frags, 1)
        /\ finished' = (finished \/ finish)
        /\ reader' = IF finish THEN flushToolCalls(said) ELSE said
        /\ UNCHANGED <<open, heard, noted>> /\ InStream
Outbox ==
    /\ phase = "reading" /\ reader.outbox # <<>>
    /\ Deliver(Head(reader.outbox))
    /\ reader' = [reader EXCEPT !.outbox = Tail(@)]
    /\ UNCHANGED server /\ InStream

\* Anthropic sends the calls as blocks, one after the other. A reader that has a
\* block open puts the pieces behind the {} that it begins with.
BlockStart(i) ==
    /\ kind = "anthropic" /\ Reading /\ ~ finished
    /\ open = 0 /\ Turn(i) /\ ~ Opened(i)
    /\ sent' = [sent EXCEPT ![i] = 1] /\ open' = i
    /\ reader' = [reader EXCEPT !.cur = [NoCall EXCEPT !.of = i, !.id = ID(i), !.name = i,
                                                       !.args = <<0>>]]
    /\ UNCHANGED <<finished, heard, noted>> /\ InStream
BlockDelta ==
    /\ kind = "anthropic" /\ Reading
    /\ open # 0 /\ sent[open] < Whole
    /\ reader' = [reader EXCEPT !.cur.args = Append(@, sent[open])]
    /\ sent' = [sent EXCEPT ![open] = @ + 1]
    /\ UNCHANGED <<open, finished, heard, noted>> /\ InStream
BlockStop ==
    /\ kind = "anthropic" /\ Reading /\ open # 0
    /\ Deliver(CallEvent(reader.cur))
    /\ reader' = [reader EXCEPT !.cur = NoCall]
    /\ open' = 0
    /\ UNCHANGED <<sent, finished>> /\ InStream
\* A text, the message_delta with the finish reason; its usage is not looked at.
BlockText(finish) ==
    /\ kind = "anthropic" /\ Reading /\ ~ finished /\ open = 0
    /\ Deliver(IF finish THEN NoEvent ELSE TextEvent)
    /\ finished' = finish
    /\ UNCHANGED <<sent, open, reader>> /\ InStream

\* Ollama and Gemini send whole calls. The reader numbers them, and the last one of a
\* line stays.
ReadWhole(frags, text, finish, usage) ==
    LET n == reader.count + Len(frags)
        last == [Decoded(kind, Last(frags), NoID, Pieces, FALSE) EXCEPT !.id = <<n>>]
    IN  /\ kind \in {"ollama", "gemini"} /\ Reading
        /\ frags \in Fragments(LAMBDA i : ~ Opened(i))
        /\ Sends(frags, Whole)
        /\ finished' = (finished \/ finish)
        /\ reader' = [reader EXCEPT !.count = n]
        /\ Deliver([text |-> text, usage |-> usage,
                    call |-> IF frags = <<>> THEN NoCall ELSE last])
        /\ UNCHANGED open /\ InStream

\* The reader is at the end: the wrapper writes the response, the loop closes the
\* stream, which may fail, and has the usage billed, which may be refused.
Finish ==
    /\ log' = finishOnce(finishOnce(log, FALSE), FALSE)
    /\ \E failed \in BOOLEAN : EndWith(heard.call, failed)

\* An error: the wrapper writes it down and the loop closes the stream.
Break ==
    /\ log' = finishOnce(finishOnce(log, TRUE), TRUE)
    /\ EndWith(NoCall, TRUE)

\* The lines end with [DONE], message_stop or the end of the body.
StreamEnds ==
    /\ Reading
    /\ IF kind = "llamacpp" /\ flushToolCalls(reader).outbox # <<>>
       THEN /\ reader' = flushToolCalls(reader) /\ finished' = TRUE
            /\ UNCHANGED <<sent, open, heard, noted>> /\ InStream
       ELSE /\ Finish
            /\ UNCHANGED <<conf, round, op, attempt, pause, wire, server, stream>>

\* The connection breaks or the context is cancelled: three of the readers do not
\* look at the error of the scanner and take it for the end.
Breaks ==
    /\ Reading
    /\ IF kind \in {"llamacpp", "gemini"} THEN Break ELSE Finish
    /\ UNCHANGED <<conf, round, op, attempt, pause, wire, server, stream>>

\* A line that is not JSON.
Junk ==
    /\ Reading /\ Break
    /\ UNCHANGED <<conf, round, op, attempt, pause, wire, server, stream>>

Lines(frags, text, finish, usage) ==
    \/ ReadOpenai(frags, text, finish, usage)
    \/ ReadLlama(frags, text, finish, usage)
    \/ ReadWhole(frags, text, finish, usage)

Next ==
    \/ \E o \in {"Stream", "Chat"} : Begin(o)
    \/ \E failure \in Failures : Fail(failure)
    \/ Wake
    \/ \E n \in 0 .. 1 : Answer(n)
    \/ Connect
    \/ \E frags \in SeqOf(CallNumbers, 2) :
          \/ frags # <<>> /\ Lines(frags, FALSE, FALSE, FALSE)
          \/ Len(frags) < 2 /\ \E usage \in BOOLEAN : Lines(frags, FALSE, TRUE, usage)
    \/ Lines(<<>>, TRUE, FALSE, FALSE)
    \/ Outbox
    \/ \E i \in CallNumbers : BlockStart(i)
    \/ BlockDelta \/ BlockStop
    \/ \E finish \in BOOLEAN : BlockText(finish)
    \/ StreamEnds \/ Breaks \/ Junk

Spec == Init /\ [][Next]_vars

-----------------------------------------------------------------------------
\* A call as the server sent it: with the name, the ID if it gives one, and the
\* pieces of the arguments sent so far, {} if there were none.
IsSent(call) ==
    /\ call.name = call.of /\ call.id # NoID
    /\ LET n == sent[call.of] - 1
       IN  call.args \in IF n = 0 THEN {<<>>, <<0>>} ELSE {[k \in 1 .. n |-> k]}

\* In the payload, the message after a call is its result, found by the ID where
\* the wire has IDs and by the name, and the arguments are still whole.
CallsComeBack(w) ==
    \A j \in DOMAIN w.messages :
        \A c \in {p \in ToSet(w.messages[j].parts) : p.type = "call"} :
            /\ j < Len(w.messages)
            /\ LET r == Head(w.messages[j + 1].parts)
               IN  /\ r.type = "result" /\ r.id = c.id
                   /\ kind # "anthropic" => r.name = c.name
            /\ c.args = <<0>> \/ c.args = WholeArgs(Pieces)
            /\ kind = "gemini" => c.sig

\* Whatever the order in which the pieces of several calls arrive and wherever the
\* stream ends, a call that the loop takes from llama.cpp, Ollama or Gemini is one
\* that the server sent, in full, and it is sent back with its result in the next
\* request (llamacpp/stream.go:186-222, gemini/stream.go:84-107, the toPayload
\* functions).
CallIsWhole ==
    kind \in {"llamacpp", "ollama", "gemini"} =>
        /\ result.call.of # 0 => IsSent(result.call)
        /\ CallsComeBack(wire)

\* The README says of the common layer of the five providers that it supports
\* streaming and tool calls (README.md:8-9): the call that a stream gives to the
\* loop is the one that the server sent.
StreamedCallIsSent == result.call.of # 0 => IsSent(result.call)

\* Every request has one response in the audit log, however often it was tried and
\* however it ended, and a call that the loop takes is the one of the response
\* (audit/provider.go:41-47, :96-116).
OneResponsePerRequest ==
    /\ \A n \in DOMAIN log :
          /\ log[n].type = IF n % 2 = 1 THEN "request" ELSE "response"
          /\ log[n].round = (n + 1) \div 2
    /\ phase \in {"idle", "over"} <=> Len(log) = 2 * round
    /\ phase = "idle" /\ round > 0 => ~ Last(log).err
    /\ result.call.of # 0 => Last(log).call = result.call

\* The pause before attempt n + 1 is first * 2^n, at most the configured maximum,
\* and with jitter at most its double; never zero or negative, however many attempts
\* there are (retry.go:128-148).
PauseIsClamped ==
    phase = "pausing" =>
        LET full == Least(backoff.first * Power[attempt], backoff.most)
        IN  IF backoff.jitter THEN pause \in 1 .. 2 * full ELSE pause = full
===============================================================================
