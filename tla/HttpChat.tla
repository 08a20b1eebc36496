------------------------------- MODULE HttpChat --------------------------------
(* One POST /v1/chat/completions once it is decoded (openai_compat.go): the goroutine
   that runs the agent and sends its events over a channel, and the handler that
   collects them (syncChat) or passes each on (streamChat). The agent sends with a
   plain send, so a handler that stops reading would leave it waiting for good. *)
EXTENDS Integers, Sequences

CONSTANTS
    ChannelSize,    \* capacity of the channel of events
    MaxDeltas,      \* bound: pieces of text of a run
    MaxOthers       \* bound: events of other kinds

VARIABLES
    stream,     \* the request asks for a stream
    run,        \* the goroutine of the agent: running, returned, closed
    deltas,     \* the pieces it has sent
    others,     \* the other events it has sent
    failed,     \* it has sent an error, which is the last thing that it sends
    ch,         \* the channel
    handler,    \* reading or returned
    content,    \* the text collected by syncChat
    stopReason, \* of streamChat
    wire        \* what was written to the client

agent == <<run, deltas, others, failed>>
server == <<handler, content, stopReason, wire>>
vars == <<stream, agent, ch, server>>

Delta(n) == [kind |-> "delta", n |-> n]
Other == [kind |-> "other", n |-> 0]
Error == [kind |-> "error", n |-> 0]
Line(what, body) == [what |-> what, body |-> body]

Init ==
    /\ stream \in BOOLEAN
    /\ run = "running" /\ deltas = 0 /\ others = 0 /\ failed = FALSE
    /\ ch = <<>>
    /\ handler = "reading" /\ content = <<>> /\ stopReason = "stop" /\ wire = <<>>

-----------------------------------------------------------------------------
Send(event) == Len(ch) < ChannelSize /\ ch' = Append(ch, event)

SendDelta ==
    /\ run = "running" /\ deltas < MaxDeltas
    /\ Send(Delta(deltas + 1)) /\ deltas' = deltas + 1
    /\ UNCHANGED <<stream, run, others, failed, server>>
SendOther ==
    /\ run = "running" /\ others < MaxOthers
    /\ Send(Other) /\ others' = others + 1
    /\ UNCHANGED <<stream, run, deltas, failed, server>>

\* The run ends with its last event: the final answer or, also when the client has
\* gone and its context is done, an error (emitFail). Then the channel is closed.
Succeed ==
    /\ run = "running" /\ Send(Other) /\ run' = "returned"
    /\ UNCHANGED <<stream, deltas, others, failed, server>>
Fail ==
    /\ run = "running" /\ Send(Error) /\ run' = "returned" /\ failed' = TRUE
    /\ UNCHANGED <<stream, deltas, others, server>>
Close ==
    /\ run = "returned" /\ run' = "closed"
    /\ UNCHANGED <<stream, deltas, others, failed, ch, server>>

-----------------------------------------------------------------------------
\* syncChat takes one event. An error is the answer. Mutation: but the loop goes on.
SyncTakesOn(event) ==
    /\ content' = IF event.kind = "delta" THEN Append(content, event.n) ELSE content
    /\ wire' = IF event = Error THEN Append(wire, Line("502", <<>>)) ELSE wire
    /\ UNCHANGED <<handler, stopReason>>
SyncTakes(event) ==
    /\ content' = IF event.kind = "delta" THEN Append(content, event.n) ELSE content
    /\ IF event = Error THEN /\ wire' = Append(wire, Line("502", <<>>))
                             /\ handler' = "returned"
                        ELSE UNCHANGED <<wire, handler>>
    /\ UNCHANGED stopReason

\* streamChat passes it on, and reads to the end even after an error or to a client
\* that has gone.
StreamTakes(event) ==
    /\ wire' = IF event.kind = "delta" THEN Append(wire, Line("chunk", <<event.n>>)) ELSE wire
    /\ stopReason' = IF event = Error THEN "error" ELSE stopReason
    /\ UNCHANGED <<handler, content>>

Take ==
    /\ handler = "reading" /\ ch # <<>>
    /\ ch' = Tail(ch)
    /\ IF stream THEN StreamTakes(Head(ch)) ELSE SyncTakes(Head(ch))
    /\ UNCHANGED <<stream, agent>>

\* The channel is closed and empty.
Answer ==
    /\ handler = "reading" /\ ch = <<>> /\ run = "closed"
    /\ handler' = "returned"
    /\ wire' = wire \o IF stream THEN <<Line(stopReason, <<>>), Line("[DONE]", <<>>)>>
                                 ELSE <<Line("200", content)>>
    /\ UNCHANGED <<stream, agent, ch, content, stopReason>>

Next == SendDelta \/ SendOther \/ Succeed \/ Fail \/ Close \/ Take \/ Answer

Spec == Init /\ [][Next]_vars

-----------------------------------------------------------------------------
\* The first n pieces of the text, and the lines that tell them one by one.
Text(n) == [i \in 1 .. n |-> i]
Chunks(n) == [i \in 1 .. n |-> Line("chunk", <<i>>)]

\* What the client of a run that has ended has to get.
WholeAnswer ==
    CASE stream -> Chunks(deltas) \o <<Line(IF failed THEN "error" ELSE "stop", <<>>),
                                      Line("[DONE]", <<>>)>>
      [] ~ stream /\ failed -> <<Line("502", <<>>)>>
      [] ~ stream /\ ~ failed -> <<Line("200", Text(deltas))>>

\* The client gets the text of the run whole and in its order, or an error and no
\* second answer; and a handler that has returned leaves no agent behind that still
\* wants to send (openai_compat.go:112-199).
ChatIsWhole == handler = "returned" => run # "running" /\ wire = WholeAnswer
===============================================================================
