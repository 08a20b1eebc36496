------------------------------- MODULE McpClient -------------------------------
(* The client of an MCP server (internal/mcp/client.go): callers that take turns on
   one mutex, a goroutine per call that reads one line of the server's output, the
   cancellation of a call, Close, and a server that answers late, out of turn or
   never, that speaks unasked, dies, or ignores the end of its input.
   A request is taken to fit into the pipe, so that writing it never waits. *)
EXTENDS Integers, Sequences

CONSTANTS
    Callers,        \* goroutines that call
    MaxCalls,       \* bound: calls of each
    MaxNotes        \* bound: lines that the server sends unasked

VARIABLES
    pc,         \* per caller: idle, lock (wants the mutex), await (in the select), collect
                \* (cancelled, waits for its reading goroutine)
    calls,      \* per caller: calls begun
    ctx,        \* per caller: its context is done
    id,         \* per caller: the ID of its request
    rch,        \* per caller: what its reading goroutine has put into rch
    result,     \* per caller: ok, error, canceled or closed, and of which request
    mu,         \* holder of c.mu, or None
    closed,     \* c.closed
    stdin,      \* c.in is there
    nextID,     \* c.nextID
    closer,     \* the goroutine in Close: idle, lock, wait, done
    input, output,      \* the lines in the two pipes
    server,     \* up or gone
    notes       \* lines sent unasked

client == <<pc, calls, ctx, id, rch, result, mu, closed, stdin, nextID, closer>>
world == <<input, output, server, notes>>
vars == <<client, world>>

None == "none"
NoLine == [id |-> 0, of |-> None, call |-> 0]
Unasked == [NoLine EXCEPT !.of = "server"]
EOF == [NoLine EXCEPT !.of = "eof"]
Outcome(how, line) == [how |-> how, of |-> line.of, call |-> line.call]

Init ==
    /\ pc = [c \in Callers |-> "idle"] /\ calls = [c \in Callers |-> 0]
    /\ ctx = [c \in Callers |-> FALSE] /\ id = [c \in Callers |-> 0]
    /\ rch = [c \in Callers |-> NoLine]
    /\ result = [c \in Callers |-> Outcome(None, NoLine)]
    /\ mu = None /\ closed = FALSE /\ stdin = TRUE /\ nextID = 0 /\ closer = "idle"
    /\ input = <<>> /\ output = <<>> /\ server = "up" /\ notes = 0

-----------------------------------------------------------------------------
Return(c, how, line) ==
    /\ result' = [result EXCEPT ![c] = Outcome(how, line)]
    /\ pc' = [pc EXCEPT ![c] = "idle"]
    /\ mu' = None

Begin(c) ==
    /\ pc[c] = "idle" /\ calls[c] < MaxCalls
    /\ calls' = [calls EXCEPT ![c] = @ + 1]
    /\ pc' = [pc EXCEPT ![c] = "lock"]
    /\ result' = [result EXCEPT ![c] = Outcome(None, NoLine)]
    /\ UNCHANGED <<ctx, id, rch, mu, closed, stdin, nextID, closer, world>>

\* The caller gets the mutex, looks at its context and at the client, and writes its
\* request. From then on a goroutine of its own waits for a line.
Call(c) ==
    /\ pc[c] = "lock" /\ mu = None
    /\ rch' = [rch EXCEPT ![c] = NoLine]
    /\ IF ctx[c] \/ closed \/ ~ stdin
       THEN /\ Return(c, IF ctx[c] THEN "canceled" ELSE "closed", NoLine)
            /\ UNCHANGED <<id, nextID, input>>
       ELSE /\ nextID' = nextID + 1
            /\ id' = [id EXCEPT ![c] = nextID + 1]
            /\ IF server = "gone"
               THEN Return(c, "error", NoLine) /\ UNCHANGED input
               ELSE /\ input' = Append(input, [id |-> nextID + 1, of |-> c, call |-> calls[c]])
                    /\ pc' = [pc EXCEPT ![c] = "await"] /\ mu' = c
                    /\ UNCHANGED result
    /\ UNCHANGED <<calls, ctx, closed, stdin, closer, output, server, notes>>

\* The goroutine: one line, or the end of the output.
Scan(c) ==
    /\ pc[c] \in {"await", "collect"} /\ rch[c] = NoLine
    /\ \/ /\ output # <<>>
          /\ rch' = [rch EXCEPT ![c] = Head(output)] /\ output' = Tail(output)
       \/ /\ output = <<>> /\ server = "gone"
          /\ rch' = [rch EXCEPT ![c] = EOF] /\ UNCHANGED output
    /\ UNCHANGED <<pc, calls, ctx, id, result, mu, closed, stdin, nextID, closer,
                   input, server, notes>>

\* The line is taken for the response if it carries the ID of the request.
\* Mutation: any response is taken.
TakesAny(c, line) == line # EOF
Takes(c, line) == line # EOF /\ line.id = id[c]

Respond(c) ==
    /\ pc[c] = "await" /\ rch[c] # NoLine
    /\ Return(c, IF Takes(c, rch[c]) THEN "ok" ELSE "error", rch[c])
    /\ UNCHANGED <<calls, ctx, id, rch, closed, stdin, nextID, closer, world>>

\* The context is done: the client is closed for good, and the caller stays until
\* its goroutine has come back.
Cancel(c) ==
    /\ pc[c] = "await" /\ ctx[c]
    /\ closed' = TRUE /\ stdin' = FALSE
    /\ pc' = [pc EXCEPT ![c] = "collect"]
    /\ UNCHANGED <<calls, ctx, id, rch, result, mu, nextID, closer, world>>
Collect(c) ==
    /\ pc[c] = "collect" /\ rch[c] # NoLine
    /\ Return(c, "canceled", NoLine)
    /\ UNCHANGED <<calls, ctx, id, rch, closed, stdin, nextID, closer, world>>

\* closeWaitTimeout has passed: the server is killed. Mutation: it is asked again.
AskServer == UNCHANGED server
KillServer == server' = "gone"
Expire(c) ==
    /\ pc[c] = "collect" /\ rch[c] = NoLine /\ server = "up"
    /\ KillServer
    /\ UNCHANGED <<client, input, output, notes>>

\* Close: the flags under the mutex, then the wait for the process, or its kill.
CloseBegins ==
    /\ closer = "idle" /\ closer' = "lock"
    /\ UNCHANGED <<pc, calls, ctx, id, rch, result, mu, closed, stdin, nextID, world>>
Close ==
    /\ closer = "lock" /\ mu = None
    /\ closed' = TRUE /\ stdin' = FALSE
    /\ closer' = "wait"
    /\ UNCHANGED <<pc, calls, ctx, id, rch, result, mu, nextID, world>>
CloseEnds ==
    /\ closer = "wait"
    /\ server' = "gone" /\ closer' = "done"
    /\ UNCHANGED <<pc, calls, ctx, id, rch, result, mu, closed, stdin, nextID,
                   input, output, notes>>

-----------------------------------------------------------------------------
(* The contexts and the server.                                                 *)
End(c) ==
    /\ ~ ctx[c] /\ ctx' = [ctx EXCEPT ![c] = TRUE]
    /\ UNCHANGED <<pc, calls, id, rch, result, mu, closed, stdin, nextID, closer, world>>

Serve ==
    /\ server = "up" /\ input # <<>>
    /\ output' = Append(output, Head(input)) /\ input' = Tail(input)
    /\ UNCHANGED <<client, server, notes>>
Notify ==
    /\ server = "up" /\ notes < MaxNotes
    /\ output' = Append(output, Unasked) /\ notes' = notes + 1
    /\ UNCHANGED <<client, input, server>>
Die ==
    /\ server = "up" /\ server' = "gone"
    /\ UNCHANGED <<client, input, output, notes>>

Next ==
    \/ \E c \in Callers :
          Begin(c) \/ Call(c) \/ Scan(c) \/ Respond(c) \/ Cancel(c) \/ Collect(c) \/ Expire(c) \/ End(c)
    \/ CloseBegins \/ Close \/ CloseEnds
    \/ Serve \/ Notify \/ Die

\* The goroutines go on, a waiter gets the mutex when it is free, and the timer runs
\* out. Nothing is asked of the server, and nobody has to call or to close.
Fairness ==
    /\ \A c \in Callers : /\ WF_vars(Call(c)) /\ WF_vars(Scan(c)) /\ WF_vars(Respond(c))
                          /\ WF_vars(Cancel(c)) /\ WF_vars(Collect(c)) /\ WF_vars(Expire(c))
    /\ WF_vars(Close) /\ WF_vars(CloseEnds)

Spec == Init /\ [][Next]_vars /\ Fairness

-----------------------------------------------------------------------------
\* A result is the answer of the server to this very request, although answers of
\* earlier calls and lines sent unasked may lie in the pipe (client.go:262-270).
ResponseIsOwn ==
    \A c \in Callers :
        result[c].how = "ok" => result[c].of = c /\ result[c].call = calls[c]

\* Once the contexts of all callers are done, no call is left waiting for a server
\* that does not answer or for the mutex, and a Close that waits behind them comes
\* through (client.go:233-257, :118-148).
CancelledReturns ==
    (\A c \in Callers : ctx[c]) ~>
        (closer \in {"idle", "done"} /\ \A c \in Callers : pc[c] = "idle")
===============================================================================
