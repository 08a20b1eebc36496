-------------------------------- MODULE Services -------------------------------
(* The parts around the agent loop that keep to themselves: the accounts, the
   providers, the MCP client, a batch of tools, the two halves of the HTTP server and
   the memory. They share no state, so a behaviour is one of them: "which" says whose,
   and the others stay in an initial state. *)
EXTENDS Integers

CONSTANTS
    Sessions, Prices, Amounts, SessionMaxTokens, DailyMaxCost, MaxInt, LastDay, MaxLines,
    MaxLives,                                                           \* Billing
    Kinds, Backoffs, MaxAttempts, Width, Pieces, MaxCalls, MaxRounds,   \* ProviderRound
    Callers, CallsEach, MaxStray,                                     \* McpClient
    CallCount, Limits, HookCount,                                       \* ToolBatch
    Confs, Routes, Addresses, Ids, Secrets, MaxEntries, Burst, MaxRequests, \* HttpGate
    ChannelSize, MaxDeltas, MaxOthers,                                  \* HttpChat
    Workers, Names, Links, Sizes, Limit, RecordLimit, MaxParts, MaxNotes    \* Memory

VARIABLES
    which,      \* the part that runs
    sessions, daily, dailyCost, file, torn, stuck, today, life,
    kind, backoff, alnum, hist, round, phase, provOp, attempt, pause, provWire, sent,
    open, finished, reader, heard, noted, log, provResult,
    mcpPc, calls, ctx, id, rch, mcpResult, mu, closed, stdin, nextID, closer, input,
    output, server, mcpNotes,
    limit, failFast, gated, unknown, batchPc, out, parent, cancelled, ran, late, stopped,
    conf, digests, buckets, global, clock, reply, seen, spent,
    stream, run, deltas, others, failed, ch, handler, content, stopReason, chatWire,
    memPc, memOp, lock, readers, files, settled, got, memNotes, piece

billVars == <<sessions, daily, dailyCost, file, torn, stuck, today, life>>
provVars == <<kind, backoff, alnum, hist, round, phase, provOp, attempt, pause,
              provWire, sent, open, finished, reader, heard, noted, log, provResult>>
mcpVars == <<mcpPc, calls, ctx, id, rch, mcpResult, mu, closed, stdin, nextID, closer,
             input, output, server, mcpNotes>>
batchVars == <<limit, failFast, gated, unknown, batchPc, out, parent, cancelled, ran,
               late, stopped>>
gateVars == <<conf, digests, buckets, global, clock, reply, seen, spent>>
chatVars == <<stream, run, deltas, others, failed, ch, handler, content, stopReason,
              chatWire>>
memVars == <<memPc, memOp, lock, readers, files, settled, got, memNotes, piece>>
vars == <<which, billVars, provVars, mcpVars, batchVars, gateVars, chatVars, memVars>>

Bill == INSTANCE Billing
Prov == INSTANCE ProviderRound WITH op <- provOp, wire <- provWire, result <- provResult
Mcp == INSTANCE McpClient WITH
    MaxCalls <- CallsEach, MaxNotes <- MaxStray,
    pc <- mcpPc, result <- mcpResult, notes <- mcpNotes
Batch == INSTANCE ToolBatch WITH pc <- batchPc
Gate == INSTANCE HttpGate
Chat == INSTANCE HttpChat WITH wire <- chatWire
Mem == INSTANCE Memory WITH pc <- memPc, op <- memOp, notes <- memNotes

\* What the code gives for the constants: sizes, limits and budgets are numbers that
\* are not negative, and the cache of the limiter holds at least one entry; but what a
\* provider reports may be any integer. No goroutine has the name of none. The first
\* and the longest pause of the retries are such that the doubled pause has passed the
\* longest before it leaves the width of a duration.
ServiceAssumption ==
    /\ Sizes \subseteq Nat /\ Limit \in Nat /\ RecordLimit \in Nat \ {0}
    /\ CallCount \in Nat /\ Limits \subseteq Nat
    /\ "none" \notin Workers \cup Callers
    /\ MaxEntries \in Nat \ {0} /\ Burst \in Nat
    /\ Prices \subseteq Int /\ Amounts \subseteq Int /\ LastDay \in Nat \ {0}
    /\ SessionMaxTokens \in Nat /\ DailyMaxCost \in Nat
    /\ Pieces \in Nat /\ Width \in Nat \ {0, 1}
    /\ \A b \in Backoffs : /\ b.first \in Nat \ {0} /\ b.most \in Nat \ {0}
                           /\ Prov!Fits(b)

ASSUME ServiceAssumption

-----------------------------------------------------------------------------
Parts == {"billing", "provider", "mcp", "batch", "gate", "chat", "memory"}

Init ==
    /\ which \in Parts
    /\ Bill!Init /\ Prov!Init /\ Mcp!Init /\ Batch!Init /\ Gate!Init /\ Chat!Init /\ Mem!Init

Next ==
    \/ which = "billing" /\ Bill!Next
          /\ UNCHANGED <<which, provVars, mcpVars, batchVars, gateVars, chatVars, memVars>>
    \/ which = "provider" /\ Prov!Next
          /\ UNCHANGED <<which, billVars, mcpVars, batchVars, gateVars, chatVars, memVars>>
    \/ which = "mcp" /\ Mcp!Next
          /\ UNCHANGED <<which, billVars, provVars, batchVars, gateVars, chatVars, memVars>>
    \/ which = "batch" /\ Batch!Next
          /\ UNCHANGED <<which, billVars, provVars, mcpVars, gateVars, chatVars, memVars>>
    \/ which = "gate" /\ Gate!Next
          /\ UNCHANGED <<which, billVars, provVars, mcpVars, batchVars, chatVars, memVars>>
    \/ which = "chat" /\ Chat!Next
          /\ UNCHANGED <<which, billVars, provVars, mcpVars, batchVars, gateVars, memVars>>
    \/ which = "memory" /\ Mem!Next
          /\ UNCHANGED <<which, billVars, provVars, mcpVars, batchVars, gateVars, chatVars>>

\* Only the MCP client needs its goroutines to go on.
Spec == Init /\ [][Next]_vars /\ Mcp!Fairness

-----------------------------------------------------------------------------
\* The totals are those of the lines that the store took, whatever failed in between
\* (billing/accumulator.go:119-202).
TotalsMatchStore == Bill!TotalsMatchStore

\* A call taken from llama.cpp, Ollama or Gemini is whole and is sent back as it was
\* (llm/llamacpp/stream.go:186-222, llm/gemini/stream.go:84-107).
CallIsWhole == Prov!CallIsWhole

\* A request has one response in the audit log, however often it was tried
\* (audit/provider.go:41-116).
OneResponsePerRequest == Prov!OneResponsePerRequest

\* The pause before a retry grows up to its cap and never wraps (llm/retry.go:128-148).
PauseIsClamped == Prov!PauseIsClamped

\* A caller gets the answer to its own request (mcp/client.go:262-270).
ResponseIsOwn == Mcp!ResponseIsOwn

\* A cancelled call comes back, and Close with it (mcp/client.go:118-148, :233-257).
CancelledReturns == Mcp!CancelledReturns

\* The outcomes of a batch tell what ran, and nothing ran that must not
\* (agent/parallel.go:30-88, agent/hooks.go:76-99).
OutcomesAreTrue == Batch!OutcomesAreTrue

\* The cache of the limiter forgets no recent caller (httpapi/middleware.go:141-187).
RecentCallersAreHeld == Gate!RecentCallersAreHeld

\* A client gets the run whole and in order, or an error, and the handler leaves no
\* run behind (httpapi/openai_compat.go:112-199).
ChatIsWhole == Chat!ChatIsWhole

\* A write of a memory file is one step that happens or does not, and what was noted
\* can be found (memory/automemory.go:83-133, memory/memory.go:68-153).
MemoryIsAtomic == Mem!MemoryIsAtomic
===============================================================================
