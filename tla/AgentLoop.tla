------------------------------ MODULE AgentLoop ------------------------------
(***************************************************************************)
(* One turn of the ReAct loop (internal/agent/loop.go): requests to the    *)
(* LLM alternate with tool calls, each of which is looked up, validated,   *)
(* approved, passed through the pre hook and executed, until a request     *)
(* answers without a tool call.  When the prompt asks for news, web_search *)
(* and web_fetch run before the first request; when it asks for more       *)
(* detail, or web tools ran, candidate answers are held back and checked.  *)
(*                                                                         *)
(* The LLM, the tools, the reviewer and the hooks answer anything.  Texts  *)
(* are abstracted to their origin: the number of the request that          *)
(* generated them, or Fixed for a message of the program.                  *)
(***************************************************************************)
EXTENDS Integers, Sequences, SequencesExt

CONSTANTS
    CallIds,            \* IDs a model gives to tool calls; it may repeat one
    Safe, Guarded,      \* registered tools, without and with approval
    Unknown,            \* tool names that are not registered
    MaxToolHops,        \* Input.MaxToolHops
    MaxValidationRetries, \* reactState.maxValidationRetries
    MaxResponseRetries, \* maxResponseRetries
    None,
    MaxCalls            \* bound: tool calls in one stream

Names == Safe \cup Guarded \cup Unknown
Fixed == 0

ASSUME NamesAssumption ==
    /\ Safe \cap Guarded = {} /\ (Safe \cup Guarded) \cap Unknown = {}
    /\ None \notin CallIds \cup Names
ASSUME CallIdsAssumption == CallIds \subseteq STRING /\ {"webs", "webf"} \cap CallIds = {}
ASSUME BoundsAssumption ==
    {MaxToolHops, MaxValidationRetries, MaxResponseRetries, MaxCalls} \subseteq Nat

VARIABLES
    pc,
    expand,   \* expansionRequested
    news,     \* automatic tool choice, and the prompt asks for a web search
    web,      \* automaticWebToolsExecuted
    hop,
    answerRetries, expansionRetries,
    validationRetries, lastValidationCallID,
    request,  \* number of requests to the LLM so far
    content,  \* streamAccumulator: is there any text
    call,     \* streamAccumulator, then the call being handled, or None
    received, \* tool calls received in this stream
    cand,     \* the origin of the candidate answer being checked
    msgs,     \* reactState.msgs from turnMessageStart: role and call ID
    audit,    \* tool_call and tool_result records of the audit log
    shown,    \* origins of the text sent as EventDelta, repetitions left out
    ended,    \* EventFinal and EventError events: kind and origin of the text
    failures, \* history: validation failures since a call was valid
    cleared,  \* history: checks the call being handled has passed
    executed  \* history: executed calls of the model, with what they had passed

counters == <<answerRetries, expansionRetries>>
budget   == <<validationRetries, lastValidationCallID>>
stream   == <<content, received>>
ask      == <<expand, news>>
hist     == <<failures, cleared, executed>>
vars == <<pc, ask, web, hop, counters, budget, request, stream, call, cand, msgs, audit,
          shown, ended, hist>>

Init ==
    /\ pc = "start"
    /\ expand \in BOOLEAN /\ news \in BOOLEAN /\ web = FALSE
    /\ hop = 0
    /\ answerRetries = 0 /\ expansionRetries = 0
    /\ validationRetries = 0 /\ lastValidationCallID = None
    /\ request = 0
    /\ content = FALSE /\ received = 0
    /\ call = None
    /\ msgs = <<>> /\ audit = <<>> /\ shown = <<>> /\ ended = <<>>
    /\ cand = Fixed
    /\ failures = 0 /\ cleared = {} /\ executed = <<>>

ToolMsg(c)      == [role |-> "tool", id |-> c.id]
AssistantMsg(i) == [role |-> "assistant", id |-> i]
Calls(c)        == [kind |-> "tool_call", id |-> c.id]
Results(c)      == [kind |-> "tool_result", id |-> c.id]

\* emitFail.
Fail ==
    /\ ended' = Append(ended, [kind |-> "error", of |-> Fixed])
    /\ pc' = "done"

-------------------------------------------------------------------------------
(* Before the first request.                                                 *)

\* Resolve, newReactState with the input scan, resolveToolPlan.
Start ==
    /\ pc = "start"
    /\ \/ Fail
       \/ pc' = (IF news THEN "search" ELSE "request") /\ UNCHANGED ended
    /\ UNCHANGED <<ask, web, hop, counters, budget, request, stream, call, cand, msgs, audit,
                   shown, hist>>

\* invokeAutomaticTool: neither validated nor counted as a hop.
Invoke(id) ==
    /\ audit' = audit \o <<Calls([id |-> id]), Results([id |-> id])>>
    /\ msgs' = msgs \o <<AssistantMsg(id), ToolMsg([id |-> id])>>

\* runAutomaticWebTools: no web_search tool, or a search, which a fetch may
\* follow when it succeeds and names a URL.
WebSearch ==
    /\ pc = "search"
    /\ \/ pc' = "request" /\ UNCHANGED <<web, msgs, audit>>
       \/ /\ web' = TRUE
          /\ Invoke("webs")
          /\ pc' \in {"fetch", "request"}
    /\ UNCHANGED <<ask, hop, counters, budget, request, stream, call, cand,
                   shown, ended, hist>>

\* runAutomaticWebFetch.
WebFetch ==
    /\ pc = "fetch"
    /\ Invoke("webf")
    /\ pc' = "request"
    /\ UNCHANGED <<ask, web, hop, counters, budget, request, stream, call, cand,
                   shown, ended, hist>>

-------------------------------------------------------------------------------
(* streamTurn.                                                               *)

\* The loop's condition, and prov.Stream.
Request ==
    /\ pc = "request"
    /\ hop <= MaxToolHops
    /\ request' = request + 1
    /\ \/ Fail
       \/ pc' = "stream" /\ UNCHANGED ended
    /\ content' = FALSE /\ received' = 0 /\ call' = None
    /\ UNCHANGED <<ask, web, hop, counters, budget, cand, msgs, audit, shown, hist>>

\* The hops are used up.
OutOfHops ==
    /\ pc = "request"
    /\ hop > MaxToolHops
    /\ Fail
    /\ UNCHANGED <<ask, web, hop, counters, budget, request, stream, call, cand, msgs, audit,
                   shown, hist>>

Show(n) == shown' = IF shown # <<>> /\ Last(shown) = n THEN shown ELSE Append(shown, n)

\* Mutation: candidates are shown as they come, checked or not.
RecvDeltaShown ==
    /\ pc = "stream"
    /\ content' = TRUE
    /\ Show(request)
    /\ UNCHANGED <<pc, ask, web, hop, counters, budget, request, received, call, cand, msgs, audit,
                   ended, hist>>

\* accumulateStreamEvent with text, which is shown at once only when no check
\* of the answer is due.
RecvDelta ==
    /\ pc = "stream"
    /\ content' = TRUE
    /\ IF ~ expand /\ ~ web THEN Show(request) ELSE UNCHANGED shown
    /\ UNCHANGED <<pc, ask, web, hop, counters, budget, request, received, call, cand, msgs, audit,
                   ended, hist>>

\* accumulateStreamEvent with a tool call: the last one of the stream counts.
RecvToolCall ==
    /\ pc = "stream"
    /\ received < MaxCalls
    /\ received' = received + 1
    /\ call' \in [id : CallIds, name : Names]
    /\ UNCHANGED <<pc, ask, web, hop, counters, budget, request, content, cand, msgs, audit,
                   shown, ended, hist>>

\* The stream breaks off, its Close fails or billing refuses the usage.
StreamFails ==
    /\ pc = "stream"
    /\ Fail
    /\ UNCHANGED <<ask, web, hop, counters, budget, request, stream, call, cand, msgs, audit,
                   shown, hist>>

\* The stream ends.  A tool call goes into the history and the audit log before
\* anything is checked.
StreamEnds ==
    /\ pc = "stream"
    /\ IF call = None
       THEN pc' = "answer" /\ UNCHANGED <<msgs, audit>>
       ELSE /\ pc' = "lookup"
            /\ msgs' = Append(msgs, AssistantMsg(call.id))
            /\ audit' = Append(audit, Calls(call))
    /\ cleared' = {}
    /\ UNCHANGED <<ask, web, hop, counters, budget, request, stream, call, cand,
                   shown, ended, failures, executed>>

-------------------------------------------------------------------------------
(* resolveAssistantContent.                                                  *)

\* What answerContentSufficient and expansionAnswerSufficient may say of a
\* text; an empty one is never sufficient.
Verdicts(some) == IF some THEN BOOLEAN ELSE {FALSE}

\* Mutation: the retry is not counted.
CheckWebAnswerUncounted ==
    /\ pc = "answer"
    /\ \/ ~ web /\ pc' = "detail" /\ cand' = request /\ UNCHANGED <<counters, shown>>
       \/ web /\ \E sufficient \in Verdicts(content) :
            \/ /\ ~ sufficient
               /\ pc' = "request"
               /\ UNCHANGED <<counters, cand, shown>>
            \/ /\ sufficient
               /\ cand' = request
               /\ shown' = Append(shown, cand')
               /\ pc' = "detail"
               /\ UNCHANGED counters
    /\ UNCHANGED <<ask, web, hop, budget, request, stream, call, msgs, audit, ended, hist>>

\* After web tools: an insufficient answer is generated again, at most
\* MaxResponseRetries times, and then replaced; what passes is shown.
CheckWebAnswer ==
    /\ pc = "answer"
    /\ \/ ~ web /\ pc' = "detail" /\ cand' = request /\ UNCHANGED <<counters, shown>>
       \/ web /\ \E sufficient \in Verdicts(content) :
            \/ /\ ~ sufficient /\ answerRetries < MaxResponseRetries
               /\ answerRetries' = answerRetries + 1
               /\ pc' = "request"
               /\ UNCHANGED <<expansionRetries, cand, shown>>
            \/ /\ sufficient \/ answerRetries >= MaxResponseRetries
               /\ cand' = IF sufficient THEN request ELSE Fixed
               /\ shown' = Append(shown, cand')
               /\ pc' = "detail"
               /\ UNCHANGED counters
    /\ UNCHANGED <<ask, web, hop, budget, request, stream, call, msgs, audit, ended, hist>>

\* The answer of the turn, after EventFinal with the messages of the turn.
Finish(n) ==
    /\ msgs' = Append(msgs, AssistantMsg(None))
    /\ ended' = Append(ended, [kind |-> "final", of |-> n])
    /\ pc' = "done"

\* The same for an answer with more detail, then the end of the turn.
CheckExpansion ==
    /\ pc = "detail"
    /\ \/ ~ expand /\ Finish(cand) /\ UNCHANGED <<expansionRetries, shown>>
       \/ expand /\ \E sufficient \in Verdicts(content \/ cand = Fixed) :
            \/ /\ ~ sufficient /\ expansionRetries < MaxResponseRetries
               /\ expansionRetries' = expansionRetries + 1
               /\ pc' = "request"
               /\ UNCHANGED <<msgs, ended, shown>>
            \/ /\ sufficient \/ expansionRetries >= MaxResponseRetries
               /\ LET n == IF sufficient THEN cand ELSE Fixed
                  IN  Finish(n) /\ shown' = Append(shown, n)
               /\ UNCHANGED expansionRetries
    /\ UNCHANGED <<ask, web, hop, answerRetries, budget, request, stream, call, cand, audit, hist>>

-------------------------------------------------------------------------------
(* handleToolCall.                                                           *)

\* Mutation: a failure that ends the turn leaves no tool_result.
AbortUnrecorded == Fail /\ UNCHANGED audit

\* An error of handleToolCall: runReAct records a tool_result and ends the turn.
Abort ==
    /\ audit' = Append(audit, Results(call))
    /\ Fail

\* Mutation: a call that is not executed gets no result in the history.
AnswerCallUnsaid ==
    /\ audit' = Append(audit, Results(call))
    /\ hop' = hop + 1
    /\ pc' = "request"
    /\ UNCHANGED msgs

\* The result of an execution, a denial or a failed validation goes into the
\* audit log and the history, and the next hop begins.
AnswerCall ==
    /\ audit' = Append(audit, Results(call))
    /\ msgs' = Append(msgs, ToolMsg(call))
    /\ hop' = hop + 1
    /\ pc' = "request"

\* Lookup in the registry.
LookupTool ==
    /\ pc = "lookup"
    /\ \/ call.name \notin Unknown /\ pc' = "validate" /\ UNCHANGED <<audit, ended>>
       \/ call.name \in Unknown /\ Abort
    /\ UNCHANGED <<ask, web, hop, counters, budget, request, stream, call, cand, msgs, shown, hist>>

\* Failures counted so far for this call ID.
Retries == IF call.id = lastValidationCallID THEN validationRetries ELSE 0

ValidateArgsUpTo(limit) ==
    /\ pc = "validate"
    /\ lastValidationCallID' = call.id
    /\ \/ /\ validationRetries' = Retries
          /\ failures' = 0
          /\ cleared' = cleared \cup {"valid"}
          /\ pc' = "approve"
          /\ UNCHANGED <<hop, msgs, audit, ended>>
       \/ /\ Retries < limit
          /\ validationRetries' = Retries + 1
          /\ failures' = failures + 1
          /\ AnswerCall
          /\ UNCHANGED <<ended, cleared>>
       \/ /\ Retries >= limit
          /\ validationRetries' = Retries
          /\ failures' = failures + 1
          /\ Abort
          /\ UNCHANGED <<hop, msgs, cleared>>
    /\ UNCHANGED <<ask, web, counters, request, stream, call, cand, shown, executed>>

\* Mutation: one retry too many.
ValidateArgsOnceMore == ValidateArgsUpTo(MaxValidationRetries + 1)

\* validateToolArgs: without a validator everything is valid.
ValidateArgs == ValidateArgsUpTo(MaxValidationRetries)

\* Mutation: only an error of the decider is looked at.
RequestApprovalIgnored ==
    /\ pc = "approve"
    /\ \/ pc' = "hook" /\ cleared' \in {cleared, cleared \cup {"approved"}}
          /\ UNCHANGED <<audit, ended>>
       \/ call.name \in Guarded /\ Abort /\ UNCHANGED cleared
    /\ UNCHANGED <<ask, web, hop, counters, budget, request, stream, call, cand, msgs, shown,
                   failures, executed>>

\* requestApproval: allowed, denied (which includes a timeout) or an error.
RequestApproval ==
    /\ pc = "approve"
    /\ \/ /\ call.name \notin Guarded
          /\ pc' = "hook"
          /\ UNCHANGED <<hop, msgs, audit, ended, cleared>>
       \/ /\ call.name \in Guarded
          /\ pc' = "hook"
          /\ cleared' = cleared \cup {"approved"}
          /\ UNCHANGED <<hop, msgs, audit, ended>>
       \/ call.name \in Guarded /\ AnswerCall /\ UNCHANGED <<ended, cleared>>
       \/ call.name \in Guarded /\ Abort /\ UNCHANGED <<hop, msgs, cleared>>
    /\ UNCHANGED <<ask, web, counters, budget, request, stream, call, cand, shown,
                   failures, executed>>

\* hooks.RunPre.
RunPreHook ==
    /\ pc = "hook"
    /\ \/ pc' = "execute" /\ cleared' = cleared \cup {"hook"} /\ UNCHANGED <<hop, msgs, audit>>
       \/ AnswerCall /\ UNCHANGED cleared
    /\ UNCHANGED <<ask, web, counters, budget, request, stream, call, cand, shown, ended,
                   failures, executed>>

\* executeAndRecord: the tool, the post hook and the result.
Execute ==
    /\ pc = "execute"
    /\ executed' = Append(executed, [name |-> call.name, cleared |-> cleared])
    /\ AnswerCall
    /\ UNCHANGED <<ask, web, counters, budget, request, stream, call, cand, shown, ended,
                   failures, cleared>>

\* Run has returned.
Returned == pc = "done" /\ UNCHANGED vars

Next ==
    \/ Start \/ WebSearch \/ WebFetch
    \/ Request \/ OutOfHops \/ RecvDelta \/ RecvToolCall \/ StreamFails \/ StreamEnds
    \/ CheckWebAnswer \/ CheckExpansion
    \/ LookupTool \/ ValidateArgs \/ RequestApproval \/ RunPreHook \/ Execute
    \/ Returned

Spec == Init /\ [][Next]_vars
-------------------------------------------------------------------------------
Ids == CallIds \cup {"webs", "webf"}

\* Types; a call ID is given at most MaxValidationRetries chances in a row to
\* correct its arguments (loop.go:414).
TypeOK ==
    /\ pc \in {"start", "search", "fetch", "request", "stream", "answer", "detail",
              "lookup", "validate", "approve", "hook", "execute", "done"}
    /\ {expand, news, web, content} \subseteq BOOLEAN
    /\ hop \in 0 .. MaxToolHops + 1
    /\ {answerRetries, expansionRetries} \subseteq 0 .. MaxResponseRetries
    /\ validationRetries \in 0 .. MaxValidationRetries
    /\ lastValidationCallID \in CallIds \cup {None}
    /\ request \in Nat
    /\ received \in 0 .. MaxCalls
    /\ call \in [id : CallIds, name : Names] \cup {None}
    /\ cand \in Nat
    /\ msgs \in Seq([role : {"tool", "assistant"}, id : Ids \cup {None}])
    /\ audit \in Seq([kind : {"tool_call", "tool_result"}, id : Ids])
    /\ shown \in Seq(Nat)
    /\ ended \in Seq([kind : {"final", "error"}, of : Nat])
    /\ failures \in Nat
    /\ cleared \subseteq {"valid", "approved", "hook"}
    /\ executed \in Seq([name : Names, cleared : SUBSET {"valid", "approved", "hook"}])
    /\ pc \in {"lookup", "validate", "approve", "hook", "execute"} => call # None

Final == pc = "done" /\ Last(ended).kind = "final"

\* Whenever the history goes to the LLM or to the caller, each tool call of the
\* turn is directly followed by its result and each result preceded by its
\* call, whatever became of the call (loop.go:120, 502, 509, 116).
HistoryIsPaired ==
    pc \in {"request", "stream", "answer", "detail"} \/ Final =>
        \A i \in DOMAIN msgs :
            /\ msgs[i].role = "assistant" /\ msgs[i].id # None =>
                  i < Len(msgs) /\ msgs[i + 1] = [role |-> "tool", id |-> msgs[i].id]
            /\ msgs[i].role = "tool" =>
                  i > 1 /\ msgs[i - 1] = AssistantMsg(msgs[i].id)

\* Each tool_call record of the audit log is followed by one tool_result of the
\* same ID, on every path out of a call, those that end the turn included
\* (loop.go:122).
AuditIsPaired ==
    pc \in {"request", "stream", "answer", "detail", "done"} =>
        /\ Len(audit) % 2 = 0
        /\ \A i \in DOMAIN audit :
              IF i % 2 = 1
              THEN audit[i].kind = "tool_call" /\ audit[i + 1].id = audit[i].id
              ELSE audit[i].kind = "tool_result"

\* No tool runs for the model unless its arguments were valid, the reviewer had
\* allowed it where that is asked for, and the pre hook let it pass after that;
\* one run per hop (loop.go:366-395).
ExecutedIsCleared ==
    /\ Len(executed) <= hop
    /\ \A i \in DOMAIN executed :
          /\ executed[i].name \notin Unknown
          /\ {"valid", "hook"} \subseteq executed[i].cleared
          /\ executed[i].name \in Guarded => "approved" \in executed[i].cleared

\* A turn costs at most one request per hop, one for the answer and the retries
\* of the two checks, although a retry takes the hop back (loop.go:97-113).
RequestsBounded ==
    request <= MaxToolHops + 1 + (IF web THEN MaxResponseRetries ELSE 0)
                               + (IF expand THEN MaxResponseRetries ELSE 0)

\* When candidates are held back for one of the checks, the text on the screen is
\* exactly that of the answer (loop.go:104, 337-363).
ShownIsFinal ==
    Final /\ web # expand => shown = <<Last(ended).of>>
===============================================================================
