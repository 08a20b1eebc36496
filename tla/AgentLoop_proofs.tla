---------------------------- MODULE AgentLoop_proofs ---------------------------
(***************************************************************************)
(* The safety properties of a turn, for any number of hops and retries and *)
(* any sets of tools and call IDs.                                         *)
(*                                                                         *)
(* The argument: from the end of a stream with a call to the result of the *)
(* call (Handling), the history and the audit log end in that call and are *)
(* paired before it; at all other times they are paired (Paired).  Each    *)
(* request is paid by a hop or a retry (Paid), the checks a call has       *)
(* passed are those of the pc it is at (Checked), and where a check of the *)
(* answer is due nothing is shown before it (Held).                        *)
(***************************************************************************)
EXTENDS AgentLoop, SequenceTheorems, TLAPS

Handling == {"lookup", "validate", "approve", "hook", "execute"}
Before == {"start", "search", "fetch", "request"}
During == {"stream", "answer", "detail"} \cup Handling

\* The turn has ended exactly when its last event has been sent.
Over ==
    /\ pc # "done" => ended = <<>>
    /\ pc = "done" => \E e \in [kind : {"final", "error"}, of : Nat] : ended = <<e>>

\* The first n messages are pairs of a call and its result, and messages without a call.
MsgsPaired(n) ==
    \A i \in 1 .. n :
        /\ msgs[i].role = "assistant" /\ msgs[i].id # None =>
              i < n /\ msgs[i + 1] = [role |-> "tool", id |-> msgs[i].id]
        /\ msgs[i].role = "tool" => i > 1 /\ msgs[i - 1] = AssistantMsg(msgs[i].id)

MsgsInv ==
    /\ pc \in Handling =>
          /\ Len(msgs) > 0 /\ msgs[Len(msgs)] = AssistantMsg(call.id)
          /\ MsgsPaired(Len(msgs) - 1)
    /\ pc \notin Handling \cup {"done"} \/ Final => MsgsPaired(Len(msgs))

\* The first n records are pairs of a call and its result.
AuditPaired(n) ==
    /\ n % 2 = 0
    /\ \A i \in 1 .. n :
          IF i % 2 = 1
          THEN audit[i].kind = "tool_call" /\ audit[i + 1].id = audit[i].id
          ELSE audit[i].kind = "tool_result"

AuditInv ==
    /\ pc \in Handling =>
          /\ Len(audit) > 0 /\ audit[Len(audit)] = Calls(call)
          /\ AuditPaired(Len(audit) - 1)
    /\ pc \notin Handling => AuditPaired(Len(audit))

\* Every request but the last was followed by a hop or a counted retry.
Paid ==
    /\ ~ web => answerRetries = 0
    /\ ~ expand => expansionRetries = 0
    /\ pc \in Before => request <= hop + answerRetries + expansionRetries
    /\ pc \in During => /\ hop <= MaxToolHops
                        /\ request <= hop + 1 + answerRetries + expansionRetries
    /\ pc = "done" => request <= MaxToolHops + 1 + answerRetries + expansionRetries

\* What the call being handled has passed.
Checked ==
    /\ pc \in Handling \ {"lookup"} => call.name \notin Unknown
    /\ pc \in {"approve", "hook", "execute"} => "valid" \in cleared
    /\ pc \in {"hook", "execute"} /\ call.name \in Guarded => "approved" \in cleared
    /\ pc = "execute" => "hook" \in cleared

\* Where one check is due, only what has passed it has been shown.
Held ==
    /\ pc \in {"start", "search"} => shown = <<>> /\ ~ web
    /\ web /\ ~ expand /\ pc # "done" => shown = (IF pc = "detail" THEN <<cand>> ELSE <<>>)
    /\ expand /\ ~ web /\ pc # "done" => shown = <<>>

IInv ==
    /\ TypeOK /\ Over
    /\ MsgsInv
    /\ AuditInv
    /\ Paid
    /\ Checked /\ ExecutedIsCleared
    /\ Held /\ ShownIsFinal

-------------------------------------------------------------------------------
(* TypeOK in three parts, and each part at each action.                      *)

Msg == [role : {"tool", "assistant"}, id : Ids \cup {None}]
Record == [kind : {"tool_call", "tool_result"}, id : Ids]
Ending == [kind : {"final", "error"}, of : Nat]
Run == [name : Names, cleared : SUBSET {"valid", "approved", "hook"}]

\* Control: pc and the flags.
Flags ==
    /\ pc \in {"start", "search", "fetch", "request", "stream", "answer", "detail",
              "lookup", "validate", "approve", "hook", "execute", "done"}
    /\ expand \in BOOLEAN /\ news \in BOOLEAN /\ web \in BOOLEAN /\ content \in BOOLEAN
    /\ call \in [id : CallIds, name : Names] \cup {None}
    /\ pc \in Handling => call # None
    /\ lastValidationCallID \in CallIds \cup {None}
    /\ cleared \subseteq {"valid", "approved", "hook"}

Numbers ==
    /\ hop \in 0 .. MaxToolHops + 1
    /\ answerRetries \in 0 .. MaxResponseRetries
    /\ expansionRetries \in 0 .. MaxResponseRetries
    /\ validationRetries \in 0 .. MaxValidationRetries
    /\ request \in Nat /\ received \in 0 .. MaxCalls
    /\ cand \in Nat /\ failures \in Nat

Sequences ==
    /\ msgs \in Seq(Msg) /\ audit \in Seq(Record)
    /\ shown \in Seq(Nat) /\ ended \in Seq(Ending)
    /\ executed \in Seq(Run)

LEMMA TypeParts == TypeOK <=> Flags /\ Numbers /\ Sequences
<1>1. TypeOK => Flags
  BY DEF TypeOK, Flags, Handling
<1>2. TypeOK => Numbers
  BY DEF TypeOK, Numbers
<1>3. TypeOK => Sequences
  BY DEF TypeOK, Sequences, Msg, Record, Ending, Run
<1>4. Flags /\ Numbers /\ Sequences => TypeOK
  BY DEF TypeOK, Flags, Numbers, Sequences, Handling, Msg, Record, Ending, Run
<1> QED BY <1>1, <1>2, <1>3, <1>4

\* Appending one element.
LEMMA Appended ==
    ASSUME NEW S, NEW s \in Seq(S), NEW e \in S
    PROVE  /\ Append(s, e) \in Seq(S)
           /\ Len(Append(s, e)) = Len(s) + 1 /\ Len(s) \in Nat
           /\ Append(s, e)[Len(s) + 1] = e
           /\ \A i \in 1 .. Len(s) : Append(s, e)[i] = s[i]
  OBVIOUS

LEMMA InitIInv == ASSUME Init PROVE IInv
<1> USE DEF Init
<1>1. TypeOK
  <2>1. content \in BOOLEAN /\ web \in BOOLEAN
    BY Zenon
  <2>2. Flags
    BY <2>1 DEF Flags, Handling
  <2>3. Numbers
    BY BoundsAssumption DEF Numbers, Fixed
  <2>4. Sequences
    BY DEF Sequences
  <2> QED BY <2>2, <2>3, <2>4, TypeParts
<1>2. Over /\ MsgsInv /\ AuditInv
  BY DEF Over, MsgsInv, MsgsPaired, AuditInv, AuditPaired, Handling, Final
<1>3. Paid
  BY BoundsAssumption DEF Paid, Before, During, Handling
<1>4. Checked /\ ExecutedIsCleared
  BY DEF Checked, ExecutedIsCleared, Handling
<1>5. Held /\ ShownIsFinal
  BY DEF Held, ShownIsFinal, Final
<1> QED BY <1>1, <1>2, <1>3, <1>4, <1>5 DEF IInv

\* Control stays in its ranges.
LEMMA FlagsKept == ASSUME IInv, [Next]_vars PROVE Flags'
<1> USE DEF ask, counters, budget, stream, hist, Flags, Handling
<1>0. Flags
  BY TypeParts DEF IInv
<1>1. CASE Start
  BY <1>1, <1>0 DEF Start, Fail
<1>2. CASE WebSearch
  BY <1>2, <1>0 DEF WebSearch, Invoke
<1>3. CASE WebFetch
  BY <1>3, <1>0 DEF WebFetch, Invoke
<1>4. CASE Request
  BY <1>4, <1>0 DEF Request, Fail
<1>5. CASE OutOfHops
  BY <1>5, <1>0 DEF OutOfHops, Fail
<1>6. CASE RecvDelta
  BY <1>6, <1>0 DEF RecvDelta, Show
<1>7. CASE RecvToolCall
  BY <1>7, <1>0 DEF RecvToolCall
<1>8. CASE StreamFails
  BY <1>8, <1>0 DEF StreamFails, Fail
<1>9. CASE StreamEnds
  BY <1>9, <1>0 DEF StreamEnds
<1>10. CASE CheckWebAnswer
  BY <1>10, <1>0 DEF CheckWebAnswer, Verdicts
<1>11. CASE CheckExpansion
  BY <1>11, <1>0 DEF CheckExpansion, Verdicts, Finish
<1>12. CASE LookupTool
  BY <1>12, <1>0 DEF LookupTool, Abort, Fail
<1>13. CASE ValidateArgs
  BY <1>13, <1>0 DEF ValidateArgs, ValidateArgsUpTo, Retries, AnswerCall, Abort, Fail
<1>14. CASE RequestApproval
  BY <1>14, <1>0 DEF RequestApproval, AnswerCall, Abort, Fail
<1>15. CASE RunPreHook
  BY <1>15, <1>0 DEF RunPreHook, AnswerCall
<1>16. CASE Execute
  BY <1>16, <1>0 DEF Execute, AnswerCall
<1>17. CASE UNCHANGED vars \/ Returned
  BY <1>17, <1>0 DEF vars, Returned
<1> QED BY <1>1, <1>2, <1>3, <1>4, <1>5, <1>6, <1>7, <1>8, <1>9, <1>10, <1>11, <1>12, <1>13,
   <1>14, <1>15, <1>16, <1>17 DEF Next

\* Counters stay within their bounds.
LEMMA NumbersKept == ASSUME IInv, [Next]_vars PROVE Numbers'
<1> USE DEF ask, counters, budget, stream, hist, Numbers, During, Handling, Fixed
<1>0. Numbers /\ Flags /\ (pc \in During => hop <= MaxToolHops)
  BY TypeParts DEF IInv, Paid
<1>b. /\ MaxToolHops \in Nat /\ MaxValidationRetries \in Nat
      /\ MaxResponseRetries \in Nat /\ MaxCalls \in Nat
  BY BoundsAssumption
<1>1. CASE Start
  BY <1>1, <1>0, <1>b DEF Start, Fail
<1>2. CASE WebSearch
  BY <1>2, <1>0, <1>b DEF WebSearch, Invoke
<1>3. CASE WebFetch
  BY <1>3, <1>0, <1>b DEF WebFetch, Invoke
<1>4. CASE Request
  BY <1>4, <1>0, <1>b DEF Request, Fail
<1>5. CASE OutOfHops
  BY <1>5, <1>0, <1>b DEF OutOfHops, Fail
<1>6. CASE RecvDelta
  BY <1>6, <1>0, <1>b DEF RecvDelta, Show
<1>7. CASE RecvToolCall
  BY <1>7, <1>0, <1>b DEF RecvToolCall
<1>8. CASE StreamFails
  BY <1>8, <1>0, <1>b DEF StreamFails, Fail
<1>9. CASE StreamEnds
  BY <1>9, <1>0, <1>b DEF StreamEnds
<1>10. CASE CheckWebAnswer
  <2>1. /\ UNCHANGED <<hop, expansionRetries, validationRetries, request, received, failures>>
        /\ \/ answerRetries' = answerRetries
           \/ answerRetries < MaxResponseRetries /\ answerRetries' = answerRetries + 1
        /\ cand' \in {cand, request, Fixed}
    BY <1>10 DEF CheckWebAnswer
  <2> QED BY <1>0, <1>b, <2>1 DEF Numbers, Fixed
<1>11. CASE CheckExpansion
  <2>1. /\ UNCHANGED <<hop, answerRetries, validationRetries, request, received, failures, cand>>
        /\ \/ expansionRetries' = expansionRetries
           \/ /\ expansionRetries < MaxResponseRetries
              /\ expansionRetries' = expansionRetries + 1
    BY <1>11 DEF CheckExpansion
  <2> QED BY <1>0, <1>b, <2>1 DEF Numbers
<1>12. CASE LookupTool
  BY <1>12, <1>0, <1>b DEF LookupTool, Abort, Fail
<1>13. CASE ValidateArgs
  BY <1>13, <1>0, <1>b DEF ValidateArgs, ValidateArgsUpTo, Retries, AnswerCall, Abort, Fail
<1>14. CASE RequestApproval
  BY <1>14, <1>0, <1>b DEF RequestApproval, AnswerCall, Abort, Fail
<1>15. CASE RunPreHook
  BY <1>15, <1>0, <1>b DEF RunPreHook, AnswerCall
<1>16. CASE Execute
  BY <1>16, <1>0, <1>b DEF Execute, AnswerCall
<1>17. CASE UNCHANGED vars \/ Returned
  BY <1>17, <1>0, <1>b DEF vars, Returned
<1> QED BY <1>1, <1>2, <1>3, <1>4, <1>5, <1>6, <1>7, <1>8, <1>9, <1>10, <1>11, <1>12, <1>13,
   <1>14, <1>15, <1>16, <1>17 DEF Next

\* What is appended has its type.
LEMMA Elements ==
    /\ \A c \in [id : CallIds, name : Names] :
          /\ ToolMsg(c) \in Msg /\ AssistantMsg(c.id) \in Msg
          /\ Calls(c) \in Record /\ Results(c) \in Record
          /\ \A t \in SUBSET {"valid", "approved", "hook"} :
                [name |-> c.name, cleared |-> t] \in Run
    /\ AssistantMsg(None) \in Msg
    /\ \A i \in {"webs", "webf"} :
          /\ AssistantMsg(i) \in Msg /\ ToolMsg([id |-> i]) \in Msg
          /\ Calls([id |-> i]) \in Record /\ Results([id |-> i]) \in Record
    /\ \A n \in Nat : \A k \in {"final", "error"} : [kind |-> k, of |-> n] \in Ending
  BY DEF ToolMsg, AssistantMsg, Calls, Results, Msg, Record, Run, Ending, Ids

\* A sequence over S is left alone or grows by elements of S.
Grown(old, new, S) ==
    \/ new = old
    \/ \E e \in S : new = Append(old, e)
    \/ \E e, f \in S : new = old \o <<e, f>>

LEMMA GrownIsTyped ==
    ASSUME NEW S, NEW old \in Seq(S), NEW new, Grown(old, new, S)
    PROVE  new \in Seq(S)
<1>1. CASE \E e \in S : new = Append(old, e)
  BY <1>1, AppendProperties
<1>2. CASE \E e, f \in S : new = old \o <<e, f>>
  <2>1. \A e, f \in S : <<e, f>> \in Seq(S)
    OBVIOUS
  <2> QED BY <1>2, <2>1, ConcatProperties
<1> QED BY <1>1, <1>2 DEF Grown

\* Every action lets the sequences grow by elements of their type.
LEMMA SequencesGrow ==
    ASSUME IInv, [Next]_vars
    PROVE  /\ Grown(msgs, msgs', Msg) /\ Grown(audit, audit', Record)
           /\ Grown(shown, shown', Nat) /\ Grown(ended, ended', Ending)
           /\ Grown(executed, executed', Run)
<1> USE DEF ask, counters, budget, stream, hist, Grown, Handling, Fixed
<1>0. /\ cand \in Nat /\ request \in Nat
      /\ cleared \in SUBSET {"valid", "approved", "hook"}
      /\ call \in [id : CallIds, name : Names] \cup {None}
      /\ pc \in Handling => call # None
  BY TypeParts DEF IInv, Flags, Numbers
<1>1. CASE Start
  BY <1>1, <1>0, Elements DEF Start, Fail
<1>2. CASE WebSearch
  BY <1>2, <1>0, Elements DEF WebSearch, Invoke
<1>3. CASE WebFetch
  BY <1>3, <1>0, Elements DEF WebFetch, Invoke
<1>4. CASE Request
  BY <1>4, <1>0, Elements DEF Request, Fail
<1>5. CASE OutOfHops
  BY <1>5, <1>0, Elements DEF OutOfHops, Fail
<1>6. CASE RecvDelta
  BY <1>6, <1>0, Elements DEF RecvDelta, Show
<1>7. CASE RecvToolCall
  BY <1>7, <1>0, Elements DEF RecvToolCall
<1>8. CASE StreamFails
  BY <1>8, <1>0, Elements DEF StreamFails, Fail
<1>9. CASE StreamEnds
  BY <1>9, <1>0, Elements DEF StreamEnds
<1>10. CASE CheckWebAnswer
  BY <1>10, <1>0, Elements DEF CheckWebAnswer, Verdicts
<1>11. CASE CheckExpansion
  BY <1>11, <1>0, Elements DEF CheckExpansion, Verdicts, Finish
<1>12. CASE LookupTool
  BY <1>12, <1>0, Elements DEF LookupTool, Abort, Fail
<1>13. CASE ValidateArgs
    BY <1>13, <1>0, Elements DEF ValidateArgs, ValidateArgsUpTo, Retries, AnswerCall, Abort,
     Fail
<1>14. CASE RequestApproval
  BY <1>14, <1>0, Elements DEF RequestApproval, AnswerCall, Abort, Fail
<1>15. CASE RunPreHook
  BY <1>15, <1>0, Elements DEF RunPreHook, AnswerCall
<1>16. CASE Execute
  BY <1>16, <1>0, Elements DEF Execute, AnswerCall
<1>17. CASE UNCHANGED vars \/ Returned
  BY <1>17, <1>0, Elements DEF vars, Returned
<1> QED BY <1>1, <1>2, <1>3, <1>4, <1>5, <1>6, <1>7, <1>8, <1>9, <1>10, <1>11, <1>12, <1>13,
   <1>14, <1>15, <1>16, <1>17 DEF Next

\* So the sequences keep their types.
LEMMA SequencesKept == ASSUME IInv, [Next]_vars PROVE Sequences'
<1>1. Sequences
  BY TypeParts DEF IInv
<1> QED BY <1>1, SequencesGrow, GrownIsTyped DEF Sequences

\* What the two checks of an answer may do.
LEMMA CheckWebAnswerCases ==
    ASSUME CheckWebAnswer
    PROVE  /\ pc = "answer"
           /\ UNCHANGED <<expand, news, web, hop, expansionRetries, request, call, msgs, audit,
                          ended, hist>>
           /\ \/ ~ web /\ pc' = "detail" /\ UNCHANGED <<answerRetries, shown>>
              \/ /\ web /\ answerRetries < MaxResponseRetries
                 /\ answerRetries' = answerRetries + 1
                 /\ pc' = "request" /\ UNCHANGED shown
              \/ /\ web /\ pc' = "detail"
                 /\ shown' = Append(shown, cand') /\ UNCHANGED answerRetries
  BY DEF CheckWebAnswer, ask, counters

LEMMA CheckExpansionCases ==
    ASSUME CheckExpansion
    PROVE  /\ pc = "detail"
           /\ UNCHANGED <<expand, news, web, hop, answerRetries, request, call, cand, audit,
                          hist>>
           /\ \/ ~ expand /\ Finish(cand) /\ UNCHANGED <<expansionRetries, shown>>
              \/ /\ expand /\ expansionRetries < MaxResponseRetries
                 /\ expansionRetries' = expansionRetries + 1
                 /\ pc' = "request" /\ UNCHANGED <<msgs, ended, shown>>
              \/ /\ expand /\ UNCHANGED expansionRetries
                 /\ \E n \in {cand, Fixed} : Finish(n) /\ shown' = Append(shown, n)
  BY DEF CheckExpansion, ask

\* EventFinal and EventError end the turn.
LEMMA OverKept == ASSUME IInv, [Next]_vars PROVE Over'
<1> USE DEF ask, counters, budget, stream, hist, Over, Fixed
<1>0. Over /\ cand \in Nat
  BY TypeParts DEF IInv, Numbers
<1>1. CASE Start
  BY <1>1, <1>0 DEF Start, Fail
<1>2. CASE WebSearch
  BY <1>2, <1>0 DEF WebSearch, Invoke
<1>3. CASE WebFetch
  BY <1>3, <1>0 DEF WebFetch, Invoke
<1>4. CASE Request
  BY <1>4, <1>0 DEF Request, Fail
<1>5. CASE OutOfHops
  BY <1>5, <1>0 DEF OutOfHops, Fail
<1>6. CASE RecvDelta
  BY <1>6, <1>0 DEF RecvDelta, Show
<1>7. CASE RecvToolCall
  BY <1>7, <1>0 DEF RecvToolCall
<1>8. CASE StreamFails
  BY <1>8, <1>0 DEF StreamFails, Fail
<1>9. CASE StreamEnds
  BY <1>9, <1>0 DEF StreamEnds
<1>10. CASE CheckWebAnswer
  BY <1>10, <1>0, CheckWebAnswerCases
<1>11. CASE CheckExpansion
  BY <1>11, <1>0, CheckExpansionCases DEF Finish
<1>12. CASE LookupTool
  BY <1>12, <1>0 DEF LookupTool, Abort, Fail
<1>13. CASE ValidateArgs
  BY <1>13, <1>0 DEF ValidateArgs, ValidateArgsUpTo, Retries, AnswerCall, Abort, Fail
<1>14. CASE RequestApproval
  BY <1>14, <1>0 DEF RequestApproval, AnswerCall, Abort, Fail
<1>15. CASE RunPreHook
  BY <1>15, <1>0 DEF RunPreHook, AnswerCall
<1>16. CASE Execute
  BY <1>16, <1>0 DEF Execute, AnswerCall
<1>17. CASE UNCHANGED vars \/ Returned
  BY <1>17, <1>0 DEF vars, Returned
<1> QED BY <1>1, <1>2, <1>3, <1>4, <1>5, <1>6, <1>7, <1>8, <1>9, <1>10, <1>11, <1>12, <1>13,
   <1>14, <1>15, <1>16, <1>17 DEF Next

\* A request is followed by a hop or a counted retry.
LEMMA PaidKept == ASSUME IInv, [Next]_vars PROVE Paid'
<1> USE DEF ask, counters, budget, stream, hist, Paid, Numbers, Before, During, Handling
<1>0. Paid /\ Numbers /\ Flags
  BY TypeParts DEF IInv
<1>b. MaxToolHops \in Nat /\ MaxResponseRetries \in Nat
  BY BoundsAssumption
<1>1. CASE Start
  BY <1>1, <1>0, <1>b DEF Start, Fail
<1>2. CASE WebSearch
  BY <1>2, <1>0, <1>b DEF WebSearch, Invoke
<1>3. CASE WebFetch
  BY <1>3, <1>0, <1>b DEF WebFetch, Invoke
<1>4. CASE Request
  BY <1>4, <1>0, <1>b DEF Request, Fail
<1>5. CASE OutOfHops
  BY <1>5, <1>0, <1>b DEF OutOfHops, Fail
<1>6. CASE RecvDelta
  BY <1>6, <1>0, <1>b DEF RecvDelta, Show
<1>7. CASE RecvToolCall
  BY <1>7, <1>0, <1>b DEF RecvToolCall
<1>8. CASE StreamFails
  BY <1>8, <1>0, <1>b DEF StreamFails, Fail
<1>9. CASE StreamEnds
  BY <1>9, <1>0, <1>b DEF StreamEnds
<1>10. CASE CheckWebAnswer
  BY <1>10, <1>0, <1>b, CheckWebAnswerCases
<1>11. CASE CheckExpansion
  <2>1. /\ pc = "detail" /\ UNCHANGED <<expand, web, hop, answerRetries, request>>
        /\ \/ pc' = "done" /\ expansionRetries' = expansionRetries
           \/ expand /\ pc' = "request" /\ expansionRetries' = expansionRetries + 1
    BY <1>11, CheckExpansionCases DEF Finish
  <2> QED BY <1>0, <1>b, <2>1
<1>12. CASE LookupTool \/ ValidateArgs \/ RequestApproval \/ RunPreHook \/ Execute
  <2>1. /\ pc \in Handling
        /\ UNCHANGED <<expand, web, answerRetries, expansionRetries, request>>
        /\ \/ hop' = hop /\ pc' \in Handling \cup {"done"}
           \/ hop' = hop + 1 /\ pc' = "request"
    BY <1>12 DEF LookupTool, ValidateArgs, ValidateArgsUpTo, RequestApproval, RunPreHook,
       Execute, AnswerCall, Abort, Fail
  <2> QED BY <1>0, <1>b, <2>1
<1>13. CASE UNCHANGED vars \/ Returned
  BY <1>13, <1>0, <1>b DEF vars, Returned
<1> QED BY <1>1, <1>2, <1>3, <1>4, <1>5, <1>6, <1>7, <1>8, <1>9, <1>10, <1>11, <1>12, <1>13
   DEF Next

\* A call is executed after all of its checks.
LEMMA CheckedKept == ASSUME IInv, [Next]_vars PROVE (Checked /\ ExecutedIsCleared)'
<1> USE DEF ask, counters, budget, stream, hist, Checked, ExecutedIsCleared, Handling,
            Before
<1>0. /\ Checked /\ ExecutedIsCleared /\ executed \in Seq(Run) /\ hop \in Nat
  BY TypeParts, BoundsAssumption DEF IInv, Sequences, Numbers
<1>1. CASE Start
  BY <1>1, <1>0 DEF Start, Fail
<1>2. CASE WebSearch
  BY <1>2, <1>0 DEF WebSearch, Invoke
<1>3. CASE WebFetch
  BY <1>3, <1>0 DEF WebFetch, Invoke
<1>4. CASE Request
  BY <1>4, <1>0 DEF Request, Fail
<1>5. CASE OutOfHops
  BY <1>5, <1>0 DEF OutOfHops, Fail
<1>6. CASE RecvDelta
  BY <1>6, <1>0 DEF RecvDelta, Show
<1>7. CASE RecvToolCall
  BY <1>7, <1>0 DEF RecvToolCall
<1>8. CASE StreamFails
  BY <1>8, <1>0 DEF StreamFails, Fail
<1>9. CASE StreamEnds
  BY <1>9, <1>0 DEF StreamEnds
<1>10. CASE CheckWebAnswer
  BY <1>10, <1>0, CheckWebAnswerCases
<1>11. CASE CheckExpansion
  BY <1>11, <1>0, CheckExpansionCases DEF Finish
<1>12. CASE LookupTool
  BY <1>12, <1>0 DEF LookupTool, Abort, Fail
<1>13. CASE ValidateArgs
  BY <1>13, <1>0 DEF ValidateArgs, ValidateArgsUpTo, Retries, AnswerCall, Abort, Fail
<1>14. CASE RequestApproval
  BY <1>14, <1>0 DEF RequestApproval, AnswerCall, Abort, Fail
<1>15. CASE RunPreHook
  BY <1>15, <1>0 DEF RunPreHook, AnswerCall
<1>16. CASE Execute
  BY <1>16, <1>0 DEF Execute, AnswerCall
<1>17. CASE UNCHANGED vars \/ Returned
  BY <1>17, <1>0 DEF vars, Returned
<1> QED BY <1>1, <1>2, <1>3, <1>4, <1>5, <1>6, <1>7, <1>8, <1>9, <1>10, <1>11, <1>12, <1>13,
   <1>14, <1>15, <1>16, <1>17 DEF Next

\* A candidate is shown when it has passed its check.
LEMMA HeldKept == ASSUME IInv, [Next]_vars PROVE (Held /\ ShownIsFinal)'
<1> USE DEF ask, counters, budget, stream, hist, Held, ShownIsFinal, Final, Over, Last,
            Fixed, Handling
<1>0. /\ Held /\ ShownIsFinal /\ Over
      /\ expand \in BOOLEAN /\ web \in BOOLEAN /\ content \in BOOLEAN
  BY TypeParts DEF IInv, Flags
<1>1. CASE Start
  BY <1>1, <1>0 DEF Start, Fail
<1>2. CASE WebSearch
  BY <1>2, <1>0 DEF WebSearch, Invoke
<1>3. CASE WebFetch
  BY <1>3, <1>0 DEF WebFetch, Invoke
<1>4. CASE Request
  BY <1>4, <1>0 DEF Request, Fail
<1>5. CASE OutOfHops
  BY <1>5, <1>0 DEF OutOfHops, Fail
<1>6. CASE RecvDelta
  BY <1>6, <1>0 DEF RecvDelta, Show
<1>7. CASE RecvToolCall
  BY <1>7, <1>0 DEF RecvToolCall
<1>8. CASE StreamFails
  BY <1>8, <1>0 DEF StreamFails, Fail
<1>9. CASE StreamEnds
  BY <1>9, <1>0 DEF StreamEnds
<1>10. CASE CheckWebAnswer
  <2>1. pc = "answer" /\ pc' # "done" /\ UNCHANGED <<expand, web>>
    BY <1>10, CheckWebAnswerCases
  <2>2. SUFFICES Held'
    BY <2>1 DEF ShownIsFinal, Final
  <2>3. CASE ~ web /\ pc' = "detail" /\ UNCHANGED shown
    BY <1>0, <2>1, <2>3 DEF Held
  <2>4. CASE web /\ pc' = "request" /\ UNCHANGED shown
    BY <1>0, <2>1, <2>4 DEF Held
  <2>5. CASE web /\ pc' = "detail" /\ shown' = Append(shown, cand')
    <3>1. shown = <<>> => shown' = <<cand'>>
      BY <2>5
    <3> QED BY <1>0, <2>1, <2>5, <3>1 DEF Held
  <2> QED BY <1>10, <2>3, <2>4, <2>5, CheckWebAnswerCases
<1>11. CASE CheckExpansion
  BY <1>11, <1>0, CheckExpansionCases DEF Finish
<1>12. CASE LookupTool
  BY <1>12, <1>0 DEF LookupTool, Abort, Fail
<1>13. CASE ValidateArgs
  BY <1>13, <1>0 DEF ValidateArgs, ValidateArgsUpTo, Retries, AnswerCall, Abort, Fail
<1>14. CASE RequestApproval
  BY <1>14, <1>0 DEF RequestApproval, AnswerCall, Abort, Fail
<1>15. CASE RunPreHook
  BY <1>15, <1>0 DEF RunPreHook, AnswerCall
<1>16. CASE Execute
  BY <1>16, <1>0 DEF Execute, AnswerCall
<1>17. CASE UNCHANGED vars \/ Returned
  BY <1>17, <1>0 DEF vars, Returned
<1> QED BY <1>1, <1>2, <1>3, <1>4, <1>5, <1>6, <1>7, <1>8, <1>9, <1>10, <1>11, <1>12, <1>13,
   <1>14, <1>15, <1>16, <1>17 DEF Next

-------------------------------------------------------------------------------
(* What a step may do to the history and the audit log.                      *)

Free == pc \notin Handling \cup {"done"}

Quiet == Free /\ pc' \notin Handling /\ ~ Final' /\ UNCHANGED <<msgs, audit>>
Invokes == Free /\ Free' /\ \E i \in {"webs", "webf"} : Invoke(i)
Opens ==
    /\ Free /\ pc' \in Handling /\ call' = call
    /\ msgs' = Append(msgs, AssistantMsg(call.id))
    /\ audit' = Append(audit, Calls(call))
Checks == pc \in Handling /\ pc' \in Handling /\ UNCHANGED <<msgs, audit, call>>
Answers == pc \in Handling /\ AnswerCall
Aborts ==
    /\ pc \in Handling /\ pc' = "done" /\ ~ Final'
    /\ audit' = Append(audit, Results(call))
Finishes ==
    /\ Free /\ pc' = "done" /\ UNCHANGED audit
    /\ msgs' = Append(msgs, AssistantMsg(None))
Waits == UNCHANGED <<pc, msgs, audit, call, ended>>

Moves == \/ Quiet \/ Invokes \/ Opens \/ Checks \/ Answers \/ Aborts \/ Finishes \/ Waits

\* A turn that has failed does not end with an answer.
LEMMA FailIsNotFinal == ASSUME Over, pc # "done", Fail PROVE ~ Final'
<1>1. ended' = <<[kind |-> "error", of |-> Fixed]>>
  BY DEF Over, Fail
<1> QED BY <1>1 DEF Final, Last

\* Every step is one of these.
LEMMA EveryStepMoves == ASSUME IInv, [Next]_vars PROVE Moves
<1> USE DEF ask, counters, budget, stream, hist, Final, Moves, Quiet, Invokes, Opens,
            Checks, Answers, Aborts, Finishes, Waits, Free, Handling
<1>0. Over
  BY DEF IInv
<1>1. CASE Start
  BY <1>1, <1>0, FailIsNotFinal DEF Start, Fail
<1>2. CASE WebSearch
  BY <1>2, <1>0, FailIsNotFinal DEF WebSearch, Invoke
<1>3. CASE WebFetch
  BY <1>3, <1>0, FailIsNotFinal DEF WebFetch, Invoke
<1>4. CASE Request
  BY <1>4, <1>0, FailIsNotFinal DEF Request, Fail
<1>5. CASE OutOfHops
  BY <1>5, <1>0, FailIsNotFinal DEF OutOfHops, Fail
<1>6. CASE RecvDelta
  BY <1>6, <1>0, FailIsNotFinal DEF RecvDelta, Show
<1>7. CASE RecvToolCall
  BY <1>7, <1>0, FailIsNotFinal DEF RecvToolCall
<1>8. CASE StreamFails
  BY <1>8, <1>0, FailIsNotFinal DEF StreamFails, Fail
<1>9. CASE StreamEnds
  BY <1>9, <1>0, FailIsNotFinal DEF StreamEnds
<1>10. CASE CheckWebAnswer
  BY <1>10, <1>0, FailIsNotFinal DEF CheckWebAnswer, Verdicts
<1>11. CASE CheckExpansion
  BY <1>11, <1>0, FailIsNotFinal DEF CheckExpansion, Verdicts, Finish
<1>12. CASE LookupTool
  BY <1>12, <1>0, FailIsNotFinal DEF LookupTool, Abort, Fail
<1>13. CASE ValidateArgs
    BY <1>13, <1>0, FailIsNotFinal DEF ValidateArgs, ValidateArgsUpTo, Retries, AnswerCall,
     Abort, Fail
<1>14. CASE RequestApproval
  BY <1>14, <1>0, FailIsNotFinal DEF RequestApproval, AnswerCall, Abort, Fail
<1>15. CASE RunPreHook
  BY <1>15, <1>0, FailIsNotFinal DEF RunPreHook, AnswerCall
<1>16. CASE Execute
  BY <1>16, <1>0, FailIsNotFinal DEF Execute, AnswerCall
<1>17. CASE UNCHANGED vars \/ Returned
  BY <1>17, <1>0, FailIsNotFinal DEF vars, Returned
<1> QED BY <1>1, <1>2, <1>3, <1>4, <1>5, <1>6, <1>7, <1>8, <1>9, <1>10, <1>11, <1>12, <1>13,
   <1>14, <1>15, <1>16, <1>17 DEF Next

\* Pairs stay paired when the history grows behind them.
LEMMA MsgsPairedStays ==
    ASSUME NEW n \in Nat, MsgsPaired(n), \A i \in 1 .. n : msgs'[i] = msgs[i]
    PROVE  MsgsPaired(n)'
  BY DEF MsgsPaired

\* A call and its result make one more pair.
LEMMA MsgsPairAdded ==
    ASSUME NEW n \in Nat, NEW x, MsgsPaired(n), \A i \in 1 .. n : msgs'[i] = msgs[i],
           msgs'[n + 1] = AssistantMsg(x),
           msgs'[n + 2] = [role |-> "tool", id |-> x]
    PROVE  MsgsPaired(n + 2)'
<1>1. ASSUME NEW i \in 1 .. (n + 2)
      PROVE  /\ msgs'[i].role = "assistant" /\ msgs'[i].id # None =>
                   i < n + 2 /\ msgs'[i + 1] = [role |-> "tool", id |-> msgs'[i].id]
             /\ msgs'[i].role = "tool" => i > 1 /\ msgs'[i - 1] = AssistantMsg(msgs'[i].id)
  <2>1. CASE i \in 1 .. n
    BY <2>1 DEF MsgsPaired
  <2>2. CASE i = n + 1
    BY <2>2 DEF AssistantMsg
  <2>3. CASE i = n + 2
    BY <2>3 DEF AssistantMsg
  <2> QED BY <2>1, <2>2, <2>3
<1> QED BY <1>1 DEF MsgsPaired, AssistantMsg

\* The history is paired outside of the handling of a call.
LEMMA MsgsKept == ASSUME IInv, [Next]_vars PROVE MsgsInv'
<1>1. MsgsInv /\ Moves /\ msgs \in Seq(Msg)
  BY EveryStepMoves, TypeParts DEF IInv, Sequences
<1>2. PICK n \in Nat : n = Len(msgs)
  BY <1>1
<1>3. CASE Quiet \/ Checks \/ Waits \/ Aborts
  BY <1>1, <1>3 DEF MsgsInv, MsgsPaired, Quiet, Checks, Waits, Aborts, Free, Final, Handling
<1>4. CASE Invokes
  <2>1. PICK x : msgs' = msgs \o <<AssistantMsg(x), [role |-> "tool", id |-> x]>>
    BY <1>4 DEF Invokes, Invoke, ToolMsg
  <2>2. /\ \A i \in 1 .. n : msgs'[i] = msgs[i]
        /\ Len(msgs') = n + 2 /\ msgs'[n + 1] = AssistantMsg(x)
        /\ msgs'[n + 2] = [role |-> "tool", id |-> x]
    BY <1>1, <1>2, <2>1
  <2>3. MsgsPaired(n)
    BY <1>1, <1>2, <1>4 DEF MsgsInv, Invokes, Free
  <2>4. MsgsPaired(n + 2)'
    BY <2>2, <2>3, MsgsPairAdded
  <2> QED BY <1>4, <2>2, <2>4 DEF MsgsInv, Invokes, Free, Handling
<1>5. CASE Opens
  <2>1. /\ \A i \in 1 .. n : msgs'[i] = msgs[i]
        /\ Len(msgs') = n + 1 /\ msgs'[n + 1] = AssistantMsg(call'.id)
    BY <1>1, <1>2, <1>5 DEF Opens
  <2>2. MsgsPaired(n)
    BY <1>1, <1>2, <1>5 DEF MsgsInv, Opens, Free
  <2>3. MsgsPaired(n)'
    BY <2>1, <2>2, MsgsPairedStays
  <2>4. n = Len(msgs') - 1 /\ pc' # "done"
    BY <2>1, <1>5 DEF Opens, Handling
  <2> QED BY <1>5, <2>1, <2>3, <2>4 DEF MsgsInv, Opens, Handling, Final
<1>6. CASE Answers
  <2>1. PICK m \in Nat : n = m + 1
    BY <1>1, <1>2, <1>6 DEF MsgsInv, Answers
  <2>2. MsgsPaired(m) /\ msgs[m + 1] = AssistantMsg(call.id)
    BY <1>1, <1>2, <1>6, <2>1 DEF MsgsInv, Answers
  <2>3. /\ \A i \in 1 .. n : msgs'[i] = msgs[i]
        /\ Len(msgs') = m + 2 /\ msgs'[m + 2] = [role |-> "tool", id |-> call.id]
    <3>1. msgs' = Append(msgs, [role |-> "tool", id |-> call.id])
      BY <1>6 DEF Answers, AnswerCall, ToolMsg
    <3>2. /\ \A i \in 1 .. n : msgs'[i] = msgs[i]
          /\ Len(msgs') = n + 1 /\ msgs'[n + 1] = [role |-> "tool", id |-> call.id]
      BY <1>1, <1>2, <3>1
    <3> QED BY <2>1, <3>2
  <2>4. MsgsPaired(m + 2)'
    <3>1. PICK x : x = call.id
      OBVIOUS
    <3> QED BY <2>1, <2>2, <2>3, <3>1, MsgsPairAdded
  <2> QED BY <1>6, <2>3, <2>4 DEF MsgsInv, Answers, AnswerCall, Handling
<1>7. CASE Finishes
  <2>1. /\ \A i \in 1 .. n : msgs'[i] = msgs[i]
        /\ Len(msgs') = n + 1 /\ msgs'[n + 1] = AssistantMsg(None)
    BY <1>1, <1>2, <1>7 DEF Finishes
  <2>2. MsgsPaired(n)
    BY <1>1, <1>2, <1>7 DEF MsgsInv, Finishes, Free
  <2>3. MsgsPaired(n)'
    BY <2>1, <2>2, MsgsPairedStays
  <2>4. MsgsPaired(n + 1)'
    BY <2>1, <2>3 DEF MsgsPaired, AssistantMsg
  <2> QED BY <1>7, <2>1, <2>4 DEF MsgsInv, Finishes, Handling
<1> QED BY <1>1, <1>3, <1>4, <1>5, <1>6, <1>7 DEF Moves

\* The same for the audit log, which gets a tool_result also when a call ends the turn.
LEMMA AuditPairedStays ==
    ASSUME NEW n \in Nat, AuditPaired(n), \A i \in 1 .. n : audit'[i] = audit[i]
    PROVE  AuditPaired(n)'
<1>1. \A i \in 1 .. n : i % 2 = 1 => i + 1 \in 1 .. n
  BY DEF AuditPaired
<1> QED BY <1>1 DEF AuditPaired

LEMMA AuditPairAdded ==
    ASSUME NEW n \in Nat, NEW x, AuditPaired(n), \A i \in 1 .. n : audit'[i] = audit[i],
           audit'[n + 1] = [kind |-> "tool_call", id |-> x],
           audit'[n + 2] = [kind |-> "tool_result", id |-> x]
    PROVE  AuditPaired(n + 2)'
<1>1. n % 2 = 0 /\ (n + 1) % 2 = 1 /\ (n + 2) % 2 = 0
  BY DEF AuditPaired
<1>2. AuditPaired(n)'
  BY AuditPairedStays
<1>3. ASSUME NEW i \in 1 .. (n + 2)
      PROVE  IF i % 2 = 1
             THEN audit'[i].kind = "tool_call" /\ audit'[i + 1].id = audit'[i].id
             ELSE audit'[i].kind = "tool_result"
  <2>1. CASE i \in 1 .. n
    BY <1>2, <2>1 DEF AuditPaired
  <2>2. CASE i = n + 1
    BY <1>1, <2>2
  <2>3. CASE i = n + 2
    BY <1>1, <2>3
  <2> QED BY <2>1, <2>2, <2>3
<1> QED BY <1>1, <1>3 DEF AuditPaired

LEMMA AuditKept == ASSUME IInv, [Next]_vars PROVE AuditInv'
<1>1. AuditInv /\ Moves /\ audit \in Seq(Record)
  BY EveryStepMoves, TypeParts DEF IInv, Sequences
<1>2. PICK n \in Nat : n = Len(audit)
  BY <1>1
<1>3. CASE Quiet \/ Checks \/ Waits \/ Finishes
  BY <1>1, <1>3 DEF AuditInv, AuditPaired, Quiet, Checks, Waits, Finishes, Free, Handling
<1>4. CASE Invokes
  <2>1. PICK x : audit' = audit \o <<[kind |-> "tool_call", id |-> x],
                                     [kind |-> "tool_result", id |-> x]>>
    BY <1>4 DEF Invokes, Invoke, Calls, Results
  <2>2. /\ \A i \in 1 .. n : audit'[i] = audit[i]
        /\ Len(audit') = n + 2
        /\ audit'[n + 1] = [kind |-> "tool_call", id |-> x]
        /\ audit'[n + 2] = [kind |-> "tool_result", id |-> x]
    BY <1>1, <1>2, <2>1
  <2>3. AuditPaired(n)
    BY <1>1, <1>2, <1>4 DEF AuditInv, Invokes, Free
  <2>4. AuditPaired(n + 2)'
    BY <2>2, <2>3, AuditPairAdded
  <2> QED BY <1>4, <2>2, <2>4 DEF AuditInv, Invokes, Free, Handling
<1>5. CASE Opens
  <2>1. /\ \A i \in 1 .. n : audit'[i] = audit[i]
        /\ Len(audit') = n + 1 /\ audit'[n + 1] = Calls(call')
    BY <1>1, <1>2, <1>5 DEF Opens
  <2>2. AuditPaired(n)
    BY <1>1, <1>2, <1>5 DEF AuditInv, Opens, Free
  <2>3. AuditPaired(n)'
    BY <2>1, <2>2, AuditPairedStays
  <2>4. n = Len(audit') - 1
    BY <2>1
  <2> QED BY <1>5, <2>1, <2>3, <2>4 DEF AuditInv, Opens, Handling
<1>6. CASE Answers \/ Aborts
  <2>1. PICK m \in Nat : n = m + 1
    BY <1>1, <1>2, <1>6 DEF AuditInv, Answers, Aborts
  <2>2. AuditPaired(m) /\ audit[m + 1] = [kind |-> "tool_call", id |-> call.id]
    BY <1>1, <1>2, <1>6, <2>1 DEF AuditInv, Answers, Aborts, Calls
  <2>3. /\ \A i \in 1 .. n : audit'[i] = audit[i]
        /\ Len(audit') = m + 2
        /\ audit'[m + 2] = [kind |-> "tool_result", id |-> call.id]
    <3>1. audit' = Append(audit, [kind |-> "tool_result", id |-> call.id])
      BY <1>6 DEF Answers, Aborts, AnswerCall, Results
    <3>2. /\ \A i \in 1 .. n : audit'[i] = audit[i]
          /\ Len(audit') = n + 1 /\ audit'[n + 1] = [kind |-> "tool_result", id |-> call.id]
      BY <1>1, <1>2, <3>1
    <3> QED BY <2>1, <3>2
  <2>4. AuditPaired(m + 2)'
    <3>1. PICK x : x = call.id
      OBVIOUS
    <3> QED BY <2>1, <2>2, <2>3, <3>1, AuditPairAdded
  <2> QED BY <1>6, <2>3, <2>4 DEF AuditInv, Answers, Aborts, AnswerCall, Handling
<1> QED BY <1>1, <1>3, <1>4, <1>5, <1>6 DEF Moves

LEMMA Invariance == Spec => []IInv
<1>1. ASSUME IInv, [Next]_vars PROVE IInv'
  <2>1. TypeOK'
    BY <1>1, FlagsKept, NumbersKept, SequencesKept, TypeParts, PTL
    <2> QED BY <1>1, <2>1, OverKept, MsgsKept, AuditKept, PaidKept, CheckedKept, HeldKept
     DEF IInv
<1> QED BY <1>1, InitIInv, PTL DEF Spec

-------------------------------------------------------------------------------
(* Theorems.                                                                 *)

\* Types; a call ID gets at most MaxValidationRetries chances to correct its
\* arguments (loop.go:405-424).
THEOREM TypeCorrect == Spec => []TypeOK
  BY Invariance, PTL DEF IInv

\* Whenever the history goes to the LLM or the caller, every call has its result
\* behind it (loop.go:116-122, :502-509).
THEOREM HistoryPaired == Spec => []HistoryIsPaired
<1>1. IInv => HistoryIsPaired
  <2>1. ASSUME IInv, pc \in {"request", "stream", "answer", "detail"} \/ Final
        PROVE  MsgsPaired(Len(msgs))
    BY <2>1 DEF IInv, MsgsInv, Handling
  <2>2. IInv => DOMAIN msgs = 1 .. Len(msgs)
    BY DEF IInv, TypeOK
  <2> QED BY <2>1, <2>2 DEF MsgsPaired, HistoryIsPaired
<1> QED BY <1>1, Invariance, PTL

\* Every tool_call record has its tool_result, on every way out of a call
\* (loop.go:122).
THEOREM AuditIsComplete == Spec => []AuditIsPaired
<1>1. IInv => AuditIsPaired
  <2>1. ASSUME IInv, pc \in {"request", "stream", "answer", "detail", "done"}
        PROVE  AuditPaired(Len(audit))
    BY <2>1 DEF IInv, AuditInv, Handling
  <2>2. IInv => DOMAIN audit = 1 .. Len(audit)
    BY DEF IInv, TypeOK
  <2> QED BY <2>1, <2>2 DEF AuditPaired, AuditIsPaired
<1> QED BY <1>1, Invariance, PTL

\* Nothing runs for the model without having passed all checks (loop.go:366-395).
THEOREM NothingRunsUncleared == Spec => []ExecutedIsCleared
  BY Invariance, PTL DEF IInv

\* The number of requests of a turn is bounded by hops and retries (loop.go:97-113).
THEOREM RequestsAreBounded == Spec => []RequestsBounded
<1>1. IInv => RequestsBounded
    BY BoundsAssumption, TypeParts DEF IInv, Flags, Numbers, Paid, RequestsBounded, Before,
     During, Handling
<1> QED BY <1>1, Invariance, PTL

\* Where candidates are held back for a check, the screen shows the answer and
\* nothing else (loop.go:104, :337-363).
THEOREM OnlyTheAnswerIsShown == Spec => []ShownIsFinal
  BY Invariance, PTL DEF IInv
===============================================================================
