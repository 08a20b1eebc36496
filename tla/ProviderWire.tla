----------------------------- MODULE ProviderWire -----------------------------
(* What the five clients of internal/llm make of a history of messages when they
   build a request (toPayload), and of the calls in a whole response (Chat).
   A text is a flag. A call is the ID, name, argument pieces and signature of
   llm.ToolCall, and "of", its number in the response it came in, which only the
   properties look at. An ID is the sequence of the numbers that make it up, <<>> is
   the empty ID, and name 0 the empty name. The arguments are the pieces in which
   a server sends them; piece 0 is the text {}, with which the client of Anthropic
   begins them. *)
EXTENDS Integers, Sequences, SequencesExt

NoID == <<>>
NoCall == [of |-> 0, id |-> NoID, name |-> 0, args |-> <<>>, sig |-> FALSE]

Message(role) == [role |-> role, text |-> TRUE, image |-> FALSE, calls |-> <<>>,
                  id |-> NoID, name |-> 0]
UserMessage(image) == [Message("user") EXCEPT !.image = image]
CallMessage(call) == [Message("assistant") EXCEPT !.text = FALSE, !.calls = <<call>>]
ResultMessage(call) == [Message("tool") EXCEPT !.id = call.id, !.name = call.name]

\* The history of a request for a summary (agent/compact.go).
SummaryRequest == <<Message("system"), Message("user")>>

\* What lies in S of a sequence, in its order. The range loop that picks it is written
\* as a function: nothing can be proved about SelectSeq.
Kept(s, S) ==
    LET kept[n \in 0 .. Len(s)] ==
            IF n = 0 THEN <<>>
            ELSE IF s[n] \in S THEN Append(kept[n - 1], s[n]) ELSE kept[n - 1]
    IN  kept[Len(s)]

\* A part of a message on the wire, and a message of parts.
Part(type) == [type |-> type, id |-> NoID, name |-> 0, args |-> <<>>, sig |-> FALSE]
Texts(m) == IF m.text THEN <<Part("text")>> ELSE <<>>
Images(m) == IF m.image THEN <<Part("image")>> ELSE <<>>
CallParts(m, Of(_)) == [i \in DOMAIN m.calls |-> Of(m.calls[i])]
OnWire(role, parts) == [role |-> role, parts |-> parts]

IDPart(c) == [Part("call") EXCEPT !.id = c.id, !.name = c.name, !.args = c.args]
NamePart(c) == [Part("call") EXCEPT !.name = c.name, !.args = c.args]

\* {} stands for arguments that are missing, for the server's templates.
LlamaPart(c) == [IDPart(c) EXCEPT !.args = IF c.args = <<>> THEN <<0>> ELSE c.args]
SignedPart(c) == [NamePart(c) EXCEPT !.sig = c.sig]

-----------------------------------------------------------------------------
(* toPayload of each client: the system texts that it takes out, and the messages.
   The images were refused before for the clients that cannot send them.        *)
OpenaiMessage(m) ==
    OnWire(m.role, IF m.role = "tool"
                   THEN <<[Part("result") EXCEPT !.id = m.id, !.name = m.name]>>
                   ELSE Texts(m) \o Images(m) \o CallParts(m, IDPart))
OpenaiPayload(hist) ==
    [system |-> 0, messages |-> [i \in DOMAIN hist |-> OpenaiMessage(hist[i])]]

LlamaMessage(m) ==
    OnWire(m.role, IF m.role = "tool"
                   THEN <<[Part("result") EXCEPT !.id = m.id, !.name = m.name]>>
                   ELSE <<Part("text")>> \o Images(m) \o CallParts(m, LlamaPart))
LlamaPayload(hist) ==
    [system |-> 0, messages |-> [i \in DOMAIN hist |-> LlamaMessage(hist[i])]]

OfSystem(hist) == {m \in ToSet(hist) : m.role = "system"}
SystemTexts(hist) == Len(Kept(hist, OfSystem(hist)))
WithoutSystem(hist) == Kept(hist, ToSet(hist) \ OfSystem(hist))

\* A result goes as a message of the user.
AnthropicMessage(m) ==
    IF m.role = "tool"
    THEN OnWire("user", <<[Part("result") EXCEPT !.id = m.id]>>)
    ELSE OnWire(m.role, Texts(m) \o CallParts(m, IDPart))
AnthropicPayload(hist) ==
    LET said == WithoutSystem(hist)
    IN  [system |-> SystemTexts(hist),
         messages |-> [i \in DOMAIN said |-> AnthropicMessage(said[i])]]

\* Neither Ollama nor Gemini has IDs: a result is known by its name and place.
OllamaMessage(m) ==
    OnWire(m.role, IF m.role = "tool" THEN <<[Part("result") EXCEPT !.name = m.name]>>
                                      ELSE Texts(m) \o CallParts(m, NamePart))
OllamaPayload(hist) ==
    [system |-> 0, messages |-> [i \in DOMAIN hist |-> OllamaMessage(hist[i])]]

GeminiMessage(m) ==
    IF m.role = "tool"
    THEN OnWire("function", <<[Part("result") EXCEPT !.name = m.name]>>)
    ELSE OnWire(IF m.role = "assistant" THEN "model" ELSE "user",
                Texts(m) \o CallParts(m, SignedPart))
GeminiPayload(hist) ==
    LET said == WithoutSystem(hist)
    IN  [system |-> SystemTexts(hist),
         messages |-> [i \in DOMAIN said |-> GeminiMessage(said[i])]]

Payload(kind, hist) ==
    CASE kind = "openai"    -> OpenaiPayload(hist)
      [] kind = "llamacpp"  -> LlamaPayload(hist)
      [] kind = "anthropic" -> AnthropicPayload(hist)
      [] kind = "ollama"    -> OllamaPayload(hist)
      [] kind = "gemini"    -> GeminiPayload(hist)

\* RejectImages, which these three call before anything else.
Rejects(kind, hist) ==
    kind \in {"anthropic", "ollama", "gemini"} /\ \E i \in DOMAIN hist : hist[i].image

\* The arguments of a call are raw JSON, and json.Marshal refuses a request in which
\* they are not JSON: a part of an object, or something after {}.
IsJSON(args, pieces) == args = <<>> \/ args = <<0>> \/ args = [k \in 1 .. pieces |-> k]
Marshals(kind, wire, pieces) ==
    \A i \in DOMAIN wire.messages :
        \A p \in ToSet(wire.messages[i].parts) :
            kind # "openai" => IsJSON(p.args, pieces)

-----------------------------------------------------------------------------
(* The calls of a whole response, as Chat returns them.                         *)
\* normalizeToolID: the hash of an ID, when the template asks for one.
NormalID(id, alnum) == IF alnum /\ id # NoID THEN <<9>> \o id ELSE id

WholeArgs(pieces) == [k \in 1 .. pieces |-> k]
WithID(i, id, pieces) ==
    [of |-> i, id |-> id, name |-> i, args |-> WholeArgs(pieces), sig |-> FALSE]

OpenaiCall(i, id, pieces) == WithID(i, id, pieces)
LlamaCall(i, id, pieces, alnum) == WithID(i, NormalID(id, alnum), pieces)
AnthropicCall(i, id, pieces) == WithID(i, id, pieces)
OllamaCall(i, pieces) == WithID(i, <<i>>, pieces)
GeminiCall(i, pieces) == [WithID(i, <<i>>, pieces) EXCEPT !.sig = TRUE]

Decoded(kind, i, id, pieces, alnum) ==
    CASE kind = "openai"    -> OpenaiCall(i, id, pieces)
      [] kind = "llamacpp"  -> LlamaCall(i, id, pieces, alnum)
      [] kind = "anthropic" -> AnthropicCall(i, id, pieces)
      [] kind = "ollama"    -> OllamaCall(i, pieces)
      [] kind = "gemini"    -> GeminiCall(i, pieces)
===============================================================================
