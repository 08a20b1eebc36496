-------------------------- MODULE ServiceCalls_proofs --------------------------
(***************************************************************************)
(* The parts of Services that answer for calls: a batch of tools, the MCP  *)
(* client and the round of a provider.  For each of them an invariant IInv *)
(* of its own, and the property of the component, which then holds of      *)
(* Services, since a behaviour of Services is one of each part.            *)
(***************************************************************************)
EXTENDS Services, FiniteSetTheorems, SequenceTheorems, WellFoundedInduction, TLAPS

LEMMA SameCardinality == \A S : Batch!Cardinality(S) = Cardinality(S)
  BY DEF Batch!Cardinality, Cardinality

-------------------------------------------------------------------------------
(* The batch of tools.                                                     *)
CallPlaces == {"waiting", "approve", "lookup", "pre", "exec", "post", "done"}

CallErrors == {"cancelled", "denied", "failed", "unknown", "blocked"}
CallOutcomes == [how : {"none", "ran"} \cup CallErrors, err : BOOLEAN]

BatchTypes ==
    /\ limit \in Nat
    /\ batchPc \in [Batch!Calls -> CallPlaces]
    /\ out \in [Batch!Calls -> CallOutcomes]
    /\ ran \subseteq Batch!Calls /\ late \subseteq Batch!Calls
    /\ stopped \subseteq Batch!Calls

\* A call has run when it has passed the hooks before it, and its outcome says so.
RunIsTold ==
    \A i \in Batch!Calls :
        /\ batchPc[i] \in {"exec", "post"} => i \in ran
        /\ i \in ran => batchPc[i] \in {"exec", "post", "done"}
        /\ batchPc[i] = "post" => out[i].how = "ran"
        /\ batchPc[i] = "done" => (out[i].how = "ran" <=> i \in ran)

\* What was turned away is done and has not run.
TurnedAway ==
    \A i \in Batch!Calls :
        /\ i \in late \cup stopped => batchPc[i] = "done" /\ i \notin ran
        /\ batchPc[i] \in {"pre", "exec", "post"} => i \notin unknown
        /\ i \in unknown => i \notin ran

\* The barrier.
OneByOne ==
    /\ Batch!Serial =>
           \A i, j \in Batch!Calls : j < i /\ batchPc[i] # "waiting" => batchPc[j] = "done"
    /\ \A i \in Batch!Calls : batchPc[i] = "approve" => i \in gated

\* The semaphore.
SlotsSuffice == ~ Batch!Serial => Cardinality(Batch!Busy) <= limit

BatchIInv == BatchTypes /\ RunIsTold /\ TurnedAway /\ OneByOne /\ SlotsSuffice

-------------------------------------------------------------------------------
LEMMA ErrorIsOutcome ==
    /\ Batch!Nothing \in CallOutcomes
    /\ \A how \in CallErrors : Batch!Error(how) \in CallOutcomes
    /\ \A err \in BOOLEAN : [how |-> "ran", err |-> err] \in CallOutcomes
  BY DEF Batch!Nothing, Batch!Error, CallErrors, CallOutcomes

LEMMA BusyIsFinite == ASSUME CallCount \in Nat PROVE IsFiniteSet(Batch!Busy)
<1>1. IsFiniteSet(Batch!Calls)
  BY FS_Interval DEF Batch!Calls
<1> QED BY <1>1, FS_Subset DEF Batch!Busy

\* In a batch with a barrier at most one call is busy.
LEMMA OneIsBusy ==
    ASSUME CallCount \in Nat, BatchIInv, Batch!Serial, NEW i \in Batch!Busy
    PROVE  Batch!Busy = {i}
<1>1. ASSUME NEW j \in Batch!Busy PROVE j = i
  <2>1. i \in Int /\ j \in Int
    BY DEF Batch!Busy, Batch!Calls
  <2>2. ~ (j < i) /\ ~ (i < j)
    BY DEF BatchIInv, OneByOne, Batch!Busy
  <2> QED BY <2>1, <2>2
<1> QED BY <1>1

LEMMA BatchInitIInv ==
    ASSUME CallCount \in Nat, Limits \subseteq Nat, Batch!Init
    PROVE  BatchIInv
<1> USE DEF Batch!Init
<1>1. BatchTypes
  BY ErrorIsOutcome DEF BatchTypes, CallPlaces
<1>2. RunIsTold /\ TurnedAway
  BY DEF RunIsTold, TurnedAway, Batch!Nothing
<1>3. OneByOne
  BY DEF OneByOne
<1>4. Batch!Busy = {}
  BY DEF Batch!Busy
<1>5. SlotsSuffice
  BY <1>4, FS_EmptySet DEF SlotsSuffice
<1> QED BY <1>1, <1>2, <1>3, <1>5 DEF BatchIInv

\* All steps of a call but its beginning move a busy call on, and none disturbs the
\* others.
Moves(i) ==
    /\ i \in Batch!Busy
    /\ \E p \in CallPlaces \ {"waiting", "approve"} : Batch!Goto(i, p)
    /\ UNCHANGED Batch!options

LEMMA StepMoves ==
    ASSUME BatchIInv, NEW i \in Batch!Calls,
           Batch!Decide(i) \/ Batch!Lookup(i) \/ Batch!RunPre(i) \/ Batch!Execute(i) \/ Batch!RunPost(i)
    PROVE  Moves(i)
  BY DEF Moves, Batch!Busy, Batch!Goto, Batch!Ends, CallPlaces, Batch!Decide,
       Batch!Lookup, Batch!RunPre, Batch!Execute, Batch!RunPost, Batch!options

LEMMA MovesKeepOrder ==
    ASSUME CallCount \in Nat, BatchIInv, NEW i \in Batch!Calls, Moves(i)
    PROVE  (OneByOne /\ SlotsSuffice)'
<1>1. BatchTypes /\ OneByOne /\ SlotsSuffice
  BY DEF BatchIInv
<1>2. Batch!Serial' <=> Batch!Serial
  BY DEF Moves, Batch!options, Batch!Serial
<1>3. OneByOne'
  BY <1>1, <1>2 DEF Moves, Batch!Goto, BatchTypes, OneByOne, Batch!Busy, Batch!options
<1>4. Batch!Busy' \subseteq Batch!Busy
  BY <1>1 DEF Moves, Batch!Goto, BatchTypes, Batch!Busy
<1>5. Cardinality(Batch!Busy') <= Cardinality(Batch!Busy) /\ Cardinality(Batch!Busy') \in Nat
      /\ Cardinality(Batch!Busy) \in Nat
  BY <1>4, BusyIsFinite, FS_Subset, FS_CardinalityType
<1>6. SlotsSuffice'
  BY <1>1, <1>2, <1>5 DEF SlotsSuffice, BatchTypes, Moves, Batch!options
<1> QED BY <1>3, <1>6

\* The beginning of a call.
LEMMA StartKeepsIInv ==
    ASSUME CallCount \in Nat, BatchIInv, NEW i \in Batch!Calls, Batch!Start(i)
    PROVE  BatchIInv'
<1>1. BatchTypes /\ OneByOne /\ SlotsSuffice /\ RunIsTold /\ TurnedAway
  BY DEF BatchIInv
<1>2. Batch!Serial' <=> Batch!Serial
  BY DEF Batch!Start, Batch!options, Batch!Serial
<1>3. BatchTypes'
  BY <1>1, ErrorIsOutcome DEF Batch!Start, Batch!Goto, BatchTypes, CallPlaces,
       Batch!options, CallErrors
<1>4. (RunIsTold /\ TurnedAway)'
  BY <1>1 DEF Batch!Start, Batch!GivesUp, Batch!Goto, BatchTypes, RunIsTold, TurnedAway,
       Batch!options, Batch!Error
<1>5. OneByOne'
  BY <1>1, <1>2 DEF Batch!Start, Batch!GivesUp, Batch!Goto, BatchTypes, OneByOne,
       Batch!options, Batch!Calls
<1>6. Batch!Busy' \subseteq Batch!Busy \cup {i}
  BY <1>1 DEF Batch!Start, Batch!GivesUp, Batch!Goto, BatchTypes, Batch!Busy
<1>7. SlotsSuffice'
  <2>1. SUFFICES ASSUME ~ Batch!Serial PROVE Cardinality(Batch!Busy') <= limit
    BY <1>2 DEF SlotsSuffice, Batch!Start, Batch!options
  <2>2. Cardinality(Batch!Busy) < limit /\ limit \in Nat
    BY <2>1, <1>1, SameCardinality DEF Batch!Start, BatchTypes
  <2>3. /\ IsFiniteSet(Batch!Busy) /\ IsFiniteSet(Batch!Busy \cup {i})
        /\ Cardinality(Batch!Busy) \in Nat
        /\ Cardinality(Batch!Busy \cup {i}) \in {Cardinality(Batch!Busy), Cardinality(Batch!Busy) + 1}
    BY BusyIsFinite, FS_AddElement, FS_CardinalityType
  <2>4. Cardinality(Batch!Busy') <= Cardinality(Batch!Busy \cup {i}) /\ Cardinality(Batch!Busy') \in Nat
    BY <1>6, <2>3, FS_Subset, FS_CardinalityType
  <2> QED BY <2>2, <2>3, <2>4
<1> QED BY <1>3, <1>4, <1>5, <1>7 DEF BatchIInv

LEMMA BatchNextKeepsIInv ==
    ASSUME CallCount \in Nat, BatchIInv, [Batch!Next]_Batch!vars
    PROVE  BatchIInv'
<1>0. BatchTypes /\ OneByOne /\ SlotsSuffice /\ RunIsTold /\ TurnedAway
  BY DEF BatchIInv
<1>1. ASSUME NEW i \in Batch!Calls, Batch!Decide(i) \/ Batch!Lookup(i) PROVE BatchIInv'
  <2>1. (OneByOne /\ SlotsSuffice)'
    BY <1>1, StepMoves, MovesKeepOrder
  <2>2. BatchTypes'
    BY <1>0, <1>1, ErrorIsOutcome DEF BatchTypes, CallPlaces, Batch!Decide, Batch!Lookup,
         Batch!Goto, Batch!Ends, CallErrors,
       Batch!options, Batch!seen
  <2>3. (RunIsTold /\ TurnedAway)'
    BY <1>0, <1>1 DEF BatchTypes, RunIsTold, TurnedAway, Batch!Decide, Batch!Lookup,
         Batch!Goto, Batch!Ends, Batch!Error, Batch!options,
       Batch!seen
  <2> QED BY <2>1, <2>2, <2>3 DEF BatchIInv
<1>2. ASSUME NEW i \in Batch!Calls, Batch!RunPre(i) PROVE BatchIInv'
  <2>1. (OneByOne /\ SlotsSuffice)'
    BY <1>2, StepMoves, MovesKeepOrder
  <2>2. PICK ends \in [1 .. HookCount -> Batch!HookEnds] :
          /\ IF Batch!Refuses(ends) THEN Batch!Ends(i, Batch!Error("blocked")) /\ UNCHANGED ran
             ELSE /\ Batch!Goto(i, "exec") /\ ran' = ran \cup {i}
                  /\ UNCHANGED <<out, cancelled>>
          /\ stopped' = IF \E k \in DOMAIN ends : ends[k] = "interrupted"
                        THEN stopped \cup {i} ELSE stopped
    BY <1>2 DEF Batch!RunPre
  <2>3. BatchTypes'
    BY <1>0, <1>2, <2>2, ErrorIsOutcome DEF BatchTypes, CallPlaces, Batch!RunPre,
         Batch!Goto, Batch!Ends, CallErrors, Batch!options
  <2>4. (\E k \in DOMAIN ends : ends[k] = "interrupted") => Batch!Refuses(ends)
    BY DEF Batch!Refuses
  <2>5. (RunIsTold /\ TurnedAway)'
    BY <1>0, <1>2, <2>2, <2>4 DEF BatchTypes, RunIsTold, TurnedAway, Batch!RunPre,
         Batch!Goto, Batch!Ends, Batch!Error, Batch!options
  <2> QED BY <2>1, <2>3, <2>5 DEF BatchIInv
<1>3. ASSUME NEW i \in Batch!Calls, Batch!Execute(i) \/ Batch!RunPost(i) PROVE BatchIInv'
  <2>1. (OneByOne /\ SlotsSuffice)'
    BY <1>3, StepMoves, MovesKeepOrder
  <2>2. BatchTypes'
    BY <1>0, <1>3, ErrorIsOutcome DEF BatchTypes, CallPlaces, Batch!Execute,
         Batch!RunPost, Batch!Goto, Batch!Ends, Batch!options, Batch!seen
  <2>3. (RunIsTold /\ TurnedAway)'
    BY <1>0, <1>3 DEF BatchTypes, RunIsTold, TurnedAway, Batch!Execute, Batch!RunPost,
         Batch!Goto, Batch!Ends, Batch!options, Batch!seen
  <2> QED BY <2>1, <2>2, <2>3 DEF BatchIInv
<1>4. CASE Batch!Interrupt \/ UNCHANGED Batch!vars
  <2>1. UNCHANGED <<Batch!options, batchPc, out, Batch!seen>>
    BY <1>4 DEF Batch!Interrupt, Batch!vars
  <2>2. Batch!Busy' = Batch!Busy /\ (Batch!Serial' <=> Batch!Serial)
    BY <2>1 DEF Batch!Busy, Batch!Serial, Batch!options
  <2> QED BY <1>0, <2>1, <2>2 DEF BatchIInv, BatchTypes, RunIsTold, TurnedAway, OneByOne,
       SlotsSuffice,
                                 Batch!options, Batch!seen
<1> QED BY <1>1, <1>2, <1>3, <1>4, StartKeepsIInv DEF Batch!Next, Batch!Step

LEMMA BatchIInvSuffices ==
    ASSUME CallCount \in Nat, BatchIInv
    PROVE  Batch!OutcomesAreTrue
<1>0. BatchTypes /\ OneByOne /\ SlotsSuffice /\ RunIsTold /\ TurnedAway
  BY DEF BatchIInv
<1>1. \A i \in Batch!Calls : batchPc[i] = "done" => (out[i].how = "ran" <=> i \in ran)
  BY <1>0 DEF RunIsTold
<1>2. ran \cap (late \cup stopped \cup unknown) = {}
  BY <1>0 DEF BatchTypes, TurnedAway
<1>3. Cardinality(Batch!Busy) <= IF limit <= 1 THEN 1 ELSE limit
  <2>1. CASE ~ Batch!Serial
    BY <1>0, <2>1 DEF SlotsSuffice, Batch!Serial, BatchTypes
  <2>2. CASE Batch!Serial /\ Batch!Busy = {}
    BY <1>0, <2>2, FS_EmptySet DEF BatchTypes
  <2>3. CASE Batch!Serial /\ Batch!Busy # {}
    <3>1. PICK i \in Batch!Busy : TRUE
      BY <2>3
    <3>2. Cardinality(Batch!Busy) = 1
      BY <2>3, <3>1, OneIsBusy, FS_Singleton
    <3> QED BY <1>0, <3>2 DEF BatchTypes
  <2> QED BY <2>1, <2>2, <2>3
<1>4. ASSUME NEW i \in Batch!Calls, batchPc[i] = "approve" PROVE Batch!Busy = {i}
  BY <1>0, <1>4, OneIsBusy DEF OneByOne, Batch!Serial, Batch!Busy
<1> QED BY <1>1, <1>2, <1>3, <1>4, SameCardinality DEF Batch!OutcomesAreTrue

\* The outcomes of a batch tell what ran, nothing runs that was turned away, the
\* semaphore is kept and an approval is waited for alone (parallel.go:30-88,
\* hooks.go:76-99).
THEOREM BatchOutcomesTrue ==
    ASSUME CallCount \in Nat, Limits \subseteq Nat
    PROVE  Batch!Spec => []Batch!OutcomesAreTrue
<1>1. Batch!Init => BatchIInv
  BY BatchInitIInv
<1>2. BatchIInv /\ [Batch!Next]_Batch!vars => BatchIInv'
  BY BatchNextKeepsIInv
<1>3. BatchIInv => Batch!OutcomesAreTrue
  BY BatchIInvSuffices
<1> QED BY <1>1, <1>2, <1>3, PTL DEF Batch!Spec

-------------------------------------------------------------------------------
(* The MCP client.                                                         *)
McpLines == [id : Nat, of : Callers \cup {Mcp!None, "server", "eof"}, call : Nat]

McpTypes ==
    /\ mcpPc \in [Callers -> {"idle", "lock", "await", "collect"}]
    /\ calls \in [Callers -> Nat] /\ id \in [Callers -> Nat]
    /\ rch \in [Callers -> McpLines]
    /\ mcpResult \in [Callers -> [how : {Mcp!None, "ok", "error", "canceled", "closed"},
                               of : Callers \cup {Mcp!None, "server", "eof"}, call : Nat]]
    /\ mu \in Callers \cup {Mcp!None}
    /\ nextID \in Nat
    /\ input \in Seq(McpLines) /\ output \in Seq(McpLines)

Waiting(c) == mcpPc[c] \in {"await", "collect"}

\* The lines that are about: in the two pipes and with the reading goroutines of the
\* calls that are out.
Elements(s) == {s[i] : i \in DOMAIN s}
LinesAbout ==
    Elements(input) \cup Elements(output) \cup {rch[c] : c \in {d \in Callers : Waiting(d)}}

\* The call that is out has the mutex and the newest ID.
Newest ==
    \A c \in Callers : Waiting(c) => mu = c /\ id[c] = nextID /\ nextID > 0

\* No line is newer, and the lines with the newest ID are those of the call.
LinesAreOwn ==
    \A line \in LinesAbout :
        /\ line.id <= nextID
        /\ \A c \in Callers :
              Waiting(c) /\ line.id = nextID => line.of = c /\ line.call = calls[c]

McpIInv == McpTypes /\ Newest /\ LinesAreOwn /\ Mcp!ResponseIsOwn

-------------------------------------------------------------------------------
\* The mutex admits one.
LEMMA OneWaits ==
    ASSUME Newest, NEW c \in Callers, NEW d \in Callers, Waiting(c), Waiting(d)
    PROVE  c = d
  BY DEF Newest

\* The lines that answer no request.
LEMMA StrayLines ==
    /\ Mcp!NoLine \in McpLines /\ Mcp!Unasked \in McpLines /\ Mcp!EOF \in McpLines
    /\ Mcp!NoLine.id = 0 /\ Mcp!Unasked.id = 0 /\ Mcp!EOF.id = 0
  BY DEF Mcp!NoLine, Mcp!Unasked, Mcp!EOF, McpLines

LEMMA LinesAreTyped ==
  ASSUME McpTypes
  PROVE  \A line \in LinesAbout : line \in McpLines /\ line.id \in Nat
<1>1. \A line \in McpLines : line.id \in Nat
  BY DEF McpLines
<1>2. ASSUME NEW s \in Seq(McpLines) PROVE Elements(s) \subseteq McpLines
  BY DEF Elements
<1>3. Elements(input) \subseteq McpLines /\ Elements(output) \subseteq McpLines
  BY <1>2 DEF McpTypes
<1>4. \A c \in Callers : rch[c] \in McpLines
  BY DEF McpTypes
<1> QED BY <1>1, <1>3, <1>4 DEF LinesAbout

\* The elements of a sequence that grows or shrinks.
LEMMA AppendElements ==
    ASSUME NEW S, NEW s \in Seq(S), NEW e \in S
    PROVE  Append(s, e) \in Seq(S) /\ Elements(Append(s, e)) \subseteq Elements(s) \cup {e}
<1>1. /\ Append(s, e) \in Seq(S) /\ Len(Append(s, e)) = Len(s) + 1 /\ Len(s) \in Nat
      /\ \A i \in 1 .. Len(s) : Append(s, e)[i] = s[i]
      /\ Append(s, e)[Len(s) + 1] = e
      /\ DOMAIN s = 1 .. Len(s) /\ DOMAIN Append(s, e) = 1 .. (Len(s) + 1)
  BY AppendProperties
<1>2. ASSUME NEW i \in DOMAIN Append(s, e) PROVE Append(s, e)[i] \in Elements(s) \cup {e}
  BY <1>1 DEF Elements
<1> QED BY <1>1, <1>2 DEF Elements

LEMMA TailElements ==
    ASSUME NEW S, NEW s \in Seq(S), s # <<>>
    PROVE  /\ Tail(s) \in Seq(S) /\ Head(s) \in S
           /\ Elements(Tail(s)) \subseteq Elements(s) /\ Head(s) \in Elements(s)
<1>1. /\ Tail(s) \in Seq(S) /\ Len(Tail(s)) = Len(s) - 1 /\ Len(s) \in Nat \ {0}
      /\ \A i \in 1 .. Len(s) - 1 : Tail(s)[i] = s[i + 1]
      /\ Head(s) = s[1] /\ Head(s) \in S
      /\ DOMAIN s = 1 .. Len(s) /\ DOMAIN Tail(s) = 1 .. Len(s) - 1
  BY HeadTailProperties
<1>2. ASSUME NEW i \in DOMAIN Tail(s) PROVE Tail(s)[i] \in Elements(s)
  <2>1. i + 1 \in DOMAIN s /\ Tail(s)[i] = s[i + 1]
    BY <1>1
  <2> QED BY <2>1 DEF Elements
<1>3. Head(s) \in Elements(s)
  BY <1>1 DEF Elements
<1> QED BY <1>1, <1>2, <1>3 DEF Elements

LEMMA McpInitIInv == ASSUME Mcp!Init PROVE McpIInv
<1> USE DEF Mcp!Init
<1>1. McpTypes
  BY StrayLines DEF McpTypes, Mcp!Outcome, Mcp!NoLine
<1>2. Newest
  BY DEF Newest, Waiting
<1>3. LinesAbout = {}
  BY DEF LinesAbout, Waiting, Elements
<1>4. LinesAreOwn
  BY <1>3 DEF LinesAreOwn
<1>5. Mcp!ResponseIsOwn
  BY DEF Mcp!ResponseIsOwn, Mcp!Outcome, Mcp!None
<1> QED BY <1>1, <1>2, <1>4, <1>5 DEF McpIInv

\* No new line is about and the calls that are out are the same or fewer.
LEMMA FewerLines ==
    ASSUME McpIInv, UNCHANGED <<nextID, calls>>,
           LinesAbout' \subseteq LinesAbout \cup {Mcp!Unasked, Mcp!EOF},
           \A c \in Callers : Waiting(c)' => Waiting(c) /\ id'[c] = id[c] /\ mu' = mu
    PROVE  (Newest /\ LinesAreOwn)'
<1>1. Newest'
  BY DEF McpIInv, Newest
<1>2. ASSUME NEW line \in LinesAbout' PROVE line.id <= nextID
  <2>1. CASE line \in LinesAbout
    BY <2>1 DEF McpIInv, LinesAreOwn
  <2>2. CASE line \in {Mcp!Unasked, Mcp!EOF}
    BY <2>2, StrayLines DEF McpIInv, McpTypes
  <2> QED BY <1>2, <2>1, <2>2
<1>3. ASSUME NEW line \in LinesAbout', NEW c \in Callers, Waiting(c)', line.id = nextID
      PROVE  line.of = c /\ line.call = calls[c]
  <2>1. line \in LinesAbout
    BY <1>3, StrayLines DEF McpIInv, Newest
  <2> QED BY <1>3, <2>1 DEF McpIInv, LinesAreOwn
<1> QED BY <1>1, <1>2, <1>3 DEF LinesAreOwn

LEMMA CallKeepsIInv ==
    ASSUME Mcp!None \notin Callers, McpIInv, NEW c \in Callers, Mcp!Call(c)
    PROVE  McpIInv'
<1> USE DEF Mcp!Call, Mcp!Return
<1>0. McpTypes /\ Newest /\ LinesAreOwn /\ Mcp!ResponseIsOwn
  BY DEF McpIInv
<1>1. \A d \in Callers : ~ Waiting(d)
  BY <1>0 DEF Newest
<1> DEFINE line == [id |-> nextID + 1, of |-> c, call |-> calls[c]]
<1>2. line \in McpLines
  BY <1>0 DEF McpTypes, McpLines
<1>3. /\ input' \in Seq(McpLines)
      /\ Elements(input') \subseteq Elements(input) \cup (IF mu' = Mcp!None THEN {} ELSE {line})
  <2>1. CASE input' = input
    BY <1>0, <2>1 DEF McpTypes
  <2>2. CASE mu' = c /\ input' = Append(input, line)
    <3> HIDE DEF line
    <3> QED BY <1>0, <1>2, <2>2, AppendElements DEF McpTypes
  <2> QED BY <2>1, <2>2
<1>4. \A how \in {"error", "canceled", "closed"} :
          Mcp!Outcome(how, Mcp!NoLine) = [how |-> how, of |-> Mcp!None, call |-> 0]
  BY DEF Mcp!Outcome, Mcp!NoLine
<1>5. McpTypes'
  <2>1. /\ mcpPc' \in [Callers -> {"idle", "lock", "await", "collect"}]
        /\ mu' \in Callers \cup {Mcp!None}
    BY <1>0 DEF McpTypes
  <2>2. mcpResult' \in [Callers -> [how : {Mcp!None, "ok", "error", "canceled", "closed"},
                               of : Callers \cup {Mcp!None, "server", "eof"}, call : Nat]]
    BY <1>0, <1>4 DEF McpTypes
  <2>3. nextID' \in Nat /\ id' \in [Callers -> Nat] /\ rch' \in [Callers -> McpLines]
    <3>1. nextID \in Nat /\ nextID + 1 \in Nat
      BY <1>0 DEF McpTypes
    <3>2. nextID' \in Nat /\ id' \in [Callers -> Nat]
      <4>1. CASE nextID' = nextID /\ id' = id
        BY <1>0, <3>1, <4>1 DEF McpTypes
      <4>2. CASE nextID' = nextID + 1 /\ id' = [id EXCEPT ![c] = nextID + 1]
        BY <1>0, <3>1, <4>2 DEF McpTypes
      <4> QED BY <4>1, <4>2
    <3>3. rch' = [rch EXCEPT ![c] = Mcp!NoLine]
      OBVIOUS
    <3>4. rch' \in [Callers -> McpLines]
      BY <1>0, <3>3, StrayLines DEF McpTypes
    <3> QED BY <3>2, <3>4
  <2> QED BY <1>0, <1>3, <2>1, <2>2, <2>3 DEF McpTypes
<1>6. Mcp!ResponseIsOwn'
  BY <1>0, <1>4 DEF McpTypes, Mcp!ResponseIsOwn
<1>7. CASE mu' = Mcp!None
  <2>1. \A d \in Callers : ~ Waiting(d)'
    BY <1>0, <1>1, <1>7 DEF McpTypes, Waiting
  <2>2. LinesAbout' \subseteq LinesAbout /\ nextID' \in {nextID, nextID + 1}
    BY <1>0, <1>3, <1>7, <2>1 DEF LinesAbout
  <2>3. \A l \in LinesAbout' : l.id <= nextID'
    <3>1. \A l \in LinesAbout : l.id <= nextID /\ l.id \in Nat
      BY <1>0, LinesAreTyped DEF LinesAreOwn
    <3> QED BY <1>0, <2>2, <3>1 DEF McpTypes
  <2> QED BY <1>5, <1>6, <2>1, <2>3 DEF McpIInv, Newest, LinesAreOwn
<1>8. CASE mu' = c
  <2>1. /\ \A d \in Callers : Waiting(d)' <=> d = c
        /\ nextID' = nextID + 1 /\ id'[c] = nextID + 1 /\ rch'[c] = Mcp!NoLine
        /\ UNCHANGED <<output, calls>> /\ input' = Append(input, line)
    BY <1>0, <1>1, <1>8 DEF McpTypes, Waiting
  <2>2. LinesAbout' \subseteq LinesAbout \cup {line, Mcp!NoLine}
    BY <1>3, <1>8, <2>1 DEF LinesAbout
  <2>3. \A l \in LinesAbout : l.id <= nextID /\ l.id \in Nat
    BY <1>0, LinesAreTyped DEF LinesAreOwn
  <2>4. ASSUME NEW l \in LinesAbout'
        PROVE  l.id <= nextID + 1 /\ (l.id = nextID + 1 => l.of = c /\ l.call = calls[c])
    <3>1. CASE l \in LinesAbout
      BY <1>0, <2>3, <3>1 DEF McpTypes
    <3>2. CASE l = line
      BY <1>0, <3>2 DEF McpTypes
    <3>3. CASE l = Mcp!NoLine
      BY <1>0, <3>3, StrayLines DEF McpTypes
    <3> QED BY <2>2, <2>4, <3>1, <3>2, <3>3
  <2>5. LinesAreOwn'
    BY <2>1, <2>4 DEF LinesAreOwn
  <2>6. Newest'
    BY <1>0, <1>8, <2>1 DEF Newest, McpTypes
  <2> QED BY <1>5, <1>6, <2>5, <2>6 DEF McpIInv
<1>9. mu' = Mcp!None \/ mu' = c
  OBVIOUS
<1> QED BY <1>7, <1>8, <1>9

\* The goroutine hands on a line that was about, or the end of the output.
LEMMA ScanKeepsIInv == ASSUME McpIInv, NEW c \in Callers, Mcp!Scan(c) PROVE McpIInv'
<1>0. McpTypes /\ Newest /\ LinesAreOwn /\ Mcp!ResponseIsOwn
  BY DEF McpIInv
<1>1. /\ output' \in Seq(McpLines) /\ Elements(output') \subseteq Elements(output)
      /\ \E line \in Elements(output) \cup {Mcp!EOF} :
            line \in McpLines /\ rch' = [rch EXCEPT ![c] = line]
  <2>1. CASE output # <<>>
    <3>1. rch' = [rch EXCEPT ![c] = Head(output)] /\ output' = Tail(output)
      BY <2>1 DEF Mcp!Scan
    <3>2. output \in Seq(McpLines)
      BY <1>0 DEF McpTypes
    <3>3. /\ Tail(output) \in Seq(McpLines) /\ Head(output) \in McpLines
          /\ Elements(Tail(output)) \subseteq Elements(output)
          /\ Head(output) \in Elements(output)
      BY <2>1, <3>2, TailElements
    <3> QED BY <3>1, <3>3
  <2>2. CASE output = <<>>
    <3>1. rch' = [rch EXCEPT ![c] = Mcp!EOF] /\ output' = output
      BY <2>2 DEF Mcp!Scan
    <3> QED BY <1>0, <3>1, StrayLines DEF McpTypes
  <2> QED BY <2>1, <2>2
<1>2. McpTypes'
  BY <1>0, <1>1 DEF McpTypes, Mcp!Scan
<1>3. LinesAbout' \subseteq LinesAbout \cup {Mcp!Unasked, Mcp!EOF}
  <2>1. \A d \in Callers : Waiting(d)' <=> Waiting(d)
    BY DEF Waiting, Mcp!Scan
  <2>2. \A d \in Callers : rch'[d] \in {rch[d]} \cup Elements(output) \cup {Mcp!EOF}
    BY <1>0, <1>1 DEF McpTypes
  <2>3. input' = input
    BY DEF Mcp!Scan
  <2> QED BY <1>1, <2>1, <2>2, <2>3 DEF LinesAbout
<1>4. (Newest /\ LinesAreOwn)'
  BY <1>3, FewerLines DEF Mcp!Scan, Waiting
<1>5. Mcp!ResponseIsOwn'
  BY <1>0 DEF Mcp!ResponseIsOwn, Mcp!Scan
<1> QED BY <1>2, <1>4, <1>5 DEF McpIInv

\* A response is taken by its ID.
LEMMA RespondKeepsIInv ==
    ASSUME Mcp!None \notin Callers, McpIInv, NEW c \in Callers, Mcp!Respond(c)
    PROVE  McpIInv'
<1> USE DEF Mcp!Respond, Mcp!Return
<1>0. McpTypes /\ Newest /\ LinesAreOwn /\ Mcp!ResponseIsOwn
  BY DEF McpIInv
<1>1. Mcp!Takes(c, rch[c]) => rch[c].of = c /\ rch[c].call = calls[c]
  <2>1. rch[c] \in LinesAbout
    BY DEF LinesAbout, Waiting
  <2> QED BY <1>0, <2>1 DEF Mcp!Takes, Newest, LinesAreOwn, Waiting
<1>2. \E how \in {"ok", "error"} :
          /\ how = "ok" <=> Mcp!Takes(c, rch[c])
          /\ mcpResult' = [mcpResult EXCEPT ![c] =
                           [how |-> how, of |-> rch[c].of, call |-> rch[c].call]]
  BY DEF Mcp!Outcome
<1>3. McpTypes'
  <2>1. rch[c].of \in Callers \cup {Mcp!None, "server", "eof"} /\ rch[c].call \in Nat
    BY <1>0 DEF McpTypes, McpLines
  <2>2. mcpResult' \in [Callers -> [how : {Mcp!None, "ok", "error", "canceled", "closed"},
                               of : Callers \cup {Mcp!None, "server", "eof"}, call : Nat]]
    BY <1>0, <1>2, <2>1 DEF McpTypes
  <2>3. /\ mcpPc' = [mcpPc EXCEPT ![c] = "idle"] /\ mu' = Mcp!None
        /\ UNCHANGED <<calls, id, rch, nextID, input, output>>
    BY DEF Mcp!world
  <2> QED BY <1>0, <2>2, <2>3 DEF McpTypes
<1>4. Mcp!ResponseIsOwn'
  BY <1>0, <1>1, <1>2 DEF McpTypes, Mcp!ResponseIsOwn
<1>5. (Newest /\ LinesAreOwn)'
  <2>1. \A d \in Callers : Waiting(d)' => FALSE
    BY <1>0, OneWaits DEF Waiting, McpTypes
  <2>2. LinesAbout' \subseteq LinesAbout
    BY <2>1 DEF LinesAbout, Mcp!world
  <2> QED BY <2>1, <2>2, FewerLines
<1> QED BY <1>3, <1>4, <1>5 DEF McpIInv

\* Steps of a caller that take no response: it begins or is cancelled.
LEMMA OthersKeepIInv ==
    ASSUME Mcp!None \notin Callers, McpIInv, NEW c \in Callers,
           Mcp!Begin(c) \/ Mcp!Cancel(c) \/ Mcp!Collect(c) \/ Mcp!Expire(c) \/ Mcp!End(c)
    PROVE  McpIInv'
<1>0. McpTypes /\ Newest /\ LinesAreOwn /\ Mcp!ResponseIsOwn
  BY DEF McpIInv
<1>1. CASE Mcp!Begin(c)
  <2>1. ~ Waiting(c) /\ \A d \in Callers : Waiting(d)' <=> Waiting(d)
    BY <1>0, <1>1 DEF Mcp!Begin, McpTypes, Waiting
  <2>2. McpTypes' /\ Mcp!ResponseIsOwn'
    <3>1. Mcp!Outcome(Mcp!None, Mcp!NoLine) = [how |-> Mcp!None, of |-> Mcp!None, call |-> 0] /\ Mcp!None # "ok"
      BY DEF Mcp!Outcome, Mcp!NoLine, Mcp!None
    <3>2. /\ mcpResult' = [mcpResult EXCEPT ![c] = [how |-> Mcp!None, of |-> Mcp!None, call |-> 0]]
          /\ mcpPc' = [mcpPc EXCEPT ![c] = "lock"] /\ calls' = [calls EXCEPT ![c] = calls[c] + 1]
          /\ UNCHANGED <<mu, id, rch, nextID, input, output>>
      BY <1>1, <3>1 DEF Mcp!Begin, Mcp!world
    <3>3. calls' \in [Callers -> Nat]
      BY <1>0, <3>2 DEF McpTypes
    <3>4. McpTypes'
      BY <1>0, <3>2, <3>3 DEF McpTypes
    <3>5. Mcp!ResponseIsOwn'
      BY <1>0, <3>1, <3>2 DEF McpTypes, Mcp!ResponseIsOwn
    <3> QED BY <3>4, <3>5
  <2>3. \A d \in Callers : Waiting(d) => calls'[d] = calls[d]
    BY <1>0, <1>1, <2>1 DEF Mcp!Begin, McpTypes
  <2>4. LinesAbout' = LinesAbout
    BY <1>1, <2>1 DEF Mcp!Begin, LinesAbout, Mcp!world
  <2>5. Newest' /\ LinesAreOwn'
    BY <1>0, <1>1, <2>1, <2>3, <2>4 DEF Mcp!Begin, Newest, LinesAreOwn
  <2> QED BY <2>2, <2>5 DEF McpIInv
<1>2. CASE Mcp!Collect(c)
  <2>1. McpTypes' /\ Mcp!ResponseIsOwn'
    <3>1. Mcp!Outcome("canceled", Mcp!NoLine) = [how |-> "canceled", of |-> Mcp!None, call |-> 0]
      BY DEF Mcp!Outcome, Mcp!NoLine
    <3>2. /\ mcpResult' = [mcpResult EXCEPT ![c] = [how |-> "canceled", of |-> Mcp!None, call |-> 0]]
          /\ mcpPc' = [mcpPc EXCEPT ![c] = "idle"] /\ mu' = Mcp!None
          /\ UNCHANGED <<calls, id, rch, nextID, input, output>>
      BY <1>2, <3>1 DEF Mcp!Collect, Mcp!Return, Mcp!world
    <3>3. McpTypes'
      BY <1>0, <3>2 DEF McpTypes
    <3>4. Mcp!ResponseIsOwn'
      BY <1>0, <3>2 DEF McpTypes, Mcp!ResponseIsOwn
    <3> QED BY <3>3, <3>4
  <2>2. \A d \in Callers : Waiting(d)' => FALSE
    BY <1>0, <1>2, OneWaits DEF Mcp!Collect, Mcp!Return, Waiting, McpTypes
  <2>3. LinesAbout' \subseteq LinesAbout
    BY <1>2, <2>2 DEF Mcp!Collect, LinesAbout, Mcp!world
  <2>4. (Newest /\ LinesAreOwn)'
    BY <1>2, <2>2, <2>3, FewerLines DEF Mcp!Collect
  <2> QED BY <2>1, <2>4 DEF McpIInv
<1>3. CASE Mcp!Cancel(c) \/ Mcp!Expire(c) \/ Mcp!End(c)
  <2>1. /\ UNCHANGED <<calls, id, rch, mcpResult, mu, nextID, input, output>>
        /\ \/ mcpPc' = mcpPc
           \/ mcpPc[c] = "await" /\ mcpPc' = [mcpPc EXCEPT ![c] = "collect"]
    <3>1. CASE Mcp!Cancel(c)
      BY <3>1 DEF Mcp!Cancel, Mcp!world
    <3>2. CASE Mcp!Expire(c)
      BY <3>2 DEF Mcp!Expire, Mcp!client
    <3>3. CASE Mcp!End(c)
      BY <3>3 DEF Mcp!End, Mcp!world
    <3> QED BY <1>3, <3>1, <3>2, <3>3
  <2>2. \A d \in Callers : Waiting(d)' <=> Waiting(d)
    BY <1>0, <2>1 DEF McpTypes, Waiting
  <2>3. LinesAbout' = LinesAbout
    BY <2>1, <2>2 DEF LinesAbout
  <2>4. McpTypes' /\ Mcp!ResponseIsOwn'
    BY <1>0, <2>1 DEF McpTypes, Mcp!ResponseIsOwn
  <2> QED BY <2>1, <2>2, <2>3, <2>4, FewerLines DEF McpIInv
<1> QED BY <1>1, <1>2, <1>3

\* The server answers, or speaks unasked.
LEMMA ServerKeepsIInv == ASSUME McpIInv, Mcp!Serve \/ Mcp!Notify PROVE McpIInv'
<1>0. McpTypes /\ Newest /\ LinesAreOwn /\ Mcp!ResponseIsOwn
  BY DEF McpIInv
<1>1. /\ UNCHANGED Mcp!client
      /\ input' \in Seq(McpLines) /\ Elements(input') \subseteq Elements(input)
      /\ \E line \in Elements(input) \cup {Mcp!Unasked} :
            line \in McpLines /\ output' = Append(output, line)
  <2>1. CASE Mcp!Serve
    BY <1>0, <2>1, TailElements DEF Mcp!Serve, McpTypes
  <2>2. CASE Mcp!Notify
    BY <1>0, <2>2, StrayLines DEF Mcp!Notify, McpTypes
  <2> QED BY <2>1, <2>2
<1>2. PICK line \in Elements(input) \cup {Mcp!Unasked} :
          line \in McpLines /\ output' = Append(output, line)
  BY <1>1
<1>3. output' \in Seq(McpLines) /\ Elements(output') \subseteq Elements(output) \cup {line}
  BY <1>0, <1>2, AppendElements DEF McpTypes
<1>5. \A d \in Callers : Waiting(d)' <=> Waiting(d)
  BY <1>1 DEF Waiting, Mcp!client
<1>6. LinesAbout' \subseteq LinesAbout \cup {Mcp!Unasked, Mcp!EOF}
  BY <1>1, <1>2, <1>3, <1>5 DEF LinesAbout, Mcp!client
<1>7. (Newest /\ LinesAreOwn)'
  BY <1>1, <1>5, <1>6, FewerLines DEF Mcp!client
<1>8. McpTypes' /\ Mcp!ResponseIsOwn'
  BY <1>0, <1>1, <1>3 DEF McpTypes, Mcp!ResponseIsOwn, Mcp!client
<1> QED BY <1>7, <1>8 DEF McpIInv

LEMMA McpNextKeepsIInv ==
    ASSUME Mcp!None \notin Callers, McpIInv, [Mcp!Next]_Mcp!vars
    PROVE  McpIInv'
<1>1. ASSUME NEW c \in Callers,
             \/ Mcp!Begin(c) \/ Mcp!Call(c) \/ Mcp!Scan(c) \/ Mcp!Respond(c) \/ Mcp!Cancel(c) \/ Mcp!Collect(c)
             \/ Mcp!Expire(c) \/ Mcp!End(c)
      PROVE  McpIInv'
  BY <1>1, CallKeepsIInv, ScanKeepsIInv, RespondKeepsIInv, OthersKeepIInv
<1>2. CASE Mcp!CloseBegins \/ Mcp!Close \/ Mcp!CloseEnds \/ Mcp!Die \/ UNCHANGED Mcp!vars
  <2>1. UNCHANGED <<mcpPc, calls, id, rch, mcpResult, mu, nextID, input, output>>
    BY <1>2 DEF Mcp!CloseBegins, Mcp!Close, Mcp!CloseEnds, Mcp!Die, Mcp!vars, Mcp!client,
         Mcp!world
  <2>2. \A d \in Callers : Waiting(d)' <=> Waiting(d)
    BY <2>1 DEF Waiting
  <2>3. LinesAbout' = LinesAbout
    BY <2>1, <2>2 DEF LinesAbout
  <2> QED BY <2>1, <2>2, <2>3 DEF McpIInv, McpTypes, Newest, LinesAreOwn, Mcp!ResponseIsOwn
<1>3. CASE Mcp!Serve \/ Mcp!Notify
  BY <1>3, ServerKeepsIInv
<1> QED BY <1>1, <1>2, <1>3 DEF Mcp!Next

\* A caller gets the answer to its own request or none, whatever lies in the pipe
\* from cancelled calls or unasked lines (client.go:262-270).
THEOREM ResponsesAreOwn ==
    ASSUME Mcp!None \notin Callers
    PROVE  Mcp!Spec => []Mcp!ResponseIsOwn
<1>1. Mcp!Init => McpIInv
  BY McpInitIInv
<1>2. McpIInv /\ [Mcp!Next]_Mcp!vars => McpIInv'
  BY McpNextKeepsIInv
<1>3. McpIInv => Mcp!ResponseIsOwn
  BY DEF McpIInv
<1> QED BY <1>1, <1>2, <1>3, PTL DEF Mcp!Spec

-------------------------------------------------------------------------------
(* The provider.                                                           *)
Asking == {"trying", "pausing", "reading"}

\* Requests and responses take turns, and carry the number of their round.
Pairs(s) ==
    \A n \in DOMAIN s : /\ s[n].type = IF n % 2 = 1 THEN "request" ELSE "response"
                        /\ s[n].round = (n + 1) \div 2

LogIsPaired ==
    /\ round \in Nat /\ phase \in Asking \cup {"idle", "over"}
    /\ log \in Seq(Elements(log))
    /\ Pairs(log)
    /\ phase \in Asking => round > 0 /\ Len(log) = 2 * round - 1
    /\ phase \notin Asking => Len(log) = 2 * round
    /\ phase = "idle" /\ round > 0 => ~ Prov!Last(log).err

ResultIsLogged == provResult.call.of # 0 => Prov!Last(log).call = provResult.call

HeardIsNoted == heard.call = noted

ProvIInv == LogIsPaired /\ ResultIsLogged /\ HeardIsNoted

-------------------------------------------------------------------------------
LEMMA OwnElements == ASSUME NEW S, NEW t \in Seq(S) PROVE t \in Seq(Elements(t))
<1>1. \A i \in 1 .. Len(t) : t[i] \in Elements(t)
  BY DEF Elements
<1>2. t = [i \in 1 .. Len(t) |-> t[i]] /\ Len(t) \in Nat
  OBVIOUS
<1>3. t \in [1 .. Len(t) -> Elements(t)]
  BY <1>1, <1>2
<1> QED BY <1>2, <1>3

LEMMA MoreElements ==
    ASSUME NEW s, s \in Seq(Elements(s)), NEW S, Elements(s) \subseteq S
    PROVE  s \in Seq(S)
<1>1. s = [i \in 1 .. Len(s) |-> s[i]] /\ Len(s) \in Nat
  OBVIOUS
<1>2. s \in [1 .. Len(s) -> S]
  BY <1>1 DEF Elements
<1> QED BY <1>1, <1>2

LEMMA AppendEvent ==
    ASSUME NEW s, s \in Seq(Elements(s)), NEW e
    PROVE  /\ Append(s, e) \in Seq(Elements(Append(s, e)))
           /\ Len(s) \in Nat /\ Len(Append(s, e)) = Len(s) + 1
           /\ DOMAIN Append(s, e) = 1 .. Len(s) + 1 /\ DOMAIN s = 1 .. Len(s)
           /\ \A i \in 1 .. Len(s) : Append(s, e)[i] = s[i]
           /\ Append(s, e)[Len(s) + 1] = e /\ Prov!Last(Append(s, e)) = e
<1>1. PICK S : s \in Seq(S) /\ e \in S
  <2>1. s \in Seq(Elements(s) \cup {e})
    BY MoreElements
  <2> QED BY <2>1
<1>2. /\ Append(s, e) \in Seq(S) /\ Len(Append(s, e)) = Len(s) + 1
      /\ DOMAIN Append(s, e) = 1 .. Len(s) + 1
      /\ \A i \in 1 .. Len(s) : Append(s, e)[i] = s[i]
      /\ Append(s, e)[Len(s) + 1] = e
  BY <1>1, AppendProperties
<1>3. Append(s, e) \in Seq(Elements(Append(s, e)))
  BY <1>2, OwnElements
<1>4. Prov!Last(Append(s, e)) = e
  BY <1>1, <1>2 DEF Prov!Last
<1> QED BY <1>1, <1>2, <1>3, <1>4

\* Requests lie at odd places, responses at even ones.
LEMMA OddAndEven ==
    ASSUME NEW r \in Nat
    PROVE  /\ (2 * r + 1) % 2 = 1 /\ (2 * r + 2) \div 2 = r + 1
           /\ (2 * r) % 2 = 0 /\ (2 * r + 1) \div 2 = r
  OBVIOUS

LEMMA ProvInitIInv == ASSUME Prov!Init PROVE ProvIInv
<1>1. log = <<>> /\ log \in Seq(Elements(log)) /\ Len(log) = 0 /\ DOMAIN log = {}
  BY DEF Prov!Init, Elements
<1>2. LogIsPaired
  BY <1>1 DEF Prov!Init, LogIsPaired, Pairs, Asking
<1>3. ResultIsLogged /\ HeardIsNoted
  BY DEF Prov!Init, ResultIsLogged, HeardIsNoted, Prov!Nothing, Prov!NoEvent, Prov!NoCall
<1> QED BY <1>2, <1>3 DEF ProvIInv

\* The event of a request follows that of a response, and the other way round.
LEMMA RequestIsPaired ==
    ASSUME NEW s, s \in Seq(Elements(s)), Pairs(s), NEW r \in Nat, Len(s) = 2 * r,
           NEW e, e.type = "request", e.round = r + 1
    PROVE  /\ Append(s, e) \in Seq(Elements(Append(s, e)))
           /\ Len(Append(s, e)) = 2 * r + 1 /\ Pairs(Append(s, e))
<1> DEFINE t == Append(s, e)
<1>1. /\ t \in Seq(Elements(t)) /\ Len(t) = 2 * r + 1
      /\ DOMAIN t = 1 .. 2 * r + 1 /\ DOMAIN s = 1 .. 2 * r
      /\ \A i \in 1 .. 2 * r : t[i] = s[i]
      /\ t[2 * r + 1] = e
  BY AppendEvent
<1> HIDE DEF t
<1>2. ASSUME NEW n \in DOMAIN t
      PROVE  /\ t[n].type = IF n % 2 = 1 THEN "request" ELSE "response"
             /\ t[n].round = (n + 1) \div 2
  <2>1. CASE n \in 1 .. 2 * r
    BY <1>1, <2>1 DEF Pairs
  <2>2. CASE n = 2 * r + 1
    <3>1. n + 1 = 2 * r + 2
      BY <2>2
    <3> QED BY <1>1, <2>2, <3>1, OddAndEven
  <2> QED BY <1>1, <2>1, <2>2
<1>3. Pairs(t)
  BY <1>2 DEF Pairs
<1> QED BY <1>1, <1>3 DEF t

LEMMA ResponseIsPaired ==
    ASSUME NEW s, s \in Seq(Elements(s)), Pairs(s), NEW r \in Nat \ {0}, Len(s) = 2 * r - 1,
           NEW e, e.type = "response", e.round = r
    PROVE  /\ Append(s, e) \in Seq(Elements(Append(s, e)))
           /\ Len(Append(s, e)) = 2 * r /\ Pairs(Append(s, e))
           /\ Prov!Last(Append(s, e)) = e
<1> DEFINE t == Append(s, e)
<1>1. /\ t \in Seq(Elements(t)) /\ Len(t) = 2 * r
      /\ DOMAIN t = 1 .. 2 * r /\ DOMAIN s = 1 .. 2 * r - 1
      /\ \A i \in 1 .. 2 * r - 1 : t[i] = s[i]
      /\ t[2 * r] = e /\ Prov!Last(t) = e
  BY AppendEvent
<1> HIDE DEF t
<1>2. ASSUME NEW n \in DOMAIN t
      PROVE  /\ t[n].type = IF n % 2 = 1 THEN "request" ELSE "response"
             /\ t[n].round = (n + 1) \div 2
  <2>1. CASE n \in 1 .. 2 * r - 1
    BY <1>1, <2>1 DEF Pairs
  <2>2. CASE n = 2 * r
    BY <1>1, <2>2, OddAndEven
  <2> QED BY <1>1, <2>1, <2>2
<1>3. Pairs(t)
  BY <1>2 DEF Pairs
<1> QED BY <1>1, <1>3 DEF t

-------------------------------------------------------------------------------
LEMMA BeginKeepsIInv == ASSUME ProvIInv, NEW o, Prov!Begin(o) PROVE ProvIInv'
<1> DEFINE r == round + 1
           request == Append(log, Prov!Event("request", r, Prov!NoCall, FALSE))
           refused == Append(request, Prov!Event("response", r, Prov!NoCall, TRUE))
<1>1. phase = "idle" /\ round' = r /\ heard' = Prov!NoEvent /\ noted' = Prov!NoCall
  BY DEF Prov!Begin
<1>2. \/ /\ log' = refused /\ phase' = "over"
         /\ provResult' = [call |-> Prov!NoCall, err |-> TRUE]
      \/ log' = request /\ phase' = "trying" /\ provResult' = Prov!Nothing
  BY DEF Prov!Begin
<1>3. provResult'.call = Prov!NoCall
  <2> HIDE DEF request, refused
  <2> QED BY <1>2 DEF Prov!Nothing
<1>4. ResultIsLogged' /\ HeardIsNoted'
  BY <1>1, <1>3 DEF ResultIsLogged, HeardIsNoted, Prov!NoEvent, Prov!NoCall
<1>5. /\ round \in Nat /\ r \in Nat \ {0} /\ 2 * round + 1 = 2 * r - 1
      /\ log \in Seq(Elements(log)) /\ Pairs(log) /\ Len(log) = 2 * round
  BY <1>1 DEF ProvIInv, LogIsPaired, Asking
<1>6. request \in Seq(Elements(request)) /\ Len(request) = 2 * r - 1 /\ Pairs(request)
  <2> DEFINE e == Prov!Event("request", r, Prov!NoCall, FALSE)
  <2>1. e.type = "request" /\ e.round = round + 1
    BY DEF Prov!Event
  <2> HIDE DEF e, r
  <2> QED BY <1>5, <2>1, RequestIsPaired DEF e
<1>7. refused \in Seq(Elements(refused)) /\ Len(refused) = 2 * r /\ Pairs(refused)
  <2> DEFINE e == Prov!Event("response", r, Prov!NoCall, TRUE)
  <2>1. e.type = "response" /\ e.round = r
    BY DEF Prov!Event
  <2> HIDE DEF e, r, request
  <2> QED BY <1>5, <1>6, <2>1, ResponseIsPaired DEF e
<1>8. LogIsPaired'
  <2> HIDE DEF request, refused, r
  <2> QED BY <1>1, <1>2, <1>5, <1>6, <1>7 DEF LogIsPaired, Asking
<1> QED BY <1>4, <1>8 DEF ProvIInv

\* The request goes on: nothing is written.
LEMMA GoingOnKeepsIInv ==
    ASSUME ProvIInv, phase \in Asking, phase' \in Asking,
           UNCHANGED <<log, round, provResult>>, HeardIsNoted'
    PROVE  ProvIInv'
  BY DEF ProvIInv, LogIsPaired, ResultIsLogged, Asking

\* The request ends: its response is written, and the loop gets the call of it or none.
LEMMA EndKeepsIInv ==
    ASSUME ProvIInv, phase \in Asking, UNCHANGED <<round, heard, noted>>,
           NEW call, NEW err \in BOOLEAN, NEW given, NEW broken \in BOOLEAN,
           log' = Append(log, Prov!Event("response", round, call, err)),
           given.of = 0 \/ given = call,
           err => broken,
           Prov!EndWith(given, broken)
    PROVE  ProvIInv'
<1>1. /\ round \in Nat \ {0} /\ log \in Seq(Elements(log)) /\ Len(log) = 2 * round - 1
      /\ Pairs(log)
  BY DEF ProvIInv, LogIsPaired
<1> DEFINE e == Prov!Event("response", round, call, err)
<1>0. e.type = "response" /\ e.round = round /\ e.call = call /\ e.err = err
  BY DEF Prov!Event
<1> HIDE DEF e
<1>2. /\ log' \in Seq(Elements(log')) /\ Len(log') = 2 * round /\ Pairs(log')
      /\ Prov!Last(log') = e
  <2>1. log' = Append(log, e)
    BY DEF e
  <2>2. /\ Append(log, e) \in Seq(Elements(Append(log, e)))
        /\ Len(Append(log, e)) = 2 * round /\ Pairs(Append(log, e))
        /\ Prov!Last(Append(log, e)) = e
    BY <1>0, <1>1, ResponseIsPaired
  <2> QED BY <2>1, <2>2
<1>3. /\ phase' \in {"idle", "over"} /\ (phase' = "idle" => ~ broken)
      /\ provResult'.call = IF broken THEN Prov!NoCall ELSE given
  BY DEF Prov!EndWith
<1>4. LogIsPaired'
  BY <1>0, <1>1, <1>2, <1>3 DEF LogIsPaired, Asking
<1>5. ResultIsLogged'
  BY <1>0, <1>2, <1>3 DEF ResultIsLogged, Prov!NoCall
<1> QED BY <1>4, <1>5 DEF ProvIInv, HeardIsNoted

\* Of the two writers of a response the first writes, whatever it is called with.
LEMMA WrittenOnce ==
    ASSUME ProvIInv, phase \in Asking, NEW err
    PROVE  Prov!finishOnce(Prov!finishOnce(log, err), err)
               = Append(log, Prov!Event("response", round, noted, err))
<1>1. /\ round \in Nat \ {0} /\ log \in Seq(Elements(log)) /\ Len(log) = 2 * round - 1
      /\ DOMAIN log = 1 .. Len(log)
      /\ Pairs(log)
  BY DEF ProvIInv, LogIsPaired
<1>2. Prov!Last(log).type = "request"
  <2>1. Len(log) \in DOMAIN log /\ Len(log) % 2 = 1
    BY <1>1, OddAndEven
  <2> QED BY <1>1, <2>1 DEF Prov!Last, Pairs
<1> DEFINE t == Append(log, Prov!Event("response", round, noted, err))
<1>3. Prov!Last(t).type = "response"
  BY <1>1, AppendEvent DEF Prov!Event
<1> QED BY <1>2, <1>3 DEF Prov!finishOnce

\* The wrapper and the loop take note of the same call.
LEMMA DeliverKeeps == ASSUME HeardIsNoted, NEW ev, Prov!Deliver(ev) PROVE HeardIsNoted'
  BY DEF HeardIsNoted, Prov!Deliver

-------------------------------------------------------------------------------
LEMMA RetryKeepsIInv ==
    ASSUME ProvIInv, (\E failure \in Prov!Failures : Prov!Fail(failure)) \/ Prov!Wake \/ Prov!Connect
    PROVE  ProvIInv'
<1>0. HeardIsNoted
  BY DEF ProvIInv
<1>1. ASSUME NEW failure \in Prov!Failures, Prov!Fail(failure) PROVE ProvIInv'
  <2>1. /\ phase = "trying" /\ UNCHANGED <<round, heard, noted>>
        /\ \/ phase' = "pausing" /\ UNCHANGED <<log, provResult>>
           \/ Prov!GiveUp
    BY <1>1 DEF Prov!Fail, Prov!stream
  <2>2. CASE phase' = "pausing" /\ UNCHANGED <<log, provResult>>
    BY <1>0, <2>1, <2>2, GoingOnKeepsIInv DEF Asking, HeardIsNoted
  <2>3. CASE Prov!GiveUp
    BY <2>1, <2>3, EndKeepsIInv DEF Prov!GiveUp, Asking, Prov!NoCall
  <2> QED BY <2>1, <2>2, <2>3
<1>2. CASE Prov!Wake
  <2>1. /\ phase = "pausing" /\ UNCHANGED <<round, heard, noted>>
        /\ \/ phase' = "trying" /\ UNCHANGED <<log, provResult>>
           \/ Prov!GiveUp
    BY <1>2 DEF Prov!Wake, Prov!stream
  <2>2. CASE phase' = "trying" /\ UNCHANGED <<log, provResult>>
    BY <1>0, <2>1, <2>2, GoingOnKeepsIInv DEF Asking, HeardIsNoted
  <2>3. CASE Prov!GiveUp
    BY <2>1, <2>3, EndKeepsIInv DEF Prov!GiveUp, Asking, Prov!NoCall
  <2> QED BY <2>1, <2>2, <2>3
<1>3. CASE Prov!Connect
  <2>1. /\ phase = "trying" /\ phase' = "reading"
        /\ UNCHANGED <<round, heard, noted, log, provResult>>
    BY <1>3 DEF Prov!Connect, Prov!stream
  <2> QED BY <1>0, <2>1, GoingOnKeepsIInv DEF Asking, HeardIsNoted
<1> QED BY <1>1, <1>2, <1>3

LEMMA AnswerKeepsIInv == ASSUME ProvIInv, NEW n, Prov!Answer(n) PROVE ProvIInv'
<1>1. PICK call : log' = Append(log, Prov!Event("response", round, call, FALSE))
  BY DEF Prov!Answer
<1>2. phase \in Asking /\ UNCHANGED <<round, heard, noted>> /\ Prov!EndWith(Prov!NoCall, FALSE)
  BY DEF Prov!Answer, Asking, Prov!stream
<1> QED BY <1>1, <1>2, EndKeepsIInv DEF Prov!NoCall

\* A line, or an event of the outbox.
LEMMA ReadKeepsIInv ==
    ASSUME ProvIInv, phase = "reading", Prov!InStream,
           UNCHANGED <<heard, noted>> \/ \E ev : Prov!Deliver(ev)
    PROVE  ProvIInv'
<1>1. HeardIsNoted'
  BY DeliverKeeps DEF ProvIInv, HeardIsNoted
<1>2. phase' = phase /\ UNCHANGED <<log, round, provResult>>
  BY DEF Prov!InStream
<1> QED BY <1>1, <1>2, GoingOnKeepsIInv DEF Asking

LEMMA LinesKeepIInv ==
    ASSUME ProvIInv, NEW frags, NEW text, NEW finish, NEW usage,
           Prov!Lines(frags, text, finish, usage)
    PROVE  ProvIInv'
<1>1. CASE Prov!ReadOpenai(frags, text, finish, usage)
  BY <1>1, ReadKeepsIInv DEF Prov!ReadOpenai, Prov!Reading
<1>2. CASE Prov!ReadLlama(frags, text, finish, usage)
  BY <1>2, ReadKeepsIInv DEF Prov!ReadLlama, Prov!Reading
<1>3. CASE Prov!ReadWhole(frags, text, finish, usage)
  BY <1>3, ReadKeepsIInv DEF Prov!ReadWhole, Prov!Reading
<1> QED BY <1>1, <1>2, <1>3 DEF Prov!Lines

LEMMA BlocksKeepIInv ==
    ASSUME ProvIInv,
           \/ \E i \in Prov!CallNumbers : Prov!BlockStart(i)
           \/ Prov!BlockDelta \/ Prov!BlockStop \/ Prov!Outbox
           \/ \E finish \in BOOLEAN : Prov!BlockText(finish)
    PROVE  ProvIInv'
<1>1. CASE \E i \in Prov!CallNumbers : Prov!BlockStart(i)
  BY <1>1, ReadKeepsIInv DEF Prov!BlockStart, Prov!Reading
<1>2. CASE Prov!BlockDelta
  BY <1>2, ReadKeepsIInv DEF Prov!BlockDelta, Prov!Reading
<1>3. CASE Prov!BlockStop
  BY <1>3, ReadKeepsIInv DEF Prov!BlockStop, Prov!Reading
<1>4. CASE Prov!Outbox
  BY <1>4, ReadKeepsIInv DEF Prov!Outbox
<1>5. CASE \E finish \in BOOLEAN : Prov!BlockText(finish)
  BY <1>5, ReadKeepsIInv DEF Prov!BlockText, Prov!Reading
<1> QED BY <1>1, <1>2, <1>3, <1>4, <1>5

\* The ends of a stream.
LEMMA FinishKeepsIInv ==
    ASSUME ProvIInv, phase \in Asking, UNCHANGED <<round, heard, noted>>, Prov!Finish \/ Prov!Break
    PROVE  ProvIInv'
<1>1. CASE Prov!Finish
  <2>1. log' = Append(log, Prov!Event("response", round, noted, FALSE))
    BY <1>1, WrittenOnce DEF Prov!Finish
  <2>2. PICK broken \in BOOLEAN : Prov!EndWith(heard.call, broken)
    BY <1>1 DEF Prov!Finish
  <2> QED BY <2>1, <2>2, EndKeepsIInv DEF ProvIInv, HeardIsNoted
<1>2. CASE Prov!Break
  <2>1. log' = Append(log, Prov!Event("response", round, noted, TRUE)) /\ Prov!EndWith(Prov!NoCall, TRUE)
    BY <1>2, WrittenOnce DEF Prov!Break
  <2> QED BY <2>1, EndKeepsIInv DEF Prov!NoCall
<1> QED BY <1>1, <1>2

LEMMA EndsKeepIInv == ASSUME ProvIInv, Prov!StreamEnds \/ Prov!Breaks \/ Prov!Junk PROVE ProvIInv'
<1>1. phase = "reading"
  BY DEF Prov!StreamEnds, Prov!Breaks, Prov!Junk, Prov!Reading
<1>2. \/ Prov!InStream /\ UNCHANGED <<heard, noted>>
      \/ (Prov!Finish \/ Prov!Break) /\ UNCHANGED <<round, heard, noted>>
  BY DEF Prov!StreamEnds, Prov!Breaks, Prov!Junk, Prov!stream
<1>3. phase \in Asking
  BY <1>1 DEF Asking
<1> QED BY <1>1, <1>2, <1>3, ReadKeepsIInv, FinishKeepsIInv

LEMMA ProvNextKeepsIInv == ASSUME ProvIInv, [Prov!Next]_Prov!vars PROVE ProvIInv'
<1>1. CASE UNCHANGED Prov!vars
  BY <1>1 DEF Prov!vars, Prov!stream, ProvIInv, LogIsPaired, ResultIsLogged, HeardIsNoted
<1>2. CASE Prov!Next
  <2>1. \/ \E o \in {"Stream", "Chat"} : Prov!Begin(o)
        \/ (\E failure \in Prov!Failures : Prov!Fail(failure)) \/ Prov!Wake \/ Prov!Connect
        \/ \E n \in 0 .. 1 : Prov!Answer(n)
        \/ \E frags, text, finish, usage : Prov!Lines(frags, text, finish, usage)
        \/ Prov!Outbox \/ (\E i \in Prov!CallNumbers : Prov!BlockStart(i)) \/ Prov!BlockDelta \/ Prov!BlockStop
        \/ \E finish \in BOOLEAN : Prov!BlockText(finish)
        \/ Prov!StreamEnds \/ Prov!Breaks \/ Prov!Junk
    BY <1>2 DEF Prov!Next
  <2> QED BY <2>1, BeginKeepsIInv, RetryKeepsIInv, AnswerKeepsIInv, LinesKeepIInv,
             BlocksKeepIInv, EndsKeepIInv
<1> QED BY <1>1, <1>2

\* Every request has one response in the audit log, however often it was tried and
\* however it ended, and a call that the loop takes is the one of the response
\* (audit/provider.go:41-47, :96-116).
THEOREM RequestsAreAnswered == Prov!Spec => []Prov!OneResponsePerRequest
<1>1. Prov!Init => ProvIInv
  BY ProvInitIInv
<1>2. ProvIInv /\ [Prov!Next]_Prov!vars => ProvIInv'
  BY ProvNextKeepsIInv
<1>3. ProvIInv => Prov!OneResponsePerRequest
  <2> SUFFICES ASSUME ProvIInv PROVE Prov!OneResponsePerRequest
    OBVIOUS
  <2>1. phase \in {"idle", "over"} <=> Len(log) = 2 * round
    BY DEF ProvIInv, LogIsPaired, Asking
  <2> QED BY <2>1 DEF ProvIInv, LogIsPaired, Pairs, ResultIsLogged,
       Prov!OneResponsePerRequest
<1> QED BY <1>1, <1>2, <1>3, PTL DEF Prov!Spec

-------------------------------------------------------------------------------
(* The pauses of the retry loop.                                           *)
\* The well-foundedness of the numbers, which stands in for an induction.
LEMMA LeastNumber ==
    ASSUME NEW S \in SUBSET Nat, S # {}
    PROVE  \E m \in S : \A k \in S : m <= k
<1>1. PICK m \in S : \A k \in S : ~ (<<k, m>> \in OpToRel(<, Nat))
  BY NatLessThanWellFounded, WFMin
<1>2. \A k \in S : ~ (k < m)
  BY <1>1 DEF OpToRel
<1> QED BY <1>2

\* The powers of two up to the n-th, which are the beginnings of Power.
IsPowers(f, n) == /\ f \in [0 .. n -> Nat] /\ f[0] = 1
                  /\ \A i \in 1 .. n : f[i] = 2 * f[i - 1]

LEMMA PowersExist == ASSUME NEW n \in Nat PROVE \E f : IsPowers(f, n)
<1> DEFINE Missed == {m \in Nat : ~ \E f : IsPowers(f, m)}
<1>1. SUFFICES ASSUME Missed # {} PROVE FALSE
  OBVIOUS
<1>2. PICK m \in Missed : \A k \in Missed : m <= k
  <2>1. Missed \in SUBSET Nat
    OBVIOUS
  <2> HIDE DEF Missed
  <2> QED BY <1>1, <2>1, LeastNumber
<1>3. CASE m = 0
  <2> DEFINE f == [i \in 0 .. 0 |-> 1]
  <2>1. f \in [0 .. 0 -> Nat] /\ f[0] = 1
    OBVIOUS
  <2>2. IsPowers(f, 0)
    BY <2>1 DEF IsPowers
  <2> QED BY <1>2, <1>3, <2>2
<1>4. CASE m # 0
  <2>1. m \in Nat \ {0} /\ m - 1 \in Nat /\ m - 1 \notin Missed
    BY <1>2, <1>4
  <2>2. PICK f : IsPowers(f, m - 1)
    BY <2>1
  <2> DEFINE g == [i \in 0 .. m |-> IF i = m THEN 2 * f[m - 1] ELSE f[i]]
  <2>3. f \in [0 .. m - 1 -> Nat] /\ f[0] = 1 /\ \A i \in 1 .. m - 1 : f[i] = 2 * f[i - 1]
    BY <2>2 DEF IsPowers
  <2>4. g \in [0 .. m -> Nat] /\ g[m] = 2 * f[m - 1] /\ \A i \in 0 .. m - 1 : g[i] = f[i]
    BY <2>1, <2>3
  <2> HIDE DEF g
  <2>5. ASSUME NEW i \in 1 .. m PROVE g[i] = 2 * g[i - 1]
    <3>1. CASE i = m
      BY <2>1, <2>4, <3>1
    <3>2. CASE i # m
      <4>1. i \in 1 .. m - 1 /\ i \in 0 .. m - 1 /\ i - 1 \in 0 .. m - 1
        BY <2>1, <3>2
      <4> QED BY <2>3, <2>4, <4>1
    <3> QED BY <3>1, <3>2
  <2>6. IsPowers(g, m)
    BY <2>1, <2>3, <2>4, <2>5 DEF IsPowers
  <2> QED BY <1>2, <2>6
<1> QED BY <1>3, <1>4

LEMMA PowersAgree ==
    ASSUME NEW n \in Nat, NEW m \in Nat, NEW f, NEW g, IsPowers(f, n), IsPowers(g, m),
           NEW i \in 0 .. n, i <= m
    PROVE  f[i] = g[i]
<1> DEFINE Apart == {k \in 0 .. i : f[k] # g[k]}
<1>1. SUFFICES ASSUME Apart # {} PROVE FALSE
  BY i \in 0 .. i
<1>2. PICK k \in Apart : \A l \in Apart : k <= l
  <2>1. Apart \in SUBSET Nat
    OBVIOUS
  <2> HIDE DEF Apart
  <2> QED BY <1>1, <2>1, LeastNumber
<1>3. k # 0
  BY <1>2 DEF IsPowers
<1>4. k \in 1 .. n /\ k \in 1 .. m /\ k - 1 \in 0 .. i /\ k - 1 \notin Apart
  BY <1>2, <1>3
<1>5. f[k] = 2 * f[k - 1] /\ g[k] = 2 * g[k - 1] /\ f[k - 1] = g[k - 1]
  BY <1>4 DEF IsPowers
<1> QED BY <1>2, <1>5

LEMMA PowerDoubles ==
    /\ Prov!Power \in [Nat -> Nat] /\ Prov!Power[0] = 1
    /\ \A n \in Nat : Prov!Power[n + 1] = 2 * Prov!Power[n]
<1> DEFINE F(n) == CHOOSE f : IsPowers(f, n)
           h == [n \in Nat |-> F(n)[n]]
<1>1. \A n \in Nat : IsPowers(F(n), n)
  BY PowersExist
<1>2. \A n \in Nat : F(n)[n] \in Nat /\ F(n)[0] = 1
  BY <1>1 DEF IsPowers
<1>3. ASSUME NEW n \in Nat \ {0} PROVE F(n)[n] = 2 * F(n - 1)[n - 1]
  <2>1. n \in Nat /\ n - 1 \in Nat /\ n \in 1 .. n /\ n - 1 \in 0 .. n /\ n - 1 \in 0 .. n - 1
    OBVIOUS
  <2>2. IsPowers(F(n), n) /\ IsPowers(F(n - 1), n - 1)
    BY <1>1, <2>1
  <2> HIDE DEF F
  <2>3. F(n)[n - 1] = F(n - 1)[n - 1]
    BY <2>1, <2>2, PowersAgree
  <2>4. F(n)[n] = 2 * F(n)[n - 1]
    BY <2>1, <2>2 DEF IsPowers
  <2> QED BY <2>3, <2>4
<1> HIDE DEF F
<1>4. \A n \in Nat : h[n] = IF n = 0 THEN 1 ELSE 2 * h[n - 1]
  <2> SUFFICES ASSUME NEW n \in Nat PROVE h[n] = IF n = 0 THEN 1 ELSE 2 * h[n - 1]
    OBVIOUS
  <2>1. CASE n = 0
    BY <1>2, <2>1
  <2>2. CASE n # 0
    <3>1. n \in Nat \ {0} /\ n - 1 \in Nat
      BY <2>2
    <3> QED BY <1>3, <2>2, <3>1
  <2> QED BY <2>1, <2>2
<1>5. h = [n \in Nat |-> IF n = 0 THEN 1 ELSE 2 * h[n - 1]]
  <2> DEFINE G(n) == IF n = 0 THEN 1 ELSE 2 * h[n - 1]
  <2>1. \A n \in Nat : F(n)[n] = G(n)
    BY <1>4
  <2> HIDE DEF G
  <2>2. [n \in Nat |-> F(n)[n]] = [n \in Nat |-> G(n)]
    BY <2>1
  <2> QED BY <2>2 DEF G
<1> HIDE DEF h
<1>6. Prov!Power = [n \in Nat |-> IF n = 0 THEN 1 ELSE 2 * Prov!Power[n - 1]]
  BY <1>5 DEF Prov!Power
<1>7. \A n \in Nat : Prov!Power[n] = IF n = 0 THEN 1 ELSE 2 * Prov!Power[n - 1]
  BY <1>6
<1>8. Prov!Power[0] = 1 /\ \A n \in Nat : Prov!Power[n + 1] = 2 * Prov!Power[n]
  <2>1. ASSUME NEW n \in Nat PROVE n + 1 \in Nat /\ n + 1 # 0 /\ (n + 1) - 1 = n
    OBVIOUS
  <2> QED BY <1>7, <2>1
<1>9. \A n \in Nat : Prov!Power[n] \in Nat
  <2> DEFINE Odd == {n \in Nat : Prov!Power[n] \notin Nat}
  <2>1. SUFFICES ASSUME Odd # {} PROVE FALSE
    OBVIOUS
  <2>2. PICK k \in Odd : \A l \in Odd : k <= l
    <3>1. Odd \in SUBSET Nat
      OBVIOUS
    <3> HIDE DEF Odd
    <3> QED BY <2>1, <3>1, LeastNumber
  <2>3. k # 0 /\ k \in Nat
    BY <1>8, <2>2
  <2>4. k - 1 \in Nat /\ k - 1 \notin Odd
    BY <2>2, <2>3
  <2> QED BY <1>7, <2>2, <2>3, <2>4
<1> QED BY <1>6, <1>8, <1>9

LEMMA PowersAreNumbers == \A n \in Nat : Prov!Power[n] \in Nat \ {0}
<1> DEFINE Zero == {n \in Nat : Prov!Power[n] = 0}
<1>1. SUFFICES ASSUME Zero # {} PROVE FALSE
  BY PowerDoubles
<1>2. PICK k \in Zero : \A l \in Zero : k <= l
  <2>1. Zero \in SUBSET Nat
    OBVIOUS
  <2> HIDE DEF Zero
  <2> QED BY <1>1, <2>1, LeastNumber
<1>3. k # 0 /\ k \in Nat
  BY <1>2, PowerDoubles
<1>4. k - 1 \in Nat /\ k - 1 \notin Zero /\ (k - 1) + 1 = k
  BY <1>2, <1>3
<1>5. Prov!Power[k] = 2 * Prov!Power[k - 1] /\ Prov!Power[k - 1] \in Nat
  BY <1>4, PowerDoubles
<1>6. Prov!Power[k] = 0 /\ Prov!Power[k - 1] # 0
  BY <1>2, <1>4
<1> QED BY <1>5, <1>6

LEMMA PowersMultiply ==
    \A m, n \in Nat : Prov!Power[m + n] = Prov!Power[m] * Prov!Power[n]
<1> SUFFICES ASSUME NEW m \in Nat
             PROVE  \A n \in Nat : Prov!Power[m + n] = Prov!Power[m] * Prov!Power[n]
  OBVIOUS
<1> DEFINE Odd == {n \in Nat : Prov!Power[m + n] # Prov!Power[m] * Prov!Power[n]}
<1>1. SUFFICES ASSUME Odd # {} PROVE FALSE
  OBVIOUS
<1>2. PICK k \in Odd : \A l \in Odd : k <= l
  <2>1. Odd \in SUBSET Nat
    OBVIOUS
  <2> HIDE DEF Odd
  <2> QED BY <1>1, <2>1, LeastNumber
<1>3. k # 0 /\ k \in Nat
  <2>1. Prov!Power[m] \in Nat /\ Prov!Power[0] = 1 /\ m + 0 = m
    BY PowerDoubles
  <2> QED BY <1>2, <2>1
<1> DEFINE j == k - 1
<1>4. j \in Nat /\ j \notin Odd /\ j + 1 = k /\ (m + j) + 1 = m + k /\ m + j \in Nat
  BY <1>2, <1>3
<1>5. /\ Prov!Power[k] = 2 * Prov!Power[j] /\ Prov!Power[m + k] = 2 * Prov!Power[m + j]
      /\ Prov!Power[j] \in Nat /\ Prov!Power[m] \in Nat
  BY <1>4, PowerDoubles
<1>6. Prov!Power[m + j] = Prov!Power[m] * Prov!Power[j]
  BY <1>4
<1>7. \A a, b \in Nat : 2 * (a * b) = a * (2 * b)
  OBVIOUS
<1> HIDE DEF j
<1>8. Prov!Power[m + k] = Prov!Power[m] * Prov!Power[k]
  BY <1>5, <1>6, <1>7
<1> QED BY <1>2, <1>8

LEMMA PowersGrow ==
    ASSUME NEW m \in Nat, NEW n \in Nat, m <= n
    PROVE  Prov!Power[m] <= Prov!Power[n]
<1>1. n - m \in Nat /\ m + (n - m) = n
  OBVIOUS
<1>2. Prov!Power[n] = Prov!Power[m] * Prov!Power[n - m]
  BY <1>1, PowersMultiply
<1>3. Prov!Power[m] \in Nat \ {0} /\ Prov!Power[n - m] \in Nat \ {0}
  BY <1>1, PowersAreNumbers
<1>4. \A a, b \in Nat \ {0} : a <= a * b
  OBVIOUS
<1> QED BY <1>2, <1>3, <1>4

\* Products.
LEMMA FactorBound ==
    ASSUME NEW a \in Nat \ {0}, NEW b \in Nat, NEW c \in Nat, a * b <= a * c
    PROVE  b <= c
  OBVIOUS
LEMMA ProductBound ==
    ASSUME NEW a \in Nat \ {0}, NEW b \in Nat, NEW c \in Nat, b <= c
    PROVE  a * b <= a * c /\ b <= a * b
  OBVIOUS
LEMMA ProductsRegroup ==
    ASSUME NEW a \in Int, NEW b \in Int, NEW c \in Int
    PROVE  (a * b) * c = a * (b * c) /\ a * b = b * a
  OBVIOUS

LEMMA Division ==
    ASSUME NEW x \in Nat, NEW d \in Nat \ {0}
    PROVE  x \div d \in Nat /\ x % d \in 0 .. d - 1 /\ x = d * (x \div d) + (x % d)
<1>1. x \div d \in Nat
  OBVIOUS
<1>2. x % d \in 0 .. d - 1
  OBVIOUS
<1>3. x = d * (x \div d) + (x % d)
  OBVIOUS
<1> QED BY <1>1, <1>2, <1>3
LEMMA SmallRemainder == ASSUME NEW d \in Nat \ {0}, NEW x \in 0 .. d - 1 PROVE x % d = x
  OBVIOUS
LEMMA NoRemainder == ASSUME NEW d \in Nat \ {0}, NEW a \in Nat PROVE (a * d) % d = 0
<1>1. /\ (a * d) \div d \in Nat /\ (a * d) % d \in 0 .. d - 1
      /\ a * d = d * ((a * d) \div d) + ((a * d) % d)
  <2>1. a * d \in Nat
    OBVIOUS
  <2> QED BY <2>1, Division
<1> DEFINE k == (a * d) \div d
           r == (a * d) % d
<1>2. k \in Nat /\ r \in 0 .. d - 1 /\ a * d = d * k + r
  BY <1>1
<1> HIDE DEF k, r
<1>3. a * d - d * k = d * (a - k)
  BY <1>2
<1>4. CASE a - k >= 1
  <2>1. d * (a - k) >= d
    BY <1>2, <1>4
  <2> QED BY <1>2, <1>3, <2>1
<1>5. CASE a - k <= 0
  <2>1. d * (a - k) <= 0
    BY <1>2, <1>5
  <2> QED BY <1>2, <1>3, <2>1 DEF r
<1> QED BY <1>2, <1>4, <1>5

\* Multiples of 2^p that have left the width are cut to one that is zero, negative or at
\* least 2^p.
LEMMA WrapsToMultiple ==
    ASSUME Width \in Nat \ {0, 1}, NEW p \in Nat, NEW q \in Nat, NEW x, x = q * Prov!Power[p]
    PROVE  Prov!Signed(x) \in Int /\ (Prov!Signed(x) > 0 => Prov!Signed(x) >= Prov!Power[p])
<1> DEFINE d == Prov!Power[Width]
           h == Prov!Power[Width - 1]
           P == Prov!Power[p]
           y == x % d
<1>1. d \in Nat \ {0} /\ h \in Nat \ {0} /\ P \in Nat \ {0} /\ x \in Nat
  BY PowersAreNumbers
<1>2. y \in 0 .. d - 1 /\ x \div d \in Nat /\ x = d * (x \div d) + y
  BY <1>1, Division
<1>3. Prov!Signed(x) = IF y < h THEN y ELSE y - d
  BY DEF Prov!Signed
<1>4. y > 0 => y >= P
  <2>1. CASE p >= Width
    <3>1. p - Width \in Nat /\ (p - Width) + Width = p
      BY <2>1
    <3>2. P = Prov!Power[p - Width] * d /\ Prov!Power[p - Width] \in Nat
      BY <3>1, PowersMultiply, PowersAreNumbers
    <3>3. x = (q * Prov!Power[p - Width]) * d /\ q * Prov!Power[p - Width] \in Nat
      BY <1>1, <3>2, ProductsRegroup
    <3>4. y = 0
      BY <1>1, <3>3, NoRemainder
    <3> QED BY <3>4
  <2>2. CASE p < Width
    <3>1. Width - p \in Nat /\ p + (Width - p) = Width
      BY <2>2
    <3> DEFINE e == Prov!Power[Width - p]
               k == x \div d
    <3>2. d = P * e /\ e \in Nat
      BY <3>1, PowersMultiply, PowersAreNumbers
    <3>3. k \in Nat /\ y \in Int
      BY <1>2
    <3> HIDE DEF d, h, P, e, k, y
    <3>4. y = P * (q - e * k)
      <4>1. x = P * q
        BY <1>1, ProductsRegroup DEF P
      <4>2. d * k = P * (e * k)
        BY <1>1, <3>2, <3>3, ProductsRegroup
      <4>3. y = P * q - P * (e * k)
        BY <1>1, <1>2, <3>3, <4>1, <4>2, <3>2 DEF k
      <4> QED BY <1>1, <3>2, <3>3, <4>3
    <3> DEFINE z == q - e * k
    <3>5. z \in Int
      BY <3>2, <3>3
    <3> HIDE DEF z
    <3>6. y = P * z
      BY <3>4 DEF z
    <3>7. CASE z >= 1
      BY <1>1, <3>5, <3>6, <3>7
    <3>8. CASE z <= 0
      <4>1. P * z <= 0
        BY <1>1, <3>5, <3>8
      <4> QED BY <3>6, <4>1
    <3> QED BY <3>5, <3>7, <3>8
  <2> QED BY <2>1, <2>2
<1> HIDE DEF d, h, P, y
<1> QED BY <1>1, <1>2, <1>3, <1>4 DEF P

\* What backoffForAttempt makes of the settings before the jitter.
Cut(b, n) == LET d == Prov!Shifted(b.first, Prov!Least(n, Width - 2))
             IN  IF d <= 0 \/ d > b.most THEN b.most ELSE d
Full(b, n) == Prov!Least(b.first * Prov!Power[n], b.most)

\* Settings that fit are 2^u times some q, with q and the longest pause small.
LEMMA UnitExists ==
    ASSUME Width \in Nat \ {0, 1}, NEW b, b.first \in Nat \ {0}, b.most \in Nat \ {0}, Prov!Fits(b)
    PROVE  \E u \in 0 .. Width, q \in Nat \ {0} :
              b.first = q * Prov!Power[u] /\ q * b.most <= Prov!Power[Width - 2]
<1>1. PICK u \in 0 .. Width : /\ b.first % Prov!Power[u] = 0
                              /\ b.first * b.most <= Prov!Power[u] * Prov!Power[Width - 2]
  BY DEF Prov!Fits
<1> DEFINE U == Prov!Power[u]
           q == b.first \div U
           H == Prov!Power[Width - 2]
<1>2. U \in Nat \ {0} /\ H \in Nat \ {0}
  BY PowersAreNumbers
<1>3. q \in Nat /\ b.first = U * q
  <2>1. q \in Nat /\ b.first = U * q + (b.first % U)
    BY <1>2, Division
  <2>2. b.first % U = 0
    BY <1>1
  <2> HIDE DEF q, U
  <2> QED BY <1>2, <2>1, <2>2
<1> HIDE DEF U, q, H
<1>4. q # 0
  BY <1>2, <1>3
<1>5. b.first = q * U /\ b.first * b.most = U * (q * b.most) /\ q * b.most \in Nat
  BY <1>2, <1>3, ProductsRegroup
<1>6. U * (q * b.most) <= U * H
  BY <1>1, <1>5 DEF U, H
<1>7. q * b.most <= H
  BY <1>2, <1>5, <1>6, FactorBound
<1> QED BY <1>3, <1>4, <1>5, <1>7 DEF U, H

LEMMA CutIsFull ==
    ASSUME Width \in Nat \ {0, 1}, NEW b, b.first \in Nat \ {0}, b.most \in Nat \ {0}, Prov!Fits(b),
           NEW n \in Nat
    PROVE  Cut(b, n) = Full(b, n) /\ Full(b, n) \in Nat \ {0}
<1>1. PICK u \in 0 .. Width, q \in Nat \ {0} :
         b.first = q * Prov!Power[u] /\ q * b.most <= Prov!Power[Width - 2]
  BY UnitExists
<1> DEFINE s == Prov!Least(n, Width - 2)
           H == Prov!Power[Width - 2]
           T == Prov!Power[Width - 1]
           x == b.first * Prov!Power[s]
           y == Prov!Signed(x)
           M == b.most
           full == b.first * Prov!Power[n]
<1>2. s \in 0 .. Width - 2 /\ s <= n /\ (s = n \/ s = Width - 2)
  BY DEF Prov!Least
<1>3. Width - 1 \in Nat /\ Width - 2 \in Nat /\ Width \in Nat /\ u + s \in Nat /\ s \in Nat /\ u \in Nat
      /\ (Width - 2) + 1 = Width - 1 /\ (Width - 1) + 1 = Width
  BY <1>2
<1>4. H \in Nat \ {0} /\ T = 2 * H /\ Prov!Power[Width] = 2 * T
  BY <1>3, PowersAreNumbers, PowerDoubles
<1>5. M \in Nat \ {0} /\ M <= H /\ H < T
  <2>1. M <= q * M /\ q * M \in Nat
    BY <1>1
  <2> QED BY <1>1, <1>4, <2>1
<1>6. x \in Nat \ {0} /\ x <= full /\ full \in Nat
  <2>1. Prov!Power[s] \in Nat \ {0} /\ Prov!Power[n] \in Nat
    BY <1>3, PowersAreNumbers
  <2>2. Prov!Power[s] <= Prov!Power[n]
    BY <1>2, <1>3, PowersGrow
  <2> QED BY <2>1, <2>2, ProductBound
<1>7. x = q * Prov!Power[u + s]
  <2>1. Prov!Power[u + s] = Prov!Power[u] * Prov!Power[s]
    BY <1>3, PowersMultiply
  <2>2. Prov!Power[u] \in Int /\ Prov!Power[s] \in Int
    BY <1>3, PowersAreNumbers
  <2> QED BY <1>1, <2>1, <2>2, ProductsRegroup
<1>8. CASE x < T
  <2>1. x % Prov!Power[Width] = x
    BY <1>4, <1>6, <1>8, SmallRemainder
  <2>2. y = x
    BY <1>8, <2>1 DEF Prov!Signed
  <2>3. s = n \/ M <= x
    <3>1. CASE s = Width - 2
      <4>1. Prov!Power[s] <= x /\ Prov!Power[s] = H
        BY <1>4, <3>1, ProductBound
      <4>2. \A a, c, e \in Nat : a <= c /\ c <= e => a <= e
        OBVIOUS
      <4> QED BY <1>4, <1>5, <1>6, <4>1, <4>2
    <3> QED BY <1>2, <3>1
  <2>4. s = n => full = x
    OBVIOUS
  <2> HIDE DEF s, H, T, x, M, full
  <2>5. Cut(b, n) = IF x <= 0 \/ x > M THEN M ELSE x
    BY <2>2 DEF Cut, Prov!Shifted, s, x, M
  <2>6. Full(b, n) = IF full < M THEN full ELSE M
    BY DEF Full, Prov!Least, full, M
  <2> QED BY <1>5, <1>6, <2>3, <2>4, <2>5, <2>6
<1>9. CASE x >= T
  <2>1. y \in Int /\ (y > 0 => y >= Prov!Power[u + s])
    BY <1>3, <1>7, WrapsToMultiple
  <2>2. M <= Prov!Power[u + s]
    <3>1. q * M <= q * Prov!Power[u + s]
      BY <1>1, <1>4, <1>5, <1>6, <1>7, <1>9
    <3>2. Prov!Power[u + s] \in Nat
      BY <1>3, PowersAreNumbers
    <3> QED BY <1>1, <1>5, <3>1, <3>2, FactorBound
  <2>3. Prov!Power[u + s] \in Nat
    BY <1>3, PowersAreNumbers
  <2> DEFINE R == Prov!Power[u + s]
  <2> HIDE DEF s, H, T, x, y, M, full, R
  <2>4. Cut(b, n) = IF y <= 0 \/ y > M THEN M ELSE y
    BY DEF Cut, Prov!Shifted, s, x, M, y
  <2>5. Cut(b, n) = M
    BY <1>5, <2>1, <2>2, <2>3, <2>4 DEF R
  <2>6. Full(b, n) = IF full < M THEN full ELSE M
    BY DEF Full, Prov!Least, full, M
  <2> QED BY <1>4, <1>5, <1>6, <1>9, <2>5, <2>6
<1> QED BY <1>4, <1>6, <1>8, <1>9

-------------------------------------------------------------------------------
\* The settings of a retry.
RetryConstants ==
    /\ Width \in Nat \ {0, 1}
    /\ \A b \in Backoffs : b.first \in Nat \ {0} /\ b.most \in Nat \ {0} /\ Prov!Fits(b)

\* The attempts are counted, and what a pause lasts is what its attempt makes of the
\* settings.
RetryIInv ==
    /\ backoff \in Backoffs /\ attempt \in Nat
    /\ phase = "pausing" => pause \in Prov!backoffForAttempt(backoff, attempt)

LEMMA RetryStepsKeepIInv ==
    ASSUME RetryIInv, UNCHANGED backoff,
           \/ attempt' = 0 /\ phase' # "pausing"
           \/ attempt' = attempt + 1 /\ phase' # "pausing"
           \/ attempt' = attempt /\ phase' \in {"reading", "trying"}
           \/ attempt' = attempt /\ phase' = "pausing"
                 /\ pause' \in Prov!backoffForAttempt(backoff, attempt)
           \/ UNCHANGED <<attempt, phase, pause>>
    PROVE  RetryIInv'
<1>1. backoff' \in Backoffs /\ attempt' \in Nat
  BY DEF RetryIInv
<1>2. phase' = "pausing" => pause' \in Prov!backoffForAttempt(backoff', attempt')
  BY DEF RetryIInv
<1> QED BY <1>1, <1>2 DEF RetryIInv

LEMMA EndsOutside == ASSUME NEW call, NEW err, Prov!EndWith(call, err) PROVE phase' \in {"idle", "over"}
  BY DEF Prov!EndWith

LEMMA ProvNextKeepsRetry == ASSUME RetryIInv, [Prov!Next]_Prov!vars PROVE RetryIInv'
<1>1. CASE UNCHANGED Prov!vars
  BY <1>1, RetryStepsKeepIInv DEF Prov!vars, Prov!conf
<1>2. ASSUME NEW o, Prov!Begin(o) PROVE RetryIInv'
  BY <1>2, RetryStepsKeepIInv DEF Prov!Begin, Prov!conf
<1>3. ASSUME NEW failure, Prov!Fail(failure) PROVE RetryIInv'
  BY <1>3, RetryStepsKeepIInv, EndsOutside DEF Prov!Fail, Prov!GiveUp, Prov!conf
<1>4. ASSUME Prov!Wake PROVE RetryIInv'
  BY <1>4, RetryStepsKeepIInv, EndsOutside DEF Prov!Wake, Prov!GiveUp, Prov!conf
<1>5. ASSUME NEW n, Prov!Answer(n) PROVE RetryIInv'
  BY <1>5, RetryStepsKeepIInv, EndsOutside DEF Prov!Answer, Prov!conf
<1>6. ASSUME Prov!Connect PROVE RetryIInv'
  BY <1>6, RetryStepsKeepIInv DEF Prov!Connect, Prov!conf
<1>7. ASSUME Prov!InStream PROVE RetryIInv'
  BY <1>7, RetryStepsKeepIInv DEF Prov!InStream, Prov!conf
<1>8. ASSUME Prov!Finish \/ Prov!Break, UNCHANGED <<backoff, attempt, pause>> PROVE RetryIInv'
  <2>1. phase' \in {"idle", "over"}
    BY <1>8, EndsOutside DEF Prov!Finish, Prov!Break
  <2> QED BY <1>8, <2>1, RetryIInv DEF RetryIInv
<1>9. CASE Prov!Next
  <2>1. ASSUME NEW frags, NEW text, NEW finish, NEW usage, Prov!Lines(frags, text, finish, usage)
        PROVE  Prov!InStream
    BY <2>1 DEF Prov!Lines, Prov!ReadOpenai, Prov!ReadLlama, Prov!ReadWhole
  <2>2. ASSUME Prov!StreamEnds \/ Prov!Breaks \/ Prov!Junk
        PROVE  \/ Prov!InStream
               \/ (Prov!Finish \/ Prov!Break) /\ UNCHANGED <<backoff, attempt, pause>>
    BY <2>2 DEF Prov!StreamEnds, Prov!Breaks, Prov!Junk, Prov!conf
  <2>3. ASSUME \/ Prov!Outbox \/ (\E i \in Prov!CallNumbers : Prov!BlockStart(i)) \/ Prov!BlockDelta
               \/ Prov!BlockStop \/ \E finish \in BOOLEAN : Prov!BlockText(finish)
        PROVE  Prov!InStream
    BY <2>3 DEF Prov!Outbox, Prov!BlockStart, Prov!BlockDelta, Prov!BlockStop, Prov!BlockText
  <2> QED BY <1>2, <1>3, <1>4, <1>5, <1>6, <1>7, <1>8, <1>9, <2>1, <2>2, <2>3 DEF Prov!Next
<1> QED BY <1>1, <1>9

\* The pause before attempt n + 1 is first * 2^n, at most the longest, and with jitter
\* at most its double, whatever the number of attempts (retry.go:121-145).
THEOREM PausesAreClamped == ASSUME RetryConstants PROVE Prov!Spec => []Prov!PauseIsClamped
<1>1. Prov!Init => RetryIInv
  BY DEF Prov!Init, RetryIInv
<1>2. RetryIInv /\ [Prov!Next]_Prov!vars => RetryIInv'
  BY ProvNextKeepsRetry
<1>3. RetryIInv => Prov!PauseIsClamped
  <2> SUFFICES ASSUME RetryIInv, phase = "pausing" PROVE Prov!PauseIsClamped
    BY DEF Prov!PauseIsClamped
  <2>1. backoff \in Backoffs /\ attempt \in Nat /\ pause \in Prov!backoffForAttempt(backoff, attempt)
    BY DEF RetryIInv
  <2> DEFINE cut == Cut(backoff, attempt)
             full == Full(backoff, attempt)
  <2>2. cut = full /\ full \in Nat \ {0}
    BY <2>1, CutIsFull DEF RetryConstants
  <2>3. Prov!backoffForAttempt(backoff, attempt) = IF backoff.jitter THEN {1, cut, 2 * cut} ELSE {cut}
    BY DEF Prov!backoffForAttempt, Cut
  <2> HIDE DEF cut, full
  <2>4. IF backoff.jitter THEN pause \in 1 .. 2 * full ELSE pause = full
    BY <2>1, <2>2, <2>3
  <2> QED BY <2>4 DEF Prov!PauseIsClamped, Full, full
<1> QED BY <1>1, <1>2, <1>3, PTL DEF Prov!Spec

-------------------------------------------------------------------------------
(* What a client picks of a history.                                       *)
\* The beginnings of what Kept picks.
IsKept(f, s, S, n) ==
    /\ f[0] = <<>>
    /\ \A i \in 1 .. n : f[i] = IF s[i] \in S THEN Append(f[i - 1], s[i]) ELSE f[i - 1]

LEMMA KeptExists ==
    ASSUME NEW A, NEW s \in Seq(A), NEW S, NEW n \in 0 .. Len(s)
    PROVE  \E f \in [0 .. n -> Seq(A)] : IsKept(f, s, S, n)
<1> DEFINE Missed == {m \in 0 .. n : ~ \E f \in [0 .. m -> Seq(A)] : IsKept(f, s, S, m)}
<1>1. SUFFICES ASSUME Missed # {} PROVE FALSE
  <2>1. n \in 0 .. n
    OBVIOUS
  <2> QED BY <2>1
<1>2. PICK m \in Missed : \A k \in Missed : m <= k
  <2>1. Missed \in SUBSET Nat
    OBVIOUS
  <2> HIDE DEF Missed
  <2> QED BY <1>1, <2>1, LeastNumber
<1>3. CASE m = 0
  <2> DEFINE f == [i \in 0 .. 0 |-> <<>>]
  <2>1. f \in [0 .. 0 -> Seq(A)] /\ f[0] = <<>>
    OBVIOUS
  <2>2. IsKept(f, s, S, 0)
    BY <2>1 DEF IsKept
  <2> QED BY <1>2, <1>3, <2>1, <2>2
<1>4. CASE m # 0
  <2>1. m \in 1 .. n /\ m \in 1 .. Len(s) /\ m - 1 \in 0 .. n /\ m - 1 \notin Missed
    BY <1>2, <1>4
  <2>2. PICK f \in [0 .. m - 1 -> Seq(A)] : IsKept(f, s, S, m - 1)
    BY <2>1
  <2> DEFINE next == IF s[m] \in S THEN Append(f[m - 1], s[m]) ELSE f[m - 1]
             g == [i \in 0 .. m |-> IF i = m THEN next ELSE f[i]]
  <2>3. f[0] = <<>> /\ \A i \in 1 .. m - 1 : f[i] = IF s[i] \in S THEN Append(f[i - 1], s[i]) ELSE f[i - 1]
    BY <2>2 DEF IsKept
  <2>4. next \in Seq(A)
    <3>1. f[m - 1] \in Seq(A) /\ s[m] \in A
      BY <2>1, <2>2
    <3> QED BY <3>1
  <2> HIDE DEF next
  <2>5. g \in [0 .. m -> Seq(A)] /\ g[m] = next /\ \A i \in 0 .. m - 1 : g[i] = f[i]
    BY <2>1, <2>2, <2>4
  <2> HIDE DEF g
  <2>6. ASSUME NEW i \in 1 .. m PROVE g[i] = IF s[i] \in S THEN Append(g[i - 1], s[i]) ELSE g[i - 1]
    <3>1. CASE i = m
      BY <2>1, <2>5, <3>1 DEF next
    <3>2. CASE i # m
      <4>1. i \in 1 .. m - 1 /\ i \in 0 .. m - 1 /\ i - 1 \in 0 .. m - 1
        BY <2>1, <3>2
      <4>2. g[i] = f[i] /\ g[i - 1] = f[i - 1]
        BY <2>5, <4>1
      <4> QED BY <2>3, <4>1, <4>2
    <3> QED BY <3>1, <3>2
  <2>7. g[0] = <<>>
    BY <2>1, <2>3, <2>5
  <2>8. IsKept(g, s, S, m)
    BY <2>6, <2>7 DEF IsKept
  <2> QED BY <1>2, <2>5, <2>8
<1> QED BY <1>3, <1>4

\* The function within Kept is the only one of its kind.
LEMMA KeptIsLast ==
    ASSUME NEW A, NEW s \in Seq(A), NEW S
    PROVE  \E f \in [0 .. Len(s) -> Seq(A)] : IsKept(f, s, S, Len(s)) /\ Prov!Kept(s, S) = f[Len(s)]
<1> DEFINE kept == CHOOSE f : f = [n \in 0 .. Len(s) |->
                         IF n = 0 THEN <<>>
                         ELSE IF s[n] \in S THEN Append(f[n - 1], s[n]) ELSE f[n - 1]]
<1>1. Prov!Kept(s, S) = kept[Len(s)]
  BY DEF Prov!Kept
<1>2. Len(s) \in Nat
  OBVIOUS
<1>3. PICK g \in [0 .. Len(s) -> Seq(A)] : IsKept(g, s, S, Len(s))
  <2>1. Len(s) \in 0 .. Len(s)
    BY <1>2
  <2> HIDE DEF kept
  <2> QED BY <2>1, KeptExists
<1>4. g = [n \in 0 .. Len(s) |->
             IF n = 0 THEN <<>> ELSE IF s[n] \in S THEN Append(g[n - 1], s[n]) ELSE g[n - 1]]
  <2> DEFINE G(n) == IF n = 0 THEN <<>>
                     ELSE IF s[n] \in S THEN Append(g[n - 1], s[n]) ELSE g[n - 1]
  <2>1. \A n \in 0 .. Len(s) : g[n] = G(n)
    <3> SUFFICES ASSUME NEW n \in 0 .. Len(s) PROVE g[n] = G(n)
      OBVIOUS
    <3>1. CASE n = 0
      BY <1>3, <3>1 DEF IsKept
    <3>2. CASE n # 0
      <4>1. n \in 1 .. Len(s)
        BY <1>2, <3>2
      <4> QED BY <1>3, <3>2, <4>1 DEF IsKept
    <3> QED BY <3>1, <3>2
  <2> HIDE DEF G
  <2>2. g = [n \in 0 .. Len(s) |-> G(n)]
    BY <1>3, <2>1
  <2> QED BY <2>2 DEF G
<1>5. kept = [n \in 0 .. Len(s) |->
                IF n = 0 THEN <<>>
                ELSE IF s[n] \in S THEN Append(kept[n - 1], s[n]) ELSE kept[n - 1]]
  BY <1>4
<1> HIDE DEF kept
<1>6. /\ kept[0] = <<>>
      /\ \A n \in 1 .. Len(s) : kept[n] = IF s[n] \in S THEN Append(kept[n - 1], s[n]) ELSE kept[n - 1]
  <2>1. 0 \in 0 .. Len(s) /\ \A n \in 1 .. Len(s) : n \in 0 .. Len(s) /\ n # 0
    BY <1>2
  <2> QED BY <1>5, <2>1
<1>7. \A n \in 0 .. Len(s) : kept[n] = g[n]
  <2> DEFINE Apart == {n \in 0 .. Len(s) : kept[n] # g[n]}
  <2>1. SUFFICES ASSUME Apart # {} PROVE FALSE
    OBVIOUS
  <2>2. PICK k \in Apart : \A l \in Apart : k <= l
    <3>1. Apart \in SUBSET Nat
      BY <1>2
    <3> HIDE DEF Apart
    <3> QED BY <2>1, <3>1, LeastNumber
  <2>3. k # 0
    BY <1>3, <1>6, <2>2 DEF IsKept
  <2>4. k \in 1 .. Len(s) /\ k - 1 \in 0 .. Len(s) /\ k - 1 \notin Apart
    BY <1>2, <2>2, <2>3
  <2>5. kept[k - 1] = g[k - 1]
    BY <2>4
  <2>6. /\ kept[k] = IF s[k] \in S THEN Append(kept[k - 1], s[k]) ELSE kept[k - 1]
        /\ g[k] = IF s[k] \in S THEN Append(g[k - 1], s[k]) ELSE g[k - 1]
    BY <1>3, <1>6, <2>4 DEF IsKept
  <2> QED BY <2>2, <2>5, <2>6
<1> QED BY <1>1, <1>2, <1>3, <1>7

\* What Kept picks of a sequence of which only the first is left out is its tail.
LEMMA KeptButFirst ==
    ASSUME NEW A, NEW s \in Seq(A), NEW S, Len(s) > 0, s[1] \notin S,
           \A i \in 2 .. Len(s) : s[i] \in S
    PROVE  /\ Prov!Kept(s, S) \in Seq(A) /\ Len(Prov!Kept(s, S)) = Len(s) - 1
           /\ \A i \in 1 .. Len(s) - 1 : Prov!Kept(s, S)[i] = s[i + 1]
<1>1. Len(s) \in Nat \ {0}
  OBVIOUS
<1>2. PICK f \in [0 .. Len(s) -> Seq(A)] : IsKept(f, s, S, Len(s)) /\ Prov!Kept(s, S) = f[Len(s)]
  BY KeptIsLast
<1> DEFINE Sound(n) == Len(f[n]) = n - 1 /\ \A i \in 1 .. n - 1 : f[n][i] = s[i + 1]
           Wrong == {n \in 1 .. Len(s) : ~ Sound(n)}
<1>3. Wrong = {}
  <2>1. SUFFICES ASSUME Wrong # {} PROVE FALSE
    OBVIOUS
  <2>2. PICK k \in Wrong : \A l \in Wrong : k <= l
    <3>1. Wrong \in SUBSET Nat
      BY <1>1
    <3> HIDE DEF Wrong
    <3> QED BY <2>1, <3>1, LeastNumber
  <2>3. k \in 1 .. Len(s) /\ k - 1 \in 0 .. Len(s)
    BY <1>1, <2>2
  <2> DEFINE t == f[k - 1]
             u == f[k]
  <2>4. t \in Seq(A) /\ s[k] \in A /\ u = IF s[k] \in S THEN Append(t, s[k]) ELSE t
    BY <1>2, <2>3 DEF IsKept
  <2>5. CASE k = 1
    <3>1. u = <<>>
      BY <1>2, <2>4, <2>5 DEF IsKept
    <3>2. Len(u) = k - 1
      BY <2>5, <3>1
    <3>3. 1 .. k - 1 = {}
      BY <2>5
    <3> QED BY <2>2, <3>2, <3>3
  <2>6. CASE k # 1
    <3>1. k - 1 \in 1 .. Len(s) /\ k - 1 \notin Wrong /\ k \in 2 .. Len(s)
      <4> HIDE DEF Wrong
      <4>1. k - 1 \in 1 .. Len(s) /\ k \in 2 .. Len(s) /\ k - 1 < k
        BY <1>1, <2>3, <2>6
      <4> QED BY <2>2, <4>1
    <3>2. Len(t) = (k - 1) - 1 /\ \A i \in 1 .. (k - 1) - 1 : t[i] = s[i + 1]
      BY <3>1
    <3>3. u = Append(t, s[k])
      BY <2>4, <3>1
    <3> HIDE DEF t, u
    <3>4. Len(u) = k - 1 /\ u[k - 1] = s[k] /\ \A i \in 1 .. (k - 1) - 1 : u[i] = t[i]
      <4>1. Len(u) = Len(t) + 1 /\ u[Len(t) + 1] = s[k] /\ \A i \in 1 .. Len(t) : u[i] = t[i]
        BY <2>4, <3>3, AppendProperties
      <4> QED BY <2>3, <3>2, <4>1
    <3>5. \A i \in 1 .. k - 1 : i \in 1 .. (k - 1) - 1 \/ i = k - 1
      BY <2>3
    <3>6. \A i \in 1 .. k - 1 : u[i] = s[i + 1]
      <4>1. (k - 1) + 1 = k
        BY <2>3
      <4> QED BY <3>2, <3>4, <3>5, <4>1
    <3> QED BY <2>2, <3>4, <3>6 DEF u
  <2> QED BY <2>5, <2>6
<1>4. Sound(Len(s))
  BY <1>1, <1>3
<1>5. f[Len(s)] \in Seq(A)
  BY <1>1, <1>2
<1> QED BY <1>2, <1>4, <1>5

\* What Kept picks comes from the sequence and lies in S.
LEMMA KeptElements ==
    ASSUME NEW A, NEW s \in Seq(A), NEW S
    PROVE  /\ Prov!Kept(s, S) \in Seq(A)
           /\ \A j \in 1 .. Len(Prov!Kept(s, S)) : Prov!Kept(s, S)[j] \in S
<1>1. Len(s) \in Nat
  OBVIOUS
<1>2. PICK f \in [0 .. Len(s) -> Seq(A)] : IsKept(f, s, S, Len(s)) /\ Prov!Kept(s, S) = f[Len(s)]
  BY KeptIsLast
<1> DEFINE Sound(n) == \A j \in 1 .. Len(f[n]) : f[n][j] \in S
           Wrong == {n \in 0 .. Len(s) : ~ Sound(n)}
<1>3. Wrong = {}
  <2>1. SUFFICES ASSUME Wrong # {} PROVE FALSE
    OBVIOUS
  <2>2. PICK k \in Wrong : \A l \in Wrong : k <= l
    <3>1. Wrong \in SUBSET Nat
      BY <1>1
    <3> HIDE DEF Wrong
    <3> QED BY <2>1, <3>1, LeastNumber
  <2>3. k # 0
    <3>1. Sound(0)
      <4>1. f[0] = <<>> /\ Len(f[0]) = 0
        BY <1>2 DEF IsKept
      <4> QED BY <4>1
    <3> QED BY <2>2, <3>1
  <2>4. k \in 1 .. Len(s) /\ k - 1 \in 0 .. Len(s) /\ k - 1 \notin Wrong
    <3>1. k \in 0 .. Len(s)
      BY <2>2
    <3> HIDE DEF Wrong
    <3>2. k \in 1 .. Len(s) /\ k - 1 \in 0 .. Len(s) /\ k - 1 < k
      BY <1>1, <2>3, <3>1
    <3>3. k - 1 \notin Wrong
      BY <2>2, <3>2
    <3> QED BY <3>2, <3>3
  <2>5. Sound(k - 1)
    BY <2>4
  <2> DEFINE t == f[k - 1]
             e == s[k]
             u == f[k]
  <2>6. t \in Seq(A) /\ e \in A /\ u = IF e \in S THEN Append(t, e) ELSE t
    <3>1. t \in Seq(A) /\ e \in A
      BY <2>4
    <3>2. \A i \in 1 .. Len(s) : f[i] = IF s[i] \in S THEN Append(f[i - 1], s[i]) ELSE f[i - 1]
      BY <1>2 DEF IsKept
    <3> QED BY <2>4, <3>1, <3>2
  <2>7. \A j \in 1 .. Len(t) : t[j] \in S
    BY <2>5
  <2> HIDE DEF t, e, u
  <2>8. \A j \in 1 .. Len(u) : u[j] \in S
    <3>1. CASE e \in S
      <4>1. /\ Len(u) = Len(t) + 1 /\ Len(t) \in Nat /\ u[Len(t) + 1] = e
            /\ \A j \in 1 .. Len(t) : u[j] = t[j]
        BY <2>6, <3>1, AppendProperties
      <4>2. \A j \in 1 .. Len(u) : j \in 1 .. Len(t) \/ j = Len(t) + 1
        BY <4>1
      <4> QED BY <2>7, <3>1, <4>1, <4>2
    <3>2. CASE e \notin S
      BY <2>6, <2>7, <3>2
    <3> QED BY <3>1, <3>2
  <2>9. Sound(k)
    BY <2>8 DEF u
  <2> QED BY <2>2, <2>9
<1>4. Sound(Len(s))
  BY <1>1, <1>3
<1> QED BY <1>1, <1>2, <1>4

-------------------------------------------------------------------------------
(* What the clients make of a message.                                     *)
LEMMA ElementsOfConcat ==
    ASSUME NEW A, NEW s \in Seq(A), NEW t \in Seq(A)
    PROVE  s \o t \in Seq(A) /\ Prov!ToSet(s \o t) = Prov!ToSet(s) \cup Prov!ToSet(t)
<1>1. /\ s \o t \in Seq(A) /\ Len(s \o t) = Len(s) + Len(t)
      /\ \A i \in 1 .. Len(s) + Len(t) : (s \o t)[i] = IF i <= Len(s) THEN s[i] ELSE t[i - Len(s)]
  BY ConcatProperties
<1>2. Len(s) \in Nat /\ Len(t) \in Nat /\ DOMAIN s = 1 .. Len(s) /\ DOMAIN t = 1 .. Len(t)
      /\ DOMAIN (s \o t) = 1 .. Len(s) + Len(t)
  BY <1>1
<1>3. Prov!ToSet(s \o t) \subseteq Prov!ToSet(s) \cup Prov!ToSet(t)
  <2> SUFFICES ASSUME NEW i \in 1 .. Len(s) + Len(t)
               PROVE  (s \o t)[i] \in Prov!ToSet(s) \cup Prov!ToSet(t)
    BY <1>2 DEF Prov!ToSet
  <2>1. CASE i <= Len(s)
    BY <1>1, <1>2, <2>1 DEF Prov!ToSet
  <2>2. CASE i > Len(s)
    <3>1. i - Len(s) \in 1 .. Len(t) /\ ~ (i <= Len(s))
      BY <1>2, <2>2
    <3> QED BY <1>1, <1>2, <3>1 DEF Prov!ToSet
  <2> QED BY <1>2, <2>1, <2>2
<1>4. \A i \in 1 .. Len(s) : s[i] \in Prov!ToSet(s \o t)
  <2> SUFFICES ASSUME NEW i \in 1 .. Len(s) PROVE s[i] \in Prov!ToSet(s \o t)
    OBVIOUS
  <2>1. i \in 1 .. Len(s) + Len(t) /\ i <= Len(s)
    BY <1>2
  <2> QED BY <1>1, <1>2, <2>1 DEF Prov!ToSet
<1>5. \A i \in 1 .. Len(t) : t[i] \in Prov!ToSet(s \o t)
  <2> SUFFICES ASSUME NEW i \in 1 .. Len(t) PROVE t[i] \in Prov!ToSet(s \o t)
    OBVIOUS
  <2>1. Len(s) + i \in 1 .. Len(s) + Len(t) /\ ~ (Len(s) + i <= Len(s)) /\ (Len(s) + i) - Len(s) = i
    BY <1>2
  <2>2. (s \o t)[Len(s) + i] = t[i]
    BY <1>1, <2>1
  <2> QED BY <1>2, <2>1, <2>2 DEF Prov!ToSet
<1> QED BY <1>1, <1>2, <1>3, <1>4, <1>5 DEF Prov!ToSet

Plain == {Prov!Part("text"), Prov!Part("image")}

LEMMA PlainIsNoCall == \A p \in Plain : p.type # "call"
  BY DEF Plain, Prov!Part

LEMMA PlainParts ==
    ASSUME NEW m
    PROVE  /\ Prov!Texts(m) \in Seq(Plain) /\ Prov!Images(m) \in Seq(Plain)
           /\ Prov!ToSet(Prov!Texts(m)) \subseteq Plain /\ Prov!ToSet(Prov!Images(m)) \subseteq Plain
           /\ <<Prov!Part("text")>> \in Seq(Plain) /\ Prov!ToSet(<<Prov!Part("text")>>) \subseteq Plain
<1>1. Prov!Part("text") \in Plain /\ Prov!Part("image") \in Plain
  BY DEF Plain
<1>2. Prov!Texts(m) \in Seq(Plain) /\ Prov!Images(m) \in Seq(Plain) /\ <<Prov!Part("text")>> \in Seq(Plain)
  BY <1>1 DEF Prov!Texts, Prov!Images
<1>3. \A s \in Seq(Plain) : Prov!ToSet(s) \subseteq Plain
  BY DEF Prov!ToSet
<1> QED BY <1>2, <1>3

\* The parts of a message without calls, and of one with a call.
LEMMA ConcatPlain ==
    ASSUME NEW s \in Seq(Plain), NEW t \in Seq(Plain)
    PROVE  s \o t \in Seq(Plain) /\ Prov!ToSet(s \o t) \subseteq Plain
<1>1. s \o t \in Seq(Plain)
  OBVIOUS
<1> QED BY <1>1 DEF Prov!ToSet

LEMMA ConcatCall ==
    ASSUME NEW s \in Seq(Plain), NEW p
    PROVE  /\ Prov!ToSet(s \o <<p>>) = Prov!ToSet(s) \cup {p}
           /\ Prov!ToSet(s \o <<p>>) \subseteq Plain \cup {p}
<1>1. s \in Seq(Plain \cup {p}) /\ <<p>> \in Seq(Plain \cup {p})
  OBVIOUS
<1>2. Prov!ToSet(<<p>>) = {p}
  BY DEF Prov!ToSet
<1>3. Prov!ToSet(s) \subseteq Plain
  BY DEF Prov!ToSet
<1>4. Prov!ToSet(s \o <<p>>) = Prov!ToSet(s) \cup Prov!ToSet(<<p>>)
  BY <1>1, ElementsOfConcat
<1> QED BY <1>2, <1>3, <1>4

LEMMA ConcatNothing == ASSUME NEW s \in Seq(Plain) PROVE s \o <<>> = s
  OBVIOUS

\* The client of a kind in Trusted, and what it makes of a message and of a call.
Trusted == {"llamacpp", "ollama", "gemini"}
MessageOf(k, m) == CASE k = "llamacpp" -> Prov!LlamaMessage(m)
                     [] k = "ollama"   -> Prov!OllamaMessage(m)
                     [] k = "gemini"   -> Prov!GeminiMessage(m)
PartOf(k, c) == CASE k = "llamacpp" -> Prov!LlamaPart(c)
                  [] k = "ollama"   -> Prov!NamePart(c)
                  [] k = "gemini"   -> Prov!SignedPart(c)
IDOf(k, i) == IF k = "llamacpp" THEN i ELSE Prov!NoID

LEMMA ResultOnWire ==
    ASSUME NEW k \in Trusted, NEW m, m.role = "tool"
    PROVE  \E r : /\ MessageOf(k, m).parts = <<r>> /\ r.type = "result"
                  /\ r.id = IDOf(k, m.id) /\ r.name = m.name
<1>1. CASE k = "llamacpp"
  <2> DEFINE r == [Prov!Part("result") EXCEPT !.id = m.id, !.name = m.name]
  <2>1. MessageOf(k, m).parts = <<r>>
    BY <1>1 DEF MessageOf, Prov!LlamaMessage, Prov!OnWire
  <2>2. r.type = "result" /\ r.id = IDOf(k, m.id) /\ r.name = m.name
    BY <1>1 DEF Prov!Part, IDOf
  <2> HIDE DEF r
  <2> QED BY <2>1, <2>2
<1>2. CASE k = "ollama"
  BY <1>2 DEF MessageOf, IDOf, Prov!OllamaMessage, Prov!OnWire, Prov!Part
<1>3. CASE k = "gemini"
  BY <1>3 DEF MessageOf, IDOf, Prov!GeminiMessage, Prov!OnWire, Prov!Part
<1> QED BY <1>1, <1>2, <1>3 DEF Trusted

LEMMA TextOnWire ==
    ASSUME NEW k \in Trusted, NEW m, m.role # "tool", m.calls = <<>>
    PROVE  Prov!ToSet(MessageOf(k, m).parts) \subseteq Plain
<1>1. /\ Prov!CallParts(m, Prov!LlamaPart) = <<>> /\ Prov!CallParts(m, Prov!NamePart) = <<>>
      /\ Prov!CallParts(m, Prov!SignedPart) = <<>>
  BY DEF Prov!CallParts
<1>2. CASE k = "llamacpp"
  <2>1. MessageOf(k, m).parts = <<Prov!Part("text")>> \o Prov!Images(m) \o <<>>
    BY <1>1, <1>2 DEF MessageOf, Prov!LlamaMessage, Prov!OnWire
  <2>2. <<Prov!Part("text")>> \o Prov!Images(m) \in Seq(Plain)
    BY PlainParts, ConcatPlain
  <2>3. MessageOf(k, m).parts = <<Prov!Part("text")>> \o Prov!Images(m)
    BY <2>1, <2>2, ConcatNothing
  <2> QED BY <2>3, PlainParts, ConcatPlain
<1>3. CASE k = "ollama"
  <2>1. MessageOf(k, m).parts = Prov!Texts(m) \o <<>>
    BY <1>1, <1>3 DEF MessageOf, Prov!OllamaMessage, Prov!OnWire
  <2> QED BY <2>1, PlainParts, ConcatNothing
<1>4. CASE k = "gemini"
  <2>1. MessageOf(k, m).parts = Prov!Texts(m) \o <<>>
    BY <1>1, <1>4 DEF MessageOf, Prov!GeminiMessage, Prov!OnWire
  <2> QED BY <2>1, PlainParts, ConcatNothing
<1> QED BY <1>2, <1>3, <1>4 DEF Trusted

LEMMA CallOnWire ==
    ASSUME NEW k \in Trusted, NEW c
    PROVE  /\ Prov!ToSet(MessageOf(k, Prov!CallMessage(c)).parts) \subseteq Plain \cup {PartOf(k, c)}
           /\ PartOf(k, c) \in Prov!ToSet(MessageOf(k, Prov!CallMessage(c)).parts)
<1> DEFINE m == Prov!CallMessage(c)
<1>1. m.role = "assistant" /\ m.text = FALSE /\ m.image = FALSE /\ m.calls = <<c>>
  BY DEF Prov!CallMessage, Prov!Message
<1>2. Prov!Texts(m) = <<>> /\ Prov!Images(m) = <<>>
  BY <1>1 DEF Prov!Texts, Prov!Images
<1>3. /\ Prov!CallParts(m, Prov!LlamaPart) = <<Prov!LlamaPart(c)>>
      /\ Prov!CallParts(m, Prov!NamePart) = <<Prov!NamePart(c)>>
      /\ Prov!CallParts(m, Prov!SignedPart) = <<Prov!SignedPart(c)>>
  BY <1>1 DEF Prov!CallParts
<1> HIDE DEF m
<1>4. <<Prov!Part("text")>> \o <<>> = <<Prov!Part("text")>> /\ <<Prov!Part("text")>> \in Seq(Plain)
      /\ <<>> \in Seq(Plain)
  BY DEF Plain
<1>5. CASE k = "llamacpp"
  <2>1. MessageOf(k, m).parts = <<Prov!Part("text")>> \o <<Prov!LlamaPart(c)>>
    BY <1>1, <1>2, <1>3, <1>4, <1>5 DEF MessageOf, Prov!LlamaMessage, Prov!OnWire
  <2>2. PartOf(k, c) = Prov!LlamaPart(c)
    BY <1>5 DEF PartOf
  <2> DEFINE all == Prov!ToSet(<<Prov!Part("text")>> \o <<Prov!LlamaPart(c)>>)
  <2>3. /\ all = Prov!ToSet(<<Prov!Part("text")>>) \cup {Prov!LlamaPart(c)}
        /\ all \subseteq Plain \cup {Prov!LlamaPart(c)}
    BY <1>4, ConcatCall
  <2> HIDE DEF all
  <2>4. Prov!ToSet(MessageOf(k, Prov!CallMessage(c)).parts) = all
    BY <2>1 DEF m, all
  <2> QED BY <2>2, <2>3, <2>4
<1>6. CASE k = "ollama"
  <2>1. MessageOf(k, m).parts = <<>> \o <<Prov!NamePart(c)>>
    BY <1>1, <1>2, <1>3, <1>6 DEF MessageOf, Prov!OllamaMessage, Prov!OnWire
  <2>2. PartOf(k, c) = Prov!NamePart(c)
    BY <1>6 DEF PartOf
  <2> DEFINE all == Prov!ToSet(<<>> \o <<Prov!NamePart(c)>>)
  <2>3. /\ all = Prov!ToSet(<<>>) \cup {Prov!NamePart(c)}
        /\ all \subseteq Plain \cup {Prov!NamePart(c)}
    BY <1>4, ConcatCall
  <2> HIDE DEF all
  <2>4. Prov!ToSet(MessageOf(k, Prov!CallMessage(c)).parts) = all
    BY <2>1 DEF m, all
  <2> QED BY <2>2, <2>3, <2>4
<1>7. CASE k = "gemini"
  <2>1. MessageOf(k, m).parts = <<>> \o <<Prov!SignedPart(c)>>
    BY <1>1, <1>2, <1>3, <1>7 DEF MessageOf, Prov!GeminiMessage, Prov!OnWire
  <2>2. PartOf(k, c) = Prov!SignedPart(c)
    BY <1>7 DEF PartOf
  <2> DEFINE all == Prov!ToSet(<<>> \o <<Prov!SignedPart(c)>>)
  <2>3. /\ all = Prov!ToSet(<<>>) \cup {Prov!SignedPart(c)}
        /\ all \subseteq Plain \cup {Prov!SignedPart(c)}
    BY <1>4, ConcatCall
  <2> HIDE DEF all
  <2>4. Prov!ToSet(MessageOf(k, Prov!CallMessage(c)).parts) = all
    BY <2>1 DEF m, all
  <2> QED BY <2>2, <2>3, <2>4
<1> QED BY <1>5, <1>6, <1>7 DEF Trusted

-------------------------------------------------------------------------------
(* A history is sent so that its calls come back.                          *)
\* What a client knows of a call that the loop has put into the history.
IsKnown(k, c) == /\ k \in {"ollama", "gemini"} => c.args = Prov!WholeArgs(Pieces)
                 /\ k = "gemini" => c.sig

\* A message is without calls, is a result, or has one call that its result follows.
IsTurn(k, h, j) ==
    \/ h[j].role # "tool" /\ h[j].calls = <<>>
    \/ h[j].role = "tool"
    \/ \E c : /\ h[j] = Prov!CallMessage(c) /\ IsKnown(k, c)
              /\ j < Len(h) /\ h[j + 1] = Prov!ResultMessage(c)

IsHistory(k, h) ==
    /\ h \in Seq(Elements(h)) /\ Len(h) > 0
    /\ h[1].role = "system"
    /\ \A j \in 2 .. Len(h) : h[j].role # "system"
    /\ \A j \in 1 .. Len(h) : IsTurn(k, h, j)

LEMMA LengthOfFunction ==
    ASSUME NEW n \in Nat, NEW A, NEW f \in [1 .. n -> A]
    PROVE  f \in Seq(A) /\ Len(f) = n /\ DOMAIN f = 1 .. n
  OBVIOUS

LEMMA SystemIsKept ==
    ASSUME NEW k, NEW h, IsHistory(k, h)
    PROVE  /\ Prov!WithoutSystem(h) \in Seq(Elements(h))
           /\ Len(Prov!WithoutSystem(h)) = Len(h) - 1
           /\ \A i \in 1 .. Len(h) - 1 : Prov!WithoutSystem(h)[i] = h[i + 1]
<1> DEFINE S == Prov!ToSet(h) \ Prov!OfSystem(h)
<1>1. h \in Seq(Elements(h)) /\ Len(h) > 0 /\ Len(h) \in Nat /\ DOMAIN h = 1 .. Len(h)
  BY DEF IsHistory
<1>2. h[1] \notin S
  BY <1>1 DEF Prov!ToSet, Prov!OfSystem, IsHistory
<1>3. \A i \in 2 .. Len(h) : h[i] \in S
  <2> SUFFICES ASSUME NEW i \in 2 .. Len(h) PROVE h[i] \in S
    OBVIOUS
  <2>1. i \in 1 .. Len(h)
    BY <1>1
  <2> QED BY <1>1, <2>1 DEF Prov!ToSet, Prov!OfSystem, IsHistory
<1> HIDE DEF S
<1>4. /\ Prov!Kept(h, S) \in Seq(Elements(h)) /\ Len(Prov!Kept(h, S)) = Len(h) - 1
      /\ \A i \in 1 .. Len(h) - 1 : Prov!Kept(h, S)[i] = h[i + 1]
  BY <1>1, <1>2, <1>3, KeptButFirst
<1> QED BY <1>4 DEF Prov!WithoutSystem, S

LEMMA PayloadMessages ==
    ASSUME NEW k \in Trusted, NEW h, IsHistory(k, h)
    PROVE  \E d \in {0, 1} :
              /\ Prov!Payload(k, h).messages \in Seq(Elements(Prov!Payload(k, h).messages))
              /\ Len(Prov!Payload(k, h).messages) = Len(h) - d
              /\ \A j \in 1 .. Len(h) - d : Prov!Payload(k, h).messages[j] = MessageOf(k, h[j + d])
<1>1. h \in Seq(Elements(h)) /\ Len(h) > 0 /\ Len(h) \in Nat /\ DOMAIN h = 1 .. Len(h)
  BY DEF IsHistory
<1>2. ASSUME NEW n \in Nat, NEW t, t = [i \in 1 .. n |-> t[i]]
      PROVE  t \in Seq(Elements(t)) /\ Len(t) = n
  <2> DEFINE A == {t[i] : i \in 1 .. n}
  <2>1. t \in [1 .. n -> A]
    BY <1>2
  <2>2. t \in Seq(A) /\ Len(t) = n
    BY <2>1, LengthOfFunction
  <2> QED BY <2>2, OwnElements
<1>3. CASE k \in {"llamacpp", "ollama"}
  <2> DEFINE t == [i \in DOMAIN h |-> MessageOf(k, h[i])]
  <2>1. Prov!Payload(k, h).messages = t
    BY <1>3 DEF Prov!Payload, Prov!LlamaPayload, Prov!OllamaPayload, MessageOf
  <2>2. t = [i \in 1 .. Len(h) |-> t[i]] /\ \A i \in 1 .. Len(h) : t[i] = MessageOf(k, h[i])
    BY <1>1
  <2> HIDE DEF t
  <2>3. t \in Seq(Elements(t)) /\ Len(t) = Len(h)
    BY <1>1, <1>2, <2>2
  <2>4. \A j \in 1 .. Len(h) - 0 : j + 0 = j /\ j \in 1 .. Len(h)
    BY <1>1
  <2>5. Len(h) - 0 = Len(h)
    BY <1>1
  <2> QED BY <2>1, <2>2, <2>3, <2>4, <2>5
<1>4. CASE k = "gemini"
  <2> DEFINE said == Prov!WithoutSystem(h)
             t == [i \in DOMAIN said |-> MessageOf(k, said[i])]
  <2>1. Prov!Payload(k, h).messages = t
    BY <1>4 DEF Prov!Payload, Prov!GeminiPayload, MessageOf
  <2>2. DOMAIN said = 1 .. Len(h) - 1 /\ \A i \in 1 .. Len(h) - 1 : said[i] = h[i + 1]
    BY SystemIsKept
  <2>3. t = [i \in 1 .. Len(h) - 1 |-> t[i]] /\ \A i \in 1 .. Len(h) - 1 : t[i] = MessageOf(k, h[i + 1])
    BY <2>2
  <2> HIDE DEF t, said
  <2>4. Len(h) - 1 \in Nat
    BY <1>1
  <2>5. t \in Seq(Elements(t)) /\ Len(t) = Len(h) - 1
    BY <1>2, <2>3, <2>4
  <2> QED BY <2>1, <2>3, <2>5
<1> QED BY <1>3, <1>4 DEF Trusted

LEMMA PartOfCall ==
    ASSUME NEW k \in Trusted, NEW c
    PROVE  /\ PartOf(k, c).type = "call" /\ PartOf(k, c).id = IDOf(k, c.id)
           /\ PartOf(k, c).name = c.name
           /\ k = "llamacpp" => PartOf(k, c).args # <<>>
           /\ k # "llamacpp" => PartOf(k, c).args = c.args
           /\ k = "gemini" => PartOf(k, c).sig = c.sig
<1>1. CASE k = "llamacpp"
  <2>1. <<0>> # <<>>
    OBVIOUS
  <2>2. PartOf(k, c) = Prov!LlamaPart(c)
    BY <1>1 DEF PartOf
  <2>3. /\ Prov!LlamaPart(c).type = "call" /\ Prov!LlamaPart(c).id = c.id
        /\ Prov!LlamaPart(c).name = c.name
        /\ Prov!LlamaPart(c).args = IF c.args = <<>> THEN <<0>> ELSE c.args
    BY DEF Prov!LlamaPart, Prov!IDPart, Prov!Part
  <2> QED BY <1>1, <2>1, <2>2, <2>3 DEF IDOf
<1>2. CASE k = "ollama"
  BY <1>2 DEF PartOf, IDOf, Prov!NamePart, Prov!Part
<1>3. CASE k = "gemini"
  BY <1>3 DEF PartOf, IDOf, Prov!SignedPart, Prov!NamePart, Prov!Part
<1> QED BY <1>1, <1>2, <1>3 DEF Trusted

\* In the payload of such a history, every call has its result behind it and whole
\* arguments: those of llama.cpp because json.Marshal has passed them, those of the
\* others because they were decoded so.
LEMMA HistoryComesBack ==
    ASSUME kind \in Trusted, NEW h, IsHistory(kind, h),
           Prov!Marshals(kind, Prov!Payload(kind, h), Pieces)
    PROVE  Prov!CallsComeBack(Prov!Payload(kind, h))
<1> DEFINE w == Prov!Payload(kind, h)
<1>1. PICK d \in {0, 1} : /\ w.messages \in Seq(Elements(w.messages))
                          /\ Len(w.messages) = Len(h) - d
                          /\ \A j \in 1 .. Len(h) - d : w.messages[j] = MessageOf(kind, h[j + d])
  BY PayloadMessages
<1>2. Len(h) \in Nat /\ DOMAIN w.messages = 1 .. Len(h) - d
  BY <1>1 DEF IsHistory
<1>3. Prov!Marshals(kind, w, Pieces)
  OBVIOUS
<1> HIDE DEF w
<1> SUFFICES ASSUME NEW j \in 1 .. Len(h) - d, NEW p \in Prov!ToSet(w.messages[j].parts),
                    p.type = "call"
             PROVE  /\ j < Len(w.messages)
                    /\ LET r == Prov!Head(w.messages[j + 1].parts)
                       IN  /\ r.type = "result" /\ r.id = p.id
                           /\ kind # "anthropic" => r.name = p.name
                    /\ p.args = <<0>> \/ p.args = Prov!WholeArgs(Pieces)
                    /\ kind = "gemini" => p.sig
  BY <1>2 DEF Prov!CallsComeBack, w
<1> DEFINE m == h[j + d]
<1>4. j + d \in 1 .. Len(h) /\ w.messages[j] = MessageOf(kind, m)
  BY <1>1, <1>2
<1>5. IsTurn(kind, h, j + d)
  BY <1>4 DEF IsHistory
<1>6. PICK c : /\ m = Prov!CallMessage(c) /\ IsKnown(kind, c)
               /\ j + d < Len(h) /\ h[(j + d) + 1] = Prov!ResultMessage(c)
  <2>1. CASE m.role # "tool" /\ m.calls = <<>>
    <3>1. p \in Plain
      BY <1>4, <2>1, TextOnWire
    <3> QED BY <3>1, PlainIsNoCall
  <2>2. CASE m.role = "tool"
    <3>1. PICK r : MessageOf(kind, m).parts = <<r>> /\ r.type = "result"
      BY <2>2, ResultOnWire
    <3>2. p = r
      BY <1>4, <3>1 DEF Prov!ToSet
    <3> QED BY <3>1, <3>2
  <2> QED BY <1>5, <2>1, <2>2 DEF IsTurn
<1>7. p = PartOf(kind, c)
  <2>1. p \in Plain \cup {PartOf(kind, c)}
    BY <1>4, <1>6, CallOnWire
  <2> QED BY <2>1, PlainIsNoCall
<1>8. j < Len(w.messages) /\ j + 1 \in 1 .. Len(h) - d /\ (j + 1) + d = (j + d) + 1
  BY <1>1, <1>2, <1>6
<1>9. PICK r : /\ w.messages[j + 1].parts = <<r>> /\ r.type = "result"
               /\ r.id = IDOf(kind, c.id) /\ r.name = c.name
  <2> DEFINE n == h[(j + d) + 1]
  <2>1. n.role = "tool" /\ n.id = c.id /\ n.name = c.name
    BY <1>6 DEF Prov!ResultMessage, Prov!Message
  <2>2. w.messages[j + 1] = MessageOf(kind, n)
    BY <1>1, <1>8
  <2> HIDE DEF n
  <2> QED BY <2>1, <2>2, ResultOnWire
<1>10. p.args = <<0>> \/ p.args = Prov!WholeArgs(Pieces)
  <2>1. CASE kind = "llamacpp"
    <3>1. Prov!IsJSON(p.args, Pieces)
      BY <1>2, <1>3, <2>1 DEF Prov!Marshals
    <3>2. p.args # <<>>
      BY <1>7, <2>1, PartOfCall
    <3> QED BY <3>1, <3>2 DEF Prov!IsJSON, Prov!WholeArgs
  <2>2. CASE kind # "llamacpp"
    BY <1>6, <1>7, <2>2, PartOfCall DEF IsKnown, Trusted
  <2> QED BY <2>1, <2>2
<1>11. kind = "gemini" => p.sig
  BY <1>6, <1>7, PartOfCall DEF IsKnown
<1>12. p.id = IDOf(kind, c.id) /\ p.name = c.name
  BY <1>7, PartOfCall
<1> QED BY <1>8, <1>9, <1>10, <1>11, <1>12

-------------------------------------------------------------------------------
(* The calls of a stream.                                                  *)
\* A call that is as the server has sent it, and for llama.cpp is not added to.
IsTaken(k, s, done, c) ==
    c.of # 0 =>
        /\ c.of \in Prov!CallNumbers /\ s[c.of] > 0
        /\ c.name = c.of /\ c.id # Prov!NoID
        /\ c.args \in IF s[c.of] = 1 THEN {<<>>, <<0>>} ELSE {[n \in 1 .. s[c.of] - 1 |-> n]}
        /\ IsKnown(k, c)
        /\ k = "llamacpp" => done

\* The call that the reader of llama.cpp gathers from what was sent of it.
Sent(n) == [i \in 1 .. n - 1 |-> i]
CallForm(c) == c = [of |-> c.of, id |-> c.id, name |-> c.name, args |-> c.args, sig |-> c.sig]
IsGathered(c, i, n) ==
    /\ CallForm(c)
    /\ n = 0 => c.args = <<>>
    /\ n # 0 => c.of = i /\ c.id = Prov!ID(i) /\ c.name = i /\ c.args = Sent(n)

ReaderForm(r) ==
    r = [acc |-> r.acc, order |-> r.order, outbox |-> r.outbox, flushed |-> r.flushed,
         cur |-> r.cur, count |-> r.count]

ReaderGathers(r, s) ==
    /\ \A i \in Prov!CallNumbers : IsGathered(r.acc[i], i, s[i])
    /\ r.order \in Seq(Prov!CallNumbers)
    /\ \A n \in 1 .. Len(r.order) : s[r.order[n]] > 0

OutboxHolds(k, s, done, ob) ==
    /\ ob \in Seq(Elements(ob))
    /\ \A e \in Elements(ob) : IsTaken(k, s, done, e.call)

LEMMA CountsUp ==
    ASSUME NEW n \in Nat \ {0}
    PROVE  /\ Sent(n) \in Seq(Nat) /\ Append(Sent(n), n) = Sent(n + 1)
           /\ Sent(1) = <<>> /\ (n # 1 => Sent(n) # <<>>)
<1>1. n - 1 \in Nat /\ Sent(n) \in [1 .. n - 1 -> Nat] /\ \A i \in 1 .. n - 1 : Sent(n)[i] = i
  BY DEF Sent
<1>2. Sent(n) \in Seq(Nat) /\ Len(Sent(n)) = n - 1
  BY <1>1, LengthOfFunction
<1>3. Append(Sent(n), n) = Sent(n + 1)
  <2> DEFINE t == Append(Sent(n), n)
             u == Sent(n + 1)
  <2>1. t \in Seq(Nat) /\ Len(t) = n /\ t[n] = n /\ \A i \in 1 .. n - 1 : t[i] = i
    <3>1. /\ t \in Seq(Nat) /\ Len(t) = Len(Sent(n)) + 1 /\ t[Len(Sent(n)) + 1] = n
          /\ \A i \in 1 .. Len(Sent(n)) : t[i] = Sent(n)[i]
      BY <1>2, AppendProperties
    <3>2. (n - 1) + 1 = n
      OBVIOUS
    <3> HIDE DEF t
    <3> QED BY <1>1, <1>2, <3>1, <3>2
  <2>2. (n + 1) - 1 = n
    OBVIOUS
  <2>3. u = [i \in 1 .. n |-> i]
    BY <2>2 DEF Sent
  <2> HIDE DEF t, u
  <2>4. t = [i \in 1 .. n |-> t[i]]
    BY <2>1
  <2>5. \A i \in 1 .. n : t[i] = i
    <3>1. \A i \in 1 .. n : i = n \/ i \in 1 .. n - 1
      OBVIOUS
    <3> QED BY <2>1, <3>1
  <2>6. [i \in 1 .. n |-> t[i]] = [i \in 1 .. n |-> i]
    BY <2>5
  <2>7. t = u
    BY <2>3, <2>4, <2>6
  <2> QED BY <2>7 DEF t, u
<1>4. Sent(1) = <<>>
  <2>1. Sent(1) \in [1 .. 0 -> Nat]
    BY DEF Sent
  <2>2. Sent(1) \in Seq(Nat) /\ Len(Sent(1)) = 0
    BY <2>1, LengthOfFunction
  <2> QED BY <2>2, EmptySeq
<1>5. n # 1 => Sent(n) # <<>>
  BY <1>2
<1> QED BY <1>2, <1>3, <1>4, <1>5

LEMMA NoCallForm == CallForm(Prov!NoCall) /\ Prov!NoCall.args = <<>>
  BY DEF Prov!NoCall, CallForm

LEMMA NoCallIsTaken ==
    ASSUME NEW k, NEW s, NEW done PROVE IsTaken(k, s, done, Prov!NoCall) /\ Prov!NoCall.of = 0
  BY DEF IsTaken, Prov!NoCall

\* What the server may send in a line.
LEMMA FragmentsAreReady ==
    ASSUME NEW ready, NEW frags \in {<<>>} \cup {<<i>> : i \in ready}
                                    \cup {f \in ready \X ready : f[1] # f[2]}
    PROVE  frags \in Seq(ready) /\ (ready = {} => frags = <<>>)
<1>1. CASE frags = <<>>
  BY <1>1
<1>2. CASE \E i \in ready : frags = <<i>>
  BY <1>2
<1>3. CASE frags \in ready \X ready
  <2>1. PICK i \in ready, j \in ready : frags = <<i, j>>
    BY <1>3
  <2> QED BY <2>1
<1> QED BY <1>1, <1>2, <1>3

LEMMA FragmentsOfLlama ==
    ASSUME NEW frags \in Prov!Fragments(LAMBDA i : sent[i] < Prov!Whole)
    PROVE  frags \in Seq(Prov!CallNumbers) /\ (finished => frags = <<>>)
<1> DEFINE ready == {i \in Prov!CallNumbers : ~ finished /\ Prov!Turn(i) /\ sent[i] < Prov!Whole}
<1>1. frags \in {<<>>} \cup {<<i>> : i \in ready} \cup {f \in ready \X ready : f[1] # f[2]}
  BY DEF Prov!Fragments
<1>2. ready \subseteq Prov!CallNumbers /\ (finished => ready = {})
  OBVIOUS
<1> HIDE DEF ready
<1>3. frags \in Seq(ready) /\ (ready = {} => frags = <<>>)
  BY <1>1, FragmentsAreReady
<1> QED BY <1>2, <1>3

LEMMA FragmentsOfWhole ==
    ASSUME NEW frags \in Prov!Fragments(LAMBDA i : ~ Prov!Opened(i))
    PROVE  \E ready \in SUBSET Prov!CallNumbers :
              frags \in Seq(ready) /\ \A i \in ready : ~ Prov!Opened(i)
<1> DEFINE ready == {i \in Prov!CallNumbers : ~ finished /\ Prov!Turn(i) /\ ~ Prov!Opened(i)}
<1>1. frags \in {<<>>} \cup {<<i>> : i \in ready} \cup {f \in ready \X ready : f[1] # f[2]}
  BY DEF Prov!Fragments
<1>2. ready \in SUBSET Prov!CallNumbers /\ \A i \in ready : ~ Prov!Opened(i)
  OBVIOUS
<1> HIDE DEF ready
<1>3. frags \in Seq(ready)
  BY <1>1, FragmentsAreReady
<1> QED BY <1>2, <1>3

\* The calls that were taken stay what was sent, when nothing more is sent of them.
LEMMA TakenStays ==
    ASSUME NEW k, NEW s, NEW t, NEW done, NEW more, NEW c, IsTaken(k, s, done, c), done => more,
           c.of # 0 => t[c.of] = s[c.of]
    PROVE  IsTaken(k, t, more, c)
  BY DEF IsTaken

LEMMA OutboxStays ==
    ASSUME NEW k, NEW s, NEW t, NEW done, NEW more, NEW ob, OutboxHolds(k, s, done, ob),
           done => more, \A e \in Elements(ob) : e.call.of # 0 => t[e.call.of] = s[e.call.of]
    PROVE  OutboxHolds(k, t, more, ob)
  BY TakenStays DEF OutboxHolds

LEMMA SendsMore ==
    ASSUME sent \in [Prov!CallNumbers -> Nat], NEW frags \in Seq(Prov!CallNumbers), NEW size \in Nat,
           Prov!Sends(frags, size)
    PROVE  /\ sent' \in [Prov!CallNumbers -> Nat]
           /\ \A i \in Prov!CallNumbers :
                 sent'[i] = IF Prov!Contains(frags, i) THEN sent[i] + size ELSE sent[i]
           /\ frags = <<>> => sent' = sent
<1>1. sent' = [i \in Prov!CallNumbers |-> IF Prov!Contains(frags, i) THEN sent[i] + size ELSE sent[i]]
  BY DEF Prov!Sends
<1>2. frags = <<>> => \A i \in Prov!CallNumbers : ~ Prov!Contains(frags, i)
  BY DEF Prov!Contains
<1> QED BY <1>1, <1>2

\* What a fragment makes of a call.
LEMMA GrownIsGathered ==
    ASSUME NEW i, NEW c, sent[i] \in Nat, IsGathered(c, i, sent[i])
    PROVE  IsGathered(Prov!Grown(c, i), i, sent[i] + 1)
<1> DEFINE n == sent[i]
           g == Prov!Grown(c, i)
<1>1. CallForm(c) /\ n \in Nat /\ n + 1 # 0
  BY DEF IsGathered
<1>2. CASE n = 0
  <2>1. g = [c EXCEPT !.of = i, !.id = Prov!ID(i), !.name = i]
    BY <1>2 DEF Prov!Grown, Prov!Opened
  <2> HIDE DEF g
  <2>2. CallForm(g) /\ g.of = i /\ g.id = Prov!ID(i) /\ g.name = i /\ g.args = c.args
    BY <1>1, <2>1 DEF CallForm
  <2>3. c.args = <<>> /\ Sent(1) = <<>> /\ n + 1 = 1
    BY <1>2, CountsUp DEF IsGathered
  <2> QED BY <1>1, <2>2, <2>3 DEF IsGathered, g
<1>3. CASE n # 0
  <2>1. g = [c EXCEPT !.args = Append(c.args, n)]
    BY <1>1, <1>3 DEF Prov!Grown, Prov!Opened
  <2> HIDE DEF g
  <2>2. CallForm(g) /\ g.of = c.of /\ g.id = c.id /\ g.name = c.name /\ g.args = Append(c.args, n)
    BY <1>1, <2>1 DEF CallForm
  <2>3. c.of = i /\ c.id = Prov!ID(i) /\ c.name = i /\ c.args = Sent(n)
    BY <1>3 DEF IsGathered
  <2>4. Append(Sent(n), n) = Sent(n + 1)
    BY <1>1, <1>3, CountsUp
  <2> QED BY <1>1, <2>2, <2>3, <2>4 DEF IsGathered, g
<1> QED BY <1>2, <1>3

LEMMA AccumulateGathers ==
    ASSUME sent \in [Prov!CallNumbers -> Nat], NEW frags \in Seq(Prov!CallNumbers),
           Prov!Sends(frags, 1), ReaderForm(reader), ReaderGathers(reader, sent)
    PROVE  /\ ReaderForm(Prov!Accumulate(reader, frags))
           /\ ReaderGathers(Prov!Accumulate(reader, frags), sent')
           /\ Prov!Accumulate(reader, frags).outbox = reader.outbox
<1> DEFINE CN == Prov!CallNumbers
           Has(i) == Prov!Contains(frags, i)
           Grown(i) == IF Has(i) THEN Prov!Grown(reader.acc[i], i) ELSE reader.acc[i]
           more == Prov!Kept(frags, CN \ Prov!ToSet(reader.order))
           r == Prov!Accumulate(reader, frags)
<1>1. /\ sent' \in [CN -> Nat]
      /\ \A i \in CN : sent'[i] = IF Has(i) THEN sent[i] + 1 ELSE sent[i]
  BY SendsMore
<1>2. /\ r.order = reader.order \o more /\ r.acc = [i \in CN |-> Grown(i)]
      /\ r.outbox = reader.outbox /\ ReaderForm(r)
  <2>1. r = [reader EXCEPT !.order = @ \o more, !.acc = [i \in CN |-> Grown(i)]]
    BY DEF Prov!Accumulate
  <2> HIDE DEF r, more, Grown, CN
  <2> QED BY <2>1 DEF ReaderForm
<1>3. ASSUME NEW i \in CN PROVE IsGathered(Grown(i), i, sent'[i])
  <2>1. IsGathered(reader.acc[i], i, sent[i]) /\ sent[i] \in Nat
    BY DEF ReaderGathers
  <2>2. CASE ~ Has(i)
    BY <1>1, <2>1, <2>2
  <2>3. CASE Has(i)
    <3>1. Grown(i) = Prov!Grown(reader.acc[i], i) /\ sent'[i] = sent[i] + 1
      BY <1>1, <2>3
    <3> HIDE DEF Grown
    <3> QED BY <2>1, <3>1, GrownIsGathered
  <2> QED BY <2>2, <2>3
<1>4. \A i \in CN : IsGathered(r.acc[i], i, sent'[i])
  <2> HIDE DEF Grown, r, CN
  <2> QED BY <1>2, <1>3
<1>5. /\ more \in Seq(Elements(frags))
      /\ \A n \in 1 .. Len(more) : more[n] \in CN /\ Has(more[n])
  <2>1. frags \in Seq(Elements(frags)) /\ DOMAIN frags = 1 .. Len(frags)
    BY OwnElements
  <2>2. more \in Seq(Elements(frags)) /\ \A n \in 1 .. Len(more) : more[n] \in CN
    BY <2>1, KeptElements
  <2> HIDE DEF more
  <2>3. \A n \in 1 .. Len(more) : more[n] \in Elements(frags)
    BY <2>2
  <2>4. \A e \in Elements(frags) : Prov!Contains(frags, e)
    BY <2>1 DEF Elements, Prov!Contains
  <2> QED BY <2>2, <2>3, <2>4
<1>6. reader.order \in Seq(CN) /\ \A n \in 1 .. Len(reader.order) : sent[reader.order[n]] > 0
  BY DEF ReaderGathers
<1> DEFINE s == reader.order
<1> HIDE DEF r, more, s, CN, Has
<1>7. more \in Seq(CN) /\ Len(more) \in Nat /\ Len(s) \in Nat /\ s \in Seq(CN)
  <2>1. Len(more) \in Nat /\ more = [n \in 1 .. Len(more) |-> more[n]]
    BY <1>5
  <2>2. more \in [1 .. Len(more) -> CN]
    BY <1>5, <2>1
  <2> QED BY <1>6, <2>1, <2>2, LengthOfFunction DEF s
<1>8. /\ s \o more \in Seq(CN) /\ Len(s \o more) = Len(s) + Len(more)
      /\ \A n \in 1 .. Len(s) + Len(more) : (s \o more)[n] = IF n <= Len(s) THEN s[n] ELSE more[n - Len(s)]
  BY <1>7, ConcatProperties
<1>9. ASSUME NEW n \in 1 .. Len(s) + Len(more) PROVE sent'[(s \o more)[n]] > 0
  <2>1. CASE n <= Len(s)
    <3>1. n \in 1 .. Len(s) /\ (s \o more)[n] = s[n] /\ s[n] \in CN
      BY <1>7, <1>8, <2>1
    <3>2. sent[s[n]] > 0 /\ sent[s[n]] \in Nat
      BY <1>6, <3>1 DEF s, CN
    <3>3. sent'[s[n]] = sent[s[n]] \/ sent'[s[n]] = sent[s[n]] + 1
      BY <1>1, <3>1
    <3>4. sent'[s[n]] > 0
      BY <3>2, <3>3
    <3> QED BY <3>1, <3>4
  <2>2. CASE n > Len(s)
    <3>1. n - Len(s) \in 1 .. Len(more) /\ ~ (n <= Len(s))
      BY <1>7, <2>2
    <3>2. (s \o more)[n] = more[n - Len(s)] /\ more[n - Len(s)] \in CN /\ Has(more[n - Len(s)])
      BY <1>5, <1>8, <3>1
    <3>3. sent[more[n - Len(s)]] \in Nat
      BY <3>2 DEF CN
    <3> QED BY <1>1, <3>2, <3>3
  <2> QED BY <1>7, <2>1, <2>2
<1>10. ReaderGathers(r, sent')
  <2>1. r.order = s \o more
    BY <1>2 DEF s
  <2> QED BY <1>4, <1>8, <1>9, <2>1 DEF ReaderGathers, CN
<1> QED BY <1>2, <1>10 DEF r

LEMMA IdsAreGiven ==
    ASSUME NEW i \in Prov!CallNumbers
    PROVE  Prov!NormalID(Prov!ID(i), alnum) # Prov!NoID
<1>1. Prov!ID(i) = <<round, i>> /\ Prov!NoID = <<>>
  BY DEF Prov!ID, Prov!NoID
<1>2. <<round, i>> # <<>>
  OBVIOUS
<1>3. <<9>> \o <<round, i>> # <<>>
  <2> DEFINE A == {9, round, i}
  <2>1. <<9>> \in Seq(A) /\ <<round, i>> \in Seq(A) /\ Len(<<9>>) = 1 /\ Len(<<round, i>>) = 2
    OBVIOUS
  <2>2. Len(<<9>> \o <<round, i>>) = 3
    BY <2>1, ConcatProperties
  <2> QED BY <2>2
<1> QED BY <1>1, <1>2, <1>3 DEF Prov!NormalID

\* A call that is put into the outbox is taken as it was sent.
LEMMA GatheredIsTaken ==
    ASSUME NEW i \in Prov!CallNumbers, NEW s, s[i] \in Nat \ {0}, NEW c, IsGathered(c, i, s[i])
    PROVE  IsTaken("llamacpp", s, TRUE, Prov!Gathered(c))
<1> DEFINE n == s[i]
           g == Prov!Gathered(c)
<1>1. n \in Nat \ {0}
  OBVIOUS
<1>2. CallForm(c) /\ c.of = i /\ c.id = Prov!ID(i) /\ c.name = i /\ c.args = Sent(n)
  BY <1>1 DEF IsGathered
<1> HIDE DEF n
<1>3. /\ g.of = i /\ g.name = i /\ g.id = Prov!NormalID(Prov!ID(i), alnum)
      /\ g.args = IF Sent(n) = <<>> THEN <<0>> ELSE Sent(n)
  BY <1>2 DEF Prov!Gathered, CallForm
<1> HIDE DEF g
<1>4. g.args \in IF n = 1 THEN {<<>>, <<0>>} ELSE {[k \in 1 .. n - 1 |-> k]}
  BY <1>1, <1>3, CountsUp DEF Sent
<1>5. IsTaken("llamacpp", s, TRUE, g)
  BY <1>1, <1>3, <1>4, IdsAreGiven DEF IsTaken, IsKnown, n
<1> QED BY <1>5 DEF g

LEMMA OutboxGrows ==
    ASSUME NEW k, NEW s, NEW done, NEW ob, OutboxHolds(k, s, done, ob),
           NEW more, more \in Seq(Elements(more)), \A e \in Elements(more) : IsTaken(k, s, done, e.call)
    PROVE  OutboxHolds(k, s, done, ob \o more)
<1> DEFINE A == Elements(ob) \cup Elements(more)
<1>1. ob \in Seq(A) /\ more \in Seq(A)
  BY MoreElements DEF OutboxHolds
<1>2. ob \o more \in Seq(A) /\ Elements(ob \o more) = A
  <2>1. \A t : Elements(t) = Prov!ToSet(t)
    BY DEF Elements, Prov!ToSet
  <2>2. ob \o more \in Seq(A) /\ Prov!ToSet(ob \o more) = Prov!ToSet(ob) \cup Prov!ToSet(more)
    <3> HIDE DEF A
    <3> QED BY <1>1, ElementsOfConcat
  <2> QED BY <2>1, <2>2
<1>3. ob \o more \in Seq(Elements(ob \o more))
  BY <1>2
<1> QED BY <1>2, <1>3 DEF OutboxHolds

LEMMA FlushHolds ==
    ASSUME NEW r, ReaderForm(r), NEW s \in [Prov!CallNumbers -> Nat], ReaderGathers(r, s),
           OutboxHolds("llamacpp", s, TRUE, r.outbox)
    PROVE  /\ ReaderForm(Prov!flushToolCalls(r)) /\ ReaderGathers(Prov!flushToolCalls(r), s)
           /\ OutboxHolds("llamacpp", s, TRUE, Prov!flushToolCalls(r).outbox)
<1>1. CASE r.flushed
  BY <1>1 DEF Prov!flushToolCalls
<1>2. CASE ~ r.flushed
  <2> DEFINE f == Prov!flushToolCalls(r)
             CallOf(n) == Prov!CallEvent(Prov!Gathered(r.acc[r.order[n]]))
             more == [n \in DOMAIN r.order |-> CallOf(n)]
  <2>1. /\ f.acc = r.acc /\ f.order = r.order /\ f.outbox = r.outbox \o more /\ ReaderForm(f)
    BY <1>2 DEF Prov!flushToolCalls, ReaderForm
  <2>2. r.order \in Seq(Prov!CallNumbers) /\ DOMAIN r.order = 1 .. Len(r.order) /\ Len(r.order) \in Nat
    BY DEF ReaderGathers
  <2>3. ASSUME NEW n \in 1 .. Len(r.order) PROVE IsTaken("llamacpp", s, TRUE, CallOf(n).call)
    <3> DEFINE i == r.order[n]
    <3>1. i \in Prov!CallNumbers /\ s[i] > 0 /\ s[i] \in Nat
      BY <2>2 DEF ReaderGathers
    <3>2. IsGathered(r.acc[i], i, s[i])
      BY <3>1 DEF ReaderGathers
    <3>3. CallOf(n).call = Prov!Gathered(r.acc[i])
      BY DEF Prov!CallEvent, Prov!NoEvent
    <3> HIDE DEF i, CallOf
    <3>4. s[i] \in Nat \ {0}
      BY <3>1
    <3> QED BY <3>1, <3>2, <3>3, <3>4, GatheredIsTaken
  <2> HIDE DEF f, CallOf
  <2>4. more \in Seq(Elements(more)) /\ \A e \in Elements(more) : IsTaken("llamacpp", s, TRUE, e.call)
    <3> DEFINE A == {CallOf(n) : n \in 1 .. Len(r.order)}
    <3>1. more \in [1 .. Len(r.order) -> A]
      BY <2>2
    <3>2. more \in Seq(A)
      BY <2>2, <3>1, LengthOfFunction
    <3>3. Elements(more) \subseteq A
      BY <2>2 DEF Elements
    <3> QED BY <2>3, <3>2, <3>3, OwnElements
  <2> HIDE DEF more
  <2>5. OutboxHolds("llamacpp", s, TRUE, r.outbox \o more)
    BY <2>4, OutboxGrows
  <2>6. ReaderGathers(f, s)
    BY <2>1 DEF ReaderGathers
  <2> QED BY <2>1, <2>5, <2>6 DEF f
<1> QED BY <1>1, <1>2

-------------------------------------------------------------------------------
(* The round of a client in Trusted.                                       *)
\* The calls that are on their way to the loop are taken as they were sent, and the
\* history is one that comes back.
TakenIInv ==
    /\ sent \in [Prov!CallNumbers -> Nat]
    /\ IsTaken(kind, sent, finished, heard.call)
    /\ OutboxHolds(kind, sent, finished, reader.outbox)
    /\ ReaderForm(reader)
    /\ kind = "llamacpp" => ReaderGathers(reader, sent)
ToldIInv ==
    /\ IsHistory(kind, hist) /\ Prov!CallsComeBack(provWire)
    /\ IsTaken(kind, sent, finished, provResult.call)
    /\ phase \in Asking => provResult.call.of = 0
CallIInv == kind \in Trusted => TakenIInv /\ ToldIInv

\* A call and its result, or an answer and the next message of the user, join it.
LEMMA HistoryGrows ==
    ASSUME NEW k, NEW h, IsHistory(k, h), NEW a, NEW b,
           \/ \E c : a = Prov!CallMessage(c) /\ b = Prov!ResultMessage(c) /\ IsKnown(k, c)
           \/ a = Prov!Message("assistant") /\ b = Prov!UserMessage(FALSE)
    PROVE  IsHistory(k, h \o <<a, b>>)
<1> DEFINE g == h \o <<a, b>>
           n == Len(h)
<1>1. h \in Seq(Elements(h)) /\ n \in Nat /\ n > 0
  BY DEF IsHistory
<1>2. /\ g \in Seq(Elements(g)) /\ Len(g) = n + 2
      /\ \A i \in 1 .. n : g[i] = h[i]
      /\ g[n + 1] = a /\ g[n + 2] = b
  <2> DEFINE A == Elements(h) \cup {a, b}
  <2>1. h \in Seq(A) /\ <<a, b>> \in Seq(A) /\ Len(<<a, b>>) = 2
    <3>1. h \in Seq(A)
      BY <1>1, MoreElements
    <3> QED BY <3>1
  <2>2. /\ g \in Seq(A) /\ Len(g) = n + 2
        /\ \A i \in 1 .. n + 2 : g[i] = IF i <= n THEN h[i] ELSE <<a, b>>[i - n]
    <3> HIDE DEF A
    <3> QED BY <2>1, ConcatProperties
  <2>3. g \in Seq(Elements(g))
    <3> HIDE DEF A, g
    <3> QED BY <2>2, OwnElements
  <2>4. n + 1 \in 1 .. n + 2 /\ n + 2 \in 1 .. n + 2 /\ (n + 1) - n = 1 /\ (n + 2) - n = 2
        /\ ~ (n + 1 <= n) /\ ~ (n + 2 <= n) /\ \A i \in 1 .. n : i \in 1 .. n + 2 /\ i <= n
    BY <1>1
  <2> HIDE DEF g, n, A
  <2>5. g[n + 1] = <<a, b>>[1] /\ g[n + 2] = <<a, b>>[2] /\ \A i \in 1 .. n : g[i] = h[i]
    BY <2>2, <2>4
  <2> QED BY <2>2, <2>3, <2>5
<1>3. /\ a.role # "system" /\ b.role # "system"
      /\ \/ b.role = "tool"
         \/ b.role # "tool" /\ b.calls = <<>>
      /\ \/ a.role # "tool" /\ a.calls = <<>>
         \/ \E c : a = Prov!CallMessage(c) /\ b = Prov!ResultMessage(c) /\ IsKnown(k, c)
  <2>1. CASE \E c : a = Prov!CallMessage(c) /\ b = Prov!ResultMessage(c) /\ IsKnown(k, c)
    <3>1. PICK c : a = Prov!CallMessage(c) /\ b = Prov!ResultMessage(c) /\ IsKnown(k, c)
      BY <2>1
    <3>2. a.role = "assistant" /\ b.role = "tool"
      BY <3>1 DEF Prov!CallMessage, Prov!ResultMessage, Prov!Message
    <3> QED BY <2>1, <3>2
  <2>2. CASE a = Prov!Message("assistant") /\ b = Prov!UserMessage(FALSE)
    <3>1. a.role = "assistant" /\ b.role = "user" /\ a.calls = <<>> /\ b.calls = <<>>
      BY <2>2 DEF Prov!UserMessage, Prov!Message
    <3> QED BY <3>1
  <2> QED BY <2>1, <2>2
<1> HIDE DEF g, n
<1>4. \A j \in 1 .. n + 2 : j \in 1 .. n \/ j = n + 1 \/ j = n + 2
  BY <1>1
<1>5. g[1].role = "system"
  <2>1. 1 \in 1 .. n
    BY <1>1
  <2> QED BY <1>2, <2>1 DEF IsHistory
<1>6. \A j \in 2 .. n + 2 : g[j].role # "system"
  <2> SUFFICES ASSUME NEW j \in 2 .. n + 2 PROVE g[j].role # "system"
    OBVIOUS
  <2>1. CASE j \in 1 .. n
    <3>1. j \in 2 .. n
      BY <1>1, <2>1
    <3> QED BY <1>2, <2>1, <3>1 DEF IsHistory, n
  <2>2. CASE j = n + 1 \/ j = n + 2
    BY <1>2, <1>3, <2>2
  <2>3. j \in 1 .. n + 2
    OBVIOUS
  <2> QED BY <1>4, <2>1, <2>2, <2>3
<1>7. \A j \in 1 .. n + 2 : IsTurn(k, g, j)
  <2> SUFFICES ASSUME NEW j \in 1 .. n + 2 PROVE IsTurn(k, g, j)
    OBVIOUS
  <2>1. CASE j \in 1 .. n
    <3>1. IsTurn(k, h, j) /\ g[j] = h[j]
      BY <1>2, <2>1 DEF IsHistory, n
    <3>2. CASE \E c : /\ h[j] = Prov!CallMessage(c) /\ IsKnown(k, c)
                      /\ j < n /\ h[j + 1] = Prov!ResultMessage(c)
      <4>1. j < n
        BY <3>2
      <4>2. j + 1 \in 1 .. n /\ j < n + 2
        BY <1>1, <2>1, <4>1
      <4>3. g[j + 1] = h[j + 1] /\ j < Len(g)
        BY <1>2, <4>2
      <4> QED BY <3>1, <3>2, <4>3 DEF IsTurn
    <3>3. CASE (h[j].role # "tool" /\ h[j].calls = <<>>) \/ h[j].role = "tool"
      BY <3>1, <3>3 DEF IsTurn
    <3> QED BY <3>1, <3>2, <3>3 DEF IsTurn, n
  <2>2. CASE j = n + 1
    <3>1. j < Len(g) /\ g[j] = a /\ g[j + 1] = b
      <4>1. (n + 1) + 1 = n + 2 /\ n + 1 < n + 2
        BY <1>1
      <4> QED BY <1>2, <2>2, <4>1
    <3> QED BY <1>3, <3>1 DEF IsTurn
  <2>3. CASE j = n + 2
    BY <1>2, <1>3, <2>3 DEF IsTurn
  <2> QED BY <1>4, <2>1, <2>2, <2>3
<1>8. n + 2 > 0
  BY <1>1
<1> QED BY <1>2, <1>5, <1>6, <1>7, <1>8 DEF IsHistory, g

\* The histories that a conversation and a request for a summary begin with.
LEMMA FirstHistory ==
    ASSUME NEW k, NEW m, m.role = "user", m.calls = <<>>
    PROVE  IsHistory(k, <<Prov!Message("system"), m>>)
<1> DEFINE s == Prov!Message("system")
           h == <<s, m>>
<1>1. s.role = "system" /\ s.calls = <<>>
  BY DEF Prov!Message
<1> HIDE DEF s
<1>2. h \in Seq({s, m}) /\ Len(h) = 2 /\ h[1] = s /\ h[2] = m
  OBVIOUS
<1>3. h \in Seq(Elements(h))
  <2> HIDE DEF h
  <2> QED BY <1>2, OwnElements
<1> HIDE DEF h
<1>4. \A j \in 1 .. 2 : j = 1 \/ j = 2
  OBVIOUS
<1>5. \A j \in 2 .. 2 : j = 2
  OBVIOUS
<1>6. \A j \in 1 .. Len(h) : IsTurn(k, h, j)
  BY <1>1, <1>2, <1>4 DEF IsTurn
<1>7. h[1].role = "system" /\ \A j \in 2 .. Len(h) : h[j].role # "system"
  BY <1>1, <1>2, <1>5
<1> QED BY <1>2, <1>3, <1>6, <1>7 DEF IsHistory, h, s

LEMMA SummaryHistory == \A k : IsHistory(k, Prov!SummaryRequest)
<1>1. Prov!Message("user").role = "user" /\ Prov!Message("user").calls = <<>>
  BY DEF Prov!Message
<1> QED BY <1>1, FirstHistory DEF Prov!SummaryRequest

\* A request begins with nothing sent.
LEMMA NothingIsTaken ==
    ASSUME NEW k, NEW s, s = [i \in Prov!CallNumbers |-> 0]
    PROVE  /\ s \in [Prov!CallNumbers -> Nat]
           /\ IsTaken(k, s, FALSE, Prov!NoEvent.call)
           /\ OutboxHolds(k, s, FALSE, Prov!NewReader.outbox)
           /\ ReaderForm(Prov!NewReader) /\ ReaderGathers(Prov!NewReader, s)
<1>1. Prov!NoEvent.call = Prov!NoCall
  BY DEF Prov!NoEvent
<1>2. Prov!NewReader.outbox = <<>> /\ Prov!NewReader.order = <<>> /\ ReaderForm(Prov!NewReader)
      /\ \A i \in Prov!CallNumbers : Prov!NewReader.acc[i] = Prov!NoCall
  BY DEF Prov!NewReader, ReaderForm
<1>3. Elements(<<>>) = {} /\ <<>> \in Seq({}) /\ \A A : <<>> \in Seq(A) /\ Len(<<>>) = 0
  BY DEF Elements
<1>4. OutboxHolds(k, s, FALSE, Prov!NewReader.outbox)
  BY <1>2, <1>3 DEF OutboxHolds
<1>5. \A i \in Prov!CallNumbers : IsGathered(Prov!NewReader.acc[i], i, s[i])
  BY <1>2, NoCallForm DEF IsGathered
<1>6. ReaderGathers(Prov!NewReader, s)
  BY <1>2, <1>3, <1>5 DEF ReaderGathers
<1> QED BY <1>1, <1>2, <1>4, <1>6, NoCallIsTaken

LEMMA CallInit == ASSUME Prov!Init PROVE CallIInv
<1>1. PICK image \in BOOLEAN : hist = <<Prov!Message("system"), Prov!UserMessage(image)>>
  BY DEF Prov!Init
<1>2. /\ sent = [i \in Prov!CallNumbers |-> 0] /\ finished = FALSE /\ reader = Prov!NewReader
      /\ heard = Prov!NoEvent /\ provResult = Prov!Nothing
      /\ provWire = [system |-> 0, messages |-> <<>>]
  BY DEF Prov!Init
<1>3. IsHistory(kind, hist)
  <2>1. Prov!UserMessage(image).role = "user" /\ Prov!UserMessage(image).calls = <<>>
    BY DEF Prov!UserMessage, Prov!Message
  <2> QED BY <1>1, <2>1, FirstHistory
<1>4. Prov!CallsComeBack(provWire)
  <2>1. DOMAIN provWire.messages = {}
    BY <1>2
  <2> QED BY <2>1 DEF Prov!CallsComeBack
<1>5. provResult.call = Prov!NoCall
  BY <1>2 DEF Prov!Nothing
<1>6. ToldIInv
  BY <1>3, <1>4, <1>5, NoCallIsTaken DEF ToldIInv
<1>7. TakenIInv
  BY <1>2, NothingIsTaken DEF TakenIInv
<1> QED BY <1>6, <1>7 DEF CallIInv

\* What a step must leave for the calls on their way, and for those that are told.
LEMMA TakenAfter ==
    ASSUME UNCHANGED <<kind, alnum, round>>, sent' \in [Prov!CallNumbers -> Nat],
           IsTaken(kind, sent', finished', heard'.call),
           OutboxHolds(kind, sent', finished', reader'.outbox),
           ReaderForm(reader'), kind = "llamacpp" => ReaderGathers(reader', sent')
    PROVE  TakenIInv'
<1>1. ReaderGathers(reader', sent') => ReaderGathers(reader, sent)'
  BY DEF ReaderGathers, IsGathered, Prov!ID
<1>2. ReaderForm(reader') => ReaderForm(reader)'
  BY DEF ReaderForm
<1>3. /\ IsTaken(kind, sent, finished, heard.call)'
      /\ OutboxHolds(kind, sent, finished, reader.outbox)'
  BY DEF IsTaken, IsKnown, OutboxHolds
<1> QED BY <1>1, <1>2, <1>3 DEF TakenIInv

LEMMA TakenUnchanged ==
    ASSUME TakenIInv, UNCHANGED <<kind, alnum, round, sent, finished, reader, heard>>
    PROVE  TakenIInv'
<1>1. ReaderGathers(reader, sent) => ReaderGathers(reader, sent)'
  BY DEF ReaderGathers, IsGathered, Prov!ID
<1>2. ReaderForm(reader) => ReaderForm(reader)'
  BY DEF ReaderForm
<1>3. /\ IsTaken(kind, sent, finished, heard.call)'
      /\ OutboxHolds(kind, sent, finished, reader.outbox)'
  BY DEF TakenIInv, IsTaken, IsKnown, OutboxHolds
<1> QED BY <1>1, <1>2, <1>3 DEF TakenIInv

LEMMA WireUnchanged ==
    ASSUME Prov!CallsComeBack(provWire), UNCHANGED <<kind, provWire>>
    PROVE  Prov!CallsComeBack(provWire)'
  BY DEF Prov!CallsComeBack

LEMMA ToldGoesOn ==
    ASSUME ToldIInv, UNCHANGED <<kind, hist, provWire, provResult>>,
           UNCHANGED <<phase, sent, finished>> \/ phase \in Asking
    PROVE  ToldIInv'
<1>1. IsHistory(kind, hist)' /\ Prov!CallsComeBack(provWire)'
  BY WireUnchanged DEF ToldIInv, IsHistory, IsTurn, IsKnown
<1>2. CASE UNCHANGED <<phase, sent, finished>>
  BY <1>1, <1>2 DEF ToldIInv, IsTaken, IsKnown
<1>3. CASE phase \in Asking
  <2>1. provResult'.call.of = 0
    BY <1>3 DEF ToldIInv
  <2> QED BY <1>1, <2>1 DEF ToldIInv, IsTaken
<1> QED BY <1>2, <1>3

LEMMA ToldEnds ==
    ASSUME ToldIInv, NEW call, NEW err, Prov!EndWith(call, err),
           IsTaken(kind, sent, finished, call), UNCHANGED <<kind, provWire, sent, finished>>
    PROVE  ToldIInv'
<1>1. phase' \notin Asking
  BY EndsOutside DEF Asking
<1>2. provResult'.call = call \/ provResult'.call = Prov!NoCall
  BY DEF Prov!EndWith
<1>3. IsTaken(kind, sent, finished, provResult'.call)
  BY <1>2, NoCallIsTaken
<1>4. IsTaken(kind, sent, finished, provResult.call)'
  BY <1>3 DEF IsTaken, IsKnown
<1>5. IsHistory(kind, hist')
  <2>1. CASE hist' = hist
    BY <2>1 DEF ToldIInv
  <2>2. CASE call.of # 0 /\ hist' = hist \o <<Prov!CallMessage(call), Prov!ResultMessage(call)>>
    <3>1. IsKnown(kind, call)
      BY <2>2 DEF IsTaken
    <3> DEFINE a == Prov!CallMessage(call)
               b == Prov!ResultMessage(call)
    <3>2. \E c : a = Prov!CallMessage(c) /\ b = Prov!ResultMessage(c) /\ IsKnown(kind, c)
      BY <3>1
    <3>3. hist' = hist \o <<a, b>>
      BY <2>2
    <3> HIDE DEF a, b
    <3> QED BY <3>2, <3>3, HistoryGrows DEF ToldIInv
  <2>3. CASE hist' = hist \o <<Prov!Message("assistant"), Prov!UserMessage(FALSE)>>
    BY <2>3, HistoryGrows DEF ToldIInv
  <2> QED BY <2>1, <2>2, <2>3 DEF Prov!EndWith
<1>6. IsHistory(kind, hist)'
  BY <1>5 DEF IsHistory, IsTurn, IsKnown
<1>7. Prov!CallsComeBack(provWire)'
  BY WireUnchanged DEF ToldIInv
<1> QED BY <1>1, <1>4, <1>6, <1>7 DEF ToldIInv

\* A request sends the history so that its calls come back, and nothing is sent yet.
LEMMA BeginKeepsCalls ==
    ASSUME CallIInv, kind \in Trusted, NEW o, Prov!Begin(o) PROVE CallIInv'
<1> DEFINE msgs == IF o = "Chat" THEN Prov!SummaryRequest ELSE hist
           payload == Prov!Payload(kind, msgs)
<1>1. /\ kind' = kind /\ hist' = hist
      /\ sent' = [i \in Prov!CallNumbers |-> 0] /\ finished' = FALSE
      /\ reader' = Prov!NewReader /\ heard' = Prov!NoEvent
      /\ provResult'.call = Prov!NoCall
      /\ \/ provWire' = provWire
         \/ provWire' = payload /\ Prov!Marshals(kind, payload, Pieces)
  <2>1. kind' = kind /\ hist' = hist
    BY DEF Prov!Begin, Prov!conf
  <2>2. /\ sent' = [i \in Prov!CallNumbers |-> 0] /\ finished' = FALSE
        /\ reader' = Prov!NewReader /\ heard' = Prov!NoEvent
    BY DEF Prov!Begin
  <2> DEFINE refused == Prov!Rejects(kind, msgs) \/ ~ Prov!Marshals(kind, payload, Pieces)
  <2>3. IF refused THEN provResult' = [call |-> Prov!NoCall, err |-> TRUE] /\ UNCHANGED provWire
                   ELSE provResult' = Prov!Nothing /\ provWire' = payload
    BY DEF Prov!Begin
  <2>4. ~ refused => Prov!Marshals(kind, payload, Pieces)
    OBVIOUS
  <2> HIDE DEF refused, payload
  <2>5. provResult'.call = Prov!NoCall
    BY <2>3 DEF Prov!Nothing
  <2> QED BY <2>1, <2>2, <2>3, <2>4, <2>5
<1>2. IsHistory(kind, msgs) /\ IsHistory(kind, hist)
  BY SummaryHistory DEF CallIInv, ToldIInv
<1> HIDE DEF msgs
<1>3. Prov!CallsComeBack(provWire')
  <2>1. CASE provWire' = provWire
    BY <2>1 DEF CallIInv, ToldIInv
  <2>2. CASE provWire' = payload /\ Prov!Marshals(kind, payload, Pieces)
    <3>1. Prov!CallsComeBack(Prov!Payload(kind, msgs))
      BY <1>2, <2>2, HistoryComesBack
    <3> QED BY <2>2, <3>1
  <2> QED BY <1>1, <2>1, <2>2
<1>4. Prov!CallsComeBack(provWire)'
  BY <1>1, <1>3 DEF Prov!CallsComeBack
<1>5. ToldIInv'
  <2>1. IsHistory(kind, hist)'
    BY <1>1, <1>2 DEF IsHistory, IsTurn, IsKnown
  <2>2. provResult'.call.of = 0
    BY <1>1, NoCallIsTaken
  <2> QED BY <1>4, <2>1, <2>2 DEF ToldIInv, IsTaken
<1>6. TakenIInv'
  <2>1. /\ sent' \in [Prov!CallNumbers -> Nat]
        /\ IsTaken(kind, sent', FALSE, Prov!NoEvent.call)
        /\ OutboxHolds(kind, sent', FALSE, Prov!NewReader.outbox)
        /\ ReaderForm(Prov!NewReader) /\ ReaderGathers(Prov!NewReader, sent')
    <3> DEFINE s == [i \in Prov!CallNumbers |-> 0]
    <3>1. sent' = s
      BY <1>1
    <3> HIDE DEF s
    <3>2. /\ s \in [Prov!CallNumbers -> Nat]
          /\ IsTaken(kind, s, FALSE, Prov!NoEvent.call)
          /\ OutboxHolds(kind, s, FALSE, Prov!NewReader.outbox)
          /\ ReaderForm(Prov!NewReader) /\ ReaderGathers(Prov!NewReader, s)
      BY NothingIsTaken DEF s
    <3> QED BY <3>1, <3>2
  <2>2. IsTaken(kind, sent, finished, heard.call)' /\ OutboxHolds(kind, sent, finished, reader.outbox)'
    BY <1>1, <2>1 DEF IsTaken, IsKnown, OutboxHolds
  <2>3. Prov!NewReader.acc = [i \in Prov!CallNumbers |-> Prov!NoCall] /\ Prov!NewReader.order = <<>>
    BY DEF Prov!NewReader
  <2>4. ReaderForm(reader)' /\ ReaderGathers(reader, sent)'
    <3>1. ReaderForm(reader)'
      BY <1>1, <2>1 DEF ReaderForm
    <3>2. \A i \in Prov!CallNumbers : sent'[i] = 0 /\ reader'.acc[i] = Prov!NoCall
      BY <1>1, <2>3
    <3>3. \A i \in Prov!CallNumbers : IsGathered(reader.acc[i], i, sent[i])'
      BY <3>2, NoCallForm DEF IsGathered
    <3>4. reader'.order = <<>> /\ Len(<<>>) = 0 /\ <<>> \in Seq(Prov!CallNumbers)
      BY <1>1, <2>3
    <3> QED BY <3>1, <3>3, <3>4 DEF ReaderGathers
  <2> QED BY <2>1, <2>2, <2>4 DEF TakenIInv
<1> QED BY <1>5, <1>6 DEF CallIInv


LEMMA DeliverTakes ==
    ASSUME NEW k, NEW s, NEW done, IsTaken(k, s, done, heard.call),
           NEW ev, IsTaken(k, s, done, ev.call), Prov!Deliver(ev)
    PROVE  IsTaken(k, s, done, heard'.call)
<1>1. heard'.call = IF ev.call.of # 0 THEN ev.call ELSE heard.call
  BY DEF Prov!Deliver
<1> QED BY <1>1

LEMMA AppendHolds ==
    ASSUME NEW k, NEW s, NEW done, NEW ob, OutboxHolds(k, s, done, ob),
           NEW e, IsTaken(k, s, done, e.call)
    PROVE  OutboxHolds(k, s, done, Append(ob, e))
<1> DEFINE A == Elements(ob) \cup {e}
<1>1. ob \in Seq(A) /\ e \in A
  BY MoreElements DEF OutboxHolds
<1>2. Append(ob, e) \in Seq(A) /\ Elements(Append(ob, e)) \subseteq A
  <2>1. Append(ob, e) \in Seq(A) /\ Elements(Append(ob, e)) \subseteq Elements(ob) \cup {e}
    <3> HIDE DEF A
    <3> QED BY <1>1, AppendElements
  <2> QED BY <2>1
<1>3. Append(ob, e) \in Seq(Elements(Append(ob, e)))
  BY <1>2, OwnElements
<1> QED BY <1>2, <1>3 DEF OutboxHolds

\* A line of llama.cpp: what was sent of a call that is on its way is all of it, since
\* the calls are put into the outbox when the server has finished.
LEMMA LlamaKeepsTaken ==
    ASSUME TakenIInv, NEW frags, NEW text, NEW finish, NEW usage,
           Prov!ReadLlama(frags, text, finish, usage)
    PROVE  TakenIInv'
<1> DEFINE r == Prov!Accumulate(reader, frags)
           event == [Prov!NoEvent EXCEPT !.text = text, !.usage = usage]
           shown == IF text \/ usage THEN Append(r.outbox, event) ELSE r.outbox
           said == [r EXCEPT !.outbox = shown]
<1>1. /\ kind = "llamacpp" /\ Prov!Sends(frags, 1) /\ finished' = (finished \/ finish)
      /\ frags \in Prov!Fragments(LAMBDA i : sent[i] < Prov!Whole)
      /\ reader' = IF finish THEN Prov!flushToolCalls(said) ELSE said
      /\ heard' = heard /\ UNCHANGED <<kind, alnum, round>>
  BY DEF Prov!ReadLlama, Prov!InStream, Prov!conf
<1>2. frags \in Seq(Prov!CallNumbers) /\ (finished => frags = <<>>)
  BY <1>1, FragmentsOfLlama
<1>3. sent' \in [Prov!CallNumbers -> Nat] /\ (finished => sent' = sent)
  BY <1>1, <1>2, SendsMore DEF TakenIInv
<1>4. ReaderForm(r) /\ ReaderGathers(r, sent') /\ r.outbox = reader.outbox
  BY <1>1, <1>2, AccumulateGathers DEF TakenIInv
<1>0. finished => finished'
  BY <1>1
<1> HIDE DEF r
<1>5. IsTaken(kind, sent', finished', heard'.call)
  <2>1. heard.call.of # 0 => finished
    BY <1>1 DEF TakenIInv, IsTaken
  <2>2. IsTaken(kind, sent', finished', heard.call)
    <3>1. heard.call.of # 0 => sent'[heard.call.of] = sent[heard.call.of]
      BY <1>3, <2>1
    <3>2. IsTaken(kind, sent, finished, heard.call)
      BY DEF TakenIInv
    <3> QED BY <1>0, <3>1, <3>2, TakenStays
  <2> QED BY <1>1, <2>2
<1>6. OutboxHolds(kind, sent', finished', r.outbox)
  <2>1. \A e \in Elements(reader.outbox) : e.call.of # 0 => finished
    BY <1>1 DEF TakenIInv, OutboxHolds, IsTaken
  <2>2. OutboxHolds(kind, sent', finished', reader.outbox)
    <3>1. \A e \in Elements(reader.outbox) : e.call.of # 0 => sent'[e.call.of] = sent[e.call.of]
      BY <1>3, <2>1
    <3>2. OutboxHolds(kind, sent, finished, reader.outbox)
      BY DEF TakenIInv
    <3> QED BY <1>0, <3>1, <3>2, OutboxStays
  <2> QED BY <1>4, <2>2
<1>7. OutboxHolds(kind, sent', finished', shown)
  <2>1. event.call = Prov!NoCall
    BY DEF Prov!NoEvent
  <2> HIDE DEF event
  <2>2. IsTaken(kind, sent', finished', event.call)
    BY <2>1, NoCallIsTaken
  <2> QED BY <1>6, <2>2, AppendHolds
<1> HIDE DEF shown
<1>8. /\ ReaderForm(said) /\ ReaderGathers(said, sent')
      /\ said.outbox = shown
  <2>1. ReaderForm(said) /\ said.acc = r.acc /\ said.order = r.order /\ said.outbox = shown
    BY <1>4 DEF ReaderForm
  <2> HIDE DEF said
  <2> QED BY <1>4, <2>1 DEF ReaderGathers
<1> HIDE DEF said
<1>9. /\ ReaderForm(reader') /\ ReaderGathers(reader', sent')
      /\ OutboxHolds(kind, sent', finished', reader'.outbox)
  <2>1. CASE finish
    <3>1. finished' = TRUE /\ reader' = Prov!flushToolCalls(said)
      BY <1>1, <2>1
    <3>2. OutboxHolds("llamacpp", sent', TRUE, said.outbox)
      BY <1>1, <1>7, <1>8, <3>1
    <3>3. /\ ReaderForm(Prov!flushToolCalls(said)) /\ ReaderGathers(Prov!flushToolCalls(said), sent')
          /\ OutboxHolds("llamacpp", sent', TRUE, Prov!flushToolCalls(said).outbox)
      BY <1>3, <1>8, <3>2, FlushHolds
    <3> QED BY <1>1, <3>1, <3>3
  <2>2. CASE ~ finish
    BY <1>1, <1>7, <1>8, <2>2
  <2> QED BY <2>1, <2>2
<1> QED BY <1>1, <1>3, <1>5, <1>9, TakenAfter

\* The call that Ollama and Gemini decode from the last fragment of a line.
LEMMA WholeIsTaken ==
    ASSUME NEW k \in {"ollama", "gemini"}, NEW s, NEW done, NEW i \in Prov!CallNumbers, NEW n,
           Pieces \in Nat, s[i] = Prov!Whole
    PROVE  IsTaken(k, s, done, [Prov!Decoded(k, i, Prov!NoID, Pieces, FALSE) EXCEPT !.id = <<n>>])
<1> DEFINE d == Prov!Decoded(k, i, Prov!NoID, Pieces, FALSE)
           c == [d EXCEPT !.id = <<n>>]
<1>1. /\ c.of = i /\ c.name = i /\ c.id = <<n>> /\ c.args = Prov!WholeArgs(Pieces)
      /\ k = "gemini" => c.sig = TRUE
  <2>1. CASE k = "ollama"
    <3>1. d = [of |-> i, id |-> <<i>>, name |-> i, args |-> Prov!WholeArgs(Pieces), sig |-> FALSE]
      BY <2>1 DEF Prov!Decoded, Prov!OllamaCall, Prov!WithID
    <3> HIDE DEF d
    <3> QED BY <2>1, <3>1
  <2>2. CASE k = "gemini"
    <3>1. d = [Prov!WithID(i, <<i>>, Pieces) EXCEPT !.sig = TRUE]
      BY <2>2 DEF Prov!Decoded, Prov!GeminiCall
    <3>2. d = [of |-> i, id |-> <<i>>, name |-> i, args |-> Prov!WholeArgs(Pieces), sig |-> TRUE]
      BY <3>1 DEF Prov!WithID
    <3> HIDE DEF d
    <3> QED BY <2>2, <3>2
  <2> QED BY <2>1, <2>2
<1> HIDE DEF c
<1>2. <<n>> # Prov!NoID
  BY DEF Prov!NoID
<1>3. s[i] - 1 = Pieces /\ s[i] > 0 /\ (s[i] = 1 <=> Pieces = 0)
  BY DEF Prov!Whole
<1>4. Prov!WholeArgs(Pieces) = [j \in 1 .. s[i] - 1 |-> j]
  BY <1>3 DEF Prov!WholeArgs
<1>5. Pieces = 0 => Prov!WholeArgs(Pieces) = <<>>
  <2>1. Sent(1) = <<>> /\ 1 - 1 = 0
    BY CountsUp
  <2> QED BY <2>1 DEF Prov!WholeArgs, Sent
<1>6. c.args \in IF s[i] = 1 THEN {<<>>, <<0>>} ELSE {[j \in 1 .. s[i] - 1 |-> j]}
  BY <1>1, <1>3, <1>4, <1>5
<1>7. IsTaken(k, s, done, c)
  BY <1>1, <1>2, <1>3, <1>6 DEF IsTaken, IsKnown
<1> QED BY <1>7 DEF c


\* A line of Ollama or Gemini carries calls that were not opened before.
LEMMA WholeKeepsTaken ==
    ASSUME TakenIInv, Pieces \in Nat, NEW frags, NEW text, NEW finish, NEW usage,
           Prov!ReadWhole(frags, text, finish, usage)
    PROVE  TakenIInv'
<1> DEFINE n == reader.count + Len(frags)
           last == [Prov!Decoded(kind, Prov!Last(frags), Prov!NoID, Pieces, FALSE) EXCEPT !.id = <<n>>]
           event == [text |-> text, usage |-> usage,
                     call |-> IF frags = <<>> THEN Prov!NoCall ELSE last]
<1>1. /\ kind \in {"ollama", "gemini"} /\ Prov!Sends(frags, Prov!Whole)
      /\ frags \in Prov!Fragments(LAMBDA i : ~ Prov!Opened(i))
      /\ reader' = [reader EXCEPT !.count = n] /\ Prov!Deliver(event)
      /\ UNCHANGED <<kind, alnum, round>> /\ reader.outbox = <<>>
  BY DEF Prov!ReadWhole, Prov!InStream, Prov!conf, Prov!Reading
<1> HIDE DEF n, last
<1>2. PICK ready \in SUBSET Prov!CallNumbers :
              frags \in Seq(ready) /\ \A i \in ready : ~ Prov!Opened(i)
  BY <1>1, FragmentsOfWhole
<1>3. frags \in Seq(Prov!CallNumbers) /\ Len(frags) \in Nat /\ \A j \in 1 .. Len(frags) : frags[j] \in ready
  BY <1>2
<1>4. /\ sent' \in [Prov!CallNumbers -> Nat]
      /\ \A i \in Prov!CallNumbers :
            sent'[i] = IF Prov!Contains(frags, i) THEN sent[i] + Prov!Whole ELSE sent[i]
  <2>1. Prov!Whole \in Nat
    BY DEF Prov!Whole
  <2> QED BY <1>1, <1>3, <2>1, SendsMore DEF TakenIInv
<1>5. \A i \in Prov!CallNumbers : Prov!Contains(frags, i) => sent[i] = 0
  <2> SUFFICES ASSUME NEW i \in Prov!CallNumbers, Prov!Contains(frags, i) PROVE sent[i] = 0
    OBVIOUS
  <2>1. i \in ready
    BY <1>3 DEF Prov!Contains
  <2>2. ~ (sent[i] > 0) /\ sent[i] \in Nat
    BY <1>2, <2>1 DEF Prov!Opened, TakenIInv
  <2> QED BY <2>2
<1>6. IsTaken(kind, sent', finished', event.call)
  <2>1. CASE frags = <<>>
    BY <2>1, NoCallIsTaken
  <2>2. CASE frags # <<>>
    <3> DEFINE i == Prov!Last(frags)
    <3>1. i \in Prov!CallNumbers /\ Prov!Contains(frags, i)
      <4>1. Len(frags) \in 1 .. Len(frags)
        BY <1>3, <2>2
      <4> QED BY <1>3, <4>1 DEF Prov!Last, Prov!Contains
    <3>2. sent'[i] = Prov!Whole
      <4>1. sent'[i] = sent[i] + Prov!Whole /\ sent[i] = 0
        BY <1>4, <1>5, <3>1
      <4> QED BY <4>1 DEF Prov!Whole
    <3>3. event.call = [Prov!Decoded(kind, i, Prov!NoID, Pieces, FALSE) EXCEPT !.id = <<n>>]
      BY <2>2 DEF last
    <3> HIDE DEF i, event
    <3>4. kind \in {"ollama", "gemini"}
      BY <1>1
    <3>5. IsTaken(kind, sent', finished',
                  [Prov!Decoded(kind, i, Prov!NoID, Pieces, FALSE) EXCEPT !.id = <<n>>])
      BY <3>1, <3>2, <3>4, WholeIsTaken
    <3> QED BY <3>3, <3>5
  <2> QED BY <2>1, <2>2
<1> HIDE DEF event
<1>7. IsTaken(kind, sent', finished', heard.call)
  <2>1. kind # "llamacpp"
    BY <1>1
  <2>2. heard.call.of # 0 => heard.call.of \in Prov!CallNumbers /\ sent[heard.call.of] > 0
    BY DEF TakenIInv, IsTaken
  <2>3. heard.call.of # 0 => sent'[heard.call.of] = sent[heard.call.of]
    BY <1>4, <1>5, <2>2
  <2> QED BY <2>1, <2>3 DEF TakenIInv, IsTaken
<1>8. IsTaken(kind, sent', finished', heard'.call)
  BY <1>1, <1>6, <1>7, DeliverTakes
<1>9. ReaderForm(reader') /\ reader'.outbox = reader.outbox /\ kind # "llamacpp"
  BY <1>1 DEF TakenIInv, ReaderForm
<1>10. OutboxHolds(kind, sent', finished', reader'.outbox)
  <2>1. reader'.outbox = reader.outbox
    BY <1>9
  <2>2. Elements(<<>>) = {} /\ <<>> \in Seq({})
    BY DEF Elements
  <2> QED BY <1>1, <2>1, <2>2 DEF OutboxHolds
<1> QED BY <1>1, <1>4, <1>8, <1>9, <1>10, TakenAfter

\* An event leaves the outbox.
LEMMA OutboxKeepsTaken ==
    ASSUME TakenIInv, Prov!Outbox
    PROVE  TakenIInv'
<1>1. /\ reader.outbox # <<>> /\ Prov!Deliver(Head(reader.outbox))
      /\ reader' = [reader EXCEPT !.outbox = Tail(reader.outbox)]
      /\ UNCHANGED <<kind, alnum, round, sent, finished>>
  BY DEF Prov!Outbox, Prov!InStream, Prov!conf, Prov!server
<1> DEFINE ob == reader.outbox
<1>2. ob \in Seq(Elements(ob)) /\ \A e \in Elements(ob) : IsTaken(kind, sent, finished, e.call)
  BY DEF TakenIInv, OutboxHolds
<1>3. /\ Tail(ob) \in Seq(Elements(ob)) /\ Elements(Tail(ob)) \subseteq Elements(ob)
      /\ Head(ob) \in Elements(ob)
  BY <1>1, <1>2, TailElements
<1>4. OutboxHolds(kind, sent, finished, Tail(ob))
  <2> DEFINE t == Tail(ob)
  <2>1. t \in Seq(Elements(t))
    <3> HIDE DEF t
    <3> QED BY <1>3, OwnElements DEF t
  <2> QED BY <1>2, <1>3, <2>1 DEF OutboxHolds
<1>5. IsTaken(kind, sent, finished, heard'.call)
  BY <1>1, <1>2, <1>3, DeliverTakes DEF TakenIInv
<1>6. /\ reader'.outbox = Tail(ob) /\ reader'.acc = reader.acc /\ reader'.order = reader.order
      /\ ReaderForm(reader')
  BY <1>1 DEF TakenIInv, ReaderForm
<1>7. kind = "llamacpp" => ReaderGathers(reader', sent)
  BY <1>6 DEF TakenIInv, ReaderGathers
<1> QED BY <1>1, <1>4, <1>5, <1>6, <1>7, TakenAfter DEF TakenIInv


\* The outbox is filled at the end of the body.
LEMMA LastFlushKeepsTaken ==
    ASSUME TakenIInv, kind = "llamacpp", reader' = Prov!flushToolCalls(reader), finished' = TRUE,
           UNCHANGED <<kind, alnum, round, sent, heard>>
    PROVE  TakenIInv'
<1>1. /\ ReaderForm(reader) /\ ReaderGathers(reader, sent) /\ sent \in [Prov!CallNumbers -> Nat]
      /\ IsTaken(kind, sent, finished, heard.call)
      /\ OutboxHolds(kind, sent, finished, reader.outbox)
  BY DEF TakenIInv
<1>2. OutboxHolds("llamacpp", sent, TRUE, reader.outbox)
  BY <1>1, OutboxStays
<1>3. IsTaken(kind, sent, TRUE, heard.call)
  BY <1>1, TakenStays
<1>4. /\ ReaderForm(reader') /\ ReaderGathers(reader', sent)
      /\ OutboxHolds("llamacpp", sent, TRUE, reader'.outbox)
  BY <1>1, <1>2, FlushHolds
<1> QED BY <1>1, <1>3, <1>4, TakenAfter

\* A request ends, with a call that was taken or without one.
LEMMA CallsEnd ==
    ASSUME CallIInv, kind \in Trusted, NEW call, NEW err, Prov!EndWith(call, err),
           call = heard.call \/ call = Prov!NoCall,
           UNCHANGED <<kind, alnum, round, provWire, sent, finished, reader, heard>>
    PROVE  CallIInv'
<1>1. IsTaken(kind, sent, finished, call)
  BY NoCallIsTaken DEF CallIInv, TakenIInv
<1>2. TakenIInv'
  BY TakenUnchanged DEF CallIInv
<1>3. ToldIInv'
  BY <1>1, ToldEnds DEF CallIInv
<1> QED BY <1>2, <1>3 DEF CallIInv

\* A request goes on, and nothing more is heard of it.
LEMMA CallsGoOn ==
    ASSUME CallIInv, kind \in Trusted, phase \in Asking \/ UNCHANGED phase,
           UNCHANGED <<kind, alnum, round, hist, provWire, sent, finished, reader, heard, provResult>>
    PROVE  CallIInv'
<1>1. TakenIInv'
  BY TakenUnchanged DEF CallIInv
<1>2. ToldIInv'
  BY ToldGoesOn DEF CallIInv
<1> QED BY <1>1, <1>2 DEF CallIInv

LEMMA RetryKeepsCalls ==
    ASSUME CallIInv, kind \in Trusted,
           \/ \E failure \in Prov!Failures : Prov!Fail(failure)
           \/ Prov!Wake
           \/ \E n \in 0 .. 1 : Prov!Answer(n)
           \/ Prov!Connect
    PROVE  CallIInv'
<1>1. /\ UNCHANGED <<kind, alnum, round, provWire, sent, finished, reader, heard>>
      /\ phase \in Asking
  BY DEF Prov!Fail, Prov!Wake, Prov!Answer, Prov!Connect, Prov!conf, Prov!server, Prov!stream, Asking
<1>2. \/ UNCHANGED <<hist, provResult>>
      \/ \E err \in BOOLEAN : Prov!EndWith(Prov!NoCall, err)
  BY DEF Prov!Fail, Prov!Wake, Prov!Answer, Prov!Connect, Prov!GiveUp
<1>3. CASE UNCHANGED <<hist, provResult>>
  BY <1>1, <1>3, CallsGoOn
<1>4. CASE \E err \in BOOLEAN : Prov!EndWith(Prov!NoCall, err)
  BY <1>1, <1>4, CallsEnd
<1> QED BY <1>2, <1>3, <1>4

\* A line is read or an event handed on.
LEMMA StreamKeepsCalls ==
    ASSUME CallIInv, kind \in Trusted, phase = "reading", Prov!InStream, TakenIInv'
    PROVE  CallIInv'
<1>1. UNCHANGED <<kind, hist, provWire, provResult>> /\ phase \in Asking
  BY DEF Prov!InStream, Prov!conf, Asking
<1>2. ToldIInv'
  BY <1>1, ToldGoesOn DEF CallIInv
<1> QED BY <1>2 DEF CallIInv

LEMMA LinesKeepCalls ==
    ASSUME CallIInv, kind \in Trusted, Pieces \in Nat,
           NEW frags, NEW text, NEW finish, NEW usage, Prov!Lines(frags, text, finish, usage)
    PROVE  CallIInv'
<1>1. TakenIInv
  BY DEF CallIInv
<1>2. CASE Prov!ReadLlama(frags, text, finish, usage)
  <2>1. phase = "reading" /\ Prov!InStream
    BY <1>2 DEF Prov!ReadLlama, Prov!Reading
  <2> QED BY <1>1, <1>2, <2>1, LlamaKeepsTaken, StreamKeepsCalls
<1>3. CASE Prov!ReadWhole(frags, text, finish, usage)
  <2>1. phase = "reading" /\ Prov!InStream
    BY <1>3 DEF Prov!ReadWhole, Prov!Reading
  <2> QED BY <1>1, <1>3, <2>1, WholeKeepsTaken, StreamKeepsCalls
<1>4. ~ Prov!ReadOpenai(frags, text, finish, usage)
  BY DEF Prov!ReadOpenai, Trusted
<1> QED BY <1>2, <1>3, <1>4 DEF Prov!Lines

\* The stream comes to an end or an error.
LEMMA EndsKeepCalls ==
    ASSUME CallIInv, kind \in Trusted, Prov!StreamEnds \/ Prov!Breaks \/ Prov!Junk PROVE CallIInv'
<1>1. CASE Prov!StreamEnds /\ kind = "llamacpp" /\ Prov!flushToolCalls(reader).outbox # <<>>
  <2>1. /\ reader' = Prov!flushToolCalls(reader) /\ finished' = TRUE
        /\ UNCHANGED <<sent, heard>> /\ Prov!InStream /\ phase = "reading"
    BY <1>1 DEF Prov!StreamEnds, Prov!Reading
  <2>2. UNCHANGED <<kind, alnum, round>>
    BY <2>1 DEF Prov!InStream, Prov!conf
  <2>3. TakenIInv'
    BY <1>1, <2>1, <2>2, LastFlushKeepsTaken DEF CallIInv
  <2> QED BY <2>1, <2>3, StreamKeepsCalls
<1>2. CASE /\ Prov!Finish \/ Prov!Break
           /\ UNCHANGED <<Prov!conf, round, provWire, Prov!server, Prov!stream>>
  <2>1. UNCHANGED <<kind, alnum, round, provWire, sent, finished, reader, heard>>
    BY <1>2 DEF Prov!conf, Prov!server, Prov!stream
  <2>2. \E err \in BOOLEAN : Prov!EndWith(heard.call, err) \/ Prov!EndWith(Prov!NoCall, err)
    BY <1>2 DEF Prov!Finish, Prov!Break
  <2> QED BY <2>1, <2>2, CallsEnd
<1> QED BY <1>1, <1>2 DEF Prov!StreamEnds, Prov!Breaks, Prov!Junk

LEMMA ProvNextKeepsCalls ==
    ASSUME Pieces \in Nat, CallIInv, [Prov!Next]_Prov!vars PROVE CallIInv'
<1>1. kind' = kind
  BY DEF Prov!Next, Prov!vars, Prov!conf, Prov!InStream, Prov!Begin, Prov!Fail, Prov!Wake, Prov!Answer,
         Prov!Connect, Prov!Lines, Prov!ReadOpenai, Prov!ReadLlama, Prov!ReadWhole, Prov!Outbox,
         Prov!BlockStart, Prov!BlockDelta, Prov!BlockStop, Prov!BlockText, Prov!StreamEnds,
         Prov!Breaks, Prov!Junk
<1>2. CASE kind \notin Trusted
  BY <1>1, <1>2 DEF CallIInv
<1>3. CASE kind \in Trusted /\ UNCHANGED Prov!vars
  BY <1>3, CallsGoOn DEF Prov!vars, Prov!conf, Prov!server, Prov!stream
<1>4. CASE kind \in Trusted /\ Prov!Next
  <2>1. kind # "anthropic"
    BY <1>4 DEF Trusted
  <2>2. CASE \E o \in {"Stream", "Chat"} : Prov!Begin(o)
    BY <1>4, <2>2, BeginKeepsCalls
  <2>3. CASE \/ \E failure \in Prov!Failures : Prov!Fail(failure)
             \/ Prov!Wake
             \/ \E n \in 0 .. 1 : Prov!Answer(n)
             \/ Prov!Connect
    BY <1>4, <2>3, RetryKeepsCalls
  <2>4. CASE \E frags, text, finish, usage : Prov!Lines(frags, text, finish, usage)
    BY <1>4, <2>4, LinesKeepCalls
  <2>5. CASE Prov!Outbox
    <3>1. phase = "reading" /\ Prov!InStream
      BY <2>5 DEF Prov!Outbox
    <3> QED BY <1>4, <2>5, <3>1, OutboxKeepsTaken, StreamKeepsCalls DEF CallIInv
  <2>6. CASE Prov!StreamEnds \/ Prov!Breaks \/ Prov!Junk
    BY <1>4, <2>6, EndsKeepCalls
  <2>7. ~ \/ \E i \in Prov!CallNumbers : Prov!BlockStart(i)
          \/ Prov!BlockDelta \/ Prov!BlockStop
          \/ \E finish \in BOOLEAN : Prov!BlockText(finish)
    BY <2>1 DEF Prov!BlockStart, Prov!BlockDelta, Prov!BlockStop, Prov!BlockText
  <2> QED BY <1>4, <2>2, <2>3, <2>4, <2>5, <2>6, <2>7 DEF Prov!Next
<1> QED BY <1>2, <1>3, <1>4

\* A call that the loop takes from llama.cpp, Ollama or Gemini is one that the server
\* sent, in full, and it is sent back with its result, whatever the number of calls,
\* pieces and requests (llamacpp/stream.go:172-222, gemini/stream.go:84-107, toPayload).
THEOREM CallsAreWhole == ASSUME Pieces \in Nat PROVE Prov!Spec => []Prov!CallIsWhole
<1>1. Prov!Init => CallIInv
  BY CallInit
<1>2. CallIInv /\ [Prov!Next]_Prov!vars => CallIInv'
  BY ProvNextKeepsCalls
<1>3. CallIInv => Prov!CallIsWhole
  <2> SUFFICES ASSUME CallIInv, kind \in Trusted
               PROVE  /\ provResult.call.of # 0 => Prov!IsSent(provResult.call)
                      /\ Prov!CallsComeBack(provWire)
    BY DEF Prov!CallIsWhole, Trusted
  <2> DEFINE call == provResult.call
             n == sent[call.of]
  <2>1. TakenIInv /\ ToldIInv
    BY DEF CallIInv
  <2>2. ASSUME call.of # 0 PROVE Prov!IsSent(call)
    <3>1. /\ call.of \in Prov!CallNumbers /\ n > 0 /\ call.name = call.of /\ call.id # Prov!NoID
          /\ call.args \in IF n = 1 THEN {<<>>, <<0>>} ELSE {[k \in 1 .. n - 1 |-> k]}
      BY <2>1, <2>2 DEF ToldIInv, IsTaken
    <3>2. n \in Nat
      BY <2>1, <3>1 DEF TakenIInv
    <3>3. n - 1 = 0 <=> n = 1
      BY <3>2
    <3> QED BY <3>1, <3>3 DEF Prov!IsSent
  <2>3. Prov!CallsComeBack(provWire)
    BY <2>1 DEF ToldIInv
  <2> QED BY <2>2, <2>3
<1> QED BY <1>1, <1>2, <1>3, PTL DEF Prov!Spec

-------------------------------------------------------------------------------
(* Services.                                                               *)
\* A behaviour of Services is one of each part: a step of one part leaves the
\* variables of the others alone.
LEMMA StepsOfBatch == [Next]_vars => [Batch!Next]_(Batch!vars)
  BY DEF Next, vars, billVars, provVars, mcpVars, batchVars, gateVars, chatVars, memVars,
     Batch!vars, Batch!options, Batch!seen

LEMMA StepsOfMcp == [Next]_vars => [Mcp!Next]_(Mcp!vars)
  BY DEF Next, vars, billVars, provVars, mcpVars, batchVars, gateVars, chatVars, memVars,
     Mcp!vars, Mcp!client, Mcp!world

LEMMA StepsOfProvider == [Next]_vars => [Prov!Next]_(Prov!vars)
  BY DEF Next, vars, billVars, provVars, mcpVars, batchVars, gateVars, chatVars, memVars,
     Prov!vars, Prov!conf, Prov!server, Prov!stream

\* The outcomes of a batch tell what ran.
THEOREM OutcomesTrue == Spec => []OutcomesAreTrue
<1>1. Init => Batch!Init
  BY DEF Init
<1>2. Batch!Init /\ [][Batch!Next]_(Batch!vars) => []Batch!OutcomesAreTrue
  BY BatchOutcomesTrue, ServiceAssumption DEF Batch!Spec, ServiceAssumption
<1> QED BY <1>1, <1>2, StepsOfBatch, PTL DEF Spec, OutcomesAreTrue

\* A caller of the MCP client gets the answer to its own request or none.
THEOREM ResponsesOwn == Spec => []ResponseIsOwn
<1>1. Init => Mcp!Init
  BY DEF Init
<1>2. Mcp!Spec => []Mcp!ResponseIsOwn
  BY ResponsesAreOwn, ServiceAssumption DEF Mcp!None, ServiceAssumption
<1> QED BY <1>1, <1>2, StepsOfMcp, PTL DEF Spec, Mcp!Spec, ResponseIsOwn

\* Every request to a provider has one response in the audit log.
THEOREM RequestsAnswered == Spec => []OneResponsePerRequest
<1>1. Init => Prov!Init
  BY DEF Init
<1>2. Prov!Init /\ [][Prov!Next]_(Prov!vars) => []Prov!OneResponsePerRequest
  BY RequestsAreAnswered DEF Prov!Spec
<1> QED BY <1>1, <1>2, StepsOfProvider, PTL DEF Spec, OneResponsePerRequest

\* The pause before a retry grows up to its cap and never wraps.
THEOREM PausesClamped == Spec => []PauseIsClamped
<1>1. Init => Prov!Init
  BY DEF Init
<1>2. Prov!Init /\ [][Prov!Next]_(Prov!vars) => []Prov!PauseIsClamped
  BY PausesAreClamped, ServiceAssumption DEF Prov!Spec, ServiceAssumption, RetryConstants
<1> QED BY <1>1, <1>2, StepsOfProvider, PTL DEF Spec, PauseIsClamped

\* What the loop takes from a provider is whole.
THEOREM CallsWhole == Spec => []CallIsWhole
<1>1. Init => Prov!Init
  BY DEF Init
<1>2. Prov!Init /\ [][Prov!Next]_(Prov!vars) => []Prov!CallIsWhole
  BY CallsAreWhole, ServiceAssumption DEF Prov!Spec, ServiceAssumption
<1> QED BY <1>1, <1>2, StepsOfProvider, PTL DEF Spec, CallIsWhole
===============================================================================
