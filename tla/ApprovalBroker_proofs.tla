------------------------- MODULE ApprovalBroker_proofs -------------------------
(***************************************************************************)
(* Proofs about the approval broker, for any number of calls, submits and  *)
(* keys.  The inductive invariant IInv adds to the properties the state of *)
(* the channel between Submit and Receive: who a buffered answer is for,   *)
(* and that a registered call has an empty channel.                        *)
(***************************************************************************)
EXTENDS ApprovalBroker, TLAPS

\* A registered call has asked for the key it is registered under, still waits,
\* and has not been answered.
EntryIsUnanswered ==
    \A k \in Keys : pending[k] # None =>
        /\ approvalKey(id[pending[k]]) = k
        /\ pc[pending[k]] \in Waiting
        /\ buf[pending[k]] = None
        /\ \A s \in Submits : target[s] # pending[k]

\* An accepted answer names what its call asked for; no call has two; an answer
\* still to be sent is nobody's.
TargetIsOwn ==
    /\ \A s \in Submits : reply[s] = "none" => target[s] = None
    /\ \A s \in Submits : target[s] # None =>
           /\ id[s] = id[target[s]]
           /\ reply[s] = "204"
           /\ pc[target[s]] # "idle"
    /\ \A s, t \in Submits : target[s] = target[t] /\ target[s] # None => s = t

\* What a channel holds, or a call has received, was sent to that call.
ChannelIsOwn ==
    \A c \in Calls :
        /\ buf[c] # None => target[buf[c]] = c /\ got[c] = None
        /\ got[c] # None => target[got[c]] = c

\* An answer that was in time is in the channel of a call that will look there,
\* or has been received.
InTimeIsKept ==
    /\ \A c \in Calls : pc[c] \in {"cancelled", "expired"} => ctxDone[c]
    /\ \A s \in inTime :
           /\ target[s] \in Calls
           /\ \/ buf[target[s]] = s /\ pc[target[s]] \in {"waiting", "cancelled"}
              \/ got[target[s]] = s

IInv ==
    /\ TypeOK
    /\ EntryIsUnanswered
    /\ WaiterIsReachable
    /\ TargetIsOwn
    /\ ChannelIsOwn
    /\ InTimeIsKept

\* The struct key distinguishes every two <<run ID, call ID>> pairs
\* (approval.go:57-62).
LEMMA KeyIsInjective ==
    ASSUME NEW i \in Ids, NEW j \in Ids
    PROVE  /\ approvalKey(i) \in Keys
           /\ approvalKey(i) = approvalKey(j) => i = j
BY DEF Ids, Keys, approvalKey

\* The initial state, with no call registered, satisfies the invariant.
LEMMA InitIInv == Init => IInv
BY NoneAssumption
   DEF Init, IInv, TypeOK, EntryIsUnanswered, WaiterIsReachable, TargetIsOwn,
       ChannelIsOwn, InTimeIsKept, Waiting, Finished

\* Registering, line by line: the new entry is this call's, and no call waits
\* under the key it takes.
LEMMA RegisterKeepsIInv ==
    ASSUME IInv, NEW c \in Calls, NEW i \in Ids, Register(c, i)
    PROVE  IInv'
<1> USE NoneAssumption, CallsAssumption DEF IInv, TypeOK, Waiting, Finished, Goto
<1>1. approvalKey(i) \in Keys
  BY KeyIsInjective
<1>2. i # None
  BY DEF Ids
<1>3. TypeOK'
  BY <1>1, <1>2 DEF Register
<1>4. \A s \in Submits : target[s] # c
  BY DEF Register, TargetIsOwn
<1>11. /\ id'[c] = i /\ pc'[c] # "idle"
      /\ \A d \in Calls \ {c} : id'[d] = id[d] /\ pc'[d] = pc[d]
  BY DEF Register
<1>12. \A k \in Keys : pending[k] # c
  BY DEF Register, EntryIsUnanswered
<1>5. EntryIsUnanswered'
  <2>1. CASE pending[approvalKey(i)] = None
    <3>1. pc'[c] = "waiting" /\ pending' = [pending EXCEPT ![approvalKey(i)] = c]
      BY <2>1 DEF Register
    <3>2. SUFFICES ASSUME NEW k \in Keys, pending'[k] # None
                   PROVE  /\ approvalKey(id'[pending'[k]]) = k
                          /\ pc'[pending'[k]] \in Waiting
                          /\ buf'[pending'[k]] = None
                          /\ \A s \in Submits : target'[s] # pending'[k]
      BY DEF EntryIsUnanswered
    <3>3. CASE k = approvalKey(i)
      BY <1>1, <1>4, <1>11, <3>1, <3>3 DEF Register, ChannelIsOwn
    <3>4. CASE k # approvalKey(i)
      <4>1. pending'[k] = pending[k] /\ pending[k] \in Calls \ {c}
        BY <1>1, <1>12, <3>1, <3>2, <3>4
      <4>2. QED
        BY <4>1, <1>11, <3>2 DEF Register, EntryIsUnanswered
    <3>5. QED
      BY <3>3, <3>4
  <2>2. CASE pending[approvalKey(i)] # None
    <3>1. pending' = pending
      BY <2>2 DEF Register
    <3>2. \A k \in Keys : pending[k] # None => pending[k] \in Calls \ {c}
      BY <1>12
    <3>3. QED
      BY <3>1, <3>2, <1>11 DEF Register, EntryIsUnanswered
  <2>3. QED
    BY <2>1, <2>2
<1>6. WaiterIsReachable'
  <2> SUFFICES ASSUME NEW d \in Calls, pc'[d] \in Waiting,
                      \A s \in Submits : target'[s] # d
               PROVE  pending'[approvalKey(id'[d])] = d
    BY DEF WaiterIsReachable
  <2>1. CASE d = c
    BY <2>1, <1>1, <1>11 DEF Register
  <2>2. CASE d # c
    <3>1. pending[approvalKey(id[d])] = d /\ id'[d] = id[d]
      BY <2>2, <1>11 DEF Register, WaiterIsReachable
    <3>2. approvalKey(id[d]) \in Keys
      BY <2>2, <1>11, KeyIsInjective
    <3>3. QED
      BY <3>1, <3>2, <1>1 DEF Register
  <2>3. QED
    BY <2>1, <2>2
<1>7. TargetIsOwn'
  BY <1>4 DEF Register, TargetIsOwn
<1>8. ChannelIsOwn'
  BY DEF Register, ChannelIsOwn
<1>9. InTimeIsKept'
  BY DEF Register, InTimeIsKept
<1>10. QED
  BY <1>3, <1>5, <1>6, <1>7, <1>8, <1>9

\* The steps of a waiting call that touch its channel or its position only.
LEMMA WaitKeepsIInv ==
    ASSUME IInv, NEW c \in Calls,
           ContextDone(c) \/ Receive(c) \/ TakeDone(c) \/ FindEmpty(c)
    PROVE  IInv'
<1> USE NoneAssumption
    DEF IInv, TypeOK, Waiting, Finished, Goto, ContextDone, Receive, TakeDone, FindEmpty
<1>1. TypeOK'
  <2>1. CASE ContextDone(c)
    BY <2>1
  <2>2. CASE Receive(c)
    BY <2>2
  <2>3. CASE TakeDone(c)
    BY <2>3
  <2>4. CASE FindEmpty(c)
    BY <2>4
  <2>5. QED
    BY <2>1, <2>2, <2>3, <2>4
<1>2. EntryIsUnanswered'
  BY DEF EntryIsUnanswered, ChannelIsOwn
<1>3. WaiterIsReachable'
  BY DEF WaiterIsReachable, ChannelIsOwn
<1>4. TargetIsOwn'
  BY DEF TargetIsOwn
<1>5. ChannelIsOwn'
  BY DEF ChannelIsOwn
<1>6. InTimeIsKept'
  BY DEF InTimeIsKept, TargetIsOwn, ChannelIsOwn
<1>7. QED
  BY <1>1, <1>2, <1>3, <1>4, <1>5, <1>6

\* cleanup removes this call's entry only: another call registered under the
\* same key after the answer keeps its own.
LEMMA ReturnKeepsIInv ==
    ASSUME IInv, NEW c \in Calls, Return(c)
    PROVE  IInv'
<1> USE NoneAssumption DEF IInv, TypeOK, Waiting, Finished, Goto, Return, Unregister
<1>1. id[c] \in Ids
  OBVIOUS
<1>2. approvalKey(id[c]) \in Keys
  BY <1>1, KeyIsInjective
<1>3. TypeOK'
  BY <1>2
<1>4. EntryIsUnanswered'
  BY <1>2 DEF EntryIsUnanswered
<1>5. WaiterIsReachable'
  BY <1>2 DEF WaiterIsReachable
<1>6. TargetIsOwn'
  BY DEF TargetIsOwn
<1>7. ChannelIsOwn'
  BY DEF ChannelIsOwn
<1>8. InTimeIsKept'
  BY DEF InTimeIsKept, TargetIsOwn
<1>9. QED
  BY <1>3, <1>4, <1>5, <1>6, <1>7, <1>8

\* An answer goes to the call registered under its key, into an empty channel,
\* and takes the entry with it.
LEMMA SubmitKeepsIInv ==
    ASSUME IInv, NEW s \in Submits, NEW i \in Ids, Submit(s, i)
    PROVE  IInv'
<1> USE NoneAssumption, CallsAssumption DEF IInv, TypeOK, Waiting, Finished
<1> DEFINE k == approvalKey(i)
           c == pending[k]
<1>1. k \in Keys
  BY KeyIsInjective
<1>2. i # None
  BY DEF Ids
<1>3. target[s] = None
  BY DEF Submit, TargetIsOwn
<1>4. CASE Accept(s, k)
  <2> USE <1>4 DEF Accept, Submit
  <2>1. c \in Calls /\ pc[c] \in Waiting /\ buf[c] = None /\ got[c] = None
    BY <1>1 DEF EntryIsUnanswered
  <2>2. id[c] = i
    BY <1>1, <2>1, KeyIsInjective DEF EntryIsUnanswered
  <2>3. \A t \in Submits : target[t] # c
    BY <1>1 DEF EntryIsUnanswered
  <2> HIDE DEF k, c
  <2>4. /\ buf' = [buf EXCEPT ![c] = s]
        /\ pending' = [pending EXCEPT ![k] = None]
        /\ reply' = [reply EXCEPT ![s] = "204"]
        /\ target' = [target EXCEPT ![s] = c]
        /\ id' = [id EXCEPT ![s] = i]
        /\ inTime' = IF ctxDone[c] THEN inTime ELSE inTime \cup {s}
        /\ UNCHANGED <<pc, got, ctxDone>>
    BY DEF k, c
  <2>5. TypeOK'
    BY <1>1, <1>2, <2>1, <2>4
  <2>6. /\ \A d \in Calls : id'[d] = id[d]
        /\ \A k2 \in Keys \ {k} : pending'[k2] = pending[k2] /\ pending[k2] # c
        /\ pending'[k] = None
    BY <1>1, <2>1, <2>4 DEF EntryIsUnanswered, c
  <2>7. EntryIsUnanswered'
    BY <1>1, <2>1, <2>4, <2>6 DEF EntryIsUnanswered
  <2>12. WaiterIsReachable'
    <3> SUFFICES ASSUME NEW d \in Calls, pc'[d] \in Waiting,
                        \A t \in Submits : target'[t] # d
                 PROVE  pending'[approvalKey(id'[d])] = d
      BY DEF WaiterIsReachable
    <3>1. d # c /\ pending[approvalKey(id[d])] = d
      BY <1>3, <2>1, <2>4 DEF WaiterIsReachable
    <3>2. approvalKey(id[d]) \in Keys
      BY <2>4, KeyIsInjective
    <3>3. approvalKey(id[d]) # k
      BY <3>1, <2>1 DEF c
    <3>4. QED
      BY <3>1, <3>2, <3>3, <2>6
  <2>8. TargetIsOwn'
    BY <1>3, <2>1, <2>2, <2>3, <2>4 DEF TargetIsOwn
  <2>9. ChannelIsOwn'
    BY <1>3, <2>1, <2>4 DEF ChannelIsOwn
  <2>10. InTimeIsKept'
    BY <1>3, <2>1, <2>4 DEF InTimeIsKept, ChannelIsOwn
  <2>11. QED
    BY <2>5, <2>7, <2>12, <2>8, <2>9, <2>10
<1>5. CASE Reject(s, k)
  <2> USE <1>5 DEF Reject, Submit
  <2>1. TypeOK'
    BY <1>2
  <2>2. EntryIsUnanswered' /\ WaiterIsReachable'
    BY DEF EntryIsUnanswered, WaiterIsReachable
  <2>3. TargetIsOwn' /\ ChannelIsOwn' /\ InTimeIsKept'
    BY <1>3 DEF TargetIsOwn, ChannelIsOwn, InTimeIsKept
  <2>4. QED
    BY <2>1, <2>2, <2>3
<1>6. QED
  BY <1>4, <1>5 DEF Submit

\* IInv is an invariant of the broker.
THEOREM BrokerInvariant == Spec => []IInv
<1>1. IInv /\ [Next]_vars => IInv'
  <2> SUFFICES ASSUME IInv, [Next]_vars PROVE IInv'
    OBVIOUS
  <2>1. ASSUME NEW c \in Calls, NEW i \in Ids, Register(c, i) PROVE IInv'
    BY <2>1, RegisterKeepsIInv
  <2>2. ASSUME NEW c \in Calls, ContextDone(c) \/ RequestStep(c) PROVE IInv'
    BY <2>2, WaitKeepsIInv, ReturnKeepsIInv DEF RequestStep
  <2>3. ASSUME NEW s \in Submits, NEW i \in Ids, Submit(s, i) PROVE IInv'
    BY <2>3, SubmitKeepsIInv
  <2>4. CASE UNCHANGED vars
    BY <2>4 DEF vars, IInv, TypeOK, EntryIsUnanswered, WaiterIsReachable,
                TargetIsOwn, ChannelIsOwn, InTimeIsKept
  <2>5. QED
    BY <2>1, <2>2, <2>3, <2>4 DEF Next
<1>2. QED
  BY InitIInv, <1>1, PTL DEF Spec

\* The variables of the broker keep their types.
THEOREM TypeCorrect == Spec => []TypeOK
<1>1. IInv => TypeOK
  BY DEF IInv
<1>2. QED
  BY <1>1, BrokerInvariant, PTL

\* A waiting call that nobody has answered can be answered.
THEOREM WaiterAlwaysReachable == Spec => []WaiterIsReachable
<1>1. IInv => WaiterIsReachable
  BY DEF IInv
<1>2. QED
  BY <1>1, BrokerInvariant, PTL

\* A call decides on one answer, its own.
THEOREM DecisionsAreOwn == Spec => []DecidedByOwnAnswer
<1>1. IInv => DecidedByOwnAnswer
  BY NoneAssumption DEF IInv, TypeOK, TargetIsOwn, ChannelIsOwn, DecidedByOwnAnswer
<1>2. QED
  BY <1>1, BrokerInvariant, PTL

\* A tool call is allowed only by a reviewer who allowed it.
THEOREM ApprovalFailsClosed == Spec => []FailClosed
<1>1. IInv => FailClosed
  <2> SUFFICES ASSUME IInv, NEW c \in Calls, Decide(c) = "allow"
               PROVE  \E s \in Allows : reply[s] = "204" /\ id[s] = id[c]
    BY DEF FailClosed
  <2>1. pc[c] = "decided" /\ got[c] \in Allows
    BY DEF Decide
  <2>2. got[c] \in Submits /\ got[c] # None
    BY <2>1, NoneAssumption, AllowsAssumption
  <2>3. QED
    BY <2>1, <2>2, NoneAssumption DEF IInv, TypeOK, TargetIsOwn, ChannelIsOwn
<1>2. QED
  BY <1>1, BrokerInvariant, PTL

\* An answer accepted before the deadline is the one the call returns.
THEOREM InTimeAnswersAreReturned == Spec => []InTimeAnswerIsReturned
<1>1. IInv => InTimeAnswerIsReturned
  BY DEF IInv, TypeOK, InTimeIsKept, InTimeAnswerIsReturned, Finished
<1>2. QED
  BY <1>1, BrokerInvariant, PTL

\* The answer that closed a call's slot is the one sent to it, if any.
LEMMA ClosedByTarget ==
    ASSUME IInv, NEW c \in Calls
    PROVE  /\ \A s \in Submits : target[s] = c => closedBy[c] = s
           /\ (\A s \in Submits : target[s] # c) => closedBy[c] = None
BY NoneAssumption DEF IInv, TypeOK, TargetIsOwn, closedBy

\* Steps that neither register, answer nor end a call do not touch its slot.
LEMMA SlotStutters ==
    ASSUME UNCHANGED <<pending, target>>,
           \A c \in Calls : pc'[c] # pc[c] =>
               pc[c] \notin Finished /\ pc'[c] \notin Finished
    PROVE  UNCHANGED Slot!vars
<1>1. closedBy' = closedBy
  BY DEF closedBy
<1>2. outcome' = outcome
  BY DEF outcome
<1>3. QED
  BY <1>1, <1>2 DEF Slot!vars

\* Every step of the broker is a step of the slot or leaves it alone.
LEMMA StepImplementsSlot ==
    ASSUME IInv, IInv', [Next]_vars
    PROVE  [Slot!Next]_(Slot!vars)
<1> USE NoneAssumption DEF IInv, TypeOK, Waiting, Finished, Goto
<1>1. ASSUME NEW c \in Calls, NEW i \in Ids, Register(c, i)
      PROVE  Slot!Next
  <2> USE <1>1
  <2>1. approvalKey(i) \in Keys
    BY KeyIsInjective
  <2>2. closedBy' = closedBy
    BY DEF Register, closedBy
  <2>3. Slot!Fresh(c)
    <3>1. \A s \in Submits : target[s] # c
      BY DEF Register, TargetIsOwn
    <3>2. \A k \in Keys : pending[k] # c
      BY DEF Register, EntryIsUnanswered
    <3>3. QED
      BY <3>1, <3>2, ClosedByTarget DEF Slot!Fresh, Register, outcome
  <2>4. CASE pending[approvalKey(i)] = None
    <3>1. outcome' = outcome
      BY <2>4 DEF Register, outcome
    <3>2. Slot!Open(c, approvalKey(i))
      BY <2>2, <2>3, <2>4, <3>1 DEF Slot!Open, Register
    <3>3. QED
      BY <2>1, <3>2 DEF Slot!Next
  <2>5. CASE pending[approvalKey(i)] # None
    <3>1. outcome' = [outcome EXCEPT ![c] = "duplicate"]
      <4>1. pc[c] = "idle" /\ pc' = [pc EXCEPT ![c] = "duplicate"]
        BY <2>5 DEF Register
      <4>2. QED
        BY <4>1 DEF outcome
    <3>2. Slot!Refuse(c, approvalKey(i))
      BY <2>2, <2>3, <2>5, <3>1 DEF Slot!Refuse, Register
    <3>3. QED
      BY <2>1, <3>2 DEF Slot!Next
  <2>6. QED
    BY <2>4, <2>5
<1>2. ASSUME NEW c \in Calls,
             ContextDone(c) \/ Receive(c) \/ TakeDone(c) \/ FindEmpty(c)
      PROVE  UNCHANGED Slot!vars
  <2>1. UNCHANGED <<pending, target>>
    BY <1>2 DEF ContextDone, Receive, TakeDone, FindEmpty
  <2>2. \A d \in Calls : pc'[d] # pc[d] =>
            pc[d] \notin Finished /\ pc'[d] \notin Finished
    BY <1>2 DEF ContextDone, Receive, TakeDone, FindEmpty
  <2>3. QED
    BY <2>1, <2>2, SlotStutters
<1>3. ASSUME NEW c \in Calls, Return(c)
      PROVE  Slot!Next
  <2> USE <1>3
  <2>1. closedBy' = closedBy
    BY DEF Return, closedBy
  <2>2. outcome[c] = "none" /\ id[c] \in Ids /\ approvalKey(id[c]) \in Keys
    BY KeyIsInjective DEF Return, outcome
  <2>3. CASE pc[c] = "got"
    <3>1. closedBy[c] # None /\ \A k \in Keys : pending[k] # c
      BY <2>3, ClosedByTarget DEF ChannelIsOwn, EntryIsUnanswered
    <3>2. pending' = pending
      BY <2>2, <3>1 DEF Return, Unregister
    <3>3. outcome' = [outcome EXCEPT ![c] = "decided"]
      BY <2>3 DEF Return, outcome
    <3>4. Slot!Deliver(c)
      BY <2>1, <2>2, <3>1, <3>2, <3>3 DEF Slot!Deliver
    <3>5. QED
      BY <3>4 DEF Slot!Next
  <2>4. CASE pc[c] = "expired"
    <3>1. ~ Slot!Fresh(c)
      BY <2>2, <2>4, ClosedByTarget DEF Slot!Fresh, WaiterIsReachable
    <3>2. pending' = [k \in Keys |-> IF pending[k] = c THEN None ELSE pending[k]]
      <4>1. \A k \in Keys : pending[k] = c => k = approvalKey(id[c])
        BY DEF EntryIsUnanswered
      <4>2. pending \in [Keys -> Calls \cup {None}]
        OBVIOUS
      <4> DEFINE own == approvalKey(id[c])
      <4>3. pending' = IF pending[own] = c
                       THEN [pending EXCEPT ![own] = None] ELSE pending
        BY DEF Return, Unregister
      <4>4. own \in Keys
        BY <2>2
      <4> HIDE DEF own
      <4>5. CASE pending[own] = c
        <5>1. pending' = [k \in Keys |-> IF k = own THEN None ELSE pending[k]]
          BY ONLY <4>2, <4>3, <4>5
        <5>2. \A k \in Keys : k = own <=> pending[k] = c
          BY <2>2, <4>1, <4>5 DEF own
        <5>3. QED
          BY ONLY <5>1, <5>2
      <4>6. CASE pending[own] # c
        <5>1. \A k \in Keys : pending[k] # c
          BY <4>1, <4>6 DEF own
        <5>2. QED
          BY ONLY <5>1, <4>2, <4>3, <4>6
      <4>7. QED
        BY <4>5, <4>6
    <3>3. outcome' = [outcome EXCEPT ![c] = "timedOut"]
      BY <2>4 DEF Return, outcome
    <3>4. Slot!GiveUp(c)
      BY <2>1, <2>2, <3>1, <3>2, <3>3 DEF Slot!GiveUp
    <3>5. QED
      BY <3>4 DEF Slot!Next
  <2>5. QED
    BY <2>3, <2>4 DEF Return
<1>4. ASSUME NEW s \in Submits, NEW i \in Ids, Submit(s, i)
      PROVE  [Slot!Next]_(Slot!vars)
  <2> USE <1>4
  <2> DEFINE k == approvalKey(i)
             c == pending[k]
  <2>1. k \in Keys
    BY KeyIsInjective
  <2>2. CASE Accept(s, k)
    <3>1. c \in Calls /\ target[s] = None /\ \A t \in Submits : target[t] # c
      BY <2>1, <2>2 DEF Accept, Submit, TargetIsOwn, EntryIsUnanswered
    <3>2. target' = [target EXCEPT ![s] = c] /\ pending' = [pending EXCEPT ![k] = None]
      BY <2>2 DEF Accept
    <3>3. \A r \in Calls : closedBy[r] # s
      BY <3>1, ClosedByTarget
    <3>4. closedBy' = [closedBy EXCEPT ![c] = s]
      <4>1. closedBy'[c] = s
        BY <3>1, <3>2 DEF closedBy
      <4>2. \A r \in Calls \ {c} : closedBy'[r] = closedBy[r]
        <5> SUFFICES ASSUME NEW r \in Calls \ {c} PROVE closedBy'[r] = closedBy[r]
          OBVIOUS
        <5>1. \A t \in Submits : target'[t] = r <=> target[t] = r
          BY <3>1, <3>2
        <5>2. CASE \A t \in Submits : target[t] # r
          BY <5>1, <5>2 DEF closedBy
        <5>3. CASE \E t \in Submits : target[t] = r
          <6>1. PICK t \in Submits : target[t] = r
            BY <5>3
          <6>2. \A u \in Submits : target[u] = r => u = t
            BY <6>1 DEF TargetIsOwn
          <6>3. closedBy[r] = t
            BY <6>1, <6>2 DEF closedBy
          <6>4. closedBy'[r] = t
            BY <5>1, <6>1, <6>2 DEF closedBy
          <6>5. QED
            BY <6>3, <6>4
        <5>4. QED
          BY <5>2, <5>3
      <4>3. closedBy' = [r \in Calls |-> closedBy'[r]]
            /\ closedBy = [r \in Calls |-> closedBy[r]]
        BY DEF closedBy
      <4>4. QED
        BY <3>1, <4>1, <4>2, <4>3
    <3>5. outcome' = outcome
      BY DEF Submit, outcome
    <3>6. Slot!Answer(s, k)
      BY <3>1, <3>2, <3>3, <3>4, <3>5 DEF Slot!Answer
    <3>7. QED
      BY <2>1, <3>6 DEF Slot!Next
  <2>3. CASE Reject(s, k)
    BY <2>3, SlotStutters DEF Reject, Submit
  <2>4. QED
    BY <2>2, <2>3 DEF Submit
<1>5. CASE UNCHANGED vars
  BY <1>5, SlotStutters DEF vars
<1>6. QED
  BY <1>1, <1>2, <1>3, <1>4, <1>5 DEF Next, RequestStep

\* The broker implements the one-shot slot: each registration is closed by at
\* most one answer and ends by it or by giving up.
THEOREM BrokerImplementsSlot == Spec => ImplementsSlot
<1>1. Init => Slot!Init
  BY NoneAssumption DEF Init, Slot!Init, closedBy, outcome, Finished
<1>2. IInv /\ IInv' /\ [Next]_vars => [Slot!Next]_(Slot!vars)
  BY StepImplementsSlot
<1>3. QED
  BY <1>1, <1>2, BrokerInvariant, PTL DEF Spec, Slot!Spec, ImplementsSlot
===============================================================================
