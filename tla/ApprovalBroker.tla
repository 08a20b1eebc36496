---------------------------- MODULE ApprovalBroker ----------------------------
(***************************************************************************)
(* HTTPApprover and BrokerDecider (internal/agent/approval.go) and the     *)
(* POST /v1/runs/<id>/approve handler: goroutines of agent runs block in   *)
(* Request until a reviewer's Submit reaches their channel or their        *)
(* context ends.  The grain is the code's: one step per section under      *)
(* a.mu, one per channel operation.  A Request call makes its channel, so  *)
(* the call itself names the channel.                                      *)
(***************************************************************************)
CONSTANTS
    Calls,   \* calls of Request, each with the channel it makes
    Submits, \* approve requests of reviewers
    Allows,  \* those among them whose body says allowed = true
    Runs,    \* run IDs
    CallIds, \* tool call IDs; two runs may use the same one
    None

ASSUME AllowsAssumption == Allows \subseteq Submits
ASSUME CallsAssumption == Calls \cap Submits = {}
ASSUME NoneAssumption == None \notin Calls \cup Submits \cup (Runs \X CallIds)

\* Mutation: the key forgets the call ID.
approvalKeyOfRun(id) == [RunID |-> id[1], CallID |-> CHOOSE i \in CallIds : TRUE]

\* The map key of a <<run ID, call ID>> pair, a struct and not a joined string
\* in which two pairs could collide.
approvalKey(id) == [RunID |-> id[1], CallID |-> id[2]]

Ids  == Runs \X CallIds
Keys == [RunID : Runs, CallID : CallIds]

VARIABLES
    pending,  \* a.pending: the call registered for a key, or None
    pc,       \* where a call stands
    id,       \* the <<run ID, call ID>> a call or a submit names
    buf,      \* the channel's one-element buffer: a submit, or None
    got,      \* the decision a call has received, or None
    ctxDone,  \* the call's context is done: deadline or caller gone
    reply,    \* what the handler told the reviewer
    target,   \* history: the call whose channel a submit went to, or None
    inTime    \* history: submits accepted before the call's context was done

vars == <<pending, pc, id, buf, got, ctxDone, reply, target, inTime>>

Waiting  == {"waiting", "cancelled", "expired"}  \* registered by this call
Finished == {"decided", "timedOut", "duplicate"}

Init ==
    /\ pending = [k \in Keys |-> None]
    /\ pc = [c \in Calls |-> "idle"]
    /\ id = [x \in Calls \cup Submits |-> None]
    /\ buf = [c \in Calls |-> None]
    /\ got = [c \in Calls |-> None]
    /\ ctxDone = [c \in Calls |-> FALSE]
    /\ reply = [s \in Submits |-> "none"]
    /\ target = [s \in Submits |-> None]
    /\ inTime = {}

Goto(c, l) == pc' = [pc EXCEPT ![c] = l]

\* Request, lines 84-92: under the mutex, refuse a key that is being waited
\* for, else register a new channel.
Register(c, i) ==
    /\ pc[c] = "idle"
    /\ id' = [id EXCEPT ![c] = i]
    /\ \/ /\ pending[approvalKey(i)] = None
          /\ pending' = [pending EXCEPT ![approvalKey(i)] = c]
          /\ Goto(c, "waiting")
       \/ /\ pending[approvalKey(i)] # None
          /\ Goto(c, "duplicate")
          /\ UNCHANGED pending
    /\ UNCHANGED <<buf, got, ctxDone, reply, target, inTime>>

\* The deadline of the call passes or the caller goes away.
ContextDone(c) ==
    /\ pc[c] \in Waiting \cup {"got"}
    /\ ~ ctxDone[c]
    /\ ctxDone' = [ctxDone EXCEPT ![c] = TRUE]
    /\ UNCHANGED <<pending, pc, id, buf, got, reply, target, inTime>>

\* Mutation: the inner select takes an empty channel for a decision.
ReceiveAny(c) ==
    /\ pc[c] \in {"waiting", "cancelled"}
    /\ got' = [got EXCEPT ![c] = buf[c]]
    /\ buf' = [buf EXCEPT ![c] = None]
    /\ Goto(c, "got")
    /\ UNCHANGED <<pending, id, ctxDone, reply, target, inTime>>

\* A receive from the call's channel, in the outer or in the inner select.
Receive(c) ==
    /\ pc[c] \in {"waiting", "cancelled"}
    /\ buf[c] # None
    /\ got' = [got EXCEPT ![c] = buf[c]]
    /\ buf' = [buf EXCEPT ![c] = None]
    /\ Goto(c, "got")
    /\ UNCHANGED <<pending, id, ctxDone, reply, target, inTime>>

\* The outer select takes ctx.Done (it may, even with a decision buffered).
TakeDone(c) ==
    /\ pc[c] = "waiting"
    /\ ctxDone[c]
    /\ Goto(c, "cancelled")
    /\ UNCHANGED <<pending, id, buf, got, ctxDone, reply, target, inTime>>

\* Mutation: no second look at the channel after ctx.Done.
FindEmptyUnchecked(c) ==
    /\ pc[c] = "cancelled"
    /\ Goto(c, "expired")
    /\ UNCHANGED <<pending, id, buf, got, ctxDone, reply, target, inTime>>

\* The inner select finds the channel empty and falls to default.
FindEmpty(c) ==
    /\ pc[c] = "cancelled"
    /\ buf[c] = None
    /\ Goto(c, "expired")
    /\ UNCHANGED <<pending, id, buf, got, ctxDone, reply, target, inTime>>

\* Mutation: cleanup deletes the entry whoever's channel it holds.
UnregisterAny(c) == pending' = [pending EXCEPT ![approvalKey(id[c])] = None]

\* cleanup, lines 94-101: delete the entry only if it still holds this
\* call's channel.
Unregister(c) ==
    LET k == approvalKey(id[c]) IN
    pending' = IF pending[k] = c THEN [pending EXCEPT ![k] = None] ELSE pending

\* cleanup and the return of Request: with the decision received, or with
\* ErrApprovalTimeout.
Return(c) ==
    /\ \/ pc[c] = "got" /\ Goto(c, "decided")
       \/ pc[c] = "expired" /\ Goto(c, "timedOut")
    /\ Unregister(c)
    /\ UNCHANGED <<id, buf, got, ctxDone, reply, target, inTime>>

\* Mutation: Submit removes the entry and does not send.
AcceptUnsent(s, k) ==
    LET c == pending[k] IN
    /\ c # None
    /\ pending' = [pending EXCEPT ![k] = None]
    /\ reply' = [reply EXCEPT ![s] = "204"]
    /\ target' = [target EXCEPT ![s] = c]
    /\ UNCHANGED <<buf, inTime>>

\* Mutation: Submit leaves the entry to the cleanup of Request.
AcceptKeepsEntry(s, k) ==
    LET c == pending[k] IN
    /\ c # None
    /\ buf[c] = None
    /\ buf' = [buf EXCEPT ![c] = s]
    /\ reply' = [reply EXCEPT ![s] = "204"]
    /\ target' = [target EXCEPT ![s] = c]
    /\ inTime' = IF ctxDone[c] THEN inTime ELSE inTime \cup {s}
    /\ UNCHANGED pending

\* Submit sends under the mutex and removes the entry at once.
Accept(s, k) ==
    LET c == pending[k] IN
    /\ c # None
    /\ buf[c] = None
    /\ buf' = [buf EXCEPT ![c] = s]
    /\ pending' = [pending EXCEPT ![k] = None]
    /\ reply' = [reply EXCEPT ![s] = "204"]
    /\ target' = [target EXCEPT ![s] = c]
    /\ inTime' = IF ctxDone[c] THEN inTime ELSE inTime \cup {s}

\* No entry, or the buffer is full: Submit returns false.
Reject(s, k) ==
    /\ pending[k] # None => buf[pending[k]] # None
    /\ reply' = [reply EXCEPT ![s] = "409"]
    /\ UNCHANGED <<pending, buf, target, inTime>>

\* handleRunsApprove with a well-formed body: Submit, then the status.
Submit(s, i) ==
    /\ reply[s] = "none"
    /\ id' = [id EXCEPT ![s] = i]
    /\ Accept(s, approvalKey(i)) \/ Reject(s, approvalKey(i))
    /\ UNCHANGED <<pc, got, ctxDone>>

RequestStep(c) ==
    Receive(c) \/ TakeDone(c) \/ FindEmpty(c) \/ Return(c)

Next ==
    \/ \E c \in Calls, i \in Ids : Register(c, i)
    \/ \E c \in Calls : ContextDone(c) \/ RequestStep(c)
    \/ \E s \in Submits, i \in Ids : Submit(s, i)

\* The goroutine of a call is scheduled; reviewers and deadlines owe nothing.
Fairness == \A c \in Calls : WF_vars(RequestStep(c))

Spec == Init /\ [][Next]_vars
FairSpec == Spec /\ Fairness

\* BrokerDecider.Decide, lines 165-177: a timeout is a denial, another error
\* is fatal to the run, a decision is what the reviewer said.
Decide(c) ==
    IF pc[c] = "decided"
    THEN IF got[c] \in Allows THEN "allow" ELSE "deny"
    ELSE IF pc[c] = "timedOut" THEN "deny"
    ELSE IF pc[c] = "duplicate" THEN "error" ELSE "none"
-------------------------------------------------------------------------------
TypeOK ==
    /\ pending \in [Keys -> Calls \cup {None}]
    /\ pc \in [Calls -> {"idle", "got"} \cup Waiting \cup Finished]
    /\ id \in [Calls \cup Submits -> Ids \cup {None}]
    /\ buf \in [Calls -> Submits \cup {None}]
    /\ got \in [Calls -> Submits \cup {None}]
    /\ ctxDone \in [Calls -> BOOLEAN]
    /\ reply \in [Submits -> {"none", "204", "409"}]
    /\ target \in [Submits -> Calls \cup {None}]
    /\ inTime \in SUBSET Submits
    /\ \A c \in Calls : pc[c] = "idle" <=> id[c] = None
    /\ \A c \in Calls : pc[c] \in {"got", "decided"} <=> got[c] # None

\* A call that waits and has not been answered is the one registered under its
\* key: the cleanup of an earlier call of the same key never unregisters it, so
\* a reviewer can still reach it (approval.go:96-99).
WaiterIsReachable ==
    \A c \in Calls :
        pc[c] \in Waiting /\ (\A s \in Submits : target[s] # c)
            => pending[approvalKey(id[c])] = c

\* A call decides on an answer that names its own run and call ID, that was
\* sent while it was registered and that decides no other call: a late answer
\* to an earlier call of the same IDs does not decide a later one
\* (approval.go:57-62, 129-130).
DecidedByOwnAnswer ==
    \A c \in Calls : got[c] # None =>
        /\ target[got[c]] = c
        /\ id[got[c]] = id[c]
        /\ \A d \in Calls \ {c} : got[d] # got[c]

\* Fail closed: Decide allows only what a reviewer allowed, for the same run and
\* call ID (approval.go:66).
FailClosed ==
    \A c \in Calls : Decide(c) = "allow" =>
        \E s \in Allows : reply[s] = "204" /\ id[s] = id[c]

\* An answer accepted before the call's context ended is the one Request
\* returns, even when both are ready at once (approval.go:108-111).
InTimeAnswerIsReturned ==
    \A s \in inTime : pc[target[s]] \in Finished => got[target[s]] = s

\* The reviewer's side of the doc comment at approval.go:108-111 ("valid
\* decisions are not thrown away even when Submit and the timeout fire
\* together"): an answer acknowledged with 204 is the one the call returns.
AcknowledgedIsReturned ==
    \A s \in Submits : reply[s] = "204" /\ pc[target[s]] \in Finished
        => got[target[s]] = s

\* Request does not block past an accepted answer or the end of its context.
AnsweredOrDoneReturns ==
    \A c \in Calls :
        (pc[c] \in Waiting /\ (ctxDone[c] \/ \E s \in Submits : target[s] = c))
            ~> pc[c] \in Finished

\* The broker as a one-shot slot per key.
closedBy == [c \in Calls |-> IF \E s \in Submits : target[s] = c
                             THEN CHOOSE s \in Submits : target[s] = c
                             ELSE None]
outcome == [c \in Calls |-> IF pc[c] \in Finished THEN pc[c] ELSE "none"]

Slot == INSTANCE ApprovalSpec WITH
            Requests <- Calls, Answers <- Submits, open <- pending

\* Every behaviour of the broker is one of the slot's.
ImplementsSlot == Slot!Spec
===============================================================================
