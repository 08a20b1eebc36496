----------------------------- MODULE ApprovalSpec -----------------------------
(***************************************************************************)
(* What the approval broker promises to the two sides that meet in it: an  *)
(* agent run that asks whether a tool call may run, and a reviewer who     *)
(* answers over HTTP.  A request for a key (run ID, call ID) opens a slot; *)
(* the slot is closed exactly once, by the first answer for the key or by  *)
(* the request giving up; the request then ends with the answer that       *)
(* closed its slot.  Nobody but the reviewer can make it end allowed.      *)
(***************************************************************************)
CONSTANTS Requests, Answers, Keys, None

VARIABLES
    open,     \* open[k]: the request whose slot is open for k, or None
    closedBy, \* closedBy[r]: the answer that closed r's slot, or None
    outcome   \* outcome[r]: "none" until r ends

vars == <<open, closedBy, outcome>>

Init ==
    /\ open = [k \in Keys |-> None]
    /\ closedBy = [r \in Requests |-> None]
    /\ outcome = [r \in Requests |-> "none"]

Fresh(r) ==
    /\ outcome[r] = "none"
    /\ closedBy[r] = None
    /\ \A k \in Keys : open[k] # r

\* A request takes the free slot of its key.
Open(r, k) ==
    /\ Fresh(r)
    /\ open[k] = None
    /\ open' = [open EXCEPT ![k] = r]
    /\ UNCHANGED <<closedBy, outcome>>

\* A second request for a key that is being decided is turned away.
Refuse(r, k) ==
    /\ Fresh(r)
    /\ open[k] # None
    /\ outcome' = [outcome EXCEPT ![r] = "duplicate"]
    /\ UNCHANGED <<open, closedBy>>

\* An answer closes the slot of its key; no answer is used twice.
Answer(a, k) ==
    /\ open[k] \in Requests
    /\ \A r \in Requests : closedBy[r] # a
    /\ closedBy' = [closedBy EXCEPT ![open[k]] = a]
    /\ open' = [open EXCEPT ![k] = None]
    /\ UNCHANGED outcome

\* The request ends with the answer that closed its slot.
Deliver(r) ==
    /\ outcome[r] = "none"
    /\ closedBy[r] # None
    /\ outcome' = [outcome EXCEPT ![r] = "decided"]
    /\ UNCHANGED <<open, closedBy>>

\* The request gives up.  It closes its own slot if nobody has answered yet;
\* an answer that arrives while it is giving up is not used.
GiveUp(r) ==
    /\ outcome[r] = "none"
    /\ ~ Fresh(r)
    /\ outcome' = [outcome EXCEPT ![r] = "timedOut"]
    /\ open' = [k \in Keys |-> IF open[k] = r THEN None ELSE open[k]]
    /\ UNCHANGED closedBy

Next ==
    \/ \E r \in Requests, k \in Keys : Open(r, k) \/ Refuse(r, k)
    \/ \E a \in Answers, k \in Keys : Answer(a, k)
    \/ \E r \in Requests : Deliver(r) \/ GiveUp(r)

Spec == Init /\ [][Next]_vars
===============================================================================
