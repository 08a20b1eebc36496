------------------------------- MODULE AuditLog -------------------------------
(***************************************************************************)
(* What the audit log promises for the events of one run in one session:   *)
(* the topic receives them in order, at least once.  A delivery is a block *)
(* of consecutive events; it may start at any point that has not been      *)
(* confirmed yet, so a block can come again after a crash or a lost reply, *)
(* but it never starts beyond what has been delivered.  The run's file is  *)
(* discarded only when every readable event of it has been delivered.      *)
(***************************************************************************)
EXTENDS Naturals, Sequences

VARIABLES
    accepted, \* number of events accepted so far
    spoiled,  \* accepted events whose line in the file cannot be read back
    blocks,   \* delivered blocks <<from, upto>>: events from+1 .. upto
    sent,     \* every readable event up to here has been delivered
    safe,     \* a delivery starts no earlier than here
    gone      \* the file has been discarded

vars == <<accepted, spoiled, blocks, sent, safe, gone>>

Init ==
    /\ accepted = 0
    /\ spoiled = {}
    /\ blocks = <<>>
    /\ sent = 0
    /\ safe = 0
    /\ gone = FALSE

Accept ==
    /\ ~ gone
    /\ accepted' = accepted + 1
    /\ spoiled' \in {spoiled, spoiled \cup {accepted + 1}}
    /\ UNCHANGED <<blocks, sent, safe, gone>>

Deliver ==
    /\ ~ gone
    /\ \E upto \in (safe + 1) .. accepted :
        /\ blocks' = Append(blocks, <<safe, upto>>)
        /\ sent' = IF upto > sent THEN upto ELSE sent
    /\ UNCHANGED <<accepted, spoiled, safe, gone>>

Confirm ==
    /\ safe' \in (safe + 1) .. sent
    /\ UNCHANGED <<accepted, spoiled, blocks, sent, gone>>

Discard ==
    /\ (sent + 1) .. accepted \subseteq spoiled
    /\ gone' = TRUE
    /\ UNCHANGED <<accepted, spoiled, blocks, sent, safe>>

Next == Accept \/ Deliver \/ Confirm \/ Discard

Spec == Init /\ [][Next]_vars
===============================================================================
