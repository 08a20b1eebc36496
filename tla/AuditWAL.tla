------------------------------- MODULE AuditWAL -------------------------------
(***************************************************************************)
(* The write-ahead log of one run in one session and its sender            *)
(* (internal/audit/wal.go, emitter.go, sender.go): goroutines append lines, *)
(* the sender reads from the cursor, posts a batch to the topic and then   *)
(* moves the cursor, and when the process is dead a later process does the *)
(* same and removes the files.  That at most one process drains a run at a *)
(* time is the run lock's business (module AuditRunLock); here a scanner   *)
(* comes only after the owner is gone.                                     *)
(*                                                                         *)
(* Line i of the file is wal[i]: the Seq of its event, or Spoiled when the *)
(* line is not valid JSON.  Offsets are counted in complete lines.         *)
(***************************************************************************)
EXTENDS Integers, Sequences, FiniteSets, FiniteSetsExt

CONSTANTS
    SendBatch, \* sendBatch: most records in one send
    Spoiled,   \* a line that is not valid JSON
    MaxEvents, \* bound: events accepted
    MaxFaults  \* bound: torn writes, lost replies, failed cursor writes, dead scanners

ASSUME SendBatchAssumption == SendBatch \in Nat \ {0}
ASSUME SpoiledAssumption == Spoiled \notin Nat
ASSUME BoundsAssumption == MaxEvents \in Nat /\ MaxFaults \in Nat

VARIABLES
    proc,   \* the owner: "up", "stopping", "final", "stopped", "down"
    seq,    \* walFile.seq
    wal,    \* the complete lines of the file
    torn,   \* the file ends in a piece of a line, without newline
    cursor, \* the cursor file: lines confirmed
    gone,   \* a scanner has removed the files
    pc,     \* the drain in progress: "rest", "read", "send", "mark", "remove"
    by,     \* who drains: "owner" or "scanner"
    end,    \* End of the last record read
    topic,  \* the batches the server has stored: <<from, upto>>
    sent,   \* history: the furthest line stored by the server
    faults

vars == <<proc, seq, wal, torn, cursor, gone, pc, by, end, topic, sent, faults>>

file == <<seq, wal, torn>>

Init ==
    /\ proc = "up"
    /\ seq = 0 /\ wal = <<>> /\ torn = FALSE
    /\ cursor = 0
    /\ gone = FALSE
    /\ pc = "rest" /\ by = "owner" /\ end = 0
    /\ topic = <<>> /\ sent = 0
    /\ faults = 0

Fault == faults < MaxFaults /\ faults' = faults + 1

-------------------------------------------------------------------------------
(* The owner's emitters.                                                     *)

\* Append: one line in one write.  After a torn write it continues the torn
\* line, which makes one line that is not valid JSON.
AppendLine ==
    /\ proc # "down"
    /\ seq < MaxEvents
    /\ wal' = Append(wal, IF torn THEN Spoiled ELSE seq)
    /\ torn' = FALSE
    /\ seq' = seq + 1
    /\ UNCHANGED <<proc, cursor, gone, pc, by, end, topic, sent, faults>>

\* Mutation: the sequence number is used up by a failed write.
AppendFailsCounted ==
    /\ proc # "down"
    /\ Fault
    /\ torn' = TRUE
    /\ seq' = seq + 1
    /\ UNCHANGED <<proc, wal, cursor, gone, pc, by, end, topic, sent>>

\* Append: the write stops half way; the event is dropped, its Seq is not
\* used up.  (A write that fails before the first byte changes nothing.)
AppendFails ==
    /\ proc # "down"
    /\ Fault
    /\ torn' = TRUE
    /\ UNCHANGED <<proc, seq, wal, cursor, gone, pc, by, end, topic, sent>>

\* Shutdown cancels the sender's context.
Shutdown ==
    /\ proc = "up"
    /\ proc' = "stopping"
    /\ UNCHANGED <<file, cursor, gone, pc, by, end, topic, sent, faults>>

\* The process ends, or dies in the middle of a write.
Exit ==
    /\ proc # "down"
    /\ proc' = "down"
    /\ pc' = "rest"
    /\ torn' \in {torn, TRUE}
    /\ UNCHANGED <<seq, wal, cursor, gone, by, end, topic, sent, faults>>

-------------------------------------------------------------------------------
(* drainRun, by the owner's loop or by a scanner.                            *)

\* The drain returns.  The final drain of Shutdown is the last.
Rest ==
    /\ pc' = "rest"
    /\ proc' = IF proc = "final" THEN "stopped" ELSE proc

\* sender.run: the next round, or after ctx.Done the final drain.  A wake that
\* is ready together with ctx.Done may win the select.
OwnerDrains ==
    /\ pc = "rest"
    /\ \/ proc \in {"up", "stopping"} /\ UNCHANGED proc
       \/ proc = "stopping" /\ proc' = "final"
    /\ pc' = "read"
    /\ by' = "owner"
    /\ UNCHANGED <<file, cursor, gone, end, topic, sent, faults>>

\* scanDeadRuns of a process started later finds the run dead.
ScannerDrains ==
    /\ pc = "rest"
    /\ proc = "down"
    /\ ~ gone
    /\ pc' = "read"
    /\ by' = "scanner"
    /\ UNCHANGED <<proc, file, cursor, gone, end, topic, sent, faults>>

Readable(from, upto) == {i \in (from + 1) .. upto : wal[i] # Spoiled}

\* Mutation: a line that is not JSON ends the batch instead of being skipped.
ReadableEndsAtSpoiled ==
    {i \in Readable(cursor, Len(wal)) :
        /\ Cardinality(Readable(cursor, i)) <= SendBatch
        /\ \A j \in (cursor + 1) .. i : wal[j] # Spoiled}

\* The lines where a batch from the cursor may end: readFrom skips lines that
\* are not JSON and stops after SendBatch records or at the end of the file.
ReadableEnds ==
    {i \in Readable(cursor, Len(wal)) : Cardinality(Readable(cursor, i)) <= SendBatch}

\* readCursor and readFrom.  With nothing to read the owner's drain is over
\* and the scanner goes on to remove the files.
Read ==
    /\ pc = "read"
    /\ \/ /\ ReadableEnds # {}
          /\ end' = Max(ReadableEnds)
          /\ pc' = "send"
          /\ UNCHANGED proc
       \/ /\ ReadableEnds = {}
          /\ IF by = "owner" THEN Rest ELSE pc' = "remove" /\ UNCHANGED proc
          /\ UNCHANGED end
    /\ UNCHANGED <<file, cursor, gone, by, topic, sent, faults>>

Store ==
    /\ topic' = Append(topic, <<cursor, end>>)
    /\ sent' = Max({sent, end})

\* The server stores the batch and its reply arrives.
Send ==
    /\ pc = "send"
    /\ Store
    /\ pc' = "mark"
    /\ UNCHANGED <<proc, file, cursor, gone, by, end, faults>>

\* The server stores the batch and the reply is lost: an error to drainRun.
SendReplyLost ==
    /\ pc = "send"
    /\ Fault
    /\ Store
    /\ Rest
    /\ UNCHANGED <<file, cursor, gone, by, end>>

\* Mutation: the scanner removes the files of a run whatever drainRun returned.
SendRefusedIgnored ==
    /\ pc \in {"read", "send"}
    /\ IF by = "owner" THEN Rest ELSE pc' = "remove" /\ UNCHANGED proc
    /\ UNCHANGED <<file, cursor, gone, by, end, topic, sent, faults>>

\* Mutation: the cursor is moved whatever send returned.
SendRefusedMarked ==
    /\ pc = "send"
    /\ pc' = "mark"
    /\ UNCHANGED <<proc, file, cursor, gone, by, end, topic, sent, faults>>

\* No connection, login refused, no stream or topic, 401 twice or another
\* status: nothing is stored and drainRun returns the error.
SendRefused ==
    /\ pc \in {"read", "send"}
    /\ Rest
    /\ UNCHANGED <<file, cursor, gone, by, end, topic, sent, faults>>

\* Mutation: the cursor is moved to where the file ends by now.
MarkSentAtEOF ==
    /\ pc = "mark"
    /\ cursor' = Len(wal)
    /\ pc' = "read"
    /\ UNCHANGED <<proc, file, gone, by, end, topic, sent, faults>>

\* writeCursor: write a temporary file, rename it.
MarkSent ==
    /\ pc = "mark"
    /\ cursor' = end
    /\ pc' = "read"
    /\ UNCHANGED <<proc, file, gone, by, end, topic, sent, faults>>

\* writeCursor fails: the old cursor stays.
MarkFails ==
    /\ pc = "mark"
    /\ Fault
    /\ Rest
    /\ UNCHANGED <<file, cursor, gone, by, end, topic, sent>>

\* scanDeadRuns, after a drain without error: remove log, cursor and lock.
Remove ==
    /\ pc = "remove"
    /\ gone' = TRUE
    /\ pc' = "rest"
    /\ UNCHANGED <<proc, file, cursor, by, end, topic, sent, faults>>

\* The scanning process dies.
ScannerDies ==
    /\ by = "scanner"
    /\ pc # "rest"
    /\ Fault
    /\ pc' = "rest"
    /\ UNCHANGED <<proc, file, cursor, gone, by, end, topic, sent>>

Emitters == AppendLine \/ AppendFails \/ Shutdown
Draining == OwnerDrains \/ ScannerDrains \/ Read \/ MarkSent \/ Remove
Failures == Exit \/ SendReplyLost \/ SendRefused \/ MarkFails \/ ScannerDies

Next == Emitters \/ Draining \/ Send \/ Failures

\* The sender goroutine runs and its timer fires; a process that has shut its
\* emitter down exits; processes keep being started; a server that is asked
\* again and again does not refuse for ever.
Fairness ==
    /\ WF_vars(Draining)
    /\ SF_vars(Read) /\ SF_vars(Send)
    /\ WF_vars(proc = "stopped" /\ Exit)

Spec == Init /\ [][Next]_vars
FairSpec == Spec /\ Fairness
-------------------------------------------------------------------------------
Delivered(i) == \E b \in DOMAIN topic : topic[b][1] < i /\ i <= topic[b][2]

\* Types, and the numbering of lines: Seq of the event in line i is i - 1, so a
\* consumer of the topic sees a lost event as a hole in Seq and nothing else as
\* one (wal.go:52, 65).
TypeOK ==
    /\ proc \in {"up", "stopping", "final", "stopped", "down"}
    /\ seq \in Nat
    /\ wal \in Seq(Nat \cup {Spoiled})
    /\ torn \in BOOLEAN
    /\ cursor \in 0 .. Len(wal)
    /\ gone \in BOOLEAN
    /\ pc \in {"rest", "read", "send", "mark", "remove"}
    /\ by \in {"owner", "scanner"}
    /\ end \in 0 .. Len(wal)
    /\ topic \in Seq((0 .. Len(wal)) \X (0 .. Len(wal)))
    /\ sent \in 0 .. Len(wal)
    /\ faults \in Nat
    /\ seq = Len(wal)
    /\ \A i \in 1 .. Len(wal) : wal[i] \in {i - 1, Spoiled}

\* First deliveries come in the order of Seq: when a batch is stored, every
\* readable line before it is in an earlier batch (sender.go:242).
NoGap ==
    \A b \in DOMAIN topic : \A i \in 1 .. topic[b][1] :
        wal[i] # Spoiled =>
            \E a \in 1 .. (b - 1) : topic[a][1] < i /\ i <= topic[a][2]

\* The files of a dead run are removed only when every readable line of them has
\* been stored by the server (sender.go:307-317).
RemovedIsDelivered ==
    gone => \A i \in 1 .. Len(wal) : wal[i] # Spoiled => Delivered(i)

\* Every accepted event that can be read back reaches the server, whatever
\* crashes and failures come between.
ReadableIsDelivered ==
    \A n \in 1 .. MaxEvents :
        (Len(wal) >= n /\ wal[n] # Spoiled) ~> Delivered(n)

Log == INSTANCE AuditLog WITH
           accepted <- Len(wal),
           spoiled <- {i \in 1 .. Len(wal) : wal[i] = Spoiled},
           blocks <- topic,
           safe <- cursor

\* The file, the cursor and the sender together are an at-least-once log.
ImplementsLog == Log!Spec
===============================================================================
