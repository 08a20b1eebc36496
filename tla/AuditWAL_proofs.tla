---------------------------- MODULE AuditWAL_proofs ----------------------------
(***************************************************************************)
(* That the topic receives the events of a run in order and without gaps,  *)
(* that the files are removed only after that, and that the log implements *)
(* AuditLog, for any size of a batch and any number of events and faults.  *)
(*                                                                         *)
(* The argument: whatever lies before the cursor has been delivered        *)
(* (Confirmed), because a cursor is written only after the batch it ends   *)
(* (Stored), and a batch leaves out no readable line.  A scanner comes     *)
(* when the owner is dead (ScannerIsAlone), so that nothing is appended    *)
(* behind a drain that has found nothing to read.                          *)
(***************************************************************************)
EXTENDS AuditWAL, FiniteSetTheorems, WellFoundedInduction, TLAPS

AllDelivered(n) == \A i \in 1 .. n : wal[i] # Spoiled => Delivered(i)

\* What the cursor has passed has been delivered.
Confirmed == AllDelivered(cursor)

\* A batch ends behind the cursor, and when the cursor is to be moved the batch
\* has been delivered.
Stored ==
    /\ pc \in {"send", "mark"} => cursor < end
    /\ pc = "mark" => AllDelivered(end) /\ end <= sent
    /\ pc = "remove" => AllDelivered(Len(wal))

\* Only what was sent is in the topic.
TopicIsSent == \A b \in DOMAIN topic : topic[b][2] <= sent

\* A scanner is at work only while the owner is dead, removes the files last of
\* all, and nobody is at work on files that are gone.
ScannerIsAlone ==
    /\ proc = "down" /\ pc # "rest" => by = "scanner"
    /\ by = "scanner" /\ pc # "rest" => proc = "down"
    /\ pc = "remove" => by = "scanner"
    /\ gone => proc = "down" /\ pc = "rest"

IInv ==
    /\ TypeOK
    /\ Confirmed
    /\ Stored
    /\ TopicIsSent
    /\ ScannerIsAlone
    /\ NoGap
    /\ RemovedIsDelivered

-------------------------------------------------------------------------------
(* Lemmas about sets of lines.                                               *)

\* A set of numbers that is not empty has a smallest one.
LEMMA Smallest ==
    ASSUME NEW S \in SUBSET Nat, S # {}
    PROVE  \E m \in S : \A k \in S : m <= k
<1>1. PICK m \in S : \A k \in S : ~ (<<k, m>> \in OpToRel(<, Nat))
  BY NatLessThanWellFounded, WFMin
<1>2. \A k \in S : ~ (k < m)
  BY <1>1 DEF OpToRel
<1> QED BY <1>2

\* Max picks an element of a bounded set of positive numbers.
LEMMA MaxIsMember ==
    ASSUME NEW n \in Nat, NEW S \in SUBSET (1 .. n), S # {}
    PROVE  Max(S) \in S
<1> DEFINE T == {n - i : i \in S}
<1>1. \A i \in S : i \in Nat /\ n - i \in Nat
  OBVIOUS
<1>2. T \in SUBSET Nat
  BY <1>1
<1>3. T # {}
  <2>1. PICK i \in S : TRUE
    OBVIOUS
  <2>2. n - i \in T
    BY <2>1
  <2> QED BY <2>2
<1>4. PICK m \in T : \A k \in T : m <= k
  <2> HIDE DEF T
  <2> QED BY <1>2, <1>3, Smallest
<1>5. PICK x \in S : m = n - x
  BY <1>4
<1>6. ASSUME NEW y \in S PROVE x >= y
  <2>1. n - y \in T
    OBVIOUS
  <2>2. n - x <= n - y
    BY <1>4, <1>5, <2>1
  <2> QED BY <2>2, <1>1
<1> QED BY <1>6 DEF Max

LEMMA MaxOfTwo ==
    ASSUME NEW a \in Nat, NEW b \in Nat
    PROVE  Max({a, b}) = IF b > a THEN b ELSE a
<1> DEFINE m == IF b > a THEN b ELSE a
<1>1. m \in {a, b} /\ \A y \in {a, b} : m >= y
  OBVIOUS
<1>2. \A x \in {a, b} : (\A y \in {a, b} : x >= y) => x = m
  OBVIOUS
<1> QED BY <1>1, <1>2 DEF Max

\* When no line is fit to end a batch, no readable line is left: the first one
\* would be a batch of its own.
LEMMA NothingToRead ==
    ASSUME TypeOK, ReadableEnds = {}
    PROVE  Readable(cursor, Len(wal)) = {}
<1>1. SUFFICES ASSUME Readable(cursor, Len(wal)) # {} PROVE FALSE
  OBVIOUS
<1>2. Readable(cursor, Len(wal)) \in SUBSET Nat
  BY DEF Readable, TypeOK
<1>3. PICK i \in Readable(cursor, Len(wal)) : \A k \in Readable(cursor, Len(wal)) : i <= k
  BY <1>1, <1>2, Smallest
<1>4. Readable(cursor, i) = {i}
  BY <1>3 DEF Readable, TypeOK
<1>5. Cardinality(Readable(cursor, i)) = 1
  BY <1>4, FS_Singleton
<1>6. i \in ReadableEnds
  BY <1>3, <1>5, SendBatchAssumption DEF ReadableEnds
<1> QED BY <1>6

\* A batch ends behind the cursor and within the file.
LEMMA EndIsAhead ==
    ASSUME TypeOK, ReadableEnds # {}
    PROVE  Max(ReadableEnds) \in 1 .. Len(wal) /\ cursor < Max(ReadableEnds)
<1>1. ReadableEnds \in SUBSET (1 .. Len(wal)) /\ Len(wal) \in Nat
  BY DEF ReadableEnds, Readable, TypeOK
<1>2. Max(ReadableEnds) \in ReadableEnds
  BY <1>1, MaxIsMember
<1> QED BY <1>1, <1>2 DEF ReadableEnds, Readable, TypeOK

-------------------------------------------------------------------------------
(* Every step keeps the invariant.                                           *)

LEMMA InitIInv == ASSUME Init PROVE IInv
<1> USE DEF Init
<1>1. TypeOK
  <2>1. wal \in Seq(Nat \cup {Spoiled}) /\ Len(wal) = 0 /\ topic \in Seq((0 .. 0) \X (0 .. 0))
    OBVIOUS
  <2>2. \A i \in 1 .. Len(wal) : wal[i] \in {i - 1, Spoiled}
    BY <2>1
  <2>3. seq = 0 /\ cursor = 0 /\ end = 0 /\ sent = 0 /\ faults = 0
    OBVIOUS
  <2>4. proc = "up" /\ pc = "rest" /\ by = "owner" /\ torn \in BOOLEAN /\ gone \in BOOLEAN
    OBVIOUS
  <2> HIDE DEF Init
  <2> QED BY <2>1, <2>2, <2>3, <2>4 DEF TypeOK
<1>2. Confirmed /\ Stored
  BY DEF Confirmed, Stored, AllDelivered
<1>3. TopicIsSent /\ NoGap
  BY DEF TopicIsSent, NoGap
<1>4. ScannerIsAlone /\ RemovedIsDelivered
  BY DEF ScannerIsAlone, RemovedIsDelivered
<1> QED BY <1>1, <1>2, <1>3, <1>4 DEF IInv

\* A new line lies behind the cursor, the batch at work and all deliveries, and
\* nobody has decided yet that nothing is left to read.
LEMMA AppendLineKeepsIInv == ASSUME IInv, AppendLine PROVE IInv'
<1>1. Len(wal') = Len(wal) + 1 /\ wal' \in Seq(Nat \cup {Spoiled})
  BY DEF IInv, TypeOK, AppendLine
<1>2. \A i \in 1 .. Len(wal) : wal'[i] = wal[i]
  BY DEF IInv, TypeOK, AppendLine
<1>3. wal'[Len(wal) + 1] \in {Len(wal), Spoiled}
  BY DEF IInv, TypeOK, AppendLine
<1>4. TypeOK'
  <2>1. topic \in Seq((0 .. Len(wal')) \X (0 .. Len(wal')))
    <3> DEFINE S == (0 .. Len(wal)) \X (0 .. Len(wal))
               T == (0 .. Len(wal')) \X (0 .. Len(wal'))
    <3>1. topic \in Seq(S) /\ S \subseteq T
      BY <1>1 DEF IInv, TypeOK
    <3> HIDE DEF S, T
    <3>2. topic \in [1 .. Len(topic) -> T] /\ Len(topic) \in Nat
      BY <3>1
    <3>3. topic \in Seq(T)
      BY <3>2
    <3> QED BY <3>3 DEF T
  <2>2. \A i \in 1 .. Len(wal') : wal'[i] \in {i - 1, Spoiled}
    BY <1>1, <1>2, <1>3 DEF IInv, TypeOK
  <2>3. /\ torn' \in BOOLEAN /\ gone' \in BOOLEAN
        /\ UNCHANGED <<proc, cursor, pc, by, end, topic, sent, faults>>
        /\ seq' = Len(wal')
    BY <1>1 DEF IInv, TypeOK, AppendLine
  <2>4. {cursor, end, sent} \subseteq 0 .. Len(wal') /\ Len(wal') \in Nat
    BY <1>1 DEF IInv, TypeOK
  <2> QED BY <1>1, <2>1, <2>2, <2>3, <2>4 DEF IInv, TypeOK
<1>5. pc # "remove" /\ ~ gone
  BY DEF IInv, ScannerIsAlone, AppendLine
<1>6. (Confirmed /\ Stored)'
  BY <1>1, <1>2, <1>5 DEF IInv, TypeOK, AppendLine, Confirmed, Stored, AllDelivered, Delivered
<1>7. (TopicIsSent /\ ScannerIsAlone /\ RemovedIsDelivered)'
  BY <1>5 DEF IInv, AppendLine, TopicIsSent, ScannerIsAlone, RemovedIsDelivered
<1>8. NoGap'
  <2>1. \A b \in DOMAIN topic : topic[b][1] \in 0 .. Len(wal)
    BY DEF IInv, TypeOK
  <2> QED BY <1>1, <1>2, <2>1 DEF IInv, TypeOK, AppendLine, NoGap
<1> QED BY <1>4, <1>6, <1>7, <1>8 DEF IInv

\* Steps that change neither the lines nor the topic, and after which nothing is
\* under way.
LEMMA ReturnsKeepIInv ==
    ASSUME IInv,
           \/ AppendFails \/ Shutdown \/ Exit \/ OwnerDrains \/ ScannerDrains
           \/ SendRefused \/ MarkFails \/ ScannerDies
    PROVE  IInv'
<1>1. /\ UNCHANGED <<seq, wal, cursor, gone, end, topic, sent>>
      /\ torn' \in {torn, TRUE} /\ faults' \in {faults, faults + 1}
  BY DEF IInv, TypeOK, file, Fault, Rest, AppendFails, Shutdown, Exit, OwnerDrains,
     ScannerDrains, SendRefused, MarkFails, ScannerDies
<1>2. TypeOK /\ ScannerIsAlone
  BY DEF IInv
<1>3. /\ proc' \in {"up", "stopping", "final", "stopped", "down"}
      /\ pc' \in {"rest", "read", "send", "mark", "remove"}
      /\ by' \in {"owner", "scanner"}
      /\ pc' \in {"rest", "read", pc}
      /\ ScannerIsAlone'
  <2>1. CASE AppendFails \/ Shutdown
    BY <1>2, <2>1 DEF AppendFails, Shutdown, file, Fault, TypeOK, ScannerIsAlone
  <2>2. CASE Exit \/ ScannerDies
    BY <1>2, <2>2 DEF Exit, ScannerDies, file, Fault, TypeOK, ScannerIsAlone
  <2>3. CASE OwnerDrains \/ ScannerDrains
    BY <1>2, <2>3 DEF OwnerDrains, ScannerDrains, file, TypeOK, ScannerIsAlone
  <2>4. CASE SendRefused \/ MarkFails
    BY <1>2, <2>4 DEF SendRefused, MarkFails, Rest, file, Fault, TypeOK, ScannerIsAlone
  <2> QED BY <2>1, <2>2, <2>3, <2>4
<1>4. TypeOK'
  <2>1. torn' \in BOOLEAN
    BY <1>1, <1>2, Zenon DEF TypeOK
  <2>2. faults' \in Nat
    BY <1>1, <1>2 DEF TypeOK
  <2> QED BY <1>1, <1>2, <1>3, <2>1, <2>2 DEF TypeOK
<1>5. (Confirmed /\ Stored)'
  BY <1>1, <1>3 DEF IInv, Confirmed, Stored, AllDelivered, Delivered
<1>6. (TopicIsSent /\ NoGap /\ RemovedIsDelivered)'
  BY <1>1 DEF IInv, TopicIsSent, NoGap, RemovedIsDelivered, Delivered
<1> QED BY <1>3, <1>4, <1>5, <1>6 DEF IInv

\* A scanner that has found nothing to read has everything delivered.
LEMMA ReadKeepsIInv == ASSUME IInv, Read PROVE IInv'
<1> USE DEF file, Rest, Read
<1>1. TypeOK /\ Confirmed
  BY DEF IInv
<1>2. TypeOK'
  <2>1. CASE ReadableEnds # {}
    BY <1>1, <2>1, EndIsAhead DEF TypeOK
  <2>2. CASE ReadableEnds = {}
    BY <1>1, <2>2 DEF TypeOK
  <2> QED BY <2>1, <2>2
<1>3. Confirmed'
  BY DEF IInv, Confirmed, AllDelivered, Delivered
<1>4. Stored'
  <2>1. CASE ReadableEnds # {}
    BY <1>1, <2>1, EndIsAhead DEF Stored
  <2>2. CASE ReadableEnds = {}
    <3>1. \A i \in (cursor + 1) .. Len(wal) : wal[i] = Spoiled
      BY <1>1, <2>2, NothingToRead DEF Readable
    <3>2. AllDelivered(Len(wal))
      BY <1>1, <3>1 DEF TypeOK, Confirmed, AllDelivered
    <3>3. AllDelivered(Len(wal))'
      BY <3>2 DEF AllDelivered, Delivered
    <3> QED BY <2>2, <3>3 DEF Stored
  <2> QED BY <2>1, <2>2
<1>5. (TopicIsSent /\ NoGap)'
  BY DEF IInv, TopicIsSent, NoGap
<1>6. ScannerIsAlone'
  BY DEF IInv, TypeOK, ScannerIsAlone
<1>7. RemovedIsDelivered'
  BY DEF IInv, RemovedIsDelivered, Delivered
<1> QED BY <1>2, <1>3, <1>4, <1>5, <1>6, <1>7 DEF IInv

\* The topic grows by a batch that begins at the cursor.
LEMMA StoreGrows ==
    ASSUME IInv, pc = "send", Store, UNCHANGED <<wal, cursor, end>>
    PROVE  /\ topic' \in Seq((0 .. Len(wal)) \X (0 .. Len(wal)))
           /\ sent' = IF end > sent THEN end ELSE sent
           /\ AllDelivered(cursor)' /\ AllDelivered(end)'
           /\ TopicIsSent' /\ NoGap'
           /\ \A i \in 1 .. Len(wal) : Delivered(i) => Delivered(i)'
<1> DEFINE n == Len(topic)
<1>1. /\ TypeOK /\ cursor < end /\ n \in Nat
      /\ \A b \in DOMAIN topic : topic[b] \in (0 .. Len(wal)) \X (0 .. Len(wal))
  BY DEF IInv, TypeOK, Stored
<1>2. /\ DOMAIN topic = 1 .. n /\ DOMAIN topic' = 1 .. (n + 1)
      /\ \A b \in 1 .. n : topic'[b] = topic[b]
      /\ topic'[n + 1] = <<cursor, end>>
  BY <1>1 DEF Store, TypeOK
<1>3. topic' \in Seq((0 .. Len(wal)) \X (0 .. Len(wal)))
  BY <1>1 DEF Store, TypeOK
<1>4. sent' = IF end > sent THEN end ELSE sent
  BY <1>1, MaxOfTwo DEF Store, TypeOK
<1>5. \A i \in 1 .. Len(wal) : Delivered(i) => Delivered(i)'
  BY <1>1, <1>2 DEF Delivered
<1>6. AllDelivered(cursor)'
  BY <1>1, <1>5 DEF IInv, TypeOK, Confirmed, AllDelivered
<1>7. ASSUME NEW i \in (cursor + 1) .. end PROVE Delivered(i)'
  <2>1. n + 1 \in DOMAIN topic' /\ cursor < i /\ i <= end
    BY <1>1, <1>2 DEF TypeOK
  <2>2. topic'[n + 1][1] < i /\ i <= topic'[n + 1][2]
    BY <1>2, <2>1
  <2> QED BY <2>1, <2>2 DEF Delivered
<1>8. AllDelivered(end)'
  BY <1>1, <1>6, <1>7 DEF AllDelivered, TypeOK
<1>9. TopicIsSent'
  <2>1. sent <= sent' /\ end <= sent'
    BY <1>1, <1>4 DEF TypeOK
  <2>2. ASSUME NEW b \in 1 .. n PROVE topic'[b][2] <= sent'
    <3>1. topic'[b][2] <= sent /\ topic'[b][2] \in 0 .. Len(wal)
      BY <1>1, <1>2 DEF IInv, TopicIsSent
    <3>2. {sent, sent', Len(wal)} \subseteq Nat
      BY <1>1, <1>4 DEF TypeOK
    <3> QED BY <2>1, <3>1, <3>2
  <2>3. topic'[n + 1][2] <= sent'
    BY <1>2, <2>1
  <2> QED BY <1>1, <1>2, <2>2, <2>3 DEF TopicIsSent
<1>10. NoGap'
  <2>1. ASSUME NEW b \in 1 .. n, NEW i \in 1 .. topic[b][1], wal[i] # Spoiled
        PROVE  \E a \in 1 .. (b - 1) : topic'[a][1] < i /\ i <= topic'[a][2]
    <3>1. b \in DOMAIN topic
      BY <1>1
    <3>2. PICK a \in 1 .. (b - 1) : topic[a][1] < i /\ i <= topic[a][2]
      BY <2>1, <3>1 DEF IInv, NoGap
    <3>3. a \in 1 .. n /\ topic'[a] = topic[a]
      BY <1>1, <1>2
    <3> QED BY <3>2, <3>3
  <2>2. ASSUME NEW i \in 1 .. cursor, wal[i] # Spoiled
        PROVE  \E a \in 1 .. n : topic'[a][1] < i /\ i <= topic'[a][2]
    BY <1>1, <1>2, <2>2 DEF IInv, Confirmed, AllDelivered, Delivered
  <2>3. ASSUME NEW b \in DOMAIN topic', NEW i \in 1 .. topic'[b][1], wal'[i] # Spoiled
        PROVE  \E a \in 1 .. (b - 1) : topic'[a][1] < i /\ i <= topic'[a][2]
    <3>1. wal'[i] = wal[i]
      OBVIOUS
    <3>2. CASE b \in 1 .. n
      BY <1>2, <2>1, <2>3, <3>1, <3>2
    <3>3. CASE b = n + 1
      BY <1>1, <1>2, <2>2, <2>3, <3>1, <3>3
    <3> QED BY <1>1, <1>2, <3>2, <3>3
  <2> QED BY <2>3 DEF NoGap
<1> QED BY <1>3, <1>4, <1>5, <1>6, <1>8, <1>9, <1>10

\* The batch is stored, whether the sender hears of it or not.
LEMMA SendKeepsIInv == ASSUME IInv, Send \/ SendReplyLost PROVE IInv'
<1> USE DEF file, Fault, Rest, Send, SendReplyLost
<1>1. /\ pc = "send" /\ Store /\ UNCHANGED <<wal, cursor, end, seq, torn, gone, by>>
      /\ pc' = "mark" \/ pc' = "rest"
      /\ proc' = IF pc' = "rest" /\ proc = "final" THEN "stopped" ELSE proc
      /\ faults' \in {faults, faults + 1}
  BY DEF IInv, TypeOK
<1>2. /\ topic' \in Seq((0 .. Len(wal)) \X (0 .. Len(wal)))
      /\ sent' = IF end > sent THEN end ELSE sent
      /\ AllDelivered(cursor)' /\ AllDelivered(end)'
      /\ TopicIsSent' /\ NoGap'
      /\ \A i \in 1 .. Len(wal) : Delivered(i) => Delivered(i)'
  BY <1>1, StoreGrows
<1>3. TypeOK'
  BY <1>1, <1>2 DEF IInv, TypeOK
<1>4. (Confirmed /\ Stored)'
  BY <1>1, <1>2 DEF IInv, TypeOK, Confirmed, Stored
<1>5. ScannerIsAlone'
  BY <1>1 DEF IInv, TypeOK, ScannerIsAlone
<1>6. RemovedIsDelivered'
  BY <1>1, <1>2 DEF IInv, RemovedIsDelivered
<1> QED BY <1>2, <1>3, <1>4, <1>5, <1>6 DEF IInv

\* The cursor moves to the end of a delivered batch.
LEMMA MarkSentKeepsIInv == ASSUME IInv, MarkSent PROVE IInv'
<1> USE DEF file, MarkSent
<1>1. TypeOK'
  BY DEF IInv, TypeOK
<1>2. (Confirmed /\ Stored)'
  BY DEF IInv, Confirmed, Stored, AllDelivered, Delivered
<1>3. (TopicIsSent /\ NoGap)'
  BY DEF IInv, TopicIsSent, NoGap
<1>4. ScannerIsAlone'
  BY DEF IInv, TypeOK, ScannerIsAlone
<1>5. RemovedIsDelivered'
  BY DEF IInv, RemovedIsDelivered, Delivered
<1> QED BY <1>1, <1>2, <1>3, <1>4, <1>5 DEF IInv

\* The files go when everything has been delivered.
LEMMA RemoveKeepsIInv == ASSUME IInv, Remove PROVE IInv'
<1> USE DEF file, Remove
<1>1. TypeOK'
  BY DEF IInv, TypeOK
<1>2. (Confirmed /\ Stored)'
  BY DEF IInv, Confirmed, Stored, AllDelivered, Delivered
<1>3. (TopicIsSent /\ NoGap)'
  BY DEF IInv, TopicIsSent, NoGap
<1>4. ScannerIsAlone'
  BY DEF IInv, TypeOK, ScannerIsAlone
<1>5. RemovedIsDelivered'
  BY DEF IInv, Stored, AllDelivered, RemovedIsDelivered, Delivered
<1> QED BY <1>1, <1>2, <1>3, <1>4, <1>5 DEF IInv

LEMMA NextKeepsIInv == ASSUME IInv, [Next]_vars PROVE IInv'
<1>1. CASE UNCHANGED vars
  BY <1>1 DEF vars, IInv, TypeOK, Confirmed, Stored, AllDelivered, Delivered, TopicIsSent,
     ScannerIsAlone, NoGap, RemovedIsDelivered
<1>2. CASE Emitters
  BY <1>2, AppendLineKeepsIInv, ReturnsKeepIInv DEF Emitters
<1>3. CASE Draining
  BY <1>3, ReturnsKeepIInv, ReadKeepsIInv, MarkSentKeepsIInv, RemoveKeepsIInv DEF Draining
<1>4. CASE Send
  BY <1>4, SendKeepsIInv
<1>5. CASE Failures
  BY <1>5, ReturnsKeepIInv, SendKeepsIInv DEF Failures
<1> QED BY <1>1, <1>2, <1>3, <1>4, <1>5 DEF Next

\* IInv is an invariant.
LEMMA Invariance == Spec => []IInv
  BY InitIInv, NextKeepsIInv, PTL DEF Spec

-------------------------------------------------------------------------------
(* Every step is a step of AuditLog or leaves its variables alone.           *)

Spoilt == {i \in 1 .. Len(wal) : wal[i] = Spoiled}

LEMMA AppendLineAccepts == ASSUME IInv, AppendLine PROVE Log!Accept
<1>1. Len(wal') = Len(wal) + 1 /\ Len(wal) \in Nat
  BY DEF IInv, TypeOK, AppendLine
<1>2. \A i \in 1 .. Len(wal) : wal'[i] = wal[i]
  BY DEF IInv, TypeOK, AppendLine
<1>3. Spoilt' \in {Spoilt, Spoilt \cup {Len(wal) + 1}}
  <2>1. \A i : i \in 1 .. Len(wal') <=> i \in 1 .. Len(wal) \/ i = Len(wal) + 1
    BY <1>1
  <2>2. CASE wal'[Len(wal) + 1] = Spoiled
    BY <1>1, <1>2, <2>1, <2>2 DEF Spoilt
  <2>3. CASE wal'[Len(wal) + 1] # Spoiled
    BY <1>1, <1>2, <2>1, <2>3 DEF Spoilt
  <2> QED BY <2>2, <2>3
<1>4. ~ gone
  BY DEF IInv, ScannerIsAlone, AppendLine
<1> QED BY <1>1, <1>3, <1>4 DEF Log!Accept, Spoilt, AppendLine

LEMMA SendDelivers == ASSUME IInv, Send \/ SendReplyLost PROVE Log!Deliver
<1>1. pc = "send" /\ Store /\ UNCHANGED <<wal, cursor, gone>>
  BY DEF Send, SendReplyLost, file
<1>2. end \in (cursor + 1) .. Len(wal) /\ ~ gone
  BY <1>1 DEF IInv, TypeOK, Stored, ScannerIsAlone
<1>3. sent' = IF end > sent THEN end ELSE sent
  BY <1>1, MaxOfTwo DEF IInv, TypeOK, Store
<1> QED BY <1>1, <1>2, <1>3 DEF Log!Deliver, Store

LEMMA MarkSentConfirms == ASSUME IInv, MarkSent PROVE Log!Confirm
<1>1. cursor' \in (cursor + 1) .. sent
  BY DEF IInv, TypeOK, Stored, MarkSent
<1> QED BY <1>1 DEF Log!Confirm, MarkSent, file

LEMMA RemoveDiscards == ASSUME IInv, Remove PROVE Log!Discard
<1>1. ASSUME NEW i \in (sent + 1) .. Len(wal) PROVE wal[i] = Spoiled
  <2>1. i \in 1 .. Len(wal) /\ ~ (i <= sent)
    BY DEF IInv, TypeOK
  <2>2. \A b \in DOMAIN topic : topic[b][2] \in Nat /\ topic[b][2] <= sent
    BY DEF IInv, TypeOK, TopicIsSent
  <2>3. ~ Delivered(i)
    <3>1. SUFFICES ASSUME NEW b \in DOMAIN topic, i <= topic[b][2] PROVE FALSE
      BY DEF Delivered
    <3> QED BY <2>1, <2>2, <3>1 DEF IInv, TypeOK
  <2> QED BY <2>1, <2>3 DEF IInv, Stored, AllDelivered, Remove
<1>2. (sent + 1) .. Len(wal) \subseteq {i \in 1 .. Len(wal) : wal[i] = Spoiled}
  BY <1>1 DEF IInv, TypeOK
<1> QED BY <1>2 DEF Log!Discard, Remove, file

LEMMA NextImplementsLog == ASSUME IInv, [Next]_vars PROVE [Log!Next]_(Log!vars)
<1>1. CASE AppendLine
  BY <1>1, AppendLineAccepts DEF Log!Next
<1>2. CASE Send \/ SendReplyLost
  BY <1>2, SendDelivers DEF Log!Next
<1>3. CASE MarkSent
  BY <1>3, MarkSentConfirms DEF Log!Next
<1>4. CASE Remove
  BY <1>4, RemoveDiscards DEF Log!Next
<1>5. CASE \/ AppendFails \/ Shutdown \/ OwnerDrains \/ ScannerDrains \/ Read
           \/ Exit \/ SendRefused \/ MarkFails \/ ScannerDies \/ UNCHANGED vars
  BY <1>5 DEF AppendFails, Shutdown, OwnerDrains, ScannerDrains, Read, Exit, SendRefused,
     MarkFails, ScannerDies, vars, file, Log!vars
<1> QED BY <1>1, <1>2, <1>3, <1>4, <1>5 DEF Next, Emitters, Draining, Failures

-------------------------------------------------------------------------------
(* Theorems.                                                                 *)

\* The lines of the file are numbered without holes: a line that was torn takes
\* the number of the event that continues it, and a failed append none
\* (wal.go:38-74).
THEOREM TypeCorrect == Spec => []TypeOK
  BY Invariance, PTL DEF IInv

\* The topic receives the events in the order of Seq and without a gap, whatever
\* is torn, lost or sent twice (sender.go:242).
THEOREM TopicHasNoGap == Spec => []NoGap
  BY Invariance, PTL DEF IInv

\* A scanner removes the files of a dead run only when every readable line of
\* them has been delivered (sender.go:307-317).
THEOREM RemovedAfterDelivery == Spec => []RemovedIsDelivered
  BY Invariance, PTL DEF IInv

\* The file, the cursor and the sender implement the at-least-once log of AuditLog,
\* through crashes, lost replies and failed writes (wal.go:119-228, sender.go:225-320).
THEOREM LogIsImplemented == Spec => ImplementsLog
<1>1. Init => Log!Init
  <2>1. Len(<<>>) = 0 /\ {i \in 1 .. 0 : <<>>[i] = Spoiled} = {}
    OBVIOUS
  <2> QED BY <2>1 DEF Init, Log!Init
<1> QED BY <1>1, NextImplementsLog, Invariance, PTL DEF Spec, ImplementsLog, Log!Spec
===============================================================================
