------------------------- MODULE SessionHistory_proofs -------------------------
(***************************************************************************)
(* The history of a chat and its record, for any number of chats, turns,   *)
(* sessions and faults and any number of turns kept by a compaction.       *)
(*                                                                         *)
(* The argument: a history that begins with a user message and has fitting *)
(* neighbours (Ready) stays so when a whole turn is added or everything    *)
(* before a user message is cut.  A file that lost no line and had one     *)
(* writer, with what is still to be written to it, is such a history too,  *)
(* and the kept part of the chat is its end (Recorded).                    *)
(***************************************************************************)
EXTENDS SessionHistory, FiniteSetTheorems, SequenceTheorems, WellFoundedInduction, TLAPS

Messages == [role : {"user", "assistant", "call", "tool"}, turn : Nat, call : Nat,
             covers : SUBSET Nat]
Lines == Messages \cup {Torn, Spoiled}

\* k may follow m.
Fits(m, k) ==
    /\ ~ (IsUser(m) /\ IsUser(k))
    /\ (k.role = "tool") <=> IsCall(m)
    /\ IsCall(m) => k.call = m.call

\* A history to which the next user message can be added.
Ready(h) ==
    /\ h # <<>> => IsUser(h[1]) /\ ~ IsUser(h[Len(h)]) /\ ~ IsCall(h[Len(h)])
    /\ \A i \in 1 .. Len(h) - 1 : Fits(h[i], h[i + 1])

\* s is the end of t.
Ends(s, t) ==
    /\ Len(s) <= Len(t)
    /\ \A n \in 1 .. Len(s) : s[n] = t[Len(t) - Len(s) + n]

-------------------------------------------------------------------------------
(* The invariant.                                                          *)

Types ==
    /\ at \in [Chats -> {"off", "prompt", "record"}]
    /\ history \in [Chats -> Seq(Messages)]
    /\ queue \in [Chats -> Seq(Messages)]
    /\ id \in [Chats -> SessionIDs \cup {NoID}]
    /\ files \in [SessionIDs -> Seq(Lines)]
    /\ said \in [Chats -> SUBSET Nat]
    /\ heir \in [Chats -> BOOLEAN]
    /\ clock \in Nat \ {0}
    /\ started \in 0 .. MaxTurns
    /\ unsound \subseteq SessionIDs

\* What is still to be written is the end of the history.
QueueIsLast ==
    \A c \in Chats :
        /\ at[c] = "off" <=> id[c] = NoID
        /\ queue[c] # <<>> => at[c] = "record"
        /\ Ends(queue[c], history[c])

TornIsLast == \A i \in SessionIDs : \A n \in 1 .. Len(files[i]) - 1 : files[i][n] # Torn

\* An ID that two chats have is known to be unsound.
SharedIsUnsound ==
    \A c, d \in Chats : c # d /\ id[c] = id[d] /\ id[c] # NoID => id[c] \in unsound

\* The session IDs that are taken: those of a file or of a turn to be written.
Taken == {i \in SessionIDs : Exists(i)} \cup {id[c] : c \in {d \in Chats : queue[d] # <<>>}}

\* Each of them has cost a turn, so that newSessionID finds a free suffix.
IDsSuffice == IsFiniteSet(Taken) /\ Cardinality(Taken) <= started

HistoryIsReady ==
    \A c \in Chats :
        /\ heir[c] => id[c] \in unsound
        /\ ~ heir[c] => Ready(history[c])

Remembered == \A c \in Chats : Covered(history[c]) = said[c]

\* What the file of chat c will be when its turn is written.
Whole(c) == files[id[c]] \o queue[c]

\* A sound file is a history that a chat can go on with, at any time when no chat
\* writes to it.
SoundIsReady ==
    \A i \in SessionIDs \ unsound :
        /\ files[i] \in Seq(Messages)
        /\ (\A c \in Chats : id[c] # i) => Ready(files[i])

Recorded ==
    \A c \in Chats :
        id[c] \in SessionIDs \ unsound =>
            /\ Ready(Whole(c))
            /\ Covered(Whole(c)) = said[c]
            /\ history[c] # <<>> => Ends(Tail(history[c]), Whole(c))

IInv ==
    /\ Types
    /\ QueueIsLast
    /\ TornIsLast
    /\ SharedIsUnsound
    /\ IDsSuffice
    /\ HistoryIsReady
    /\ Remembered
    /\ SoundIsReady
    /\ Recorded

-------------------------------------------------------------------------------
(* Numbers and sets.                                                       *)

\* A set of numbers that is not empty has a smallest one.
LEMMA Smallest ==
    ASSUME NEW S \in SUBSET Nat, S # {}
    PROVE  \E m \in S : \A k \in S : m <= k
<1>1. PICK m \in S : \A k \in S : ~ (<<k, m>> \in OpToRel(<, Nat))
  BY NatLessThanWellFounded, WFMin
<1>2. \A k \in S : ~ (k < m)
  BY <1>1 DEF OpToRel
<1> QED BY <1>2

\* Nth picks a member.
LEMMA NthExists ==
    ASSUME NEW S \in SUBSET Nat, IsFiniteSet(S)
    PROVE  \A k \in 1 .. Cardinality(S) : Nth(S, k) \in S
<1> DEFINE UpTo(n) == {m \in S : m <= n}
           Missed  == {k \in Nat : 1 <= k /\ k <= Cardinality(S)
                                   /\ \A n \in S : Cardinality(UpTo(n)) # k}
<1>1. \A n : IsFiniteSet(UpTo(n))
  BY FS_Subset
<1>2. Cardinality(S) \in Nat
  BY FS_CardinalityType
<1>3. ASSUME Missed # {} PROVE FALSE
  <2>1. Missed \in SUBSET Nat
    OBVIOUS
  <2>2. PICK k \in Missed : \A j \in Missed : k <= j
    <3> HIDE DEF Missed
    <3> QED BY <1>3, <2>1, Smallest
  <2>3. CASE k = 1
    <3>1. S # {}
      BY <2>2, FS_EmptySet
    <3>2. PICK n \in S : \A m \in S : n <= m
      BY <3>1, Smallest
    <3>3. UpTo(n) = {n}
      <4>1. \A m : m \in UpTo(n) <=> m = n
        <5>1. \A m \in S : m <= n <=> m = n
          BY <3>2
        <5> QED BY <5>1
      <4> HIDE DEF UpTo
      <4> QED BY <4>1
    <3>4. Cardinality(UpTo(n)) = 1
      BY <3>3, FS_Singleton
    <3> QED BY <2>2, <2>3, <3>4
  <2>4. CASE k # 1
    <3>1. k - 1 \notin Missed /\ k - 1 \in Nat /\ k - 1 >= 1 /\ k <= Cardinality(S)
      BY <1>2, <2>2, <2>4
    <3>2. PICK n \in S : Cardinality(UpTo(n)) = k - 1
      BY <3>1, <1>2
    <3> DEFINE Rest == S \ UpTo(n)
    <3>3. Rest # {}
      <4>1. SUFFICES ASSUME Rest = {} PROVE FALSE
        OBVIOUS
      <4>2. UpTo(n) = S
        BY <4>1
      <4>3. Cardinality(S) = k - 1
        BY <3>2, <4>2
      <4> QED BY <1>2, <2>2, <3>1, <4>3
    <3>4. PICK r \in Rest : \A m \in Rest : r <= m
      <4>1. Rest \in SUBSET Nat
        OBVIOUS
      <4> QED BY <3>3, <4>1, Smallest
    <3>5. UpTo(r) = UpTo(n) \cup {r} /\ r \notin UpTo(n)
      <4>1. \A m \in S : m <= r <=> m <= n \/ m = r
        <5>1. r \in Nat /\ n \in Nat /\ ~ (r <= n) /\ \A m \in S : m \in Nat
          BY <3>4
        <5>2. \A m \in S : m <= n \/ r <= m
          BY <3>4
        <5> QED BY <5>1, <5>2
      <4>2. \A m : m \in UpTo(r) <=> m \in UpTo(n) \/ m = r
        BY <4>1
      <4>3. r \notin UpTo(n)
        OBVIOUS
      <4> HIDE DEF UpTo
      <4> QED BY <4>2, <4>3
    <3>6. Cardinality(UpTo(r)) = k
      <4>1. IsFiniteSet(UpTo(n)) /\ Cardinality(UpTo(n)) \in Nat
        BY <1>1, FS_CardinalityType
      <4>2. Cardinality(UpTo(n) \cup {r}) = Cardinality(UpTo(n)) + 1
        <5> HIDE DEF UpTo
        <5> QED BY <3>5, <4>1, FS_AddElement
      <4>3. Cardinality(UpTo(r)) = Cardinality(UpTo(n)) + 1
        BY <3>5, <4>2
      <4> QED BY <2>2, <3>2, <4>3
    <3> QED BY <2>2, <3>4, <3>6
  <2> QED BY <2>3, <2>4
<1>4. ASSUME NEW k \in 1 .. Cardinality(S) PROVE Nth(S, k) \in S
  <2>1. k \in Nat /\ 1 <= k /\ k <= Cardinality(S)
    BY <1>2
  <2>2. k \notin Missed
    BY <1>3
  <2>3. \E n \in S : Cardinality(UpTo(n)) = k
    BY <2>1, <2>2
  <2> QED BY <2>3 DEF Nth
<1> QED BY <1>4

\* In a set without a gap the k-th member is k.
LEMMA NthOfInterval ==
    ASSUME NEW n \in Nat, NEW k \in 1 .. n
    PROVE  Nth(1 .. n, k) = k
<1>1. \A j \in 1 .. n : {m \in 1 .. n : m <= j} = 1 .. j
  OBVIOUS
<1>2. \A j \in 1 .. n : Cardinality(1 .. j) = j
  BY FS_Interval
<1>3. \A j \in 1 .. n : Cardinality({m \in 1 .. n : m <= j}) = j
  BY <1>1, <1>2
<1> QED BY <1>3 DEF Nth

-------------------------------------------------------------------------------
(* Histories.                                                              *)

LEMMA LinesAreTold ==
    /\ \A m \in Messages : m # Torn /\ m # Spoiled
    /\ Torn # Spoiled
<1>1. ASSUME NEW m \in Messages PROVE m # Torn /\ m # Spoiled
  <2>1. m.role \in {"user", "assistant", "call", "tool"}
    BY DEF Messages
  <2>2. Torn.role = "torn" /\ Spoiled.role = "spoiled"
    BY DEF Torn, Spoiled
  <2> QED BY <2>1, <2>2
<1>2. Torn # Spoiled
  BY DEF Torn, Spoiled
<1> QED BY <1>1, <1>2

LEMMA CoveredBy ==
    ASSUME NEW h \in Seq(Messages), NEW x
    PROVE  x \in Covered(h) <=> \E i \in 1 .. Len(h) : x \in h[i].covers
  BY DEF Covered

LEMMA CoveredTurns ==
    ASSUME NEW h \in Seq(Messages)
    PROVE  Covered(h) \in SUBSET Nat
<1>1. \A m \in Messages : m.covers \in SUBSET Nat
  BY DEF Messages
<1>2. \A i \in 1 .. Len(h) : h[i] \in Messages
  OBVIOUS
<1> QED BY <1>1, <1>2, CoveredBy

LEMMA CoveredConcat ==
    ASSUME NEW h \in Seq(Messages), NEW g \in Seq(Messages)
    PROVE  Covered(h \o g) = Covered(h) \cup Covered(g)
<1>1. /\ Len(h \o g) = Len(h) + Len(g) /\ DOMAIN (h \o g) = 1 .. Len(h) + Len(g)
      /\ \A i \in 1 .. Len(h) + Len(g) :
             (h \o g)[i] = IF i <= Len(h) THEN h[i] ELSE g[i - Len(h)]
  BY ConcatProperties, LenProperties
<1>2. DOMAIN h = 1 .. Len(h) /\ DOMAIN g = 1 .. Len(g) /\ Len(h) \in Nat /\ Len(g) \in Nat
  OBVIOUS
<1>3. ASSUME NEW x \in Covered(h \o g) PROVE x \in Covered(h) \cup Covered(g)
  <2>1. PICK i \in 1 .. Len(h) + Len(g) : x \in (h \o g)[i].covers
    BY <1>1, <1>3 DEF Covered
  <2>2. CASE i <= Len(h)
    BY <1>1, <1>2, <2>1, <2>2 DEF Covered
  <2>3. CASE ~ (i <= Len(h))
    <3>1. i - Len(h) \in 1 .. Len(g) /\ x \in g[i - Len(h)].covers
      BY <1>1, <1>2, <2>1, <2>3
    <3> QED BY <1>2, <3>1 DEF Covered
  <2> QED BY <2>2, <2>3
<1>4. ASSUME NEW x \in Covered(h) PROVE x \in Covered(h \o g)
  <2>1. PICK i \in 1 .. Len(h) : x \in h[i].covers
    BY <1>2, <1>4 DEF Covered
  <2>2. i \in 1 .. Len(h) + Len(g) /\ (h \o g)[i] = h[i]
    BY <1>1, <1>2, <2>1
  <2> QED BY <1>1, <2>1, <2>2 DEF Covered
<1>5. ASSUME NEW x \in Covered(g) PROVE x \in Covered(h \o g)
  <2>1. PICK i \in 1 .. Len(g) : x \in g[i].covers
    BY <1>2, <1>5 DEF Covered
  <2>2. i + Len(h) \in 1 .. Len(h) + Len(g) /\ (h \o g)[i + Len(h)] = g[i]
    BY <1>1, <1>2, <2>1
  <2> QED BY <1>1, <2>1, <2>2 DEF Covered
<1> QED BY <1>3, <1>4, <1>5

LEMMA ReadyConcat ==
    ASSUME NEW h \in Seq(Messages), NEW g \in Seq(Messages), Ready(h), Ready(g)
    PROVE  Ready(h \o g)
<1>1. /\ h \o g \in Seq(Messages) /\ Len(h \o g) = Len(h) + Len(g)
      /\ \A i \in 1 .. Len(h) + Len(g) :
             (h \o g)[i] = IF i <= Len(h) THEN h[i] ELSE g[i - Len(h)]
  BY ConcatProperties
<1>2. Len(h) \in Nat /\ Len(g) \in Nat
  OBVIOUS
<1>3. CASE h = <<>> \/ g = <<>>
  BY <1>3, ConcatEmptySeq
<1>4. CASE h # <<>> /\ g # <<>>
  <2>1. Len(h) > 0 /\ Len(g) > 0
    BY <1>4, EmptySeq
  <2>2. IsUser((h \o g)[1])
    BY <1>1, <1>2, <1>4, <2>1 DEF Ready
  <2>3. (h \o g)[Len(h \o g)] = g[Len(g)]
    BY <1>1, <1>2, <2>1
  <2>4. ASSUME NEW i \in 1 .. Len(h \o g) - 1
        PROVE  Fits((h \o g)[i], (h \o g)[i + 1])
    <3>1. CASE i < Len(h)
      <4>1. (h \o g)[i] = h[i] /\ (h \o g)[i + 1] = h[i + 1] /\ i \in 1 .. Len(h) - 1
        BY <1>1, <1>2, <2>4, <3>1
      <4> QED BY <4>1 DEF Ready
    <3>2. CASE i = Len(h)
      <4>1. (h \o g)[i] = h[Len(h)] /\ (h \o g)[i + 1] = g[1]
        BY <1>1, <1>2, <2>1, <3>2
      <4>2. IsUser(g[1]) /\ ~ IsUser(h[Len(h)]) /\ ~ IsCall(h[Len(h)])
        BY <1>4 DEF Ready
      <4> QED BY <4>1, <4>2 DEF Fits, IsUser, IsCall
    <3>3. CASE i > Len(h)
      <4>1. /\ (h \o g)[i] = g[i - Len(h)] /\ (h \o g)[i + 1] = g[(i - Len(h)) + 1]
            /\ i - Len(h) \in 1 .. Len(g) - 1
        BY <1>1, <1>2, <2>4, <3>3
      <4> QED BY <4>1 DEF Ready
    <3> QED BY <1>2, <2>4, <3>1, <3>2, <3>3
  <2>5. ~ IsUser(g[Len(g)]) /\ ~ IsCall(g[Len(g)])
    BY <1>4 DEF Ready
  <2> QED BY <2>2, <2>3, <2>4, <2>5 DEF Ready
<1> QED BY <1>3, <1>4

LEMMA EmptyIsReady == Ready(<<>>) /\ Covered(<<>>) = {}
  BY DEF Ready, Covered

LEMMA EndsOfConcat ==
    ASSUME NEW S, NEW s \in Seq(S), NEW t \in Seq(S)
    PROVE  Ends(t, s \o t)
<1>1. /\ Len(s \o t) = Len(s) + Len(t)
      /\ \A i \in 1 .. Len(s) + Len(t) :
             (s \o t)[i] = IF i <= Len(s) THEN s[i] ELSE t[i - Len(s)]
  BY ConcatProperties
<1>2. Len(s) \in Nat /\ Len(t) \in Nat
  OBVIOUS
<1>3. ASSUME NEW n \in 1 .. Len(t) PROVE t[n] = (s \o t)[Len(s \o t) - Len(t) + n]
  <2>1. Len(s \o t) - Len(t) + n = Len(s) + n /\ Len(s) + n \in 1 .. Len(s) + Len(t)
    BY <1>1, <1>2, <1>3
  <2>2. ~ (Len(s) + n <= Len(s)) /\ Len(s) + n - Len(s) = n
    BY <1>2, <1>3
  <2> QED BY <1>1, <2>1, <2>2
<1> QED BY <1>1, <1>2, <1>3 DEF Ends

LEMMA EndsConcat ==
    ASSUME NEW S, NEW s \in Seq(S), NEW t \in Seq(S), NEW u \in Seq(S), Ends(s, t)
    PROVE  Ends(s \o u, t \o u)
<1>1. /\ Len(s \o u) = Len(s) + Len(u) /\ Len(t \o u) = Len(t) + Len(u)
      /\ \A i \in 1 .. Len(s) + Len(u) :
             (s \o u)[i] = IF i <= Len(s) THEN s[i] ELSE u[i - Len(s)]
      /\ \A i \in 1 .. Len(t) + Len(u) :
             (t \o u)[i] = IF i <= Len(t) THEN t[i] ELSE u[i - Len(t)]
  BY ConcatProperties
<1>2. Len(s) \in Nat /\ Len(t) \in Nat /\ Len(u) \in Nat /\ Len(s) <= Len(t)
  BY DEF Ends
<1>3. ASSUME NEW n \in 1 .. Len(s) + Len(u)
      PROVE  (s \o u)[n] = (t \o u)[Len(t) - Len(s) + n]
  <2>1. Len(t) - Len(s) + n \in 1 .. Len(t) + Len(u)
    BY <1>2, <1>3
  <2>2. CASE n <= Len(s)
    <3>1. Len(t) - Len(s) + n <= Len(t) /\ n \in 1 .. Len(s)
      BY <1>2, <1>3, <2>2
    <3>2. s[n] = t[Len(t) - Len(s) + n]
      BY <3>1 DEF Ends
    <3> QED BY <1>1, <1>3, <2>1, <2>2, <3>1, <3>2
  <2>3. CASE ~ (n <= Len(s))
    <3>1. ~ (Len(t) - Len(s) + n <= Len(t)) /\ Len(t) - Len(s) + n - Len(t) = n - Len(s)
      BY <1>2, <1>3, <2>3
    <3> QED BY <1>1, <1>3, <2>1, <2>3, <3>1
  <2> QED BY <2>2, <2>3
<1>4. Len(t \o u) - Len(s \o u) = Len(t) - Len(s) /\ Len(s \o u) <= Len(t \o u)
  BY <1>1, <1>2
<1> QED BY <1>1, <1>3, <1>4 DEF Ends

LEMMA EndsTrans ==
    ASSUME NEW S, NEW r \in Seq(S), NEW s \in Seq(S), NEW t \in Seq(S),
           Ends(r, s), Ends(s, t)
    PROVE  Ends(r, t)
<1>1. /\ Len(r) \in Nat /\ Len(s) \in Nat /\ Len(t) \in Nat
      /\ Len(r) <= Len(s) /\ Len(s) <= Len(t)
  BY DEF Ends
<1>2. ASSUME NEW n \in 1 .. Len(r) PROVE r[n] = t[Len(t) - Len(r) + n]
  <2> DEFINE k == Len(s) - Len(r) + n
  <2>1. k \in 1 .. Len(s) /\ Len(t) - Len(s) + k = Len(t) - Len(r) + n
    BY <1>1, <1>2
  <2>2. r[n] = s[k] /\ s[k] = t[Len(t) - Len(s) + k]
    BY <1>2, <2>1 DEF Ends
  <2> QED BY <2>1, <2>2
<1> QED BY <1>1, <1>2 DEF Ends

LEMMA EndsTail ==
    ASSUME NEW S, NEW t \in Seq(S), t # <<>>
    PROVE  Tail(t) \in Seq(S) /\ Ends(Tail(t), t)
<1>1. /\ Tail(t) \in Seq(S) /\ Len(Tail(t)) = Len(t) - 1 /\ Len(t) \in Nat
      /\ \A n \in 1 .. Len(Tail(t)) : Tail(t)[n] = t[n + 1]
  BY HeadTailProperties, LenProperties
<1>2. \A n \in 1 .. Len(Tail(t)) : Len(t) - Len(Tail(t)) + n = n + 1
  BY <1>1
<1> QED BY <1>1, <1>2 DEF Ends

LEMMA EndsIsSuffix ==
    ASSUME NEW S, NEW s \in Seq(S), NEW t \in Seq(S), Ends(s, t)
    PROVE  IsSuffix(s, t)
<1> DEFINE rs == Reverse(s)
           rt == Reverse(t)
<1>1. Len(s) \in Nat /\ Len(t) \in Nat /\ Len(s) <= Len(t)
  BY DEF Ends
<1>2. /\ rs \in Seq(S) /\ Len(rs) = Len(s)
      /\ \A n \in 1 .. Len(s) : rs[n] = s[(Len(s) - n) + 1]
      /\ rt \in Seq(S) /\ Len(rt) = Len(t)
      /\ \A n \in 1 .. Len(t) : rt[n] = t[(Len(t) - n) + 1]
  BY <1>1 DEF Reverse
<1>3. ASSUME NEW n \in 1 .. Len(s) PROVE rs[n] = rt[n]
  <2>1. (Len(s) - n) + 1 \in 1 .. Len(s) /\ n \in 1 .. Len(t)
    BY <1>1, <1>3
  <2>2. s[(Len(s) - n) + 1] = t[Len(t) - Len(s) + ((Len(s) - n) + 1)]
    BY <2>1 DEF Ends
  <2>3. Len(t) - Len(s) + ((Len(s) - n) + 1) = (Len(t) - n) + 1
    BY <1>1, <1>3
  <2> QED BY <1>2, <2>1, <2>2, <2>3
<1> HIDE DEF rs, rt
<1>4. /\ SubSeq(rs, 1, Len(s)) \in Seq(S) /\ Len(SubSeq(rs, 1, Len(s))) = Len(s)
      /\ \A n \in 1 .. Len(s) : SubSeq(rs, 1, Len(s))[n] = rs[n]
      /\ SubSeq(rt, 1, Len(s)) \in Seq(S) /\ Len(SubSeq(rt, 1, Len(s))) = Len(s)
      /\ \A n \in 1 .. Len(s) : SubSeq(rt, 1, Len(s))[n] = rt[n]
  BY <1>1, <1>2
<1>5. SubSeq(rs, 1, Len(s)) = SubSeq(rt, 1, Len(s))
  BY <1>3, <1>4, SeqEqual
<1> QED BY <1>1, <1>2, <1>5 DEF IsSuffix, IsPrefix, rs, rt

LEMMA FrontProperties ==
    ASSUME NEW S, NEW s \in Seq(S), s # <<>>
    PROVE  LET front == SubSeq(s, 1, Len(s) - 1) IN
           /\ front \in Seq(S) /\ Len(front) = Len(s) - 1
           /\ \A n \in 1 .. Len(s) - 1 : front[n] = s[n]
<1>1. PICK k \in Nat : Len(s) = k + 1
  <2>1. Len(s) \in Nat \ {0}
    BY EmptySeq
  <2> QED BY <2>1, Len(s) - 1 \in Nat
<1>2. \A n \in 1 .. k : s[n] \in S
  BY <1>1
<1>3. /\ SubSeq(s, 1, k) \in Seq(S) /\ Len(SubSeq(s, 1, k)) = IF 1 <= k THEN k - 1 + 1 ELSE 0
      /\ \A n \in 1 .. k - 1 + 1 : SubSeq(s, 1, k)[n] = s[1 + n - 1]
  BY <1>2, SubSeqProperties
<1>4. Len(s) - 1 = k /\ k - 1 + 1 = k
  BY <1>1
<1>5. Len(SubSeq(s, 1, k)) = k
  BY <1>3
<1>6. \A n \in 1 .. k : SubSeq(s, 1, k)[n] = s[n]
  BY <1>3
<1> QED BY <1>3, <1>4, <1>5, <1>6

LEMMA TailOfConcat ==
    ASSUME NEW S, NEW s \in Seq(S), NEW t \in Seq(S), s # <<>>
    PROVE  Tail(s \o t) = Tail(s) \o t
<1>1. /\ s \o t \in Seq(S) /\ Len(s \o t) = Len(s) + Len(t)
      /\ \A i \in 1 .. Len(s) + Len(t) :
             (s \o t)[i] = IF i <= Len(s) THEN s[i] ELSE t[i - Len(s)]
  BY ConcatProperties
<1>2. Len(s) \in Nat /\ Len(t) \in Nat /\ Len(s) > 0
  BY EmptySeq
<1>3. /\ Tail(s) \in Seq(S) /\ Len(Tail(s)) = Len(s) - 1
      /\ \A i \in 1 .. Len(s) - 1 : Tail(s)[i] = s[i + 1]
  BY HeadTailProperties
<1>4. s \o t # <<>>
  BY <1>1, <1>2
<1>5. /\ Tail(s \o t) \in Seq(S) /\ Len(Tail(s \o t)) = Len(s) + Len(t) - 1
      /\ \A i \in 1 .. Len(s) + Len(t) - 1 : Tail(s \o t)[i] = (s \o t)[i + 1]
  BY <1>1, <1>4, HeadTailProperties
<1>6. /\ Tail(s) \o t \in Seq(S) /\ Len(Tail(s) \o t) = Len(s) - 1 + Len(t)
      /\ \A i \in 1 .. Len(s) - 1 + Len(t) :
             (Tail(s) \o t)[i] = IF i <= Len(s) - 1 THEN Tail(s)[i] ELSE t[i - (Len(s) - 1)]
  BY <1>3, ConcatProperties
<1>7. ASSUME NEW i \in 1 .. Len(s) + Len(t) - 1 PROVE Tail(s \o t)[i] = (Tail(s) \o t)[i]
  <2>1. i + 1 \in 1 .. Len(s) + Len(t) /\ i \in 1 .. Len(s) - 1 + Len(t)
    BY <1>2, <1>7
  <2>2. CASE i <= Len(s) - 1
    BY <1>1, <1>2, <1>3, <1>5, <1>6, <1>7, <2>1, <2>2
  <2>3. CASE ~ (i <= Len(s) - 1)
    <3>1. ~ (i + 1 <= Len(s)) /\ i + 1 - Len(s) = i - (Len(s) - 1)
      BY <1>2, <1>7, <2>3
    <3> QED BY <1>1, <1>5, <1>6, <1>7, <2>1, <2>3, <3>1
  <2> QED BY <2>2, <2>3
<1> QED BY <1>2, <1>5, <1>6, <1>7, SeqEqual

\* The first of the rest moves to the end of what is before it.
LEMMA MoveHead ==
    ASSUME NEW S, NEW s \in Seq(S), NEW t \in Seq(S), t # <<>>
    PROVE  Append(s, Head(t)) \o Tail(t) = s \o t
<1>1. Head(t) \in S /\ Tail(t) \in Seq(S) /\ <<Head(t)>> \in Seq(S)
  BY HeadTailProperties
<1>2. Append(s, Head(t)) = s \o <<Head(t)>>
  BY <1>1, AppendIsConcat
<1>3. <<Head(t)>> \o Tail(t) = t
  BY ConcatSimplifications, HeadTailAppend, <1>1
<1> QED BY <1>1, <1>2, <1>3, ConcatAssociative

-------------------------------------------------------------------------------
(* Turns and compactions.                                                  *)

LEMMA JoinedTuples ==
    ASSUME NEW S, NEW u \in S, NEW a \in S, NEW b \in S, NEW d \in S
    PROVE  <<u>> \o <<a>> = <<u, a>> /\ <<u>> \o <<a, b, d>> = <<u, a, b, d>>
<1>1. /\ <<u>> \in Seq(S) /\ <<a>> \in Seq(S) /\ <<a, b, d>> \in Seq(S)
      /\ <<u, a>> \in Seq(S) /\ <<u, a, b, d>> \in Seq(S)
      /\ Len(<<u>>) = 1 /\ Len(<<a>>) = 1 /\ Len(<<a, b, d>>) = 3
      /\ Len(<<u, a>>) = 2 /\ Len(<<u, a, b, d>>) = 4
  OBVIOUS
<1>2. /\ <<u>> \o <<a>> \in Seq(S) /\ Len(<<u>> \o <<a>>) = 2
      /\ \A i \in 1 .. 2 : (<<u>> \o <<a>>)[i] = IF i <= 1 THEN u ELSE a
  BY <1>1, ConcatProperties
<1>3. /\ <<u>> \o <<a, b, d>> \in Seq(S) /\ Len(<<u>> \o <<a, b, d>>) = 4
      /\ \A i \in 1 .. 4 :
             (<<u>> \o <<a, b, d>>)[i] = IF i <= 1 THEN u ELSE <<a, b, d>>[i - 1]
  BY <1>1, ConcatProperties
<1>4. <<u>> \o <<a>> = <<u, a>>
  <2>1. \A i \in 1 .. 2 : (<<u>> \o <<a>>)[i] = <<u, a>>[i]
    <3>1. \A i \in 1 .. 2 : i = 1 \/ i = 2
      OBVIOUS
    <3> QED BY <1>2, <3>1
  <2> QED BY <1>1, <1>2, <2>1, SeqEqual
<1>5. <<u>> \o <<a, b, d>> = <<u, a, b, d>>
  <2>1. \A i \in 1 .. 4 : (<<u>> \o <<a, b, d>>)[i] = <<u, a, b, d>>[i]
    <3>1. \A i \in 1 .. 4 : i = 1 \/ i = 2 \/ i = 3 \/ i = 4
      OBVIOUS
    <3> QED BY <1>3, <3>1
  <2> QED BY <1>1, <1>3, <2>1, SeqEqual
<1> QED BY <1>4, <1>5

\* What commitTurn adds is a whole turn.
LEMMA TurnIsReady ==
    ASSUME NEW h \in Seq(Messages), NEW t \in Nat,
           NEW result \in TurnResults(h, t), result # <<>>
    PROVE  LET turn == <<User(t)>> \o result IN
           turn \in Seq(Messages) /\ turn # <<>> /\ Ready(turn) /\ Covered(turn) = {t}
<1> DEFINE n == nextAutomaticToolCallID(h)
           answer == <<User(t), Assistant(t)>>
           withCall == <<User(t), Call(t, n), Result(t, n), Assistant(t)>>
<1>1. n \in Nat
  <2>1. IsFiniteSet({i \in DOMAIN h : IsCall(h[i])})
    <3>1. IsFiniteSet(1 .. Len(h))
      BY FS_Interval
    <3> QED BY <3>1, FS_Subset
  <2> QED BY <2>1, FS_CardinalityType DEF nextAutomaticToolCallID
<1>2. /\ User(t) \in Messages /\ Assistant(t) \in Messages
      /\ Call(t, n) \in Messages /\ Result(t, n) \in Messages
  BY <1>1 DEF Messages, User, Assistant, Call, Result
<1>3. <<User(t)>> \o result \in {answer, withCall}
  <2>1. result = <<Assistant(t)>> \/ result = <<Call(t, n), Result(t, n), Assistant(t)>>
    BY DEF TurnResults
  <2>2. /\ <<User(t)>> \o <<Assistant(t)>> = answer
        /\ <<User(t)>> \o <<Call(t, n), Result(t, n), Assistant(t)>> = withCall
    <3> HIDE DEF n
    <3> QED BY <1>2, JoinedTuples
  <2> HIDE DEF answer, withCall, n
  <2> QED BY <2>1, <2>2
<1>4. /\ User(t).role = "user" /\ Assistant(t).role = "assistant"
      /\ Call(t, n).role = "call" /\ Result(t, n).role = "tool"
      /\ Call(t, n).call = Result(t, n).call
      /\ User(t).covers = {t} /\ Assistant(t).covers = {}
      /\ Call(t, n).covers = {} /\ Result(t, n).covers = {}
  BY DEF User, Assistant, Call, Result
<1> HIDE DEF n
<1>5. answer \in Seq(Messages) /\ answer # <<>> /\ Ready(answer) /\ Covered(answer) = {t}
  <2>1. /\ answer \in Seq(Messages) /\ Len(answer) = 2 /\ DOMAIN answer = 1 .. 2
        /\ answer[1] = User(t) /\ answer[2] = Assistant(t)
    BY <1>2
  <2>2. Ready(answer)
    BY <1>4, <2>1 DEF Ready, Fits, IsUser, IsCall
  <2>3. Covered(answer) = answer[1].covers \cup answer[2].covers
    BY <2>1 DEF Covered
  <2> QED BY <1>4, <2>1, <2>2, <2>3
<1>6. withCall \in Seq(Messages) /\ withCall # <<>> /\ Ready(withCall) /\ Covered(withCall) = {t}
  <2>1. /\ withCall \in Seq(Messages) /\ Len(withCall) = 4 /\ DOMAIN withCall = 1 .. 4
        /\ withCall[1] = User(t) /\ withCall[2] = Call(t, n)
        /\ withCall[3] = Result(t, n) /\ withCall[4] = Assistant(t)
    BY <1>2
  <2>2. \A i \in 1 .. 3 : Fits(withCall[i], withCall[i + 1])
    <3>1. /\ Fits(User(t), Call(t, n)) /\ Fits(Call(t, n), Result(t, n))
          /\ Fits(Result(t, n), Assistant(t))
      BY <1>4 DEF Fits, IsUser, IsCall
    <3>2. \A i \in 1 .. 3 : i = 1 \/ i = 2 \/ i = 3
      OBVIOUS
    <3> QED BY <2>1, <3>1, <3>2
  <2>3. Ready(withCall)
    <3> HIDE DEF withCall
    <3> QED BY <1>4, <2>1, <2>2 DEF Ready, IsUser, IsCall
  <2>4. Covered(withCall) =
            withCall[1].covers \cup withCall[2].covers \cup withCall[3].covers
                \cup withCall[4].covers
    <3> HIDE DEF withCall
    <3>1. DOMAIN withCall = {1, 2, 3, 4}
      BY <2>1
    <3> QED BY <3>1 DEF Covered
  <2> QED BY <1>4, <2>1, <2>3, <2>4
<1> QED BY <1>3, <1>5, <1>6

\* The cut is in front of a user message.
LEMMA CutIsUser ==
    ASSUME NEW h \in Seq(Messages)
    PROVE  cutIdx(h) # 1 => cutIdx(h) \in 2 .. Len(h) /\ IsUser(h[cutIdx(h)])
<1> DEFINE starts == userTurnStarts(h)
           turns  == Cardinality(starts)
<1>1. starts \in SUBSET Nat /\ IsFiniteSet(starts) /\ turns \in Nat
  <2>1. starts \subseteq 1 .. Len(h) /\ IsFiniteSet(1 .. Len(h))
    BY FS_Interval DEF userTurnStarts
  <2>2. starts \in SUBSET Nat /\ IsFiniteSet(starts)
    BY <2>1, FS_Subset
  <2> QED BY <2>2, FS_CardinalityType
<1>2. CASE Keep >= turns
  BY <1>2 DEF cutIdx
<1>3. CASE ~ (Keep >= turns)
  <2>1. turns - Keep + 1 \in 1 .. turns
    BY <1>1, <1>3, KeepAssumption
  <2>2. Nth(starts, turns - Keep + 1) \in starts
    <3> HIDE DEF starts
    <3> QED BY <1>1, <2>1, NthExists DEF turns
  <2>3. cutIdx(h) \in starts
    BY <1>3, <2>2 DEF cutIdx
  <2> QED BY <2>3 DEF userTurnStarts
<1> QED BY <1>2, <1>3

\* What a compaction leaves, message by message.
LEMMA CompactedMessages ==
    ASSUME NEW h \in Seq(Messages), cutIdx(h) # 1
    PROVE  LET cut == cutIdx(h)
               g   == CompactMessages(h)
           IN  /\ cut \in 2 .. Len(h) /\ IsUser(h[cut])
               /\ g \in Seq(Messages) /\ Len(g) = Len(h) - cut + 1
               /\ g[1].role = "user"
               /\ g[1].covers = h[cut].covers \cup Covered(SubSeq(h, 1, cut - 1))
               /\ \A n \in 2 .. Len(h) - cut + 1 : g[n] = h[cut + n - 1]
<1> DEFINE cut == cutIdx(h)
           front == SubSeq(h, 1, cut - 1)
           head == [h[cut] EXCEPT !.covers = @ \cup Covered(front)]
           rest == SubSeq(h, cut + 1, Len(h))
<1>1. cut \in 2 .. Len(h) /\ IsUser(h[cut]) /\ Len(h) \in Nat
  BY CutIsUser
<1>2. CompactMessages(h) = <<head>> \o rest
  BY DEF CompactMessages
<1> HIDE DEF cut
<1>3. /\ front \in Seq(Messages)
      /\ rest \in Seq(Messages) /\ Len(rest) = Len(h) - cut
      /\ \A i \in 1 .. Len(h) - cut : rest[i] = h[cut + i]
  <2>1. \A i \in 1 .. cut - 1 : h[i] \in Messages
    BY <1>1
  <2>2. \A i \in cut + 1 .. Len(h) : h[i] \in Messages
    BY <1>1
  <2>3. front \in Seq(Messages)
    BY <1>1, <2>1, SubSeqProperties
  <2>4. /\ rest \in Seq(Messages)
        /\ Len(rest) = IF cut + 1 <= Len(h) THEN Len(h) - (cut + 1) + 1 ELSE 0
        /\ \A i \in 1 .. Len(h) - (cut + 1) + 1 : rest[i] = h[cut + 1 + i - 1]
    BY <1>1, <2>2, SubSeqProperties
  <2> QED BY <1>1, <2>3, <2>4
<1>4. Covered(front) \subseteq Nat
  BY <1>3 DEF Covered, Messages
<1>5. h[cut] \in Messages
  BY <1>1
<1>6. /\ head \in Messages /\ head.role = "user"
      /\ head.covers = h[cut].covers \cup Covered(front)
  BY <1>1, <1>4, <1>5 DEF Messages, IsUser
<1> HIDE DEF head, rest, front
<1>7. /\ <<head>> \o rest \in Seq(Messages) /\ Len(<<head>> \o rest) = 1 + (Len(h) - cut)
      /\ \A n \in 1 .. 1 + (Len(h) - cut) :
             (<<head>> \o rest)[n] = IF n <= 1 THEN head ELSE rest[n - 1]
  <2>1. <<head>> \in Seq(Messages) /\ Len(<<head>>) = 1 /\ <<head>>[1] = head
    BY <1>6
  <2>2. /\ <<head>> \o rest \in Seq(Messages)
        /\ Len(<<head>> \o rest) = Len(<<head>>) + Len(rest)
        /\ \A n \in 1 .. Len(<<head>>) + Len(rest) :
               (<<head>> \o rest)[n] = IF n <= Len(<<head>>) THEN <<head>>[n]
                                       ELSE rest[n - Len(<<head>>)]
    BY <1>3, <2>1, ConcatProperties
  <2> QED BY <1>1, <1>3, <2>1, <2>2
<1>8. \A n \in 2 .. Len(h) - cut + 1 : (<<head>> \o rest)[n] = h[cut + n - 1]
  <2> TAKE n \in 2 .. Len(h) - cut + 1
  <2>1. n - 1 \in 1 .. Len(h) - cut /\ cut + (n - 1) = cut + n - 1
        /\ n \in 1 .. 1 + (Len(h) - cut) /\ ~ (n <= 1)
    BY <1>1
  <2> QED BY <1>3, <1>7, <2>1
<1>9. (<<head>> \o rest)[1] = head
  BY <1>1, <1>7
<1>10. Len(<<head>> \o rest) = Len(h) - cut + 1
  BY <1>1, <1>7
<1> QED BY <1>1, <1>2, <1>6, <1>7, <1>8, <1>9, <1>10 DEF front, cut

\* A compaction keeps the end of the history, forgets no turn and leaves a history
\* that can be gone on with.
LEMMA CompactionKeeps ==
    ASSUME NEW h \in Seq(Messages)
    PROVE  LET g == CompactMessages(h) IN
           /\ g \in Seq(Messages) /\ Covered(g) = Covered(h)
           /\ Ready(h) => Ready(g)
           /\ g = <<>> <=> h = <<>>
           /\ h # <<>> => Ends(Tail(g), Tail(h))
<1> DEFINE cut == cutIdx(h)
           g   == CompactMessages(h)
<1>1. CASE cut = 1
  <2>1. g = h
    BY <1>1 DEF CompactMessages
  <2>2. h # <<>> => Ends(Tail(h), Tail(h))
    <3>1. h # <<>> => Tail(h) \in Seq(Messages)
      BY HeadTailProperties
    <3> QED BY <3>1 DEF Ends
  <2> QED BY <2>1, <2>2
<1>2. CASE cut # 1
  <2>1. /\ cut \in 2 .. Len(h) /\ IsUser(h[cut]) /\ Len(h) \in Nat
        /\ g \in Seq(Messages) /\ Len(g) = Len(h) - cut + 1
        /\ g[1].role = "user"
        /\ g[1].covers = h[cut].covers \cup Covered(SubSeq(h, 1, cut - 1))
        /\ \A n \in 2 .. Len(h) - cut + 1 : g[n] = h[cut + n - 1]
    BY <1>2, CompactedMessages
  <2> HIDE DEF cut, g
  <2>2. Len(g) >= 1 /\ g # <<>> /\ h # <<>>
    BY <2>1
  <2>3. Covered(g) = Covered(h)
    <3> DEFINE front == SubSeq(h, 1, cut - 1)
    <3>1. /\ front \in Seq(Messages) /\ Len(front) = cut - 1
          /\ \A i \in 1 .. cut - 1 : front[i] = h[i]
      <4>1. \A i \in 1 .. cut - 1 : h[i] \in Messages
        BY <2>1
      <4>2. /\ front \in Seq(Messages)
            /\ Len(front) = IF 1 <= cut - 1 THEN cut - 1 - 1 + 1 ELSE 0
            /\ \A i \in 1 .. cut - 1 - 1 + 1 : front[i] = h[1 + i - 1]
        BY <2>1, <4>1, SubSeqProperties
      <4> HIDE DEF front
      <4> QED BY <2>1, <4>2
    <3>2. ASSUME NEW x \in Covered(g) PROVE x \in Covered(h)
      <4>1. PICK n \in 1 .. Len(g) : x \in g[n].covers
        BY <2>1, <3>2, CoveredBy
      <4>2. CASE n = 1
        <5>1. x \in h[cut].covers \/ x \in Covered(front)
          BY <2>1, <4>1, <4>2
        <5>2. x \in h[cut].covers \/ \E i \in 1 .. cut - 1 : x \in h[i].covers
          BY <3>1, <5>1, CoveredBy
        <5>3. cut \in 1 .. Len(h) /\ \A i \in 1 .. cut - 1 : i \in 1 .. Len(h)
          BY <2>1
        <5> QED BY <5>2, <5>3, CoveredBy
      <4>3. CASE n # 1
        <5>1. n \in 2 .. Len(h) - cut + 1 /\ cut + n - 1 \in 1 .. Len(h)
          BY <2>1, <4>1, <4>3
        <5>2. x \in h[cut + n - 1].covers
          BY <2>1, <4>1, <5>1
        <5> QED BY <5>1, <5>2, CoveredBy
      <4> QED BY <4>2, <4>3
    <3>3. ASSUME NEW x \in Covered(h) PROVE x \in Covered(g)
      <4>1. PICK i \in 1 .. Len(h) : x \in h[i].covers
        BY <3>3, CoveredBy
      <4>2. CASE i <= cut
        <5>1. x \in g[1].covers
          <6>1. CASE i = cut
            BY <2>1, <4>1, <6>1
          <6>2. CASE i # cut
            <7>1. i \in 1 .. cut - 1
              BY <2>1, <4>1, <4>2, <6>2
            <7>2. x \in Covered(front)
              BY <3>1, <4>1, <7>1, CoveredBy
            <7> QED BY <2>1, <7>2
          <6> QED BY <6>1, <6>2
        <5>2. 1 \in 1 .. Len(g)
          BY <2>1
        <5> QED BY <2>1, <5>1, <5>2, CoveredBy
      <4>3. CASE ~ (i <= cut)
        <5>1. i - cut + 1 \in 2 .. Len(h) - cut + 1 /\ cut + (i - cut + 1) - 1 = i
          BY <2>1, <4>1, <4>3
        <5>2. g[i - cut + 1] = h[i] /\ i - cut + 1 \in 1 .. Len(g)
          BY <2>1, <5>1
        <5>3. x \in g[i - cut + 1].covers
          BY <4>1, <5>2
        <5> QED BY <2>1, <5>2, <5>3, CoveredBy
      <4> QED BY <4>2, <4>3
    <3> QED BY <3>2, <3>3
  <2>4. ASSUME Ready(h) PROVE Ready(g)
    <3>1. ASSUME NEW n \in 1 .. Len(g) - 1 PROVE Fits(g[n], g[n + 1])
      <4>1. g[n + 1] = h[cut + n] /\ cut + n - 1 \in 1 .. Len(h) - 1 /\ cut + n - 1 + 1 = cut + n
        <5>1. n + 1 \in 2 .. Len(h) - cut + 1 /\ cut + (n + 1) - 1 = cut + n
          BY <2>1, <3>1
        <5> QED BY <2>1, <3>1, <5>1
      <4>2. Fits(h[cut + n - 1], h[cut + n])
        BY <2>4, <4>1 DEF Ready
      <4>3. CASE n = 1
        <5>1. cut + n - 1 = cut /\ h[cut].role = "user" /\ g[n].role = "user"
          BY <2>1, <4>3 DEF IsUser
        <5> QED BY <4>1, <4>2, <5>1 DEF Fits, IsUser, IsCall
      <4>4. CASE n # 1
        <5>1. n \in 2 .. Len(h) - cut + 1
          BY <2>1, <3>1, <4>4
        <5> QED BY <2>1, <4>1, <4>2, <5>1
      <4> QED BY <4>3, <4>4
    <3>2. cut # Len(h)
      BY <2>1, <2>2, <2>4 DEF Ready
    <3>3. g[Len(g)] = h[Len(h)]
      <4>1. Len(g) \in 2 .. Len(h) - cut + 1 /\ cut + Len(g) - 1 = Len(h)
        BY <2>1, <3>2
      <4> QED BY <2>1, <4>1
    <3> QED BY <2>1, <2>2, <2>4, <3>1, <3>3 DEF Ready, IsUser
  <2>5. Ends(Tail(g), Tail(h))
    <3>1. /\ Len(Tail(g)) = Len(h) - cut /\ Len(Tail(h)) = Len(h) - 1
          /\ \A n \in 1 .. Len(h) - cut : Tail(g)[n] = g[n + 1]
          /\ \A n \in 1 .. Len(h) - 1 : Tail(h)[n] = h[n + 1]
      BY <2>1, <2>2, HeadTailProperties
    <3>2. ASSUME NEW n \in 1 .. Len(h) - cut
          PROVE  Tail(g)[n] = Tail(h)[(Len(h) - 1) - (Len(h) - cut) + n]
      <4>1. /\ n + 1 \in 2 .. Len(h) - cut + 1 /\ cut + (n + 1) - 1 = cut + n
            /\ (Len(h) - 1) - (Len(h) - cut) + n = cut + n - 1
            /\ cut + n - 1 \in 1 .. Len(h) - 1 /\ cut + n - 1 + 1 = cut + n
        BY <2>1, <3>2
      <4> QED BY <2>1, <3>1, <3>2, <4>1
    <3>3. Len(Tail(g)) \in Nat /\ Len(Tail(h)) \in Nat /\ Len(Tail(g)) <= Len(Tail(h))
      BY <2>1, <3>1
    <3>4. \A n \in 1 .. Len(Tail(g)) : Tail(g)[n] = Tail(h)[Len(Tail(h)) - Len(Tail(g)) + n]
      BY <3>1, <3>2
    <3> QED BY <3>3, <3>4 DEF Ends
  <2> QED BY <2>1, <2>2, <2>3, <2>4, <2>5 DEF g
<1> QED BY <1>1, <1>2

-------------------------------------------------------------------------------
(* Session files.                                                          *)

LEMMA LoadedMessages ==
    ASSUME Types, NEW i \in SessionIDs
    PROVE  /\ loadSession(i) \in Seq(Messages)
           /\ files[i] \in Seq(Messages) => loadSession(i) = files[i]
<1> DEFINE good == {n \in DOMAIN files[i] : files[i][n] \notin {Torn, Spoiled}}
           m    == Cardinality(good)
<1>1. /\ files[i] \in Seq(Lines) /\ Len(files[i]) \in Nat
      /\ DOMAIN files[i] = 1 .. Len(files[i])
  BY DEF Types
<1>2. good \in SUBSET Nat /\ IsFiniteSet(good)
  <2>1. good \subseteq 1 .. Len(files[i]) /\ IsFiniteSet(1 .. Len(files[i]))
    BY <1>1, FS_Interval
  <2> QED BY <2>1, FS_Subset
<1>3. m \in Nat
  BY <1>2, FS_CardinalityType
<1>4. \A k \in 1 .. m : Nth(good, k) \in good
  <2> HIDE DEF good
  <2> QED BY <1>2, NthExists DEF m
<1>5. \A n \in good : files[i][n] \in Messages
  BY <1>1 DEF Lines
<1>6. loadSession(i) = [k \in 1 .. m |-> files[i][Nth(good, k)]]
  BY DEF loadSession
<1>7. loadSession(i) \in Seq(Messages)
  <2> HIDE DEF m, good
  <2>1. \A k \in 1 .. m : files[i][Nth(good, k)] \in Messages
    BY <1>4, <1>5
  <2> QED BY <1>3, <1>6, <2>1, IsASeq
<1>8. ASSUME files[i] \in Seq(Messages) PROVE loadSession(i) = files[i]
  <2>1. good = 1 .. Len(files[i])
    BY <1>1, <1>8, LinesAreTold
  <2>2. m = Len(files[i])
    <3>1. Cardinality(1 .. Len(files[i])) = Len(files[i])
      BY <1>1, FS_Interval
    <3> QED BY <2>1, <3>1
  <2>3. \A k \in 1 .. Len(files[i]) : Nth(good, k) = k
    BY <1>1, <2>1, NthOfInterval
  <2> HIDE DEF good, m
  <2>4. /\ loadSession(i) = [k \in 1 .. Len(files[i]) |-> files[i][k]]
        /\ files[i] = [k \in 1 .. Len(files[i]) |-> files[i][k]]
    BY <1>1, <1>6, <2>2, <2>3
  <2> QED BY <2>4
<1> QED BY <1>7, <1>8

\* A line that is appended to a file without torn lines is one more line of it.
LEMMA AppendedLines ==
    ASSUME NEW lines \in Seq(Lines), NEW m \in Messages \cup {Torn},
           \A n \in 1 .. Len(lines) - 1 : lines[n] # Torn
    PROVE  LET more == AppendLine(lines, m) IN
           /\ more \in Seq(Lines) /\ more # <<>>
           /\ \A n \in 1 .. Len(more) - 1 : more[n] # Torn
           /\ lines \in Seq(Messages) => more = Append(lines, m)
<1> DEFINE more == AppendLine(lines, m)
<1>1. m \in Lines /\ Torn \in Lines /\ Spoiled \in Lines /\ Spoiled # Torn
  BY LinesAreTold DEF Lines
<1>2. Len(lines) \in Nat /\ (lines # <<>> => Len(lines) > 0)
  BY EmptySeq
<1>3. CASE lines # <<>> /\ Last(lines) = Torn
  <2> DEFINE front == SubSeq(lines, 1, Len(lines) - 1)
             x     == IF m = Torn THEN Torn ELSE Spoiled
  <2>1. more = Append(front, x)
    BY <1>3 DEF AppendLine, Front
  <2>2. /\ front \in Seq(Lines) /\ Len(front) = Len(lines) - 1
        /\ \A n \in 1 .. Len(lines) - 1 : front[n] = lines[n]
    BY <1>2, <1>3, FrontProperties
  <2> HIDE DEF front, more
  <2>3. x \in Lines
    BY <1>1
  <2>4. /\ more \in Seq(Lines) /\ Len(more) = Len(lines)
        /\ \A n \in 1 .. Len(lines) - 1 : more[n] = lines[n]
    BY <1>2, <1>3, <2>1, <2>2, <2>3
  <2>5. lines \notin Seq(Messages)
    BY <1>2, <1>3, LinesAreTold DEF Last
  <2> QED BY <1>2, <1>3, <2>4, <2>5 DEF more
<1>4. CASE ~ (lines # <<>> /\ Last(lines) = Torn)
  <2>1. more = Append(lines, m)
    BY <1>4 DEF AppendLine
  <2> HIDE DEF more
  <2>2. /\ more \in Seq(Lines) /\ Len(more) = Len(lines) + 1
        /\ \A n \in 1 .. Len(lines) : more[n] = lines[n]
    BY <1>1, <1>2, <2>1
  <2>3. \A n \in 1 .. Len(lines) : lines[n] # Torn
    <3> TAKE n \in 1 .. Len(lines)
    <3>1. CASE n = Len(lines)
      BY <1>2, <1>4, <3>1 DEF Last
    <3>2. CASE n # Len(lines)
      <4>1. n \in 1 .. Len(lines) - 1
        BY <1>2, <3>2
      <4> QED BY <4>1
    <3> QED BY <3>1, <3>2
  <2> QED BY <1>2, <2>1, <2>2, <2>3 DEF more
<1> QED BY <1>3, <1>4

\* A bounded set of numbers that is not empty has a largest one.
LEMMA Largest ==
    ASSUME NEW b \in Nat, NEW S \in SUBSET (0 .. b), S # {}
    PROVE  \E m \in S : \A k \in S : k <= m
<1> DEFINE D == {d \in Nat : b - d \in S}
<1>1. PICK x \in S : TRUE
  OBVIOUS
<1>2. x \in 0 .. b /\ b - x \in Nat /\ b - (b - x) = x
  BY <1>1
<1>3. b - x \in D
  BY <1>1, <1>2
<1>4. PICK d \in D : \A e \in D : d <= e
  <2>1. D \in SUBSET Nat /\ D # {}
    BY <1>3
  <2> HIDE DEF D
  <2> QED BY <2>1, Smallest
<1>5. ASSUME NEW k \in S PROVE k <= b - d
  <2>1. k \in 0 .. b /\ b - k \in Nat /\ b - (b - k) = k
    BY <1>5
  <2>2. b - k \in D
    BY <1>5, <2>1
  <2>3. d <= b - k /\ d \in Nat
    BY <1>4, <2>2
  <2> QED BY <2>1, <2>3
<1> QED BY <1>4, <1>5

\* A resume finds a session.
LEMMA LatestExists ==
    ASSUME \E i \in SessionIDs : Exists(i)
    PROVE  latestSessionID \in SessionIDs /\ Exists(latestSessionID)
<1> DEFINE Seconds == {i[1] : i \in {j \in SessionIDs : Exists(j)}}
<1>1. Seconds \in SUBSET (0 .. MaxSecond) /\ Seconds # {}
  BY BoundsAssumption DEF SessionIDs
<1>2. PICK s \in Seconds : \A r \in Seconds : r <= s
  <2> HIDE DEF Seconds
  <2> QED BY <1>1, Largest, BoundsAssumption
<1> DEFINE TakenSuffixes == {i[2] : i \in {j \in SessionIDs : Exists(j) /\ j[1] = s}}
<1>3. TakenSuffixes \in SUBSET (0 .. MaxTurns + 1) /\ TakenSuffixes # {}
  BY <1>2, BoundsAssumption DEF SessionIDs
<1>4. PICK n \in TakenSuffixes : \A k \in TakenSuffixes : k <= n
  <2>1. MaxTurns + 1 \in Nat
    BY BoundsAssumption
  <2> HIDE DEF TakenSuffixes
  <2> QED BY <1>3, <2>1, Largest
<1>5. PICK i \in SessionIDs : Exists(i) /\ i[1] = s /\ i[2] = n
  BY <1>4
<1>6. ASSUME NEW j \in SessionIDs, Exists(j) PROVE ~ Earlier(i, j)
  <2>1. j[1] \in Seconds /\ (j[1] = s => j[2] \in TakenSuffixes)
    BY <1>6
  <2>2. j[1] <= s /\ (j[1] = s => j[2] <= n)
    BY <1>2, <1>4, <2>1
  <2>3. i[1] \in Nat /\ i[2] \in Nat /\ j[1] \in Nat /\ j[2] \in Nat
    BY BoundsAssumption DEF SessionIDs
  <2> QED BY <1>5, <2>2, <2>3 DEF Earlier
<1> QED BY <1>5, <1>6 DEF latestSessionID

\* A new session has a free ID.
LEMMA NewIsFree ==
    ASSUME Types, IDsSuffice, NEW s \in 1 .. MaxSecond
    PROVE  /\ newSessionID(s) \in SessionIDs
           /\ ~ Exists(newSessionID(s))
<1> DEFINE Free == {n \in 1 .. MaxTurns + 1 : ~ Exists(<<s, n>>)}
           Used == {<<s, n>> : n \in 1 .. MaxTurns + 1}
<1>1. ASSUME Free = {} PROVE FALSE
  <2>1. Used \subseteq Taken
    <3>1. \A n \in 1 .. MaxTurns + 1 : Exists(<<s, n>>) /\ <<s, n>> \in SessionIDs
      BY <1>1 DEF SessionIDs
    <3> QED BY <3>1 DEF Taken
  <2>2. Cardinality(Used) = MaxTurns + 1 /\ IsFiniteSet(Used)
    <3> DEFINE f == [n \in 1 .. MaxTurns + 1 |-> <<s, n>>]
    <3>1. f \in Bijection(1 .. MaxTurns + 1, Used)
      BY DEF Bijection, Injection, Surjection, IsInjective
    <3>2. IsFiniteSet(1 .. MaxTurns + 1) /\ Cardinality(1 .. MaxTurns + 1) = MaxTurns + 1
      BY FS_Interval, BoundsAssumption
    <3> HIDE DEF f, Used
    <3>3. ExistsBijection(1 .. MaxTurns + 1, Used)
      BY <3>1 DEF ExistsBijection
    <3> QED BY <3>2, <3>3, FS_Bijection
  <2>3. Cardinality(Used) <= Cardinality(Taken)
    <3> HIDE DEF Used
    <3> QED BY <2>1, FS_Subset DEF IDsSuffice
  <2>4. Cardinality(Taken) \in Nat
    BY FS_CardinalityType DEF IDsSuffice
  <2> QED BY <2>2, <2>3, <2>4, BoundsAssumption DEF IDsSuffice, Types
<1>2. PICK n \in Free : \A k \in Free : n <= k
  <2>1. Free \in SUBSET Nat
    OBVIOUS
  <2> HIDE DEF Free
  <2> QED BY <1>1, <2>1, Smallest
<1>3. Min(Free) \in Free
  <2> HIDE DEF Free
  <2> QED BY <1>2 DEF Min
<1>4. newSessionID(s) = <<s, Min(Free)>>
  BY DEF newSessionID
<1> QED BY <1>3, <1>4 DEF SessionIDs

-------------------------------------------------------------------------------
(* The steps.                                                              *)

LEMMA NoIDIsNone == NoID \notin SessionIDs
  BY BoundsAssumption DEF NoID, SessionIDs

\* A chat that is on has a session.
LEMMA OnHasID ==
    ASSUME Types, QueueIsLast, NEW c \in Chats, at[c] # "off"
    PROVE  id[c] \in SessionIDs
  BY DEF Types, QueueIsLast

LEMMA InitIInv == ASSUME Init PROVE IInv
<1> USE DEF Init
<1>1. Types
  <2>1. NoID \in SessionIDs \cup {NoID} /\ <<>> \in Seq(Messages) /\ <<>> \in Seq(Lines)
    OBVIOUS
  <2> QED BY <2>1, BoundsAssumption DEF Types
<1>2. QueueIsLast
  BY DEF QueueIsLast, Ends
<1>3. TornIsLast /\ SharedIsUnsound /\ HistoryIsReady /\ Remembered
  BY EmptyIsReady DEF TornIsLast, SharedIsUnsound, HistoryIsReady, Remembered
<1>4. IDsSuffice
  <2>1. Taken = {}
    BY DEF Taken, Exists
  <2> QED BY <2>1, FS_EmptySet DEF IDsSuffice
<1>5. SoundIsReady /\ Recorded
  BY EmptyIsReady, NoIDIsNone DEF SoundIsReady, Recorded
<1> QED BY <1>1, <1>2, <1>3, <1>4, <1>5 DEF IInv

\* A chat begins with session i and history h, which is the file of i if that is
\* sound and nobody else has it.
LEMMA BeginKeepsIInv ==
    ASSUME IInv, NEW c \in Chats, NEW i \in SessionIDs, NEW h \in Seq(Messages),
           Begin(c, i, h), queue[c] = <<>>, clock' \in Nat \ {0},
           i \notin unsound /\ ~ Shared(c, i) => h = files[i] /\ Ready(h)
    PROVE  IInv'
<1> USE DEF Begin
<1>1. Types'
  <2>1. Covered(h) \in SUBSET Nat
    BY CoveredTurns
  <2>2. unsound' \subseteq SessionIDs
    BY DEF IInv, Types
  <2> QED BY <2>1, <2>2 DEF IInv, Types
<1>2. /\ \A d \in Chats \ {c} : /\ id'[d] = id[d] /\ at'[d] = at[d]
                                /\ history'[d] = history[d]
                                /\ said'[d] = said[d] /\ heir'[d] = heir[d]
      /\ id'[c] = i /\ at'[c] = "prompt" /\ history'[c] = h /\ said'[c] = Covered(h)
      /\ heir'[c] = (i \in unsound')
      /\ queue' = queue /\ files' = files /\ started' = started
      /\ unsound \subseteq unsound'
      /\ i \notin unsound' => i \notin unsound /\ ~ Shared(c, i)
  BY DEF IInv, Types
<1>3. \A d \in Chats \ {c} : id[d] = i => i \in unsound'
  <2>1. \A d \in Chats \ {c} : id[d] = i => at[d] # "off"
    BY NoIDIsNone DEF IInv, QueueIsLast
  <2> QED BY <1>2, <2>1 DEF Shared
<1>4. QueueIsLast'
  <2>1. Ends(queue[c], h)
    BY DEF Ends
  <2> QED BY <1>2, <2>1, NoIDIsNone DEF IInv, QueueIsLast, Types
<1>5. TornIsLast'
  BY <1>2 DEF IInv, TornIsLast
<1>6. SharedIsUnsound'
  BY <1>2, <1>3 DEF IInv, SharedIsUnsound
<1>7. IDsSuffice'
  <2>1. Taken' = Taken
    BY <1>2 DEF Taken, Exists
  <2> QED BY <1>2, <2>1 DEF IInv, IDsSuffice
<1>8. HistoryIsReady'
  BY <1>2 DEF IInv, HistoryIsReady
<1>9. Remembered'
  BY <1>2 DEF IInv, Remembered
<1>10. SoundIsReady'
  <2> SUFFICES ASSUME NEW j \in SessionIDs \ unsound'
               PROVE  /\ files[j] \in Seq(Messages)
                      /\ (\A d \in Chats : id'[d] # j) => Ready(files[j])
    BY <1>2 DEF SoundIsReady
  <2>1. files[j] \in Seq(Messages) /\ ((\A d \in Chats : id[d] # j) => Ready(files[j]))
    BY <1>2 DEF IInv, SoundIsReady
  <2>2. ASSUME \A d \in Chats : id'[d] # j, id[c] = j PROVE Ready(files[j])
    <3>1. Whole(c) = files[j]
      BY <2>1, <2>2, ConcatEmptySeq DEF Whole
    <3> QED BY <1>2, <2>2, <3>1 DEF IInv, Recorded
  <2> QED BY <1>2, <2>1, <2>2
<1>11. Recorded'
  <2> SUFFICES ASSUME NEW d \in Chats, id'[d] \in SessionIDs \ unsound'
               PROVE  /\ Ready(Whole(d)')
                      /\ Covered(Whole(d)') = said'[d]
                      /\ history'[d] # <<>> => Ends(Tail(history'[d]), Whole(d)')
    BY DEF Recorded
  <2>1. CASE d # c
    BY <1>2, <2>1 DEF IInv, Recorded, Whole
  <2>2. CASE d = c
    <3>1. h = files[i] /\ Ready(h)
      BY <1>2, <2>2
    <3>2. Whole(c)' = h
      BY <1>2, <3>1, ConcatEmptySeq DEF Whole
    <3>3. h # <<>> => Ends(Tail(h), h)
      BY EndsTail
    <3> QED BY <1>2, <2>2, <3>1, <3>2, <3>3
  <2> QED BY <2>1, <2>2
<1> QED BY <1>1, <1>4, <1>5, <1>6, <1>7, <1>8, <1>9, <1>10, <1>11 DEF IInv

LEMMA NewKeepsIInv ==
    ASSUME IInv, NEW c \in Chats, BeginNew(c), at[c] \in {"off", "prompt"}
    PROVE  IInv'
<1>1. clock' \in 1 .. MaxSecond /\ clock' \in Nat \ {0}
  BY BoundsAssumption DEF BeginNew, IInv, Types
<1>2. newSessionID(clock') \in SessionIDs /\ files[newSessionID(clock')] = <<>>
  BY <1>1, NewIsFree DEF IInv, Exists
<1>3. queue[c] = <<>>
  BY DEF IInv, QueueIsLast
<1> DEFINE i == newSessionID(clock')
<1>4. Begin(c, i, <<>>)
  BY DEF BeginNew
<1>5. i \in SessionIDs /\ files[i] = <<>> /\ <<>> \in Seq(Messages)
  BY <1>2
<1> HIDE DEF i
<1> QED BY <1>1, <1>3, <1>4, <1>5, EmptyIsReady, BeginKeepsIInv

LEMMA ResumeKeepsIInv ==
    ASSUME IInv, NEW c \in Chats, ResumeLatestSession(c)
    PROVE  IInv'
<1>1. CASE \E i \in SessionIDs : Exists(i)
  <2> DEFINE i == latestSessionID
  <2>1. i \in SessionIDs
    BY <1>1, LatestExists
  <2>2. /\ Begin(c, i, loadSession(i)) /\ clock' = clock /\ at[c] = "off"
    BY <1>1 DEF ResumeLatestSession
  <2>3. queue[c] = <<>> /\ clock' \in Nat \ {0} /\ id[c] = NoID
    BY <2>2 DEF IInv, QueueIsLast, Types
  <2> HIDE DEF i
  <2>4. loadSession(i) \in Seq(Messages)
    BY <2>1, LoadedMessages DEF IInv
  <2>5. ASSUME i \notin unsound, ~ Shared(c, i)
        PROVE  loadSession(i) = files[i] /\ Ready(loadSession(i))
    <3>1. \A d \in Chats : id[d] # i
      BY <2>1, <2>3, <2>5, NoIDIsNone DEF Shared, IInv, QueueIsLast
    <3>2. files[i] \in Seq(Messages) /\ Ready(files[i])
      BY <2>1, <2>5, <3>1 DEF IInv, SoundIsReady
    <3> QED BY <2>1, <3>2, LoadedMessages DEF IInv
  <2> QED BY <2>1, <2>2, <2>3, <2>4, <2>5, BeginKeepsIInv
<1>2. CASE ~ \E i \in SessionIDs : Exists(i)
  BY <1>2, NewKeepsIInv DEF ResumeLatestSession
<1> QED BY <1>1, <1>2

\* The process of chat c is gone; a file that lost a line is known to be unsound.
LEMMA LeaveKeepsIInv ==
    ASSUME IInv, NEW c \in Chats, at[c] # "off", Leave(c),
           files' \in [SessionIDs -> Seq(Lines)],
           \A i \in SessionIDs \ {id[c]} : files'[i] = files[i],
           \A n \in 1 .. Len(files'[id[c]]) - 1 : files'[id[c]][n] # Torn,
           unsound' \subseteq SessionIDs, unsound \subseteq unsound',
           \/ files' = files /\ queue[c] = <<>>
           \/ id[c] \in unsound' /\ queue[c] # <<>>,
           UNCHANGED <<clock, started>>
    PROVE  IInv'
<1> USE DEF Leave
<1>0. id[c] \in SessionIDs
  BY OnHasID DEF IInv
<1>1. Types'
  BY DEF IInv, Types
<1>2. /\ \A d \in Chats \ {c} : /\ id'[d] = id[d] /\ at'[d] = at[d]
                                /\ history'[d] = history[d]
                                /\ said'[d] = said[d] /\ heir'[d] = heir[d]
                                /\ queue'[d] = queue[d]
      /\ id'[c] = NoID /\ at'[c] = "off" /\ history'[c] = <<>> /\ said'[c] = {}
      /\ queue'[c] = <<>> /\ heir'[c] = FALSE
  BY DEF IInv, Types
<1>3. QueueIsLast'
  <2>1. Ends(<<>>, <<>>)
    BY DEF Ends
  <2> QED BY <1>2, <2>1 DEF IInv, QueueIsLast
<1>4. TornIsLast'
  BY DEF IInv, TornIsLast
<1>5. SharedIsUnsound'
  BY <1>2 DEF IInv, SharedIsUnsound
<1>6. IDsSuffice'
  <2>1. Taken' \subseteq Taken
    <3>1. ASSUME NEW i \in SessionIDs, Exists(i)' PROVE i \in Taken
      BY <1>0, <3>1 DEF Taken, Exists
    <3>2. ASSUME NEW d \in Chats, queue'[d] # <<>> PROVE id'[d] \in Taken
      BY <1>2, <3>2 DEF Taken
    <3> QED BY <3>1, <3>2 DEF Taken
  <2>2. IsFiniteSet(Taken') /\ Cardinality(Taken') <= Cardinality(Taken)
    BY <2>1, FS_Subset DEF IInv, IDsSuffice
  <2>3. Cardinality(Taken) \in Nat /\ Cardinality(Taken') \in Nat /\ started \in Nat
    BY <2>2, FS_CardinalityType, BoundsAssumption DEF IInv, IDsSuffice, Types
  <2> QED BY <2>2, <2>3 DEF IInv, IDsSuffice
<1>7. HistoryIsReady'
  BY <1>2, EmptyIsReady DEF IInv, HistoryIsReady
<1>8. Remembered'
  BY <1>2, EmptyIsReady DEF IInv, Remembered
<1>9. SoundIsReady'
  <2> SUFFICES ASSUME NEW j \in SessionIDs \ unsound'
               PROVE  /\ files'[j] \in Seq(Messages)
                      /\ (\A d \in Chats : id'[d] # j) => Ready(files'[j])
    BY DEF SoundIsReady
  <2>1. files'[j] = files[j] /\ files[j] \in Seq(Messages)
        /\ ((\A d \in Chats : id[d] # j) => Ready(files[j]))
    BY DEF IInv, SoundIsReady
  <2>2. ASSUME \A d \in Chats : id'[d] # j, id[c] = j PROVE Ready(files[j])
    <3>1. Whole(c) = files[j]
      BY <2>1, <2>2, ConcatEmptySeq DEF Whole
    <3> QED BY <2>2, <3>1 DEF IInv, Recorded
  <2> QED BY <1>2, <2>1, <2>2
<1>10. Recorded'
  <2> SUFFICES ASSUME NEW d \in Chats, id'[d] \in SessionIDs \ unsound'
               PROVE  /\ Ready(Whole(d)')
                      /\ Covered(Whole(d)') = said'[d]
                      /\ history'[d] # <<>> => Ends(Tail(history'[d]), Whole(d)')
    BY DEF Recorded
  <2>1. d # c
    BY <1>2, NoIDIsNone
  <2>2. Whole(d)' = Whole(d)
    <3>1. id[d] # id[c]
      BY <1>0, <1>2, <2>1, NoIDIsNone DEF IInv, SharedIsUnsound
    <3>2. id[d] \in SessionIDs \ {id[c]} /\ id'[d] = id[d] /\ queue'[d] = queue[d]
      BY <1>2, <2>1, <3>1
    <3>3. files'[id[d]] = files[id[d]]
      BY <3>2
    <3> QED BY <3>2, <3>3 DEF Whole
  <2> QED BY <1>2, <2>1, <2>2 DEF IInv, Recorded
<1> QED BY <1>1, <1>3, <1>4, <1>5, <1>6, <1>7, <1>8, <1>9, <1>10 DEF IInv

\* The history of chat c is compacted, or left as it is, at the end of a turn or
\* between turns.
LEMMA CompactKeepsIInv ==
    ASSUME IInv, NEW c \in Chats, at[c] # "off", queue[c] = <<>>,
           at' = [at EXCEPT ![c] = "prompt"],
           history' \in {history, [history EXCEPT ![c] = CompactMessages(@)]},
           UNCHANGED <<queue, id, said, heir, files, clock, started, unsound>>
    PROVE  IInv'
<1> DEFINE h == history[c]
           g == history'[c]
<1>1. /\ h \in Seq(Messages) /\ g \in Seq(Messages)
      /\ \A d \in Chats \ {c} : history'[d] = history[d] /\ at'[d] = at[d]
      /\ at'[c] = "prompt"
      /\ Covered(g) = Covered(h) /\ (Ready(h) => Ready(g))
      /\ g = <<>> <=> h = <<>>
      /\ h # <<>> => Ends(Tail(g), Tail(h))
  <2>1. h \in Seq(Messages) /\ (g = h \/ g = CompactMessages(h))
    BY DEF IInv, Types
  <2>2. h # <<>> => Ends(Tail(h), Tail(h))
    <3>1. h # <<>> => Tail(h) \in Seq(Messages)
      BY <2>1, HeadTailProperties
    <3> QED BY <3>1 DEF Ends
  <2>3. \A d \in Chats \ {c} : history'[d] = history[d] /\ at'[d] = at[d]
    BY DEF IInv, Types
  <2>4. at'[c] = "prompt"
    BY DEF IInv, Types
  <2> HIDE DEF h, g
  <2> QED BY <2>1, <2>2, <2>3, <2>4, CompactionKeeps
<1>2. Types'
  <2>1. history' = [history EXCEPT ![c] = g]
    BY DEF IInv, Types
  <2> HIDE DEF g
  <2> QED BY <1>1, <2>1 DEF IInv, Types
<1>3. QueueIsLast'
  <2>1. Ends(queue[c], g)
    <3> HIDE DEF g
    <3> QED BY <1>1 DEF Ends
  <2> HIDE DEF g, h
  <2>2. at[c] # "off" /\ at'[c] # "off"
    BY <1>1
  <2> QED BY <1>1, <2>1, <2>2 DEF IInv, QueueIsLast, g
<1>4. TornIsLast' /\ SharedIsUnsound'
  BY DEF IInv, TornIsLast, SharedIsUnsound
<1>5. IDsSuffice'
  BY DEF IInv, IDsSuffice, Taken, Exists
<1>6. HistoryIsReady' /\ Remembered'
  BY <1>1 DEF IInv, HistoryIsReady, Remembered
<1>7. SoundIsReady'
  BY DEF IInv, SoundIsReady
<1>8. Recorded'
  <2> SUFFICES ASSUME NEW d \in Chats, id[d] \in SessionIDs \ unsound
               PROVE  /\ Ready(Whole(d))
                      /\ Covered(Whole(d)) = said[d]
                      /\ history'[d] # <<>> => Ends(Tail(history'[d]), Whole(d))
    BY DEF Recorded, Whole
  <2>1. /\ Ready(Whole(d)) /\ Covered(Whole(d)) = said[d]
        /\ history[d] # <<>> => Ends(Tail(history[d]), Whole(d))
    BY DEF IInv, Recorded
  <2>2. ASSUME d = c, g # <<>> PROVE Ends(Tail(g), Whole(c))
    <3>1. Tail(g) \in Seq(Messages) /\ Tail(h) \in Seq(Messages)
      <4> HIDE DEF g, h
      <4> QED BY <1>1, <2>2, HeadTailProperties
    <3>2. Whole(c) \in Seq(Messages)
      BY <2>2, ConcatProperties DEF Whole, IInv, SoundIsReady, Types
    <3>3. Ends(Tail(g), Tail(h)) /\ Ends(Tail(h), Whole(c))
      BY <1>1, <2>1, <2>2
    <3> HIDE DEF g, h
    <3> QED BY <3>1, <3>2, <3>3, EndsTrans
  <2> QED BY <1>1, <2>1, <2>2
<1> QED BY <1>2, <1>3, <1>4, <1>5, <1>6, <1>7, <1>8 DEF IInv

LEMMA executeMessageKeepsIInv ==
    ASSUME IInv, NEW c \in Chats, executeMessage(c)
    PROVE  IInv'
<1> USE DEF executeMessage
<1>1. PICK result \in TurnResults(history[c], started') :
          commitTurn(c, User(started'), result)
  OBVIOUS
<1>2. /\ at[c] = "prompt" /\ queue[c] = <<>> /\ history[c] \in Seq(Messages)
      /\ started' = started + 1 /\ started \in 0 .. MaxTurns /\ started' \in 0 .. MaxTurns
      /\ at' = [at EXCEPT ![c] = "record"]
  BY <1>1, BoundsAssumption DEF IInv, Types, QueueIsLast, commitTurn
<1>3. id[c] \in SessionIDs
  BY <1>2, OnHasID DEF IInv
<1>4. TornIsLast' /\ SharedIsUnsound'
  BY DEF IInv, TornIsLast, SharedIsUnsound
<1>5. SoundIsReady'
  BY DEF IInv, SoundIsReady
<1>6. CASE result = <<>>
  <2>1. UNCHANGED <<history, queue, said>>
    BY <1>1, <1>6 DEF commitTurn
  <2>2. Types'
    BY <1>2, <2>1 DEF IInv, Types
  <2>3. QueueIsLast'
    BY <1>2, <2>1 DEF IInv, Types, QueueIsLast
  <2>4. IDsSuffice'
    <3>1. Taken' = Taken
      BY <2>1 DEF Taken, Exists
    <3>2. Cardinality(Taken) \in Nat
      BY FS_CardinalityType DEF IInv, IDsSuffice
    <3> QED BY <1>2, <3>1, <3>2 DEF IInv, IDsSuffice
  <2>5. HistoryIsReady' /\ Remembered' /\ Recorded'
    BY <2>1 DEF IInv, HistoryIsReady, Remembered, Recorded, Whole
  <2> QED BY <1>4, <1>5, <2>2, <2>3, <2>4, <2>5 DEF IInv
<1>7. CASE result # <<>>
  <2> DEFINE t    == started'
             turn == <<User(t)>> \o result
             h    == history[c]
  <2>1. turn \in Seq(Messages) /\ turn # <<>> /\ Ready(turn) /\ Covered(turn) = {t}
    BY <1>2, <1>7, TurnIsReady
  <2>2. /\ history' = [history EXCEPT ![c] = h \o turn]
        /\ queue' = [queue EXCEPT ![c] = turn]
        /\ said' = [said EXCEPT ![c] = said[c] \cup {t}]
    BY <1>1, <1>7 DEF commitTurn, User
  <2> HIDE DEF turn, t
  <2>3. /\ h \o turn \in Seq(Messages) /\ Covered(h \o turn) = Covered(h) \cup {t}
        /\ (Ready(h) => Ready(h \o turn)) /\ Ends(turn, h \o turn)
    <3> HIDE DEF h
    <3>1. h \in Seq(Messages)
      BY <1>2 DEF h
    <3> QED BY <2>1, <3>1, ConcatProperties, CoveredConcat, ReadyConcat, EndsOfConcat
  <2>4. t \in Nat
    BY <1>2 DEF t
  <2>5. /\ \A d \in Chats \ {c} : /\ history'[d] = history[d] /\ queue'[d] = queue[d]
                                  /\ said'[d] = said[d] /\ at'[d] = at[d]
        /\ history'[c] = h \o turn /\ queue'[c] = turn /\ said'[c] = said[c] \cup {t}
        /\ at'[c] = "record"
    BY <1>2, <2>2 DEF IInv, Types
  <2>6. Types'
    BY <1>2, <2>1, <2>2, <2>3, <2>4 DEF IInv, Types
  <2>7. QueueIsLast'
    BY <1>2, <2>3, <2>5 DEF IInv, QueueIsLast
  <2>8. IDsSuffice'
    <3>1. Taken' \subseteq Taken \cup {id[c]}
      BY <2>5 DEF Taken, Exists
    <3>2. /\ IsFiniteSet(Taken \cup {id[c]}) /\ Cardinality(Taken) \in Nat
          /\ Cardinality(Taken \cup {id[c]}) \in {Cardinality(Taken), Cardinality(Taken) + 1}
      BY FS_AddElement, FS_CardinalityType DEF IInv, IDsSuffice
    <3>3. IsFiniteSet(Taken') /\ Cardinality(Taken') <= Cardinality(Taken \cup {id[c]})
      BY <3>1, <3>2, FS_Subset
    <3>4. Cardinality(Taken') \in Nat
      BY <3>3, FS_CardinalityType
    <3>5. Cardinality(Taken) <= started
      BY DEF IInv, IDsSuffice
    <3> QED BY <1>2, <3>2, <3>3, <3>4, <3>5 DEF IDsSuffice
  <2>9. HistoryIsReady' /\ Remembered'
    BY <2>3, <2>5 DEF IInv, HistoryIsReady, Remembered
  <2>10. Recorded'
    <3> SUFFICES ASSUME NEW d \in Chats, id[d] \in SessionIDs \ unsound
                 PROVE  /\ Ready(Whole(d)')
                        /\ Covered(Whole(d)') = said'[d]
                        /\ history'[d] # <<>> => Ends(Tail(history'[d]), Whole(d)')
      BY DEF Recorded
    <3>1. /\ Ready(Whole(d)) /\ Covered(Whole(d)) = said[d]
          /\ history[d] # <<>> => Ends(Tail(history[d]), Whole(d))
      BY DEF IInv, Recorded
    <3>2. CASE d # c
      BY <2>5, <3>1, <3>2 DEF Whole
    <3>3. CASE d = c
      <4> DEFINE w == files[id[c]]
      <4>1. w \in Seq(Messages) /\ Whole(c) = w /\ Whole(c)' = w \o turn
        BY <1>2, <2>5, <3>3, ConcatEmptySeq DEF IInv, SoundIsReady, Whole
      <4> HIDE DEF w
      <4>2. /\ w \o turn \in Seq(Messages) /\ Ready(w \o turn)
            /\ Covered(w \o turn) = Covered(w) \cup {t}
        BY <2>1, <3>1, <3>3, <4>1, ConcatProperties, CoveredConcat, ReadyConcat
      <4>3. Ends(Tail(h \o turn), w \o turn)
        <5>1. CASE h = <<>>
          <6>1. h \o turn = turn
            BY <2>1, <5>1, ConcatEmptySeq
          <6>2. Tail(turn) \in Seq(Messages) /\ Ends(Tail(turn), turn)
            BY <2>1, EndsTail
          <6>3. Ends(turn, w \o turn)
            BY <2>1, <4>1, EndsOfConcat
          <6> QED BY <2>1, <4>2, <6>1, <6>2, <6>3, EndsTrans
        <5>2. CASE h # <<>>
          <6>1. Tail(h) \in Seq(Messages) /\ Ends(Tail(h), w)
            BY <1>2, <3>1, <3>3, <4>1, <5>2, HeadTailProperties
          <6>2. Tail(h \o turn) = Tail(h) \o turn
            <7> HIDE DEF h
            <7>1. h \in Seq(Messages) /\ h # <<>>
              BY <1>2, <5>2 DEF h
            <7> QED BY <2>1, <7>1, TailOfConcat
          <6> HIDE DEF h
          <6> QED BY <2>1, <4>1, <6>1, <6>2, EndsConcat
        <5> QED BY <5>1, <5>2
      <4> QED BY <2>5, <3>1, <3>3, <4>1, <4>2, <4>3
    <3> QED BY <3>2, <3>3
  <2> QED BY <1>4, <1>5, <2>6, <2>7, <2>8, <2>9, <2>10 DEF IInv
<1> QED BY <1>6, <1>7

\* A message is taken from the queue and written, in full, in part or not at all.
LEMMA WriteKeepsIInv ==
    ASSUME IInv, NEW c \in Chats, queue[c] # <<>>,
           NEW m \in {Head(queue[c]), Torn},
           files' \in {files, [files EXCEPT ![id[c]] = AppendLine(@, m)]},
           queue' = [queue EXCEPT ![c] = Tail(@)],
           unsound' \in {unsound, unsound \cup {id[c]}},
           id[c] \notin unsound' =>
               /\ files' = [files EXCEPT ![id[c]] = AppendLine(@, Head(queue[c]))]
               /\ ~ Shared(c, id[c]),
           UNCHANGED <<at, history, id, said, heir, clock, started>>
    PROVE  IInv'
<1> DEFINE q == queue[c]
           i == id[c]
<1>1. at[c] = "record" /\ i \in SessionIDs
  BY OnHasID DEF IInv, QueueIsLast
<1>2. q \in Seq(Messages) /\ Head(q) \in Messages /\ Tail(q) \in Seq(Messages)
      /\ Ends(Tail(q), q)
  <2>1. q \in Seq(Messages)
    BY DEF IInv, Types
  <2> QED BY <2>1, EndsTail, HeadTailProperties
<1>3. /\ AppendLine(files[i], m) \in Seq(Lines) /\ AppendLine(files[i], m) # <<>>
      /\ \A n \in 1 .. Len(AppendLine(files[i], m)) - 1 : AppendLine(files[i], m)[n] # Torn
  <2>1. files[i] \in Seq(Lines) /\ m \in Messages \cup {Torn}
    BY <1>1, <1>2 DEF IInv, Types
  <2>2. \A n \in 1 .. Len(files[i]) - 1 : files[i][n] # Torn
    BY <1>1 DEF IInv, TornIsLast
  <2> QED BY <2>1, <2>2, AppendedLines
<1>4. /\ \A j \in SessionIDs \ {i} : files'[j] = files[j]
      /\ \A d \in Chats \ {c} : queue'[d] = queue[d]
      /\ queue'[c] = Tail(q)
      /\ \A j \in SessionIDs : j \in unsound' <=> j \in unsound \/ (j = i /\ i \in unsound')
  BY DEF IInv, Types
<1>5. Types'
  BY <1>1, <1>2, <1>3 DEF IInv, Types
<1>6. QueueIsLast'
  <2>1. Ends(Tail(q), history[c])
    <3>1. history[c] \in Seq(Messages) /\ Ends(q, history[c])
      BY DEF IInv, Types, QueueIsLast
    <3> HIDE DEF q
    <3> QED BY <1>2, <3>1, EndsTrans
  <2> QED BY <1>1, <1>4, <2>1 DEF IInv, QueueIsLast
<1>7. TornIsLast'
  BY <1>1, <1>3 DEF IInv, TornIsLast, Types
<1>8. SharedIsUnsound'
  BY DEF IInv, SharedIsUnsound
<1>9. IDsSuffice'
  <2>1. Taken' \subseteq Taken
    <3>1. ASSUME NEW j \in SessionIDs, Exists(j)' PROVE j \in Taken
      BY <1>4, <3>1 DEF Taken, Exists
    <3>2. ASSUME NEW d \in Chats, queue'[d] # <<>> PROVE id[d] \in Taken
      BY <1>4, <3>2 DEF Taken
    <3> QED BY <3>1, <3>2 DEF Taken
  <2>2. IsFiniteSet(Taken') /\ Cardinality(Taken') <= Cardinality(Taken)
    BY <2>1, FS_Subset DEF IInv, IDsSuffice
  <2>3. Cardinality(Taken) \in Nat /\ Cardinality(Taken') \in Nat /\ started \in Nat
    BY <2>2, FS_CardinalityType, BoundsAssumption DEF IInv, IDsSuffice, Types
  <2> QED BY <2>2, <2>3 DEF IInv, IDsSuffice
<1>10. HistoryIsReady' /\ Remembered'
  BY DEF IInv, HistoryIsReady, Remembered
<1>11. ASSUME i \notin unsound'
       PROVE  /\ i \notin unsound /\ files[i] \in Seq(Messages)
              /\ files'[i] = Append(files[i], Head(q)) /\ files'[i] \in Seq(Messages)
              /\ Whole(c)' = Whole(c)
              /\ \A d \in Chats \ {c} : id[d] # i
  <2>1. i \notin unsound /\ files[i] \in Seq(Messages)
    BY <1>1, <1>11 DEF IInv, SoundIsReady
  <2>2. files'[i] = Append(files[i], Head(q))
    <3>1. files[i] \in Seq(Lines) /\ \A n \in 1 .. Len(files[i]) - 1 : files[i][n] # Torn
      BY <1>1 DEF IInv, Types, TornIsLast
    <3>2. AppendLine(files[i], Head(q)) = Append(files[i], Head(q))
      BY <1>2, <2>1, <3>1, AppendedLines
    <3> QED BY <1>1, <1>11, <3>2 DEF IInv, Types
  <2>3. Append(files[i], Head(q)) \o Tail(q) = files[i] \o q
    BY <1>2, <2>1, MoveHead
  <2>4. Whole(c)' = Whole(c)
    BY <1>4, <2>2, <2>3 DEF Whole
  <2>5. \A d \in Chats \ {c} : id[d] # i
    BY <1>1, <1>11, NoIDIsNone DEF Shared, IInv, QueueIsLast
  <2> QED BY <1>2, <2>1, <2>2, <2>4, <2>5
<1>12. SoundIsReady'
  <2> SUFFICES ASSUME NEW j \in SessionIDs \ unsound'
               PROVE  /\ files'[j] \in Seq(Messages)
                      /\ (\A d \in Chats : id[d] # j) => Ready(files'[j])
    BY DEF SoundIsReady
  <2>1. CASE j = i
    BY <1>11, <2>1
  <2>2. CASE j # i
    BY <1>4, <2>2 DEF IInv, SoundIsReady
  <2> QED BY <2>1, <2>2
<1>13. Recorded'
  <2> SUFFICES ASSUME NEW d \in Chats, id[d] \in SessionIDs \ unsound'
               PROVE  /\ Ready(Whole(d)')
                      /\ Covered(Whole(d)') = said[d]
                      /\ history[d] # <<>> => Ends(Tail(history[d]), Whole(d)')
    BY DEF Recorded
  <2>1. id[d] \notin unsound
    BY <1>4
  <2>2. Whole(d)' = Whole(d)
    <3>1. CASE d = c
      BY <1>11, <3>1
    <3>2. CASE d # c
      <4>1. id[d] # i
        BY <1>11, <3>2
      <4> QED BY <1>4, <3>2, <4>1 DEF Whole
    <3> QED BY <3>1, <3>2
  <2> QED BY <2>1, <2>2 DEF IInv, Recorded
<1> QED BY <1>5, <1>6, <1>7, <1>8, <1>9, <1>10, <1>12, <1>13 DEF IInv

LEMMA CrashKeepsIInv ==
    ASSUME IInv, NEW c \in Chats, Crash(c)
    PROVE  IInv'
<1> USE DEF Crash
<1>1. at[c] = "record" /\ id[c] \in SessionIDs
  BY OnHasID DEF IInv, QueueIsLast
<1>2. /\ AppendLine(files[id[c]], Torn) \in Seq(Lines)
      /\ \A n \in 1 .. Len(AppendLine(files[id[c]], Torn)) - 1 :
             AppendLine(files[id[c]], Torn)[n] # Torn
  <2>1. files[id[c]] \in Seq(Lines) /\ Torn \in Messages \cup {Torn}
    BY <1>1 DEF IInv, Types
  <2>2. \A n \in 1 .. Len(files[id[c]]) - 1 : files[id[c]][n] # Torn
    BY <1>1 DEF IInv, TornIsLast
  <2> QED BY <2>1, <2>2, AppendedLines
<1>3. /\ files' \in [SessionIDs -> Seq(Lines)]
      /\ \A i \in SessionIDs \ {id[c]} : files'[i] = files[i]
      /\ \A n \in 1 .. Len(files'[id[c]]) - 1 : files'[id[c]][n] # Torn
  <2>1. CASE files' = files
    BY <1>1, <2>1 DEF IInv, Types, TornIsLast
  <2>2. CASE files' = [files EXCEPT ![id[c]] = AppendLine(@, Torn)]
    BY <1>1, <1>2, <2>2 DEF IInv, Types
  <2> QED BY <2>1, <2>2
<1>4. unsound' \subseteq SessionIDs /\ unsound \subseteq unsound' /\ id[c] \in unsound'
  BY <1>1 DEF IInv, Types
<1> QED BY <1>1, <1>3, <1>4, LeaveKeepsIInv

LEMMA NextKeepsIInv == ASSUME IInv, [Next]_vars PROVE IInv'
<1>1. CASE UNCHANGED vars
  BY <1>1 DEF vars, chat, IInv, Types, QueueIsLast, TornIsLast, SharedIsUnsound, IDsSuffice,
     Taken, Exists, HistoryIsReady, Remembered, SoundIsReady, Recorded, Whole
<1>2. ASSUME NEW c \in Chats,
             \/ Open(c) \/ ResumeLatestSession(c)
             \/ executeMessage(c) \/ Record(c) \/ RecordFails(c) \/ EndTurn(c)
             \/ SlashCompact(c) \/ Clear(c) \/ Quit(c) \/ Crash(c)
      PROVE  IInv'
  <2>1. CASE Open(c) \/ Clear(c)
    BY <2>1, NewKeepsIInv DEF Open, Clear
  <2>2. CASE ResumeLatestSession(c)
    BY <2>2, ResumeKeepsIInv
  <2>3. CASE executeMessage(c)
    BY <2>3, executeMessageKeepsIInv
  <2>4. CASE Record(c)
    <3>1. /\ queue[c] # <<>> /\ Head(queue[c]) \in {Head(queue[c]), Torn}
          /\ files' = [files EXCEPT ![id[c]] = AppendLine(@, Head(queue[c]))]
          /\ queue' = [queue EXCEPT ![c] = Tail(@)]
          /\ unsound' \in {unsound, unsound \cup {id[c]}}
          /\ id[c] \notin unsound' => ~ Shared(c, id[c])
          /\ UNCHANGED <<at, history, id, said, heir, clock, started>>
      BY <2>4 DEF Record
    <3> QED BY <3>1, WriteKeepsIInv
  <2>5. CASE RecordFails(c)
    <3>1. /\ queue[c] # <<>> /\ Torn \in {Head(queue[c]), Torn}
          /\ files' \in {files, [files EXCEPT ![id[c]] = AppendLine(@, Torn)]}
          /\ queue' = [queue EXCEPT ![c] = Tail(@)]
          /\ unsound' \in {unsound, unsound \cup {id[c]}} /\ id[c] \in unsound'
          /\ UNCHANGED <<at, history, id, said, heir, clock, started>>
      BY <2>5 DEF RecordFails
    <3> QED BY <3>1, WriteKeepsIInv
  <2>6. CASE EndTurn(c)
    <3>1. CASE Leave(c)
      <4>1. at[c] # "off" /\ queue[c] = <<>> /\ UNCHANGED <<files, clock, started, unsound>>
        BY <2>6 DEF EndTurn
      <4>2. at[c] # "off" => id[c] \in SessionIDs
        BY OnHasID DEF IInv
      <4>3. /\ files \in [SessionIDs -> Seq(Lines)] /\ unsound \subseteq SessionIDs
            /\ \A n \in 1 .. Len(files[id[c]]) - 1 : files[id[c]][n] # Torn
        BY <4>1, <4>2 DEF IInv, Types, TornIsLast
      <4> QED BY <3>1, <4>1, <4>3, LeaveKeepsIInv
    <3>2. CASE ~ Leave(c)
      <4>1. /\ at[c] # "off" /\ queue[c] = <<>> /\ at' = [at EXCEPT ![c] = "prompt"]
            /\ history' \in {history, [history EXCEPT ![c] = CompactMessages(@)]}
            /\ UNCHANGED <<queue, id, said, heir, files, clock, started, unsound>>
        BY <2>6, <3>2 DEF EndTurn
      <4> QED BY <4>1, CompactKeepsIInv
    <3> QED BY <3>1, <3>2
  <2>7. CASE SlashCompact(c)
    <3>1. /\ at[c] # "off" /\ queue[c] = <<>>
      BY <2>7 DEF SlashCompact, IInv, QueueIsLast
    <3>2. at' = [at EXCEPT ![c] = "prompt"]
      BY <2>7 DEF SlashCompact, IInv, Types
    <3>3. /\ history' \in {history, [history EXCEPT ![c] = CompactMessages(@)]}
          /\ UNCHANGED <<queue, id, said, heir, files, clock, started, unsound>>
      BY <2>7 DEF SlashCompact
    <3> QED BY <3>1, <3>2, <3>3, CompactKeepsIInv
  <2>8. CASE Quit(c)
    <3>1. /\ at[c] # "off" /\ queue[c] = <<>> /\ UNCHANGED <<files, clock, started, unsound>>
          /\ Leave(c)
      BY <2>8 DEF Quit, IInv, QueueIsLast
    <3>2. id[c] \in SessionIDs
      BY <3>1, OnHasID DEF IInv
    <3>3. /\ files \in [SessionIDs -> Seq(Lines)] /\ unsound \subseteq SessionIDs
          /\ \A n \in 1 .. Len(files[id[c]]) - 1 : files[id[c]][n] # Torn
      BY <3>2 DEF IInv, Types, TornIsLast
    <3> QED BY <3>1, <3>3, LeaveKeepsIInv
  <2>9. CASE Crash(c)
    BY <2>9, CrashKeepsIInv
  <2> QED BY <1>2, <2>1, <2>2, <2>3, <2>4, <2>5, <2>6, <2>7, <2>8, <2>9
<1> QED BY <1>1, <1>2 DEF Next

THEOREM SessionInvariant == Spec => []IInv
<1>1. Init => IInv
  BY InitIInv
<1>2. IInv /\ [Next]_vars => IInv'
  BY NextKeepsIInv
<1> QED BY <1>1, <1>2, PTL DEF Spec

-------------------------------------------------------------------------------
(* The properties.                                                         *)

\* A history that is ready is accepted with the next user message.
LEMMA ReadyIsAccepted ==
    ASSUME NEW h \in Seq(Messages), Ready(h)
    PROVE  Accepted(Append(h, User(0)))
<1> DEFINE u == User(0)
           g == Append(h, u)
<1>1. u \in Messages /\ IsUser(u) /\ ~ IsCall(u) /\ u.role # "tool"
  BY DEF User, Messages, IsUser, IsCall
<1> HIDE DEF u
<1>2. /\ g \in Seq(Messages) /\ Len(g) = Len(h) + 1 /\ Len(h) \in Nat
      /\ g[Len(h) + 1] = u /\ \A i \in 1 .. Len(h) : g[i] = h[i]
  BY <1>1
<1> HIDE DEF g
<1>3. IsUser(g[1])
  <2>1. CASE h = <<>>
    BY <1>1, <1>2, <2>1
  <2>2. CASE h # <<>>
    <3>1. 1 \in 1 .. Len(h)
      BY <2>2, EmptySeq
    <3> QED BY <1>2, <2>2, <3>1 DEF Ready
  <2> QED BY <2>1, <2>2
<1>4. ASSUME NEW i \in 2 .. Len(g)
      PROVE  Fits(g[i - 1], g[i])
  <2>1. CASE i = Len(g)
    <3>1. g[i] = u /\ g[i - 1] = h[Len(h)] /\ h # <<>>
      BY <1>2, <1>4, <2>1
    <3> QED BY <1>1, <3>1 DEF Ready, Fits
  <2>2. CASE i # Len(g)
    <3>1. i - 1 \in 1 .. Len(h) - 1 /\ i - 1 + 1 = i /\ g[i - 1] = h[i - 1] /\ g[i] = h[i]
      BY <1>2, <1>4, <2>2
    <3> QED BY <3>1 DEF Ready
  <2> QED BY <2>1, <2>2
<1>5. ~ IsCall(Last(g))
  BY <1>1, <1>2 DEF Last
<1> QED BY <1>3, <1>4, <1>5 DEF Accepted, Fits, g, u

\* The types, and that a queue is the end of the history and a torn line the last of
\* its file.
THEOREM TypeCorrect == Spec => []TypeOK
<1>1. ASSUME IInv PROVE TypeOK
  <2>1. ASSUME NEW c \in Chats PROVE IsSuffix(queue[c], history[c])
    <3>1. /\ queue[c] \in Seq(Messages) /\ history[c] \in Seq(Messages)
          /\ Ends(queue[c], history[c])
      BY <1>1 DEF IInv, Types, QueueIsLast
    <3> QED BY <3>1, EndsIsSuffix
  <2> QED BY <1>1, <2>1 DEF TypeOK, IInv, Types, QueueIsLast, TornIsLast
<1> QED BY <1>1, SessionInvariant, PTL

\* A chat is never left with a history that providers refuse.
THEOREM HistoryAccepted == Spec => []HistoryIsAccepted
<1>1. ASSUME IInv PROVE HistoryIsAccepted
  <2>1. \A c \in Chats : history[c] \in Seq(Messages) /\ (~ heir[c] => Ready(history[c]))
    BY <1>1 DEF IInv, Types, HistoryIsReady
  <2> QED BY <2>1, ReadyIsAccepted DEF HistoryIsAccepted
<1> QED BY <1>1, SessionInvariant, PTL

\* No turn is forgotten, however often the history was compacted.
THEOREM TurnsRemembered == Spec => []TurnsAreRemembered
<1>1. IInv => TurnsAreRemembered
  BY DEF IInv, Remembered, TurnsAreRemembered
<1> QED BY <1>1, SessionInvariant, PTL

\* A resume of a sound session brings back every turn of the chat.
THEOREM RecordComplete == Spec => []RecordIsComplete
<1>1. ASSUME IInv PROVE RecordIsComplete
  <2> SUFFICES ASSUME NEW c \in Chats, at[c] = "prompt", id[c] \notin unsound
               PROVE  /\ Covered(loadSession(id[c])) = said[c]
                      /\ history[c] # <<>> =>
                             IsSuffix(Tail(history[c]), loadSession(id[c]))
    BY DEF RecordIsComplete
  <2>1. id[c] \in SessionIDs /\ queue[c] = <<>> /\ history[c] \in Seq(Messages)
    BY <1>1, OnHasID DEF IInv, QueueIsLast, Types
  <2>2. files[id[c]] \in Seq(Messages)
    BY <1>1, <2>1 DEF IInv, SoundIsReady
  <2>3. Whole(c) = files[id[c]]
    BY <2>1, <2>2, ConcatEmptySeq DEF Whole
  <2>4. loadSession(id[c]) = files[id[c]]
    BY <1>1, <2>1, <2>2, LoadedMessages DEF IInv
  <2>5. /\ Covered(Whole(c)) = said[c]
        /\ history[c] # <<>> => Ends(Tail(history[c]), Whole(c))
    BY <1>1, <2>1 DEF IInv, Recorded
  <2>6. ASSUME history[c] # <<>> PROVE IsSuffix(Tail(history[c]), files[id[c]])
    <3>1. Tail(history[c]) \in Seq(Messages)
      BY <2>1, <2>6, HeadTailProperties
    <3> QED BY <2>2, <2>3, <2>5, <2>6, <3>1, EndsIsSuffix
  <2> QED BY <2>3, <2>4, <2>5, <2>6
<1> QED BY <1>1, SessionInvariant, PTL
===============================================================================
