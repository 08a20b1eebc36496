-------------------------- MODULE ServiceState_proofs --------------------------
(***************************************************************************)
(* The parts of Services that keep something for their callers: the        *)
(* accounts, the buckets of the limiter, the answer of a chat and the      *)
(* memory.  For each of them an inductive invariant and the property of    *)
(* Services, since a behaviour of Services is one of each part.            *)
(***************************************************************************)
EXTENDS Services, FiniteSetTheorems, SequenceTheorems, WellFoundedInduction, TLAPS

\* The well-foundedness of the numbers, which stands in for an induction.
LEMMA Smallest ==
    ASSUME NEW S \in SUBSET Nat, S # {}
    PROVE  \E m \in S : \A k \in S : m <= k
<1>1. PICK m \in S : \A k \in S : ~ (<<k, m>> \in OpToRel(<, Nat))
  BY NatLessThanWellFounded, WFMin
<1>2. \A k \in S : ~ (k < m)
  BY <1>1 DEF OpToRel
<1> QED BY <1>2

-------------------------------------------------------------------------------
(* The accounts.                                                           *)
\* The running sums of v, up to the n-th.
Runs(f, v, n) == f[0] = 0 /\ \A i \in 1 .. n : f[i] = f[i - 1] + v[i]
IsSums(f, v, n) == f \in [0 .. n -> Int] /\ Runs(f, v, n)

LEMMA SumsExist ==
    ASSUME NEW n \in Nat, NEW v \in [1 .. n -> Int]
    PROVE  \E f : IsSums(f, v, n)
<1> DEFINE Missed == {m \in 0 .. n : ~ \E f : IsSums(f, v, m)}
<1>1. SUFFICES ASSUME Missed # {} PROVE FALSE
  <2>1. n \in 0 .. n
    OBVIOUS
  <2> QED BY <2>1
<1>2. PICK m \in Missed : \A k \in Missed : m <= k
  <2>1. Missed \in SUBSET Nat
    OBVIOUS
  <2> HIDE DEF Missed
  <2> QED BY <1>1, <2>1, Smallest
<1>3. CASE m = 0
  <2> DEFINE f == [i \in 0 .. 0 |-> 0]
  <2>1. f \in [0 .. 0 -> Int] /\ f[0] = 0
    OBVIOUS
  <2>2. IsSums(f, v, 0)
    BY <2>1 DEF IsSums, Runs
  <2> QED BY <1>2, <1>3, <2>2
<1>4. CASE m # 0
  <2>1. m \in 1 .. n /\ m - 1 \in 0 .. n /\ m - 1 \notin Missed
    BY <1>2, <1>4
  <2>2. PICK f : IsSums(f, v, m - 1)
    BY <2>1
  <2> DEFINE g == [i \in 0 .. m |-> IF i = m THEN f[m - 1] + v[m] ELSE f[i]]
  <2>3. f \in [0 .. m - 1 -> Int] /\ f[0] = 0 /\ \A i \in 1 .. m - 1 : f[i] = f[i - 1] + v[i]
    BY <2>2 DEF IsSums, Runs
  <2>4. g \in [0 .. m -> Int] /\ g[m] = f[m - 1] + v[m] /\ \A i \in 0 .. m - 1 : g[i] = f[i]
    BY <2>1, <2>3
  <2> HIDE DEF g
  <2>5. \A i \in 1 .. m : g[i] = g[i - 1] + v[i]
    <3> SUFFICES ASSUME NEW i \in 1 .. m PROVE g[i] = g[i - 1] + v[i]
      OBVIOUS
    <3>1. CASE i = m
      BY <2>1, <2>4, <3>1
    <3>2. CASE i # m
      <4>1. i \in 1 .. m - 1 /\ i \in 0 .. m - 1 /\ i - 1 \in 0 .. m - 1
        BY <2>1, <3>2
      <4> QED BY <2>3, <2>4, <4>1
    <3> QED BY <3>1, <3>2
  <2>6. IsSums(g, v, m)
    BY <2>1, <2>3, <2>4, <2>5 DEF IsSums, Runs
  <2> QED BY <1>2, <2>6
<1> QED BY <1>3, <1>4

\* Running sums are alike as long as what they sum is.
LEMMA SumsAgree ==
    ASSUME NEW n \in Nat, NEW p \in 0 .. n, NEW v, NEW w, NEW f, NEW g,
           Runs(f, v, p), Runs(g, w, n), \A i \in 1 .. p : v[i] = w[i]
    PROVE  \A i \in 0 .. p : f[i] = g[i]
<1> DEFINE Wrong == {i \in 0 .. p : f[i] # g[i]}
<1>1. SUFFICES ASSUME Wrong # {} PROVE FALSE
  OBVIOUS
<1>2. PICK m \in Wrong : \A k \in Wrong : m <= k
  <2>1. Wrong \in SUBSET Nat
    OBVIOUS
  <2> HIDE DEF Wrong
  <2> QED BY <1>1, <2>1, Smallest
<1>3. m # 0
  BY <1>2 DEF IsSums, Runs
<1>4. m \in 1 .. p /\ m \in 1 .. n /\ m - 1 \in 0 .. p /\ f[m - 1] = g[m - 1]
  BY <1>2, <1>3
<1>5. f[m] = f[m - 1] + v[m] /\ g[m] = g[m - 1] + w[m] /\ v[m] = w[m]
  BY <1>4 DEF IsSums, Runs
<1> QED BY <1>2, <1>4, <1>5

\* The recursive function of Sum is one of running sums.
LEMMA SumIsLast ==
    ASSUME NEW n \in Nat, NEW v \in [1 .. n -> Int]
    PROVE  \E f : IsSums(f, v, n) /\ Bill!Sum(v, n) = f[n]
<1> DEFINE body(f) == [i \in 0 .. n |-> IF i = 0 THEN 0 ELSE f[i - 1] + v[i]]
           upTo == CHOOSE f : f = body(f)
<1>1. PICK f : IsSums(f, v, n)
  BY SumsExist
<1>2. f = body(f)
  <2>1. f \in [0 .. n -> Int] /\ f[0] = 0 /\ \A i \in 1 .. n : f[i] = f[i - 1] + v[i]
    BY <1>1 DEF IsSums, Runs
  <2>2. DOMAIN f = 0 .. n /\ \A i \in 0 .. n : f[i] = IF i = 0 THEN 0 ELSE f[i - 1] + v[i]
    BY <2>1
  <2> QED BY <2>1, <2>2
<1>3. upTo = body(upTo)
  BY <1>2
<1>4. Bill!Sum(v, n) = upTo[n]
  BY DEF Bill!Sum
<1>5. Runs(upTo, v, n)
  <2>1. \A i \in 0 .. n : upTo[i] = IF i = 0 THEN 0 ELSE upTo[i - 1] + v[i]
    BY <1>3
  <2> HIDE DEF upTo
  <2> QED BY <2>1 DEF Runs
<1> HIDE DEF upTo
<1>6. upTo[n] = f[n]
  <2>1. n \in 0 .. n
    OBVIOUS
  <2> QED BY <1>1, <1>5, <2>1, SumsAgree DEF IsSums
<1> QED BY <1>1, <1>4, <1>6

\* A sum over one line more.
LEMMA SumGrows ==
    ASSUME NEW n \in Nat, NEW v \in [1 .. n -> Int], NEW w \in [1 .. n + 1 -> Int],
           \A i \in 1 .. n : v[i] = w[i]
    PROVE  Bill!Sum(w, n + 1) = Bill!Sum(v, n) + w[n + 1] /\ Bill!Sum(v, n) \in Int
<1>1. PICK f : IsSums(f, v, n) /\ Bill!Sum(v, n) = f[n]
  BY SumIsLast
<1>2. PICK g : IsSums(g, w, n + 1) /\ Bill!Sum(w, n + 1) = g[n + 1]
  BY SumIsLast
<1>3. n \in 0 .. n + 1 /\ n \in 0 .. n /\ n + 1 \in 1 .. n + 1 /\ (n + 1) - 1 = n
      /\ n + 1 \in Nat
  OBVIOUS
<1>4. f[n] = g[n]
  <2>1. Runs(f, v, n) /\ Runs(g, w, n + 1)
    BY <1>1, <1>2 DEF IsSums
  <2>2. \A i \in 0 .. n : f[i] = g[i]
    BY <1>3, <2>1, SumsAgree
  <2> QED BY <1>3, <2>2
<1>5. g[n + 1] = g[n] + w[n + 1] /\ f[n] \in Int
  BY <1>1, <1>2, <1>3 DEF IsSums, Runs
<1> QED BY <1>1, <1>2, <1>4, <1>5

LEMMA SumOfNothing ==
    ASSUME NEW n \in Nat, NEW v \in [1 .. n -> Int], \A i \in 1 .. n : v[i] = 0
    PROVE  Bill!Sum(v, n) = 0
<1>1. PICK f : IsSums(f, v, n) /\ Bill!Sum(v, n) = f[n]
  BY SumIsLast
<1> DEFINE g == [i \in 0 .. n |-> 0]
<1>2. Runs(g, v, n)
  BY DEF Runs
<1>3. n \in 0 .. n /\ g[n] = 0
  OBVIOUS
<1> HIDE DEF g
<1>4. f[n] = g[n]
  BY <1>1, <1>2, <1>3, SumsAgree DEF IsSums
<1> QED BY <1>1, <1>3, <1>4

-------------------------------------------------------------------------------
Totals == [tokens : Int, cost : Int]
BillLines == [of : Sessions, day : 1 .. LastDay, tokens : Int, cost : Int, life : Nat,
              readable : BOOLEAN]

\* Stored, of any file and life.
TokensOf(f, l, lines) ==
    [i \in DOMAIN f |-> IF i \in lines /\ f[i].life = l THEN f[i].tokens ELSE 0]
CostsOf(f, l, lines) ==
    [i \in DOMAIN f |-> IF i \in lines /\ f[i].life = l THEN f[i].cost ELSE 0]
StoredIn(f, l, lines) == [tokens |-> Bill!Sum(TokensOf(f, l, lines), Len(f)),
                          cost   |-> Bill!Sum(CostsOf(f, l, lines), Len(f))]
OfSession(f, s) == {i \in DOMAIN f : f[i].of = s}
OfDay(f, d) == {i \in DOMAIN f : f[i].day = d}

BillTypes ==
    /\ file \in Seq(BillLines) /\ torn \in BOOLEAN
    /\ today \in 1 .. LastDay /\ life \in Nat
    /\ sessions \in [DOMAIN sessions -> Totals]
    /\ daily \in [DOMAIN daily -> Totals]
    /\ dailyCost \in [DOMAIN dailyCost -> Int]

\* A later life has written nothing yet.
LivesAreOver == \A i \in DOMAIN file : file[i].life <= life

SessionsMatch ==
    \A s \in Sessions :
        Bill!Entry(sessions, s, Bill!Zero) = StoredIn(file, life, OfSession(file, s))
DaysMatch ==
    \A d \in 1 .. LastDay :
        /\ Bill!Entry(daily, d, Bill!Zero) = StoredIn(file, life, OfDay(file, d))
        /\ Bill!Entry(dailyCost, d, 0) = Bill!Entry(daily, d, Bill!Zero).cost
NamesMatch == DOMAIN sessions = {file[i].of : i \in {j \in DOMAIN file : file[j].life = life}}
BudgetsHold ==
    /\ DailyMaxCost > 0 => \A d \in 1 .. LastDay : Bill!Entry(dailyCost, d, 0) <= DailyMaxCost
    /\ SessionMaxTokens > 0 => \A s \in DOMAIN sessions : sessions[s].tokens <= SessionMaxTokens

BillIInv ==
    /\ BillTypes /\ LivesAreOver /\ SessionsMatch /\ DaysMatch /\ NamesMatch /\ BudgetsHold

LEMMA AmountsAreNumbers ==
    ASSUME NEW f \in Seq(BillLines), NEW l, NEW lines
    PROVE  /\ TokensOf(f, l, lines) \in [1 .. Len(f) -> Int]
           /\ CostsOf(f, l, lines) \in [1 .. Len(f) -> Int]
<1>1. \A i \in DOMAIN f : f[i].tokens \in Int /\ f[i].cost \in Int
  <2>1. \A i \in DOMAIN f : f[i] \in BillLines
    BY ElementOfSeq
  <2> QED BY <2>1 DEF BillLines
<1>2. DOMAIN f = 1 .. Len(f)
  OBVIOUS
<1> QED BY <1>1, <1>2 DEF TokensOf, CostsOf

LEMMA StoredGrows ==
    ASSUME NEW f \in Seq(BillLines), NEW line \in BillLines, NEW more
    PROVE  StoredIn(Append(f, line), line.life, more) =
               IF Len(f) + 1 \in more
               THEN Bill!Plus(StoredIn(f, line.life, more), line.tokens, line.cost)
               ELSE StoredIn(f, line.life, more)
<1> DEFINE l == line.life
           ff == Append(f, line)
           n  == Len(f)
           v  == TokensOf(f, l, more)
           w  == TokensOf(ff, l, more)
           vc == CostsOf(f, l, more)
           wc == CostsOf(ff, l, more)
<1>1. n \in Nat /\ Len(ff) = n + 1 /\ ff \in Seq(BillLines) /\ ff[n + 1] = line
      /\ (\A i \in 1 .. n : ff[i] = f[i]) /\ DOMAIN f = 1 .. n /\ DOMAIN ff = 1 .. n + 1
  BY AppendProperties
<1>2. line.tokens \in Int /\ line.cost \in Int
  BY DEF BillLines
<1>3. v \in [1 .. n -> Int] /\ w \in [1 .. n + 1 -> Int] /\ vc \in [1 .. n -> Int]
      /\ wc \in [1 .. n + 1 -> Int]
  BY <1>1, AmountsAreNumbers
<1>5. /\ \A i \in 1 .. n : v[i] = w[i] /\ vc[i] = wc[i]
      /\ w[n + 1] = IF n + 1 \in more THEN line.tokens ELSE 0
      /\ wc[n + 1] = IF n + 1 \in more THEN line.cost ELSE 0
  <2>1. \A i \in 1 .. n : v[i] = w[i] /\ vc[i] = wc[i]
    BY <1>1 DEF TokensOf, CostsOf
  <2>2. n + 1 \in DOMAIN ff
    BY <1>1
  <2> QED BY <1>1, <2>1, <2>2 DEF TokensOf, CostsOf
<1> HIDE DEF v, w, vc, wc
<1>6. /\ Bill!Sum(w, n + 1) = Bill!Sum(v, n) + w[n + 1] /\ Bill!Sum(v, n) \in Int
      /\ Bill!Sum(wc, n + 1) = Bill!Sum(vc, n) + wc[n + 1] /\ Bill!Sum(vc, n) \in Int
  BY <1>1, <1>3, <1>5, SumGrows
<1>7. StoredIn(f, l, more) = [tokens |-> Bill!Sum(v, n), cost |-> Bill!Sum(vc, n)]
  BY DEF StoredIn, v, vc
<1>8. StoredIn(ff, l, more) = [tokens |-> Bill!Sum(w, n + 1), cost |-> Bill!Sum(wc, n + 1)]
  BY <1>1 DEF StoredIn, w, wc
<1>9. CASE n + 1 \in more
  <2>1. Bill!Sum(w, n + 1) = Bill!Sum(v, n) + line.tokens /\ Bill!Sum(wc, n + 1) = Bill!Sum(vc, n) + line.cost
    BY <1>5, <1>6, <1>9
  <2> QED BY <1>7, <1>8, <1>9, <2>1 DEF Bill!Plus
<1>10. CASE n + 1 \notin more
  <2>1. Bill!Sum(w, n + 1) = Bill!Sum(v, n) /\ Bill!Sum(wc, n + 1) = Bill!Sum(vc, n)
    BY <1>5, <1>6, <1>10
  <2> QED BY <1>7, <1>8, <1>10, <2>1
<1> QED BY <1>9, <1>10

LEMMA StoredSame ==
    ASSUME NEW f, NEW l, NEW less, NEW more, less = more \cap DOMAIN f
    PROVE  StoredIn(f, l, less) = StoredIn(f, l, more)
<1>1. TokensOf(f, l, less) = TokensOf(f, l, more) /\ CostsOf(f, l, less) = CostsOf(f, l, more)
  BY DEF TokensOf, CostsOf
<1> QED BY <1>1 DEF StoredIn

LEMMA StoredOfNewLife ==
    ASSUME NEW f \in Seq(BillLines), NEW l, NEW lines, \A i \in DOMAIN f : f[i].life # l
    PROVE  StoredIn(f, l, lines) = Bill!Zero
<1>1. Len(f) \in Nat /\ DOMAIN f = 1 .. Len(f)
  OBVIOUS
<1>2. \A i \in 1 .. Len(f) : TokensOf(f, l, lines)[i] = 0 /\ CostsOf(f, l, lines)[i] = 0
  BY <1>1 DEF TokensOf, CostsOf
<1>3. Bill!Sum(TokensOf(f, l, lines), Len(f)) = 0 /\ Bill!Sum(CostsOf(f, l, lines), Len(f)) = 0
  BY <1>1, <1>2, AmountsAreNumbers, SumOfNothing
<1> QED BY <1>3 DEF StoredIn, Bill!Zero

\* Setting an entry, and taking it back.
LEMMA EntryOfWith ==
    \A m, k, v :
        /\ DOMAIN Bill!With(m, k, v) = DOMAIN m \cup {k}
        /\ \A x \in DOMAIN m \cup {k} :
              Bill!With(m, k, v)[x] = IF x = k THEN v ELSE m[x]
        /\ \A x, zero : Bill!Entry(Bill!With(m, k, v), x, zero) =
                            IF x = k THEN v ELSE Bill!Entry(m, x, zero)
  BY DEF Bill!With, Bill!Entry

LEMMA PutBackUndoes ==
    ASSUME NEW D, NEW S, NEW m \in [D -> S], NEW k, NEW v
    PROVE  Bill!PutBack(Bill!With(m, k, v), k, m) = m
<1> DEFINE w == Bill!With(m, k, v)
<1>1. DOMAIN w = D \cup {k} /\ \A x \in D \cup {k} : w[x] = IF x = k THEN v ELSE m[x]
  <2>1. DOMAIN m = D
    OBVIOUS
  <2> QED BY <2>1 DEF Bill!With
<1> HIDE DEF w
<1>2. CASE k \in D
  <2>1. Bill!PutBack(w, k, m) = [x \in D \cup {k} |-> IF x = k THEN m[k] ELSE w[x]]
    BY <1>1, <1>2 DEF Bill!PutBack, Bill!With
  <2>2. D \cup {k} = D /\ \A x \in D : (IF x = k THEN m[k] ELSE w[x]) = m[x]
    BY <1>1, <1>2
  <2>3. Bill!PutBack(w, k, m) = [x \in D |-> m[x]]
    BY <2>1, <2>2
  <2> QED BY <2>3 DEF w
<1>3. CASE k \notin D
  <2>1. Bill!PutBack(w, k, m) = [x \in (D \cup {k}) \ {k} |-> w[x]]
    BY <1>1, <1>3 DEF Bill!PutBack
  <2>2. (D \cup {k}) \ {k} = D /\ \A x \in D : w[x] = m[x]
    BY <1>1, <1>3
  <2>3. Bill!PutBack(w, k, m) = [x \in D |-> m[x]]
    BY <2>1, <2>2
  <2> QED BY <2>3 DEF w
<1> QED BY <1>2, <1>3

-------------------------------------------------------------------------------
\* A life that has counted nothing, over lines of others.
Fresh ==
    /\ sessions = Bill!Nothing /\ daily = Bill!Nothing /\ dailyCost = Bill!Nothing
    /\ file \in Seq(BillLines) /\ torn \in BOOLEAN /\ today \in 1 .. LastDay /\ life \in Nat
    /\ \A i \in DOMAIN file : file[i].life # life /\ file[i].life <= life

LEMMA FreshIsSound == Fresh => BillIInv
<1> SUFFICES ASSUME Fresh PROVE BillIInv
  OBVIOUS
<1>1. /\ DOMAIN sessions = {} /\ DOMAIN daily = {} /\ DOMAIN dailyCost = {}
      /\ sessions \in [DOMAIN sessions -> Totals] /\ daily \in [DOMAIN daily -> Totals]
      /\ dailyCost \in [DOMAIN dailyCost -> Int]
  BY DEF Fresh, Bill!Nothing
<1>2. \A lines : StoredIn(file, life, lines) = Bill!Zero
  BY StoredOfNewLife DEF Fresh
<1>3. /\ \A s : Bill!Entry(sessions, s, Bill!Zero) = Bill!Zero
      /\ \A d : Bill!Entry(daily, d, Bill!Zero) = Bill!Zero /\ Bill!Entry(dailyCost, d, 0) = 0
  BY <1>1 DEF Bill!Entry
<1>4. Bill!Zero.cost = 0
  BY DEF Bill!Zero
<1>5. BillTypes /\ LivesAreOver
  BY <1>1 DEF Fresh, BillTypes, LivesAreOver
<1>6. SessionsMatch /\ DaysMatch
  BY <1>2, <1>3, <1>4 DEF SessionsMatch, DaysMatch
<1>7. NamesMatch
  BY <1>1 DEF Fresh, NamesMatch
<1>8. BudgetsHold
  BY <1>1, <1>3, ServiceAssumption DEF BudgetsHold, ServiceAssumption
<1> QED BY <1>5, <1>6, <1>7, <1>8 DEF BillIInv

LEMMA BillInitIInv == Bill!Init => BillIInv
<1> SUFFICES ASSUME Bill!Init PROVE BillIInv
  OBVIOUS
<1>1. /\ sessions = Bill!Nothing /\ daily = Bill!Nothing /\ dailyCost = Bill!Nothing
      /\ file = <<>> /\ torn = FALSE /\ today = 1 /\ life = 1
  BY DEF Bill!Init
<1>2. file \in Seq(BillLines) /\ DOMAIN file = {}
  BY <1>1
<1>3. torn \in BOOLEAN
  BY <1>1
<1>4. today \in 1 .. LastDay /\ life \in Nat
  BY <1>1, ServiceAssumption DEF ServiceAssumption
<1>5. Fresh
  BY <1>1, <1>2, <1>3, <1>4 DEF Fresh
<1> QED BY <1>5, FreshIsSound

\* The store takes the line, and the totals count it.
LEMMA CountKeepsIInv ==
    ASSUME BillIInv, NEW s \in Sessions, NEW n \in Int, NEW c \in Int,
           ~ Bill!Refused(s, n, c), Bill!AppendLine(s, n, c), Bill!Become(Bill!Count(s, n, c)),
           UNCHANGED <<today, life>>
    PROVE  BillIInv'
<1> DEFINE line == [of |-> s, day |-> today, tokens |-> n, cost |-> c, life |-> life,
                    readable |-> ~ torn]
           total == Bill!Plus(Bill!Entry(sessions, s, Bill!Zero), n, c)
           ofDay == Bill!Plus(Bill!Entry(daily, today, Bill!Zero), n, c)
           spentToday == Bill!Entry(dailyCost, today, 0) + c
<1>0. /\ file \in Seq(BillLines) /\ torn \in BOOLEAN /\ today \in 1 .. LastDay /\ life \in Nat
      /\ sessions \in [DOMAIN sessions -> Totals]
      /\ daily \in [DOMAIN daily -> Totals]
      /\ dailyCost \in [DOMAIN dailyCost -> Int]
  BY DEF BillIInv, BillTypes
<1>1. /\ file' = Append(file, line) /\ torn' = FALSE
      /\ sessions' = Bill!With(sessions, s, total)
      /\ daily' = Bill!With(daily, today, ofDay)
      /\ dailyCost' = Bill!With(dailyCost, today, spentToday)
      /\ today' = today /\ life' = life
  BY DEF Bill!AppendLine, Bill!Become, Bill!Count
<1>2. /\ SessionMaxTokens > 0 => total.tokens <= SessionMaxTokens
      /\ DailyMaxCost > 0 => spentToday <= DailyMaxCost
  <2>1. total.tokens = Bill!Entry(sessions, s, Bill!Zero).tokens + n
    BY DEF Bill!Plus
  <2>2. Bill!Entry(sessions, s, Bill!Zero).tokens \in Int /\ Bill!Entry(dailyCost, today, 0) \in Int
    BY <1>0 DEF Bill!Entry, Bill!Zero, Totals
  <2>3. SessionMaxTokens \in Nat /\ DailyMaxCost \in Nat
    BY ServiceAssumption DEF ServiceAssumption
  <2> HIDE DEF total
  <2> QED BY <2>1, <2>2, <2>3 DEF Bill!Refused
<1>3. line \in BillLines /\ line.of = s /\ line.day = today /\ line.tokens = n /\ line.cost = c
      /\ line.life = life
  BY <1>0 DEF BillLines
<1>4. total \in Totals /\ ofDay \in Totals /\ spentToday \in Int
  BY <1>0 DEF Bill!Entry, Bill!Zero, Totals, Bill!Plus
<1> HIDE DEF line, total, ofDay, spentToday
<1>5. /\ Len(file) \in Nat /\ file' \in Seq(BillLines) /\ file'[Len(file) + 1] = line
      /\ \A i \in DOMAIN file : file'[i] = file[i]
      /\ DOMAIN file' = DOMAIN file \cup {Len(file) + 1} /\ Len(file) + 1 \notin DOMAIN file
  <2>1. Len(file) \in Nat /\ DOMAIN file = 1 .. Len(file) /\ DOMAIN file' = 1 .. Len(file) + 1
    BY <1>0, <1>1, <1>3, AppendProperties
  <2> QED BY <1>0, <1>1, <1>3, <2>1, AppendProperties
<1>5a. ASSUME NEW less, NEW more, less = more \cap DOMAIN file
       PROVE  StoredIn(file', life, more) =
                  IF Len(file) + 1 \in more THEN Bill!Plus(StoredIn(file, life, less), n, c)
                                           ELSE StoredIn(file, life, less)
  <2>1. file \in Seq(BillLines) /\ line \in BillLines
    BY <1>0, <1>3
  <2>2. StoredIn(Append(file, line), line.life, more) =
            IF Len(file) + 1 \in more
            THEN Bill!Plus(StoredIn(file, line.life, more), line.tokens, line.cost)
            ELSE StoredIn(file, line.life, more)
    BY <2>1, StoredGrows
  <2>3. StoredIn(file, life, less) = StoredIn(file, life, more)
    BY <1>5a, StoredSame
  <2> QED BY <1>1, <1>3, <2>2, <2>3
<1>6. BillTypes'
  <2>1. /\ sessions' \in [DOMAIN sessions' -> Totals] /\ daily' \in [DOMAIN daily' -> Totals]
        /\ dailyCost' \in [DOMAIN dailyCost' -> Int]
    BY <1>0, <1>1, <1>4 DEF Bill!With
  <2>2. torn' \in BOOLEAN
    BY <1>1
  <2> QED BY <1>0, <1>1, <1>5, <2>1, <2>2 DEF BillTypes
<1>7. LivesAreOver'
  BY <1>0, <1>1, <1>3, <1>5 DEF BillIInv, LivesAreOver
<1>8. SessionsMatch'
  <2> SUFFICES ASSUME NEW x \in Sessions
               PROVE  Bill!Entry(sessions', x, Bill!Zero) = StoredIn(file', life', OfSession(file', x))
    BY DEF SessionsMatch
  <2>1. OfSession(file, x) = OfSession(file', x) \cap DOMAIN file
    BY <1>5 DEF OfSession
  <2>2. Len(file) + 1 \in OfSession(file', x) <=> x = s
    BY <1>3, <1>5 DEF OfSession
  <2>3. Bill!Entry(sessions, x, Bill!Zero) = StoredIn(file, life, OfSession(file, x))
    BY DEF BillIInv, SessionsMatch
  <2>4. StoredIn(file', life, OfSession(file', x)) =
            IF x = s THEN Bill!Plus(StoredIn(file, life, OfSession(file, x)), n, c)
                     ELSE StoredIn(file, life, OfSession(file, x))
    BY <1>0, <1>5a, <2>1, <2>2
  <2>5. Bill!Entry(sessions', x, Bill!Zero) = IF x = s THEN total ELSE Bill!Entry(sessions, x, Bill!Zero)
    BY <1>1, EntryOfWith
  <2> QED BY <1>1, <2>3, <2>4, <2>5 DEF total
<1>9. DaysMatch'
  <2> SUFFICES ASSUME NEW x \in 1 .. LastDay
               PROVE  /\ Bill!Entry(daily', x, Bill!Zero) = StoredIn(file', life', OfDay(file', x))
                      /\ Bill!Entry(dailyCost', x, 0) = Bill!Entry(daily', x, Bill!Zero).cost
    BY DEF DaysMatch
  <2>1. OfDay(file, x) = OfDay(file', x) \cap DOMAIN file
    BY <1>5 DEF OfDay
  <2>2. Len(file) + 1 \in OfDay(file', x) <=> x = today
    BY <1>3, <1>5 DEF OfDay
  <2>3. /\ Bill!Entry(daily, x, Bill!Zero) = StoredIn(file, life, OfDay(file, x))
        /\ Bill!Entry(dailyCost, x, 0) = Bill!Entry(daily, x, Bill!Zero).cost
    BY DEF BillIInv, DaysMatch
  <2>4. StoredIn(file', life, OfDay(file', x)) =
            IF x = today THEN Bill!Plus(StoredIn(file, life, OfDay(file, x)), n, c)
                         ELSE StoredIn(file, life, OfDay(file, x))
    BY <1>0, <1>5a, <2>1, <2>2
  <2>5. /\ Bill!Entry(daily', x, Bill!Zero) = IF x = today THEN ofDay ELSE Bill!Entry(daily, x, Bill!Zero)
        /\ Bill!Entry(dailyCost', x, 0) = IF x = today THEN spentToday ELSE Bill!Entry(dailyCost, x, 0)
    BY <1>1, EntryOfWith
  <2>6. x = today => spentToday = ofDay.cost
    BY <2>3 DEF spentToday, ofDay, Bill!Plus
  <2> QED BY <1>1, <2>3, <2>4, <2>5, <2>6 DEF ofDay
<1>10. NamesMatch'
  <2>1. DOMAIN sessions' = DOMAIN sessions \cup {s}
    BY <1>1, EntryOfWith
  <2>2. {j \in DOMAIN file' : file'[j].life = life'} =
            {j \in DOMAIN file : file[j].life = life} \cup {Len(file) + 1}
    BY <1>1, <1>3, <1>5
  <2>3. {file'[i].of : i \in {j \in DOMAIN file' : file'[j].life = life'}} =
            {file[i].of : i \in {j \in DOMAIN file : file[j].life = life}} \cup {s}
    BY <1>3, <1>5, <2>2
  <2> QED BY <2>1, <2>3 DEF BillIInv, NamesMatch
<1>11. BudgetsHold'
  <2>1. ASSUME DailyMaxCost > 0, NEW d \in 1 .. LastDay
        PROVE  Bill!Entry(dailyCost', d, 0) <= DailyMaxCost
    BY <1>1, <1>2, <2>1, EntryOfWith DEF BillIInv, BudgetsHold
  <2>2. ASSUME SessionMaxTokens > 0, NEW x \in DOMAIN sessions'
        PROVE  sessions'[x].tokens <= SessionMaxTokens
    <3>1. x \in DOMAIN sessions \cup {s} /\ sessions'[x] = IF x = s THEN total ELSE sessions[x]
      BY <1>1, <2>2 DEF Bill!With
    <3>2. CASE x = s
      BY <1>2, <2>2, <3>1, <3>2
    <3>3. CASE x # s
      BY <2>2, <3>1, <3>3 DEF BillIInv, BudgetsHold
    <3> QED BY <3>2, <3>3
  <2> QED BY <2>1, <2>2 DEF BudgetsHold
<1> QED BY <1>6, <1>7, <1>8, <1>9, <1>10, <1>11 DEF BillIInv

LEMMA BillStutters ==
    ASSUME BillIInv, UNCHANGED <<sessions, daily, dailyCost, file, life>>,
           torn' \in BOOLEAN, today' \in 1 .. LastDay
    PROVE  BillIInv'
  BY DEF BillIInv, BillTypes, LivesAreOver, SessionsMatch, DaysMatch, NamesMatch,
       BudgetsHold

\* The store fails, and the totals are what they were.
LEMMA AddKeepsIInv ==
    ASSUME BillIInv, NEW s \in Sessions, NEW n \in Amounts, NEW price \in Prices,
           Bill!Add(s, n, price)
    PROVE  BillIInv'
<1> DEFINE c == n * price
<1>0. n \in Int /\ c \in Int
  BY ServiceAssumption DEF ServiceAssumption
<1>1. ~ Bill!Refused(s, n, c) /\ UNCHANGED <<today, life>>
  BY DEF Bill!Add
<1>2. CASE Bill!AppendLine(s, n, c) /\ Bill!Become(Bill!Count(s, n, c))
  <2> HIDE DEF c
  <2> QED BY <1>0, <1>1, <1>2, CountKeepsIInv
<1>3. CASE Bill!AppendFails /\ Bill!Become(Bill!Rollback(Bill!Count(s, n, c), s))
  <2>1. /\ sessions \in [DOMAIN sessions -> Totals] /\ daily \in [DOMAIN daily -> Totals]
        /\ dailyCost \in [DOMAIN dailyCost -> Int] /\ torn \in BOOLEAN /\ today \in 1 .. LastDay
    BY DEF BillIInv, BillTypes
  <2> HIDE DEF c
  <2>2. /\ sessions' = Bill!PutBack(Bill!Count(s, n, c).sessions, s, sessions)
        /\ daily' = Bill!PutBack(Bill!Count(s, n, c).daily, today, daily)
        /\ dailyCost' = Bill!PutBack(Bill!Count(s, n, c).dailyCost, today, dailyCost)
        /\ UNCHANGED file /\ torn' \in {torn, TRUE}
    BY <1>3 DEF Bill!AppendFails, Bill!Become, Bill!Rollback
  <2>3. UNCHANGED <<sessions, daily, dailyCost>>
    BY <2>1, <2>2, PutBackUndoes DEF Bill!Count
  <2> QED BY <1>1, <2>1, <2>2, <2>3, BillStutters
<1> QED BY <1>2, <1>3 DEF Bill!Add

\* A new life counts from nothing, over lines of others.
LEMMA RestartKeepsIInv == ASSUME BillIInv, Bill!Restart PROVE BillIInv'
<1>1. /\ sessions' = Bill!Nothing /\ daily' = Bill!Nothing /\ dailyCost' = Bill!Nothing
      /\ life' = life + 1 /\ UNCHANGED <<file, torn, today>>
      /\ file \in Seq(BillLines) /\ life \in Nat /\ torn \in BOOLEAN /\ today \in 1 .. LastDay
  BY DEF Bill!Restart, BillIInv, BillTypes
<1>2. \A i \in DOMAIN file : file[i].life <= life /\ file[i].life \in Nat
  <2>1. \A i \in DOMAIN file : file[i] \in BillLines
    BY <1>1, ElementOfSeq
  <2> QED BY <2>1 DEF BillLines, BillIInv, LivesAreOver
<1>3. \A i \in DOMAIN file : file[i].life # life + 1 /\ file[i].life <= life + 1
  BY <1>1, <1>2
<1>4. Fresh'
  BY <1>1, <1>3 DEF Fresh
<1> QED BY <1>4, FreshIsSound, PTL

LEMMA BillNextKeepsIInv == ASSUME BillIInv, [Bill!Next]_(Bill!vars) PROVE BillIInv'
<1>0. torn \in BOOLEAN /\ today \in 1 .. LastDay
  BY DEF BillIInv, BillTypes
<1>1. CASE UNCHANGED Bill!vars
  BY <1>0, <1>1, BillStutters DEF Bill!vars, Bill!account
<1>2. CASE Bill!Midnight
  <2>1. today' \in 1 .. LastDay
    BY <1>0, <1>2, ServiceAssumption DEF Bill!Midnight, ServiceAssumption
  <2> QED BY <1>0, <1>2, <2>1, BillStutters DEF Bill!Midnight, Bill!account
<1> QED BY <1>1, <1>2, AddKeepsIInv, RestartKeepsIInv DEF Bill!Next

LEMMA StepsOfBilling == [Next]_vars => [Bill!Next]_(Bill!vars)
  BY DEF Next, vars, billVars, provVars, mcpVars, batchVars, gateVars, chatVars, memVars,
     Bill!vars, Bill!account

\* Whatever the store did, the totals are those of the lines that it took in this life,
\* no entry is left of a request that it did not take, and the budgets hold for them
\* (accumulator.go:119-202).
THEOREM TotalsMatch == Spec => []TotalsMatchStore
<1>1. Init => BillIInv
  BY BillInitIInv DEF Init
<1>2. BillIInv /\ [Next]_vars => BillIInv'
  BY BillNextKeepsIInv, StepsOfBilling
<1>3. BillIInv => TotalsMatchStore
  <2> SUFFICES ASSUME BillIInv PROVE TotalsMatchStore
    OBVIOUS
  <2>1. \A lines : Bill!Stored(lines) = StoredIn(file, life, lines)
    BY DEF Bill!Stored, StoredIn, TokensOf, CostsOf
  <2>2. \A s \in Sessions : Bill!Entry(sessions, s, Bill!Zero) =
                                Bill!Stored({i \in DOMAIN file : file[i].of = s})
    BY <2>1 DEF BillIInv, SessionsMatch, OfSession
  <2>3. \A d \in 1 .. LastDay : Bill!Entry(daily, d, Bill!Zero) =
                                    Bill!Stored({i \in DOMAIN file : file[i].day = d})
    BY <2>1 DEF BillIInv, DaysMatch, OfDay
  <2> QED BY <2>2, <2>3 DEF BillIInv, DaysMatch, NamesMatch, BudgetsHold, TotalsMatchStore,
           Bill!TotalsMatchStore
<1> QED BY <1>1, <1>2, <1>3, PTL DEF Spec

-------------------------------------------------------------------------------
(* The limiter.                                                            *)
LEMMA GateCardinality == \A S : Gate!Cardinality(S) = Cardinality(S)
  BY DEF Gate!Cardinality, Cardinality

Held == DOMAIN buckets
SeenKeys == {k \in Gate!Keys : seen[k] # Gate!Never}

GateTypes ==
    /\ clock \in Nat
    /\ buckets \in [Held -> [left : Nat, lastUsed : Nat]]
    /\ seen \in [Gate!Keys -> Nat \cup {Gate!Never}]
    /\ spent \in [Gate!Keys -> Nat]

\* A stamp of the clock is given once.
StampsDiffer ==
    /\ \A k \in SeenKeys : seen[k] < clock
    /\ \A j, k \in SeenKeys : seen[j] = seen[k] => j = k

\* The cache holds keys that were seen, with their stamps, and of two of them the one
\* that was seen later; as long as it has room it holds them all.
HeldAreStamped == \A k \in Held : k \in SeenKeys /\ buckets[k].lastUsed = seen[k]
HeldAreLast == \A k \in Held, j \in SeenKeys : seen[j] > seen[k] => j \in Held
RoomIsUsed ==
    /\ IsFiniteSet(SeenKeys)
    /\ Cardinality(Held) <= MaxEntries
    /\ Cardinality(Held) < MaxEntries => SeenKeys \subseteq Held

\* What is gone from a bucket is what its key has taken.
SpentIsGone ==
    /\ \A k \in Held : spent[k] <= Burst /\ buckets[k].left = Burst - spent[k]
    /\ \A k \in Gate!Keys \ Held : spent[k] = 0

GateIInv ==
    /\ GateTypes /\ StampsDiffer /\ HeldAreStamped /\ HeldAreLast /\ RoomIsUsed
    /\ SpentIsGone

-------------------------------------------------------------------------------
\* The keys with a later stamp are fewer than MaxEntries just for those that are held.
LEMMA LastAreRecent ==
    ASSUME NEW times \in [Gate!Keys -> Nat \cup {Gate!Never}],
           NEW H \in SUBSET {k \in Gate!Keys : times[k] # Gate!Never},
           \A j, k \in {i \in Gate!Keys : times[i] # Gate!Never} : times[j] = times[k] => j = k,
           \A k \in H : \A j \in {i \in Gate!Keys : times[i] # Gate!Never} :
               times[j] > times[k] => j \in H,
           IsFiniteSet({i \in Gate!Keys : times[i] # Gate!Never}),
           Cardinality(H) <= MaxEntries,
           Cardinality(H) < MaxEntries => {i \in Gate!Keys : times[i] # Gate!Never} \subseteq H
    PROVE  H = Gate!Recent(times)
<1> DEFINE all == {i \in Gate!Keys : times[i] # Gate!Never}
<1>1. MaxEntries \in Nat
  BY ServiceAssumption DEF ServiceAssumption
<1>2. \A k \in all : times[k] \in Nat /\ Gate!Since(times, k) = {j \in all : times[j] > times[k]}
  <2> SUFFICES ASSUME NEW k \in all
               PROVE  times[k] \in Nat /\ Gate!Since(times, k) = {j \in all : times[j] > times[k]}
    OBVIOUS
  <2>1. times[k] \in Nat
    OBVIOUS
  <2>2. \A j \in Gate!Keys : times[j] > times[k] => j \in all
    BY <2>1 DEF Gate!Never
  <2> QED BY <2>1, <2>2 DEF Gate!Since
<1>3. IsFiniteSet(H) /\ \A S \in SUBSET all : IsFiniteSet(S) /\ Cardinality(S) \in Nat
  BY FS_Subset, FS_CardinalityType
<1>4. ASSUME NEW k \in H PROVE k \in Gate!Recent(times)
  <2> DEFINE later == Gate!Since(times, k)
  <2>1. k \in all /\ later \subseteq H \ {k}
    BY <1>2, <1>4
  <2>2. Cardinality(later) <= Cardinality(H \ {k})
    BY <1>3, <2>1, FS_Subset
  <2>3. Cardinality(H \ {k}) = Cardinality(H) - 1
    BY <1>3, <1>4, FS_RemoveElement
  <2>4. Cardinality(later) \in Nat /\ Cardinality(H) \in Nat
    BY <1>3, <2>1
  <2>5. Cardinality(later) < MaxEntries
    BY <1>1, <2>2, <2>3, <2>4
  <2> QED BY <2>1, <2>5, GateCardinality DEF Gate!Recent
<1>5. ASSUME NEW k \in Gate!Recent(times) PROVE k \in H
  <2> DEFINE later == Gate!Since(times, k)
  <2>1. k \in all /\ Cardinality(later) < MaxEntries
    BY <1>5, GateCardinality DEF Gate!Recent
  <2>2. SUFFICES ASSUME k \notin H PROVE FALSE
    OBVIOUS
  <2>3. \A j \in H : times[j] > times[k]
    <3> SUFFICES ASSUME NEW j \in H PROVE times[j] > times[k]
      OBVIOUS
    <3>1. j \in all /\ times[j] \in Nat /\ times[k] \in Nat
      BY <1>2, <2>1
    <3>2. times[j] # times[k] /\ ~ (times[k] > times[j])
      BY <2>1, <2>2, <3>1
    <3> QED BY <3>1, <3>2
  <2>4. H \subseteq later /\ later \in SUBSET all
    BY <1>2, <2>1, <2>3
  <2>5. Cardinality(H) <= Cardinality(later)
    BY <1>3, <2>4, FS_Subset
  <2>6. Cardinality(H) \in Nat /\ Cardinality(later) \in Nat
    BY <1>3, <2>4
  <2> QED BY <1>1, <2>1, <2>2, <2>5, <2>6
<1> QED BY <1>4, <1>5

LEMMA HeldAreRecent == ASSUME GateIInv PROVE Held = Gate!Recent(seen)
  BY LastAreRecent DEF GateIInv, GateTypes, StampsDiffer, HeldAreStamped, HeldAreLast,
       RoomIsUsed,
     SeenKeys

LEMMA GateInitIInv == Gate!Init => GateIInv
<1> SUFFICES ASSUME Gate!Init PROVE GateIInv
  OBVIOUS
<1>1. Held = {} /\ SeenKeys = {} /\ Cardinality({}) = 0 /\ IsFiniteSet({})
  BY FS_EmptySet DEF Gate!Init, Held, SeenKeys
<1> QED BY <1>1, ServiceAssumption
     DEF ServiceAssumption, Gate!Init, GateIInv, GateTypes, StampsDiffer, HeldAreStamped, HeldAreLast,
         RoomIsUsed, SpentIsGone, Gate!Never

\* There is an oldest entry, and no entry is older.
LEMMA OldestExists ==
    ASSUME GateTypes, Held # {}
    PROVE  Gate!Oldest \in Held /\ \A j \in Held : buckets[Gate!Oldest].lastUsed <= buckets[j].lastUsed
<1> DEFINE stamps == {buckets[k].lastUsed : k \in Held}
<1>1. stamps \in SUBSET Nat /\ stamps # {}
  BY DEF GateTypes
<1>2. PICK m \in stamps : \A s \in stamps : m <= s
  <2> HIDE DEF stamps
  <2> QED BY <1>1, Smallest
<1>3. \E k \in Held : \A j \in Held : buckets[k].lastUsed <= buckets[j].lastUsed
  BY <1>2
<1> QED BY <1>3 DEF Gate!Oldest, Held

\* A look-up puts a key on top: it is held, with what it had or a full bucket, and an
\* entry goes only when there is no room.
LEMMA LookUpHolds ==
    ASSUME GateIInv, NEW key \in Gate!Keys, NEW map, map = Gate!LookedUp(key)
    PROVE  /\ DOMAIN map = (IF key \in Held \/ Cardinality(Held) < MaxEntries THEN Held
                            ELSE Held \ {Gate!Oldest}) \cup {key}
           /\ map \in [DOMAIN map -> [left : Nat, lastUsed : Nat]]
           /\ map[key].lastUsed = clock /\ map[key].left = Burst - spent[key]
           /\ \A k \in DOMAIN map : k # key => map[k] = buckets[k]
<1>0. /\ GateTypes /\ Burst \in Nat /\ clock \in Nat
      /\ Cardinality(Held) <= MaxEntries /\ Cardinality(Held) \in Nat /\ MaxEntries \in Nat
  <2>1. IsFiniteSet(Held)
    BY FS_Subset DEF GateIInv, HeldAreStamped, RoomIsUsed
  <2> QED BY <2>1, FS_CardinalityType, ServiceAssumption
       DEF ServiceAssumption, GateIInv, GateTypes, RoomIsUsed
<1>1. CASE key \in Held
  <2>1. map = [buckets EXCEPT ![key].lastUsed = clock]
    BY <1>1 DEF Gate!LookedUp, Held
  <2>2. /\ buckets[key] \in [left : Nat, lastUsed : Nat]
        /\ buckets[key].left = Burst - spent[key]
    BY <1>0, <1>1 DEF GateTypes, GateIInv, SpentIsGone
  <2>3. DOMAIN map = Held /\ map[key] = [buckets[key] EXCEPT !.lastUsed = clock]
        /\ \A k \in Held : k # key => map[k] = buckets[k]
    BY <1>0, <1>1, <2>1 DEF GateTypes
  <2>4. map[key] \in [left : Nat, lastUsed : Nat] /\ map[key].lastUsed = clock
        /\ map[key].left = buckets[key].left
    BY <1>0, <2>2, <2>3
  <2>5. map \in [Held -> [left : Nat, lastUsed : Nat]]
    BY <1>0, <1>1, <2>1 DEF GateTypes
  <2> QED BY <1>1, <2>2, <2>3, <2>4, <2>5
<1>2. CASE key \notin Held
  <2> DEFINE kept == IF Cardinality(Held) >= MaxEntries THEN Held \ {Gate!Oldest} ELSE Held
             fresh == [left |-> Burst, lastUsed |-> clock]
  <2>1. map = [k \in kept \cup {key} |-> IF k = key THEN fresh ELSE buckets[k]]
    BY <1>2, GateCardinality DEF Gate!LookedUp, Gate!WithNew, Held
  <2>2. fresh \in [left : Nat, lastUsed : Nat] /\ fresh.left = Burst /\ fresh.lastUsed = clock
    BY <1>0
  <2>3. spent[key] = 0
    BY <1>2 DEF GateIInv, SpentIsGone
  <2>4. kept \subseteq Held /\ \A k \in kept : buckets[k] \in [left : Nat, lastUsed : Nat]
    BY <1>0 DEF GateTypes
  <2>5. kept = IF Cardinality(Held) < MaxEntries THEN Held ELSE Held \ {Gate!Oldest}
    BY <1>0
  <2> HIDE DEF kept, fresh
  <2>6. /\ DOMAIN map = kept \cup {key} /\ map[key] = fresh
        /\ \A k \in kept : k # key => map[k] = buckets[k]
        /\ map \in [kept \cup {key} -> [left : Nat, lastUsed : Nat]]
    BY <2>1, <2>2, <2>4
  <2> QED BY <1>0, <1>2, <2>2, <2>3, <2>5, <2>6
<1> QED BY <1>1, <1>2

\* The cache after a request has room for its key and has forgotten none too early.
LEMMA AllowTokenKeepsIInv ==
    ASSUME GateIInv, NEW key \in Gate!Keys, NEW ok \in BOOLEAN,
           Gate!AllowToken(key, ok), clock' = clock + 1
    PROVE  GateIInv'
<1> DEFINE map == Gate!LookedUp(key)
<1>0. /\ GateTypes /\ Burst \in Nat /\ clock \in Nat /\ MaxEntries \in Nat \ {0}
      /\ Held \subseteq SeenKeys /\ IsFiniteSet(Held) /\ IsFiniteSet(SeenKeys)
      /\ Cardinality(Held) <= MaxEntries /\ Cardinality(Held) \in Nat
      /\ SeenKeys \subseteq Gate!Keys
  <2>1. Held \subseteq SeenKeys /\ IsFiniteSet(SeenKeys)
    BY DEF GateIInv, HeldAreStamped, RoomIsUsed
  <2>2. IsFiniteSet(Held) /\ Cardinality(Held) \in Nat
    BY <2>1, FS_Subset, FS_CardinalityType
  <2> QED BY <2>1, <2>2, ServiceAssumption
       DEF ServiceAssumption, GateIInv, GateTypes, RoomIsUsed, SeenKeys
<1>1. /\ ok = (map[key].left > 0)
      /\ buckets' = IF ok THEN [map EXCEPT ![key].left = @ - 1] ELSE map
      /\ seen' = [seen EXCEPT ![key] = clock]
      /\ spent' = [k \in Gate!Keys |-> IF k = key THEN spent[k] + IF ok THEN 1 ELSE 0
                                       ELSE IF k \in Gate!Recent(seen') THEN spent[k] ELSE 0]
  BY DEF Gate!AllowToken
<1>2. /\ DOMAIN map = (IF key \in Held \/ Cardinality(Held) < MaxEntries THEN Held
                       ELSE Held \ {Gate!Oldest}) \cup {key}
      /\ map \in [DOMAIN map -> [left : Nat, lastUsed : Nat]]
      /\ map[key].lastUsed = clock /\ map[key].left = Burst - spent[key]
      /\ \A k \in DOMAIN map : k # key => map[k] = buckets[k]
  BY LookUpHolds
<1> HIDE DEF map
<1>3. /\ Held' = DOMAIN map /\ key \in Held'
      /\ buckets'[key] = [left |-> map[key].left - (IF ok THEN 1 ELSE 0), lastUsed |-> clock]
      /\ \A k \in Held' : k # key => k \in Held /\ buckets'[k] = buckets[k]
      /\ buckets' \in [Held' -> [left : Nat, lastUsed : Nat]]
  <2>1. key \in DOMAIN map /\ map[key] \in [left : Nat, lastUsed : Nat]
    BY <1>2
  <2>2. map[key] = [left |-> map[key].left, lastUsed |-> clock] /\ map[key].left \in Nat
    BY <1>2, <2>1
  <2>3. CASE ok
    <3>1. map[key].left - 1 \in Nat /\ buckets' = [map EXCEPT ![key].left = @ - 1]
      <4>1. map[key].left > 0
        BY <1>1, <2>3
      <4>2. map[key].left - 1 \in Nat
        BY <2>2, <4>1
      <4> QED BY <1>1, <2>3, <4>2
    <3>2. /\ DOMAIN buckets' = DOMAIN map
          /\ buckets'[key] = [map[key] EXCEPT !.left = @ - 1]
          /\ \A k \in DOMAIN map : k # key => buckets'[k] = map[k]
          /\ buckets' \in [DOMAIN map -> [left : Nat, lastUsed : Nat]]
      BY <1>2, <2>1, <3>1
    <3>3. buckets'[key] = [left |-> map[key].left - 1, lastUsed |-> clock]
      BY <2>2, <3>2
    <3> QED BY <1>2, <2>1, <2>3, <3>2, <3>3 DEF Held
  <2>4. CASE ~ ok
    <3>1. buckets' = map
      BY <1>1, <2>4
    <3> QED BY <1>2, <2>1, <2>2, <2>4, <3>1 DEF Held
  <2> QED BY <2>3, <2>4
<1>4. /\ SeenKeys' = SeenKeys \cup {key} /\ seen'[key] = clock
      /\ \A k \in Gate!Keys : k # key => seen'[k] = seen[k]
      /\ seen' \in [Gate!Keys -> Nat \cup {Gate!Never}]
      /\ clock # Gate!Never
  BY <1>0, <1>1 DEF GateTypes, SeenKeys, Gate!Never
<1>5. \A k \in SeenKeys : seen[k] \in Nat /\ seen[k] < clock
  BY <1>0 DEF GateTypes, GateIInv, StampsDiffer, SeenKeys
<1>6. StampsDiffer'
  <2>1. \A k \in SeenKeys' : seen'[k] < clock'
    BY <1>0, <1>4, <1>5
  <2>2. \A j, k \in SeenKeys' : seen'[j] = seen'[k] => j = k
    BY <1>0, <1>4, <1>5 DEF GateIInv, StampsDiffer
  <2> QED BY <2>1, <2>2 DEF StampsDiffer
<1>7. HeldAreStamped'
  <2>1. \A k \in Held' : k \in SeenKeys'
    BY <1>0, <1>3, <1>4
  <2>2. buckets'[key].lastUsed = seen'[key]
    BY <1>3, <1>4
  <2>3. \A k \in Held' : k # key => buckets'[k].lastUsed = seen'[k]
    BY <1>0, <1>3, <1>4 DEF GateIInv, HeldAreStamped
  <2> QED BY <2>1, <2>2, <2>3 DEF HeldAreStamped
<1>8. HeldAreLast'
  <2> SUFFICES ASSUME NEW k \in Held', NEW j \in SeenKeys', seen'[j] > seen'[k]
               PROVE  j \in Held'
    BY DEF HeldAreLast
  <2>1. CASE j = key
    BY <1>3, <2>1
  <2>2. CASE j # key
    <3>1. j \in SeenKeys /\ j \in Gate!Keys /\ seen'[j] = seen[j] /\ seen[j] < clock /\ seen[j] \in Nat
      BY <1>0, <1>4, <1>5, <2>2
    <3>2. k # key
      BY <1>0, <1>4, <3>1
    <3>3. k \in Held /\ k \in SeenKeys /\ seen'[k] = seen[k] /\ seen[k] \in Nat
      BY <1>0, <1>3, <1>4, <1>5, <3>2
    <3>4. j \in Held
      BY <3>1, <3>3 DEF GateIInv, HeldAreLast
    <3>5. CASE key \in Held \/ Cardinality(Held) < MaxEntries
      BY <1>2, <1>3, <3>4, <3>5
    <3>6. CASE ~ (key \in Held \/ Cardinality(Held) < MaxEntries)
      <4>1. Held' = (Held \ {Gate!Oldest}) \cup {key}
        BY <1>2, <1>3, <3>6
      <4>2. k \in Held \ {Gate!Oldest}
        BY <3>2, <4>1
      <4>3. buckets[Gate!Oldest].lastUsed <= buckets[k].lastUsed
        BY <1>0, <3>3, OldestExists
      <4>4. buckets[k].lastUsed = seen[k] /\ buckets[j].lastUsed = seen[j]
        BY <3>3, <3>4 DEF GateIInv, HeldAreStamped
      <4>5. j # Gate!Oldest
        BY <3>1, <3>3, <4>3, <4>4
      <4> QED BY <3>4, <4>1, <4>5
    <3> QED BY <3>5, <3>6
  <2> QED BY <2>1, <2>2
<1>9. RoomIsUsed'
  <2>1. IsFiniteSet(SeenKeys')
    BY <1>0, <1>4, FS_AddElement
  <2>2. CASE key \in Held
    <3>1. Held' = Held /\ SeenKeys' = SeenKeys
      BY <1>0, <1>2, <1>3, <1>4, <2>2
    <3> QED BY <1>0, <2>1, <3>1 DEF GateIInv, RoomIsUsed
  <2>3. CASE key \notin Held /\ Cardinality(Held) < MaxEntries
    <3>1. Held' = Held \cup {key} /\ SeenKeys \subseteq Held
      BY <1>2, <1>3, <2>3 DEF GateIInv, RoomIsUsed
    <3>2. Cardinality(Held') = Cardinality(Held) + 1
      BY <1>0, <2>3, <3>1, FS_AddElement
    <3>3. SeenKeys' \subseteq Held' /\ Cardinality(Held') <= MaxEntries
      BY <1>0, <1>4, <2>3, <3>1, <3>2
    <3> QED BY <2>1, <3>3 DEF RoomIsUsed
  <2>4. CASE key \notin Held /\ ~ Cardinality(Held) < MaxEntries
    <3>1. Held # {}
      BY <1>0, <2>4, FS_EmptySet
    <3>2. Gate!Oldest \in Held
      BY <1>0, <3>1, OldestExists
    <3> DEFINE rest == Held \ {Gate!Oldest}
    <3>3. Cardinality(rest) = Cardinality(Held) - 1 /\ IsFiniteSet(rest) /\ key \notin rest
      BY <1>0, <2>4, <3>2, FS_RemoveElement
    <3>4. Held' = rest \cup {key}
      BY <1>2, <1>3, <2>4
    <3>5. Cardinality(Held') = Cardinality(rest) + 1
      BY <3>3, <3>4, FS_AddElement
    <3>6. Cardinality(Held') = MaxEntries
      BY <1>0, <2>4, <3>3, <3>5
    <3> QED BY <1>0, <2>1, <3>6 DEF RoomIsUsed
  <2> QED BY <2>2, <2>3, <2>4
<1>10. Held' = Gate!Recent(seen')
  <2>1. Held' \in SUBSET SeenKeys'
    BY <1>7 DEF HeldAreStamped
  <2>2. SeenKeys' = {k \in Gate!Keys : seen'[k] # Gate!Never}
    BY DEF SeenKeys
  <2> QED BY <1>4, <1>6, <1>8, <1>9, <2>1, <2>2, LastAreRecent
       DEF StampsDiffer, HeldAreLast, RoomIsUsed
<1>11. SpentIsGone'
  <2>1. \A k \in Gate!Keys : spent[k] \in Nat
    BY <1>0 DEF GateTypes
  <2>2. \A k \in Gate!Keys \ Held' : k # key /\ spent'[k] = 0
    BY <1>1, <1>3, <1>10
  <2>3. \A k \in Held' : k # key => k \in Gate!Keys /\ spent'[k] = spent[k]
    BY <1>0, <1>1, <1>3, <1>10
  <2>4. \A k \in Held' : k # key => spent'[k] <= Burst /\ buckets'[k].left = Burst - spent'[k]
    BY <1>3, <2>3 DEF GateIInv, SpentIsGone
  <2>5. spent'[key] <= Burst /\ buckets'[key].left = Burst - spent'[key]
    <3>1. spent'[key] = spent[key] + IF ok THEN 1 ELSE 0
      BY <1>1
    <3>2. buckets'[key].left = map[key].left - (IF ok THEN 1 ELSE 0) /\ map[key].left = Burst - spent[key]
      BY <1>2, <1>3
    <3>3. buckets'[key].left \in Nat
      BY <1>3
    <3> QED BY <1>0, <2>1, <3>1, <3>2, <3>3
  <2> QED BY <2>2, <2>4, <2>5 DEF SpentIsGone
<1>12. GateTypes'
  <2>1. spent' \in [Gate!Keys -> Nat]
    BY <1>0, <1>1 DEF GateTypes
  <2> QED BY <1>0, <1>3, <1>4, <2>1 DEF GateTypes
<1> QED BY <1>6, <1>7, <1>8, <1>9, <1>11, <1>12 DEF GateIInv

\* What the invariant does not look at.
LEMMA GateStutters ==
    ASSUME GateIInv, UNCHANGED <<buckets, seen, spent>>, clock' \in Nat, clock' >= clock
    PROVE  GateIInv'
<1>1. \A k \in SeenKeys : seen[k] \in Nat
  BY DEF GateIInv, GateTypes, SeenKeys
<1> QED BY <1>1 DEF GateIInv, GateTypes, StampsDiffer, HeldAreStamped, HeldAreLast,
     RoomIsUsed,
       SpentIsGone, Held, SeenKeys

LEMMA RequestKeepsIInv ==
    ASSUME GateIInv, NEW route \in Routes, NEW address \in Addresses, NEW header \in Gate!Headers,
           Gate!Request(route, address, header)
    PROVE  GateIInv'
<1>0. clock \in Nat /\ Gate!KeyOf(header) \in Gate!Keys
  BY DEF GateIInv, GateTypes, Gate!KeyOf, Gate!Keys, Gate!Headers
<1>1. CASE UNCHANGED <<buckets, global, clock, seen, spent>>
  BY <1>0, <1>1, GateStutters
<1>2. ASSUME NEW ok \in BOOLEAN, clock' = clock + 1, Gate!AllowToken(Gate!KeyOf(header), ok)
      PROVE  GateIInv'
  BY <1>0, <1>2, AllowTokenKeepsIInv
<1>3. ASSUME NEW ok \in BOOLEAN, clock' = clock + 1, Gate!AllowGlobal(ok)
      PROVE  GateIInv'
  BY <1>0, <1>3, GateStutters DEF Gate!AllowGlobal, Gate!history
<1>4. \/ UNCHANGED <<buckets, global, clock, seen, spent>>
      \/ \E ok \in BOOLEAN : /\ clock' = clock + 1
                             /\ \/ Gate!AllowToken(Gate!KeyOf(header), ok)
                                \/ Gate!AllowGlobal(ok)
  BY DEF Gate!Request, Gate!history
<1> QED BY <1>1, <1>2, <1>3, <1>4

\* A token falls just into the buckets from which one was taken.
LEMMA RefillKeepsIInv == ASSUME GateIInv, Gate!Refill PROVE GateIInv'
<1>0. GateTypes /\ Burst \in Nat /\ \A k \in Held : k \in Gate!Keys
  BY ServiceAssumption DEF ServiceAssumption, GateIInv, HeldAreStamped, SeenKeys
<1>1. /\ buckets' = [k \in Held |-> [buckets[k] EXCEPT !.left = IF @ < Burst THEN @ + 1 ELSE @]]
      /\ spent' = [k \in Gate!Keys |-> IF spent[k] > 0 THEN spent[k] - 1 ELSE 0]
      /\ UNCHANGED <<clock, seen>>
  BY DEF Gate!Refill, Held
<1>2. Held' = Held /\ SeenKeys' = SeenKeys
  BY <1>1 DEF Held, SeenKeys
<1>3. \A k \in Held :
         /\ buckets'[k] \in [left : Nat, lastUsed : Nat]
         /\ buckets'[k].lastUsed = buckets[k].lastUsed
         /\ buckets'[k].left = IF buckets[k].left < Burst THEN buckets[k].left + 1 ELSE buckets[k].left
  <2> SUFFICES ASSUME NEW k \in Held
               PROVE  /\ buckets'[k] \in [left : Nat, lastUsed : Nat]
                      /\ buckets'[k].lastUsed = buckets[k].lastUsed
                      /\ buckets'[k].left = IF buckets[k].left < Burst THEN buckets[k].left + 1
                                                                       ELSE buckets[k].left
    OBVIOUS
  <2>1. buckets[k] \in [left : Nat, lastUsed : Nat]
    BY <1>0 DEF GateTypes
  <2>2. buckets'[k] = [buckets[k] EXCEPT !.left = IF @ < Burst THEN @ + 1 ELSE @]
    BY <1>1
  <2> QED BY <2>1, <2>2
<1>4. GateTypes'
  <2>1. spent' \in [Gate!Keys -> Nat]
    BY <1>0, <1>1 DEF GateTypes
  <2>2. buckets' \in [Held' -> [left : Nat, lastUsed : Nat]]
    BY <1>1, <1>2, <1>3
  <2> QED BY <1>0, <1>1, <2>1, <2>2 DEF GateTypes
<1>5. StampsDiffer' /\ HeldAreStamped' /\ HeldAreLast' /\ RoomIsUsed'
  BY <1>1, <1>2, <1>3 DEF GateIInv, StampsDiffer, HeldAreStamped, HeldAreLast, RoomIsUsed
<1>6. SpentIsGone'
  <2>1. \A k \in Gate!Keys : spent[k] \in Nat /\ spent'[k] = IF spent[k] > 0 THEN spent[k] - 1 ELSE 0
    BY <1>0, <1>1 DEF GateTypes
  <2>2. \A k \in Held : spent[k] <= Burst /\ buckets[k].left = Burst - spent[k]
    BY DEF GateIInv, SpentIsGone
  <2>3. \A k \in Held : spent'[k] <= Burst /\ buckets'[k].left = Burst - spent'[k]
    BY <1>0, <1>3, <2>1, <2>2
  <2> QED BY <1>2, <2>1, <2>3 DEF GateIInv, SpentIsGone
<1> QED BY <1>4, <1>5, <1>6 DEF GateIInv

LEMMA GateNextKeepsIInv == ASSUME GateIInv, [Gate!Next]_(Gate!vars) PROVE GateIInv'
<1>0. clock \in Nat
  BY DEF GateIInv, GateTypes
<1>1. CASE UNCHANGED Gate!vars \/ Gate!Start
  BY <1>0, <1>1, GateStutters DEF Gate!vars, Gate!history, Gate!Start
<1>2. CASE Gate!Next
  BY <1>1, <1>2, RequestKeepsIInv, RefillKeepsIInv DEF Gate!Next
<1> QED BY <1>1, <1>2

LEMMA StepsOfGate == [Next]_vars => [Gate!Next]_(Gate!vars)
  BY DEF Next, vars, billVars, provVars, mcpVars, batchVars, gateVars, chatVars, memVars,
     Gate!vars, Gate!history

\* The cache of buckets is bounded and still never forgives a caller too early: as long
\* as fewer than MaxEntries others have come since, the bucket of a key is kept, and
\* with it what the caller has taken (allow and evictOldest, middleware.go:141-187).
THEOREM CallersHeld == Spec => []RecentCallersAreHeld
<1>1. Init => GateIInv
  BY GateInitIInv DEF Init
<1>2. GateIInv /\ [Next]_vars => GateIInv'
  BY GateNextKeepsIInv, StepsOfGate
<1>3. GateIInv => RecentCallersAreHeld
  BY HeldAreRecent DEF GateIInv, SpentIsGone, Held, RecentCallersAreHeld,
       Gate!RecentCallersAreHeld
<1> QED BY <1>1, <1>2, <1>3, PTL DEF Spec

-------------------------------------------------------------------------------
(* The chat.                                                               *)
Events == {Chat!Other, Chat!Error} \cup {Chat!Delta(n) : n \in Nat}

ChatTypes ==
    /\ stream \in BOOLEAN /\ failed \in BOOLEAN /\ deltas \in Nat
    /\ ch \in Seq(Events)

\* The events of a channel tell the pieces after the first a ones, up to the b-th:
\* reached[i] is the number of the last piece among the first i of them, or a.
Tells(c, a, b) ==
    \E reached \in [0 .. Len(c) -> Nat] :
        /\ reached[0] = a /\ reached[Len(c)] = b
        /\ \A i \in 1 .. Len(c) :
              IF c[i].kind = "delta"
              THEN reached[i] = reached[i - 1] + 1 /\ c[i].n = reached[i]
              ELSE reached[i] = reached[i - 1]

\* A client that still waits has been told some pieces; the rest is in the channel.
Told(n) ==
    IF stream THEN chatWire = Chat!Chunks(n) ELSE chatWire = <<>> /\ content = Chat!Text(n)
RestIsComing ==
    handler = "reading" => \E n \in Nat : Told(n) /\ Tells(ch, n, deltas)

\* An error is the last event of a run that has failed, and is not lost before the
\* handler returns.
ErrorIsLast ==
    /\ \A i \in DOMAIN ch : ch[i] = Chat!Error => i = Len(ch) /\ failed
    /\ failed => run # "running"
    /\ handler = "reading" =>
           /\ failed => \/ ch # <<>> /\ ch[Len(ch)] = Chat!Error
                        \/ stream /\ stopReason = "error"
           /\ ~ failed => stopReason = "stop"

ChatIInv == ChatTypes /\ RestIsComing /\ ErrorIsLast /\ Chat!ChatIsWhole

-------------------------------------------------------------------------------
LEMMA EventKinds ==
    /\ Chat!Other \in Events /\ Chat!Other.kind # "delta" /\ Chat!Other # Chat!Error
    /\ Chat!Error \in Events /\ Chat!Error.kind # "delta"
    /\ \A n \in Nat : /\ Chat!Delta(n) \in Events /\ Chat!Delta(n).kind = "delta"
                      /\ Chat!Delta(n).n = n /\ Chat!Delta(n) # Chat!Error
<1>1. Chat!Other.kind = "other" /\ Chat!Error.kind = "error"
  BY DEF Chat!Other, Chat!Error
<1>2. \A n \in Nat : Chat!Delta(n).kind = "delta" /\ Chat!Delta(n).n = n
  BY DEF Chat!Delta
<1>3. Chat!Other # Chat!Error /\ \A n \in Nat : Chat!Delta(n) # Chat!Error
  BY <1>1, <1>2
<1> QED BY <1>1, <1>2, <1>3 DEF Events

\* One more piece of the text, and one more chunk.
LEMMA TextGrows ==
    ASSUME NEW n \in Nat
    PROVE  Append(Chat!Text(n), n + 1) = Chat!Text(n + 1)
<1>1. Chat!Text(n) \in Seq(Nat) /\ Chat!Text(n + 1) \in Seq(Nat) /\ Len(Chat!Text(n)) = n
      /\ Len(Chat!Text(n + 1)) = n + 1
  BY DEF Chat!Text
<1> QED BY <1>1, AppendProperties, SeqEqual DEF Chat!Text

LEMMA ChunksGrow ==
    ASSUME NEW n \in Nat
    PROVE  Append(Chat!Chunks(n), Chat!Line("chunk", <<n + 1>>)) = Chat!Chunks(n + 1)
<1> DEFINE chunk(i) == Chat!Line("chunk", <<i>>)
           All      == {chunk(i) : i \in Nat}
<1>1. Chat!Chunks(n) = [i \in 1 .. n |-> chunk(i)] /\ Chat!Chunks(n + 1) = [i \in 1 .. n + 1 |-> chunk(i)]
  BY DEF Chat!Chunks
<1>2. \A i \in 1 .. n + 1 : chunk(i) \in All
  OBVIOUS
<1> HIDE DEF chunk, All
<1>3. Chat!Chunks(n) \in Seq(All) /\ Chat!Chunks(n + 1) \in Seq(All) /\ Len(Chat!Chunks(n)) = n
      /\ Len(Chat!Chunks(n + 1)) = n + 1 /\ chunk(n + 1) \in All
  BY <1>1, <1>2
<1>4. Append(Chat!Chunks(n), chunk(n + 1)) = Chat!Chunks(n + 1)
  BY <1>1, <1>3, AppendProperties, SeqEqual
<1> QED BY <1>4 DEF chunk

LEMMA NothingTold ==
    /\ Chat!Text(0) = <<>> /\ Chat!Chunks(0) = <<>>
    /\ \A a \in Nat : Tells(<<>>, a, a)
    /\ \A a, b \in Nat : Tells(<<>>, a, b) => a = b
<1>1. \A a \in Nat : Tells(<<>>, a, a)
  <2> SUFFICES ASSUME NEW a \in Nat PROVE Tells(<<>>, a, a)
    OBVIOUS
  <2> DEFINE reached == [i \in 0 .. 0 |-> a]
  <2>1. reached \in [0 .. Len(<<>>) -> Nat] /\ reached[0] = a
    OBVIOUS
  <2>2. Len(<<>>) = 0 /\ 1 .. Len(<<>>) = {}
    OBVIOUS
  <2> HIDE DEF reached
  <2> QED BY <2>1, <2>2 DEF Tells
<1>2. \A a, b \in Nat : Tells(<<>>, a, b) => a = b
  BY DEF Tells
<1>3. Chat!Text(0) = <<>> /\ Chat!Chunks(0) = <<>>
  BY DEF Chat!Text, Chat!Chunks
<1> QED BY <1>1, <1>2, <1>3

LEMMA TellsMore ==
    ASSUME NEW c \in Seq(Events), NEW e \in Events, NEW a \in Nat, NEW b \in Nat, NEW d \in Nat,
           Tells(c, a, b),
           IF e.kind = "delta" THEN d = b + 1 /\ e.n = d ELSE d = b
    PROVE  Tells(Append(c, e), a, d)
<1>1. PICK reached \in [0 .. Len(c) -> Nat] :
        /\ reached[0] = a /\ reached[Len(c)] = b
        /\ \A i \in 1 .. Len(c) :
              IF c[i].kind = "delta"
              THEN reached[i] = reached[i - 1] + 1 /\ c[i].n = reached[i]
              ELSE reached[i] = reached[i - 1]
  BY DEF Tells
<1> DEFINE ext == [i \in 0 .. Len(c) + 1 |-> IF i = Len(c) + 1 THEN d ELSE reached[i]]
           cc  == Append(c, e)
<1>2. /\ Len(c) \in Nat /\ Len(cc) = Len(c) + 1 /\ cc[Len(c) + 1] = e
      /\ \A i \in 1 .. Len(c) : cc[i] = c[i]
  BY AppendProperties
<1>3. /\ ext \in [0 .. Len(cc) -> Nat] /\ ext[0] = a /\ ext[Len(cc)] = d
      /\ \A i \in 0 .. Len(c) : ext[i] = reached[i]
  BY <1>1, <1>2
<1>4. ASSUME NEW i \in 1 .. Len(cc)
      PROVE  IF cc[i].kind = "delta"
             THEN ext[i] = ext[i - 1] + 1 /\ cc[i].n = ext[i]
             ELSE ext[i] = ext[i - 1]
  <2> HIDE DEF ext, cc
  <2>1. CASE i = Len(c) + 1
    <3>1. cc[i] = e /\ ext[i] = d /\ ext[i - 1] = b
      BY <1>1, <1>2, <1>3, <2>1
    <3> QED BY <3>1
  <2>2. CASE i # Len(c) + 1
    <3>1. i \in 1 .. Len(c)
      BY <1>2, <2>2
    <3>2. cc[i] = c[i] /\ ext[i] = reached[i] /\ ext[i - 1] = reached[i - 1]
      BY <1>2, <1>3, <3>1
    <3> QED BY <1>1, <3>1, <3>2
  <2> QED BY <2>1, <2>2
<1> HIDE DEF ext
<1> QED BY <1>3, <1>4 DEF Tells

LEMMA TellsOne ==
    ASSUME NEW c \in Seq(Events), c # <<>>, NEW a \in Nat, NEW b \in Nat, Tells(c, a, b)
    PROVE  IF Head(c).kind = "delta" THEN Head(c).n = a + 1 /\ Tells(Tail(c), a + 1, b)
                                     ELSE Tells(Tail(c), a, b)
<1>1. PICK reached \in [0 .. Len(c) -> Nat] :
        /\ reached[0] = a /\ reached[Len(c)] = b
        /\ \A i \in 1 .. Len(c) :
              IF c[i].kind = "delta"
              THEN reached[i] = reached[i - 1] + 1 /\ c[i].n = reached[i]
              ELSE reached[i] = reached[i - 1]
  BY DEF Tells
<1> DEFINE t == Tail(c)
           d == reached[1]
           less == [i \in 0 .. Len(c) - 1 |-> reached[i + 1]]
<1>2. /\ Len(c) \in Nat \ {0} /\ Len(t) = Len(c) - 1 /\ Head(c) = c[1]
      /\ \A i \in 1 .. Len(t) : t[i] = c[i + 1]
  BY EmptySeq, HeadTailProperties
<1>3. less \in [0 .. Len(t) -> Nat] /\ less[0] = d /\ less[Len(t)] = b
      /\ \A i \in 0 .. Len(t) : less[i] = reached[i + 1]
  BY <1>1, <1>2
<1> HIDE DEF less, t
<1>4. ASSUME NEW i \in 1 .. Len(t)
      PROVE  IF t[i].kind = "delta"
             THEN less[i] = less[i - 1] + 1 /\ t[i].n = less[i]
             ELSE less[i] = less[i - 1]
  <2>1. i + 1 \in 1 .. Len(c) /\ (i + 1) - 1 = i
    BY <1>2
  <2>2. less[i] = reached[i + 1] /\ less[i - 1] = reached[i] /\ t[i] = c[i + 1]
    BY <1>2, <1>3
  <2> QED BY <1>1, <2>1, <2>2
<1>5. Tells(t, d, b)
  BY <1>3, <1>4 DEF Tells
<1>6. IF Head(c).kind = "delta" THEN d = a + 1 /\ Head(c).n = d ELSE d = a
  <2>1. 1 \in 1 .. Len(c)
    BY <1>2
  <2> QED BY <1>1, <1>2, <2>1
<1> QED BY <1>5, <1>6 DEF t

-------------------------------------------------------------------------------
LEMMA ChatInitIInv == Chat!Init => ChatIInv
<1> SUFFICES ASSUME Chat!Init PROVE ChatIInv
  OBVIOUS
<1>1. /\ stream \in BOOLEAN /\ run = "running" /\ deltas = 0 /\ failed = FALSE
      /\ ch = <<>> /\ handler = "reading" /\ content = <<>> /\ stopReason = "stop"
      /\ chatWire = <<>>
  BY DEF Chat!Init
<1>2. Told(0) /\ Tells(ch, 0, deltas)
  BY <1>1, NothingTold DEF Told
<1>3. RestIsComing
  BY <1>2 DEF RestIsComing
<1>4. ChatTypes /\ ErrorIsLast
  <2>1. failed \in BOOLEAN /\ ~ failed
    BY <1>1
  <2>2. ch \in Seq(Events) /\ DOMAIN ch = {}
    BY <1>1
  <2> QED BY <1>1, <2>1, <2>2 DEF ChatTypes, ErrorIsLast
<1>5. Chat!ChatIsWhole
  BY <1>1 DEF Chat!ChatIsWhole
<1> QED BY <1>3, <1>4, <1>5 DEF ChatIInv

\* The run sends an event: a piece of its text, another, or the error that ends it.
LEMMA SendKeepsIInv ==
    ASSUME ChatIInv, NEW e \in Events, run = "running", ch' = Append(ch, e),
           deltas' \in Nat, failed' = (failed \/ e = Chat!Error),
           IF e.kind = "delta" THEN deltas' = deltas + 1 /\ e.n = deltas' ELSE deltas' = deltas,
           e = Chat!Error => run' # "running",
           UNCHANGED <<stream, handler, content, stopReason, chatWire>>
    PROVE  ChatIInv'
<1>2. ~ failed /\ handler # "returned" /\ ch \in Seq(Events) /\ deltas \in Nat
      /\ stream \in BOOLEAN
  BY DEF ChatIInv, ChatTypes, ErrorIsLast, Chat!ChatIsWhole
<1>3. /\ ch' \in Seq(Events) /\ Len(ch') = Len(ch) + 1 /\ ch'[Len(ch')] = e /\ ch' # <<>>
      /\ \A i \in 1 .. Len(ch) : ch'[i] = ch[i]
      /\ Len(ch) \in Nat
  BY <1>2, AppendProperties
<1>4. ChatTypes'
  BY <1>2, <1>3 DEF ChatTypes
<1>5. RestIsComing'
  <2> SUFFICES ASSUME handler' = "reading"
               PROVE  \E n \in Nat : Told(n)' /\ Tells(ch', n, deltas')
    BY DEF RestIsComing
  <2>1. PICK n \in Nat : Told(n) /\ Tells(ch, n, deltas)
    BY DEF ChatIInv, RestIsComing
  <2>2. Tells(ch', n, deltas')
    BY <1>2, <2>1, TellsMore
  <2>3. Told(n)'
    BY <2>1 DEF Told
  <2> QED BY <2>2, <2>3
<1>6. ErrorIsLast'
  <2>1. \A i \in DOMAIN ch : ch[i] # Chat!Error
    BY <1>2 DEF ChatIInv, ErrorIsLast
  <2>2. \A i \in DOMAIN ch' : ch'[i] = Chat!Error => i = Len(ch') /\ e = Chat!Error
    BY <1>2, <1>3, <2>1
  <2> QED BY <1>2, <1>3, <2>2 DEF ChatIInv, ErrorIsLast
<1>7. Chat!ChatIsWhole'
  BY <1>2 DEF Chat!ChatIsWhole
<1> QED BY <1>4, <1>5, <1>6, <1>7 DEF ChatIInv

\* The handler takes an event. If it goes on, one piece more is told or the rest is the
\* same; syncChat returns with an error.
LEMMA TakeKeepsIInv == ASSUME ChatIInv, Chat!Take PROVE ChatIInv'
<1> DEFINE e == Head(ch)
<1>1. /\ handler = "reading" /\ ch # <<>> /\ ch' = Tail(ch)
      /\ UNCHANGED <<stream, run, deltas, others, failed>>
      /\ ch \in Seq(Events) /\ stream \in BOOLEAN /\ deltas \in Nat
  BY DEF Chat!Take, Chat!agent, ChatIInv, ChatTypes
<1>2. /\ Len(ch) \in Nat \ {0} /\ ch' \in Seq(Events) /\ Len(ch') = Len(ch) - 1
      /\ e \in Events /\ e = ch[1] /\ \A i \in 1 .. Len(ch') : ch'[i] = ch[i + 1]
  BY <1>1, EmptySeq, HeadTailProperties
<1>3. PICK n \in Nat : Told(n) /\ Tells(ch, n, deltas)
  BY <1>1 DEF ChatIInv, RestIsComing
<1>4. IF e.kind = "delta" THEN e.n = n + 1 /\ Tells(ch', n + 1, deltas) ELSE Tells(ch', n, deltas)
  BY <1>1, <1>3, TellsOne
<1>5. e = Chat!Error => e.kind # "delta" /\ ch' = <<>> /\ failed /\ run # "running"
  <2> SUFFICES ASSUME e = Chat!Error
               PROVE  e.kind # "delta" /\ ch' = <<>> /\ failed /\ run # "running"
    OBVIOUS
  <2> HIDE DEF e
  <2>1. 1 = Len(ch) /\ failed /\ run # "running"
    BY <1>1, <1>2 DEF ChatIInv, ErrorIsLast
  <2>2. Len(ch') = 0
    <3>1. Len(ch') = Len(ch) - 1 /\ Len(ch) = 1
      BY <1>2, <2>1
    <3> QED BY <3>1
  <2>3. ch' = <<>>
    BY <1>2, <2>2, EmptySeq
  <2> QED BY <2>1, <2>3, EventKinds
<1>6. ChatTypes'
  BY <1>1, <1>2 DEF ChatIInv, ChatTypes
<1>7. \A i \in DOMAIN ch' : ch'[i] = Chat!Error => i = Len(ch') /\ failed'
  <2> SUFFICES ASSUME NEW i \in DOMAIN ch', ch'[i] = Chat!Error PROVE i = Len(ch') /\ failed'
    OBVIOUS
  <2>1. i \in 1 .. Len(ch') /\ i + 1 \in DOMAIN ch /\ ch[i + 1] = Chat!Error
    BY <1>1, <1>2
  <2>2. i + 1 = Len(ch) /\ failed
    BY <2>1 DEF ChatIInv, ErrorIsLast
  <2> QED BY <1>1, <1>2, <2>1, <2>2
<1>8. e # Chat!Error /\ failed /\ ~ (stream /\ stopReason = "error") =>
          ch' # <<>> /\ ch'[Len(ch')] = Chat!Error
  <2> SUFFICES ASSUME e # Chat!Error, failed, ~ (stream /\ stopReason = "error")
               PROVE  ch' # <<>> /\ ch'[Len(ch')] = Chat!Error
    OBVIOUS
  <2>1. ch[Len(ch)] = Chat!Error
    BY <1>1 DEF ChatIInv, ErrorIsLast
  <2>2. Len(ch) # 1
    BY <1>2, <2>1
  <2>3. Len(ch') \in 1 .. Len(ch') /\ Len(ch') + 1 = Len(ch)
    BY <1>2, <2>2
  <2>4. ch'[Len(ch')] = ch[Len(ch)]
    BY <1>2, <2>3
  <2> QED BY <1>2, <2>1, <2>3, <2>4, EmptySeq
<1> HIDE DEF e
<1>9. CASE stream
  <2>1. /\ chatWire' = IF e.kind = "delta" THEN Append(chatWire, Chat!Line("chunk", <<e.n>>)) ELSE chatWire
        /\ stopReason' = IF e = Chat!Error THEN "error" ELSE stopReason
        /\ UNCHANGED <<handler, content>>
    BY <1>9 DEF Chat!Take, Chat!StreamTakes, e
  <2>2. RestIsComing'
    <3>1. CASE e.kind = "delta"
      <4>1. Told(n + 1)' /\ Tells(ch', n + 1, deltas')
        BY <1>1, <1>3, <1>4, <1>9, <2>1, <3>1, ChunksGrow DEF Told
      <4> QED BY <4>1 DEF RestIsComing
    <3>2. CASE e.kind # "delta"
      <4>1. Told(n)' /\ Tells(ch', n, deltas')
        BY <1>1, <1>3, <1>4, <1>9, <2>1, <3>2 DEF Told
      <4> QED BY <4>1 DEF RestIsComing
    <3> QED BY <3>1, <3>2
  <2>3. ErrorIsLast'
    BY <1>1, <1>5, <1>7, <1>8, <1>9, <2>1 DEF ChatIInv, ErrorIsLast
  <2>4. Chat!ChatIsWhole'
    BY <1>1, <2>1 DEF Chat!ChatIsWhole
  <2> QED BY <1>6, <2>2, <2>3, <2>4 DEF ChatIInv
<1>10. CASE ~ stream /\ e = Chat!Error
  <2>1. chatWire' = Append(chatWire, Chat!Line("502", <<>>)) /\ handler' = "returned"
    BY <1>10 DEF Chat!Take, Chat!SyncTakes, e
  <2>2. chatWire = <<>>
    BY <1>3, <1>10 DEF Told
  <2>3. chatWire' = <<Chat!Line("502", <<>>)>>
    BY <2>1, <2>2
  <2>4. Chat!WholeAnswer' = <<Chat!Line("502", <<>>)>>
    BY <1>1, <1>5, <1>10 DEF Chat!WholeAnswer
  <2>5. Chat!ChatIsWhole'
    BY <1>1, <1>5, <1>10, <2>3, <2>4 DEF Chat!ChatIsWhole
  <2>6. RestIsComing' /\ ErrorIsLast'
    BY <1>1, <1>7, <2>1 DEF RestIsComing, ErrorIsLast, ChatIInv
  <2> QED BY <1>6, <2>5, <2>6 DEF ChatIInv
<1>11. CASE ~ stream /\ e # Chat!Error
  <2>1. /\ content' = IF e.kind = "delta" THEN Append(content, e.n) ELSE content
        /\ UNCHANGED <<chatWire, handler, stopReason>>
    BY <1>11 DEF Chat!Take, Chat!SyncTakes, e
  <2>2. RestIsComing'
    <3>1. CASE e.kind = "delta"
      <4>1. Told(n + 1)' /\ Tells(ch', n + 1, deltas')
        BY <1>1, <1>3, <1>4, <1>11, <2>1, <3>1, TextGrows DEF Told
      <4> QED BY <4>1 DEF RestIsComing
    <3>2. CASE e.kind # "delta"
      <4>1. Told(n)' /\ Tells(ch', n, deltas')
        BY <1>1, <1>3, <1>4, <1>11, <2>1, <3>2 DEF Told
      <4> QED BY <4>1 DEF RestIsComing
    <3> QED BY <3>1, <3>2
  <2>3. ErrorIsLast'
    BY <1>1, <1>7, <1>8, <1>11, <2>1 DEF ChatIInv, ErrorIsLast
  <2>4. Chat!ChatIsWhole'
    BY <1>1, <2>1 DEF Chat!ChatIsWhole
  <2> QED BY <1>6, <2>2, <2>3, <2>4 DEF ChatIInv
<1> QED BY <1>9, <1>10, <1>11

\* Nothing is left in the channel: all was told.
LEMMA AnswerKeepsChat == ASSUME ChatIInv, Chat!Answer PROVE ChatIInv'
<1>1. /\ handler = "reading" /\ ch = <<>> /\ run = "closed" /\ handler' = "returned"
      /\ chatWire' = chatWire \o IF stream THEN <<Chat!Line(stopReason, <<>>), Chat!Line("[DONE]", <<>>)>>
                                           ELSE <<Chat!Line("200", content)>>
      /\ UNCHANGED <<stream, run, deltas, others, failed, ch, content, stopReason>>
      /\ stream \in BOOLEAN /\ deltas \in Nat /\ failed \in BOOLEAN
  BY DEF Chat!Answer, Chat!agent, ChatIInv, ChatTypes
<1>2. Told(deltas)
  <2>1. PICK n \in Nat : Told(n) /\ Tells(ch, n, deltas)
    BY <1>1 DEF ChatIInv, RestIsComing
  <2>2. n = deltas
    BY <1>1, <2>1, NothingTold
  <2> QED BY <2>1, <2>2
<1>3. (failed => stream /\ stopReason = "error") /\ (~ failed => stopReason = "stop")
  BY <1>1 DEF ChatIInv, ErrorIsLast
<1>4. chatWire' = Chat!WholeAnswer'
  <2>1. CASE stream
    <3>1. stopReason = IF failed THEN "error" ELSE "stop"
      BY <1>1, <1>3
    <3> QED BY <1>1, <1>2, <2>1, <3>1 DEF Told, Chat!WholeAnswer
  <2>2. CASE ~ stream
    <3>1. chatWire' = <<>> \o <<Chat!Line("200", Chat!Text(deltas))>>
      BY <1>1, <1>2, <2>2 DEF Told
    <3>2. \A x : <<>> \o <<x>> = <<x>>
      OBVIOUS
    <3> QED BY <1>1, <1>3, <2>2, <3>1, <3>2 DEF Chat!WholeAnswer
  <2> QED BY <2>1, <2>2
<1>5. Chat!ChatIsWhole'
  BY <1>1, <1>4 DEF Chat!ChatIsWhole
<1>6. ChatTypes' /\ RestIsComing' /\ ErrorIsLast'
  BY <1>1 DEF ChatIInv, ChatTypes, RestIsComing, ErrorIsLast
<1> QED BY <1>5, <1>6 DEF ChatIInv

LEMMA ChatNextKeepsIInv == ASSUME ChatIInv, [Chat!Next]_(Chat!vars) PROVE ChatIInv'
<1>0. deltas \in Nat /\ failed \in BOOLEAN
  BY DEF ChatIInv, ChatTypes
<1>1. CASE UNCHANGED Chat!vars
  BY <1>1 DEF Chat!vars, Chat!agent, Chat!server, ChatIInv, ChatTypes, RestIsComing, Told,
       ErrorIsLast,
     Chat!ChatIsWhole, Chat!WholeAnswer
<1>2. CASE Chat!SendDelta
  <2>1. /\ run = "running" /\ ch' = Append(ch, Chat!Delta(deltas + 1)) /\ deltas' = deltas + 1
        /\ UNCHANGED <<stream, run, failed, handler, content, stopReason, chatWire>>
    BY <1>2 DEF Chat!SendDelta, Chat!Send, Chat!server
  <2> DEFINE e == Chat!Delta(deltas + 1)
  <2>2. e \in Events /\ e.kind = "delta" /\ e.n = deltas + 1 /\ e # Chat!Error
    BY <1>0, EventKinds
  <2> HIDE DEF e
  <2> QED BY <1>0, <2>1, <2>2, SendKeepsIInv DEF e
<1>3. CASE Chat!SendOther \/ Chat!Succeed
  <2>1. /\ run = "running" /\ ch' = Append(ch, Chat!Other)
        /\ UNCHANGED <<stream, deltas, failed, handler, content, stopReason, chatWire>>
    BY <1>3 DEF Chat!SendOther, Chat!Succeed, Chat!Send, Chat!server
  <2> QED BY <1>0, <2>1, EventKinds, SendKeepsIInv
<1>4. CASE Chat!Fail
  <2>1. /\ run = "running" /\ ch' = Append(ch, Chat!Error) /\ run' = "returned" /\ failed' = TRUE
        /\ UNCHANGED <<stream, deltas, handler, content, stopReason, chatWire>>
    BY <1>4 DEF Chat!Fail, Chat!Send, Chat!server
  <2> QED BY <1>0, <2>1, EventKinds, SendKeepsIInv
<1>5. CASE Chat!Close
  BY <1>5 DEF Chat!Close, Chat!server, ChatIInv, ChatTypes, RestIsComing, Told, ErrorIsLast,
     Chat!ChatIsWhole, Chat!WholeAnswer
<1> QED BY <1>1, <1>2, <1>3, <1>4, <1>5, TakeKeepsIInv, AnswerKeepsChat DEF Chat!Next

LEMMA StepsOfChat == [Next]_vars => [Chat!Next]_(Chat!vars)
  BY DEF Next, vars, billVars, provVars, mcpVars, batchVars, gateVars, chatVars, memVars,
     Chat!vars, Chat!agent, Chat!server

\* The client gets the text of the run whole and in its order, or an error and no
\* second answer, and a handler that has returned leaves no agent behind that still
\* wants to send (openai_compat.go:112-199).
THEOREM ChatWhole == Spec => []ChatIsWhole
<1>1. Init => ChatIInv
  BY ChatInitIInv DEF Init
<1>2. ChatIInv /\ [Next]_vars => ChatIInv'
  BY ChatNextKeepsIInv, StepsOfChat
<1>3. ChatIInv => ChatIsWhole
  BY DEF ChatIInv, ChatIsWhole
<1> QED BY <1>1, <1>2, <1>3, PTL DEF Spec

-------------------------------------------------------------------------------
(* The memory.                                                             *)
Contents == Seq([end : Nat, whole : BOOLEAN])
MemOps == [name : Names \cup {"none"}, size : Nat, append : BOOLEAN]

MemTypes ==
    /\ memPc \in [Workers -> {"idle", "open", "check", "write", "read"}]
    /\ memOp \in [Workers -> MemOps]
    /\ files \in [Names -> Contents] /\ settled \in [Names -> Contents]
    /\ got \in [Workers -> [content : Contents, settled : Contents]]
    /\ memNotes \in Seq([size : Nat, whole : BOOLEAN]) /\ piece \in Nat

\* Who is in a write holds the lock alone.
LockIsHeld ==
    /\ \A w \in Workers : memPc[w] \in {"open", "check", "write"} <=> lock = w
    /\ \A w \in Workers : memPc[w] = "read" <=> w \in readers
    /\ lock # "none" => readers = {}

\* The write of a worker was admitted, and past open it is none to a link.
WriteIsFit ==
    \A w \in Workers :
        /\ memPc[w] # "idle" => memOp[w].name \in Names
        /\ memPc[w] \in {"open", "check", "write"} => memOp[w].size <= Limit
        /\ memPc[w] = "write" =>
               Mem!SizeOf(files[memOp[w].name]) + memOp[w].size <= Limit

\* A file is as settled, except that the write which has opened it may have emptied it.
Emptied(n) ==
    \E w \in Workers :
        /\ lock = w /\ memPc[w] \in {"check", "write"}
        /\ memOp[w].name = n /\ ~ memOp[w].append
FilesAreSettled ==
    \A n \in Names : IF Emptied(n) THEN files[n] = <<>> ELSE files[n] = settled[n]

FilesFit == \A n \in Names : Mem!SizeOf(files[n]) <= Limit

ReadsAreSettled == \A w \in Workers : got[w].content = got[w].settled

NotesFit == \A i \in DOMAIN memNotes :
                memNotes[i].size >= RecordLimit => ~ memNotes[i].whole

MemIInv ==
    /\ MemTypes /\ LockIsHeld /\ WriteIsFit /\ FilesAreSettled /\ FilesFit
    /\ ReadsAreSettled /\ NotesFit

-------------------------------------------------------------------------------
LEMMA SizesAreNumbers ==
    ASSUME NEW c \in Contents
    PROVE  /\ Mem!SizeOf(c) \in Nat
           /\ \A n \in Nat, b \in BOOLEAN :
                 /\ Mem!Written(c, n, b) \in Contents
                 /\ Mem!SizeOf(Mem!Written(c, n, b)) = Mem!SizeOf(c) + n
<1>1. Mem!SizeOf(c) \in Nat
  <2>1. CASE c = <<>>
    BY <2>1 DEF Mem!SizeOf
  <2>2. CASE c # <<>>
    <3>1. Len(c) \in 1 .. Len(c)
      BY <2>2, EmptySeq DEF Contents
    <3>2. c[Len(c)] \in [end : Nat, whole : BOOLEAN]
      BY <3>1, ElementOfSeq DEF Contents
    <3> QED BY <2>2, <3>2 DEF Mem!SizeOf
  <2> QED BY <2>1, <2>2
<1>2. ASSUME NEW n \in Nat, NEW b \in BOOLEAN
      PROVE  /\ Mem!Written(c, n, b) \in Contents
             /\ Mem!SizeOf(Mem!Written(c, n, b)) = Mem!SizeOf(c) + n
  <2> DEFINE part == [end |-> Mem!SizeOf(c) + n, whole |-> b]
  <2>1. part \in [end : Nat, whole : BOOLEAN] /\ part.end = Mem!SizeOf(c) + n
    BY <1>1
  <2>2. Mem!Written(c, n, b) = Append(c, part)
    BY DEF Mem!Written
  <2> HIDE DEF part
  <2>3. /\ Append(c, part) \in Contents /\ Append(c, part) # <<>>
        /\ Append(c, part)[Len(Append(c, part))] = part
    BY <2>1, AppendProperties DEF Contents
  <2> QED BY <2>1, <2>2, <2>3 DEF Mem!SizeOf
<1> QED BY <1>1, <1>2

LEMMA EmptyContent == <<>> \in Contents /\ Mem!SizeOf(<<>>) = 0
  BY DEF Contents, Mem!SizeOf

LEMMA MemInitIInv == Mem!Init => MemIInv
<1> SUFFICES ASSUME Mem!Init PROVE MemIInv
  OBVIOUS
<1> USE ServiceAssumption DEF ServiceAssumption, Mem!Init, Mem!None
<1>1. MemTypes
  <2>1. Mem!NoOp \in MemOps
    BY DEF Mem!NoOp, MemOps
  <2> QED BY <2>1, EmptyContent DEF MemTypes
<1>2. LockIsHeld
  BY DEF LockIsHeld
<1>3. WriteIsFit
  BY DEF WriteIsFit
<1>4. FilesAreSettled
  BY DEF FilesAreSettled, Emptied
<1>5. FilesFit
  BY EmptyContent DEF FilesFit
<1>6. ReadsAreSettled /\ NotesFit
  BY DEF ReadsAreSettled, NotesFit
<1> QED BY <1>1, <1>2, <1>3, <1>4, <1>5, <1>6 DEF MemIInv

\* The end of a write, if what it leaves is settled and fits the limit.
LEMMA FinishKeepsIInv ==
    ASSUME MemIInv, NEW w \in Workers, lock = w,
           NEW c \in Contents, Mem!SizeOf(c) <= Limit, Mem!Finish(w, c, c),
           UNCHANGED <<readers, got, memNotes, piece>>
    PROVE  MemIInv'
<1> DEFINE n == memOp[w].name
<1>0. /\ lock # "none"
      /\ memPc[w] \in {"open", "check", "write"} /\ n \in Names
  BY ServiceAssumption DEF ServiceAssumption, MemIInv, LockIsHeld, WriteIsFit
<1>1. /\ files' = [files EXCEPT ![n] = c] /\ settled' = [settled EXCEPT ![n] = c]
      /\ lock' = "none" /\ memPc' = [memPc EXCEPT ![w] = "idle"]
      /\ memOp' = [memOp EXCEPT ![w] = Mem!NoOp]
      /\ UNCHANGED <<readers, got, memNotes, piece>>
  BY DEF Mem!Finish, Mem!Goto, Mem!None
<1>2. \A v \in Workers : v # w => memPc[v] \notin {"open", "check", "write"}
  BY DEF MemIInv, LockIsHeld
<1>3. MemTypes'
  <2>1. Mem!NoOp \in MemOps
    BY DEF Mem!NoOp, MemOps, Mem!None
  <2> QED BY <1>0, <1>1, <2>1 DEF MemIInv, MemTypes
<1>4. LockIsHeld'
  BY <1>0, <1>1, <1>2, ServiceAssumption DEF MemIInv, MemTypes, LockIsHeld,
       ServiceAssumption
<1>5. WriteIsFit'
  BY <1>0, <1>1, <1>2 DEF MemIInv, MemTypes, WriteIsFit
<1>6. FilesAreSettled'
  <2>1. \A m : ~ Emptied(m)'
    BY <1>1, ServiceAssumption DEF Emptied, ServiceAssumption
  <2>2. \A m \in Names : m # n => ~ Emptied(m)
    BY DEF Emptied
  <2>3. \A m \in Names : files'[m] = settled'[m]
    BY <1>0, <1>1, <2>2 DEF MemIInv, MemTypes, FilesAreSettled
  <2> QED BY <2>1, <2>3 DEF FilesAreSettled
<1>7. FilesFit'
  BY <1>0, <1>1 DEF MemIInv, MemTypes, FilesFit
<1>8. ReadsAreSettled' /\ NotesFit'
  BY <1>1 DEF MemIInv, ReadsAreSettled, NotesFit
<1> QED BY <1>3, <1>4, <1>5, <1>6, <1>7, <1>8 DEF MemIInv

LEMMA BeginWriteKeepsIInv ==
    ASSUME MemIInv, NEW w \in Workers, NEW n \in Names, NEW size \in Sizes,
           NEW append \in BOOLEAN, Mem!BeginWrite(w, n, size, append)
    PROVE  MemIInv'
<1>1. /\ memPc[w] = "idle" /\ size <= Limit /\ lock = "none" /\ readers = {}
      /\ lock' = w /\ memPc' = [memPc EXCEPT ![w] = "open"]
      /\ memOp' = [memOp EXCEPT ![w] = [name |-> n, size |-> size, append |-> append]]
      /\ UNCHANGED <<readers, files, settled, got, memNotes, piece>>
  BY ServiceAssumption
     DEF Mem!BeginWrite, Mem!WLock, Mem!Goto, Mem!None, Mem!TooLarge, ServiceAssumption
<1>2. \A v \in Workers : memPc[v] = "idle"
  BY <1>1, ServiceAssumption DEF MemIInv, MemTypes, LockIsHeld, ServiceAssumption
<1>3. MemTypes'
  BY <1>1, ServiceAssumption DEF MemIInv, MemTypes, MemOps, ServiceAssumption
<1>4. LockIsHeld'
  BY <1>1, <1>2 DEF MemIInv, MemTypes, LockIsHeld
<1>5. WriteIsFit'
  BY <1>1, <1>2 DEF MemIInv, MemTypes, WriteIsFit
<1>6. FilesAreSettled'
  <2>1. \A m : ~ Emptied(m) /\ ~ Emptied(m)'
    BY <1>1, <1>2 DEF MemIInv, MemTypes, Emptied
  <2> QED BY <1>1, <2>1 DEF MemIInv, FilesAreSettled
<1>7. FilesFit' /\ ReadsAreSettled' /\ NotesFit'
  BY <1>1 DEF MemIInv, FilesFit, ReadsAreSettled, NotesFit
<1> QED BY <1>3, <1>4, <1>5, <1>6, <1>7 DEF MemIInv

\* A step within a write: others do nothing that a write looks at.
LEMMA OpenKeepsIInv == ASSUME MemIInv, NEW w \in Workers, Mem!Open(w) PROVE MemIInv'
<1> DEFINE n == memOp[w].name
<1>1. memPc[w] = "open" /\ lock = w /\ n \in Names /\ UNCHANGED <<readers, got, memNotes, piece>>
  BY DEF Mem!Open, MemIInv, LockIsHeld, WriteIsFit
<1>2. ~ Emptied(n) /\ files[n] = settled[n]
  <2>1. ~ Emptied(n)
    BY <1>1, ServiceAssumption DEF Emptied, ServiceAssumption
  <2> QED BY <1>1, <2>1 DEF MemIInv, FilesAreSettled
<1>3. CASE n \in Links
  <2>1. Mem!Finish(w, files[n], files[n])
    BY <1>2, <1>3 DEF Mem!Open
  <2>2. files[n] \in Contents /\ Mem!SizeOf(files[n]) <= Limit
    BY <1>1 DEF MemIInv, MemTypes, FilesFit
  <2> QED BY <1>1, <2>1, <2>2, FinishKeepsIInv
<1>4. CASE n \notin Links
  <2>1. /\ files' = IF memOp[w].append THEN files ELSE [files EXCEPT ![n] = <<>>]
        /\ memPc' = [memPc EXCEPT ![w] = "check"]
        /\ UNCHANGED <<memOp, lock, settled>>
    BY <1>4 DEF Mem!Open, Mem!Goto
  <2>2. MemTypes'
    BY <1>1, <2>1, EmptyContent DEF MemIInv, MemTypes
  <2>3. LockIsHeld'
    BY <1>1, <2>1 DEF MemIInv, MemTypes, LockIsHeld
  <2>4. WriteIsFit'
    BY <1>1, <2>1 DEF MemIInv, MemTypes, LockIsHeld, WriteIsFit
  <2>5. FilesAreSettled'
    <3>1. \A m \in Names : Emptied(m)' <=> m = n /\ ~ memOp[w].append
      BY <1>1, <2>1 DEF MemIInv, MemTypes, LockIsHeld, Emptied
    <3>2. \A m \in Names : ~ Emptied(m)
      BY <1>1, ServiceAssumption DEF Emptied, ServiceAssumption
    <3> QED BY <1>1, <2>1, <3>1, <3>2 DEF MemIInv, MemTypes, FilesAreSettled
  <2>6. FilesFit'
    BY <1>1, <2>1, EmptyContent, ServiceAssumption
       DEF MemIInv, MemTypes, FilesFit, ServiceAssumption
  <2>7. ReadsAreSettled' /\ NotesFit'
    BY <1>1 DEF MemIInv, ReadsAreSettled, NotesFit
  <2> QED BY <2>2, <2>3, <2>4, <2>5, <2>6, <2>7 DEF MemIInv
<1> QED BY <1>3, <1>4

\* A write that empties the file is never refused here, as it was looked at before.
LEMMA CheckKeepsIInv == ASSUME MemIInv, NEW w \in Workers, Mem!Check(w) PROVE MemIInv'
<1> DEFINE n == memOp[w].name
<1>1. /\ memPc[w] = "check" /\ lock = w /\ n \in Names /\ memOp[w].size <= Limit
      /\ UNCHANGED <<readers, got, memNotes, piece>>
  BY DEF Mem!Check, MemIInv, LockIsHeld, WriteIsFit
<1>2. memOp[w].size \in Nat /\ memOp[w].append \in BOOLEAN /\ files[n] \in Contents
  BY <1>1 DEF MemIInv, MemTypes, MemOps
<1>3. CASE Mem!TooLarge(memOp[w].size) \/ Mem!SizeOf(files[n]) + memOp[w].size > Limit
  <2>1. Mem!Finish(w, files[n], settled[n])
    BY <1>3 DEF Mem!Check
  <2>2. files[n] # <<>>
    BY <1>1, <1>2, <1>3, EmptyContent, ServiceAssumption DEF Mem!TooLarge, ServiceAssumption
  <2>3. files[n] = settled[n]
    BY <1>1, <2>2 DEF MemIInv, FilesAreSettled
  <2>4. Mem!SizeOf(files[n]) <= Limit
    BY <1>1 DEF MemIInv, FilesFit
  <2>5. Mem!Finish(w, files[n], files[n])
    BY <2>1, <2>3
  <2> QED BY <1>1, <1>2, <2>4, <2>5, FinishKeepsIInv
<1>4. CASE ~ (Mem!TooLarge(memOp[w].size) \/ Mem!SizeOf(files[n]) + memOp[w].size > Limit)
  <2>1. memPc' = [memPc EXCEPT ![w] = "write"] /\ UNCHANGED <<memOp, lock, files, settled>>
    BY <1>4 DEF Mem!Check, Mem!Goto
  <2>2. MemTypes'
    BY <1>1, <2>1 DEF MemIInv, MemTypes
  <2>3. LockIsHeld'
    BY <1>1, <2>1 DEF MemIInv, MemTypes, LockIsHeld
  <2>4. Mem!SizeOf(files[n]) + memOp[w].size <= Limit
    BY <1>2, <1>4, SizesAreNumbers, ServiceAssumption DEF ServiceAssumption
  <2>5. WriteIsFit'
    BY <1>1, <2>1, <2>4 DEF MemIInv, MemTypes, LockIsHeld, WriteIsFit
  <2>6. FilesAreSettled'
    <3>1. \A m \in Names : Emptied(m)' <=> Emptied(m)
      BY <1>1, <2>1 DEF MemIInv, MemTypes, LockIsHeld, Emptied
    <3> QED BY <2>1, <3>1 DEF MemIInv, FilesAreSettled
  <2>7. FilesFit' /\ ReadsAreSettled' /\ NotesFit'
    BY <1>1, <2>1 DEF MemIInv, FilesFit, ReadsAreSettled, NotesFit
  <2> QED BY <2>2, <2>3, <2>5, <2>6, <2>7 DEF MemIInv
<1> QED BY <1>3, <1>4

LEMMA WriteKeepsIInv == ASSUME MemIInv, NEW w \in Workers, Mem!WriteString(w) PROVE MemIInv'
<1> DEFINE n == memOp[w].name
           all == Mem!Written(files[n], memOp[w].size, TRUE)
           atomic == Mem!Written(IF memOp[w].append THEN settled[n] ELSE <<>>, memOp[w].size, TRUE)
<1>1. /\ memPc[w] = "write" /\ lock = w /\ n \in Names
      /\ Mem!SizeOf(files[n]) + memOp[w].size <= Limit
      /\ UNCHANGED <<readers, got, memNotes, piece>>
  BY DEF Mem!WriteString, MemIInv, LockIsHeld, WriteIsFit
<1>2. memOp[w].size \in Nat /\ files[n] \in Contents
  BY <1>1 DEF MemIInv, MemTypes, MemOps
<1>3. CASE Mem!Finish(w, all, atomic)
  <2>1. files[n] = IF memOp[w].append THEN settled[n] ELSE <<>>
    <3>1. Emptied(n) <=> ~ memOp[w].append
      BY <1>1 DEF Emptied, MemIInv, LockIsHeld
    <3> QED BY <1>1, <3>1 DEF MemIInv, FilesAreSettled
  <2>2. Mem!Finish(w, all, all)
    BY <1>3, <2>1
  <2>3. all \in Contents /\ Mem!SizeOf(all) <= Limit
    BY <1>1, <1>2, SizesAreNumbers
  <2> HIDE DEF all, n
  <2> QED BY <1>1, <2>2, <2>3, FinishKeepsIInv
<1>4. ASSUME NEW cut \in 0 .. memOp[w].size - 1, NEW left,
             left = IF cut = 0 THEN files[n] ELSE Mem!Written(files[n], cut, FALSE),
             Mem!Finish(w, left, left)
      PROVE  MemIInv'
  <2>1. cut \in Nat /\ cut <= memOp[w].size
    BY <1>2
  <2>2. left \in Contents /\ Mem!SizeOf(left) <= Limit
    <3>1. CASE cut = 0
      BY <1>1, <1>2, <1>4, <3>1 DEF MemIInv, FilesFit
    <3>2. CASE cut # 0
      <4>1. left = Mem!Written(files[n], cut, FALSE)
        BY <1>4, <3>2
      <4>2. left \in Contents /\ Mem!SizeOf(left) = Mem!SizeOf(files[n]) + cut
        BY <1>2, <2>1, <4>1, SizesAreNumbers
      <4>3. Mem!SizeOf(files[n]) \in Nat
        BY <1>2, SizesAreNumbers
      <4> QED BY <1>1, <1>2, <2>1, <4>2, <4>3, ServiceAssumption DEF ServiceAssumption
    <3> QED BY <3>1, <3>2
  <2> HIDE DEF n
  <2> QED BY <1>1, <1>4, <2>2, FinishKeepsIInv
<1> QED BY <1>3, <1>4 DEF Mem!WriteString

LEMMA ReadKeepsIInv ==
    ASSUME MemIInv, NEW w \in Workers,
           (\E n \in Names : Mem!BeginRead(w, n)) \/ Mem!Read(w)
    PROVE  MemIInv'
<1>1. UNCHANGED <<lock, files, settled, memNotes, piece>>
  BY DEF Mem!BeginRead, Mem!Read
<1>2. NotesFit' /\ FilesFit'
  BY <1>1 DEF MemIInv, NotesFit, FilesFit
<1>3. ASSUME NEW n \in Names, Mem!BeginRead(w, n) PROVE MemIInv'
  <2>1. /\ memPc[w] = "idle" /\ lock = "none" /\ readers' = readers \cup {w}
        /\ memOp' = [memOp EXCEPT ![w] = [name |-> n, size |-> 0, append |-> FALSE]]
        /\ memPc' = [memPc EXCEPT ![w] = "read"] /\ UNCHANGED got
    BY <1>3 DEF Mem!BeginRead, Mem!RLock, Mem!Goto, Mem!None
  <2>2. [name |-> n, size |-> 0, append |-> FALSE] \in MemOps
    BY DEF MemOps
  <2>3. MemTypes'
    BY <1>1, <2>1, <2>2 DEF MemIInv, MemTypes
  <2>4. LockIsHeld'
    BY <1>1, <2>1, ServiceAssumption DEF MemIInv, MemTypes, LockIsHeld, ServiceAssumption
  <2>5. WriteIsFit'
    BY <1>1, <2>1 DEF MemIInv, MemTypes, WriteIsFit
  <2>6. FilesAreSettled'
    <3>1. \A m : ~ Emptied(m)' /\ ~ Emptied(m)
      BY <1>1, <2>1, ServiceAssumption DEF Emptied, ServiceAssumption
    <3> QED BY <1>1, <3>1 DEF MemIInv, FilesAreSettled
  <2>7. ReadsAreSettled'
    BY <2>1 DEF MemIInv, ReadsAreSettled
  <2> QED BY <1>2, <2>3, <2>4, <2>5, <2>6, <2>7 DEF MemIInv
<1>4. CASE Mem!Read(w)
  <2> DEFINE n == memOp[w].name
  <2>1. /\ memPc[w] = "read" /\ readers' = readers \ {w}
        /\ got' = [got EXCEPT ![w] = [content |-> files[n], settled |-> settled[n]]]
        /\ memPc' = [memPc EXCEPT ![w] = "idle"]
        /\ memOp' = [memOp EXCEPT ![w] = Mem!NoOp]
    BY <1>4 DEF Mem!Read, Mem!Goto
  <2>2. lock = "none" /\ n \in Names
    BY <2>1, ServiceAssumption DEF MemIInv, LockIsHeld, WriteIsFit, ServiceAssumption
  <2>3. \A m : ~ Emptied(m)' /\ ~ Emptied(m)
    BY <1>1, <2>2, ServiceAssumption DEF Emptied, ServiceAssumption
  <2>4. FilesAreSettled' /\ files[n] = settled[n]
    BY <1>1, <2>2, <2>3 DEF MemIInv, FilesAreSettled
  <2>5. MemTypes'
    <3>1. Mem!NoOp \in MemOps
      BY DEF Mem!NoOp, MemOps, Mem!None
    <3> QED BY <1>1, <2>1, <2>2, <3>1 DEF MemIInv, MemTypes
  <2>6. LockIsHeld'
    BY <1>1, <2>1, <2>2, ServiceAssumption
         DEF MemIInv, MemTypes, LockIsHeld, ServiceAssumption
  <2>7. WriteIsFit'
    BY <1>1, <2>1 DEF MemIInv, MemTypes, WriteIsFit
  <2>8. ReadsAreSettled'
    BY <2>1, <2>4 DEF MemIInv, MemTypes, ReadsAreSettled
  <2> QED BY <1>2, <2>4, <2>5, <2>6, <2>7, <2>8 DEF MemIInv
<1> QED BY <1>3, <1>4

\* What a write has left is settled when the process dies.
LEMMA CrashKeepsIInv == ASSUME MemIInv, Mem!Crash PROVE MemIInv'
<1>1. /\ memPc' = [w \in Workers |-> "idle"] /\ lock' = "none" /\ readers' = {}
      /\ memOp' = [w \in Workers |-> Mem!NoOp] /\ settled' = files
      /\ UNCHANGED <<files, got, memNotes, piece>>
  BY DEF Mem!Crash, Mem!None
<1>2. MemTypes'
  <2>1. Mem!NoOp \in MemOps
    BY DEF Mem!NoOp, MemOps, Mem!None
  <2> QED BY <1>1, <2>1 DEF MemIInv, MemTypes
<1>3. LockIsHeld' /\ WriteIsFit'
  BY <1>1, ServiceAssumption DEF LockIsHeld, WriteIsFit, ServiceAssumption
<1>4. FilesAreSettled'
  BY <1>1, ServiceAssumption DEF FilesAreSettled, Emptied, ServiceAssumption
<1>5. FilesFit' /\ ReadsAreSettled' /\ NotesFit'
  BY <1>1 DEF MemIInv, FilesFit, ReadsAreSettled, NotesFit
<1> QED BY <1>2, <1>3, <1>4, <1>5 DEF MemIInv

LEMMA AddNoteKeepsIInv ==
    ASSUME MemIInv, NEW size \in Sizes, Mem!AddNote(size)
    PROVE  MemIInv'
<1>1. size \in Nat /\ size < RecordLimit /\ piece \in Nat /\ RecordLimit \in Nat
  BY ServiceAssumption DEF Mem!AddNote, ServiceAssumption, MemIInv, MemTypes
<1>2. UNCHANGED <<memPc, memOp, lock, readers, files, settled, got>>
  BY DEF Mem!AddNote, Mem!store
<1>3. /\ memNotes' \in Seq([size : Nat, whole : BOOLEAN]) /\ piece' \in Nat
      /\ NotesFit'
  <2> DEFINE line == [size |-> piece + size, whole |-> piece = 0]
  <2>0. memNotes \in Seq([size : Nat, whole : BOOLEAN])
    BY DEF MemIInv, MemTypes
  <2>1. CASE memNotes' = Append(memNotes, line) /\ piece' = 0
    <3>1. /\ line \in [size : Nat, whole : BOOLEAN]
          /\ line.size >= RecordLimit => ~ line.whole
      <4>1. piece + size \in Nat /\ (piece = 0) \in BOOLEAN
        BY <1>1
      <4>2. piece + size >= RecordLimit => ~ (piece = 0)
        BY <1>1
      <4> QED BY <4>1, <4>2
    <3> HIDE DEF line
    <3> QED BY <2>0, <2>1, <3>1 DEF MemIInv, NotesFit
  <2>2. CASE memNotes' = memNotes /\ \E cut \in 1 .. size : piece' = piece + cut
    BY <1>1, <2>0, <2>2 DEF MemIInv, NotesFit
  <2> QED BY <2>1, <2>2 DEF Mem!AddNote
<1> QED BY <1>2, <1>3 DEF MemIInv, MemTypes, LockIsHeld, WriteIsFit, FilesAreSettled,
     Emptied,
         FilesFit, ReadsAreSettled

LEMMA MemNextKeepsIInv == ASSUME MemIInv, [Mem!Next]_(Mem!vars) PROVE MemIInv'
<1>1. CASE UNCHANGED Mem!vars
  BY <1>1 DEF Mem!vars, MemIInv, MemTypes, LockIsHeld, WriteIsFit, FilesAreSettled, Emptied,
         FilesFit, ReadsAreSettled, NotesFit
<1>2. CASE Mem!Next
  BY <1>2, BeginWriteKeepsIInv, OpenKeepsIInv, CheckKeepsIInv, WriteKeepsIInv,
       ReadKeepsIInv,
     CrashKeepsIInv, AddNoteKeepsIInv DEF Mem!Next
<1> QED BY <1>1, <1>2

LEMMA StepsOfMemory == [Next]_vars => [Mem!Next]_(Mem!vars)
  BY DEF Next, vars, billVars, provVars, mcpVars, batchVars, gateVars, chatVars, memVars,
       Mem!vars

\* A write of a memory file happens as a whole or not at all, a read never sees one in
\* between, no file outgrows the limit, and no note that was added makes the search fail
\* (automemory.go:83-133, memory.go:68-153).
THEOREM MemoryAtomic == Spec => []MemoryIsAtomic
<1>1. Init => MemIInv
  BY MemInitIInv DEF Init
<1>2. MemIInv /\ [Next]_vars => MemIInv'
  BY MemNextKeepsIInv, StepsOfMemory
<1>3. MemIInv => MemoryIsAtomic
  <2> SUFFICES ASSUME MemIInv PROVE MemoryIsAtomic
    OBVIOUS
  <2>1. lock = "none" => files = settled
    <3> SUFFICES ASSUME lock = "none" PROVE files = settled
      OBVIOUS
    <3>1. \A n : ~ Emptied(n)
      BY ServiceAssumption DEF Emptied, ServiceAssumption
    <3>2. \A n \in Names : files[n] = settled[n]
      BY <3>1 DEF MemIInv, FilesAreSettled
    <3> QED BY <3>2 DEF MemIInv, MemTypes
  <2>2. Mem!SearchFails => piece > 0 \/ Mem!Found # DOMAIN memNotes
    <3> SUFFICES ASSUME Mem!SearchFails, piece = 0 PROVE Mem!Found # DOMAIN memNotes
      BY DEF MemIInv, MemTypes
    <3>1. PICK i \in DOMAIN memNotes : memNotes[i].size >= RecordLimit
      BY ServiceAssumption DEF Mem!SearchFails, ServiceAssumption
    <3>2. i \notin Mem!Found
      BY <3>1 DEF MemIInv, NotesFit, Mem!Found
    <3> QED BY <3>1, <3>2
  <2> QED BY <2>1, <2>2 DEF MemIInv, FilesFit, ReadsAreSettled, MemoryIsAtomic,
           Mem!MemoryIsAtomic, Mem!None
<1> QED BY <1>1, <1>2, <1>3, PTL DEF Spec
================================================================================
