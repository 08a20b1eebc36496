-------------------------------- MODULE Billing --------------------------------
(* The accounts of token usage (internal/billing): the accumulator, which keeps
   totals per session and per day in memory, and the JSONL store that it appends
   to. Add holds the mutex of the accumulator from its first look at the totals to
   the answer of the store, so it is one step. What can go wrong in it is the store,
   whose buffered writer keeps its first error for the rest of its life; and the
   process, which starts again without totals over a file that may end in a piece
   of a line.
   The tokens of a request are one number, as input and output are added alike, and
   its cost is that number times the price of the provider. Their sum is formed in
   64 bits, which the model leaves exact, and compared with the largest int. *)
EXTENDS Integers, Sequences

CONSTANTS
    Sessions,           \* session IDs
    Prices,             \* prices per token of the configured providers; 0 is free
    Amounts,            \* the token counts that a provider may report
    SessionMaxTokens,   \* budget of a session; 0 is none
    DailyMaxCost,       \* budget of a day; 0 is none
    MaxInt,             \* the largest int of the platform
    LastDay,            \* bound: days
    MaxLines,           \* bound: lines of the file
    MaxLives            \* bound: starts of the process

VARIABLES
    sessions,       \* a.sessions: the totals of the sessions seen in this life
    daily,          \* a.daily
    dailyCost,      \* a.dailyCost, which the budget of the day is checked against
    file,           \* the lines of billing.jsonl
    torn,           \* the file ends in a piece of a line
    stuck,          \* the buffered writer has failed
    today, life

account == <<sessions, daily, dailyCost>>
vars == <<account, file, torn, stuck, today, life>>

Nothing == [k \in {} |-> 0]
Zero == [tokens |-> 0, cost |-> 0]

\* The entry of a map or its zero value; the map with an entry set; and with an
\* entry as it was in an earlier map, which may not have had it.
Entry(map, k, zero) == IF k \in DOMAIN map THEN map[k] ELSE zero
With(map, k, v) == [x \in DOMAIN map \cup {k} |-> IF x = k THEN v ELSE map[x]]
PutBack(map, k, before) ==
    IF k \in DOMAIN before THEN With(map, k, before[k])
                           ELSE [x \in DOMAIN map \ {k} |-> map[x]]
Plus(total, n, c) == [tokens |-> total.tokens + n, cost |-> total.cost + c]

-----------------------------------------------------------------------------
Init ==
    /\ sessions = Nothing /\ daily = Nothing /\ dailyCost = Nothing
    /\ file = <<>> /\ torn = FALSE /\ stuck = FALSE
    /\ today = 1 /\ life = 1

\* The checks that come before anything changes.
Refused(s, n, c) ==
    LET tokens == Entry(sessions, s, Zero).tokens + n
        spent  == Entry(dailyCost, today, 0) + c
    IN  \/ n < 0
        \/ tokens > MaxInt
        \/ SessionMaxTokens > 0 /\ tokens > SessionMaxTokens
        \/ DailyMaxCost > 0 /\ spent > DailyMaxCost

\* FileStore.Append writes a line, which is readable unless it continues a piece
\* that an earlier life has left.
AppendLine(s, n, c) ==
    /\ ~ stuck
    /\ file' = Append(file, [of |-> s, day |-> today, tokens |-> n, cost |-> c,
                             life |-> life, readable |-> ~ torn])
    /\ torn' = FALSE
    /\ UNCHANGED stuck

\* It fails, perhaps after a piece of the line, and the writer stays failed.
AppendFails ==
    /\ stuck' = TRUE
    /\ torn' \in IF stuck THEN {torn} ELSE {torn, TRUE}
    /\ UNCHANGED file

\* The totals after a request.
Count(s, n, c) ==
    [sessions  |-> With(sessions, s, Plus(Entry(sessions, s, Zero), n, c)),
     daily     |-> With(daily, today, Plus(Entry(daily, today, Zero), n, c)),
     dailyCost |-> With(dailyCost, today, Entry(dailyCost, today, 0) + c)]

\* Taking them back. Mutation: the cost of the day is forgotten.
RollbackTotals(new, s) ==
    [sessions  |-> PutBack(new.sessions, s, sessions),
     daily     |-> PutBack(new.daily, today, daily),
     dailyCost |-> new.dailyCost]
Rollback(new, s) ==
    [sessions  |-> PutBack(new.sessions, s, sessions),
     daily     |-> PutBack(new.daily, today, daily),
     dailyCost |-> PutBack(new.dailyCost, today, dailyCost)]

Become(totals) ==
    /\ sessions' = totals.sessions
    /\ daily' = totals.daily
    /\ dailyCost' = totals.dailyCost

\* Add: refused without a trace, counted and stored, or counted and taken back.
Add(s, n, price) ==
    LET c == n * price IN
    /\ Len(file) < MaxLines
    /\ ~ Refused(s, n, c)
    /\ \/ AppendLine(s, n, c) /\ Become(Count(s, n, c))
       \/ AppendFails /\ Become(Rollback(Count(s, n, c), s))
    /\ UNCHANGED <<today, life>>

Midnight ==
    /\ today < LastDay
    /\ today' = today + 1
    /\ UNCHANGED <<account, file, torn, stuck, life>>

\* The process ends or dies and starts again: NewAccumulator reads nothing back.
Restart ==
    /\ life < MaxLives
    /\ life' = life + 1
    /\ sessions' = Nothing /\ daily' = Nothing /\ dailyCost' = Nothing
    /\ stuck' = FALSE
    /\ UNCHANGED <<file, torn, today>>

Next ==
    \/ \E s \in Sessions, n \in Amounts, price \in Prices : Add(s, n, price)
    \/ Midnight
    \/ Restart

Spec == Init /\ [][Next]_vars

-----------------------------------------------------------------------------
\* v[1] + ... + v[n].
Sum(v, n) == LET upTo[i \in 0 .. n] == IF i = 0 THEN 0 ELSE upTo[i - 1] + v[i] IN upTo[n]

\* What some of the lines add up to, of those that this life has written.
Stored(lines) ==
    LET counts(i) == i \in lines /\ file[i].life = life
    IN  [tokens |-> Sum([i \in DOMAIN file |-> IF counts(i) THEN file[i].tokens ELSE 0], Len(file)),
         cost   |-> Sum([i \in DOMAIN file |-> IF counts(i) THEN file[i].cost ELSE 0], Len(file))]

\* Whatever the store did, the totals are those of the lines that it took in this
\* life, no entry is left of a request that it did not take, and the budgets hold
\* for them (the rollback of Add, accumulator.go:180-200).
TotalsMatchStore ==
    /\ \A s \in Sessions :
          Entry(sessions, s, Zero) = Stored({i \in DOMAIN file : file[i].of = s})
    /\ \A d \in 1 .. LastDay :
          /\ Entry(daily, d, Zero) = Stored({i \in DOMAIN file : file[i].day = d})
          /\ Entry(dailyCost, d, 0) = Entry(daily, d, Zero).cost
          /\ DailyMaxCost > 0 => Entry(dailyCost, d, 0) <= DailyMaxCost
    /\ DOMAIN sessions = {file[i].of : i \in {j \in DOMAIN file : file[j].life = life}}
    /\ SessionMaxTokens > 0 =>
          \A s \in DOMAIN sessions : sessions[s].tokens <= SessionMaxTokens
===============================================================================
