------------------------------- MODULE HttpGate --------------------------------
(* The way of a request through the HTTP server (internal/transport/httpapi): CORS,
   the allowlist of addresses, the limiter, the bearer tokens and then the handlers
   (middleware.go, middleware_build.go, server.go, usage.go). The limiter holds its
   mutex for the whole of allow, so a request is one step; the buckets are those of
   golang.org/x/time/rate, which fill up as time passes.
   Addresses are "inside" or "outside" of the allowlist, the address of a trusted
   "proxy", or "junk". A header Authorization is [form, token], where the form is
   none, bearer or raw (without the prefix). *)
EXTENDS Integers, Sequences, FiniteSets

CONSTANTS
    Confs,          \* configurations: [cors, list, proxies : BOOLEAN,
                    \*    limit : {"off", "global", "token"}, auth : BOOLEAN]
    Ids,            \* the IDs under bearer_tokens
    Secrets,        \* the token values in play
    Routes,         \* [path, method, valid] of the requests
    Addresses,      \* [peer, xff, xri] of the requests
    MaxEntries,     \* perTokenMaxEntries
    Burst,          \* the burst of a bucket
    MaxRequests     \* bound: requests that reach a bucket

VARIABLES
    conf,       \* the middlewares of the server, or Down
    digests,    \* the token values that BearerAuth accepts
    buckets,    \* l.perToken: key -> [left, lastUsed]
    global,     \* what is left in l.global, or -1 before its first use
    clock,      \* time.Now(), by the requests that have read it
    reply,      \* what the last request was answered with
    seen,       \* history: when each key was looked up last, or Never
    spent       \* history: what each of them has taken and not got back

history == <<seen, spent>>
vars == <<conf, digests, buckets, global, clock, reply, history>>

Off == [cors |-> FALSE, list |-> FALSE, proxies |-> FALSE, limit |-> "off", auth |-> FALSE]
Down == [Off EXCEPT !.limit = "down"]
Unset == "unset"
Never == -1
Anonymous == "__anonymous__"
Keys == Secrets \cup {Anonymous}
Headers == [form : {"bearer", "raw"}, token : Secrets] \cup {[form |-> "none", token |-> Unset]}

Init ==
    /\ conf = Down /\ digests = {}
    /\ buckets = [k \in {} |-> 0] /\ global = -1
    /\ clock = 0 /\ reply = Unset
    /\ seen = [k \in Keys |-> Never] /\ spent = [k \in Keys |-> 0]

-----------------------------------------------------------------------------
\* buildMiddleware resolves the secret of each ID from the environment, and the
\* server comes up only if all are there and differ.
Resolves(env) ==
    /\ \A i \in Ids : env[i] # Unset
    /\ \A i, j \in Ids : env[i] = env[j] => i = j

Start ==
    /\ conf = Down
    /\ \E c \in Confs, env \in [Ids -> Secrets \cup {Unset}] :
          /\ c.auth => Resolves(env)
          /\ conf' = c
          /\ digests' = IF c.auth THEN {env[i] : i \in Ids} ELSE {}
    /\ UNCHANGED <<buckets, global, clock, reply, history>>

-----------------------------------------------------------------------------
\* clientIP: the headers count only if the peer is a trusted proxy, and the first of
\* them that holds an address does.
ClientIP(a) ==
    LET told == SelectSeq(<<a.xff, a.xri, a.peer>>, LAMBDA ip : ip \notin {Unset, "junk"})
    IN  IF conf.proxies /\ a.peer = "proxy" THEN Head(told) ELSE a.peer

Admits(a) == ~ conf.list \/ ClientIP(a) = "inside"

KeyOf(h) == IF h.form = "none" THEN Anonymous ELSE h.token

\* BearerAuth, which is no layer at all without tokens.
Knows(h) == digests = {} \/ (h.form = "bearer" /\ h.token \in digests)

\* What the mux and the handlers say to a request that has come through. A chat
\* that goes on to the agent is the matter of HttpChat.
Handle(route) ==
    CASE route.path \in {"/healthz", "/v1/models"} -> "200"
      [] route.path = "/v1/chat/completions" ->
            IF route.method # "POST" THEN "405" ELSE IF route.valid THEN "chat" ELSE "400"
      [] route.path = "/v1/usage" ->
            IF route.method # "GET" THEN "405" ELSE IF route.valid THEN "200" ELSE "400"

-----------------------------------------------------------------------------
Oldest == CHOOSE k \in DOMAIN buckets :
             \A j \in DOMAIN buckets : buckets[k].lastUsed <= buckets[j].lastUsed

WithNew(key) ==
    LET kept == IF Cardinality(DOMAIN buckets) >= MaxEntries
                THEN DOMAIN buckets \ {Oldest} ELSE DOMAIN buckets
    IN  [k \in kept \cup {key} |->
           IF k = key THEN [left |-> Burst, lastUsed |-> clock] ELSE buckets[k]]

\* The map after a look-up of key. Mutation: only a new entry gets a stamp.
LookedUpUnstamped(key) == IF key \in DOMAIN buckets THEN buckets ELSE WithNew(key)
LookedUp(key) ==
    IF key \in DOMAIN buckets THEN [buckets EXCEPT ![key].lastUsed = clock]
                              ELSE WithNew(key)

\* The keys that the limiter has to remember: fewer than MaxEntries have come since.
Since(times, key) == {k \in Keys : times[k] > times[key]}
Recent(times) ==
    {k \in Keys : times[k] # Never /\ Cardinality(Since(times, k)) < MaxEntries}

\* allow, with the bucket of the key or the one of all.
AllowToken(key, ok) ==
    LET map == LookedUp(key) IN
    /\ ok = (map[key].left > 0)
    /\ buckets' = IF ok THEN [map EXCEPT ![key].left = @ - 1] ELSE map
    /\ seen' = [seen EXCEPT ![key] = clock]
    /\ spent' = [k \in Keys |-> IF k = key THEN spent[k] + IF ok THEN 1 ELSE 0
                                ELSE IF k \in Recent(seen') THEN spent[k] ELSE 0]
    /\ UNCHANGED global
AllowGlobal(ok) ==
    LET left == IF global = -1 THEN Burst ELSE global IN
    /\ ok = (left > 0)
    /\ global' = IF ok THEN left - 1 ELSE left
    /\ UNCHANGED <<buckets, history>>

\* One request, from the outer layer to the inner one.
Request(route, address, header) ==
    LET limited == conf.limit # "off" /\ route.path # "/healthz" IN
    /\ conf # Down
    /\ \/ /\ conf.cors /\ route.method = "OPTIONS"
          /\ reply' = "204"
          /\ UNCHANGED <<buckets, global, clock, history>>
       \/ /\ ~ (conf.cors /\ route.method = "OPTIONS") /\ ~ Admits(address)
          /\ reply' = "403"
          /\ UNCHANGED <<buckets, global, clock, history>>
       \/ /\ ~ (conf.cors /\ route.method = "OPTIONS") /\ Admits(address)
          /\ \E ok \in BOOLEAN :
                /\ IF limited
                   THEN /\ clock < MaxRequests /\ clock' = clock + 1
                        /\ IF conf.limit = "token" THEN AllowToken(KeyOf(header), ok)
                                                   ELSE AllowGlobal(ok)
                   ELSE /\ ok = TRUE
                        /\ UNCHANGED <<buckets, global, clock, history>>
                /\ reply' = IF ~ ok THEN "429"
                            ELSE IF route.path # "/healthz" /\ ~ Knows(header) THEN "401"
                            ELSE Handle(route)
    /\ UNCHANGED <<conf, digests>>

\* A token falls into every bucket.
Refill ==
    /\ conf # Down
    /\ buckets' = [k \in DOMAIN buckets |->
                     [buckets[k] EXCEPT !.left = IF @ < Burst THEN @ + 1 ELSE @]]
    /\ global' = IF global \in 0 .. Burst - 1 THEN global + 1 ELSE global
    /\ spent' = [k \in Keys |-> IF spent[k] > 0 THEN spent[k] - 1 ELSE 0]
    /\ UNCHANGED <<conf, digests, clock, reply, seen>>

Next ==
    \/ Start
    \/ \E route \in Routes, address \in Addresses, header \in Headers :
          Request(route, address, header)
    \/ Refill

Spec == Init /\ [][Next]_vars

-----------------------------------------------------------------------------
\* The cache of buckets is bounded and still never forgives a caller too early: as
\* long as fewer than MaxEntries others have come since, the bucket of a key is kept,
\* and with it what the caller has taken, so that he never gets more than the burst
\* and what time gives back (allow and evictOldest, middleware.go:141-187).
RecentCallersAreHeld ==
    /\ DOMAIN buckets = Recent(seen)
    /\ \A k \in DOMAIN buckets :
          spent[k] <= Burst /\ buckets[k].left = Burst - spent[k]
===============================================================================
