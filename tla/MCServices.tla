------------------------------- MODULE MCServices ------------------------------
(* Services with small values of its constants. A part that does not run has one
   initial state. *)
EXTENDS Services, SequencesExt

\* Retry settings: a cap that the doubling meets, and one that it steps over.
RetrySettings == {[first |-> 3, most |-> 12, jitter |-> FALSE],
                  [first |-> 2, most |-> 7, jitter |-> TRUE]}

\* Configurations of the HTTP server: all of its layers with every limiter, and none.
GateConfs ==
    [cors : {TRUE}, list : {TRUE}, proxies : BOOLEAN, limit : {"off", "global", "token"},
     auth : BOOLEAN]
        \cup {[cors |-> FALSE, list |-> FALSE, proxies |-> FALSE, limit |-> "token",
               auth |-> FALSE]}
Route(path, method, valid) == [path |-> path, method |-> method, valid |-> valid]
GateRoutes == {Route("/healthz", "GET", TRUE), Route("/v1/models", "OPTIONS", TRUE),
               Route("/v1/chat/completions", "POST", TRUE),
               Route("/v1/chat/completions", "POST", FALSE),
               Route("/v1/chat/completions", "GET", TRUE),
               Route("/v1/usage", "GET", TRUE), Route("/v1/usage", "GET", FALSE),
               Route("/v1/usage", "POST", TRUE)}
Address(peer, xff, xri) == [peer |-> peer, xff |-> xff, xri |-> xri]
GateAddresses == {Address("inside", "outside", "unset"), Address("proxy", "junk", "inside"),
                  Address("proxy", "outside", "inside"), Address("outside", "inside", "unset")}


QuietInit ==
    /\ Init
    /\ which # "provider" => kind = "gemini" /\ backoff.jitter /\ ~ Last(hist).image
    /\ which # "batch" => limit = 0 /\ ~ failFast /\ gated = {} /\ unknown = {}
    /\ which # "chat" => ~ stream

MCSpec == QuietInit /\ [][Next]_vars /\ Mcp!Fairness
===============================================================================
