SPECIFICATION FairSpec
CONSTANTS
    Calls = {c1, c2, c3}
    Submits = {s1, s2}
    Allows = {s1}
    Runs = {r1}
    CallIds = {a, b}
    None = None
INVARIANTS
    TypeOK
    WaiterIsReachable
    DecidedByOwnAnswer
    InTimeAnswerIsReturned
PROPERTIES
    AnsweredOrDoneReturns
    ImplementsSlot
CHECK_DEADLOCK FALSE
