SPECIFICATION FairSpec
CONSTANTS
    SendBatch = 2
    Spoiled = Spoiled
    MaxEvents = 4
    MaxFaults = 2
INVARIANTS
    TypeOK
    NoGap
    RemovedIsDelivered
PROPERTIES
    ReadableIsDelivered
    
CHECK_DEADLOCK FALSE
