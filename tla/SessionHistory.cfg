SPECIFICATION Spec
CONSTANTS
    Chats = {a, b}
    Keep = 1
    MaxTurns = 3
    MaxOpens = 2
    MaxSecond = 2
    MaxFaults = 1
SYMMETRY Symmetry
CHECK_DEADLOCK FALSE
INVARIANTS
    TypeOK
    HistoryIsAccepted
    TurnsAreRemembered
    RecordIsComplete
