SPECIFICATION Spec
CONSTANTS
    Chats = {a}
    Keep = 2
    MaxTurns = 4
    MaxOpens = 3
    MaxSecond = 1
    MaxFaults = 0
CHECK_DEADLOCK FALSE
INVARIANT CallIDsAreUnique
