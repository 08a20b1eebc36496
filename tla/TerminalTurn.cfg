SPECIFICATION Spec
CONSTANTS
    MaxLine = 3
    MaxEntries = 3
    Keys = {"Line", "Yes", "Enter", "esc", "^C", "Paste", "^R", "^G"}
    MaxKeys = 3
    MaxAhead = 1
    MaxAsks = 2
CHECK_DEADLOCK FALSE
INVARIANTS
    TypeOK
    PasteStaysWhole
    SearchShowsMatch
    
PROPERTIES
    TurnComesBack
    QuitEnds
