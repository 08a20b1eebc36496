SPECIFICATION Spec
CONSTANTS
    MaxLine = 3
    MaxEntries = 3
    Keys = {"Line"}
    MaxKeys = 2
    MaxAhead = 1
    MaxAsks = 1
CHECK_DEADLOCK FALSE
PROPERTY YesIsApproved
