SPECIFICATION Spec
CONSTANTS
    Procs = {p1, p2}
    Sessions = {s1}
    None = None
    MaxScans = 2
    MaxWriters = 1
INVARIANT AllWALsDrained
CHECK_DEADLOCK FALSE
