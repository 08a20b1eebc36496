SPECIFICATION Spec
CONSTANTS
    Procs = {p1, p2, p3}
    Sessions = {s1}
    None = None
    MaxScans = 2
    MaxWriters = 1
INVARIANTS
    TypeOK
    LiveRunIsLeftAlone
PROPERTIES
    RemovedIsDelivered
SYMMETRY Interchangeable
CHECK_DEADLOCK FALSE
