SPECIFICATION Spec
CONSTANTS
    Calls = {c1}
    Submits = {s1}
    Allows = {s1}
    Runs = {r1}
    CallIds = {a}
    None = None
INVARIANT AcknowledgedIsReturned
CHECK_DEADLOCK FALSE
