SPECIFICATION Spec
CONSTANTS
    CallIds = {"call1", "call2"}
    Safe = {fs_read}
    Guarded = {shell}
    Unknown = {other}
    MaxToolHops = 2
    MaxValidationRetries = 1
    MaxResponseRetries = 2
    None = None
    MaxCalls = 2
INVARIANTS
    TypeOK
    HistoryIsPaired
    AuditIsPaired
    ExecutedIsCleared
    RequestsBounded
    ShownIsFinal
