SPECIFICATION MCSpec

CONSTANTS
    Sessions = {"s", "t"}
    Prices = {0, 1}
    Amounts = {1, 2}
    SessionMaxTokens = 5
    DailyMaxCost = 4
    MaxInt = 6
    LastDay = 2
    MaxLines = 3
    MaxLives = 2
    Kinds = {"openai", "llamacpp", "anthropic", "ollama", "gemini"}
    Backoffs <- RetrySettings
    MaxAttempts = 9
    Width = 8
    Pieces = 2
    MaxCalls = 2
    MaxRounds = 2
    Callers = {"a", "b"}
    CallsEach = 2
    MaxStray = 1
    CallCount = 3
    Limits = {0, 2}
    HookCount = 1
    Confs <- GateConfs
    Routes <- GateRoutes
    Addresses <- GateAddresses
    Ids = {"id"}
    Secrets = {"s", "t"}
    MaxEntries = 2
    Burst = 2
    MaxRequests = 4
    ChannelSize = 2
    MaxDeltas = 3
    MaxOthers = 2
    Workers = {"v", "w"}
    Names = {"MEMORY.md", "link.md"}
    Links = {"link.md"}
    Sizes = {2, 3}
    Limit = 2
    RecordLimit = 4
    MaxParts = 2
    MaxNotes = 2

INVARIANTS
    
    CallIsWhole
    OneResponsePerRequest
    PauseIsClamped
    ResponseIsOwn
    OutcomesAreTrue
    RecentCallersAreHeld
    ChatIsWhole
    MemoryIsAtomic

PROPERTY
    CancelledReturns

CHECK_DEADLOCK FALSE
