SPECIFICATION Spec
CONSTANTS
    Kinds = {"openai"}
    Backoffs <- RetrySettings
    MaxAttempts = 2
    Width = 8
    Pieces = 2
    MaxCalls = 1
    MaxRounds = 1
INVARIANT StreamedCallIsSent
CHECK_DEADLOCK FALSE
