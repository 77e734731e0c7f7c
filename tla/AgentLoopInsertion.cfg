CONSTANTS
    None = None
    MaxRounds = 2
    MaxAttempts = 5
    Offline = FALSE
    HarnessLoops = FALSE
    Worlds <- World
    BaseConfigs <- OnlyPlain
SPECIFICATION Spec
INVARIANTS
    FailedInsertionReported
CHECK_DEADLOCK FALSE
