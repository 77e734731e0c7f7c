CONSTANTS
    None = None
    MaxRounds = 2
    MaxAttempts = 5
    Offline = FALSE
    HarnessLoops = TRUE
    Worlds <- World
    BaseConfigs <- OnlyPlain
SPECIFICATION Spec
INVARIANTS
    GenuineProof
CHECK_DEADLOCK FALSE
