CONSTANTS
    None = None
    MaxRounds = 2
    MaxAttempts = 6
    Offline = FALSE
    HarnessLoops = FALSE
    Worlds <- World
    BaseConfigs <- PlainAndRetry
SPECIFICATION Spec
INVARIANTS
    TypeOK
    GenuineProof
    ClaimDescribesProgram
    HonestCounterexample
    AttemptsBounded
    KeepsPromise
CHECK_DEADLOCK FALSE
PROPERTIES
    PreconditionAnswersCounterexample
    DeliversPromise
    LoopEnds
