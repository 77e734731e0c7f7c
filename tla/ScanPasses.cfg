CONSTANTS
    None = None
    MaxRounds = 1
    HarnessLoops = FALSE
    f = f
    g = g
    Names <- TwoFunctions
    Functions <- SevenFunctions
    Config <- Plain
    Requests <- AnyRequest
    Baselines <- SomethingAccepted
SPECIFICATION Spec
SYMMETRY Symmetry
INVARIANTS
    TypeOK
    ResultsAreProofs
    FindingsAreFailures
    ConditionsComeFromTriage
    OneBucketEach
    TerminationOfProofs
CHECK_DEADLOCK FALSE
PROPERTIES
    AnswersAreKept
