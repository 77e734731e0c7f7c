CONSTANTS
    None = None
    MaxRounds = 1
    HarnessLoops = FALSE
    Worlds <- ThreeFunctions
    Environments <- FourEnvironments
    CommandLines <- FewCommandLines
    Endpoints <- ThreeEndpoints
    Sayings <- FewSayings
    Unreadable = TRUE
    Sessions <- FewSessions
    MaxLines = 2
SPECIFICATION Spec
INVARIANTS
    TypeOK
    ExitZeroIsProof
    NothingLeftBehind
    NothingUnaskedIsSent
    TriageIsConservative
    AnsweredInOrder
PROPERTY EveryRequestAnswered
CHECK_DEADLOCK FALSE
