CONSTANTS
    None = None
    MaxArrayLen = 2
    MaxStructDepth = 2
    Programs <- SomeSources
    Signatures <- SomeSignatures
    Wishes <- SomeWishes
SPECIFICATION MCSpec
INVARIANTS
    TypeOK
    NamesResolve
    CountsFit
    PointersBounded
    OnlyCountsGoUnsaid
CHECK_DEADLOCK FALSE
