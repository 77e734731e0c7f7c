CONSTANTS
    None = None
    MaxArrayLen = 2
    MaxStructDepth = 2
    Programs <- SomeSources
    Signatures <- SomeSignatures
    Wishes <- SomeWishes
SPECIFICATION MCSpec
INVARIANT EverySimplificationSaid
CHECK_DEADLOCK FALSE
