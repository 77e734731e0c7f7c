CONSTANTS
    None = None
    Torn = Torn
    v84 = v84
    v85 = v85
    v86 = v86
    esbmc = esbmc
    lib = lib
    i1 = i1
    ours = ours
    Builds <- Releases
    Sound <- SoundReleases
    Files <- FileNames
    Esbmc = esbmc
    Contains <- Layout
    Pins <- PinnedOrNot
    Installers <- OneInstaller
    Verifiers <- Ours
    Names <- SoundOrNone
    Fallback = v84
SPECIFICATION Spec
INVARIANTS
    TypeOK
    NothingUnprobed
    OneRelease
    MemoIsTrue
    NoSilentUnsoundness
PROPERTY FailureKeepsChecker
