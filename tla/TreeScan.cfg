CONSTANTS
    None = None
    Torn = Torn
    a = a
    b = b
    h = h
    leak = leak
    ci = ci
    dev = dev
    Procs <- ScannerAndAcceptor
    Sources <- TwoSources
    Headers <- OneHeader
    Includes <- BothInclude
    Issues <- OneIssue
    Requests <- InTurn
    First <- OneFinding
    MaxEdits = 2
    SkippedAbove = FALSE
SPECIFICATION Spec
INVARIANTS
    TypeOK
    OnlyDecidedIsDiscounted
    ChangedIsScanned
PROPERTY CleanAfterAccept
