CONSTANTS
    None = None
    Empty = Empty
    Torn = Torn
    p1 = p1
    p2 = p2
    before = before
    after = after
    i1 = i1
    i2 = i2
    i3 = i3
    i4 = i4
    Procs <- Writers
    Inputs <- Versions
    Found <- FoundInEach
    Requests <- NoneOrRetry
    Inodes <- Files
    EditsDuringScan = FALSE
SPECIFICATION Spec
INVARIANTS
    TypeOK
    ServedVerdictIsCurrent
SYMMETRY Interchangeable
