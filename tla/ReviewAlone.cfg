SPECIFICATION Spec
CONSTANTS
    Proc = {p1}
    Diff = {d1, d2}
    NoDiff = nodiff
    Finding = {f1, f2}
    MaxReviews = 2
    MaxSpend = 2
    Mishaps = 3
INVARIANTS
    TypeOK
    NoMixing
    NothingLost
    SummaryFits
    LedgerCounted
PROPERTY
    KeepsLifecycle
SYMMETRY Interchangeable
CHECK_DEADLOCK FALSE
