SPECIFICATION Spec
CONSTANTS
    Lens = {l1, l2}
    ID = {1, 2}
    Loc = {1, 2}
    Window = 1
    Known <- OneKnown
    MaxSpend = 6
    Mishaps = 3
INVARIANTS
    TypeOK
    ResumeAccepted
    SpendReconciled
    PublishedOnlyVerified
    VerifierNotContinued
SYMMETRY Interchangeable
CHECK_DEADLOCK FALSE
