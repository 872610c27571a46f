SPECIFICATION FairSpec
CONSTANTS
    Finding = {1, 2, 3}
    MaxCommits = 3
    Found <- MCFound
    Outside = {3}
    Cap = 1
    Mishaps = 2
INVARIANTS
    TypeOK
    ReceiptMeansReported
    NoneTwice
    TotalInBounds
PROPERTY
    EventuallyConcluded
