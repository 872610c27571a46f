SPECIFICATION Spec
CONSTANTS
    Proc = {p1, p2}
    Diff = {d1}
    NoDiff = nodiff
    Finding = {f1}
    MaxReviews = 1
    MaxSpend = 1
    Mishaps = 0
INVARIANT
    CompleteKept
CHECK_DEADLOCK FALSE
