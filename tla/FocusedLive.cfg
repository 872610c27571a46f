SPECIFICATION FairSpec
CONSTANTS
    Lens = {l1, l2}
    ID = {1, 2}
    Loc = {1}
    Window = 0
    Known <- OneKnown
    MaxSpend = 12
    Mishaps = 2
PROPERTY
    EventuallyComplete
CHECK_DEADLOCK FALSE
