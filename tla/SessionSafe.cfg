SPECIFICATION FairSpec
CONSTANTS
    Args <- MCArgs
    Slot = {s1, s2}
    MaxCalls = 1
    MaxCorrections = 1
    MaxResponses = 1
    MaxRuns = 2
    Mishaps = 2
INVARIANTS
    TypeOK
    NoSilentLoss
    KillLosesOne
    SummaryIsAnswer
    VerdictMatchesFile
    QuotaExact
PROPERTIES
    OnlyCutsDamage
    Settles
