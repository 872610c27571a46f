SPECIFICATION Spec
CONSTANTS
    Inputs <- MCInputs
    Files <- MCFiles
    Modules <- MCModules
    HeaderExts <- MCHeaderExts
    TestDirs = {"tests"}
    MaxHeaders = 4
    MaxGroupFiles = 2
    MaxGroupLines = 3
    PromptBudget = 32
    Framing = 1
    ContextRoom = 6
    Frame = 2
    PathBytes = 1
    SpanBytes = 1
    TaskBytes = 1
    Header = 2
    Reserve = 3
    HeaderReserve = 2
    ManifestRoom = 4
    ExcerptRoom = 2
    MinExcerpt = 2
    MaxExcerpt = 16
    Marker = 1
    ContextHeader = 1
    ContextTotal = 9
    MinContext = 2
INVARIANTS
    OwnedExactly
    CoordinatesPreserved
    HonestRefusals
    PromptsFit
    EdgesReviewed
    SpecsSelectGroup
    OrderIrrelevant
