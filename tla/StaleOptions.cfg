SPECIFICATION Spec
CONSTANTS
    Chunks        = {"chunk1"}
    AssetNames    = {"file1", "file2"}
    Labels        = {"label"}
    Offers        <- SomeOffers
    CallLists     <- SomeCallLists
    MaxIterations = 3
    MaxMemory     = 7
    MaxTurns      = 2
    MaxCuts       = 0
INVARIANT
    OfferedNamesAreShown
CHECK_DEADLOCK FALSE
