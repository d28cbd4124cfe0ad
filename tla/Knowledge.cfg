SPECIFICATION Spec
CONSTANTS
    Chunks        = {"chunk1"}
    AssetNames    = {"file1", "file2"}
    Labels        = {"label"}
    Offers        <- LabelsOrNone
    MaxIterations = 2
    MaxMemory     = 7
    CallLists     <- SomeCallLists
    MaxTurns      = 3
    MaxCuts       = 1
INVARIANTS
    TypeOK
    ToolCallsAnswered
    VisibleResultsCitable
    IterationsBounded
    ShownQuestionIsOpen
PROPERTIES
    ImplementsCore
    TurnEnds
CHECK_DEADLOCK FALSE
