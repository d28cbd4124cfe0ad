SPECIFICATION Spec
CONSTANTS
    Assets          = {a1, a2}
    EmptyAssets     = {}
    Splits          = {s1}
    FileTasks       = {f1, f2}
    IndexTasks      = {i1}
    FileSlots       = 2
    IndexSlots      = 1
    PageSize        = 1
    IndexMaxRetries = 2
    MaxRetries      = 1
    Faults          = {"crash", "connection", "timeout"}
    MaxFaults       = 1
SYMMETRY TasksAndAssetsAlike
INVARIANTS
    TypeOK
    OneRunPerKey
    SuccessMeansChunks
    IndexRunCoversChunks
CHECK_DEADLOCK FALSE
