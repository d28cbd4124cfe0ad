SPECIFICATION FairSpec
CONSTANTS
    Assets          = {a1, a2}
    EmptyAssets     = {a2}
    Splits          = {s1}
    FileTasks       = {f1}
    IndexTasks      = {i1}
    FileSlots       = 1
    IndexSlots      = 1
    PageSize        = 1
    IndexMaxRetries = 2
    MaxRetries      = 1
    Faults          = {"crash", "time_limit", "error", "connection", "mark", "timeout", "rate_limit"}
    MaxFaults       = 2
INVARIANTS
    AbandonedClaimNeedsDeadRun
PROPERTIES
    TaskEnds
CHECK_DEADLOCK FALSE
