SPECIFICATION Spec
CONSTANTS
    MaxRequests     = 3
    SignIns         <- SomeSignIns
    IdleTimeout     = 2
    AbsoluteTimeout = 3
    SignInTimeout   = 1
    MaxTime         = 1
    MaxFaults       = 1
INVARIANTS
    TypeOK
    DeadlineKept
    EndUndoneOnlyByOverlap
    DemoHasItsRole
PROPERTIES
    NothingIsLeft
CHECK_DEADLOCK FALSE
