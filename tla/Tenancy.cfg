SPECIFICATION Spec
CONSTANTS
    Principals     = {"ann", "bob", "guest", "root"}
    PlatformAdmins = {"root"}
    Demos          = {"guest"}
    MaxOwned       = 1
    MaxProjects    = 3
    FirstAdmin     = "ann"
    Threads        = {"thread"}
    Wanted         <- SomeWanted
    MaxRequests    = 3
    MaxFaults      = 1
INVARIANTS
    TypeOK
    EveryEffectAudited
    OwnClaimNotRefused
    LimitPassedOnlyTogether
PROPERTIES
    ImplementsOwnership
CHECK_DEADLOCK FALSE
