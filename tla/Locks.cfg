SPECIFICATION Spec
CONSTANTS
    Turns     = {t1, t2, t3}
    Threads   = {h1, h2}
    Workers   = {w1, w2}
    PoolSize  = 2
    Faults    = {"cancel", "kill"}
    MaxFaults = 1
SYMMETRY AllAlike
INVARIANTS
    TypeOK
    OneTurnPerKey
    OneSessionPerKey
    EntriesCountUsers
PROPERTIES
    ImplementsKeyedMutex
