SPECIFICATION Spec
CONSTANTS
    Turns     = {t1, t2}
    Threads   = {h1}
    Workers   = {w1, w2}
    PoolSize  = 2
    Faults    = {}
    MaxFaults = 0
INVARIANTS
    OneTurnPerCheckpoint
