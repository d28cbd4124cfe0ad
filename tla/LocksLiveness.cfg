SPECIFICATION FairSpec
CONSTANTS
    Turns     = {t1, t2}
    Threads   = {h1, h2}
    Workers   = {w1}
    PoolSize  = 2
    Faults    = {"cancel", "disconnect"}
    MaxFaults = 1
PROPERTIES
    EveryTurnEnds
