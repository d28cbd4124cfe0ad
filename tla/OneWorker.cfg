SPECIFICATION FairSpec
CONSTANTS
    Requests  = {"question"}
    Greetings = {}
    Compounds = {}
    Drafts    = {d1}
    Workers   = {w1}
    Faults    = {"abort", "cancel", "lost_ack"}
    MaxFaults = 2
    MaxDrafts = 1
INVARIANTS
    DuplicateNeedsLostCache
PROPERTIES
    TurnEnds
