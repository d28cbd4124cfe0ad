SPECIFICATION Spec
CONSTANTS
    Requests  = {"hello", "compound", "question"}
    Greetings = {"hello"}
    Compounds = {"compound"}
    Drafts    = {d1, d2}
    Workers   = {w1}
    Faults    = {}
    MaxFaults = 0
    MaxDrafts = 2
SYMMETRY DraftsAlike
INVARIANTS
    TypeOK
    VisitedMatchesCount
    ResponseTellsState
    KnowledgePendingAgrees
    RunsOnlyAskedRequests
PROPERTIES
    ApprovedDraftWasShown
