SPECIFICATION Spec
CONSTANTS
    Requests  = {"question"}
    Greetings = {}
    Compounds = {}
    Drafts    = {d1, d2}
    Workers   = {w1, w2}
    Faults    = {"abort", "restart", "cancel", "core", "lost_ack", "lost_reply"}
    MaxFaults = 1
    MaxDrafts = 2
SYMMETRY DraftsAndWorkersAlike
INVARIANTS
    PendingTaskWellFormed
    ApprovalBindsDraft
    RejectedOnlyAfterCutTurn
