SPECIFICATION FairSpec
CONSTANTS
    w1 = w1
    w2 = w2
    c1 = c1
    c2 = c2
    None = None
    Workers = {w1, w2}
    Clients = {c1, c2}
    Ops = {"approve", "reject", "revise", "reevaluate", "recompile", "apply", "delete"}
    MaxRevisions = 1
    MaxRequests = 3
    MaxCrashes = 1
INVARIANTS
    Inv
    RevisionsCount
    AppliedOnce
PROPERTIES
    LegalHistory
    RunsSettle
CHECK_DEADLOCK FALSE
