SPECIFICATION FairSpec
CONSTANTS
    r1 = r1
    r2 = r2
    s1 = s1
    s2 = s2
    p1 = p1
    p2 = p2
    Repos = {r1, r2}
    Syncs = {s1, s2}
    Publishes = {p1, p2}
    MaxRequests = 2
    MaxCrashes = 1
    NoOne = NoOne
INVARIANTS
    IInv
    PublishExcludesSync
PROPERTIES
    EveryoneLeaves
CHECK_DEADLOCK FALSE
