SPECIFICATION FairSpec
CONSTANTS
    b1 = b1
    b2 = b2
    b3 = b3
    u1 = u1
    u2 = u2
    None = None
    Builds = {b1, b2}
    Uploaders = {u1}
    AutoRebuild = {TRUE, FALSE}
    MaxChanges = 2
    MaxRebuilds = 3
    MaxCrashes = 1
INVARIANTS
    IInv
PROPERTIES
    AlonePublishesComplete
    RebuildsSettle
CHECK_DEADLOCK FALSE
