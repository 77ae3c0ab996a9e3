SPECIFICATION Spec
CONSTANTS
    j1 = j1
    j2 = j2
    s1 = s1
    log = log
    own = own
    v1 = v1
    v2 = v2
    None = None
    Jobs = {j1, j2}
    Sources = {s1}
    SourceOf <- OneSource
    Pages = {own, log}
    Log = log
    Versions = {v1, v2}
    BlockSets <- SomeBlocks
    MaxRetries = 1
    MaxCrashes = 1
    MaxEdits = 1
    MaxPauses = 1
INVARIANTS
    IInv
    FreshJobAccepted
PROPERTIES
    Transaction
SYMMETRY JobVersionSymmetry
CHECK_DEADLOCK FALSE
