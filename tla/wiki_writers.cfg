SPECIFICATION Spec
CONSTANTS
    r1 = r1
    r2 = r2
    r3 = r3
    a = a
    b = b
    stem = stem
    Old = Old
    Empty = Empty
    None = None
    MaxAtOnce = 2
    Requests = {r1, r2, r3}
    Pages = {a, b}
    AtFirst <- OnePage
    Ids = {stem}
    PageId <- OneStem
INVARIANTS
    IInv
    SavedStays
    VectorsFollow
PROPERTIES
    RebuildIsExact
SYMMETRY Symmetry
CHECK_DEADLOCK FALSE
