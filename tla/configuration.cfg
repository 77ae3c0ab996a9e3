SPECIFICATION ConfigurationSpec
CONSTANTS
    Keys = {k1, k2}
    Editors = {c1, c2}
    NoRow = NoRow
    MaxEdits = 3
    MaxStarts = 2
INVARIANTS
    ConfigurationInv
    SavedSticks
    PublishKept
SYMMETRY Symmetry
CHECK_DEADLOCK FALSE
