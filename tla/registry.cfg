SPECIFICATION RegistrySpec
CONSTANTS
    MaxUser = 2
    Projects = {p1, p2}
    Agents = {a1}
    Names = {n1}
    Clients = {c1, c2}
    None = None
    MaxRequests = 4
    MaxRestarts = 1
INVARIANTS
    RegistryInv
    ModelNamesApart
PROPERTIES
    RestoreIsExact
SYMMETRY Symmetry
CHECK_DEADLOCK FALSE
