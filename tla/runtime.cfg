SPECIFICATION RuntimeSpec
CONSTANTS
    p1 = p1
    p2 = p2
    c1 = c1
    c2 = c2
    Nothing = Nothing
    Default = Default
    Bad = Bad
    Procs = {p1, p2}
    Callers = {c1, c2}
    Scripts = 2
    StopOnFailure = TRUE
    MaxLaunches = 3
    MaxUpdates = 2
    MaxHookRuns = 2
    MaxDeaths = 1
INVARIANTS
    RuntimeInv
    ServesWhole
    UpdatesStay
SYMMETRY ProcessClientSymmetry
CHECK_DEADLOCK FALSE
