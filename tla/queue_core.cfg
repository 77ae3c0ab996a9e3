SPECIFICATION Spec
CONSTANTS
    j1 = j1
    j2 = j2
    p1 = p1
    c1 = c1
    c2 = c2
    Jobs = {j1, j2}
    Projects = {p1}
    ProjectOf <- OneProject
    Clients = {c1}
    Copies = 2
    MaxRetries = 1
    MaxRequests = 3
    MaxCrashes = 1
    Ops = {"enqueue", "pause", "resume", "pauseAll", "resumeAll", "retry", "delete", "update"}
INVARIANTS
    IInv
    Serial
    RetryBudget
SYMMETRY JobSymmetry
CHECK_DEADLOCK FALSE
