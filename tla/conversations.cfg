SPECIFICATION ConversationsSpec
CONSTANTS
    Requests = {r1, r2, r3}
    ChatConvs = {x, y}
    AgentConvs = {z}
    MaxCrashes = 1
INVARIANTS
    ConversationsInv
    HoldsWhatWasTold
    AgentKeeps
SYMMETRY Symmetry
CHECK_DEADLOCK FALSE
