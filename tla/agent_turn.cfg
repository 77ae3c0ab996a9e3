SPECIFICATION FairSpec
CONSTANTS
    MaxToolCalls = 3
    MaxAttempts = 3
    KeepTurns = 2
    KeepGroups = 1
    MaxHistory = 4
    MaxAsked = 2
INVARIANTS
    IInv
    AnsweredBeforeAsking
    RoundsSuffice
PROPERTIES
    TurnEnds
