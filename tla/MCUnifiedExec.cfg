CONSTANTS
    a = a
    t = t
    None = None
    Calls <- MCCalls
    Tty <- MCTty
    Ids <- MCIds
    Bytes <- MCBytes
    Forking <- MCForking
    Limit = 2
    Protected = 1
    HeadBudget = 0
    TailBudget = 1
SPECIFICATION FairSpec
INVARIANTS
    RetainedIsReachable
    ExitReportsAll
PROPERTIES
    StartedCommandEnds
CHECK_DEADLOCK FALSE
