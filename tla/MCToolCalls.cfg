CONSTANTS
    p = p
    w = w
    ws = ws
    Calls <- MCCalls
    ParallelCalls <- MCParallelCalls
    WaitingCalls <- MCWaitingCalls
SPECIFICATION FairSpec
INVARIANTS
    ResponseMatchesLifecycle
    AnsweredIsOver
    NoLostWakeup
PROPERTIES
    WriterPreference
    ImplementsDiscipline
    EveryCallAnswered
CHECK_DEADLOCK FALSE
