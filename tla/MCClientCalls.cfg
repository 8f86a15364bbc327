CONSTANTS
    a1 = a1
    a2 = a2
    a3 = a3
    Gone = Gone
    Calls <- MCCalls
    Capacity = 1
SPECIFICATION CallsFairSpec
INVARIANTS
    WaitingIsRegistered
    AnswerIsOwn
PROPERTIES
    QueuedCallEnds
CHECK_DEADLOCK FALSE
