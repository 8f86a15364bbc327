CONSTANTS
    Capacity = 2
    MaxRequests = 3
    MaxNotices = 4
SPECIFICATION FairConnectionSpec
INVARIANTS
    WireInOrder
PROPERTIES
    AskedIsAnswered
    DetachesUnlessStuck
CHECK_DEADLOCK FALSE
