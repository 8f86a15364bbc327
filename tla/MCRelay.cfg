CONSTANTS
    a = a
    b = b
    Streams <- MCStreams
    Capacity = 1
    MaxMessages = 4
    MaxSpawned = 2
    Notices <- MCNotices
SPECIFICATION FairSpec
INVARIANTS
    EachMessageOnce
    AnswersInOrder
PROPERTIES
    EndsUnlessStuck
CHECK_DEADLOCK FALSE
