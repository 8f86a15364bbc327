CONSTANTS
    Streams <- MCStreams
    Sizes <- MCSizes
    MaxRetained = 2
    PageSizes <- MCPageSizes
    MaxChunks = 2
    EventCapacity = 2
SPECIFICATION EventsFairSpec
INVARIANTS
    ClosedIsLast
    NothingSkipped
    ParkedHasNoNews
    PublishedInOrder
    SubscriberInOrder
PROPERTIES
    CloseReachesClient
CHECK_DEADLOCK FALSE
