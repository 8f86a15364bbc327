CONSTANTS
    a = a
    b = b
    NoEvent = NoEvent
    Streams <- MCStreams
    Patient <- MCPatient
    Parts <- MCParts
    Capacity = 2
    MaxEvents = 2
    MaxDrops = 2
SPECIFICATION FairSpec
INVARIANTS
    KeptUntilTaken
    NumberedInOrder
PROPERTIES
    ArrivesUnlessHeldUp
CHECK_DEADLOCK FALSE
