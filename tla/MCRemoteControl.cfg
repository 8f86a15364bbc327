CONSTANTS
    c1 = c1
    c2 = c2
    s1 = s1
    s2 = s2
    s3 = s3
    NoStream = NoStream
    Clients <- MCClients
    Streams <- MCStreams
    ClientOf <- MCClientOf
    Logs <- MCLogs
    Capacity = 1
    MaxDrops = 1
    Watched = {1, 2}
SPECIFICATION FairSpec
INVARIANTS
    Conversations
    CursorLosesNothing
PROPERTIES
    DisconnectIsAnnounced
CHECK_DEADLOCK FALSE
