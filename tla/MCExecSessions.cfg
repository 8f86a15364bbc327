CONSTANTS
    s1 = s1
    s2 = s2
    c1 = c1
    c2 = c2
    c3 = c3
    p1 = p1
    None = None
    Sessions <- MCSessions
    Connections <- MCConnections
    ProcessIds <- MCProcessIds
SPECIFICATION FairSpec
INVARIANTS
    SenderIsHolder
    NothingSurvivesRemoval
PROPERTIES
    EndsOnlyWhenDue
    ImplementsLease
    AbandonedSessionEnds
CHECK_DEADLOCK FALSE
