CONSTANTS
    s1 = s1
    s2 = s2
    c1 = c1
    c2 = c2
    c3 = c3
    p1 = p1
    None = None
    Sessions <- MCSessions
    Connections <- MCConnections
    ProcessIds <- MCProcessIds
SPECIFICATION Spec
INVARIANTS
    StartingIsTemporary
CHECK_DEADLOCK FALSE
