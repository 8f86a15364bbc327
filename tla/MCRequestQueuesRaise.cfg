CONSTANTS
    s1 = s1
    s2 = s2
    w1 = w1
    w2 = w2
    e1 = e1
    ca = ca
    cb = cb
    config = config
    proc = proc
    NoConnection = NoConnection
    Connections <- MCConnections
    Requests <- MCMixedRequests
    ConnOf <- MCMixedConnOf
    ScopeOf <- MCMixedScopeOf
    Raising <- MCOneRaising
SPECIFICATION FairSpec
PROPERTIES
    EveryRequestServed
CHECK_DEADLOCK FALSE
