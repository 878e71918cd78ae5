SPECIFICATION FairSpec
CONSTANTS
    c1 = c1
    c2 = c2
    c3 = c3
    k1 = k1
    Arrivals <- Three
    Clients = {k1}
    ClientId <- OneClient
    None = None
    Batch = 1
    Flushers <- ThreeFlushers
CHECK_DEADLOCK FALSE
INVARIANTS TypeOK SessionHasConnection PanicsOnlyFor
PROPERTIES SocketsHandedOver NobodyWaitsForEver
