SPECIFICATION FairSpec
CONSTANTS
    NumShards = 2
    c0 = c0
    c1 = c1
    Clients = {c0, c1}
    shard_id <- HostOf
    QueueSize = 2
    Leavers = {c1}
    MaxRouted = 3
CHECK_DEADLOCK FALSE
INVARIANTS TypeOK AcksFollowPackets
PROPERTIES ImplementsChannels PacketsArrive
