SPECIFICATION Spec
CONSTANTS
    s1 = s1
    s2 = s2
    c1 = c1
    c2 = c2
    Shards = {s1, s2}
    Clients = {c1, c2}
    shard_id <- HostOf
    Requests <- ChangedOptions
    Names <- OneName
    Idle = Idle
    NoClient = NoClient
SYMMETRY Renamings
CHECK_DEADLOCK FALSE
INVARIANTS TypeOK VersionsWellFormed CountIsTopics SerialCallsCommit
