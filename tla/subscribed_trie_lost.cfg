SPECIFICATION Spec
CONSTANTS
    s1 = s1
    s2 = s2
    c1 = c1
    c2 = c2
    Shards = {s1, s2}
    Clients = {c1, c2}
    shard_id <- HostOf
    Requests <- FixedOptions
    Names <- OneName
    Idle = Idle
    NoClient = NoClient
CHECK_DEADLOCK FALSE
INVARIANTS FiltersCommitted
