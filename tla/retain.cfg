SPECIFICATION Spec
CONSTANTS
    TopicNames <- NestedNames
    Secs = {1, 2}
    NoExpiry = NoExpiry
    Ids = {1, 2}
    MaxPosts = 2
    MaxElapsed = 1
CHECK_DEADLOCK FALSE
INVARIANTS TypeOK LastPostRetained TimersAreCurrent
