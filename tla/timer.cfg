SPECIFICATION Spec
CONSTANTS
    Values = {v1, v2, v3}
    TicksPerSec = 2
    MaxSecs = 3
    MaxTime = 8
SYMMETRY Interchangeable
CHECK_DEADLOCK FALSE
INVARIANTS TypeOK
PROPERTIES ExpiredNotLate LiveStayUntilReturned
