SPECIFICATION Spec
CONSTANTS
    Filters <- SomeFilters
    Names <- SomeNames
    Lookups <- SomeLookups
    Clients = {c1, c2}
    Qos = {0, 1}
    Payloads = {m1}
CHECK_DEADLOCK FALSE
INVARIANTS TypeOK ImplementsIndex 
