SPECIFICATION FairSpec
CONSTANTS
    t1 = t1
    t2 = t2
    t3 = t3
    a = a
    Threads <- ThreeThreads
    Values <- OneValue
    READERS_FLAG = 3
    Torn = Torn
    NoValue = NoValue
INVARIANTS TypeOK MutualExclusion NoPanic ReadersCounted NoTornRead
PROPERTIES ImplementsAtomicCell LatchedWriterEnters SomebodyEnters
