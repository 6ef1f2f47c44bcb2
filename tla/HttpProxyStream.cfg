SPECIFICATION FairSpec
CONSTANTS
    ClientUnits = 6
    TargetUnits = 4
    MaxRequestHeadersSize = 2
    MaxPendingBytes = 3
    ChunkSize = 2
INVARIANTS
    NothingStalls
    MemoryIsBounded
PROPERTIES
    ImplementsExchange
    RequestIsDecided
    StreamEnds
\* A stream ends.
CHECK_DEADLOCK FALSE
