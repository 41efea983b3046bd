SPECIFICATION FairSpec
CONSTANTS
    MaxCalls = 2
    MaxPerSession = 2
    MaxChunks = 3
    DestLength = 2
INVARIANTS
    TypeOK
    GrpcOkIsWhole
    FirstCallIsOwn
    ChunkStoredOnce
PROPERTIES
    PerformReturns
