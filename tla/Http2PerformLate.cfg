SPECIFICATION FairSpec
CONSTANTS
    MaxCalls = 2
    MaxPerSession = 2
    MaxChunks = 3
    DestLength = 2
INVARIANT RxEndsWithTheCall
