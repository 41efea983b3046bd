SPECIFICATION FairSpec
CONSTANTS
    Measurer = measurer
    Poller = poller
    Auth = auth
    Callers <- MCCallers
    Readers <- MCReaders
    Polls = {p1, p2}
    None = None
    MaxTokens = 2
    BucketSize = 2
    MaxTime = 4
    Climate <- MCClimate
    PayloadBufferLen = 2048
INVARIANTS
    TypeOK
    CallsKeepApart
    UploadsAreTheSamples
    HeapBalanced
PROPERTIES
    UploadsEnd
