SPECIFICATION Spec
CONSTANTS
    Measurer = measurer
    Poller = poller
    Auth = auth
    Callers <- MCCallers
    Readers <- MCReaders
    Polls = {}
    None = None
    MaxTokens = 1
    BucketSize = 100
    MaxTime = 100
    Climate <- MCClimate
    PayloadBufferLen = 2048
CONSTRAINT EverySampleTaken
INVARIANT
    PayloadFits
