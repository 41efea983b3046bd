SPECIFICATION FairSpec
CONSTANTS
    MaxCalls = 3
    MaxPayload = 3
    HeaderLengths = {2, 3}
    FrameLimit = 2
    ChunkLength = 2
    MaxWire = 12
INVARIANTS
    WireIsExact
    BodyIsOwn
PROPERTIES
    RequestLeaves
