SPECIFICATION FairSpec
CONSTANTS
    Tasks = {auth, poll, measurements}
    Sessions = {s1, s2}
    MaxPerforms = 2
    None = None
INVARIANTS
    TypeOK
    RxBufferExclusive
    SessionsAccountedFor
    ServedSessionAlive
    OneReplyPerCall
    SendNeverBlocks
PROPERTIES
    EveryCallReturns
    MutexGivenBack
    ImplementsService
