SPECIFICATION FairSpec
CONSTANTS
    Addresses = {a1, a2, a3}
    LightConfig <- MCLightConfig
    Day <- MCDay
    None = None
INVARIANTS
    TypeOK
    AdoptedAlive
    OnlyDroppedLeak
    OutputsFollowConfig
PROPERTIES
    HandedOverIsAdopted
