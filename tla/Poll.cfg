SPECIFICATION FairSpec
CONSTANTS
    MaxVersions = 3
    MaxCrashes = 2
    Offset <- MCOffset
INVARIANTS
    TypeOK
    ConfigSurvivesRestart
    ZoneFollowsConfig
PROPERTIES
    RequestsServed
    ConfigConverges
