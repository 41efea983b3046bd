SPECIFICATION FairSpec
CONSTANTS
    MaxVersions = 3
    MaxCrashes = 2
    Offset <- MCOffset
INVARIANT RequestOnRecord
