SPECIFICATION FairSpec
CONSTANTS
    MaxTokens = 3
    MaxTicks = 2
    MaxCrashes = 1
    MaxDrops = 1
INVARIANT RefreshTakesEffect
