SPECIFICATION FairSpec
CONSTANT
    MaxRestarts = 1
INVARIANT
    InitBeforeUse
PROPERTY
    LinkRegained
