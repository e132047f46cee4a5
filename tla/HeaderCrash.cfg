SPECIFICATION FairSpec
CONSTANTS
    U64Max = 15
    U128Max = 4
    CapDefault = 1
    AccountSize = 1
    AllocMax = 7
    Operations <- MCOperations
    TruncateOnFail = TRUE
    MaxLog = 3
    MaxFaults = 1
    MaxTime = 0
PROPERTY RecoversAlways
