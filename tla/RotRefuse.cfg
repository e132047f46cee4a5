SPECIFICATION RotSpec
CONSTANTS
    U64Max = 15
    U128Max = 4
    CapDefault = 1
    AccountSize = 2
    AllocMax = 7
    Operations <- MCOperations
    TruncateOnFail = FALSE
    MaxLog = 3
    MaxFaults = 3
    MaxTime = 1
INVARIANTS WithinCapacity AnsweredFits OpenedWhenLogged
PROPERTY StartsWhole
