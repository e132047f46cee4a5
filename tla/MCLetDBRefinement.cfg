SPECIFICATION FairSpec
CONSTANTS
    U64Max = 15
    U128Max = 4
    CapDefault = 1
    AccountSize = 1
    AllocMax = 7
    Operations <- MCOperations
    TruncateOnFail = TRUE
    MaxLog = 4
    MaxFaults = 2
    MaxTime = 0
INVARIANTS TypeOK Durable InSequence ServesWholeFile ReplayMeetsGuard StateIsLog Conserved
PROPERTIES PaysFromBalance ImplementsDurableLedger RecoversWithHeader
