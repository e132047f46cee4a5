SPECIFICATION GatewaySpec
CONSTANTS
    Base = 5
    U8Max = 15
    U64Max = 15
    U128Max = 255
    U16Max = 255
    MaxLine = 16
    MaxTyped = 7
    CodeStep = 30
    ChunkDigits = 2
    Nibble = 4
    U8Size = 1
    U16Size = 2
    U64Size = 1
    U128Size = 2
    Capacity = 16
    DurationBits = 5
    CancelAfter = 7
    Ids <- SomeIds
    Amounts <- SomeAmounts
    FlagLists <- SomeFlagLists
    Nonces = {0, 15}
    Delays <- SomeDelays
INVARIANTS TypeOK DecodesExactly RefusesForCause RequestSurvives AnswerSurvives
    PermissionsHold BackoffHolds
