SPECIFICATION Spec
CONSTANTS
    U64Max = 3
    U128Max = 3
    Operations <- MCOperations
    MaxAccounts = 3
INVARIANTS TypeOK
PROPERTIES PaysFromBalance CountersGrow
