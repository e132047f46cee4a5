SPECIFICATION BusySpec
CONSTANTS
    CodeStep = 1000
    U16Max = 65535
    BufferLength = 3
    ResponseLength = 2
    HandlerErrors = {"MALFORMED", "NONCE_MISMATCH", "WAL_WRITE_FAILED"}
INVARIANTS TypeOK OneMoreAtMost WholeLines WholeResponses
PROPERTY StopsWithClients
