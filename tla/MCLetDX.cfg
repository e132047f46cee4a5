SPECIFICATION Spec
CONSTANTS
    d1 = d1
    d2 = d2
    c1 = c1
    c2 = c2
    c3 = c3
    Daemons = {d1}
    Calls = {c1, c2, c3}
    CallerOf <- OneDaemon
    ReadCalls = {c3}
    CancelAfter = 2
    Backlog = 2
    ReadTimeout = TRUE
    MaxFaults = 2
INVARIANTS TypeOK SuccessIsCommitted CommitsBounded CounterNotAhead OnceWithoutFaults
