SPECIFICATION Spec
CONSTANTS
    d1 = d1
    d2 = d2
    c1 = c1
    c2 = c2
    c3 = c3
    Daemons = {d1}
    Calls = {c1, c2}
    CallerOf <- OneDaemon
    ReadCalls = {}
    CancelAfter = 2
    Backlog = 2
    ReadTimeout = FALSE
    MaxFaults = 0
INVARIANT CounterInStep
