SPECIFICATION FairSpec
CONSTANTS
    d1 = d1
    d2 = d2
    c1 = c1
    c2 = c2
    c3 = c3
    Daemons = {d1, d2}
    Calls = {c1, c2}
    CallerOf <- TwoDaemons
    ReadCalls = {}
    CancelAfter = 2
    Backlog = 2
    ReadTimeout = TRUE
    MaxFaults = 1
PROPERTY EveryCallReturns
