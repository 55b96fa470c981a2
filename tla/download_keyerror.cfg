CONSTANTS
    c1 = c1
    c2 = c2
    a1 = a1
    a2 = a2
    Clients = {c1, c2}
    Addresses = {a1, a2}
    AddrOf <- MCAddrOf
    AmountOf <- MCOneSegment
    MaxRequestID = 2
    PoolSize = 2
    CwndStart = 1
    MaxCwnd = 1
    Refused = {}
    Lossy = {}
SPECIFICATION Spec
CHECK_DEADLOCK FALSE
INVARIANT CloseStillComes
