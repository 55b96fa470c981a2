CONSTANTS
    c1 = c1
    c2 = c2
    a1 = a1
    a2 = a2
    Clients = {c1, c2}
    Addresses = {a1, a2}
    AddrOf <- MCAddrOf
    AmountOf <- MCOneSegment
    MaxRequestID = 2
    PoolSize = 1
    CwndStart = 1
    MaxCwnd = 1
    Refused = {c2}
    Lossy = {}
SPECIFICATION Spec
INVARIANT TypeOK
INVARIANT NotReadyHasHandler
INVARIANT NeededIsInWindow
INVARIANT DroppedWhenComplete
INVARIANT ClosedReleasesThread
INVARIANT DataIntactAlone
CHECK_DEADLOCK FALSE
