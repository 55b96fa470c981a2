CONSTANTS
    c1 = c1
    c2 = c2
    a1 = a1
    a2 = a2
    Clients = {c1}
    Addresses = {a1, a2}
    AddrOf <- MCAddrOf
    AmountOf <- MCTwoSegments
    MaxRequestID = 1
    PoolSize = 2
    CwndStart = 1
    MaxCwnd = 2
    Refused = {}
    Lossy = {"Segment", "Close", "DownloadComplited"}
SPECIFICATION FairSpec
PROPERTY DownloadEnds
CHECK_DEADLOCK FALSE
