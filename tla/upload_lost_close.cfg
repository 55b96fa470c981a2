CONSTANTS
    c1 = c1
    c2 = c2
    a1 = a1
    a2 = a2
    Clients = {c1}
    Addresses = {a1}
    AddrOf <- MCAddrOf
    AmountOf <- MCAmountOf
    MaxRequestID = 1
    MaxRestarts = 0
    Lossy = {"Segment", "ACK", "Close"}
    CwndStart = 1
    MaxCwnd = 2
SPECIFICATION FairSpec
PROPERTY UploadTerminates
CHECK_DEADLOCK FALSE
