CONSTANTS
    c1 = c1
    c2 = c2
    a1 = a1
    a2 = a2
    Clients = {c1, c2}
    Addresses = {a1, a2}
    AddrOf <- MCSamePort
    AmountOf <- MCAmountOf
    MaxRequestID = 2
    MaxRestarts = 0
    Lossy = {}
    CwndStart = 2
    MaxCwnd = 2
SPECIFICATION Spec
INVARIANT ReportedUploadIsHeld
CHECK_DEADLOCK FALSE
