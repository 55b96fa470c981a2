CONSTANTS
    c1 = c1
    c2 = c2
    a1 = a1
    a2 = a2
    Clients = {c1, c2}
    Addresses = {a1, a2}
    AddrOf <- MCAddrOf
    AmountOf <- MCAmountOf
    MaxRequestID = 2
    MaxRestarts = 0
    Lossy = {}
    CwndStart = 2
    MaxCwnd = 2
SPECIFICATION Spec
INVARIANT TypeOK
INVARIANT WindowsOrdered
INVARIANT UploadInv
INVARIANT AckedSegmentsHeld
INVARIANT SuccessMeansReceived
INVARIANT StoredIsBody
PROPERTY StoredOnce
PROPERTY ImplementsService
CHECK_DEADLOCK FALSE
