CONSTANTS
    h1 = h1
    h2 = h2
    Hosts = {h1, h2}
    Addresses = {1, 2}
    Pool = {2}
    Reserved = {1}
    Wants = {0, 2}
    Releasers = {h2}
    Roamers = {h1}
    CrashPoints = {"remove"}
    LeaseTime = 1
    MaxTime = 2
    MaxXidOf <- MCMaxXidOf
    MaxCrashes = 1
SPECIFICATION Spec
INVARIANT TypeOK
INVARIANT UniqueAddress
INVARIANT HeldIsLeased
INVARIANT LeaseInv
PROPERTY LeaseHonoured
CHECK_DEADLOCK FALSE
