CONSTANTS
    h1 = h1
    h2 = h2
    Hosts = {h1, h2}
    Addresses = {1, 2}
    Pool = {2}
    Reserved = {1}
    Wants = {0}
    Releasers = {}
    Roamers = {}
    CrashPoints = {"open"}
    LeaseTime = 1
    MaxTime = 2
    MaxXidOf <- MCMaxXidOf
    MaxCrashes = 1
SPECIFICATION Spec
CHECK_DEADLOCK FALSE
INVARIANT LeasesListed
