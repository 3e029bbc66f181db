\* The second netsh call may fail.
CONSTANTS
    p1 = p1
    p2 = p2
    Paths <- MCPaths
    Specs <- Blocking
    MayVanish = {}
    MayFail = {"in"}
    MayExpire = {}
    MaxFaults = 1
SPECIFICATION Spec
INVARIANT NetworkCleanedUp
CHECK_DEADLOCK FALSE
