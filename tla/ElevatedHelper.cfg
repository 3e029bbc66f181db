\* Every call may fail, both waits may run out, one path may vanish.
CONSTANTS
    p1 = p1
    p2 = p2
    Paths <- MCPaths
    Specs <- MCSpecs
    MayVanish = {p1}
    MayFail <- AllCalls
    MayExpire = {"ready", "stop"}
    MaxFaults = 2
SPECIFICATION GuardFairSpec
INVARIANTS OpsInv EnforcedWhileRunning HostRestored NoHelperLeft
PROPERTIES KeepsContract GuardReturns
CHECK_DEADLOCK FALSE
