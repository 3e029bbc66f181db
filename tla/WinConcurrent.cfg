\* Two calls in one caller, one of them without a timeout.
CONSTANTS
    c1 = c1
    c2 = c2
    d1 = d1
    Calls <- TwoCalls
    Descendants = {}
    Timeouts = {1, NoTimeout}
    NoTimeout = NoTimeout
    Dword = 4
    ExitCodes = {0}
    MaxTime = 1
    MaxWrites = 1
    MayFail = {}
    MaxFaults = 1
SPECIFICATION FairSpec
PROPERTY TimeoutEnforced
CHECK_DEADLOCK FALSE
