\* Two calls in one caller, with a timeout or without.
CONSTANTS
    c1 = c1
    c2 = c2
    d1 = d1
    Calls <- TwoCalls
    Descendants = {}
    Timeouts = {1, NoTimeout}
    NoTimeout = NoTimeout
    Dword = 4
    ExitCodes = {0}
    MaxTime = 1
    MaxWrites = 1
    MayFail = {"terminate"}
    MaxFaults = 1
SPECIFICATION FairSpec
PROPERTIES KeepsPromise Returns
CHECK_DEADLOCK FALSE
