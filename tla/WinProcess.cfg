\* One call; a program that may start another; every call of the system fails.
CONSTANTS
    c1 = c1
    c2 = c2
    d1 = d1
    Calls <- OneCall
    Descendants = {d1}
    Timeouts = {1, 3, 4, NoTimeout}
    NoTimeout = NoTimeout
    Dword = 4
    ExitCodes = {0}
    MaxTime = 2
    MaxWrites = 2
    MayFail <- EverythingFails
    MaxFaults = 4
SPECIFICATION Spec
INVARIANTS WinInv OutputComplete JobContains VerdictMatchesProgram DegradationReported HandlesReleased
CHECK_DEADLOCK FALSE
