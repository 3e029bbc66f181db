\* The README: "Timeout is enforced."
CONSTANTS
    Leader = leader
    Descendants = {d1}
    Pipes = {stdout, stderr}
    ExitCodes = {0, 124}
    Timeouts = {1}
    NoTimeout = NoTimeout
    PipeCapacity = 1
    MaxTime = 1
    MaxWrites = 2
    MayEscape = FALSE
    MayFail = {}
SPECIFICATION FairSpec
PROPERTY TimeoutEnforced
CHECK_DEADLOCK FALSE
