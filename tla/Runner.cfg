\* A descendant that may leave the group; every call of the runner may fail.
CONSTANTS
    Leader = leader
    Descendants = {d1}
    Pipes = {stdout, stderr}
    ExitCodes = {0, 124}
    Timeouts = {1, NoTimeout}
    NoTimeout = NoTimeout
    PipeCapacity = 1
    MaxTime = 1
    MaxWrites = 2
    MayEscape = TRUE
    MayFail = {"spawn", "try_wait", "kill", "wait"}
SPECIFICATION FairSpec
INVARIANTS RunnerInv OutputComplete TimeoutKillsGroup VerdictMatchesLeader
PROPERTIES KillOnlyOwnGroup KeepsPromise FullPipeDrains Returns
CHECK_DEADLOCK FALSE
