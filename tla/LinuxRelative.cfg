\* Paths named from the working directory.
CONSTANTS
    Paths <- MCPaths
    Policies <- NestedPolicies
    Cwds <- TwoCwds
    Executable <- Bin
    TempDir <- Tmp
    HostMounts <- NoPaths
    MayVanish <- NoPaths
    MayRefuse <- NoPaths
    StatusFd = 6
    InheritedFds = {4, 5, 9}
    SoftLimit = 7
    FdCap = 5
SPECIFICATION Spec
INVARIANT RelativePathsConfined
CHECK_DEADLOCK FALSE
