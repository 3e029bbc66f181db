\* Two nested paths, three paths with the program among them, and overlays over
\* the directory for temporary files, with a host mount below it; objects vanish;
\* the kernel may refuse every call.
CONSTANTS
    Paths <- MCPaths
    Policies <- AllPolicies
    Cwds <- TwoCwds
    Executable <- Bin
    TempDir <- Tmp
    HostMounts <- JobMount
    MayVanish <- JobVanish
    MayRefuse <- AllCalls
    StatusFd = 6
    InheritedFds = {4, 5, 9}
    SoftLimit = 7
    FdCap = 5
SPECIFICATION Spec
INVARIANTS LaunchInv ProgramConfined NoInheritedFds HostTreeUntouched ScratchRemoved CapableHostLaunches FailureReported GrantsUsable
CHECK_DEADLOCK FALSE
