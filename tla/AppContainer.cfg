\* Every policy over two nested paths; two calls of the system may fail.
CONSTANTS
    Paths <- MCPaths
    Requests <- MCRequests
    Absent <- MCAbsent
    Guesses <- MCGuesses
    MayFail <- AllCalls
    MaxFaults = 2
SPECIFICATION Spec
INVARIANTS AccessInv ProgramConfined GrantsUsable NetworkBlocked RollbackNeedsSid NothingLeft
CHECK_DEADLOCK FALSE
