\* Every policy over three paths, each listed in any number of ways.
CONSTANTS
    Paths <- MCPaths
    Policies <- MCPolicies
SPECIFICATION Spec
INVARIANTS ProfileInv AccessAsGranted GrantsReachable NetworkAsGranted
CHECK_DEADLOCK FALSE
