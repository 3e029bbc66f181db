--------------------------- MODULE MCAppContainer ---------------------------
(***************************************************************************)
(* AppContainer for TLC: a working directory with a subdirectory, and a    *)
(* program in a directory of its own.                                      *)
(***************************************************************************)
EXTENDS AppContainerAccessProofs

Work == <<1>>
Sub  == <<1, 1>>
Leaf == <<1, 1, 1>>
Bin  == <<2>>
Exe  == <<2, 1>>
MCPaths == {Work, Sub, Leaf, Bin, Exe}

Policies ==
    [permissions : SUBSET [path : {Work, Sub}, access : Access], default : Access,
     network : BOOLEAN]

MCRequests ==
    [policy : Policies, cwd : {Work}, exe : {Exe}, args : {<<>>, <<Leaf>>}]

MCAbsent == {{}, {Leaf}, {Sub, Leaf}}
\* A helper without a log: it has nothing in force, or everything.
MCGuesses(set) == {{}, set}
AllCalls == {"create", "query", "icacls", "log", "unclean", "engine", "app_id", "begin",
             "filter", "commit", "ace", "process", "revoke", "delete"}
=============================================================================
