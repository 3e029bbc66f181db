---------------------------- MODULE MCMacProfile ----------------------------
(* MacProfile for TLC: a chain of three directories and a sibling.         *)
EXTENDS MacProfileProofs

MCPaths == {<<>>, <<1>>, <<1, 1>>, <<1, 1, 1>>, <<1, 2>>}
MCPolicies ==
    [permissions : SUBSET [path : {<<1>>, <<1, 1>>, <<1, 2>>}, access : Access],
     default : Access, network : BOOLEAN]
=============================================================================
