---------------------------- MODULE MCWinProcess ----------------------------
(* Instances of WinProcess for TLC.                                        *)
EXTENDS WinProcessProofs

CONSTANTS c1, c2, d1

OneCall  == {c1}
TwoCalls == {c1, c2}

EverythingFails ==
    {"pipes", "job", "policy", "attributes", "create", "wait", "terminate",
     "code", "empty write"}
=============================================================================
