-------------------------- MODULE MCCommandRunner --------------------------
(* CommandRunner for TLC, with the invariant that its proofs rest on.      *)
EXTENDS CommandRunnerProofs
=============================================================================
