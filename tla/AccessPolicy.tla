---------------------------- MODULE AccessPolicy ----------------------------
(***************************************************************************)
(* The policy model of src/src/policy.rs and the checks that               *)
(* src/src/manager.rs makes before it dispatches to a back end.            *)
(*                                                                         *)
(* A path is the sequence of its components, canonical and absolute; <<>>  *)
(* is the root.  A component is a number, and the order of the numbers is  *)
(* the order that sorting puts the names in.  The permissions of a policy  *)
(* are a set: no back end tells two orders of the same entries apart.      *)
(***************************************************************************)
EXTENDS Integers, Sequences

Access == {"NoAccess", "ReadOnly", "ReadWrite"}

\* path.starts_with(root)
IsUnder(root, path) ==
    /\ Len(root) <= Len(path)
    /\ \A i \in 1..Len(root) : root[i] = path[i]

StrictlyUnder(root, path) == root # path /\ IsUnder(root, path)

\* Is path one of roots, or inside of one?
Covered(roots, path) == \E root \in roots : IsUnder(root, path)

collect_paths(policy, accesses) ==
    {permission.path : permission \in {e \in policy.permissions : e.access \in accesses}}

read_only_paths(policy)  == collect_paths(policy, {"ReadOnly"})
read_write_paths(policy) == collect_paths(policy, {"ReadWrite"})
\* Mutant: the read-only paths are forgotten.
readable_paths_writable(policy) == collect_paths(policy, {"ReadWrite"})

readable_paths(policy)   == collect_paths(policy, {"ReadOnly", "ReadWrite"})
writable_paths(policy)   == read_write_paths(policy)
denied_paths(policy)     == collect_paths(policy, {"NoAccess"})

default_read_access(policy)  == policy.default # "NoAccess"
default_write_access(policy) == policy.default = "ReadWrite"

\* validate_policy_allow_paths: every allow entry exists; deny entries are
\* not looked at.
validate_policy_allow_paths(policy, exists) == readable_paths(policy) \subseteq exists

-----------------------------------------------------------------------------
(* What a policy promises for a path: the meaning that the back ends are   *)
(* compared with.  A deny entry overrides everything below it.  The other  *)
(* entries are overlays on the default: under ReadWrite only ReadOnly      *)
(* entries matter, under ReadOnly only ReadWrite entries, and under        *)
(* NoAccess the allow entries add up.                                      *)

Granted(policy, path) ==
    LET denied   == Covered(denied_paths(policy), path)
        writable == Covered(read_write_paths(policy), path)
        readonly == Covered(read_only_paths(policy), path)
    IN  CASE denied -> "NoAccess"
          [] ~denied /\ policy.default = "ReadWrite" ->
                 IF readonly THEN "ReadOnly" ELSE "ReadWrite"
          [] ~denied /\ policy.default = "ReadOnly" ->
                 IF writable THEN "ReadWrite" ELSE "ReadOnly"
          [] ~denied /\ policy.default = "NoAccess" ->
                 IF writable THEN "ReadWrite"
                 ELSE IF readonly THEN "ReadOnly" ELSE "NoAccess"

Rank(access) ==
    CASE access = "NoAccess" -> 0 [] access = "ReadOnly" -> 1 [] access = "ReadWrite" -> 2

AtMost(a, b) == Rank(a) <= Rank(b)
Weaker(a, b) == IF AtMost(a, b) THEN a ELSE b
=============================================================================
