----------------------------- MODULE MacProfile -----------------------------
(***************************************************************************)
(* The macOS back end (src/src/platform/macos.rs): the SBPL profile that   *)
(* build_sbpl_profile writes for a policy, and what Seatbelt answers to a  *)
(* program that runs under it.  The last rule that matches decides.        *)
(*                                                                         *)
(* The policy paths are canonical, as the README asks of callers.          *)
(***************************************************************************)
EXTENDS AccessPolicy, SequencesExt

CONSTANTS
    Paths,     \* the objects a program may name
    Policies   \* the policies that callers pass

ASSUME ProfileAssumption ==
    /\ Paths \subseteq Seq(Nat)
    /\ \A policy \in Policies :
          /\ policy.default \in Access /\ policy.network \in BOOLEAN
          /\ \A e \in policy.permissions : e.path \in Paths /\ e.access \in Access

VARIABLES
    phase,    \* "check", "running" or "returned"
    policy,   \* the policy of the request
    profile,  \* the rules given to sandbox-exec
    request,  \* the last operation of the program
    allowed,  \* Seatbelt's answer to it
    result    \* what execute returned

vars == <<phase, policy, profile, request, allowed, result>>

Operations == {"file-read*", "file-write*", "network*"}
None == [op |-> "none"]

-----------------------------------------------------------------------------
(* The profile.  A rule stands for the lines that one loop emits: the same *)
(* action for a set of paths, in no order that matters.                    *)

Everywhere(action, op) ==
    <<[action |-> action, op |-> op, filter |-> "any", paths |-> {}]>>

\* push_path_rule: the path itself and everything below it.
path_rules(action, op, paths) ==
    <<[action |-> action, op |-> op, filter |-> "subpath", paths |-> paths]>>

\* push_literal_rule
literal_rules(action, op, paths) ==
    <<[action |-> action, op |-> op, filter |-> "literal", paths |-> paths]>>

\* Mutant: no literals for the ancestors.
readable_path_no_ancestors(paths) == {}

\* Every proper ancestor, the root included.
readable_path_ancestors(paths) ==
    UNION {{SubSeq(path, 1, n) : n \in 0..(Len(path) - 1)} : path \in paths}

\* Mutant: the operation is misspelt.
deny_rules_misspelt(pol) ==
    path_rules("deny", "file-read", denied_paths(pol))
    \o path_rules("deny", "file-write*", denied_paths(pol))

deny_rules(pol) ==
    path_rules("deny", "file-read*", denied_paths(pol))
    \o path_rules("deny", "file-write*", denied_paths(pol))

\* Mutant: the deny rules come before the carve-outs.
default_rules_deny_first(pol) ==
    CASE pol.default = "ReadWrite" ->
           deny_rules(pol)
           \o path_rules("deny", "file-write*", read_only_paths(pol))
      [] pol.default = "ReadOnly" ->
           Everywhere("deny", "file-write*")
           \o deny_rules(pol)
           \o path_rules("allow", "file-write*", read_write_paths(pol))
      [] pol.default = "NoAccess" ->
           Everywhere("deny", "file-read*")
           \o Everywhere("deny", "file-write*")
           \o deny_rules(pol)
           \o literal_rules("allow", "file-read*",
                            readable_path_ancestors(readable_paths(pol)))
           \o path_rules("allow", "file-read*", readable_paths(pol))
           \o path_rules("allow", "file-write*", read_write_paths(pol))

default_rules(pol) ==
    CASE pol.default = "ReadWrite" ->
           path_rules("deny", "file-write*", read_only_paths(pol))
           \o deny_rules(pol)
      [] pol.default = "ReadOnly" ->
           Everywhere("deny", "file-write*")
           \o path_rules("allow", "file-write*", read_write_paths(pol))
           \o deny_rules(pol)
      [] pol.default = "NoAccess" ->
           Everywhere("deny", "file-read*")
           \o Everywhere("deny", "file-write*")
           \o literal_rules("allow", "file-read*",
                            readable_path_ancestors(readable_paths(pol)))
           \o path_rules("allow", "file-read*", readable_paths(pol))
           \o path_rules("allow", "file-write*", read_write_paths(pol))
           \o deny_rules(pol)

\* Mutant: the network line is only written with a file rule.
build_sbpl_profile_network_last(pol) ==
    (IF pol.network \/ pol.default = "ReadWrite" THEN <<>>
       ELSE Everywhere("deny", "network*"))
    \o default_rules(pol)

\* (version 1) (allow default) and what the policy adds.
build_sbpl_profile(pol) ==
    (IF pol.network THEN <<>> ELSE Everywhere("deny", "network*"))
    \o default_rules(pol)

\* Seatbelt: the last match decides, and the default is to allow.
Matches(rule, op, path) ==
    /\ rule.op = op
    /\ \/ rule.filter = "any"
       \/ rule.filter = "literal" /\ path \in rule.paths
       \/ rule.filter = "subpath" /\ Covered(rule.paths, path)

Allows(rules, op, path) ==
    LET matching == {i \in DOMAIN rules : Matches(rules[i], op, path)}
    IN  matching = {} \/ rules[Max(matching)].action = "allow"

-----------------------------------------------------------------------------
(* execute()                                                               *)

Init ==
    /\ phase = "check"
    /\ policy \in Policies
    /\ profile = <<>>
    /\ request = None
    /\ allowed = FALSE
    /\ result = "none"

\* sandbox-exec is there: the program starts under the profile.
Start ==
    /\ phase = "check"
    /\ phase' = "running"
    /\ profile' = build_sbpl_profile(policy)
    /\ UNCHANGED <<policy, request, allowed, result>>

\* sandbox-exec is missing: nothing is started.
Missing ==
    /\ phase = "check"
    /\ phase' = "returned"
    /\ result' = "Unavailable"
    /\ UNCHANGED <<policy, profile, request, allowed>>

\* The program asks for something and Seatbelt answers.
Ask(op, path) ==
    /\ phase = "running"
    /\ request' = [op |-> op, path |-> path]
    /\ allowed' = Allows(profile, op, path)
    /\ UNCHANGED <<phase, policy, profile, result>>

\* The program ends, and the shared runner returns.
Finish ==
    /\ phase = "running"
    /\ phase' = "returned"
    /\ result' = "ran"
    /\ UNCHANGED <<policy, profile, request, allowed>>

Next ==
    \/ Start \/ Missing \/ Finish
    \/ \E op \in Operations, path \in Paths : Ask(op, path)

Spec == Init /\ [][Next]_vars

-----------------------------------------------------------------------------
Asked(op) == request # None /\ request.op = op

TypeOK ==
    /\ phase \in {"check", "running", "returned"}
    /\ policy \in Policies
    /\ \A i \in DOMAIN profile : profile[i].op \in Operations
    /\ request = None \/ (request.op \in Operations /\ request.path \in Paths)
    /\ allowed \in BOOLEAN
    /\ result \in {"none", "Unavailable", "ran"}

\* The rules of a profile, in their order, mean exactly what the policy grants:
\* carve-outs, read-only overlays and deny entries that nest in any way, the
\* same meaning that the Linux back end has.  Only the directories above an
\* allow entry can be listed under NoAccess too; a deny entry still closes them.
AccessAsGranted ==
    /\ Asked("file-write*") => (allowed <=> Granted(policy, request.path) = "ReadWrite")
    /\ Asked("file-read*") =>
          LET ancestor == \E root \in readable_paths(policy) : StrictlyUnder(request.path, root)
          IN  allowed <=> \/ Granted(policy, request.path) # "NoAccess"
                          \/ ancestor /\ ~Covered(denied_paths(policy), request.path)

\* README.md:325: the literals are there so that a program reaches what it may
\* read.  Every directory on the way to a readable object can be traversed.
GrantsReachable ==
    phase = "running" =>
        \A path \in Paths : Granted(policy, path) # "NoAccess" =>
            \A above \in Paths :
                StrictlyUnder(above, path) => Allows(profile, "file-read*", above)

\* No rule of the path part ever gives the network back.
NetworkAsGranted == Asked("network*") => (allowed <=> policy.network)
=============================================================================
