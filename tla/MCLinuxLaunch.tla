--------------------------- MODULE MCLinuxLaunch ---------------------------
(***************************************************************************)
(* LinuxLaunch for TLC: a small host and every policy that lists up to     *)
(* three of its paths.                                                     *)
(***************************************************************************)
EXTENDS LinuxLaunchProofs

Bin == <<1>>
Tmp == <<2>>
Job == <<2, 1>>
Out == <<2, 1, 1>>
Var == <<3>>
MCPaths == {<<>>, Bin, Tmp, Job, Out, Var}

Listed(paths) == [path : paths, access : Access]

\* Each path at most once with each access: also both ways.
PoliciesOver(paths, defaults, networks) ==
    [permissions : SUBSET Listed(paths), default : defaults, network : networks]

\* Nested overlays below the directory for temporary files.
NestedPolicies == PoliciesOver({Job, Out}, Access, BOOLEAN)
\* Overlays that may cover it, and a path elsewhere.
CoveringPolicies == PoliciesOver({Tmp, Var}, {"ReadWrite", "NoAccess"}, {FALSE})
\* Three paths, one of them the program's.  As the network never matters to
\* the paths, one value of it is enough here.
WidePolicies == CoveringPolicies \cup
    {p \in PoliciesOver({Bin, Job, Out}, Access, {FALSE}) :
        \A e, f \in p.permissions : e.path = f.path => e = f}

AllPolicies == NestedPolicies \cup WidePolicies

TwoCwds   == {Var, Job}
NoPaths   == {}
JobVanish == {Job, Out}
JobMount  == {Job}

AllCalls == {"unshare", "userns", "map", "mountns", "private", "scratch",
             "target", "bind", "remount", "placeholder", "cleanup", "landlock",
             "seccomp", "close", "exec"}
=============================================================================
