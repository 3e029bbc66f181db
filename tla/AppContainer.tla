---------------------------- MODULE AppContainer ----------------------------
(***************************************************************************)
(* execute() of the Windows back end (src/src/platform/windows/            *)
(* appcontainer.rs): the plan of ACEs, the AppContainer profile            *)
(* (token.rs), the network block (NetworkBlock), the ACEs (acl.rs) or the  *)
(* elevated helper (elevated_ops.rs), the program, and the drops.          *)
(*                                                                         *)
(* An ACE of the AppContainer's SID allows or denies reads or writes at a  *)
(* path and below.  The ACEs nearest to an object decide, and a deny comes *)
(* before an allow of the same path: the order of a canonical DACL.        *)
(* Without any ACE of the SID the AppContainer has no access.              *)
(*                                                                         *)
(* Paths are canonical.  The helper is HelperContract, which ElevatedOps   *)
(* implements: execute relies on no more than that contract says.  No path *)
(* comes or goes once the plan is made.                                    *)
(***************************************************************************)
EXTENDS AccessPolicy, NetworkBlock

CONSTANTS
    Paths,      \* the directories and files of the host
    Requests,   \* policy, cwd, executable, and the paths that arguments name
    Absent,     \* the sets of paths that may be missing
    Guesses(_)  \* what a helper may have in force that keeps to no contract

ASSUME RequestAssumption ==
    /\ Paths \subseteq Seq(Nat)
    /\ \A set \in Absent : set \subseteq Paths
    /\ \A r \in Requests :
          /\ r.cwd \in Paths /\ r.exe \in Paths \ {<<>>} /\ r.args \in Seq(Paths \ {<<>>})
          /\ r.policy.default \in Access /\ r.policy.network \in BOOLEAN
          /\ \A e \in r.policy.permissions : e.path \in Paths /\ e.access \in Access

VARIABLES
    request, elevated, present,   \* the call, the caller's token, the host's paths
    pc,        \* the statement of execute
    todo,      \* entries of the plan that are still to be applied
    boot,      \* bootstrap paths that are still to be granted
    aces,      \* aces[p]: what the SID's own ACEs at p allow and deny
    tracked,   \* the paths that each rollback object holds
    ops,       \* the entries that the helper is asked for
    helper,    \* the phase of the helper's contract
    held,      \* the helper's entries that are in force
    rules,     \* the helper's firewall rules that are in force
    drops,     \* the guards that are still to be dropped, in order
    profile,   \* "none", "created", or "derived" when only the SID exists
    sid,       \* "none", "valid" or "freed"
    result

hostVars == <<request, elevated, present>>
aclVars  == <<todo, boot, aces, tracked>>
tokenVars == <<profile, sid>>
helperVars == <<ops, helper, held, rules>>
vars == <<hostVars, pc, aclVars, helperVars, drops, tokenVars, result, netVars, faults>>

-----------------------------------------------------------------------------
(* The plan.                                                               *)

Parent(path) == SubSeq(path, 1, Len(path) - 1)

\* materialize_path_candidate: the path, or its directory.
Candidates(r) ==
    UNION {IF r.args[i] \in present THEN {r.args[i]} ELSE {Parent(r.args[i])} \cap present :
              i \in DOMAIN r.args}

Program(r) == {r.cwd, r.exe, Parent(r.exe)}

default_access_scope_paths(r) ==
    (Program(r) \cup {e.path : e \in r.policy.permissions} \cup Candidates(r)) \cap present

runtime_bootstrap_readonly_paths(r) ==
    (Program(r) \cup IF r.args # <<>> /\ r.args[1] \in present
                       THEN {r.args[1], Parent(r.args[1])} ELSE {}) \cap present

\* Mutant: the comparison is the wrong way around.
filter_paths_not_above(paths, roots) == {p \in paths : \A root \in roots : ~IsUnder(p, root)}

filter_paths_not_under_denied_roots(paths, roots) == {p \in paths : ~Covered(roots, p)}

collect_acl_plan(policy, scope) ==
    LET ro == read_only_paths(policy)
        rw == read_write_paths(policy)
        dn == denied_paths(policy)
    IN  CASE policy.default = "NoAccess"  -> [dn |-> dn, dw |-> {}, ro |-> ro, rw |-> rw]
          [] policy.default = "ReadOnly"  -> [dn |-> dn, dw |-> {}, ro |-> scope \cup ro, rw |-> rw]
          [] policy.default = "ReadWrite" ->
                [dn |-> dn, dw |-> ro, ro |-> ro,
                 rw |-> filter_paths_not_under_denied_roots(scope, ro) \cup rw]

\* Equal paths: a deny entry displaces the others, read-write the read-only.
resolve_acl_conflicts(plan) ==
    LET rw == plan.rw \ plan.dn
    IN  [dn |-> plan.dn, rw |-> rw,
         ro |-> plan.ro \ (plan.dn \cup rw), dw |-> plan.dw \ (plan.dn \cup rw)]

RawPlan(r) == collect_acl_plan(r.policy, default_access_scope_paths(r))

\* Mutant: paths below a denied root are still allowed.
AclPlanUnfiltered(r) == resolve_acl_conflicts(RawPlan(r))

AclPlan(r) ==
    LET raw == RawPlan(r)
    IN  resolve_acl_conflicts(
           [raw EXCEPT !.ro = filter_paths_not_under_denied_roots(@, raw.dn),
                       !.rw = filter_paths_not_under_denied_roots(@, raw.dn)])

command_references_denied_path(r) ==
    \E p \in Candidates(r) : Covered(denied_paths(r.policy), p)

Kinds == {"dn", "dw", "ro", "rw"}
Entries(plan) == UNION {{[kind |-> k, path |-> p] : p \in plan[k]} : k \in Kinds}

\* apply_access_plan goes through the lists in this order.
Rank4(kind) == CASE kind = "dn" -> 1 [] kind = "dw" -> 2 [] kind = "ro" -> 3 [] kind = "rw" -> 4
First(entries) == {e \in entries : \A f \in entries : Rank4(e.kind) <= Rank4(f.kind)}

-----------------------------------------------------------------------------
(* ACEs.                                                                   *)

Rights == {"read", "write"}
Mask(kind) == CASE kind = "ro" -> {"read"} [] kind = "dw" -> {"write"} [] OTHER -> Rights
Aces  == [allow : SUBSET Rights, deny : SUBSET Rights]
NoAce == [allow |-> {}, deny |-> {}]

Deny(ace, kind) == [ace EXCEPT !.deny = @ \cup Mask(kind)]

\* SetEntriesInAclW: DENY_ACCESS adds, and SET_ACCESS discards whatever the
\* trustee had at this path, a deny ACE too.
NativeAce(ace, kind) ==
    IF kind \in {"dn", "dw"} THEN Deny(ace, kind) ELSE [allow |-> Mask(kind), deny |-> {}]

\* icacls /deny and /grant add.
Icacls(entries, path) ==
    LET granted == UNION {Mask(e.kind) : e \in {f \in entries : f.path = path /\ f.kind \in {"ro", "rw"}}}
        denied  == UNION {Mask(e.kind) : e \in {f \in entries : f.path = path /\ f.kind \in {"dn", "dw"}}}
    IN  [allow |-> granted, deny |-> denied]

\* What the kernel grants: the nearest path with an ACE about the right.
Can(right, path) ==
    \E p \in Paths :
        /\ IsUnder(p, path) /\ right \in aces[p].allow \ aces[p].deny
        /\ \A q \in Paths : StrictlyUnder(p, q) /\ IsUnder(q, path) =>
               right \notin aces[q].allow \cup aces[q].deny

-----------------------------------------------------------------------------
(* The helper.                                                             *)

\* What execute asks the helper for: the bootstrap paths are read-only entries
\* of its plan.
HelperEntries ==
    Entries(resolve_acl_conflicts(
        [AclPlan(request) EXCEPT !.ro = @ \cup runtime_bootstrap_readonly_paths(request)]))

\* The failures that the contract tells apart.
HelperCalls == {"icacls", "log", "unclean"}

Contract ==
    INSTANCE HelperContract WITH
        entries <- ops, block <- ~request.policy.network, phase <- helper,
        force <- held, gone <- {}, trouble <- faults \cap HelperCalls

\* Any of them, while the helper is at it.
MoreFail ==
    \E set \in SUBSET (HelperCalls \cap MayFail) :
        /\ faults' = faults \cup set
        /\ Cardinality(faults') <= MaxFaults

HelperAces == aces' = [p \in Paths |-> Icacls(held', p)]

-----------------------------------------------------------------------------
(* execute().                                                              *)

UnwindDrops == <<"acl", "boot", "network", "helper", "context">>

\* Mutant: the profile, and the SID with it, goes first.
NormalDropsContextFirst == <<"context", "helper", "network", "boot", "acl">>

\* drop() in the order of the code; `?` drops in the reverse order of the
\* declarations.
NormalDrops == <<"helper", "network", "boot", "acl", "context">>

Leave(value, order) == pc' = "drop" /\ drops' = order /\ result' = value
Go(place) == pc' = place /\ UNCHANGED <<drops, result>>
Return(error) == pc' = "returned" /\ result' = error /\ UNCHANGED drops

Init ==
    /\ request \in Requests /\ elevated \in BOOLEAN
    /\ present \in {Paths \ set : set \in Absent}
    \* The manager has looked at these.
    /\ request.cwd \in present
    /\ validate_policy_allow_paths(request.policy, present)
    /\ pc = "check" /\ drops = <<>> /\ result = "none"
    /\ todo = {} /\ boot = {} /\ aces = [p \in Paths |-> NoAce]
    /\ tracked = [boot |-> {}, acl |-> {}]
    /\ ops = {} /\ helper = "idle" /\ held = {} /\ rules = {}
    /\ profile = "none" /\ sid = "none"
    /\ NetInit /\ faults = {}

\* Policy shape, executable, sanitised paths, arguments: in this order.
Prepare ==
    /\ pc = "check"
    /\ IF request.policy.network \/ request.exe \notin present
          \/ ~(denied_paths(request.policy) \subseteq present)
         THEN Return("InvalidRequest")
       ELSE IF command_references_denied_path(request) THEN Return("Denied")
       ELSE Go("profile")
    /\ UNCHANGED <<hostVars, aclVars, helperVars, tokenVars, netVars, faults>>

\* create_appcontainer_context_with_network: CreateAppContainerProfile, or else
\* the SID that is derived from the name.
CreateContext ==
    /\ pc = "profile"
    /\ \/ Works /\ profile' = "created" /\ sid' = "valid" /\ Go("token")
       \/ Fails("create") /\ profile' = "derived" /\ sid' = "valid" /\ Go("token")
       \/ Fails("create") /\ Return("Windows") /\ UNCHANGED tokenVars
    /\ UNCHANGED <<hostVars, aclVars, helperVars, netVars>>

\* current_process_is_elevated()
ChooseWay ==
    /\ pc = "token"
    /\ boot' = runtime_bootstrap_readonly_paths(request)
    /\ todo' = Entries(AclPlan(request))
    /\ ops' = IF elevated THEN {} ELSE HelperEntries
    /\ \/ Works /\ elevated /\ Go("network") /\ wfp' = "open"
       \/ Works /\ ~elevated /\ Go("helper") /\ UNCHANGED wfp
       \/ Fails("query") /\ Leave("Windows", UnwindDrops) /\ UNCHANGED wfp
    /\ UNCHANGED <<hostVars, aces, tracked, helper, held, rules, tokenVars, engine, pending, filters>>

\* ElevatedOpsGuard::spawn: all is in force, or it fails and all is undone.
SpawnHelper ==
    /\ pc = "helper"
    /\ UNCHANGED <<hostVars, tracked, tokenVars, netVars>>
    /\ MoreFail
    /\ \/ Contract!Ready /\ Go("running")
       \/ Contract!End /\ \E error \in {"Denied", "Windows", "Io"} : Leave(error, UnwindDrops)
    /\ HelperAces
    /\ todo' = {} /\ boot' = {}

\* The helper while execute has its guard, and a helper that outlives it.
HelperHolds ==
    /\ UNCHANGED <<hostVars, pc, todo, boot, tracked, drops, tokenVars, result, netVars>>
    /\ MoreFail
    /\ Contract!Hold \/ Contract!Late
    /\ HelperAces

\* install_block_all_network_filters, step by step, and what comes of it.
InstallFilters ==
    /\ pc = "network"
    /\ \/ Install /\ UNCHANGED <<pc, drops, result>>
       \/ wfp = "in_force" /\ Go("boot") /\ UNCHANGED <<netVars, faults>>
       \/ /\ wfp = "failed" /\ UNCHANGED <<netVars, faults>>
          /\ \E error \in {"Denied", "Windows"} : Leave(error, UnwindDrops)
    /\ UNCHANGED <<hostVars, aclVars, helperVars, tokenVars>>

\* apply_optional_readonly_paths: an ACE that cannot be set is passed over.
GrantBootstrap ==
    /\ pc = "boot"
    /\ Go("apply")
    /\ \E set \in {boot} \cup {boot \ {p} : p \in boot} :
          /\ IF set = boot THEN Works ELSE Fails("ace")
          /\ aces' = [p \in Paths |-> IF p \in set THEN NativeAce(aces[p], "ro") ELSE aces[p]]
          /\ tracked' = [tracked EXCEPT !.boot = set]
    /\ boot' = {}
    /\ UNCHANGED <<hostVars, todo, helperVars, tokenVars, netVars>>

\* Mutant: only a plan that was applied as a whole is rolled back.
AddAceUntracked ==
    /\ pc = "apply"
    /\ IF todo = {} THEN Go("running") /\ Works /\ UNCHANGED aclVars
       ELSE \E e \in First(todo) :
          /\ UNCHANGED boot
          /\ \/ /\ Works /\ Go("apply")
                /\ aces' = [aces EXCEPT ![e.path] = NativeAce(@, e.kind)]
                /\ todo' = todo \ {e}
                /\ tracked' = [tracked EXCEPT !.acl = @ \cup {e.path}]
             \/ /\ Fails("ace") /\ Leave("Windows", UnwindDrops)
                /\ tracked' = [tracked EXCEPT !.acl = {}] /\ UNCHANGED <<aces, todo>>
    /\ UNCHANGED <<hostVars, helperVars, tokenVars, netVars>>

\* apply_access_plan: one entry, or the end of the plan.  An ACE that cannot be
\* set is an error, which drops what was tracked up to there.
AddAce ==
    /\ pc = "apply"
    /\ IF todo = {} THEN Go("running") /\ Works /\ UNCHANGED aclVars
       ELSE \E e \in First(todo) :
          /\ UNCHANGED boot
          /\ \/ /\ Works /\ Go("apply")
                /\ aces' = [aces EXCEPT ![e.path] = NativeAce(@, e.kind)]
                /\ todo' = todo \ {e}
                /\ tracked' = [tracked EXCEPT !.acl = @ \cup {e.path}]
             \/ /\ Fails("ace") /\ Leave("Windows", UnwindDrops)
                /\ UNCHANGED <<aces, todo, tracked>>
    /\ UNCHANGED <<hostVars, helperVars, tokenVars, netVars>>

\* run_process_in_appcontainer, which ends the program before it returns.
RunProgram ==
    /\ pc = "running"
    /\ \/ Works /\ Leave("ran", NormalDrops)
       \/ Fails("process") /\ Leave("Windows", UnwindDrops)
    /\ UNCHANGED <<hostVars, aclVars, helperVars, tokenVars, netVars>>

-----------------------------------------------------------------------------
(* The drops.                                                              *)

Dropping(guard) ==
    /\ pc = "drop" /\ drops # <<>> /\ Head(drops) = guard
    /\ drops' = Tail(drops)
    /\ UNCHANGED <<hostVars, pc, todo, boot, result>>

\* ElevatedOpsGuard::drop, if there is one.
DropHelper ==
    /\ Dropping("helper")
    /\ UNCHANGED <<tracked, tokenVars, netVars>>
    /\ IF helper = "ready" THEN MoreFail /\ Contract!End /\ HelperAces
                           ELSE Works /\ UNCHANGED <<aces, helperVars>>

DropNetwork ==
    /\ Dropping("network")
    /\ IF wfp = "in_force" THEN DropSession ELSE UNCHANGED netVars
    /\ UNCHANGED <<aces, tracked, helperVars, tokenVars, faults>>

\* REVOKE_ACCESS removes the allow ACEs of the SID at the paths of set; whether
\* it takes the deny ACEs along is left open.
Revoked(set, kept) ==
    [p \in Paths |-> IF p \notin set THEN aces[p]
                     ELSE [allow |-> {}, deny |-> aces[p].deny \cap kept]]

\* AclRollback::drop.  A call that fails is passed over.
RollBack(guard) ==
    /\ Dropping(guard)
    /\ \E set \in {tracked[guard]} \cup {tracked[guard] \ {p} : p \in tracked[guard]},
          kept \in {{}, Rights} :
          /\ IF set = tracked[guard] THEN Works ELSE Fails("revoke")
          /\ aces' = Revoked(set, kept)
    /\ tracked' = [tracked EXCEPT ![guard] = {}]
    /\ UNCHANGED <<helperVars, tokenVars, netVars>>

\* AppContainerContext::drop deletes a profile that it has created; then the
\* SID is freed.
DropContext ==
    /\ Dropping("context")
    /\ sid' = "freed"
    /\ \/ Works /\ profile' = "none"
       \/ profile = "created" /\ Fails("delete") /\ UNCHANGED profile
    /\ UNCHANGED <<aces, tracked, helperVars, netVars>>

Done ==
    /\ pc = "drop" /\ drops = <<>>
    /\ pc' = "returned"
    /\ UNCHANGED <<hostVars, aclVars, helperVars, drops, tokenVars, result, netVars, faults>>

Next ==
    \/ Prepare \/ CreateContext \/ ChooseWay \/ SpawnHelper \/ HelperHolds
    \/ InstallFilters \/ GrantBootstrap \/ AddAce \/ RunProgram
    \/ DropHelper \/ DropNetwork \/ RollBack("boot") \/ RollBack("acl")
    \/ DropContext \/ Done

Spec == Init /\ [][Next]_vars

-----------------------------------------------------------------------------
Running == pc = "running"
Policy  == request.policy

TypeOK ==
    /\ request \in Requests /\ elevated \in BOOLEAN /\ present \subseteq Paths
    /\ pc \in {"check", "profile", "token", "helper", "network", "boot", "apply",
               "running", "drop", "returned"}
    /\ todo \subseteq [kind : Kinds, path : Paths] /\ boot \subseteq Paths
    /\ aces \in [Paths -> Aces]
    /\ tracked \in [boot : SUBSET Paths, acl : SUBSET Paths]
    /\ helper \in {"idle", "ready", "over"}
    /\ ops \subseteq [kind : Kinds, path : Paths] /\ held \subseteq ops /\ rules \subseteq {"out", "in"}
    /\ Len(drops) <= 5
    /\ profile \in {"none", "created", "derived"} /\ sid \in {"none", "valid", "freed"}
    /\ result \in {"none", "InvalidRequest", "Denied", "Windows", "Io", "ran"}
    /\ NetTypeOK

\* Bootstrap paths are readable whatever the policy says.
Bootstrap(path) == Covered(runtime_bootstrap_readonly_paths(request), path)

\* A read-only overlay on a writable default, which a read-write entry at or
\* above the path does not lift.
Overlay(path) ==
    /\ Policy.default = "ReadWrite"
    /\ Covered(read_only_paths(Policy), path) /\ ~Covered(read_write_paths(Policy), path)

\* A helper that cannot write its log may clean up while the program runs.
LogLost == helper = "ready" /\ "log" \in faults

\* README.md:192-195.  What the program can do while it runs is what the policy
\* grants, however its entries nest and in whichever way they were applied:
\* denied roots stay closed below allowed ones, and a deny displaces equal
\* allow entries.  Three exceptions are the code's: bootstrap paths are readable,
\* a read-write entry at or above a read-only one wins, and the native way does
\* not keep read-only overlays.
ProgramConfined ==
    Running /\ ~LogLost => \A p \in Paths :
        /\ Can("read", p) => Granted(Policy, p) # "NoAccess" \/ Bootstrap(p)
        /\ Can("write", p) =>
              \/ Granted(Policy, p) = "ReadWrite"
              \/ Covered(read_write_paths(Policy), p) /\ ~Covered(denied_paths(Policy), p)
              \/ Overlay(p) /\ elevated

\* The entries do not take each other's grants away: what is listed, or in the
\* scope of the default, is usable, unless icacls failed on it or the helper has
\* lost its log.
GrantsUsable ==
    Running /\ {"icacls", "log"} \cap faults = {} => \A p \in Paths :
        LET scope == IF Policy.default = "NoAccess" THEN readable_paths(Policy)
                     ELSE default_access_scope_paths(request)
        IN  Covered(scope, p) =>
              /\ Granted(Policy, p) # "NoAccess" => Can("read", p)
              /\ Granted(Policy, p) = "ReadWrite" => Can("write", p)

\* README.md:198, :212.  The program never runs with part of the filters, nor
\* with the filters of a session that is closed, nor before the helper's rules.
NetworkBlocked ==
    Running => rules = {"out", "in"} \/ (engine /\ filters = BLOCK_LAYERS) \/ LogLost

\* The rollback objects point to the SID: none holds a path once it is freed.
RollbackNeedsSid == tracked.boot \cup tracked.acl # {} => sid = "valid"

\* README.md:196, :217.  Whatever failed on the way, the caller's host has no
\* grant, no filter and no profile left, unless the clean-up itself failed: a
\* revocation of the caller's, or an end that HelperContract calls unclean, the
\* removals that fail in the helper's script among them.
NothingLeft ==
    pc = "returned" =>
        /\ (\A p \in Paths : aces[p].allow = {}) \/ faults \cap {"revoke", "log", "unclean"} # {}
        /\ ~engine /\ filters = 0
        /\ rules = {} \/ faults \cap {"log", "unclean"} # {}
        /\ profile = "created" => "delete" \in faults

\* README.md:193: the backend "adds deny-write ACEs for read-only overlays under
\* `default_access == ReadWrite`".
OverlaysReadOnly == Running => \A p \in Paths : Overlay(p) => ~Can("write", p)
=============================================================================
