----------------------------- MODULE LinuxLaunch -----------------------------
(***************************************************************************)
(* SandboxManager::execute with the Linux back end                         *)
(* (src/src/platform/linux.rs), from the request to the moment the program *)
(* runs or the caller has an error: the parent validates and plans, forks, *)
(* and the child confines itself step by step in pre_exec before it execs. *)
(*                                                                         *)
(* Meanwhile other processes of the host may remove objects that the       *)
(* policy names, and the kernel may refuse any call.                       *)
(***************************************************************************)
EXTENDS AccessPolicy, FiniteSets

CONSTANTS
    Paths,        \* the directories and files of the host, a tree
    Policies,     \* the policies that callers pass
    Cwds,         \* the working directories that callers pass
    Executable,   \* the file of the program
    TempDir,      \* std::env::temp_dir()
    HostMounts,   \* mount points of the host below the root
    MayVanish,    \* paths that another process may remove
    MayRefuse,    \* calls that the kernel may refuse
    StatusFd,     \* write end of the pipe that reports a failed child
    InheritedFds, \* descriptors of the caller without CLOEXEC
    SoftLimit,    \* soft RLIMIT_NOFILE; RLIM_INFINITY is more than any descriptor
    FdCap         \* 1_048_576, where collect_fd_range_from_rlimit ends at the latest

ASSUME LaunchAssumption ==
    /\ Paths \subseteq Seq(Nat)
    /\ <<>> \in Paths
    /\ Cwds \subseteq Paths
    /\ {Executable, TempDir} \subseteq Paths
    /\ HostMounts \cup MayVanish \subseteq Paths \ {<<>>}
    /\ \A policy \in Policies :
          /\ policy.default \in Access
          /\ policy.network \in BOOLEAN
          /\ \A e \in policy.permissions : e.path \in Paths /\ e.access \in Access
          \* The root itself is never an overlay: a mount on "/" is not
          \* crossed by lookups that start there.
          /\ <<>> \notin denied_paths(policy)
          /\ policy.default = "ReadWrite" => <<>> \notin read_only_paths(policy)
    \* The directory for temporary files stays.
    /\ \A p \in MayVanish : ~IsUnder(p, TempDir)
    /\ StatusFd \in Nat \ {0, 1, 2}
    /\ InheritedFds \subseteq Nat \ {0, 1, 2, StatusFd}
    /\ SoftLimit \in Nat /\ StatusFd < SoftLimit
    /\ FdCap \in Nat

VARIABLES
    policy, cwd,  \* the request
    exists,       \* the paths that exist on the host
    parent,       \* where the calling thread stands
    child,        \* where the child stands
    todo,         \* mount_overlay_entries that are not mounted yet
    current,      \* the entry that is being mounted, {} or a singleton
    namespaces,   \* the namespaces the child has unshared
    admin,        \* may it, and the program after it, change its mounts?
    undone,       \* history: has the program changed them?
    private,      \* is the child's mount tree detached from the host's?
    hostMounted,  \* has a mount reached the host's own tree?
    view,         \* view[p]: what the child finds at the absolute path p
    cwdView,      \* cwdView[p]: what it finds walking to p from its cwd
    rules,        \* the Landlock rules, or NoRules
    seccomp,      \* is the network filter installed?
    fds,          \* the open descriptors of the child
    scratch,      \* what the child has left in temp_dir()
    report,       \* what came through the status pipe
    failedAt,     \* the place where the child gave up
    refused,      \* the calls that the kernel refused
    result        \* what execute returned, or "launched"

requestVars == <<policy, cwd>>
planVars    == <<todo, current>>
spaceVars   == <<namespaces, admin, undone, private, hostMounted, view, cwdView>>
ruleVars    == <<rules, seccomp>>
vars == <<requestVars, exists, parent, child, planVars, spaceVars, ruleVars,
          fds, scratch, report, failedAt, refused, result>>

NoRules == [read |-> {<<>>}, write |-> {<<>>}, installed |-> FALSE]
Stdio   == {0, 1, 2}
Running == child = "running"

-----------------------------------------------------------------------------
(* The plan: which overlays a policy needs.                                *)

paths_overlap(left, right) == IsUnder(right, left) \/ IsUnder(left, right)

collect_overlapping_denied_paths(pol) ==
    {denied \in denied_paths(pol) :
        \E allowed \in readable_paths(pol) : paths_overlap(denied, allowed)}

deny_entries(denied) == {[path |-> p, kind |-> "Deny"] : p \in denied}

\* Mutant: the read-only entries are inserted last.
collect_readwrite_read_only_wins(read_only, denied) ==
    deny_entries(denied \ read_only)
    \cup {[path |-> p, kind |-> "ReadOnly"] : p \in read_only}

\* A path listed both ways is merged into one deny entry.
collect_readwrite_overlay_entries(read_only, denied) ==
    deny_entries(denied)
    \cup {[path |-> p, kind |-> "ReadOnly"] : p \in read_only \ denied}

mount_overlay_entries(pol) ==
    IF default_write_access(pol)
      THEN collect_readwrite_overlay_entries(read_only_paths(pol), denied_paths(pol))
    ELSE IF default_read_access(pol)
      THEN deny_entries(denied_paths(pol))
    ELSE deny_entries(collect_overlapping_denied_paths(pol))

OverlayPaths(pol) == {entry.path : entry \in mount_overlay_entries(pol)}
UsesOverlays(pol) == mount_overlay_entries(pol) # {}

\* Mutant: the shallowest first.
BeforeShallow(left, right) ==
    \/ Len(left) < Len(right)
    \/ /\ Len(left) = Len(right)
       /\ \E i \in 1..Len(left) :
             left[i] < right[i] /\ \A j \in 1..(i - 1) : left[j] = right[j]

\* The order of the entries: the deepest first, then by name.
Before(left, right) ==
    \/ Len(left) > Len(right)
    \/ /\ Len(left) = Len(right)
       /\ \E i \in 1..Len(left) :
             left[i] < right[i] /\ \A j \in 1..(i - 1) : left[j] = right[j]

NextEntry(entries) ==
    {entry \in entries : \A other \in entries \ {entry} : Before(entry.path, other.path)}

\* What pre_exec does, in this order; each part only when the policy asks.
Needed(pol, part) ==
    CASE part = "overlays" -> UsesOverlays(pol)
      [] part = "landlock" -> ~default_write_access(pol)
      [] part = "seccomp"  -> ~pol.network
      [] part \in {"close", "exec"} -> TRUE

\* Mutants: no closing; closing first.
PreExecNoClose       == <<"overlays", "landlock", "seccomp", "exec">>
PreExecCloseFirst    == <<"close", "overlays", "landlock", "seccomp", "exec">>

PreExec == <<"overlays", "landlock", "seccomp", "close", "exec">>

\* The first part after the given one that the policy needs.
After(pol, part) ==
    LET start == IF part = "chdir" THEN 0
                 ELSE CHOOSE i \in 1..Len(PreExec) : PreExec[i] = part
        later == {i \in (start + 1)..Len(PreExec) : Needed(pol, PreExec[i])}
        next  == PreExec[CHOOSE i \in later : \A j \in later : i <= j]
    IN  IF next = "overlays" THEN "unshare" ELSE next

-----------------------------------------------------------------------------
(* The initial states: the caller is about to call execute.                *)

Init ==
    /\ policy \in Policies
    /\ cwd \in Cwds
    /\ exists = Paths
    /\ parent = "validate"
    /\ child = "none"
    /\ todo = {} /\ current = {}
    /\ namespaces = {} /\ admin = FALSE /\ undone = FALSE /\ private = FALSE /\ hostMounted = FALSE
    /\ view = [p \in Paths |-> "ReadWrite"]
    /\ cwdView = [p \in Paths |-> "ReadWrite"]
    /\ rules = NoRules /\ seccomp = FALSE
    /\ fds = {}
    /\ scratch = {}
    /\ report = "none"
    /\ failedAt = "none"
    /\ refused = {}
    /\ result = "none"

-----------------------------------------------------------------------------
(* The parent.                                                             *)

\* execute() of the manager: a missing cwd or allow path is refused before
\* anything is started.
Validate ==
    /\ parent = "validate"
    /\ IF cwd \in exists /\ validate_policy_allow_paths(policy, exists)
         THEN parent' = "plan" /\ UNCHANGED result
         ELSE parent' = "returned" /\ result' = "InvalidRequest"
    /\ UNCHANGED <<requestVars, exists, child, planVars, spaceVars, ruleVars,
                   fds, scratch, report, failedAt, refused>>

\* normalize_existing_overlay_paths: every overlay target exists by now.
Plan ==
    /\ parent = "plan"
    /\ IF OverlayPaths(policy) \subseteq exists
         THEN /\ parent' = "fork"
              /\ todo' = mount_overlay_entries(policy)
              /\ UNCHANGED result
         ELSE /\ parent' = "returned"
              /\ result' = "InvalidRequest"
              /\ UNCHANGED todo
    /\ UNCHANGED <<requestVars, exists, child, current, spaceVars, ruleVars,
                   fds, scratch, report, failedAt, refused>>

\* Mutant: the read end of the status pipe is inherited as well.
ForkBothEnds ==
    /\ parent = "fork"
    /\ parent' = "waiting"
    /\ child' = "chdir"
    /\ fds' = Stdio \cup {StatusFd, StatusFd + 2} \cup InheritedFds
    /\ UNCHANGED <<requestVars, exists, planVars, spaceVars, ruleVars, scratch,
                   report, failedAt, refused, result>>

\* group_spawn: the child inherits the caller's descriptors.
Fork ==
    /\ parent = "fork"
    /\ parent' = "waiting"
    /\ child' = "chdir"
    /\ fds' = Stdio \cup {StatusFd} \cup InheritedFds
    /\ UNCHANGED <<requestVars, exists, planVars, spaceVars, ruleVars, scratch,
                   report, failedAt, refused, result>>

\* is_overlay_namespace_unavailable_error on the errno that the status pipe
\* carries: the codes themselves, and the codes whose kind is
\* PermissionDenied or Unsupported.
UnavailableErrnos == {"EPERM", "EACCES", "EOPNOTSUPP", "ENOSYS", "EINVAL"}

ErrorOf(pol, errno) ==
    IF UsesOverlays(pol) /\ errno \in UnavailableErrnos THEN "Unavailable" ELSE "Io"

\* The parent waits for the status pipe: an errno is a failed spawn, its
\* closing is taken for a successful exec.
ReadStatus ==
    /\ parent = "waiting"
    /\ \/ /\ report # "none"
          /\ result' = ErrorOf(policy, report)
       \/ /\ report = "none"
          /\ StatusFd \notin fds
          /\ result' = "launched"
    /\ parent' = "returned"
    /\ UNCHANGED <<requestVars, exists, child, planVars, spaceVars, ruleVars,
                   fds, scratch, report, failedAt, refused>>

Parent == Validate \/ Plan \/ Fork \/ ReadStatus

-----------------------------------------------------------------------------
(* The child: how it fails.                                                *)

\* io::Error::new(kind, text) has no raw_os_error, and the child of
\* std::process reports EINVAL for it; io::Error::last_os_error() keeps its
\* code on the way to the parent.
Wrapped(errno) == "EINVAL"
Raw(errno)     == errno

\* The child writes its errno into the status pipe, if that is still open,
\* and exits.
Fail(errno) ==
    /\ child' = "failed"
    /\ failedAt' = child
    /\ report' = IF StatusFd \in fds THEN errno ELSE "none"
    /\ fds' = {}

\* The kernel refuses a call; most are named by the child's place.
RefuseCall(call) ==
    /\ call \in MayRefuse
    /\ refused' = refused \cup {call}

Refuse == RefuseCall(child)
Accept == UNCHANGED refused

\* The child's own namespace, and nothing else of the step, changes.
Unmoved == UNCHANGED <<requestVars, exists, parent, todo, undone, hostMounted,
                       rules, seccomp, result>>

FailWith(errno) ==
    /\ Fail(errno)
    /\ Unmoved
    /\ UNCHANGED <<current, namespaces, admin, private, view, cwdView, scratch>>

GoOn(next) ==
    /\ child' = next
    /\ UNCHANGED <<report, failedAt, fds>>

Step(next) == GoOn(next) /\ Accept

\* chdir(cwd) comes before the pre_exec closure, on the host's own mounts.
Chdir ==
    /\ child = "chdir"
    /\ IF cwd \in exists THEN Step(After(policy, "chdir")) /\ Unmoved
                              /\ UNCHANGED <<current, namespaces, admin, private,
                                             view, cwdView, scratch>>
                         ELSE FailWith(Raw("ENOENT")) /\ Accept

-----------------------------------------------------------------------------
(* The child: enter_overlay_mount_namespace.                               *)

Spaces(next) ==
    /\ Step(next)
    /\ Unmoved
    /\ UNCHANGED <<current, view, cwdView, scratch>>

\* unshare(CLONE_NEWUSER | CLONE_NEWNS), falling back to one at a time when
\* the answer is EPERM or EINVAL.
UnshareBoth ==
    /\ child = "unshare"
    /\ \/ /\ Spaces("map")
          /\ namespaces' = {"user", "mount"} /\ UNCHANGED <<admin, private>>
       \/ /\ Refuse
          /\ GoOn("userns")
          /\ Unmoved
          /\ UNCHANGED <<current, namespaces, admin, private, view, cwdView, scratch>>
       \/ Refuse /\ FailWith(Wrapped("ENOSPC"))

\* unshare(CLONE_NEWUSER): a refusal with EPERM or EINVAL is put up with, for
\* a caller that is privileged already.
UnshareUser ==
    /\ child = "userns"
    /\ \/ Spaces("map") /\ namespaces' = {"user"} /\ UNCHANGED <<admin, private>>
       \/ /\ Refuse
          /\ GoOn("mountns")
          /\ Unmoved
          /\ UNCHANGED <<current, namespaces, admin, private, view, cwdView, scratch>>
       \/ Refuse /\ FailWith(Wrapped("ENOSPC"))

\* configure_current_process_user_namespace_mapping: the child becomes root of
\* its own user namespace, and nothing takes that from the program.
MapUser ==
    /\ child = "map"
    /\ \/ /\ Spaces(IF "mount" \in namespaces THEN "private" ELSE "mountns")
          /\ admin' = TRUE
          /\ UNCHANGED <<namespaces, private>>
       \/ Refuse /\ FailWith(Wrapped("EPERM"))

\* Mutant: the second way into the namespace leaves the tree shared.
UnshareMountsShared ==
    /\ child = "mountns"
    /\ \/ /\ Spaces("scratch")
          /\ namespaces' = namespaces \cup {"mount"} /\ admin' = TRUE
          /\ UNCHANGED private
       \/ Refuse /\ FailWith(Wrapped("EPERM"))

\* unshare(CLONE_NEWNS), which takes CAP_SYS_ADMIN: without a user namespace
\* of its own, that of the caller.
UnshareMounts ==
    /\ child = "mountns"
    /\ \/ /\ Spaces("private")
          /\ namespaces' = namespaces \cup {"mount"} /\ admin' = TRUE
          /\ UNCHANGED private
       \/ Refuse /\ FailWith(Wrapped("EPERM"))

\* mark_mount_tree_private
MarkPrivate ==
    /\ child = "private"
    /\ \/ Spaces("scratch") /\ private' = TRUE /\ UNCHANGED <<namespaces, admin>>
       \/ Refuse /\ FailWith(Wrapped("EPERM"))

-----------------------------------------------------------------------------
(* The child: the overlay mounts.                                          *)

\* A path below a denied directory is not in the empty placeholder.
Visible(p) ==
    /\ p \in exists
    /\ \A q \in Paths : StrictlyUnder(q, p) => view[q] # "NoAccess"

TempWritable == Visible(TempDir) /\ view[TempDir] = "ReadWrite"

\* Where the child's walk to p crosses a mount at target: an absolute walk
\* always, a walk from the cwd only when the target is strictly below it,
\* because the cwd was entered before the mounts.
CrossedFromCwd(target, p) == StrictlyUnder(cwd, target) /\ IsUnder(target, p)

\* The placeholder hides everything at and below the target.
HideFrom(target) ==
    /\ view' = [p \in Paths |->
                  IF IsUnder(target, p) THEN "NoAccess" ELSE view[p]]
    /\ cwdView' = [p \in Paths |->
                  IF CrossedFromCwd(target, p) THEN "NoAccess" ELSE cwdView[p]]

\* MS_REMOUNT changes the one mount at the target; the host's mounts below
\* it were carried along by MS_REC | MS_BIND and stay as they are.
OnMountOf(target, p) ==
    /\ IsUnder(target, p)
    /\ \A m \in HostMounts : StrictlyUnder(target, m) => ~IsUnder(m, p)

MakeReadOnly(target) ==
    /\ view' = [p \in Paths |->
                  IF OnMountOf(target, p) THEN Weaker(view[p], "ReadOnly") ELSE view[p]]
    /\ cwdView' = [p \in Paths |->
                  IF OnMountOf(target, p) /\ CrossedFromCwd(target, p)
                    THEN Weaker(cwdView[p], "ReadOnly") ELSE cwdView[p]]

\* create_overlay_scratch_root
CreateScratch ==
    /\ child = "scratch"
    /\ UNCHANGED <<current, namespaces, admin, private, view, cwdView>>
    /\ Unmoved
    /\ \/ Step("target") /\ scratch' = {"root"}
       \/ /\ Refuse /\ UNCHANGED scratch
          /\ \E errno \in {"EACCES", "ENOSPC"} : Fail(Raw(errno))

\* fs::metadata of the target, and for a deny entry its placeholder in the
\* scratch directory.
PrepareTarget ==
    /\ child = "target"
    /\ UNCHANGED <<namespaces, admin, private, view, cwdView>>
    /\ Unmoved
    /\ \/ \E entry \in NextEntry(todo) :
             \/ /\ Visible(entry.path) /\ (entry.kind = "Deny" => TempWritable)
                /\ Step("bind")
                /\ current' = {entry}
                /\ scratch' = IF entry.kind = "Deny" THEN scratch \cup {"placeholder"} ELSE scratch
             \/ /\ ~Visible(entry.path)
                /\ Fail(Raw("ENOENT")) /\ Accept /\ UNCHANGED <<current, scratch>>
             \/ /\ Visible(entry.path) /\ entry.kind = "Deny" /\ ~TempWritable
                /\ Fail(Raw("EROFS")) /\ Accept /\ UNCHANGED <<current, scratch>>
       \/ /\ Refuse /\ Fail(Raw("ENOSPC")) /\ UNCHANGED current
          /\ scratch' \in {scratch, scratch \cup {"placeholder"}}

\* bind_mount.  The new mount of a private tree stays in it; a user
\* namespace of its own keeps the host's tree out of reach as well.
Bind ==
    /\ child = "bind"
    /\ UNCHANGED <<requestVars, exists, parent, current, namespaces, admin, undone,
                   private, ruleVars, scratch, result>>
    /\ \A entry \in current :
          \/ /\ entry.path \in exists /\ ~rules.installed
             /\ Step("remount")
             /\ todo' = todo \ {entry}
             /\ hostMounted' = (hostMounted \/ (~private /\ "user" \notin namespaces))
             /\ IF entry.kind = "Deny" THEN HideFrom(entry.path)
                                       ELSE UNCHANGED <<view, cwdView>>
          \/ /\ \/ entry.path \notin exists /\ Fail(Raw("ENOENT")) /\ Accept
                \/ rules.installed /\ Fail(Raw("EPERM")) /\ Accept
                \/ Refuse /\ \E errno \in {"EPERM", "ENOSPC"} : Fail(Raw(errno))
             /\ UNCHANGED <<todo, hostMounted, view, cwdView>>

\* Mutant: the placeholder stays in the scratch directory.
RemountKeepsPlaceholder ==
    /\ child = "remount"
    /\ Unmoved
    /\ UNCHANGED <<namespaces, admin, private, scratch>>
    /\ \A entry \in current :
          \/ /\ Step(IF todo = {} THEN "cleanup" ELSE "target")
             /\ current' = {}
             /\ IF entry.kind = "ReadOnly" THEN MakeReadOnly(entry.path)
                                           ELSE UNCHANGED <<view, cwdView>>
          \/ Refuse /\ Fail(Raw("EPERM")) /\ UNCHANGED <<current, view, cwdView>>

\* `let _ = fs::remove_dir(&placeholder)`; one that stays once is still there
\* after the next is removed.
RemovePlaceholder ==
    \/ /\ Accept
       /\ scratch' = IF TempWritable /\ "placeholder" \notin refused
                       THEN scratch \ {"placeholder"} ELSE scratch
    \/ RefuseCall("placeholder") /\ UNCHANGED scratch

\* remount_bind_readonly, and for a deny entry the removal of its placeholder.
Remount ==
    /\ child = "remount"
    /\ Unmoved
    /\ UNCHANGED <<namespaces, admin, private>>
    /\ \A entry \in current :
          \/ /\ GoOn(IF todo = {} THEN "cleanup" ELSE "target")
             /\ current' = {}
             /\ IF entry.kind = "Deny" THEN RemovePlaceholder
                                       ELSE Accept /\ UNCHANGED scratch
             /\ IF entry.kind = "ReadOnly" THEN MakeReadOnly(entry.path)
                                           ELSE UNCHANGED <<view, cwdView>>
          \/ /\ Refuse /\ Fail(Raw("EPERM"))
             /\ UNCHANGED <<current, view, cwdView, scratch>>

\* `let _ = fs::remove_dir(&scratch_root)`
RemoveScratch ==
    /\ child = "cleanup"
    /\ GoOn(After(policy, "overlays"))
    /\ Unmoved
    /\ \/ /\ Accept
          /\ scratch' = IF TempWritable /\ scratch = {"root"} THEN {} ELSE scratch
       \/ Refuse /\ UNCHANGED scratch
    /\ UNCHANGED <<current, namespaces, admin, private, view, cwdView>>

-----------------------------------------------------------------------------
(* The child: Landlock, seccomp, descriptors, exec.                        *)

Still == UNCHANGED <<requestVars, exists, parent, planVars, spaceVars, scratch,
                     result>>

\* path_beneath_rules leaves out a root that cannot be opened.
Openable(roots) == {root \in roots : Visible(root) /\ view[root] # "NoAccess"}

\* install_filesystem_landlock_rules_on_current_thread
InstallLandlock ==
    /\ child = "landlock"
    /\ Still
    /\ UNCHANGED seccomp
    /\ \/ /\ Step(After(policy, "landlock"))
          /\ rules' = [read  |-> IF default_read_access(policy) THEN {<<>>}
                                 ELSE Openable(readable_paths(policy)),
                       write |-> Openable(writable_paths(policy)),
                       installed |-> TRUE]
       \/ Refuse /\ Fail(Wrapped("EPERM")) /\ UNCHANGED rules

\* install_network_seccomp_filter_on_current_thread
InstallSeccomp ==
    /\ child = "seccomp"
    /\ Still
    /\ UNCHANGED rules
    /\ \/ Step(After(policy, "seccomp")) /\ seccomp' = TRUE
       \/ Refuse /\ Fail(Wrapped("EINVAL")) /\ UNCHANGED seccomp

\* close_non_stdio_fds_on_current_process.  /proc/self/fd may be out of reach
\* of the child, and then the range up to the soft limit is closed, or up to
\* the cap.  The status pipe goes with the others.
CloseFds ==
    /\ child = "close"
    /\ Still
    /\ UNCHANGED ruleVars
    /\ \/ /\ child' = After(policy, "close")
          /\ \E listed \in BOOLEAN :
                fds' = {fd \in fds : fd <= 2 \/ (~listed /\ (fd >= SoftLimit \/ fd >= FdCap))}
          /\ Accept /\ UNCHANGED <<report, failedAt>>
       \/ /\ Refuse
          /\ \/ Fail(Raw("EIO"))
             \/ /\ child' = "failed" /\ failedAt' = child /\ fds' = {}
                /\ UNCHANGED report

LandlockAccess(p) ==
    IF ~rules.installed \/ Covered(rules.write, p) THEN "ReadWrite"
    ELSE IF Covered(rules.read, p) THEN "ReadOnly" ELSE "NoAccess"

\* What the child can do with the path, named from the root or from its cwd.
Effective(p)        == Weaker(view[p], LandlockAccess(p))
EffectiveFromCwd(p) == Weaker(cwdView[p], LandlockAccess(p))

Exec ==
    /\ child = "exec"
    /\ Still
    /\ UNCHANGED ruleVars
    /\ \/ /\ Visible(Executable) /\ Effective(Executable) # "NoAccess"
          /\ child' = "running" /\ fds' = fds \ {StatusFd}
          /\ Accept /\ UNCHANGED <<report, failedAt>>
       \/ /\ ~(Visible(Executable) /\ Effective(Executable) # "NoAccess")
          /\ Fail(Raw("EACCES")) /\ Accept
       \/ Refuse /\ Fail(Raw("ENOEXEC"))

Child ==
    \/ Chdir
    \/ UnshareBoth \/ UnshareUser \/ MapUser \/ UnshareMounts \/ MarkPrivate
    \/ CreateScratch \/ PrepareTarget \/ Bind \/ Remount \/ RemoveScratch
    \/ InstallLandlock \/ InstallSeccomp \/ CloseFds \/ Exec

-----------------------------------------------------------------------------
(* Another process of the host removes an object, until the child runs.    *)
(* Objects at and above a mounted overlay are left alone: the backend's    *)
(* contract covers objects that exist.                                     *)

Mounted == IF child \in {"target", "bind", "remount", "cleanup", "landlock",
                         "seccomp", "close", "exec"}
             THEN OverlayPaths(policy) \ {entry.path : entry \in todo} ELSE {}

Vanish(p) ==
    /\ p \in MayVanish \cap exists
    /\ child \notin {"running", "failed"} /\ parent # "returned"
    /\ \A target \in Mounted : ~IsUnder(p, target)
    /\ exists' = {q \in exists : ~IsUnder(p, q)}
    /\ UNCHANGED <<requestVars, parent, child, planVars, spaceVars, ruleVars,
                   fds, scratch, report, failedAt, refused, result>>

\* The program itself may change the mounts of its namespace when it has the
\* capability: Landlock forbids that to whom it confines, the seccomp filter
\* does not.  The most that it can come to is what the host shows.
ChangeMounts ==
    /\ Running /\ admin /\ ~rules.installed /\ ~undone
    /\ undone' = TRUE
    /\ view' = [p \in Paths |-> "ReadWrite"]
    /\ cwdView' = [p \in Paths |-> "ReadWrite"]
    /\ UNCHANGED <<requestVars, exists, parent, child, planVars, namespaces, admin,
                   private, hostMounted, ruleVars, fds, scratch, report, failedAt,
                   refused, result>>

Next == Parent \/ Child \/ ChangeMounts \/ \E p \in MayVanish : Vanish(p)

Spec == Init /\ [][Next]_vars

-----------------------------------------------------------------------------
(* Properties.                                                             *)

ParentPlaces == {"validate", "plan", "fork", "waiting", "returned"}
OverlayPlaces == {"scratch", "target", "bind", "remount", "cleanup"}
NamespacePlaces == {"unshare", "userns", "map", "mountns", "private"}
ChildPlaces == {"none", "chdir", "landlock", "seccomp", "close", "exec",
                "running", "failed"} \cup NamespacePlaces \cup OverlayPlaces
Errnos == {"none", "ENOENT", "EPERM", "EACCES", "EINVAL", "ENOSPC", "EROFS",
           "EIO", "ENOEXEC"}

\* Type invariant.
TypeOK ==
    /\ policy \in Policies /\ cwd \in Cwds
    /\ exists \subseteq Paths
    /\ parent \in ParentPlaces
    /\ child \in ChildPlaces
    /\ todo \cup current \subseteq mount_overlay_entries(policy)
    /\ namespaces \subseteq {"user", "mount"}
    /\ admin \in BOOLEAN /\ undone \in BOOLEAN
    /\ private \in BOOLEAN /\ hostMounted \in BOOLEAN
    /\ view \in [Paths -> Access] /\ cwdView \in [Paths -> Access]
    /\ rules.read \cup rules.write \subseteq Paths /\ rules.installed \in BOOLEAN
    /\ seccomp \in BOOLEAN
    /\ fds \subseteq Stdio \cup {StatusFd} \cup InheritedFds
    /\ scratch \subseteq {"root", "placeholder"}
    /\ report \in Errnos
    /\ failedAt \in ChildPlaces
    /\ refused \subseteq MayRefuse
    /\ result \in {"none", "InvalidRequest", "Unavailable", "Io", "launched"}

\* A read-only overlay does not reach across a mount of the host below it.
UnderSubmount(p) ==
    \E entry \in mount_overlay_entries(policy) :
        entry.kind = "ReadOnly" /\ IsUnder(entry.path, p) /\ ~OnMountOf(entry.path, p)

\* What the policy grants, but for that gap.
Allowance(p) ==
    IF UnderSubmount(p) /\ Granted(policy, p) = "ReadOnly" THEN "ReadWrite"
    ELSE Granted(policy, p)

\* Walks from a cwd at or below an overlay have a property of their own.
OverlayAboveCwd == Covered(OverlayPaths(policy), cwd)

\* A running program can do no more with any path than its policy grants,
\* however the overlays nest and whatever vanished while they were mounted,
\* and it has no network unless the policy says so.  Under a default of ReadOnly
\* or NoAccess that holds for good.  Under ReadWrite it holds until the program
\* changes its mounts: it is root of its namespaces, and no Landlock keeps it
\* from undoing the overlays.
ProgramConfined ==
    Running =>
        /\ \/ undone /\ default_write_access(policy)
           \/ \A p \in Paths :
                 /\ AtMost(Effective(p), Allowance(p))
                 /\ ~OverlayAboveCwd /\ IsUnder(cwd, p) =>
                        AtMost(EffectiveFromCwd(p), Allowance(p))
        /\ policy.network \/ seccomp

\* Nor less: when nothing vanished, every grant of the policy is usable.  A
\* deeper overlay must not hide the objects of a later one, and Landlock must
\* not lose a root behind a mount.
GrantsUsable ==
    Running /\ exists = Paths =>
        \A p \in Paths : AtMost(Granted(policy, p), Effective(p))

\* No descriptor of the caller reaches the program, except one that lies
\* above a soft limit that was lowered after it was opened, or above the cap
\* of the range that is closed when /proc/self/fd is out of reach; and never
\* the status pipe, which the caller waits for.
NoInheritedFds ==
    Running => \A fd \in fds : fd \in Stdio \/ (fd # StatusFd /\ (fd >= SoftLimit \/ fd >= FdCap))

\* No mount of the child ever shows up in the host's own tree, on either of
\* the two ways into the namespace.
HostTreeUntouched == ~hostMounted

\* Neither a program that runs nor a child that has failed leaves anything in the
\* directory for temporary files, with three exceptions: an overlay covers it; a
\* removal fails, which nobody looks at; the child fails among the overlays, from
\* where no way leads to the removal.
ScratchRemoved ==
    child \in {"running", "failed"} /\ scratch # {} =>
        \/ Covered(OverlayPaths(policy), TempDir)
        \/ refused \cap {"placeholder", "cleanup"} # {}
        \/ failedAt \in OverlayPlaces

\* On a host that refuses nothing and removes nothing, the setup never fails
\* on its own doing, unless an overlay covers the directory for temporary files.
CapableHostLaunches ==
    child = "failed" /\ refused = {} /\ exists = Paths =>
        failedAt = "exec" \/ Covered(OverlayPaths(policy), TempDir)

\* Every failure before the descriptors are closed reaches the caller, and no
\* caller is told of a failure while the program runs.  README, section on the
\* Linux backend: a host that cannot create the namespaces is reported as
\* Unavailable, whatever errno it gave; and an object that vanished after the
\* checks is an Io error, never Unavailable.
FailureReported ==
    parent = "returned" =>
        /\ IF result = "launched" THEN Running \/ failedAt \in {"close", "exec"} \/ child = "exec"
                                  ELSE child \in {"none", "failed"}
        /\ failedAt \in NamespacePlaces => result = "Unavailable"
        /\ failedAt \in OverlayPlaces /\ refused = {} => result = "Io"
        /\ result = "Unavailable" => UsesOverlays(policy)

\* README.md:28: explicit path rules "are overlays on top of this default";
\* stated for every way a program that has left its mounts alone can name a
\* path.
RelativePathsConfined ==
    Running /\ ~undone => \A p \in Paths :
        IsUnder(cwd, p) => AtMost(EffectiveFromCwd(p), Granted(policy, p))
=============================================================================
