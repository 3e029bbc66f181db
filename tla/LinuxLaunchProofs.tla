-------------------------- MODULE LinuxLaunchProofs --------------------------
(***************************************************************************)
(* Theorems about LinuxLaunch: for any tree of paths, any policies and any *)
(* calls that the kernel refuses, a program that runs is confined to what  *)
(* its policy grants, and a failure is reported for what it is.            *)
(***************************************************************************)
EXTENDS LinuxLaunch, AccessPolicyProofs

USE LaunchAssumption

-----------------------------------------------------------------------------
(* Paths.                                                                  *)

LEMMA PathType == Paths \subseteq Seq(Nat) /\ \A p \in Paths : Len(p) \in Nat
  OBVIOUS

-----------------------------------------------------------------------------
(* The policy and its overlays.                                            *)

LEMMA PolicyType ==
    ASSUME NEW pol \in Policies
    PROVE  /\ pol.default \in Access /\ pol.network \in BOOLEAN
           /\ denied_paths(pol) \subseteq Paths /\ read_only_paths(pol) \subseteq Paths
           /\ read_write_paths(pol) \subseteq Paths /\ readable_paths(pol) \subseteq Paths
           /\ writable_paths(pol) = read_write_paths(pol)
           /\ readable_paths(pol) = read_only_paths(pol) \cup read_write_paths(pol)
  BY DEF denied_paths, read_only_paths, read_write_paths, readable_paths, writable_paths,
     collect_paths

Overlay == [path : Paths, kind : {"Deny", "ReadOnly"}]

\* The entries, and which paths they are for.
LEMMA EntriesAre ==
    ASSUME NEW pol \in Policies, NEW e \in mount_overlay_entries(pol)
    PROVE  /\ e \in Overlay
           /\ e.kind = "Deny" => e.path \in denied_paths(pol)
           /\ e.kind = "ReadOnly" => e.path \in read_only_paths(pol) /\ pol.default = "ReadWrite"
<1> USE PolicyType
<1>1. ASSUME NEW denied, NEW f \in deny_entries(denied)
      PROVE  f.kind = "Deny" /\ f.path \in denied /\ f = [path |-> f.path, kind |-> "Deny"]
  BY <1>1 DEF deny_entries
<1>2. ASSUME e \in deny_entries(denied_paths(pol))
      PROVE  e \in Overlay /\ e.kind = "Deny" /\ e.path \in denied_paths(pol)
  BY <1>1, <1>2 DEF Overlay
<1>3. CASE default_write_access(pol)
  <2>1. CASE e \in deny_entries(denied_paths(pol))
    BY <1>2, <2>1
  <2>2. CASE e \in {[path |-> p, kind |-> "ReadOnly"] :
                      p \in read_only_paths(pol) \ denied_paths(pol)}
    BY <1>3, <2>2 DEF Overlay, default_write_access
  <2> QED
    BY <1>3, <2>1, <2>2 DEF mount_overlay_entries, collect_readwrite_overlay_entries
<1>4. CASE ~default_write_access(pol)
  <2>1. e \in deny_entries(denied_paths(pol))
    BY <1>4 DEF mount_overlay_entries, collect_overlapping_denied_paths, deny_entries
  <2> QED
    BY <1>2, <2>1
<1> QED
  BY <1>3, <1>4

\* A denied path needs an entry unless no allowed path is near it.
LEMMA DeniedHasEntry ==
    ASSUME NEW pol \in Policies, NEW d \in denied_paths(pol),
           default_read_access(pol) \/ \E a \in readable_paths(pol) : paths_overlap(d, a)
    PROVE  [path |-> d, kind |-> "Deny"] \in mount_overlay_entries(pol)
<1>1. ASSUME NEW set, d \in set PROVE [path |-> d, kind |-> "Deny"] \in deny_entries(set)
  BY <1>1 DEF deny_entries
<1>2. default_write_access(pol) => default_read_access(pol)
  BY DEF default_write_access, default_read_access
<1>3. CASE default_write_access(pol)
  BY <1>1, <1>3 DEF mount_overlay_entries, collect_readwrite_overlay_entries
<1>4. CASE ~default_write_access(pol) /\ default_read_access(pol)
  BY <1>1, <1>4 DEF mount_overlay_entries
<1>5. CASE ~default_read_access(pol)
  <2>1. d \in collect_overlapping_denied_paths(pol)
    BY <1>5 DEF collect_overlapping_denied_paths
  <2> QED
    BY <1>1, <1>2, <1>5, <2>1 DEF mount_overlay_entries
<1> QED
  BY <1>3, <1>4, <1>5

LEMMA ReadOnlyHasEntry ==
    ASSUME NEW pol \in Policies, default_write_access(pol),
           NEW p \in read_only_paths(pol) \ denied_paths(pol)
    PROVE  [path |-> p, kind |-> "ReadOnly"] \in mount_overlay_entries(pol)
  BY DEF mount_overlay_entries, collect_readwrite_overlay_entries

-----------------------------------------------------------------------------
(* The order of pre_exec.                                                  *)

LEMMA Least ==
    ASSUME NEW set \in SUBSET Int, NEW m \in set, \A j \in set : m <= j
    PROVE  (CHOOSE i \in set : \A j \in set : i <= j) = m
<1> DEFINE i == CHOOSE i \in set : \A j \in set : i <= j
<1>1. i \in set /\ \A j \in set : i <= j
  OBVIOUS
<1> HIDE DEF i
<1>2. i <= m /\ m <= i /\ i \in Int /\ m \in Int
  BY <1>1
<1> QED
  BY <1>2 DEF i

LEMMA PreExecIs ==
    /\ Len(PreExec) = 5
    /\ PreExec[1] = "overlays" /\ PreExec[2] = "landlock" /\ PreExec[3] = "seccomp"
    /\ PreExec[4] = "close" /\ PreExec[5] = "exec"
  BY DEF PreExec

\* The parts are done in the order of PreExec, those that the policy needs.
LEMMA AfterIs ==
    ASSUME NEW pol \in Policies
    PROVE  /\ After(pol, "close") = "exec"
           /\ After(pol, "seccomp") = "close"
           /\ After(pol, "landlock") = IF pol.network THEN "close" ELSE "seccomp"
           /\ After(pol, "overlays") =
                 IF default_write_access(pol) THEN After(pol, "landlock") ELSE "landlock"
           /\ After(pol, "chdir") = IF UsesOverlays(pol) THEN "unshare" ELSE After(pol, "overlays")
<1> DEFINE later(n) == {i \in (n + 1)..Len(PreExec) : Needed(pol, PreExec[i])}
           first(n) == PreExec[CHOOSE i \in later(n) : \A j \in later(n) : i <= j]
<1> USE PreExecIs
<1>1. /\ Needed(pol, "close") /\ Needed(pol, "exec")
      /\ Needed(pol, "overlays") <=> UsesOverlays(pol)
      /\ Needed(pol, "landlock") <=> ~default_write_access(pol)
      /\ Needed(pol, "seccomp") <=> ~pol.network
  BY DEF Needed
<1>2. ASSUME NEW n \in 0..4, NEW m \in (n + 1)..5, Needed(pol, PreExec[m]),
             \A j \in (n + 1)..5 : j < m => ~Needed(pol, PreExec[j])
      PROVE  first(n) = PreExec[m]
  <2>1. later(n) \in SUBSET Int /\ m \in later(n) /\ \A j \in later(n) : m <= j
    BY <1>2
  <2> QED
    BY <2>1, Least
<1>3. \A i \in 1..5 : i = 1 \/ i = 2 \/ i = 3 \/ i = 4 \/ i = 5
  OBVIOUS
<1> HIDE DEF first
<1>4. first(4) = "exec" /\ first(3) = "close"
  <2>1. first(4) = PreExec[5]
    BY <1>1, <1>2
  <2>2. first(3) = PreExec[4]
    BY <1>1, <1>2
  <2> QED
    BY <2>1, <2>2
<1>5. first(2) = IF pol.network THEN "close" ELSE "seccomp"
  <2>1. CASE pol.network
    <3>1. \A j \in 3..5 : j < 4 => ~Needed(pol, PreExec[j])
      BY <1>1, <2>1
    <3>2. first(2) = PreExec[4]
      BY <1>1, <1>2, <3>1
    <3> QED
      BY <2>1, <3>2
  <2>2. CASE ~pol.network
    <3>1. first(2) = PreExec[3]
      BY <1>1, <1>2, <2>2
    <3> QED
      BY <2>2, <3>1
  <2> QED
    BY <2>1, <2>2
<1>6. first(1) = IF default_write_access(pol) THEN first(2) ELSE "landlock"
  BY <1>1, <1>2, <1>3, <1>5
<1>7. first(0) = IF UsesOverlays(pol) THEN "overlays" ELSE first(1)
  BY <1>1, <1>2, <1>3, <1>5, <1>6
<1>8. ASSUME NEW k \in 1..5
      PROVE  (CHOOSE i \in 1..Len(PreExec) : PreExec[i] = PreExec[k]) = k
  <2>1. ASSUME NEW i \in 1..5, PreExec[i] = PreExec[k] PROVE i = k
    BY <1>3, <2>1
  <2> QED
    BY <2>1
<1>9. ASSUME NEW k \in 1..5
      PROVE  After(pol, PreExec[k]) = IF first(k) = "overlays" THEN "unshare" ELSE first(k)
  <2>1. PreExec[k] # "chdir"
    BY <1>3
  <2>2. After(pol, PreExec[k]) =
           LET start == CHOOSE i \in 1..Len(PreExec) : PreExec[i] = PreExec[k]
           IN  IF first(start) = "overlays" THEN "unshare" ELSE first(start)
    BY <2>1 DEF After, first
  <2> QED
    BY <1>8, <2>2
<1>10. After(pol, "chdir") = IF first(0) = "overlays" THEN "unshare" ELSE first(0)
  BY DEF After, first
<1> QED
  BY <1>4, <1>5, <1>6, <1>7, <1>9, <1>10

-----------------------------------------------------------------------------
(* The invariant.                                                          *)

Entries == mount_overlay_entries(policy)

\* What an overlay does to both walks, once it is in place.
Hides(e) ==
    \A p \in Paths :
        /\ IsUnder(e.path, p) => view[p] = "NoAccess"
        /\ CrossedFromCwd(e.path, p) => cwdView[p] = "NoAccess"

Protects(e) ==
    \A p \in Paths :
        OnMountOf(e.path, p) =>
            /\ view[p] # "ReadWrite"
            /\ CrossedFromCwd(e.path, p) => cwdView[p] # "ReadWrite"

Applied(e) == (e.kind = "Deny" => Hides(e)) /\ (e.kind = "ReadOnly" => Protects(e))

AfterOverlays == {"landlock", "seccomp", "close", "exec", "running"}
BeforeMounts  == {"chdir", "scratch"} \cup NamespacePlaces

\* Where parent and child stand, and which entries are still to be mounted.
Places ==
    /\ parent \in {"validate", "plan", "fork"} => child = "none"
    /\ child = "none" => parent # "waiting" /\ current = {}
    /\ parent = "fork" => todo = Entries
    /\ child \in BeforeMounts => todo = Entries /\ current = {}
    /\ child \in NamespacePlaces \cup OverlayPlaces => UsesOverlays(policy)
    /\ child \in {"target", "cleanup"} \cup AfterOverlays => current = {}
    /\ child \in {"cleanup"} \cup AfterOverlays => todo = {}
    /\ child = "bind" => \E e \in todo : current = {e}
    /\ child = "remount" => \E e \in Entries \ todo : current = {e}
    /\ child \in OverlayPlaces => private
    /\ ~hostMounted

\* Every entry that is mounted is in force until the program undoes the
\* mounts, and nothing else is.
Overlays ==
    /\ child = "none" => \A p \in Paths : view[p] = "ReadWrite"
    /\ child # "none" /\ ~undone => \A e \in Entries \ (todo \cup current) : Applied(e)
    /\ child = "remount" => \A e \in current : e.kind = "Deny" => Hides(e)
    /\ \A p \in Paths : view[p] = "NoAccess" =>
           \E e \in Entries \ todo : e.kind = "Deny" /\ IsUnder(e.path, p)
    /\ \A p \in Paths : view[p] = "ReadOnly" =>
           \E e \in Entries \ todo : e.kind = "ReadOnly" /\ IsUnder(e.path, p)

\* Only a running program without Landlock has changed its mounts.
Undoing == undone => Running /\ ~rules.installed

\* The deepest entries are mounted first.
Order ==
    /\ child # "none" => \A e \in Entries \ todo, t \in todo : Len(e.path) >= Len(t.path)
    /\ child = "bind" => \A e \in current, t \in todo : Len(e.path) >= Len(t.path)

\* The status pipe is open until the descriptors are closed, and after that
\* only descriptors that the fallback does not reach.
Descriptors ==
    /\ child \in {"landlock", "seccomp", "close"} \cup BeforeMounts \cup OverlayPlaces =>
           StatusFd \in fds
    /\ child \in {"exec", "running"} =>
           \A fd \in fds : fd \in Stdio \/ fd >= SoftLimit \/ fd >= FdCap
    /\ Running => StatusFd \notin fds

\* The Landlock rules are those of the policy, and whole if nothing vanished.
Confinement ==
    /\ child \in {"none", "landlock"} \cup BeforeMounts \cup OverlayPlaces => ~rules.installed
    /\ child = "landlock" => ~default_write_access(policy)
    /\ child \in {"seccomp", "close", "exec", "running"} =>
           default_write_access(policy) \/ rules.installed
    /\ child \in {"close", "exec", "running"} => policy.network \/ seccomp
    /\ rules.installed =>
           /\ ~default_write_access(policy)
           /\ rules.write \subseteq writable_paths(policy)
           /\ ~default_read_access(policy) => rules.read \subseteq readable_paths(policy)
           /\ default_read_access(policy) => rules.read = {<<>>}
    /\ rules.installed /\ exists = Paths =>
           /\ \A r \in writable_paths(policy) : Covered(denied_paths(policy), r) \/ r \in rules.write
           /\ default_read_access(policy)
              \/ \A r \in readable_paths(policy) : Covered(denied_paths(policy), r) \/ r \in rules.read

\* What came through the status pipe, and what the parent made of it.
Reports ==
    /\ report # "none" => child = "failed"
    /\ failedAt = "none" <=> child # "failed"
    /\ failedAt \notin {"none", "close", "exec"} => report # "none"
    /\ failedAt \in NamespacePlaces => report = "EINVAL" /\ UsesOverlays(policy)
    /\ failedAt \in OverlayPlaces /\ refused = {} => report \in {"ENOENT", "EROFS"}
    /\ parent = "returned" =>
           \/ result = "InvalidRequest" /\ child = "none"
           \/ result = ErrorOf(policy, report) /\ report # "none"
           \/ result = "launched" /\ (child \in {"exec", "running"} \/ failedAt \in {"close", "exec"})

TempCovered == Covered(OverlayPaths(policy), TempDir)

\* Nothing is left of the last placeholder, or of the whole, unless a removal
\* could not be done.
PlaceholderGone == scratch \subseteq {"root"} \/ TempCovered \/ "placeholder" \in refused
Swept == scratch = {} \/ TempCovered \/ refused \cap {"placeholder", "cleanup"} # {}

\* The scratch directory, and what else can go wrong in it.
Scratch ==
    /\ TempDir \in exists
    /\ child \in {"none"} \cup BeforeMounts => scratch = {}
    /\ child \in {"target", "cleanup"} => PlaceholderGone
    /\ child \in {"bind", "remount"} => \A e \in current : e.kind = "Deny" \/ PlaceholderGone
    /\ child \in AfterOverlays => Swept
    /\ child = "failed" => Swept \/ failedAt \in OverlayPlaces
    /\ child = "failed" =>
           failedAt = "exec" \/ refused # {} \/ exists # Paths \/ TempCovered

LaunchInv ==
    /\ TypeOK /\ Places /\ Undoing /\ Overlays /\ Order
    /\ Descriptors /\ Confinement /\ Reports /\ Scratch

-----------------------------------------------------------------------------
(* The steps, one by one: what each of them changes.                       *)

\* The child gives up at its place, and leaves at most a placeholder behind.
GaveUp ==
    /\ child' = "failed" /\ failedAt' = child /\ fds' = {}
    /\ scratch' = scratch \/ (child = "target" /\ scratch' = scratch \cup {"placeholder"})
    /\ UNCHANGED <<requestVars, exists, parent, planVars, spaceVars, ruleVars, result>>

\* What the caller is told of it.
Told(errnos) == report' \in (IF StatusFd \in fds THEN errnos ELSE {"none"})

\* A step of the child that goes on.
Kept == UNCHANGED <<requestVars, exists, parent, report, failedAt, result>>

LEMMA ChdirIs ==
    ASSUME Chdir
    PROVE  /\ child = "chdir" /\ refused' = refused
           /\ \/ GaveUp /\ Told({"ENOENT"}) /\ cwd \notin exists
              \/ /\ Kept /\ child' = After(policy, "chdir")
                 /\ UNCHANGED <<planVars, spaceVars, ruleVars, fds, scratch>>
  BY DEF Chdir, FailWith, Fail, Raw, Step, GoOn, Accept, Unmoved, GaveUp, Told, Kept, planVars, spaceVars,
     ruleVars, requestVars

Setup == UnshareBoth \/ UnshareUser \/ MapUser \/ UnshareMounts \/ MarkPrivate

LEMMA SetupIs ==
    ASSUME Setup
    PROVE  /\ child \in NamespacePlaces /\ refused \subseteq refused'
           /\ \/ GaveUp /\ Told({"EINVAL"}) /\ refused' # {}
              \/ /\ Kept /\ child' \in NamespacePlaces \cup {"scratch"}
                 /\ child' = "scratch" => private' = TRUE
                 /\ private' \in {private, TRUE}
                 /\ namespaces' \in {namespaces, {"user"}, {"user", "mount"}, namespaces \cup {"mount"}}
                 /\ admin' \in {admin, TRUE}
                 /\ UNCHANGED <<planVars, undone, hostMounted, view, cwdView, ruleVars, fds, scratch>>
<1> USE DEF Spaces, Refuse, RefuseCall, GoOn, FailWith, Fail, Wrapped, Step, Accept, Unmoved, GaveUp, Told, Kept,
        planVars, spaceVars, ruleVars, requestVars, NamespacePlaces
<1>1. CASE UnshareBoth
  BY <1>1 DEF UnshareBoth
<1>2. CASE UnshareUser
  BY <1>2 DEF UnshareUser
<1>3. CASE MapUser
  BY <1>3 DEF MapUser
<1>4. CASE UnshareMounts
  BY <1>4 DEF UnshareMounts
<1>5. CASE MarkPrivate
  BY <1>5 DEF MarkPrivate
<1> QED
  BY <1>1, <1>2, <1>3, <1>4, <1>5 DEF Setup

LEMMA CreateScratchIs ==
    ASSUME CreateScratch
    PROVE  /\ child = "scratch" /\ refused \subseteq refused'
           /\ \/ GaveUp /\ Told({"EACCES", "ENOSPC"}) /\ refused' # {}
              \/ /\ Kept /\ child' = "target" /\ scratch' = {"root"} /\ refused' = refused
                 /\ UNCHANGED <<planVars, spaceVars, ruleVars, fds>>
  BY DEF CreateScratch, Refuse, RefuseCall, GoOn, Fail, Raw, Step, Accept, Unmoved, GaveUp, Told, Kept, planVars,
     spaceVars, ruleVars, requestVars

LEMMA PrepareTargetIs ==
    ASSUME PrepareTarget
    PROVE  /\ child = "target" /\ refused \subseteq refused'
           /\ \/ GaveUp /\ Told({"ENOSPC"}) /\ refused' # {}
              \/ \E e \in NextEntry(todo) :
                    \/ /\ GaveUp /\ Told({"ENOENT", "EROFS"})
                       /\ ~Visible(e.path) \/ ~TempWritable
                    \/ /\ Kept /\ child' = "bind" /\ current' = {e}
                       /\ scratch' \subseteq scratch \cup {"placeholder"}
                       /\ e.kind # "Deny" => scratch' = scratch
                       /\ UNCHANGED <<todo, spaceVars, ruleVars, fds, refused>>
  BY DEF PrepareTarget, Refuse, RefuseCall, GoOn, Fail, Raw, Step, Accept, Unmoved, GaveUp, Told, Kept, planVars,
     spaceVars, ruleVars, requestVars

LEMMA BindIs ==
    ASSUME Bind, NEW e, current = {e}
    PROVE  /\ child = "bind" /\ refused \subseteq refused'
           /\ \/ GaveUp /\ Told({"EPERM", "ENOSPC"}) /\ refused' # {}
              \/ GaveUp /\ Told({"ENOENT"}) /\ e.path \notin exists
              \/ GaveUp /\ rules.installed /\ Told({"EPERM"})
              \/ /\ Kept /\ child' = "remount" /\ todo' = todo \ {e}
                 /\ hostMounted' = (hostMounted \/ (~private /\ "user" \notin namespaces))
                 /\ IF e.kind = "Deny" THEN HideFrom(e.path) ELSE UNCHANGED <<view, cwdView>>
                 /\ UNCHANGED <<current, namespaces, admin, undone, private, ruleVars, fds, scratch,
                                refused>>
  BY DEF Bind, Refuse, RefuseCall, GoOn, Fail, Raw, Step, Accept, GaveUp, Told, Kept, planVars, spaceVars, ruleVars,
     requestVars

LEMMA RemountIs ==
    ASSUME Remount, NEW e, current = {e}
    PROVE  /\ child = "remount" /\ refused \subseteq refused'
           /\ \/ GaveUp /\ Told({"EPERM"}) /\ refused' # {}
              \/ /\ Kept /\ child' = (IF todo = {} THEN "cleanup" ELSE "target") /\ current' = {}
                 /\ scratch' \in {scratch, scratch \ {"placeholder"}}
                 /\ IF e.kind = "Deny"
                      THEN \/ scratch' = scratch \ {"placeholder"}
                           \/ ~TempWritable \/ "placeholder" \in refused'
                      ELSE scratch' = scratch
                 /\ IF e.kind = "ReadOnly" THEN MakeReadOnly(e.path) ELSE UNCHANGED <<view, cwdView>>
                 /\ UNCHANGED <<todo, namespaces, admin, undone, private, hostMounted, ruleVars, fds>>
  BY DEF Remount, RemovePlaceholder, Refuse, RefuseCall, GoOn, Fail, Raw, Accept, Unmoved, GaveUp, Told, Kept, planVars, spaceVars,
     ruleVars, requestVars

LEMMA RemoveScratchIs ==
    ASSUME RemoveScratch
    PROVE  /\ child = "cleanup" /\ Kept /\ child' = After(policy, "overlays")
           /\ refused \subseteq refused' /\ scratch' \in {scratch, {}}
           /\ TempWritable /\ scratch = {"root"} => scratch' = {} \/ "cleanup" \in refused'
           /\ UNCHANGED <<planVars, spaceVars, ruleVars, fds>>
  BY DEF RemoveScratch, Refuse, RefuseCall, GoOn, Accept, Unmoved, Kept, planVars, spaceVars, ruleVars, requestVars

LEMMA InstallLandlockIs ==
    ASSUME InstallLandlock
    PROVE  /\ child = "landlock" /\ refused \subseteq refused'
           /\ \/ GaveUp /\ Told({"EINVAL"}) /\ refused' # {}
              \/ /\ Kept /\ child' = After(policy, "landlock")
                 /\ rules' = [read  |-> IF default_read_access(policy) THEN {<<>>}
                                        ELSE Openable(readable_paths(policy)),
                              write |-> Openable(writable_paths(policy)),
                              installed |-> TRUE]
                 /\ UNCHANGED <<planVars, spaceVars, seccomp, fds, scratch, refused>>
  BY DEF InstallLandlock, Still, Refuse, RefuseCall, GoOn, Fail, Wrapped, Step, Accept, GaveUp, Told, Kept, planVars,
     spaceVars, ruleVars, requestVars

LEMMA InstallSeccompIs ==
    ASSUME InstallSeccomp
    PROVE  /\ child = "seccomp" /\ refused \subseteq refused'
           /\ \/ GaveUp /\ Told({"EINVAL"}) /\ refused' # {}
              \/ /\ Kept /\ child' = After(policy, "seccomp") /\ seccomp' = TRUE
                 /\ UNCHANGED <<planVars, spaceVars, rules, fds, scratch, refused>>
  BY DEF InstallSeccomp, Still, Refuse, RefuseCall, GoOn, Fail, Wrapped, Step, Accept, GaveUp, Told, Kept, planVars,
     spaceVars, ruleVars, requestVars

LEMMA CloseFdsIs ==
    ASSUME CloseFds
    PROVE  /\ child = "close" /\ refused \subseteq refused'
           /\ \/ GaveUp /\ (Told({"EIO"}) \/ report' = report) /\ refused' # {}
              \/ /\ Kept /\ child' = After(policy, "close") /\ fds' \subseteq fds
                 /\ \A fd \in fds' : fd <= 2 \/ fd >= SoftLimit \/ fd >= FdCap
                 /\ UNCHANGED <<planVars, spaceVars, ruleVars, scratch, refused>>
  BY DEF CloseFds, Still, Refuse, RefuseCall, Fail, Raw, Accept, GaveUp, Told, Kept, planVars, spaceVars,
     ruleVars, requestVars

LEMMA ExecIs ==
    ASSUME Exec
    PROVE  /\ child = "exec" /\ refused \subseteq refused'
           /\ \/ GaveUp /\ Told({"EACCES", "ENOEXEC"})
              \/ /\ Kept /\ child' = "running" /\ fds' = fds \ {StatusFd}
                 /\ UNCHANGED <<planVars, spaceVars, ruleVars, scratch, refused>>
  BY DEF Exec, Still, Refuse, RefuseCall, Fail, Raw, Accept, GaveUp, Told, Kept, planVars, spaceVars,
     ruleVars, requestVars

\* The parent's steps leave the child alone, except that it starts it.
LEMMA ParentIs ==
    ASSUME Parent
    PROVE  /\ UNCHANGED <<requestVars, exists, current, spaceVars, ruleVars, scratch, report,
                          failedAt, refused>>
           /\ \/ parent = "validate" /\ parent' \in {"plan", "returned"} /\ UNCHANGED <<child, todo, fds>>
              \/ /\ parent = "plan" /\ UNCHANGED <<child, fds>>
                 /\ \/ parent' = "fork" /\ todo' = Entries
                    \/ parent' = "returned" /\ todo' = todo
              \/ /\ parent = "fork" /\ parent' = "waiting" /\ child' = "chdir" /\ todo' = todo
                 /\ fds' = Stdio \cup {StatusFd} \cup InheritedFds /\ result' = result
              \/ /\ parent = "waiting" /\ parent' = "returned" /\ UNCHANGED <<child, todo, fds>>
                 /\ \/ report # "none" /\ result' = ErrorOf(policy, report)
                    \/ report = "none" /\ StatusFd \notin fds /\ result' = "launched"
           /\ parent \in {"validate", "plan"} => result' \in {result, "InvalidRequest"}
           /\ parent \in {"validate", "plan"} /\ parent' = "returned" => result' = "InvalidRequest"
<1> USE DEF planVars, spaceVars, ruleVars, requestVars
<1>1. CASE Validate
  BY <1>1 DEF Validate
<1>2. CASE Plan
  BY <1>2 DEF Plan, Entries
<1>3. CASE Fork
  BY <1>3 DEF Fork
<1>4. CASE ReadStatus
  BY <1>4 DEF ReadStatus
<1> QED
  BY <1>1, <1>2, <1>3, <1>4 DEF Parent

LEMMA VanishIs ==
    ASSUME \E p \in MayVanish : Vanish(p)
    PROVE  /\ UNCHANGED <<requestVars, parent, child, planVars, spaceVars, ruleVars, fds, scratch,
                          report, failedAt, refused, result>>
           /\ exists' \subseteq exists /\ (TempDir \in exists => TempDir \in exists')
           /\ child # "failed"
<1>1. PICK p \in MayVanish : Vanish(p)
  OBVIOUS
<1>2. ~IsUnder(p, TempDir)
  OBVIOUS
<1> QED
  BY <1>1, <1>2 DEF Vanish

\* The ways of a step.
LEMMA NextIs ==
    [Next]_vars <=>
        \/ UNCHANGED vars \/ Parent \/ ChangeMounts \/ \E p \in MayVanish : Vanish(p)
        \/ Chdir \/ Setup \/ CreateScratch \/ PrepareTarget \/ Bind \/ Remount \/ RemoveScratch
        \/ InstallLandlock \/ InstallSeccomp \/ CloseFds \/ Exec
  BY DEF Next, Child, Setup

-----------------------------------------------------------------------------
(* Types.                                                                  *)

Moves == {"chdir", "landlock", "seccomp", "close", "exec"} \cup NamespacePlaces \cup OverlayPlaces

LEMMA AfterType ==
    ASSUME policy \in Policies
    PROVE  /\ After(policy, "chdir") \in {"unshare", "landlock", "seccomp", "close"}
           /\ After(policy, "overlays") \in {"landlock", "seccomp", "close"}
           /\ After(policy, "landlock") \in {"seccomp", "close"}
           /\ After(policy, "seccomp") = "close" /\ After(policy, "close") = "exec"
  BY AfterIs

\* What a refusal leaves behind is well formed.
LEMMA RefusedType ==
    ASSUME Places, [Next]_vars, refused \subseteq MayRefuse
    PROVE  refused' \subseteq MayRefuse
<1> USE DEF Refuse, RefuseCall, Accept, Step
<1>1. CASE UNCHANGED vars \/ Parent \/ ChangeMounts \/ \E p \in MayVanish : Vanish(p)
  BY <1>1, ParentIs, VanishIs DEF ChangeMounts, vars
<1>2. CASE Chdir
  BY <1>2 DEF Chdir
<1>3. CASE Setup
  BY <1>3 DEF Setup, UnshareBoth, UnshareUser, MapUser, UnshareMounts, MarkPrivate, Spaces
<1>4. CASE CreateScratch
  BY <1>4 DEF CreateScratch
<1>5. CASE PrepareTarget
  BY <1>5 DEF PrepareTarget
<1>6. CASE RemoveScratch \/ InstallLandlock \/ InstallSeccomp
  BY <1>6 DEF RemoveScratch, InstallLandlock, InstallSeccomp
<1>7. CASE CloseFds \/ Exec
  BY <1>7 DEF CloseFds, Exec
<1>8. CASE Bind \/ Remount
  <2>1. PICK e : current = {e}
    BY <1>8 DEF Bind, Remount, Places
  <2> QED
    BY <1>8, <2>1 DEF Bind, Remount, RemovePlaceholder
<1> QED
  BY <1>1, <1>2, <1>3, <1>4, <1>5, <1>6, <1>7, <1>8, NextIs

LEMMA GaveUpType ==
    ASSUME TypeOK, Places, GaveUp, Told(Errnos) \/ report' = report, child \in Moves,
           refused' \subseteq MayRefuse
    PROVE  TypeOK'
<1>1. report' \in Errnos
  BY DEF TypeOK, Told, Errnos
<1>2. UNCHANGED <<policy, cwd, exists, parent, todo, current, namespaces, admin, undone, private,
                  hostMounted, view, cwdView, rules, seccomp, result>>
      /\ fds' = {} /\ child' = "failed" /\ failedAt' = child
      /\ scratch' \in {scratch, scratch \cup {"placeholder"}}
  BY DEF GaveUp, requestVars, planVars, spaceVars, ruleVars
<1> QED
  BY <1>1, <1>2 DEF TypeOK, ChildPlaces, Moves

LEMMA WeakerType == ASSUME NEW a \in Access PROVE Weaker(a, "ReadOnly") \in Access
  BY DEF Weaker, Access

LEMMA TypeStep == TypeOK /\ Places /\ [Next]_vars => TypeOK'
<1> SUFFICES ASSUME TypeOK, Places, [Next]_vars PROVE TypeOK'
  OBVIOUS
<1>0. refused' \subseteq MayRefuse
  BY RefusedType DEF TypeOK
<1>a. policy \in Policies
  BY DEF TypeOK
<1>b. Moves \cup {"running"} \subseteq ChildPlaces
  BY DEF Moves, ChildPlaces
<1> USE DEF requestVars, planVars, spaceVars, ruleVars, Kept
<1>1. CASE UNCHANGED vars
  BY <1>1 DEF vars, TypeOK
<1>2. CASE Parent
  <2>1. UNCHANGED <<requestVars, exists, current, spaceVars, ruleVars, scratch, report, failedAt,
                    refused>>
    BY <1>2, ParentIs
  <2>2. todo' \cup current \subseteq mount_overlay_entries(policy)
    BY <1>2, ParentIs DEF TypeOK, Entries
  <2>3. parent' \in ParentPlaces /\ child' \in {child, "chdir"}
    BY <1>2, ParentIs DEF TypeOK, ParentPlaces
  <2>4. fds' \subseteq Stdio \cup {StatusFd} \cup InheritedFds
    BY <1>2, ParentIs DEF TypeOK
  <2>5. result' \in {result, "InvalidRequest", "Unavailable", "Io", "launched"}
    BY <1>2, ParentIs DEF ErrorOf
  <2> QED
    BY <2>1, <2>2, <2>3, <2>4, <2>5 DEF TypeOK, ChildPlaces
<1>3. CASE \E p \in MayVanish : Vanish(p)
  BY <1>3, VanishIs DEF TypeOK
<1>4. CASE GaveUp /\ (Told(Errnos) \/ report' = report) /\ child \in Moves
  BY <1>0, <1>4, GaveUpType
<1> DEFINE Held == /\ child \in Moves /\ Kept
                   /\ child' \in Moves \cup {"running"} /\ fds' \subseteq fds
<1>5. ASSUME Held, UNCHANGED <<planVars, spaceVars, ruleVars, scratch>> PROVE TypeOK'
  BY <1>0, <1>b, <1>5 DEF TypeOK
<1>6. CASE Chdir
  BY <1>4, <1>5, <1>6, <1>a, ChdirIs, AfterType DEF Moves, NamespacePlaces, Told, Errnos
<1>7. CASE Setup
  <2>1. CASE GaveUp
    BY <1>4, <1>7, <2>1, SetupIs DEF Moves, Told, Errnos
  <2>2. CASE ~GaveUp
    <3>1. /\ Kept /\ child' \in NamespacePlaces \cup {"scratch"} /\ private' \in {private, TRUE}
          /\ namespaces' \in {namespaces, {"user"}, {"user", "mount"}, namespaces \cup {"mount"}}
          /\ admin' \in {admin, TRUE}
          /\ UNCHANGED <<planVars, undone, hostMounted, view, cwdView, ruleVars, fds, scratch>>
      BY <1>7, <2>2, SetupIs
    <3>2. /\ child' \in ChildPlaces /\ private' \in BOOLEAN /\ namespaces' \subseteq {"user", "mount"}
          /\ admin' \in BOOLEAN
      BY <3>1 DEF TypeOK, ChildPlaces, OverlayPlaces
    <3> QED
      BY <1>0, <3>1, <3>2 DEF TypeOK
  <2> QED
    BY <2>1, <2>2
<1>8. CASE CreateScratch
  <2>1. CASE GaveUp
    BY <1>4, <1>8, <2>1, CreateScratchIs DEF Moves, OverlayPlaces, Told, Errnos
  <2>2. CASE ~GaveUp
    BY <1>0, <1>8, <2>2, CreateScratchIs DEF TypeOK, ChildPlaces, OverlayPlaces
  <2> QED
    BY <2>1, <2>2
<1>9. CASE PrepareTarget
  <2>1. CASE GaveUp
    <3>1. child \in Moves /\ Told(Errnos)
      BY <1>9, <2>1, PrepareTargetIs DEF Moves, OverlayPlaces, Told, Errnos, Kept, GaveUp
    <3> QED
      BY <1>4, <2>1, <3>1
  <2>2. CASE ~GaveUp
    <3>1. PICK e \in NextEntry(todo) :
             /\ Kept /\ child' = "bind" /\ current' = {e} /\ scratch' \subseteq scratch \cup {"placeholder"}
             /\ UNCHANGED <<todo, spaceVars, ruleVars, fds, refused>>
      BY <1>9, <2>2, PrepareTargetIs
    <3>2. e \in todo /\ child' \in ChildPlaces
      BY <3>1 DEF NextEntry, ChildPlaces, OverlayPlaces
    <3> QED
      BY <1>0, <3>1, <3>2 DEF TypeOK
  <2> QED
    BY <2>1, <2>2
<1>c. view \in [Paths -> Access] /\ cwdView \in [Paths -> Access]
  BY DEF TypeOK
<1>10. CASE Bind
  <2>1. PICK e \in todo : current = {e}
    BY <1>10 DEF Bind, Places
  <2>2. CASE GaveUp
    <3>1. child \in Moves /\ Told(Errnos)
      BY <1>10, <2>1, <2>2, BindIs DEF Moves, OverlayPlaces, Told, Errnos, GaveUp
    <3> QED
      BY <1>4, <2>2, <3>1
  <2>3. CASE ~GaveUp
    <3>1. /\ Kept /\ child' = "remount" /\ todo' = todo \ {e}
          /\ UNCHANGED <<current, namespaces, admin, undone, private, ruleVars, fds, scratch>>
      BY <1>10, <2>1, <2>3, BindIs
    <3>2. hostMounted' \in BOOLEAN
      BY <1>10, <2>1, <2>3, BindIs DEF TypeOK
    <3>3. view' \in [Paths -> Access] /\ cwdView' \in [Paths -> Access]
      <4>1. UNCHANGED <<view, cwdView>> \/ HideFrom(e.path)
        BY <1>10, <2>1, <2>3, BindIs
      <4> QED
        BY <1>c, <4>1 DEF HideFrom, Access
    <3> QED
      BY <1>0, <3>1, <3>2, <3>3 DEF TypeOK, ChildPlaces, OverlayPlaces
  <2> QED
    BY <2>2, <2>3
<1>11. CASE Remount
  <2>1. PICK e \in Entries : current = {e}
    BY <1>11 DEF Remount, Places
  <2>2. CASE GaveUp
    BY <1>4, <1>11, <2>1, <2>2, RemountIs DEF Moves, OverlayPlaces, Told, Errnos
  <2>3. CASE ~GaveUp
    <3>1. /\ Kept /\ child' \in {"cleanup", "target"} /\ current' = {} /\ scratch' \subseteq scratch
          /\ UNCHANGED <<todo, namespaces, admin, undone, private, hostMounted, ruleVars, fds>>
      BY <1>11, <2>1, <2>3, RemountIs
    <3>3. view' \in [Paths -> Access] /\ cwdView' \in [Paths -> Access]
      <4>1. UNCHANGED <<view, cwdView>> \/ MakeReadOnly(e.path)
        BY <1>11, <2>1, <2>3, RemountIs
      <4>2. \A p \in Paths : /\ Weaker(view[p], "ReadOnly") \in Access
                             /\ Weaker(cwdView[p], "ReadOnly") \in Access
        BY <1>c, WeakerType
      <4>3. CASE MakeReadOnly(e.path)
        <5>1. view' \in [Paths -> Access]
          BY <1>c, <4>2, <4>3 DEF MakeReadOnly
        <5>2. cwdView' \in [Paths -> Access]
          BY <1>c, <4>2, <4>3 DEF MakeReadOnly
        <5> QED
          BY <5>1, <5>2
      <4> QED
        BY <1>c, <4>1, <4>3
    <3> QED
      BY <1>0, <3>1, <3>3 DEF TypeOK, ChildPlaces, OverlayPlaces
  <2> QED
    BY <2>2, <2>3
<1>12. CASE RemoveScratch
  <2>1. child' \in ChildPlaces /\ scratch' \subseteq scratch
    BY <1>12, <1>a, RemoveScratchIs, AfterType DEF ChildPlaces
  <2> QED
    BY <1>0, <1>12, <2>1, RemoveScratchIs DEF TypeOK
<1>13. CASE InstallLandlock
  <2>1. CASE GaveUp
    BY <1>4, <1>13, <2>1, InstallLandlockIs DEF Moves, Told, Errnos
  <2>2. CASE ~GaveUp
    <3>1. /\ Kept /\ child' = After(policy, "landlock")
          /\ UNCHANGED <<planVars, spaceVars, seccomp, fds, scratch, refused>>
      BY <1>13, <2>2, InstallLandlockIs
    <3>2. child' \in ChildPlaces
      BY <1>a, <3>1, AfterType DEF ChildPlaces
    <3>3. rules'.read \cup rules'.write \subseteq Paths /\ rules'.installed \in BOOLEAN
      <4>1. \A roots : Openable(roots) \subseteq roots
        BY DEF Openable
      <4>2. readable_paths(policy) \subseteq Paths /\ writable_paths(policy) \subseteq Paths
        BY <1>a, PolicyType
      <4>3. rules' = [read  |-> IF default_read_access(policy) THEN {<<>>}
                                ELSE Openable(readable_paths(policy)),
                      write |-> Openable(writable_paths(policy)),
                      installed |-> TRUE]
        BY <1>13, <2>2, InstallLandlockIs
      <4>4. rules'.read \subseteq Paths
        BY <4>1, <4>2, <4>3
      <4>5. rules'.write \subseteq Paths /\ rules'.installed = TRUE
        BY <4>1, <4>2, <4>3
      <4> QED
        BY <4>4, <4>5
    <3> QED
      BY <1>0, <3>1, <3>2, <3>3 DEF TypeOK
  <2> QED
    BY <2>1, <2>2
<1>14. CASE InstallSeccomp
  <2>1. CASE GaveUp
    BY <1>4, <1>14, <2>1, InstallSeccompIs DEF Moves, Told, Errnos
  <2>2. CASE ~GaveUp
    BY <1>0, <1>14, <1>a, <2>2, InstallSeccompIs, AfterType DEF TypeOK, ChildPlaces
  <2> QED
    BY <2>1, <2>2
<1>15. CASE CloseFds
  BY <1>4, <1>5, <1>15, <1>a, CloseFdsIs, AfterType DEF Moves, Told, Errnos
<1>16. CASE Exec
  BY <1>4, <1>5, <1>16, ExecIs DEF Moves, Told, Errnos
<1>17. CASE ChangeMounts
  <2>1. undone' \in BOOLEAN /\ view' \in [Paths -> Access] /\ cwdView' \in [Paths -> Access]
    BY <1>17 DEF ChangeMounts, Access
  <2> QED
    BY <1>17, <2>1 DEF ChangeMounts, TypeOK
<1> QED
  BY <1>1, <1>2, <1>3, <1>6, <1>7, <1>8, <1>9, <1>10, <1>11, <1>12, <1>13, <1>14, <1>15, <1>16,
     <1>17, NextIs

-----------------------------------------------------------------------------
(* Places.                                                                 *)

\* A child that gives up stands where it may.
LEMMA GaveUpPlaces ==
    ASSUME TypeOK, Places, GaveUp, child # "none"
    PROVE  Places'
<1>1. UNCHANGED <<policy, parent, todo, current, private, hostMounted>> /\ child' = "failed"
  BY DEF GaveUp, requestVars, planVars, spaceVars
<1> QED
  BY <1>1 DEF Places, BeforeMounts, NamespacePlaces, OverlayPlaces, AfterOverlays

LEMMA PlacesStep == TypeOK /\ Places /\ [Next]_vars => Places'
<1> SUFFICES ASSUME TypeOK, Places, [Next]_vars PROVE Places'
  OBVIOUS
<1>a. policy \in Policies
  BY DEF TypeOK
<1>b. (\E e : e \in Entries) <=> UsesOverlays(policy)
  BY DEF Entries, UsesOverlays
<1> USE DEF requestVars, planVars, spaceVars, Kept, BeforeMounts, NamespacePlaces, OverlayPlaces,
        AfterOverlays
<1>1. CASE UNCHANGED vars \/ ChangeMounts \/ \E p \in MayVanish : Vanish(p)
  <2>1. UNCHANGED <<policy, parent, child, todo, current, private, hostMounted>>
    BY <1>1, VanishIs DEF ChangeMounts, vars
  <2> QED
    BY <2>1 DEF Places, Entries
<1>2. CASE Parent
  <2>1. UNCHANGED <<policy, current, private, hostMounted>> /\ Entries' = Entries
    BY <1>2, ParentIs DEF Entries
  <2>2. CASE parent \in {"validate", "plan"}
    BY <1>2, <2>1, <2>2, ParentIs DEF Places
  <2>3. CASE parent = "fork"
    BY <1>2, <2>1, <2>3, ParentIs DEF Places
  <2>4. CASE parent = "waiting"
    BY <1>2, <2>1, <2>4, ParentIs DEF Places
  <2> QED
    BY <1>2, <2>2, <2>3, <2>4, ParentIs
<1>3. CASE GaveUp /\ child # "none"
  BY <1>3, GaveUpPlaces
<1>4. CASE Chdir
  BY <1>3, <1>4, <1>a, <1>b, ChdirIs, AfterIs DEF Places, Entries
<1>5. CASE Setup
  <2>1. CASE ~GaveUp
    <3>1. /\ Kept /\ child' \in NamespacePlaces \cup {"scratch"} /\ UNCHANGED <<planVars, hostMounted>>
          /\ child' = "scratch" => private' = TRUE
      BY <1>5, <2>1, SetupIs
    <3>2. child \in NamespacePlaces
      BY <1>5, SetupIs
    <3> QED
      BY <3>1, <3>2 DEF Places, Entries
  <2> QED
    BY <1>3, <1>5, <2>1, SetupIs
<1>6. CASE CreateScratch
  <2>1. CASE ~GaveUp
    <3>1. /\ child = "scratch" /\ child' = "target"
          /\ UNCHANGED <<policy, parent, todo, current, private, hostMounted>>
      BY <1>6, <2>1, CreateScratchIs
    <3> QED
      BY <3>1 DEF Places, Entries
  <2> QED
    BY <1>3, <1>6, <2>1, CreateScratchIs
<1>7. CASE PrepareTarget
  <2>1. CASE ~GaveUp
    <3>1. PICK e \in NextEntry(todo) :
             /\ Kept /\ child' = "bind" /\ current' = {e} /\ UNCHANGED <<todo, spaceVars>>
      BY <1>7, <2>1, PrepareTargetIs
    <3>2. e \in todo
      BY DEF NextEntry
    <3> QED
      BY <1>7, <3>1, <3>2, PrepareTargetIs DEF Places, Entries
  <2> QED
    BY <1>3, <1>7, <2>1, PrepareTargetIs
<1>8. CASE Bind
  <2>1. PICK e \in todo : current = {e}
    BY <1>8 DEF Bind, Places
  <2>2. e \in Entries
    BY DEF TypeOK, Entries
  <2>3. CASE ~GaveUp
    BY <1>8, <2>1, <2>2, <2>3, BindIs DEF Places, Entries
  <2> QED
    BY <1>3, <1>8, <2>1, <2>3, BindIs
<1>9. CASE Remount
  <2>1. PICK e \in Entries : current = {e}
    BY <1>9 DEF Remount, Places
  <2> QED
    BY <1>3, <1>9, <2>1, RemountIs DEF Places, Entries
<1>10. CASE RemoveScratch
  <2>1. /\ child = "cleanup" /\ child' \in {"landlock", "seccomp", "close"}
        /\ UNCHANGED <<policy, parent, todo, current, private, hostMounted>>
    BY <1>10, <1>a, RemoveScratchIs, AfterType
  <2> QED
    BY <2>1 DEF Places, Entries
<1>11. CASE InstallLandlock
  BY <1>3, <1>11, <1>a, InstallLandlockIs, AfterIs DEF Places, Entries
<1>12. CASE InstallSeccomp
  <2>1. CASE ~GaveUp
    <3>1. /\ child = "seccomp" /\ child' = "close"
          /\ UNCHANGED <<policy, parent, todo, current, private, hostMounted>>
      BY <1>12, <1>a, <2>1, InstallSeccompIs, AfterIs
    <3> QED
      BY <3>1 DEF Places, Entries
  <2> QED
    BY <1>3, <1>12, <2>1, InstallSeccompIs
<1>13. CASE CloseFds
  BY <1>3, <1>13, <1>a, CloseFdsIs, AfterIs DEF Places, Entries
<1>14. CASE Exec
  BY <1>3, <1>14, ExecIs DEF Places, Entries
<1> QED
  BY <1>1, <1>2, <1>4, <1>5, <1>6, <1>7, <1>8, <1>9, <1>10, <1>11, <1>12, <1>13, <1>14, NextIs

-----------------------------------------------------------------------------
(* The overlays.                                                           *)

\* Nothing is mounted, and no entry leaves the plan.
LEMMA OverlaysKept ==
    ASSUME Overlays, child # "none", child' \notin {"none", "remount"},
           UNCHANGED <<policy, cwd, undone, view, cwdView, todo>>,
           current \subseteq todo \cup current'
    PROVE  Overlays'
<1>1. Entries' = Entries /\ Entries \ (todo \cup current') \subseteq Entries \ (todo \cup current)
  BY DEF Entries
<1>2. \A e : Applied(e)' <=> Applied(e)
  BY DEF Applied, Hides, Protects, CrossedFromCwd
<1> QED
  BY <1>1, <1>2 DEF Overlays

LEMMA BindOverlays ==
    ASSUME TypeOK, Places, Overlays, Bind, ~GaveUp
    PROVE  Overlays'
<1>1. PICK e \in todo : current = {e}
  BY DEF Bind, Places
<1>2. /\ child' = "remount" /\ todo' = todo \ {e} /\ UNCHANGED <<policy, cwd, current, undone>>
      /\ IF e.kind = "Deny" THEN HideFrom(e.path) ELSE UNCHANGED <<view, cwdView>>
  BY <1>1, BindIs DEF Kept, requestVars
<1>3. e \in Entries /\ Entries' = Entries /\ child # "none"
  BY <1>2 DEF TypeOK, Entries, Bind
<1>4. view \in [Paths -> Access] /\ cwdView \in [Paths -> Access]
  BY DEF TypeOK
<1>5. \A p \in Paths : /\ view'[p] \in {view[p], "NoAccess"} /\ cwdView'[p] \in {cwdView[p], "NoAccess"}
                       /\ view'[p] # view[p] => e.kind = "Deny" /\ IsUnder(e.path, p)
  BY <1>2, <1>4 DEF HideFrom
<1>l. \A p \in Paths : /\ view[p] = "NoAccess" => view'[p] = "NoAccess"
                       /\ cwdView[p] = "NoAccess" => cwdView'[p] = "NoAccess"
                       /\ view[p] # "ReadWrite" => view'[p] # "ReadWrite"
                       /\ cwdView[p] # "ReadWrite" => cwdView'[p] # "ReadWrite"
  BY <1>5
<1>c. \A q, p : CrossedFromCwd(q, p)' <=> CrossedFromCwd(q, p)
  BY <1>2 DEF CrossedFromCwd
<1>6. ASSUME NEW f, Hides(f) PROVE Hides(f)'
  BY <1>l, <1>c, <1>6 DEF Hides
<1>7. ASSUME NEW f, Protects(f) PROVE Protects(f)'
  BY <1>l, <1>c, <1>7 DEF Protects
<1>8. ~undone => \A f \in Entries \ (todo' \cup current') : Applied(f)'
  BY <1>1, <1>2, <1>3, <1>6, <1>7 DEF Overlays, Applied
<1>9. e.kind = "Deny" => Hides(e)'
  BY <1>2, <1>4 DEF HideFrom, Hides, CrossedFromCwd
<1>10. \A p \in Paths : view'[p] = "NoAccess" =>
           \E f \in Entries \ todo' : f.kind = "Deny" /\ IsUnder(f.path, p)
  BY <1>2, <1>3, <1>5 DEF Overlays
<1>11. \A p \in Paths : view'[p] = "ReadOnly" =>
           \E f \in Entries \ todo' : f.kind = "ReadOnly" /\ IsUnder(f.path, p)
  BY <1>2, <1>5 DEF Overlays
<1> QED
  BY <1>1, <1>2, <1>3, <1>8, <1>9, <1>10, <1>11 DEF Overlays

LEMMA RemountOverlays ==
    ASSUME TypeOK, Places, Overlays, Remount, ~GaveUp
    PROVE  Overlays'
<1>1. PICK e \in Entries \ todo : current = {e}
  BY DEF Remount, Places
<1>2. /\ child = "remount" /\ child' \in {"cleanup", "target"} /\ current' = {}
      /\ UNCHANGED <<policy, cwd, todo, undone>> /\ Entries' = Entries
      /\ IF e.kind = "ReadOnly" THEN MakeReadOnly(e.path) ELSE UNCHANGED <<view, cwdView>>
  BY <1>1, RemountIs DEF Kept, requestVars, Entries
<1>3. view \in [Paths -> Access] /\ cwdView \in [Paths -> Access] /\ policy \in Policies
  BY DEF TypeOK
<1>w. \A a \in Access : /\ Weaker(a, "ReadOnly") = "NoAccess" <=> a = "NoAccess"
                        /\ Weaker(a, "ReadOnly") # "ReadWrite"
                        /\ Weaker(a, "ReadOnly") \in {"NoAccess", "ReadOnly"}
  BY DEF Access, Weaker, AtMost, Rank
<1>4. \A p \in Paths :
          /\ view[p] \in Access /\ cwdView[p] \in Access
          /\ view'[p] \in {view[p], Weaker(view[p], "ReadOnly")}
          /\ cwdView'[p] \in {cwdView[p], Weaker(cwdView[p], "ReadOnly")}
          /\ view'[p] # view[p] => e.kind = "ReadOnly" /\ IsUnder(e.path, p)
  BY <1>2, <1>3 DEF MakeReadOnly, OnMountOf
<1>l. \A p \in Paths : /\ view[p] = "NoAccess" => view'[p] = "NoAccess"
                       /\ cwdView[p] = "NoAccess" => cwdView'[p] = "NoAccess"
                       /\ view[p] # "ReadWrite" => view'[p] # "ReadWrite"
                       /\ cwdView[p] # "ReadWrite" => cwdView'[p] # "ReadWrite"
  BY <1>4, <1>w
<1>c. \A q, p : CrossedFromCwd(q, p)' <=> CrossedFromCwd(q, p)
  BY <1>2 DEF CrossedFromCwd
<1>5. ASSUME NEW f, Hides(f) PROVE Hides(f)'
  BY <1>l, <1>c, <1>5 DEF Hides
<1>6. ASSUME NEW f, Protects(f) PROVE Protects(f)'
  BY <1>l, <1>c, <1>6 DEF Protects
<1>7. e.kind = "Deny" => Hides(e)'
  BY <1>1, <1>2, <1>5 DEF Overlays
<1>8. e.kind = "ReadOnly" => Protects(e)'
  <2> SUFFICES ASSUME e.kind = "ReadOnly" PROVE Protects(e)'
    OBVIOUS
  <2>1. \A p \in Paths : OnMountOf(e.path, p) =>
            /\ view'[p] = Weaker(view[p], "ReadOnly")
            /\ CrossedFromCwd(e.path, p) => cwdView'[p] = Weaker(cwdView[p], "ReadOnly")
    BY <1>2, <1>3 DEF MakeReadOnly
  <2>2. \A p \in Paths : CrossedFromCwd(e.path, p)' <=> CrossedFromCwd(e.path, p)
    BY <1>2 DEF CrossedFromCwd
  <2>3. ASSUME NEW p \in Paths, OnMountOf(e.path, p)
        PROVE  view'[p] # "ReadWrite" /\ (CrossedFromCwd(e.path, p) => cwdView'[p] # "ReadWrite")
    <3>1. view[p] \in Access /\ cwdView[p] \in Access
      BY <1>4
    <3> QED
      BY <1>w, <2>1, <2>3, <3>1
  <2> QED
    BY <2>2, <2>3 DEF Protects
<1>9. ~undone => \A f \in Entries \ (todo' \cup current') : Applied(f)'
  BY <1>1, <1>2, <1>5, <1>6, <1>7, <1>8 DEF Overlays, Applied
<1>10. \A p \in Paths : view'[p] = "NoAccess" =>
           \E f \in Entries \ todo' : f.kind = "Deny" /\ IsUnder(f.path, p)
  BY <1>2, <1>4, <1>w DEF Overlays
<1>11. \A p \in Paths : view'[p] = "ReadOnly" =>
           \E f \in Entries \ todo' : f.kind = "ReadOnly" /\ IsUnder(f.path, p)
  BY <1>1, <1>2, <1>4 DEF Overlays
<1> QED
  BY <1>2, <1>9, <1>10, <1>11 DEF Overlays

LEMMA OverlaysStep == TypeOK /\ Places /\ Overlays /\ [Next]_vars => Overlays'
<1> SUFFICES ASSUME TypeOK, Places, Overlays, [Next]_vars PROVE Overlays'
  OBVIOUS
<1> USE DEF requestVars, planVars, spaceVars, Kept, NamespacePlaces, OverlayPlaces
<1>a. policy \in Policies
  BY DEF TypeOK
<1>1. CASE UNCHANGED vars \/ \E p \in MayVanish : Vanish(p)
  <2>1. UNCHANGED <<policy, cwd, child, todo, current, undone, view, cwdView>>
    BY <1>1, VanishIs DEF vars
  <2>2. Entries' = Entries /\ \A e : (Applied(e)' <=> Applied(e)) /\ (Hides(e)' <=> Hides(e))
    BY <2>1 DEF Entries, Applied, Hides, Protects, CrossedFromCwd
  <2> QED
    BY <2>1, <2>2 DEF Overlays
<1>2. CASE Parent
  <2>1. UNCHANGED <<policy, cwd, current, undone, view, cwdView>> /\ Entries' = Entries
    BY <1>2, ParentIs DEF Entries
  <2>2. CASE child = "none"
    <3>1. child' \in {"none", "chdir"} /\ (child' = "chdir" => todo' = Entries)
      BY <1>2, <2>2, ParentIs DEF Places
    <3>2. \A p \in Paths : view'[p] = "ReadWrite"
      BY <2>1, <2>2 DEF Overlays
    <3> QED
      BY <2>1, <3>1, <3>2 DEF Overlays
  <2>3. CASE child # "none"
    <3>1. UNCHANGED <<child, todo>>
      BY <1>2, <2>3, ParentIs DEF Places
    <3>2. \A e : (Applied(e)' <=> Applied(e)) /\ (Hides(e)' <=> Hides(e))
      BY <2>1 DEF Applied, Hides, Protects, CrossedFromCwd
    <3> QED
      BY <2>1, <3>1, <3>2 DEF Overlays
  <2> QED
    BY <2>2, <2>3
<1>3. CASE GaveUp /\ child # "none"
  BY <1>3, OverlaysKept DEF GaveUp
<1>4. ASSUME UNCHANGED <<policy, cwd, undone, view, cwdView, todo>>, child # "none",
             child' \notin {"none", "remount"}, current \subseteq todo \cup current'
      PROVE  Overlays'
  BY <1>4, OverlaysKept
<1>5. CASE Chdir
  BY <1>3, <1>4, <1>5, <1>a, ChdirIs, AfterType
<1>6. CASE Setup
  BY <1>3, <1>4, <1>6, SetupIs
<1>7. CASE CreateScratch
  BY <1>3, <1>4, <1>7, CreateScratchIs
<1>8. CASE PrepareTarget
  <2>1. current = {}
    BY <1>8, PrepareTargetIs DEF Places
  <2> QED
    BY <1>3, <1>4, <1>8, <2>1, PrepareTargetIs
<1>9. CASE Bind
  BY <1>3, <1>9, BindOverlays DEF Bind
<1>10. CASE Remount
  BY <1>3, <1>10, RemountOverlays DEF Remount
<1>11. CASE RemoveScratch
  BY <1>4, <1>11, <1>a, RemoveScratchIs, AfterType
<1>12. CASE InstallLandlock
  BY <1>3, <1>4, <1>12, <1>a, InstallLandlockIs, AfterType
<1>13. CASE InstallSeccomp
  BY <1>3, <1>4, <1>13, <1>a, InstallSeccompIs, AfterType
<1>14. CASE CloseFds
  BY <1>3, <1>4, <1>14, <1>a, CloseFdsIs, AfterType
<1>15. CASE Exec
  BY <1>3, <1>4, <1>15, ExecIs
<1>16. CASE ChangeMounts
  BY <1>16 DEF ChangeMounts, Overlays, Running
<1> QED
  BY <1>1, <1>2, <1>5, <1>6, <1>7, <1>8, <1>9, <1>10, <1>11, <1>12, <1>13, <1>14, <1>15, <1>16,
     NextIs

\* Only the program changes its mounts.
LEMMA UndoingStep == TypeOK /\ Places /\ Undoing /\ [Next]_vars => Undoing'
<1> SUFFICES ASSUME TypeOK, Places, Undoing, [Next]_vars PROVE Undoing'
  OBVIOUS
<1> USE DEF Running
<1>1. CASE UNCHANGED vars \/ \E p \in MayVanish : Vanish(p)
  BY <1>1, VanishIs DEF vars, spaceVars, ruleVars, Undoing
<1>2. CASE Parent
  BY <1>2, ParentIs DEF spaceVars, ruleVars, Undoing, Places
<1>3. CASE Child
  <2>1. child # "running"
    BY <1>3 DEF Child, Chdir, UnshareBoth, UnshareUser, MapUser, UnshareMounts, MarkPrivate,
       CreateScratch, PrepareTarget, Bind, Remount, RemoveScratch, InstallLandlock,
       InstallSeccomp, CloseFds, Exec
  <2>2. undone' = undone
    <3> USE DEF Unmoved, Still, FailWith, Spaces, spaceVars
    <3>1. CASE Chdir \/ UnshareBoth \/ UnshareUser \/ MapUser \/ UnshareMounts \/ MarkPrivate
      BY <3>1 DEF Chdir, UnshareBoth, UnshareUser, MapUser, UnshareMounts, MarkPrivate
    <3>2. CASE CreateScratch \/ PrepareTarget \/ Bind \/ Remount \/ RemoveScratch
      BY <3>2 DEF CreateScratch, PrepareTarget, Bind, Remount, RemoveScratch
    <3>3. CASE InstallLandlock \/ InstallSeccomp \/ CloseFds \/ Exec
      BY <3>3 DEF InstallLandlock, InstallSeccomp, CloseFds, Exec
    <3> QED
      BY <1>3, <3>1, <3>2, <3>3 DEF Child
  <2> QED
    BY <2>1, <2>2 DEF Undoing
<1>4. CASE ChangeMounts
  BY <1>4 DEF ChangeMounts, ruleVars, Undoing
<1> QED
  BY <1>1, <1>2, <1>3, <1>4 DEF Next

-----------------------------------------------------------------------------
(* The order of the mounts, and the descriptors.                           *)

LEMMA OrderStep == TypeOK /\ Places /\ Order /\ [Next]_vars => Order'
<1> SUFFICES ASSUME TypeOK, Places, Order, [Next]_vars PROVE Order'
  OBVIOUS
<1> USE DEF requestVars, planVars, Kept, NamespacePlaces, OverlayPlaces
<1>a. policy \in Policies
  BY DEF TypeOK
<1>b. \A e \in Entries : Len(e.path) \in Nat
  BY <1>a, EntriesAre, PathType DEF Entries, Overlay
<1>c. todo \subseteq Entries
  BY DEF TypeOK, Entries
<1>1. ASSUME UNCHANGED <<policy, todo>>, child # "none", child' # "bind" PROVE Order'
  BY <1>1 DEF Order, Entries
<1>2. CASE UNCHANGED vars \/ ChangeMounts \/ \E p \in MayVanish : Vanish(p)
  <2>1. UNCHANGED <<policy, child, todo, current>>
    BY <1>2, VanishIs DEF ChangeMounts, vars
  <2> QED
    BY <2>1 DEF Order, Entries
<1>3. CASE Parent
  <2>1. CASE child = "none"
    <3>1. child' \in {"none", "chdir"} /\ (child' = "chdir" => todo' = Entries') /\ policy' = policy
      BY <1>3, <2>1, ParentIs DEF Places, Entries
    <3> QED
      BY <3>1 DEF Order
  <2>2. CASE child # "none"
    <3>1. UNCHANGED <<policy, child, todo, current>>
      BY <1>3, <2>2, ParentIs DEF Places
    <3> QED
      BY <3>1 DEF Order, Entries
  <2> QED
    BY <2>1, <2>2
<1>4. CASE GaveUp /\ child # "none"
  BY <1>1, <1>4 DEF GaveUp
<1>5. CASE Chdir
  BY <1>1, <1>4, <1>5, <1>a, ChdirIs, AfterType
<1>6. CASE Setup
  BY <1>1, <1>4, <1>6, SetupIs
<1>7. CASE CreateScratch
  BY <1>1, <1>4, <1>7, CreateScratchIs
<1>8. CASE PrepareTarget
  <2>1. CASE ~GaveUp
    <3>1. PICK e \in NextEntry(todo) :
             /\ child' = "bind" /\ current' = {e} /\ UNCHANGED <<policy, todo>>
      BY <1>8, <2>1, PrepareTargetIs
    <3>2. e \in todo /\ child # "none"
      BY <1>8, PrepareTargetIs DEF NextEntry
    <3>3. \A t \in todo : Len(e.path) >= Len(t.path)
      BY <1>b, <1>c, <3>2 DEF NextEntry, Before
    <3> QED
      BY <3>1, <3>2, <3>3 DEF Order, Entries
  <2> QED
    BY <1>4, <1>8, <2>1, PrepareTargetIs
<1>9. CASE Bind
  <2>1. PICK e \in todo : current = {e}
    BY <1>9 DEF Bind, Places
  <2>2. CASE ~GaveUp
    <3>1. child = "bind" /\ child' = "remount" /\ todo' = todo \ {e} /\ policy' = policy
      BY <1>9, <2>1, <2>2, BindIs
    <3>2. \A f \in Entries \ todo', t \in todo' : Len(f.path) >= Len(t.path)
      BY <2>1, <3>1 DEF Order
    <3> QED
      BY <3>1, <3>2 DEF Order, Entries
  <2> QED
    BY <1>4, <1>9, <2>1, <2>2, BindIs
<1>10. CASE Remount
  <2>1. PICK e : current = {e}
    BY <1>10 DEF Remount, Places
  <2> QED
    BY <1>1, <1>4, <1>10, <2>1, RemountIs
<1>11. CASE RemoveScratch
  BY <1>1, <1>11, <1>a, RemoveScratchIs, AfterType
<1>12. CASE InstallLandlock
  BY <1>1, <1>4, <1>12, <1>a, InstallLandlockIs, AfterType
<1>13. CASE InstallSeccomp
  BY <1>1, <1>4, <1>13, <1>a, InstallSeccompIs, AfterType
<1>14. CASE CloseFds
  BY <1>1, <1>4, <1>14, <1>a, CloseFdsIs, AfterType
<1>15. CASE Exec
  BY <1>1, <1>4, <1>15, ExecIs
<1> QED
  BY <1>2, <1>3, <1>5, <1>6, <1>7, <1>8, <1>9, <1>10, <1>11, <1>12, <1>13, <1>14, <1>15, NextIs

LEMMA DescriptorsStep == TypeOK /\ Places /\ Descriptors /\ [Next]_vars => Descriptors'
<1> SUFFICES ASSUME TypeOK, Places, Descriptors, [Next]_vars PROVE Descriptors'
  OBVIOUS
<1> USE DEF Running, Kept, BeforeMounts, NamespacePlaces, OverlayPlaces
<1>a. policy \in Policies
  BY DEF TypeOK
<1>1. CASE UNCHANGED vars \/ ChangeMounts \/ \E p \in MayVanish : Vanish(p)
  BY <1>1, VanishIs DEF ChangeMounts, vars, Descriptors
<1>2. CASE Parent
  BY <1>2, ParentIs DEF Descriptors
<1>3. CASE GaveUp
  BY <1>3 DEF GaveUp, Descriptors
<1>4. ASSUME child \in {"landlock", "seccomp"} \cup BeforeMounts \cup OverlayPlaces,
             child' \notin {"exec", "running"}, fds' = fds
      PROVE  Descriptors'
  BY <1>4 DEF Descriptors
<1>5. CASE Chdir
  BY <1>3, <1>4, <1>5, <1>a, ChdirIs, AfterType
<1>6. CASE Setup
  BY <1>3, <1>4, <1>6, SetupIs
<1>7. CASE CreateScratch
  BY <1>3, <1>4, <1>7, CreateScratchIs
<1>8. CASE PrepareTarget
  BY <1>3, <1>4, <1>8, PrepareTargetIs
<1>9. CASE Bind
  <2>1. PICK e : current = {e}
    BY <1>9 DEF Bind, Places
  <2> QED
    BY <1>3, <1>4, <1>9, <2>1, BindIs
<1>10. CASE Remount
  <2>1. PICK e : current = {e}
    BY <1>10 DEF Remount, Places
  <2> QED
    BY <1>3, <1>4, <1>10, <2>1, RemountIs
<1>11. CASE RemoveScratch
  BY <1>4, <1>11, <1>a, RemoveScratchIs, AfterType
<1>12. CASE InstallLandlock
  BY <1>3, <1>4, <1>12, <1>a, InstallLandlockIs, AfterType
<1>13. CASE InstallSeccomp
  BY <1>3, <1>4, <1>13, <1>a, InstallSeccompIs, AfterType
<1>14. CASE CloseFds
  <2>1. CASE ~GaveUp
    <3>1. /\ child' = "exec" /\ fds' \subseteq fds
          /\ \A fd \in fds' : fd <= 2 \/ fd >= SoftLimit \/ fd >= FdCap
      BY <1>14, <1>a, <2>1, CloseFdsIs, AfterType
    <3>2. fds \subseteq Nat
      BY DEF TypeOK, Stdio
    <3>3. \A fd \in Nat : fd <= 2 => fd \in Stdio
      BY DEF Stdio
    <3> QED
      BY <3>1, <3>2, <3>3 DEF Descriptors
  <2> QED
    BY <1>3, <2>1
<1>15. CASE Exec
  BY <1>3, <1>15, ExecIs DEF Descriptors
<1> QED
  BY <1>1, <1>2, <1>5, <1>6, <1>7, <1>8, <1>9, <1>10, <1>11, <1>12, <1>13, <1>14, <1>15, NextIs

-----------------------------------------------------------------------------
(* What confines the program.                                              *)

\* Where a root is out of sight, the policy denies it.
LEMMA OpenableAre ==
    ASSUME TypeOK, Overlays, exists = Paths, NEW roots, NEW r \in roots, roots \subseteq Paths
    PROVE  Covered(denied_paths(policy), r) \/ r \in Openable(roots)
<1> SUFFICES ASSUME r \notin Openable(roots) PROVE Covered(denied_paths(policy), r)
  OBVIOUS
<1>1. PICK q \in Paths : IsUnder(q, r) /\ view[q] = "NoAccess"
  BY UnderItself DEF Openable, Visible, StrictlyUnder
<1>2. PICK e \in Entries : e.kind = "Deny" /\ IsUnder(e.path, q)
  BY <1>1 DEF Overlays
<1>3. e.path \in denied_paths(policy) /\ e.path \in Paths
  BY <1>2, EntriesAre DEF TypeOK, Entries, Overlay
<1> QED
  BY <1>1, <1>2, <1>3, UnderTransitive DEF Covered

LEMMA ConfinementStep == TypeOK /\ Places /\ Overlays /\ Confinement /\ [Next]_vars => Confinement'
<1> SUFFICES ASSUME TypeOK, Places, Overlays, Confinement, [Next]_vars PROVE Confinement'
  OBVIOUS
<1> USE DEF requestVars, ruleVars, Kept, BeforeMounts, NamespacePlaces, OverlayPlaces
<1>a. policy \in Policies /\ exists \subseteq Paths
  BY DEF TypeOK
<1>1. CASE UNCHANGED vars \/ ChangeMounts \/ \E p \in MayVanish : Vanish(p)
  <2>1. UNCHANGED <<policy, child, rules, seccomp>> /\ exists' \subseteq exists
    BY <1>1, VanishIs DEF ChangeMounts, vars
  <2>2. exists' = Paths => exists = Paths
    BY <1>a, <2>1
  <2> QED
    BY <2>1, <2>2 DEF Confinement
<1>2. CASE Parent
  <2>1. UNCHANGED <<policy, exists, rules, seccomp>>
    BY <1>2, ParentIs
  <2>2. child' = child \/ (child = "none" /\ child' = "chdir")
    BY <1>2, ParentIs DEF Places
  <2> QED
    BY <2>1, <2>2 DEF Confinement
<1>3. CASE GaveUp
  BY <1>3 DEF GaveUp, Confinement
<1>4. ASSUME child \in BeforeMounts \cup OverlayPlaces, UNCHANGED <<policy, exists, rules, seccomp>>,
             child' \in BeforeMounts \cup OverlayPlaces
      PROVE  Confinement'
  BY <1>4 DEF Confinement
<1>5. CASE Chdir
  <2>1. CASE ~GaveUp
    <3>1. child = "chdir" /\ child' = After(policy, "chdir") /\ UNCHANGED <<policy, exists, rules, seccomp>>
      BY <1>5, <2>1, ChdirIs
    <3> QED
      BY <1>a, <3>1, AfterIs DEF Confinement
  <2> QED
    BY <1>3, <2>1
<1>6. CASE Setup
  BY <1>3, <1>4, <1>6, SetupIs
<1>7. CASE CreateScratch
  BY <1>3, <1>4, <1>7, CreateScratchIs
<1>8. CASE PrepareTarget
  BY <1>3, <1>4, <1>8, PrepareTargetIs
<1>9. CASE Bind
  <2>1. PICK e : current = {e}
    BY <1>9 DEF Bind, Places
  <2> QED
    BY <1>3, <1>4, <1>9, <2>1, BindIs
<1>10. CASE Remount
  <2>1. PICK e : current = {e}
    BY <1>10 DEF Remount, Places
  <2> QED
    BY <1>3, <1>4, <1>10, <2>1, RemountIs
<1>11. CASE RemoveScratch
  <2>1. child = "cleanup" /\ child' = After(policy, "overlays") /\ UNCHANGED <<policy, exists, rules, seccomp>>
    BY <1>11, RemoveScratchIs
  <2> QED
    BY <1>a, <2>1, AfterIs DEF Confinement
<1>12. CASE InstallLandlock
  <2>1. CASE ~GaveUp
    <3>1. /\ child = "landlock" /\ child' = After(policy, "landlock")
          /\ UNCHANGED <<policy, exists, seccomp>>
          /\ rules' = [read  |-> IF default_read_access(policy) THEN {<<>>}
                                 ELSE Openable(readable_paths(policy)),
                       write |-> Openable(writable_paths(policy)),
                       installed |-> TRUE]
      BY <1>12, <2>1, InstallLandlockIs
    <3>2. ~default_write_access(policy)
      BY <3>1 DEF Confinement
    <3>3. /\ rules'.write = Openable(writable_paths(policy)) /\ rules'.installed = TRUE
          /\ rules'.read = IF default_read_access(policy) THEN {<<>>} ELSE Openable(readable_paths(policy))
      BY <3>1
    <3>4. \A roots : Openable(roots) \subseteq roots
      BY DEF Openable
    <3>5. readable_paths(policy) \subseteq Paths /\ writable_paths(policy) \subseteq Paths
      BY <1>a, PolicyType
    <3>6. ASSUME exists = Paths, NEW roots, roots \subseteq Paths
          PROVE  \A r \in roots : Covered(denied_paths(policy), r) \/ r \in Openable(roots)
      BY <3>6, OpenableAre
    <3>7. child' \in {"seccomp", "close"} /\ (child' = "close" => policy.network)
      BY <1>a, <3>1, AfterIs
    <3>8. /\ rules'.write \subseteq writable_paths(policy)
          /\ ~default_read_access(policy) => rules'.read \subseteq readable_paths(policy)
          /\ default_read_access(policy) => rules'.read = {<<>>}
      BY <3>3, <3>4
    <3>9. exists = Paths =>
             /\ \A r \in writable_paths(policy) : Covered(denied_paths(policy), r) \/ r \in rules'.write
             /\ default_read_access(policy)
                \/ \A r \in readable_paths(policy) : Covered(denied_paths(policy), r) \/ r \in rules'.read
      BY <3>3, <3>5, <3>6
    <3> QED
      BY <3>1, <3>2, <3>3, <3>7, <3>8, <3>9 DEF Confinement
  <2> QED
    BY <1>3, <2>1
<1>13. CASE InstallSeccomp
  <2>1. CASE ~GaveUp
    <3>1. child = "seccomp" /\ child' = "close" /\ seccomp' = TRUE /\ UNCHANGED <<policy, exists, rules>>
      BY <1>13, <1>a, <2>1, InstallSeccompIs, AfterIs
    <3> QED
      BY <3>1 DEF Confinement
  <2> QED
    BY <1>3, <2>1
<1>14. CASE CloseFds
  <2>1. CASE ~GaveUp
    <3>1. child = "close" /\ child' = "exec" /\ UNCHANGED <<policy, exists, rules, seccomp>>
      BY <1>14, <1>a, <2>1, CloseFdsIs, AfterIs
    <3> QED
      BY <3>1 DEF Confinement
  <2> QED
    BY <1>3, <2>1
<1>15. CASE Exec
  <2>1. CASE ~GaveUp
    <3>1. child = "exec" /\ child' = "running" /\ UNCHANGED <<policy, exists, rules, seccomp>>
      BY <1>15, <2>1, ExecIs
    <3> QED
      BY <3>1 DEF Confinement
  <2> QED
    BY <1>3, <2>1
<1> QED
  BY <1>1, <1>2, <1>5, <1>6, <1>7, <1>8, <1>9, <1>10, <1>11, <1>12, <1>13, <1>14, <1>15, NextIs

-----------------------------------------------------------------------------
(* What the caller is told.                                                *)

\* The child gives up where the pipe is still open.
LEMMA GaveUpReports ==
    ASSUME TypeOK, Places, Descriptors, Reports, GaveUp, child \in Moves \ {"close", "exec"},
           NEW errnos, Told(errnos), "none" \notin errnos,
           child \in NamespacePlaces => errnos = {"EINVAL"},
           child \in OverlayPlaces => refused' # {} \/ errnos \subseteq {"ENOENT", "EROFS"}
    PROVE  Reports'
<1>1. StatusFd \in fds /\ child # "none"
  BY DEF Descriptors, Moves, BeforeMounts, NamespacePlaces, OverlayPlaces
<1>2. /\ report' \in errnos /\ child' = "failed" /\ failedAt' = child
      /\ UNCHANGED <<policy, parent, result>>
  BY <1>1 DEF Told, GaveUp, requestVars
<1>3. parent # "returned"
  BY DEF Reports, Moves, NamespacePlaces, OverlayPlaces
<1>4. child \in NamespacePlaces => UsesOverlays(policy)
  BY DEF Places
<1> QED
  BY <1>1, <1>2, <1>3, <1>4 DEF Reports

LEMMA ReportsStep ==
    TypeOK /\ Places /\ Descriptors /\ Confinement /\ Reports /\ [Next]_vars => Reports'
<1> SUFFICES ASSUME TypeOK, Places, Descriptors, Confinement, Reports, [Next]_vars PROVE Reports'
  OBVIOUS
<1> USE DEF requestVars, Kept, NamespacePlaces, OverlayPlaces
<1>a. policy \in Policies
  BY DEF TypeOK
<1>1. CASE UNCHANGED vars \/ ChangeMounts \/ \E p \in MayVanish : Vanish(p)
  <2>1. UNCHANGED <<policy, parent, child, report, failedAt, refused, result>>
    BY <1>1, VanishIs DEF ChangeMounts, vars
  <2> QED
    BY <2>1 DEF Reports
<1>2. CASE Parent
  <2>1. UNCHANGED <<policy, report, failedAt, refused>>
    BY <1>2, ParentIs
  <2>2. CASE parent \in {"validate", "plan"}
    <3>1. parent' \in {"plan", "fork", "returned"} /\ child' = child /\ child = "none"
      BY <1>2, <2>2, ParentIs DEF Places
    <3>2. parent' = "returned" => result' = "InvalidRequest"
      BY <1>2, <2>2, ParentIs
    <3> QED
      BY <2>1, <3>1, <3>2 DEF Reports
  <2>3. CASE parent = "fork"
    <3>1. parent' = "waiting" /\ child = "none" /\ child' = "chdir"
      BY <1>2, <2>3, ParentIs DEF Places
    <3> QED
      BY <2>1, <3>1 DEF Reports
  <2>4. CASE parent = "waiting"
    <3>1. /\ parent' = "returned" /\ child' = child /\ child # "none"
          /\ \/ report # "none" /\ result' = ErrorOf(policy, report)
             \/ report = "none" /\ StatusFd \notin fds /\ result' = "launched"
      BY <1>2, <2>4, ParentIs DEF Places
    <3>2. ASSUME StatusFd \notin fds PROVE child \in {"exec", "running", "failed"}
      BY <3>1, <3>2 DEF Descriptors, BeforeMounts, TypeOK, ChildPlaces
    <3>3. ASSUME StatusFd \notin fds, report = "none"
          PROVE  child \in {"exec", "running"} \/ failedAt \in {"close", "exec"}
      BY <3>2, <3>3 DEF Reports
    <3> QED
      BY <2>1, <3>1, <3>3 DEF Reports
  <2> QED
    BY <1>2, <2>2, <2>3, <2>4, ParentIs
\* A step that goes on, before the child has closed its pipe.
<1>3. ASSUME Kept, child \in Moves \ {"exec"}, child' \in Moves, policy' = policy PROVE Reports'
  <2>1. child \notin {"none", "failed", "exec", "running"} /\ child' \notin {"none", "failed"}
    BY <1>3 DEF Moves
  <2>2. parent # "returned" /\ failedAt = "none" /\ report = "none"
    BY <2>1 DEF Reports
  <2> QED
    BY <1>3, <2>1, <2>2 DEF Reports
<1>4. CASE Chdir
  <2>1. CASE GaveUp
    <3>1. child = "chdir" /\ Told({"ENOENT"})
      BY <1>4, <2>1, <1>a, ChdirIs, AfterType DEF GaveUp
    <3> QED
      BY <2>1, <3>1, GaveUpReports DEF Moves
  <2>2. CASE ~GaveUp
    BY <1>3, <1>4, <1>a, <2>2, ChdirIs, AfterType DEF Moves
  <2> QED
    BY <2>1, <2>2
<1>5. CASE Setup
  <2>1. CASE GaveUp
    <3>1. child \in NamespacePlaces /\ Told({"EINVAL"})
      BY <1>5, <2>1, SetupIs DEF GaveUp
    <3> QED
      BY <2>1, <3>1, GaveUpReports DEF Moves
  <2>2. CASE ~GaveUp
    BY <1>3, <1>5, <2>2, SetupIs DEF Moves
  <2> QED
    BY <2>1, <2>2
<1>6. CASE CreateScratch
  <2>1. CASE GaveUp
    <3>1. child = "scratch" /\ Told({"EACCES", "ENOSPC"}) /\ refused' # {}
      BY <1>6, <2>1, CreateScratchIs DEF GaveUp
    <3> QED
      BY <2>1, <3>1, GaveUpReports DEF Moves
  <2>2. CASE ~GaveUp
    BY <1>3, <1>6, <2>2, CreateScratchIs DEF Moves
  <2> QED
    BY <2>1, <2>2
<1>7. CASE PrepareTarget
  <2>1. CASE GaveUp
    <3>1. child = "target" /\ ((Told({"ENOSPC"}) /\ refused' # {}) \/ Told({"ENOENT", "EROFS"}))
      BY <1>7, <2>1, PrepareTargetIs DEF GaveUp
    <3> QED
      BY <2>1, <3>1, GaveUpReports DEF Moves
  <2>2. CASE ~GaveUp
    BY <1>3, <1>7, <2>2, PrepareTargetIs DEF Moves
  <2> QED
    BY <2>1, <2>2
<1>8. CASE Bind
  <2>1. PICK e : current = {e}
    BY <1>8 DEF Bind, Places
  <2>2. CASE GaveUp
    <3>1. child = "bind" /\ ~rules.installed
      BY <1>8 DEF Bind, Confinement
    <3>2. (Told({"EPERM", "ENOSPC"}) /\ refused' # {}) \/ Told({"ENOENT"})
      BY <1>8, <2>1, <2>2, <3>1, BindIs DEF GaveUp
    <3> QED
      BY <2>2, <3>1, <3>2, GaveUpReports DEF Moves
  <2>3. CASE ~GaveUp
    BY <1>3, <1>8, <2>1, <2>3, BindIs DEF Moves
  <2> QED
    BY <2>2, <2>3
<1>9. CASE Remount
  <2>1. PICK e : current = {e}
    BY <1>9 DEF Remount, Places
  <2>2. CASE GaveUp
    <3>1. child = "remount" /\ Told({"EPERM"}) /\ refused' # {}
      BY <1>9, <2>1, <2>2, RemountIs DEF GaveUp
    <3> QED
      BY <2>2, <3>1, GaveUpReports DEF Moves
  <2>3. CASE ~GaveUp
    BY <1>3, <1>9, <2>1, <2>3, RemountIs DEF Moves
  <2> QED
    BY <2>2, <2>3
<1>10. CASE RemoveScratch
  BY <1>3, <1>10, <1>a, RemoveScratchIs, AfterType DEF Moves
<1>11. CASE InstallLandlock \/ InstallSeccomp
  <2>1. CASE GaveUp
    <3>1. ASSUME InstallLandlock PROVE child = "landlock" /\ Told({"EINVAL"})
      BY <2>1, <3>1, <1>a, InstallLandlockIs, AfterType DEF GaveUp
    <3>2. ASSUME InstallSeccomp PROVE child = "seccomp" /\ Told({"EINVAL"})
      BY <2>1, <3>2, <1>a, InstallSeccompIs, AfterType DEF GaveUp
    <3> QED
      BY <1>11, <2>1, <3>1, <3>2, GaveUpReports DEF Moves
  <2>2. CASE ~GaveUp
    BY <1>3, <1>11, <1>a, <2>2, InstallLandlockIs, InstallSeccompIs, AfterType DEF Moves
  <2> QED
    BY <2>1, <2>2
<1>12. CASE CloseFds
  <2>1. CASE GaveUp
    <3>1. child = "close" /\ child' = "failed" /\ failedAt' = "close" /\ UNCHANGED <<policy, parent>>
      BY <1>12, <2>1, CloseFdsIs DEF GaveUp
    <3> QED
      BY <3>1 DEF Reports
  <2>2. CASE ~GaveUp
    BY <1>3, <1>12, <1>a, <2>2, CloseFdsIs, AfterType DEF Moves
  <2> QED
    BY <2>1, <2>2
<1>13. CASE Exec
  <2>1. child = "exec" /\ UNCHANGED <<policy, parent, result>>
    BY <1>13, ExecIs DEF GaveUp
  <2>2. report = "none"
    BY <2>1 DEF Reports
  <2>3. CASE GaveUp
    <3>1. child' = "failed" /\ failedAt' = "exec"
      BY <2>1, <2>3 DEF GaveUp
    <3> QED
      BY <2>1, <2>2, <3>1 DEF Reports
  <2>4. CASE ~GaveUp
    <3>1. child' = "running" /\ UNCHANGED <<report, failedAt>>
      BY <1>13, <2>4, ExecIs
    <3> QED
      BY <2>1, <3>1 DEF Reports
  <2> QED
    BY <2>3, <2>4
<1> QED
  BY <1>1, <1>2, <1>4, <1>5, <1>6, <1>7, <1>8, <1>9, <1>10, <1>11, <1>12, <1>13, NextIs

-----------------------------------------------------------------------------
(* The scratch directory.                                                  *)

\* Only an overlay takes the directory for temporary files away.
LEMMA TempIsCovered ==
    ASSUME TypeOK, Overlays, TempDir \in exists, ~TempWritable
    PROVE  TempCovered
<1>1. PICK q \in Paths : IsUnder(q, TempDir) /\ view[q] # "ReadWrite"
  BY UnderItself DEF TempWritable, Visible, StrictlyUnder
<1>2. view[q] \in {"NoAccess", "ReadOnly"}
  BY <1>1 DEF TypeOK, Access
<1>3. PICK e \in Entries : IsUnder(e.path, q)
  BY <1>2 DEF Overlays
<1>4. e.path \in Paths /\ e.path \in OverlayPaths(policy)
  BY EntriesAre DEF TypeOK, Entries, Overlay, OverlayPaths
<1> QED
  BY <1>1, <1>3, <1>4, UnderTransitive DEF TempCovered, Covered

\* An entry is not hidden by those that are mounted before it.
LEMMA TargetIsVisible ==
    ASSUME TypeOK, Overlays, Order, child = "target", exists = Paths, NEW e \in todo
    PROVE  Visible(e.path)
<1>1. e \in Entries /\ \A f \in Entries : f.path \in Paths /\ Len(f.path) \in Nat
  BY EntriesAre, PathType DEF TypeOK, Entries, Overlay
<1>2. ASSUME NEW q \in Paths, StrictlyUnder(q, e.path), view[q] = "NoAccess" PROVE FALSE
  <2>1. PICK f \in Entries \ todo : IsUnder(f.path, q)
    BY <1>2 DEF Overlays
  <2>2. Len(f.path) <= Len(q) /\ Len(q) < Len(e.path) /\ Len(q) \in Nat
    BY <1>1, <1>2, <2>1, StrictlyUnderLen, PathType DEF IsUnder
  <2>3. Len(f.path) >= Len(e.path)
    BY <2>1 DEF Order
  <2> QED
    BY <1>1, <2>2, <2>3
<1> QED
  BY <1>1, <1>2 DEF Visible

LEMMA ScratchStep ==
    /\ TypeOK /\ Places /\ Overlays /\ Order /\ Confinement /\ Reports /\ Scratch
    /\ [Next]_vars
    => Scratch'
<1> SUFFICES ASSUME TypeOK, Places, Overlays, Order, Confinement, Reports, Scratch, [Next]_vars
             PROVE  Scratch'
  OBVIOUS
<1> USE DEF requestVars, Kept, BeforeMounts, NamespacePlaces, OverlayPlaces, AfterOverlays
<1>a. policy \in Policies /\ cwd \in Paths /\ exists \subseteq Paths
  BY DEF TypeOK
<1>b. TempDir \in exists
  BY DEF Scratch
<1>c. ASSUME policy' = policy, refused \subseteq refused'
      PROVE  /\ TempCovered' <=> TempCovered
             /\ scratch' \subseteq scratch /\ PlaceholderGone => PlaceholderGone'
             /\ scratch' \subseteq scratch /\ Swept => Swept'
  BY <1>c DEF TempCovered, PlaceholderGone, Swept
<1>1. CASE UNCHANGED vars \/ ChangeMounts \/ \E p \in MayVanish : Vanish(p)
  <2>1. /\ UNCHANGED <<policy, child, current, failedAt, refused, scratch>>
        /\ TempDir \in exists' /\ (child = "failed" => exists' = exists)
    BY <1>1, <1>b, VanishIs DEF ChangeMounts, Running, planVars, vars
  <2> QED
    BY <1>c, <2>1 DEF Scratch
<1>2. CASE Parent
  <2>1. UNCHANGED <<policy, exists, current, failedAt, refused, scratch>>
    BY <1>2, ParentIs
  <2>2. child' = child \/ (child = "none" /\ child' = "chdir")
    BY <1>2, ParentIs DEF Places
  <2> QED
    BY <1>c, <2>1, <2>2 DEF Scratch
\* A child that gives up, and a step that leaves the scratch directory.
<1>3. ASSUME GaveUp, child # "failed", refused \subseteq refused',
             child = "exec" \/ refused' # {} \/ exists # Paths \/ TempCovered
      PROVE  Scratch'
  <2>1. /\ child' = "failed" /\ failedAt' = child /\ UNCHANGED <<policy, exists>>
        /\ scratch' = scratch \/ child = "target"
    BY <1>3 DEF GaveUp
  <2>2. CASE child \in OverlayPlaces
    BY <1>b, <1>c, <1>3, <2>1, <2>2 DEF Scratch
  <2>3. CASE child \notin OverlayPlaces
    <3>1. Swept
      BY <1>3, <2>3 DEF Scratch, Swept, TypeOK, ChildPlaces
    <3> QED
      BY <1>b, <1>c, <1>3, <2>1, <2>3, <3>1 DEF Scratch
  <2> QED
    BY <2>2, <2>3
<1>4. ASSUME Kept, scratch' = scratch, refused \subseteq refused', child' # "failed",
             child \in {"none"} \cup BeforeMounts \cup AfterOverlays,
             child' \in BeforeMounts \cup AfterOverlays,
             child' \in BeforeMounts => child \in {"none"} \cup BeforeMounts
      PROVE  Scratch'
  <2>1. Swept
    BY <1>4 DEF Scratch, Swept
  <2> QED
    BY <1>b, <1>c, <1>4, <2>1 DEF Scratch
<1>5. CASE Chdir
  <2>1. CASE GaveUp
    <3>1. cwd \notin exists
      BY <1>5, <1>a, <2>1, ChdirIs, AfterType DEF GaveUp
    <3> QED
      BY <1>3, <1>5, <1>a, <2>1, <3>1, ChdirIs
  <2>2. CASE ~GaveUp
    <3>1. /\ Kept /\ scratch' = scratch /\ child = "chdir"
          /\ child' \in {"unshare", "landlock", "seccomp", "close"} /\ refused' = refused
      BY <1>5, <1>a, <2>2, ChdirIs, AfterType
    <3> QED
      BY <1>4, <3>1
  <2> QED
    BY <2>1, <2>2
<1>6. CASE Setup
  <2>1. CASE GaveUp
    BY <1>3, <1>6, <2>1, SetupIs DEF GaveUp
  <2>2. CASE ~GaveUp
    <3>1. /\ Kept /\ scratch' = scratch /\ child \in NamespacePlaces
          /\ child' \in NamespacePlaces \cup {"scratch"} /\ refused \subseteq refused'
      BY <1>6, <2>2, SetupIs
    <3> QED
      BY <1>4, <3>1
  <2> QED
    BY <2>1, <2>2
<1>7. CASE CreateScratch
  <2>1. CASE GaveUp
    BY <1>3, <1>7, <2>1, CreateScratchIs DEF GaveUp
  <2>2. CASE ~GaveUp
    <3>1. Kept /\ child' = "target" /\ scratch' = {"root"}
      BY <1>7, <2>2, CreateScratchIs
    <3> QED
      BY <1>b, <3>1 DEF Scratch, PlaceholderGone
  <2> QED
    BY <2>1, <2>2
<1>8. CASE PrepareTarget
  <2>1. CASE GaveUp
    <3>1. CASE refused' # {}
      BY <1>3, <1>8, <2>1, <3>1, PrepareTargetIs
    <3>2. CASE refused' = {}
      <4>1. child = "target" /\ \E e \in NextEntry(todo) : ~Visible(e.path) \/ ~TempWritable
        BY <1>8, <2>1, <3>2, PrepareTargetIs DEF GaveUp
      <4>2. exists # Paths \/ TempCovered
        BY <1>b, <4>1, TargetIsVisible, TempIsCovered DEF NextEntry
      <4> QED
        BY <1>3, <1>8, <2>1, <4>1, <4>2, PrepareTargetIs
    <3> QED
      BY <3>1, <3>2
  <2>2. CASE ~GaveUp
    <3>1. PICK e \in NextEntry(todo) :
             /\ Kept /\ child' = "bind" /\ current' = {e} /\ refused' = refused
             /\ e.kind # "Deny" => scratch' = scratch
      BY <1>8, <2>2, PrepareTargetIs
    <3>2. PlaceholderGone
      BY <1>8, PrepareTargetIs DEF Scratch
    <3>3. e.kind = "Deny" \/ PlaceholderGone'
      BY <1>c, <3>1, <3>2
    <3> QED
      BY <1>b, <3>1, <3>3 DEF Scratch
  <2> QED
    BY <2>1, <2>2
<1>9. CASE Bind
  <2>1. PICK e \in todo : current = {e}
    BY <1>9 DEF Bind, Places
  <2>2. e.path \in Paths
    BY <1>a, EntriesAre DEF TypeOK, Overlay
  <2>3. CASE GaveUp
    <3>1. child = "bind" /\ ~rules.installed
      BY <1>9 DEF Bind, Confinement
    <3>2. refused' # {} \/ e.path \notin exists
      BY <1>9, <2>1, <2>3, <3>1, BindIs DEF GaveUp
    <3> QED
      BY <1>3, <1>9, <2>1, <2>2, <2>3, <3>1, <3>2, BindIs
  <2>4. CASE ~GaveUp
    <3>1. Kept /\ child = "bind" /\ child' = "remount" /\ UNCHANGED <<current, scratch, refused>>
      BY <1>9, <2>1, <2>4, BindIs
    <3>2. \A f \in current : f.kind = "Deny" \/ PlaceholderGone'
      BY <1>c, <3>1 DEF Scratch
    <3> QED
      BY <1>b, <3>1, <3>2 DEF Scratch
  <2> QED
    BY <2>3, <2>4
<1>10. CASE Remount
  <2>1. PICK e \in Entries : current = {e}
    BY <1>10 DEF Remount, Places
  <2>2. CASE GaveUp
    BY <1>3, <1>10, <2>1, <2>2, RemountIs DEF GaveUp
  <2>3. CASE ~GaveUp
    <3>1. /\ Kept /\ child = "remount" /\ child' \in {"cleanup", "target"} /\ refused \subseteq refused'
          /\ IF e.kind = "Deny"
               THEN scratch' = scratch \ {"placeholder"} \/ ~TempWritable \/ "placeholder" \in refused'
               ELSE scratch' = scratch
      BY <1>10, <2>1, <2>3, RemountIs
    <3>2. ASSUME e.kind = "Deny" PROVE PlaceholderGone'
      <4>1. CASE scratch' = scratch \ {"placeholder"}
        BY <4>1 DEF TypeOK, PlaceholderGone
      <4>2. CASE ~TempWritable
        BY <1>b, <1>c, <3>1, <4>2, TempIsCovered DEF PlaceholderGone
      <4>3. CASE "placeholder" \in refused'
        BY <4>3 DEF PlaceholderGone
      <4> QED
        BY <3>1, <3>2, <4>1, <4>2, <4>3
    <3>3. ASSUME e.kind # "Deny" PROVE PlaceholderGone'
      BY <1>c, <2>1, <3>1, <3>3 DEF Scratch
    <3> QED
      BY <1>b, <3>1, <3>2, <3>3 DEF Scratch
  <2> QED
    BY <2>2, <2>3
<1>11. CASE RemoveScratch
  <2>1. /\ Kept /\ child = "cleanup" /\ child' \in {"landlock", "seccomp", "close"}
        /\ refused \subseteq refused' /\ scratch' \in {scratch, {}}
        /\ TempWritable /\ scratch = {"root"} => scratch' = {} \/ "cleanup" \in refused'
    BY <1>11, <1>a, RemoveScratchIs, AfterType
  <2>2. PlaceholderGone
    BY <2>1 DEF Scratch
  <2>3. scratch' = {} \/ TempCovered \/ refused' \cap {"placeholder", "cleanup"} # {}
    BY <1>b, <2>1, <2>2, TempIsCovered DEF PlaceholderGone
  <2>4. Swept'
    BY <1>c, <2>1, <2>3 DEF Swept
  <2> QED
    BY <1>b, <2>1, <2>4 DEF Scratch
<1>12. CASE InstallLandlock
  <2>1. CASE GaveUp
    BY <1>3, <1>12, <1>a, <2>1, InstallLandlockIs, AfterType DEF GaveUp
  <2>2. CASE ~GaveUp
    BY <1>4, <1>12, <1>a, <2>2, InstallLandlockIs, AfterType
  <2> QED
    BY <2>1, <2>2
<1>13. CASE InstallSeccomp
  <2>1. CASE GaveUp
    BY <1>3, <1>13, <1>a, <2>1, InstallSeccompIs, AfterType DEF GaveUp
  <2>2. CASE ~GaveUp
    BY <1>4, <1>13, <1>a, <2>2, InstallSeccompIs, AfterType
  <2> QED
    BY <2>1, <2>2
<1>14. CASE CloseFds
  <2>1. CASE GaveUp
    BY <1>3, <1>14, <1>a, <2>1, CloseFdsIs, AfterType DEF GaveUp
  <2>2. CASE ~GaveUp
    BY <1>4, <1>14, <1>a, <2>2, CloseFdsIs, AfterType
  <2> QED
    BY <2>1, <2>2
<1>15. CASE Exec
  <2>1. CASE GaveUp
    BY <1>3, <1>15, <2>1, ExecIs
  <2>2. CASE ~GaveUp
    BY <1>4, <1>15, <2>2, ExecIs
  <2> QED
    BY <2>1, <2>2
<1> QED
  BY <1>1, <1>2, <1>5, <1>6, <1>7, <1>8, <1>9, <1>10, <1>11, <1>12, <1>13, <1>14, <1>15, NextIs

-----------------------------------------------------------------------------
(* The invariant holds.                                                    *)

LEMMA InitInv == Init => LaunchInv
<1> SUFFICES ASSUME Init PROVE LaunchInv
  OBVIOUS
<1> USE DEF Init, BeforeMounts, NamespacePlaces, OverlayPlaces, AfterOverlays
<1>1. TypeOK
  BY DEF TypeOK, Access, ParentPlaces, ChildPlaces, Errnos, NoRules
<1>2. Places /\ Undoing /\ Order /\ Descriptors
  BY DEF Places, Undoing, Order, Descriptors, Running
<1>3. Overlays
  BY DEF Overlays
<1>4. Confinement /\ Reports /\ Scratch
  BY DEF Confinement, NoRules, Reports, Scratch
<1> QED
  BY <1>1, <1>2, <1>3, <1>4 DEF LaunchInv

\* The parts of the invariant together hold in every reachable state.
THEOREM LaunchInvariant == Spec => []LaunchInv
<1>1. Init => LaunchInv
  BY InitInv
<1>2. LaunchInv /\ [Next]_vars => LaunchInv'
  BY TypeStep, PlacesStep, UndoingStep, OverlaysStep, OrderStep, DescriptorsStep, ConfinementStep, ReportsStep,
     ScratchStep DEF LaunchInv
<1> QED
  BY <1>1, <1>2, PTL DEF Spec

-----------------------------------------------------------------------------
(* The properties.                                                         *)

\* With nothing left to mount and nothing undone, every entry is in force.
LEMMA AllApplied == LaunchInv /\ Running /\ ~undone => \A e \in Entries : Applied(e)
  BY DEF LaunchInv, Running, Places, Overlays, AfterOverlays

\* An overlay below the cwd is crossed by walks from there.
LEMMA CrossedBelowCwd ==
    ASSUME TypeOK, NEW e \in Entries, ~OverlayAboveCwd, NEW p \in Paths,
           IsUnder(e.path, p), IsUnder(cwd, p)
    PROVE  CrossedFromCwd(e.path, p)
<1>1. e.path \in Paths /\ cwd \in Paths /\ e.path \in OverlayPaths(policy)
  BY EntriesAre DEF TypeOK, Entries, Overlay, OverlayPaths
<1>2. ~IsUnder(e.path, cwd)
  BY <1>1 DEF OverlayAboveCwd, Covered
<1>3. IsUnder(cwd, e.path)
  BY <1>1, <1>2, AboveTheSame
<1>4. cwd # e.path
  BY <1>1, <1>2, UnderItself
<1> QED
  BY <1>3, <1>4 DEF CrossedFromCwd, StrictlyUnder

\* A denied path is out of reach: behind an overlay, or outside of every
\* Landlock rule because no allowed path is near it.
LEMMA DeniedIsHidden ==
    ASSUME LaunchInv, Running, ~undone, NEW p \in Paths, Covered(denied_paths(policy), p)
    PROVE  /\ view[p] = "NoAccess" \/ LandlockAccess(p) = "NoAccess"
           /\ ~OverlayAboveCwd /\ IsUnder(cwd, p) =>
                  cwdView[p] = "NoAccess" \/ LandlockAccess(p) = "NoAccess"
<1>1. PICK d \in denied_paths(policy) : IsUnder(d, p)
  BY DEF Covered
<1>2. TypeOK /\ policy \in Policies
  BY DEF LaunchInv, TypeOK
<1>3. d \in Paths /\ readable_paths(policy) \subseteq Paths
  BY <1>2, PolicyType
<1>4. CASE default_read_access(policy) \/ \E a \in readable_paths(policy) : paths_overlap(d, a)
  <2>1. PICK e \in Entries : e.path = d /\ e.kind = "Deny"
    BY <1>2, <1>4, DeniedHasEntry DEF Entries
  <2>2. Hides(e)
    BY <2>1, AllApplied DEF Applied
  <2> QED
    BY <1>1, <1>2, <2>1, <2>2, CrossedBelowCwd DEF Hides
<1>5. CASE ~default_read_access(policy) /\ ~\E a \in readable_paths(policy) : paths_overlap(d, a)
  <2>1. ~default_write_access(policy)
    BY <1>5 DEF default_read_access, default_write_access
  <2>2. rules.installed /\ rules.read \cup rules.write \subseteq readable_paths(policy)
    BY <1>2, <1>5, <2>1, PolicyType DEF LaunchInv, Confinement, Running
  <2>3. \A r \in readable_paths(policy) : ~IsUnder(r, p)
    BY <1>1, <1>3, <1>5, AboveTheSame DEF paths_overlap
  <2> QED
    BY <2>2, <2>3 DEF LandlockAccess, Covered
<1> QED
  BY <1>4, <1>5

\* Landlock allows no more than what a policy grants to a path that it does
\* not deny, unless the default is to allow everything.
LEMMA LandlockIsTight ==
    ASSUME LaunchInv, Running, ~default_write_access(policy), NEW p \in Paths,
           ~Covered(denied_paths(policy), p)
    PROVE  LandlockAccess(p) \in Access /\ AtMost(LandlockAccess(p), Granted(policy, p))
<1>1. policy \in Policies /\ policy.default \in Access
  BY PolicyType DEF LaunchInv, TypeOK
<1>2. /\ rules.installed /\ rules.write \subseteq read_write_paths(policy)
      /\ ~default_read_access(policy) =>
             rules.read \subseteq read_only_paths(policy) \cup read_write_paths(policy)
  BY <1>1, PolicyType DEF LaunchInv, Confinement, Running
<1>3. Covered(rules.write, p) => Covered(read_write_paths(policy), p)
  BY <1>2 DEF Covered
<1>4. ~default_read_access(policy) /\ Covered(rules.read, p) =>
          Covered(read_only_paths(policy), p) \/ Covered(read_write_paths(policy), p)
  BY <1>2 DEF Covered
<1>5. Granted(policy, p) \in Access
  BY <1>1, GrantedIs
<1>6. CASE Covered(rules.write, p)
  <2>1. Granted(policy, p) = "ReadWrite"
    BY <1>1, <1>3, <1>6, GrantedIs DEF default_write_access
  <2> QED
    BY <1>2, <1>6, <2>1 DEF LandlockAccess, AtMost, Rank, Access
<1>7. CASE ~Covered(rules.write, p) /\ Covered(rules.read, p)
  <2>1. Granted(policy, p) # "NoAccess"
    BY <1>1, <1>4, <1>7, GrantedIs DEF default_read_access
  <2> QED
    BY <1>2, <1>5, <1>7, <2>1 DEF LandlockAccess, AtMost, Rank, Access
<1>8. CASE ~Covered(rules.write, p) /\ ~Covered(rules.read, p)
  BY <1>2, <1>5, <1>8 DEF LandlockAccess, AtMost, Rank, Access
<1> QED
  BY <1>6, <1>7, <1>8

\* The gap below a read-only overlay aside, the allowance is the grant.
LEMMA AllowanceIs ==
    ASSUME policy \in Policies, NEW p \in Paths
    PROVE  /\ Allowance(p) \in Access /\ AtMost(Granted(policy, p), Allowance(p))
           /\ UnderSubmount(p) /\ Granted(policy, p) = "ReadOnly" => Allowance(p) = "ReadWrite"
<1>1. Granted(policy, p) \in Access
  BY PolicyType, GrantedIs
<1> QED
  BY <1>1 DEF Allowance, AtMost, Rank, Access

\* A running program can do no more with any path than its policy grants
\* (overlays and Landlock) as long as it cannot, or does not, change its own
\* mounts, and has no network unless the policy says so.
THEOREM ProgramIsConfined == Spec => []ProgramConfined
<1>1. LaunchInv => ProgramConfined
  <2> SUFFICES ASSUME LaunchInv, Running PROVE ProgramConfined
    BY DEF ProgramConfined
  <2>1. TypeOK /\ policy \in Policies /\ policy.default \in Access
    BY PolicyType DEF LaunchInv, TypeOK
  <2>2. policy.network \/ seccomp
    BY DEF LaunchInv, Confinement, Running
  <2>u. undone => default_write_access(policy)
    BY DEF LaunchInv, Undoing, Confinement, Running
  <2>3. ASSUME ~undone, NEW p \in Paths
        PROVE  /\ AtMost(Effective(p), Allowance(p))
               /\ ~OverlayAboveCwd /\ IsUnder(cwd, p) =>
                      AtMost(EffectiveFromCwd(p), Allowance(p))
    <3>1. view[p] \in Access /\ cwdView[p] \in Access /\ LandlockAccess(p) \in Access
      BY <2>1 DEF TypeOK, LandlockAccess, Access
    <3>2. Granted(policy, p) \in Access
      BY <2>1, GrantedIs
    <3>3. Effective(p) \in Access /\ EffectiveFromCwd(p) \in Access
      BY <3>1, AccessOrder DEF Effective, EffectiveFromCwd
    <3>a. /\ Allowance(p) \in Access /\ AtMost(Granted(policy, p), Allowance(p))
          /\ UnderSubmount(p) /\ Granted(policy, p) = "ReadOnly" => Allowance(p) = "ReadWrite"
      BY <2>1, AllowanceIs
    <3>4. CASE Covered(denied_paths(policy), p)
      <4>1. Effective(p) = "NoAccess"
        BY <2>3, <3>1, <3>4, AccessOrder, DeniedIsHidden DEF Effective
      <4>2. ~OverlayAboveCwd /\ IsUnder(cwd, p) => EffectiveFromCwd(p) = "NoAccess"
        BY <2>3, <3>1, <3>4, AccessOrder, DeniedIsHidden DEF EffectiveFromCwd
      <4> QED
        BY <3>a, <4>1, <4>2 DEF AtMost, Rank, Access
    <3>5. CASE ~Covered(denied_paths(policy), p) /\ ~default_write_access(policy)
      <4>1. AtMost(LandlockAccess(p), Granted(policy, p))
        BY <3>5, LandlockIsTight
      <4>2. /\ AtMost(Effective(p), LandlockAccess(p))
            /\ AtMost(EffectiveFromCwd(p), LandlockAccess(p))
        BY <3>1, AccessOrder DEF Effective, EffectiveFromCwd
      <4>3. AtMost(LandlockAccess(p), Allowance(p))
        BY <3>1, <3>2, <3>a, <4>1, AtMostTransitive
      <4> QED
        BY <3>1, <3>3, <3>a, <4>2, <4>3, AtMostTransitive
    <3>6. CASE /\ ~Covered(denied_paths(policy), p) /\ default_write_access(policy)
               /\ ~Covered(read_only_paths(policy), p)
      <4>1. Granted(policy, p) = "ReadWrite"
        BY <2>1, <3>6, GrantedIs DEF default_write_access
      <4>2. Allowance(p) = "ReadWrite"
        BY <3>a, <4>1 DEF AtMost, Rank, Access
      <4> QED
        BY <3>3, <4>2 DEF AtMost, Rank, Access
    <3>7. CASE /\ ~Covered(denied_paths(policy), p) /\ default_write_access(policy)
               /\ Covered(read_only_paths(policy), p)
      <4>1. PICK r \in read_only_paths(policy) : IsUnder(r, p)
        BY <3>7 DEF Covered
      <4>2. r \notin denied_paths(policy)
        BY <3>7, <4>1 DEF Covered
      <4>3. PICK e \in Entries : e.path = r /\ e.kind = "ReadOnly"
        <5>1. [path |-> r, kind |-> "ReadOnly"] \in Entries
          BY <2>1, <3>7, <4>1, <4>2, ReadOnlyHasEntry DEF Entries
        <5> QED
          BY <5>1
      <4>4. Granted(policy, p) = "ReadOnly"
        <5>1. Granted(policy, p) \notin {"NoAccess", "ReadWrite"}
          BY <2>1, <3>7, GrantedIs DEF default_write_access
        <5> QED
          BY <3>2, <5>1 DEF Access
      <4>5. CASE ~OnMountOf(r, p)
        <5>1. Allowance(p) = "ReadWrite"
          BY <3>a, <4>1, <4>3, <4>4, <4>5 DEF UnderSubmount, Entries
        <5> QED
          BY <3>3, <5>1 DEF AtMost, Rank, Access
      <4>6. CASE OnMountOf(r, p)
        <5>1. Protects(e)
          BY <2>3, <4>3, AllApplied DEF Applied
        <5>2. view[p] # "ReadWrite"
          BY <4>3, <4>6, <5>1 DEF Protects
        <5>3. ~OverlayAboveCwd /\ IsUnder(cwd, p) => cwdView[p] # "ReadWrite"
          BY <2>1, <4>1, <4>3, <4>6, <5>1, CrossedBelowCwd DEF Protects
        <5>4. AtMost(Effective(p), view[p]) /\ AtMost(EffectiveFromCwd(p), cwdView[p])
          BY <3>1, AccessOrder DEF Effective, EffectiveFromCwd
        <5>5. \A a \in Access : a # "ReadWrite" => AtMost(a, Allowance(p))
          BY <3>a, <4>4 DEF AtMost, Rank, Access
        <5> QED
          BY <3>1, <3>3, <3>a, <5>2, <5>3, <5>4, <5>5, AtMostTransitive
      <4> QED
        BY <4>5, <4>6
    <3> QED
      BY <3>4, <3>5, <3>6, <3>7
  <2> QED
    BY <2>2, <2>u, <2>3 DEF ProgramConfined
<1> QED
  BY <1>1, LaunchInvariant, PTL

\* When nothing vanished, every grant of the policy is usable.
THEOREM GrantsAreUsable == Spec => []GrantsUsable
<1>1. LaunchInv => GrantsUsable
  <2> SUFFICES ASSUME LaunchInv, Running, exists = Paths, NEW p \in Paths
               PROVE  AtMost(Granted(policy, p), Effective(p))
    BY DEF GrantsUsable
  <2>1. TypeOK /\ Overlays /\ policy \in Policies /\ policy.default \in Access
    BY PolicyType DEF LaunchInv, TypeOK
  <2>2. /\ Granted(policy, p) \in Access /\ view[p] \in Access /\ LandlockAccess(p) \in Access
    BY <2>1, GrantedIs DEF TypeOK, LandlockAccess, Access
  <2>3. AtMost(Granted(policy, p), view[p])
    <3>1. CASE view[p] = "NoAccess"
      <4>1. PICK e \in Entries : e.kind = "Deny" /\ IsUnder(e.path, p)
        BY <2>1, <3>1 DEF Overlays
      <4>2. Covered(denied_paths(policy), p)
        BY <2>1, <4>1, EntriesAre DEF Entries, Covered
      <4>3. Granted(policy, p) = "NoAccess"
        BY <2>1, <4>2, GrantedIs
      <4> QED
        BY <3>1, <4>3 DEF AtMost, Rank
    <3>2. CASE view[p] = "ReadOnly"
      <4>1. PICK e \in Entries : e.kind = "ReadOnly" /\ IsUnder(e.path, p)
        BY <2>1, <3>2 DEF Overlays
      <4>2. Covered(read_only_paths(policy), p) /\ policy.default = "ReadWrite"
        BY <2>1, <4>1, EntriesAre DEF Entries, Covered
      <4>3. Granted(policy, p) # "ReadWrite"
        BY <2>1, <4>2, GrantedIs
      <4> QED
        BY <2>2, <3>2, <4>3 DEF AtMost, Rank, Access
    <3> QED
      BY <2>2, <3>1, <3>2 DEF AtMost, Rank, Access
  <2>4. AtMost(Granted(policy, p), LandlockAccess(p))
    <3>1. CASE ~rules.installed \/ Granted(policy, p) = "NoAccess"
      BY <2>2, <3>1 DEF LandlockAccess, AtMost, Rank, Access
    <3>2. CASE rules.installed /\ Granted(policy, p) # "NoAccess"
      <4>1. ~Covered(denied_paths(policy), p)
        BY <2>1, <3>2, GrantedIs
      <4>2. ASSUME NEW r \in readable_paths(policy), IsUnder(r, p) PROVE ~Covered(denied_paths(policy), r)
        <5>1. r \in Paths /\ denied_paths(policy) \subseteq Paths
          BY <2>1, PolicyType
        <5> QED
          BY <4>1, <4>2, <5>1, UnderTransitive DEF Covered
      <4>3. /\ ~default_write_access(policy)
            /\ \A r \in writable_paths(policy) : Covered(denied_paths(policy), r) \/ r \in rules.write
            /\ default_read_access(policy) => rules.read = {<<>>}
            /\ default_read_access(policy)
               \/ \A r \in readable_paths(policy) : Covered(denied_paths(policy), r) \/ r \in rules.read
        BY <3>2 DEF LaunchInv, Confinement
      <4>4. CASE Granted(policy, p) = "ReadWrite"
        <5>1. Covered(read_write_paths(policy), p)
          BY <2>1, <4>1, <4>3, <4>4, GrantedIs DEF default_write_access
        <5>2. Covered(rules.write, p)
          BY <2>1, <4>2, <4>3, <5>1, PolicyType DEF Covered
        <5> QED
          BY <4>4, <5>2 DEF LandlockAccess, AtMost, Rank
      <4>5. CASE Granted(policy, p) # "ReadWrite"
        <5>1. Covered(rules.read, p) \/ Covered(rules.write, p)
          <6>1. CASE default_read_access(policy)
            BY <4>3, <6>1, UnderRoot DEF Covered
          <6>2. CASE ~default_read_access(policy)
            <7>1. Covered(readable_paths(policy), p)
              BY <2>1, <3>2, <6>2, GrantedIs, PolicyType DEF default_read_access, Covered
            <7> QED
              BY <4>2, <4>3, <6>2, <7>1 DEF Covered
          <6> QED
            BY <6>1, <6>2
        <5>2. LandlockAccess(p) # "NoAccess"
          BY <5>1 DEF LandlockAccess
        <5> QED
          BY <2>2, <3>2, <4>5, <5>2 DEF AtMost, Rank, Access
      <4> QED
        BY <4>4, <4>5
    <3> QED
      BY <3>1, <3>2
  <2> QED
    BY <2>2, <2>3, <2>4, AccessOrder DEF Effective
<1> QED
  BY <1>1, LaunchInvariant, PTL

\* No descriptor of the caller reaches the program that lies below the soft
\* limit and below the cap of the fallback, and never the status pipe.
THEOREM NoInheritedDescriptor == Spec => []NoInheritedFds
<1>1. LaunchInv => NoInheritedFds
  BY DEF LaunchInv, Descriptors, NoInheritedFds, Running
<1> QED
  BY <1>1, LaunchInvariant, PTL

\* No mount of the child shows up in the host's own tree.
THEOREM HostTreeIsUntouched == Spec => []HostTreeUntouched
<1>1. LaunchInv => HostTreeUntouched
  BY DEF LaunchInv, Places, HostTreeUntouched
<1> QED
  BY <1>1, LaunchInvariant, PTL

\* Neither a running program nor a failed child leaves a scratch directory behind,
\* unless an overlay covers temp_dir(), a removal fails or the child failed
\* among the overlays.
THEOREM ScratchIsRemoved == Spec => []ScratchRemoved
<1>1. LaunchInv => ScratchRemoved
  BY DEF LaunchInv, Scratch, Swept, ScratchRemoved, TempCovered, AfterOverlays
<1> QED
  BY <1>1, LaunchInvariant, PTL

\* The setup does not fail of its own doing.
THEOREM CapableHostsLaunch == Spec => []CapableHostLaunches
<1>1. LaunchInv => CapableHostLaunches
  BY DEF LaunchInv, Scratch, CapableHostLaunches, TempCovered
<1> QED
  BY <1>1, LaunchInvariant, PTL

\* A failure is reported, and for what it is.
THEOREM FailuresAreReported == Spec => []FailureReported
<1>1. LaunchInv => FailureReported
  <2> SUFFICES ASSUME LaunchInv, parent = "returned" PROVE FailureReported
    BY DEF FailureReported
  <2>1. Reports
    BY DEF LaunchInv
  <2>2. ErrorOf(policy, report) \in {"Unavailable", "Io"}
        /\ (ErrorOf(policy, report) = "Unavailable" <=>
               UsesOverlays(policy) /\ report \in UnavailableErrnos)
    BY DEF ErrorOf
  <2>3. IF result = "launched" THEN Running \/ failedAt \in {"close", "exec"} \/ child = "exec"
                               ELSE child \in {"none", "failed"}
    BY <2>1, <2>2 DEF Reports, Running
  <2>4. failedAt \in NamespacePlaces => result = "Unavailable"
    BY <2>1, <2>2 DEF Reports, NamespacePlaces, UnavailableErrnos
  <2>5. failedAt \in OverlayPlaces /\ refused = {} => result = "Io"
    BY <2>1, <2>2 DEF Reports, OverlayPlaces, UnavailableErrnos
  <2>6. result = "Unavailable" => UsesOverlays(policy)
    BY <2>1, <2>2 DEF Reports
  <2> QED
    BY <2>3, <2>4, <2>5, <2>6 DEF FailureReported
<1> QED
  BY <1>1, LaunchInvariant, PTL
=============================================================================
