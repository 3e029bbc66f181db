----------------------- MODULE AppContainerAccessProofs -----------------------
(***************************************************************************)
(* Theorems about AppContainer: what the ACEs let the program do is what   *)
(* the policy grants, for any paths, requests and failures.                *)
(***************************************************************************)
EXTENDS AppContainerProofs, AccessPolicyProofs, WellFoundedInduction

USE FaultAssumption, RequestAssumption

Plan == AclPlan(request)
Boot == runtime_bootstrap_readonly_paths(request)
Applied == Entries(Plan) \ todo

\* No ACE says more than the plan and the bootstrap paths call for.
NoMoreThanPlanned ==
    \A p \in Paths :
        /\ "read" \in aces[p].allow => p \in Boot \cup Plan["ro"] \cup Plan["rw"]
        /\ "write" \in aces[p].allow => p \in Plan["rw"]
        /\ "read" \in aces[p].deny => p \in Plan["dn"]
        /\ "write" \in aces[p].deny => p \in Plan["dn"] \cup Plan["dw"]

\* The entries that were applied are in force, and no later one has undone them:
\* but for those that icacls failed on, for the deny-write ACEs of the native
\* way, and for a helper that has lost its log.
AsPlanned ==
    ~LogLost => \A e \in Applied :
        /\ e.kind = "dn" => aces[e.path].deny = Rights
        /\ e.kind = "dw" /\ helper = "ready" => "write" \in aces[e.path].deny
        /\ e.kind \in {"ro", "rw"} /\ "icacls" \notin faults =>
               Mask(e.kind) \subseteq aces[e.path].allow

\* What has been applied at each place of execute().
AccessPlace ==
    /\ pc \in {"check", "profile", "token", "helper", "network", "boot"} =>
           \A p \in Paths : aces[p] = NoAce
    /\ pc \in {"helper", "network", "boot"} => boot = Boot
    /\ pc \in {"network", "boot"} => todo = Entries(Plan)
    /\ pc \in {"network", "boot", "apply"} => elevated
    /\ pc = "helper" \/ (pc = "running" /\ helper = "ready") => ops = HelperEntries
    /\ pc = "running" => todo = {} /\ (helper = "ready" \/ elevated)
    /\ pc \in {"apply", "running"} =>
           todo \subseteq Entries(Plan) /\ NoMoreThanPlanned /\ AsPlanned

AccessInv == ContainerInv /\ AccessPlace

-----------------------------------------------------------------------------
(* The plan.                                                               *)

\* What each list of the plan holds, once conflicts are resolved.
LEMMA PlanIs ==
    ASSUME request \in Requests, present \subseteq Paths,
           NEW scope, scope = default_access_scope_paths(request),
           NEW D, D = denied_paths(Policy),
           NEW O, O = read_only_paths(Policy),
           NEW W, W = read_write_paths(Policy)
    PROVE  /\ Plan["dn"] = D
           /\ Plan["rw"] =
                 {p \in W \cup {s \in scope : Policy.default = "ReadWrite" /\ ~Covered(O, s)} :
                     ~Covered(D, p)} \ D
           /\ Plan["ro"] =
                 {p \in O \cup {s \in scope : Policy.default = "ReadOnly"} : ~Covered(D, p)}
                    \ (D \cup Plan["rw"])
           /\ Plan["dw"] = {o \in O : Policy.default = "ReadWrite"} \ (D \cup Plan["rw"])
<1>1. Policy.default \in Access
  BY DEF Policy
<1>2. /\ D = denied_paths(request.policy) /\ O = read_only_paths(request.policy)
      /\ W = read_write_paths(request.policy)
  BY DEF Policy
<1> DEFINE raw == RawPlan(request)
<1>3. CASE Policy.default = "NoAccess"
  <2>1. raw = [dn |-> D, dw |-> {}, ro |-> O, rw |-> W]
    BY <1>2, <1>3 DEF RawPlan, collect_acl_plan, Policy
  <2> QED
    BY <1>3, <2>1 DEF Plan, AclPlan, resolve_acl_conflicts, filter_paths_not_under_denied_roots
<1>4. CASE Policy.default = "ReadOnly"
  <2>1. raw = [dn |-> D, dw |-> {}, ro |-> scope \cup O, rw |-> W]
    BY <1>2, <1>4 DEF RawPlan, collect_acl_plan, Policy
  <2> QED
    BY <1>4, <2>1 DEF Plan, AclPlan, resolve_acl_conflicts, filter_paths_not_under_denied_roots
<1>5. CASE Policy.default = "ReadWrite"
  <2>1. raw = [dn |-> D, dw |-> O, ro |-> O, rw |-> {s \in scope : ~Covered(O, s)} \cup W]
    BY <1>2, <1>5 DEF RawPlan, collect_acl_plan, Policy, filter_paths_not_under_denied_roots
  <2> QED
    BY <1>5, <2>1 DEF Plan, AclPlan, resolve_acl_conflicts, filter_paths_not_under_denied_roots
<1> QED
  BY <1>1, <1>3, <1>4, <1>5 DEF Access

\* Its lists are paths of the host, and only read-only and deny-write entries
\* share one.
LEMMA PlanParts ==
    ASSUME request \in Requests, present \subseteq Paths
    PROVE  /\ Plan \in [Kinds -> SUBSET Paths] /\ Boot \subseteq Paths
           /\ Plan["dn"] \cap (Plan["ro"] \cup Plan["rw"] \cup Plan["dw"]) = {}
           /\ Plan["rw"] \cap (Plan["ro"] \cup Plan["dw"]) = {}
<1>1. Plan \in [Kinds -> SUBSET Paths] /\ Boot \subseteq Paths
  BY PlanType DEF Plan, Boot
<1> QED
  BY <1>1, PlanIs

LEMMA EntryIs ==
    ASSUME NEW plan \in [Kinds -> SUBSET Paths]
    PROVE  /\ \A e \in Entries(plan) :
                 e.kind \in Kinds /\ e.path \in plan[e.kind] /\ e.path \in Paths
           /\ \A k \in Kinds : \A p \in plan[k] :
                 [kind |-> k, path |-> p] \in Entries(plan)
  BY DEF Entries

\* It depends on the call and the host's paths alone.
LEMMA SamePlan ==
    ASSUME request' = request, present' = present
    PROVE  Plan' = Plan /\ Boot' = Boot
  BY DEF Plan, Boot, AclPlan, RawPlan, default_access_scope_paths, Program, Candidates,
     runtime_bootstrap_readonly_paths

-----------------------------------------------------------------------------
(* Applying it.                                                            *)

\* One ACE more, natively.
LEMMA NativeStep ==
    ASSUME TypeOK, NoMoreThanPlanned, AsPlanned, todo \subseteq Entries(Plan), helper = "idle",
           NEW e \in todo, UNCHANGED <<request, present, helper, faults>>,
           aces' = [aces EXCEPT ![e.path] = NativeAce(@, e.kind)],
           todo' = todo \ {e}
    PROVE  NoMoreThanPlanned' /\ AsPlanned'
<1> DEFINE q == e.path
<1>0. \A f \in Applied :
         /\ f.kind = "dn" => aces[f.path].deny = Rights
         /\ f.kind \in {"ro", "rw"} /\ "icacls" \notin faults =>
                Mask(f.kind) \subseteq aces[f.path].allow
  BY DEF AsPlanned, LogLost
<1>1. /\ Plan \in [Kinds -> SUBSET Paths]
      /\ Plan["dn"] \cap (Plan["ro"] \cup Plan["rw"] \cup Plan["dw"]) = {}
      /\ Plan["rw"] \cap (Plan["ro"] \cup Plan["dw"]) = {}
  BY PlanParts DEF TypeOK
<1>2. Plan' = Plan /\ Boot' = Boot
  BY SamePlan
<1>3. e.kind \in Kinds /\ q \in Plan[e.kind] /\ q \in Paths
  BY <1>1, EntryIs
<1>4. aces \in [Paths -> Aces]
  BY DEF TypeOK
<1>5. /\ aces'[q] = NativeAce(aces[q], e.kind)
      /\ \A p \in Paths \ {q} : aces'[p] = aces[p]
  BY <1>3, <1>4
<1>6. aces[q].allow \subseteq Rights /\ aces[q].deny \subseteq Rights
  BY <1>3, <1>4 DEF Aces
<1>7. CASE e.kind = "dn"
  <2>1. aces'[q].allow = aces[q].allow /\ aces'[q].deny = Rights
    BY <1>3, <1>4, <1>5, <1>6, <1>7 DEF NativeAce, Deny, Mask, Aces
  <2> QED
    <3>1. NoMoreThanPlanned'
      BY <1>2, <1>3, <1>5, <1>7, <2>1 DEF NoMoreThanPlanned
    <3>2. AsPlanned'
      <4> SUFFICES ASSUME NEW f \in Applied'
                   PROVE  /\ f.kind = "dn" => aces'[f.path].deny = Rights
                          /\ f.kind \in {"ro", "rw"} /\ "icacls" \notin faults =>
                                 Mask(f.kind) \subseteq aces'[f.path].allow
        BY DEF AsPlanned, LogLost
      <4>1. f = e \/ f \in Applied
        BY <1>2 DEF Applied
      <4>2. f.path \in Paths
        BY <1>1, <1>3, <4>1, EntryIs DEF Applied
      <4> QED
        BY <1>0, <1>5, <1>7, <2>1, <4>1, <4>2
    <3> QED
      BY <3>1, <3>2
<1>8. CASE e.kind = "dw"
  <2>1. aces'[q].allow = aces[q].allow /\ aces'[q].deny = aces[q].deny \cup {"write"}
    BY <1>3, <1>4, <1>5, <1>8 DEF NativeAce, Deny, Mask, Aces
  <2> QED
    <3>1. NoMoreThanPlanned'
      BY <1>2, <1>3, <1>5, <1>8, <2>1 DEF NoMoreThanPlanned
    <3>2. AsPlanned'
      <4> SUFFICES ASSUME NEW f \in Applied'
                   PROVE  /\ f.kind = "dn" => aces'[f.path].deny = Rights
                          /\ f.kind \in {"ro", "rw"} /\ "icacls" \notin faults =>
                                 Mask(f.kind) \subseteq aces'[f.path].allow
        BY DEF AsPlanned, LogLost
      <4>1. f = e \/ f \in Applied
        BY <1>2 DEF Applied
      <4>2. f.path \in Paths
        BY <1>1, <1>3, <4>1, EntryIs DEF Applied
      <4>3. CASE f.path # q
        BY <1>0, <1>5, <4>1, <4>2, <4>3
      <4>4. CASE f.path = q
        <5>1. /\ aces'[f.path].allow = aces[f.path].allow
              /\ aces[f.path].deny \subseteq aces'[f.path].deny
          BY <2>1, <4>4
        <5>2. f = e => f.kind \notin {"dn", "ro", "rw"}
          BY <1>8
        <5>3. aces'[f.path].deny \subseteq Rights
          BY <1>6, <2>1, <4>4 DEF Rights
        <5> QED
          BY <1>0, <4>1, <5>1, <5>2, <5>3
      <4> QED
        BY <4>3, <4>4
    <3> QED
      BY <3>1, <3>2
<1>9. CASE e.kind \in {"ro", "rw"}
  <2>1. aces'[q].allow = Mask(e.kind) /\ aces'[q].deny = {}
    BY <1>5, <1>9 DEF NativeAce
  <2>2. Mask("ro") = {"read"} /\ Mask("rw") = Rights
    BY DEF Mask
  <2>3. NoMoreThanPlanned'
    BY <1>2, <1>3, <1>5, <1>9, <2>1, <2>2 DEF NoMoreThanPlanned, Rights
  <2>4. AsPlanned'
    <3> SUFFICES ASSUME NEW f \in Applied'
                 PROVE  /\ f.kind = "dn" => aces'[f.path].deny = Rights
                        /\ f.kind \in {"ro", "rw"} /\ "icacls" \notin faults =>
                               Mask(f.kind) \subseteq aces'[f.path].allow
      BY DEF AsPlanned, LogLost
    <3>1. f = e \/ f \in Applied
      BY <1>2 DEF Applied
    <3>2. f.path \in Paths /\ f.kind \in Kinds /\ f.path \in Plan[f.kind]
      BY <1>1, <1>3, <3>1, EntryIs DEF Applied
    <3>3. CASE f = e \/ f.path # q
      BY <1>0, <1>5, <1>9, <2>1, <3>1, <3>2, <3>3
    <3>4. CASE f # e /\ f.path = q
      <4>1. f.kind # "dn" /\ (f.kind \in {"ro", "rw"} => f.kind = e.kind)
        BY <1>1, <1>3, <1>9, <3>2, <3>4
      <4> QED
        BY <2>1, <3>4, <4>1
    <3> QED
      BY <3>3, <3>4
  <2> QED
    BY <2>3, <2>4
<1> QED
  BY <1>3, <1>7, <1>8, <1>9 DEF Kinds

\* The helper's entries by icacls: all of them, but for an allow entry that
\* fails; or whatever it is that a helper without a log has in force.
LEMMA IcaclsStep ==
    ASSUME TypeOK, UNCHANGED <<request, present>>,
           NEW done, done \subseteq HelperEntries,
           \/ LogLost'
           \/ \A e \in HelperEntries \ done : e.kind \in {"ro", "rw"} /\ "icacls" \in faults',
           aces' = [p \in Paths |-> Icacls(done, p)], todo' = {}
    PROVE  NoMoreThanPlanned' /\ AsPlanned'
<1>1. /\ Plan \in [Kinds -> SUBSET Paths] /\ Boot \subseteq Paths
      /\ Plan["dn"] \cap (Plan["ro"] \cup Plan["rw"] \cup Plan["dw"]) = {}
      /\ Plan["rw"] \cap (Plan["ro"] \cup Plan["dw"]) = {}
  BY PlanParts DEF TypeOK
<1>2. Plan' = Plan /\ Boot' = Boot
  BY SamePlan
<1> DEFINE whole == resolve_acl_conflicts([Plan EXCEPT !.ro = @ \cup Boot])
<1>3. /\ whole \in [Kinds -> SUBSET Paths]
      /\ whole["dn"] = Plan["dn"] /\ whole["rw"] = Plan["rw"] /\ whole["dw"] = Plan["dw"]
      /\ Plan["ro"] \subseteq whole["ro"] /\ whole["ro"] \subseteq Plan["ro"] \cup Boot
  BY <1>1 DEF resolve_acl_conflicts, Kinds
<1>4. HelperEntries = Entries(whole)
  BY DEF Plan, Boot, HelperEntries
<1> HIDE DEF whole
<1>5. \A f \in HelperEntries : f.kind \in Kinds /\ f.path \in whole[f.kind] /\ f.path \in Paths
  BY <1>3, <1>4, EntryIs
<1>6. Entries(Plan) \subseteq HelperEntries
  <2> SUFFICES ASSUME NEW e \in Entries(Plan) PROVE e \in HelperEntries
    OBVIOUS
  <2>1. PICK k \in Kinds : \E p \in Plan[k] : e = [kind |-> k, path |-> p]
    BY DEF Entries
  <2>2. PICK p \in Plan[k] : e = [kind |-> k, path |-> p]
    BY <2>1
  <2>3. p \in whole[k]
    BY <1>3, <2>1, <2>2 DEF Kinds
  <2> QED
    BY <1>3, <1>4, <2>2, <2>3, EntryIs
<1>7. \A right : \A p \in Paths :
         /\ right \in aces'[p].allow <=>
               \E f \in done : f.path = p /\ f.kind \in {"ro", "rw"} /\ right \in Mask(f.kind)
         /\ right \in aces'[p].deny <=>
               \E f \in done : f.path = p /\ f.kind \in {"dn", "dw"} /\ right \in Mask(f.kind)
  BY DEF Icacls
<1>8. Mask("ro") = {"read"} /\ Mask("rw") = Rights /\ Mask("dn") = Rights /\ Mask("dw") = {"write"}
  BY DEF Mask
<1>9. NoMoreThanPlanned'
  <2> SUFFICES ASSUME NEW p \in Paths
               PROVE  /\ "read" \in aces'[p].allow => p \in Boot \cup Plan["ro"] \cup Plan["rw"]
                      /\ "write" \in aces'[p].allow => p \in Plan["rw"]
                      /\ "read" \in aces'[p].deny => p \in Plan["dn"]
                      /\ "write" \in aces'[p].deny => p \in Plan["dn"] \cup Plan["dw"]
    BY <1>2 DEF NoMoreThanPlanned
  <2>1. ASSUME NEW right \in aces'[p].allow
        PROVE  p \in whole["rw"] \/ (p \in whole["ro"] /\ right = "read")
    <3>1. PICK f \in done : f.path = p /\ f.kind \in {"ro", "rw"} /\ right \in Mask(f.kind)
      BY <1>7, <2>1
    <3> QED
      BY <1>5, <1>8, <3>1
  <2>2. ASSUME NEW right \in aces'[p].deny
        PROVE  p \in whole["dn"] \/ (p \in whole["dw"] /\ right = "write")
    <3>1. PICK f \in done : f.path = p /\ f.kind \in {"dn", "dw"} /\ right \in Mask(f.kind)
      BY <1>7, <2>2
    <3> QED
      BY <1>5, <1>8, <3>1
  <2> QED
    BY <1>3, <2>1, <2>2
<1>10. AsPlanned'
  <2> SUFFICES ASSUME ~LogLost', NEW f \in Applied'
               PROVE  /\ f.kind = "dn" => aces'[f.path].deny = Rights
                      /\ f.kind = "dw" => "write" \in aces'[f.path].deny
                      /\ f.kind \in {"ro", "rw"} /\ "icacls" \notin faults' =>
                             Mask(f.kind) \subseteq aces'[f.path].allow
    BY DEF AsPlanned
  <2>1. f \in HelperEntries /\ f.path \in Paths
    BY <1>2, <1>5, <1>6 DEF Applied
  <2>2. f.kind = "dn" => aces'[f.path].deny = Rights
    <3> SUFFICES ASSUME f.kind = "dn" PROVE aces'[f.path].deny = Rights
      OBVIOUS
    <3>1. f \in done
      BY <2>1
    <3>2. Rights \subseteq aces'[f.path].deny
      BY <1>7, <1>8, <2>1, <3>1
    <3>3. aces'[f.path].deny \subseteq Rights
      BY <2>1, IcaclsType DEF Aces
    <3> QED
      BY <3>2, <3>3
  <2>3. f.kind = "dw" => "write" \in aces'[f.path].deny
    <3> SUFFICES ASSUME f.kind = "dw" PROVE "write" \in aces'[f.path].deny
      OBVIOUS
    <3>1. f \in done
      BY <2>1
    <3> QED
      BY <1>7, <1>8, <2>1, <3>1
  <2>4. f.kind \in {"ro", "rw"} /\ "icacls" \notin faults' =>
           Mask(f.kind) \subseteq aces'[f.path].allow
    BY <1>7, <2>1
  <2> QED
    BY <2>2, <2>3, <2>4
<1> QED
  BY <1>9, <1>10

\* What does not touch the ACEs leaves them as they are.
LEMMA Untouched ==
    ASSUME AccessPlace, UNCHANGED <<hostVars, aclVars, helper>>, faults \subseteq faults'
    PROVE  /\ Plan' = Plan /\ Boot' = Boot
           /\ NoMoreThanPlanned => NoMoreThanPlanned'
           /\ AsPlanned => AsPlanned'
<1>1. Plan' = Plan /\ Boot' = Boot
  BY SamePlan DEF hostVars
<1> QED
  BY <1>1 DEF aclVars, NoMoreThanPlanned, AsPlanned, Applied, LogLost

LEMMA AccessStep ==
    TypeOK /\ HelperPlace /\ AccessPlace /\ [Next]_vars => AccessPlace'
<1> SUFFICES ASSUME TypeOK, HelperPlace, AccessPlace, [Next]_vars PROVE AccessPlace'
  OBVIOUS
<1> USE DEF Works, Go, Leave, Return
<1>a. UNCHANGED hostVars
  BY DEF Next, vars, Prepare, CreateContext, ChooseWay, SpawnHelper, HelperHolds, InstallFilters,
     GrantBootstrap, AddAce, RunProgram, DropHelper, DropNetwork, RollBack, DropContext, Done,
     Dropping
<1>b. Plan' = Plan /\ Boot' = Boot
  BY <1>a, SamePlan DEF hostVars
<1>d. HelperEntries' = HelperEntries
  BY <1>a, <1>b, SamePlan DEF HelperEntries, Plan, Boot, hostVars
<1>c. pc' \in {"drop", "returned"} => AccessPlace'
  BY DEF AccessPlace
<1>1. CASE UNCHANGED vars
  <2>1. UNCHANGED <<pc, hostVars, aclVars, ops, helper, faults>>
    BY <1>1 DEF vars, helperVars
  <2> QED
    BY <1>b, <1>d, <2>1, Untouched DEF AccessPlace, hostVars, aclVars
<1>2. CASE Prepare \/ CreateContext
  BY <1>2 DEF Prepare, CreateContext, AccessPlace, aclVars
<1>3. CASE ChooseWay
  BY <1>3, <1>b, <1>d DEF ChooseWay, AccessPlace, HelperPlace, Plan, Boot, hostVars
<1>4. CASE SpawnHelper
  <2>1. /\ pc = "helper" /\ todo' = {} /\ aces' = [p \in Paths |-> Icacls(held', p)]
        /\ ops' = ops /\ ops = HelperEntries
    BY <1>4, SpawnIs DEF AccessPlace
  <2>2. CASE Contract!Ready /\ helper' = "ready" /\ pc' = "running"
    <3>1. held' \subseteq HelperEntries
          /\ (LogLost' \/ \A e \in HelperEntries \ held' :
                               e.kind \in {"ro", "rw"} /\ "icacls" \in faults')
      BY <2>1, <2>2, ReadyIs DEF LogLost
    <3>2. NoMoreThanPlanned' /\ AsPlanned'
      BY <1>a, <2>1, <3>1, IcaclsStep DEF hostVars
    <3> QED
      BY <1>d, <2>1, <2>2, <3>2 DEF AccessPlace
  <2> QED
    BY <1>4, <1>c, <2>2, SpawnIs
<1>9. CASE HelperHolds
  <2>1. /\ UNCHANGED <<hostVars, pc, todo>> /\ helper' = helper /\ ops' = ops /\ faults \subseteq faults'
        /\ aces' = [p \in Paths |-> Icacls(held', p)] /\ pc \in {"running", "drop", "returned"}
    BY <1>9, HelperHoldsIs DEF HelperPlace
  <2>2. CASE pc = "running"
    <3>1. helper = "ready" /\ todo = {} /\ ops = HelperEntries
      BY <1>9, <2>2, HelperHoldsIs DEF HelperPlace, AccessPlace
    <3>2. NoMoreThanPlanned' /\ AsPlanned'
      <4>1. CASE "log" \in faults' /\ held' \subseteq ops
        <5>1. LogLost' /\ held' \subseteq HelperEntries /\ todo' = {}
          BY <2>1, <3>1, <4>1 DEF LogLost
        <5> QED
          BY <2>1, <5>1, IcaclsStep DEF hostVars
      <4>2. CASE UNCHANGED <<held, rules>>
        <5>1. UNCHANGED <<aces, request, present>>
          BY <2>1, <3>1, <4>2 DEF HelperPlace, hostVars
        <5> QED
          BY <1>b, <2>1, <2>2, <5>1 DEF AccessPlace, NoMoreThanPlanned, AsPlanned, Applied, LogLost
      <4> QED
        BY <1>9, <2>1, <3>1, <4>1, <4>2, HelperHoldsIs DEF Asked
    <3> QED
      BY <1>d, <2>1, <2>2, <3>1, <3>2 DEF AccessPlace
  <2> QED
    BY <1>c, <2>1, <2>2
<1>5. CASE InstallFilters
  <2>1. pc = "network" /\ UNCHANGED <<hostVars, aclVars, helperVars>> /\ pc' \in {"network", "boot", "drop"}
    BY <1>5 DEF InstallFilters
  <2> QED
    BY <1>b, <2>1 DEF AccessPlace, aclVars, hostVars
<1>6. CASE GrantBootstrap
  <2>1. PICK set \in SUBSET Boot :
           aces' = [p \in Paths |-> IF p \in set THEN NativeAce(aces[p], "ro") ELSE aces[p]]
    <3>1. PICK set \in {boot} \cup {boot \ {p} : p \in boot} :
             aces' = [p \in Paths |-> IF p \in set THEN NativeAce(aces[p], "ro") ELSE aces[p]]
      BY <1>6 DEF GrantBootstrap
    <3>2. set \subseteq Boot
      BY <1>6, <3>1 DEF GrantBootstrap, AccessPlace
    <3> QED
      BY <3>1, <3>2
  <2>2. /\ pc = "boot" /\ pc' = "apply" /\ todo' = todo /\ todo = Entries(Plan)
        /\ elevated' /\ \A p \in Paths : aces[p] = NoAce
    BY <1>6, <1>a DEF GrantBootstrap, AccessPlace, hostVars
  <2>3. \A p \in Paths : /\ aces'[p].deny = {}
                         /\ aces'[p].allow \subseteq {"read"}
                         /\ aces'[p].allow # {} => p \in Boot
    BY <2>1, <2>2 DEF NativeAce, NoAce, Mask
  <2>4. NoMoreThanPlanned'
    BY <1>b, <2>3 DEF NoMoreThanPlanned
  <2>5. AsPlanned'
    BY <1>b, <2>2 DEF AsPlanned, Applied
  <2> QED
    BY <1>b, <2>2, <2>4, <2>5 DEF AccessPlace
<1>7. CASE AddAce
  <2>1. /\ pc = "apply" /\ helper = "idle" /\ helper' = helper /\ elevated /\ elevated' = elevated
        /\ todo \subseteq Entries(Plan) /\ NoMoreThanPlanned /\ AsPlanned
    BY <1>7, <1>a DEF AddAce, AccessPlace, HelperPlace, hostVars, helperVars
  <2>2. CASE todo = {}
    <3>1. pc' = "running" /\ UNCHANGED <<aclVars, faults>>
      BY <1>7, <2>2 DEF AddAce
    <3> QED
      BY <1>a, <1>b, <2>1, <2>2, <3>1, Untouched DEF AccessPlace, aclVars
  <2>3. CASE todo # {} /\ pc' # "drop"
    <3>1. PICK e \in First(todo) :
             /\ UNCHANGED faults /\ pc' = "apply"
             /\ aces' = [aces EXCEPT ![e.path] = NativeAce(@, e.kind)]
             /\ todo' = todo \ {e}
      BY <1>7, <2>3 DEF AddAce
    <3>2. NoMoreThanPlanned' /\ AsPlanned'
      BY <1>a, <2>1, <3>1, NativeStep DEF First, hostVars
    <3> QED
      BY <1>b, <2>1, <3>1, <3>2 DEF AccessPlace
  <2> QED
    BY <1>c, <2>2, <2>3
<1>8. CASE RunProgram \/ Drops \/ Done
  BY <1>c, <1>8 DEF RunProgram, Drops, DropHelper, DropNetwork, RollBack, DropContext, Dropping, Done
<1> QED
  BY <1>1, <1>2, <1>3, <1>4, <1>5, <1>6, <1>7, <1>8, <1>9, NextIs DEF Acquires

\* The invariant: ContainerInv, and the ACEs are those of the plan, in force as
\* far as the plan was applied, whatever conflicts it has.
THEOREM AccessInvariant == Spec => []AccessInv
<1>1. Init => AccessPlace
  BY DEF Init, AccessPlace
<1>2. ContainerInv /\ AccessPlace /\ [Next]_vars => AccessPlace'
  BY AccessStep DEF ContainerInv
<1> QED
  BY <1>1, <1>2, ContainerInvariant, PTL DEF Spec, AccessInv

-----------------------------------------------------------------------------
(* What the ACEs amount to.                                                *)

\* Of the paths at or above an object, one is the nearest.
LEMMA Nearest ==
    ASSUME NEW x \in Seq(Nat), NEW set \in SUBSET Seq(Nat), set # {},
           \A q \in set : IsUnder(q, x)
    PROVE  \E q \in set : \A r \in set : ~StrictlyUnder(q, r)
<1> DEFINE Less == {ss \in Nat \X Nat : ss[1] < ss[2]}
           Distance == {Len(x) - Len(q) : q \in set}
<1>1. IsWellFoundedOn(Less, Nat)
  BY NatLessThanWellFounded DEF OpToRel
<1>2. \A q \in set : Len(x) - Len(q) \in Nat
  <2> SUFFICES ASSUME NEW q \in set PROVE Len(x) - Len(q) \in Nat
    OBVIOUS
  <2>1. Len(x) \in Nat /\ Len(q) \in Nat /\ Len(q) <= Len(x)
    BY DEF IsUnder
  <2> QED
    BY <2>1
<1>3. Distance \subseteq Nat /\ Distance # {}
  BY <1>2
<1>4. PICK d \in Distance : \A y \in Distance : <<y, d>> \notin Less
  <2> HIDE DEF Less, Distance
  <2> QED
    BY <1>1, <1>3, WFMin
<1>5. PICK q \in set : d = Len(x) - Len(q)
  BY <1>4
<1>6. ASSUME NEW r \in set, StrictlyUnder(q, r) PROVE FALSE
  <2>1. Len(q) < Len(r)
    BY <1>6, StrictlyUnderLen
  <2>2. Len(x) - Len(r) \in Nat /\ Len(x) - Len(q) \in Nat /\ Len(x) - Len(r) \in Distance
    BY <1>2
  <2>3. Len(x) \in Nat /\ Len(q) \in Nat /\ Len(r) \in Nat
    OBVIOUS
  <2>4. Len(x) - Len(r) < Len(x) - Len(q)
    BY <2>1, <2>3
  <2> QED
    BY <1>4, <1>5, <2>2, <2>4
<1> QED
  BY <1>5, <1>6

\* A right is granted below an ACE that allows it, unless an ACE at or above the
\* object denies it.
LEMMA AllowedBelow ==
    ASSUME NEW x \in Paths, NEW p \in Paths, NEW right,
           IsUnder(p, x), right \in aces[p].allow,
           \A q \in Paths : IsUnder(q, x) => right \notin aces[q].deny
    PROVE  Can(right, x)
<1> DEFINE set == {q \in Paths : IsUnder(q, x) /\ right \in aces[q].allow \cup aces[q].deny}
<1>1. set \subseteq Seq(Nat) /\ p \in set /\ \A q \in set : IsUnder(q, x)
  OBVIOUS
<1>2. PICK q \in set : \A r \in set : ~StrictlyUnder(q, r)
  <2>1. x \in Seq(Nat)
    OBVIOUS
  <2> HIDE DEF set
  <2> QED
    BY <1>1, <2>1, Nearest
<1>3. q \in Paths /\ IsUnder(q, x) /\ right \in aces[q].allow \ aces[q].deny
  BY <1>2
<1>4. \A r \in Paths : StrictlyUnder(q, r) /\ IsUnder(r, x) =>
         right \notin aces[r].allow \cup aces[r].deny
  BY <1>2
<1> QED
  BY <1>3, <1>4 DEF Can

\* The entries of a policy are paths of the host.
LEMMA PolicyPaths ==
    ASSUME request \in Requests
    PROVE  /\ denied_paths(Policy) \subseteq Paths /\ read_only_paths(Policy) \subseteq Paths
           /\ read_write_paths(Policy) \subseteq Paths
           /\ readable_paths(Policy) = read_only_paths(Policy) \cup read_write_paths(Policy)
           /\ Policy.default \in Access
  BY DEF denied_paths, read_only_paths, read_write_paths, readable_paths, collect_paths, Policy

\* The ACEs of the running program are those of the whole plan.
LEMMA WhileRunning ==
    ASSUME AccessInv, Running, ~LogLost
    PROVE  /\ request \in Requests /\ present \subseteq Paths /\ NoMoreThanPlanned
           /\ helper = "ready" \/ elevated
           /\ \A p \in Plan["dn"] : aces[p].deny = Rights
           /\ helper = "ready" => \A p \in Plan["dw"] : "write" \in aces[p].deny
           /\ "icacls" \notin faults =>
                 /\ \A p \in Plan["ro"] : "read" \in aces[p].allow
                 /\ \A p \in Plan["rw"] : "read" \in aces[p].allow /\ "write" \in aces[p].allow
<1>1. /\ request \in Requests /\ present \subseteq Paths /\ NoMoreThanPlanned /\ AsPlanned
      /\ todo = {} /\ (helper = "ready" \/ elevated)
  BY DEF AccessInv, ContainerInv, TypeOK, AccessPlace, Running
<1>2. \A k \in Kinds : \A p \in Plan[k] : [kind |-> k, path |-> p] \in Applied
  BY <1>1, PlanParts, EntryIs DEF Applied
<1>3. \A k \in Kinds : \A p \in Plan[k] :
         /\ k = "dn" => aces[p].deny = Rights
         /\ k = "dw" /\ helper = "ready" => "write" \in aces[p].deny
         /\ k \in {"ro", "rw"} /\ "icacls" \notin faults => Mask(k) \subseteq aces[p].allow
  <2> SUFFICES ASSUME NEW k \in Kinds, NEW p \in Plan[k]
               PROVE  /\ k = "dn" => aces[p].deny = Rights
                      /\ k = "dw" /\ helper = "ready" => "write" \in aces[p].deny
                      /\ k \in {"ro", "rw"} /\ "icacls" \notin faults =>
                             Mask(k) \subseteq aces[p].allow
    OBVIOUS
  <2> DEFINE e == [kind |-> k, path |-> p]
  <2>1. e \in Applied /\ e.kind = k /\ e.path = p
    BY <1>2
  <2> HIDE DEF e
  <2> QED
    BY <1>1, <2>1 DEF AsPlanned
<1> QED
  BY <1>1, <1>3 DEF Kinds, Mask, Rights

\* Below an allow entry that decides there is no denied root.
LEMMA NotDenied ==
    ASSUME AccessInv, Running, ~LogLost, NEW x \in Paths, NEW p \in Plan["ro"] \cup Plan["rw"],
           NEW right \in Rights, IsUnder(p, x),
           \A q \in Paths : StrictlyUnder(p, q) /\ IsUnder(q, x) =>
               right \notin aces[q].allow \cup aces[q].deny
    PROVE  p \in Paths /\ ~Covered(denied_paths(Policy), x)
<1>1. /\ request \in Requests /\ present \subseteq Paths
      /\ \A d \in Plan["dn"] : aces[d].deny = Rights
  BY WhileRunning
<1>2. Plan["dn"] = denied_paths(Policy) /\ ~Covered(denied_paths(Policy), p)
  BY <1>1, PlanIs
<1>3. p \in Paths
  BY <1>1, PlanParts DEF Kinds
<1>4. ASSUME NEW d \in denied_paths(Policy), IsUnder(d, x) PROVE FALSE
  <2>1. d \in Paths
    BY <1>1, PolicyPaths
  <2>2. ~IsUnder(d, p)
    BY <1>2 DEF Covered
  <2>3. IsUnder(p, d) /\ p # d
    BY <1>3, <1>4, <2>1, <2>2, AboveTheSame, UnderItself
  <2> QED
    BY <1>1, <1>2, <1>4, <2>1, <2>3 DEF StrictlyUnder
<1> QED
  BY <1>3, <1>4 DEF Covered

\* README.md:192-195.  Whatever entries nest or conflict, and whichever of the
\* two ways applied them, the program reads and writes what the policy grants,
\* but for the bootstrap paths and the overlays of the native way.
THEOREM ContainerConfines == Spec => []ProgramConfined
<1>1. AccessInv => ProgramConfined
  <2> SUFFICES ASSUME AccessInv, Running, ~LogLost, NEW x \in Paths
               PROVE  /\ Can("read", x) => Granted(Policy, x) # "NoAccess" \/ Bootstrap(x)
                      /\ Can("write", x) =>
                            \/ Granted(Policy, x) = "ReadWrite"
                            \/ /\ Covered(read_write_paths(Policy), x)
                               /\ ~Covered(denied_paths(Policy), x)
                            \/ Overlay(x) /\ elevated
    BY DEF ProgramConfined
  <2> DEFINE D == denied_paths(Policy)
             O == read_only_paths(Policy)
             W == read_write_paths(Policy)
  <2>1. /\ request \in Requests /\ present \subseteq Paths /\ NoMoreThanPlanned
        /\ helper = "ready" \/ elevated
        /\ helper = "ready" => \A p \in Plan["dw"] : "write" \in aces[p].deny
    BY WhileRunning
  <2>2. Policy.default \in Access /\ D \subseteq Paths /\ O \subseteq Paths /\ W \subseteq Paths
    BY <2>1, PolicyPaths
  <2>3. ASSUME Can("read", x), ~Bootstrap(x) PROVE Granted(Policy, x) # "NoAccess"
    <3>1. PICK p \in Paths :
             /\ IsUnder(p, x) /\ "read" \in aces[p].allow
             /\ \A q \in Paths : StrictlyUnder(p, q) /\ IsUnder(q, x) =>
                   "read" \notin aces[q].allow \cup aces[q].deny
      BY <2>3 DEF Can
    <3>2. p \notin Boot
      BY <2>3, <3>1 DEF Bootstrap, Boot, Covered
    <3>3. p \in Plan["ro"] \cup Plan["rw"]
      BY <2>1, <3>1, <3>2 DEF NoMoreThanPlanned
    <3>4. ~Covered(D, x)
      BY <3>1, <3>3, NotDenied DEF Rights
    <3>5. p \in O \cup W \/ Policy.default # "NoAccess"
      BY <2>1, <3>3, PlanIs
    <3>6. p \in O \cup W => Covered(O, x) \/ Covered(W, x)
      BY <3>1 DEF Covered
    <3> QED
      BY <2>2, <3>4, <3>5, <3>6, GrantedIs
  <2>4. ASSUME Can("write", x), ~(Covered(W, x) /\ ~Covered(D, x))
        PROVE  Granted(Policy, x) = "ReadWrite" \/ (Overlay(x) /\ elevated)
    <3>1. PICK p \in Paths :
             /\ IsUnder(p, x) /\ "write" \in aces[p].allow
             /\ \A q \in Paths : StrictlyUnder(p, q) /\ IsUnder(q, x) =>
                   "write" \notin aces[q].allow \cup aces[q].deny
      BY <2>4 DEF Can
    <3>2. p \in Plan["rw"]
      BY <2>1, <3>1 DEF NoMoreThanPlanned
    <3>3. ~Covered(D, x) /\ ~Covered(W, x)
      BY <2>4, <3>1, <3>2, NotDenied DEF Rights
    <3>4. p \notin W
      BY <3>1, <3>3 DEF Covered
    <3>5. Policy.default = "ReadWrite" /\ ~Covered(O, p)
      BY <2>1, <3>2, <3>4, PlanIs
    <3>6. CASE ~Covered(O, x)
      BY <2>2, <3>3, <3>5, <3>6, GrantedIs
    <3>7. CASE Covered(O, x)
      <4>1. Overlay(x)
        BY <3>3, <3>5, <3>7 DEF Overlay
      <4>2. PICK o \in O : IsUnder(o, x)
        BY <3>7 DEF Covered
      <4>3. o \in Paths /\ ~IsUnder(o, p)
        BY <2>2, <3>5, <4>2 DEF Covered
      <4>4. StrictlyUnder(p, o)
        BY <3>1, <4>2, <4>3, AboveTheSame, UnderItself DEF StrictlyUnder
      <4>5. o \notin D /\ o \notin W /\ Covered(O, o)
        BY <3>3, <4>2, <4>3, UnderItself DEF Covered
      <4>6. o \in Plan["dw"]
        BY <2>1, <3>5, <4>2, <4>5, PlanIs
      <4>7. helper # "ready"
        BY <2>1, <3>1, <4>2, <4>3, <4>4, <4>6
      <4> QED
        BY <2>1, <4>1, <4>7
    <3> QED
      BY <3>6, <3>7
  <2> QED
    BY <2>3, <2>4
<1> QED
  BY <1>1, AccessInvariant, PTL

\* Nor do the entries take each other's grants away: what is listed, and what
\* is in the scope of the default, can be read and written as granted.
THEOREM ContainerGrants == Spec => []GrantsUsable
<1>1. AccessInv => GrantsUsable
  <2> SUFFICES ASSUME AccessInv, Running, {"icacls", "log"} \cap faults = {}, NEW x \in Paths,
                      NEW scope,
                      scope = (IF Policy.default = "NoAccess" THEN readable_paths(Policy)
                               ELSE default_access_scope_paths(request)),
                      Covered(scope, x)
               PROVE  /\ Granted(Policy, x) # "NoAccess" => Can("read", x)
                      /\ Granted(Policy, x) = "ReadWrite" => Can("write", x)
    BY DEF GrantsUsable
  <2> DEFINE D == denied_paths(Policy)
             O == read_only_paths(Policy)
             W == read_write_paths(Policy)
  <2>1. /\ request \in Requests /\ present \subseteq Paths /\ NoMoreThanPlanned
        /\ \A p \in Plan["ro"] : "read" \in aces[p].allow
        /\ \A p \in Plan["rw"] : "read" \in aces[p].allow /\ "write" \in aces[p].allow
    BY WhileRunning DEF LogLost
  <2>2. /\ Policy.default \in Access /\ D \subseteq Paths /\ O \subseteq Paths /\ W \subseteq Paths
        /\ readable_paths(Policy) = O \cup W
    BY <2>1, PolicyPaths
  <2>3. Plan["ro"] \subseteq Paths /\ Plan["rw"] \subseteq Paths
    BY <2>1, PlanParts DEF Kinds
  <2>4. PICK s \in scope : IsUnder(s, x)
    BY DEF Covered
  <2>5. s \in Paths
    BY <2>1, <2>2, <2>4 DEF default_access_scope_paths
  <2>6. ASSUME Granted(Policy, x) # "NoAccess" PROVE Can("read", x)
    <3>1. ~Covered(D, x)
      BY <2>2, <2>6, GrantedIs
    <3>2. \A p \in Paths : IsUnder(p, x) => ~Covered(D, p) /\ p \notin D
      BY <2>2, <3>1, CoveredBelow DEF Covered
    <3>3. \A p \in O \cup W : IsUnder(p, x) => p \in Plan["ro"] \cup Plan["rw"]
      BY <2>1, <2>2, <3>2, PlanIs
    <3>4. PICK p \in Plan["ro"] \cup Plan["rw"] : IsUnder(p, x)
      <4>1. CASE Policy.default = "NoAccess"
        BY <2>2, <2>4, <3>3, <4>1
      <4>2. CASE Policy.default = "ReadOnly"
        BY <2>1, <2>4, <2>5, <3>2, <4>2, PlanIs
      <4>3. CASE Policy.default = "ReadWrite" /\ ~Covered(O, s)
        BY <2>1, <2>4, <2>5, <3>2, <4>3, PlanIs
      <4>4. CASE Covered(O, s)
        BY <2>2, <2>4, <2>5, <3>3, <4>4, UnderTransitive DEF Covered
      <4> QED
        BY <2>2, <4>1, <4>2, <4>3, <4>4 DEF Access
    <3>5. \A q \in Paths : IsUnder(q, x) => "read" \notin aces[q].deny
      BY <2>1, <3>2, PlanIs DEF NoMoreThanPlanned
    <3> QED
      BY <2>1, <2>3, <3>4, <3>5, AllowedBelow
  <2>7. ASSUME Granted(Policy, x) = "ReadWrite" PROVE Can("write", x)
    <3>1. ~Covered(D, x)
      BY <2>2, <2>7, GrantedIs
    <3>2. \A p \in Paths : IsUnder(p, x) => ~Covered(D, p) /\ p \notin D
      BY <2>2, <3>1, CoveredBelow DEF Covered
    <3>3. \/ Policy.default = "ReadWrite" /\ ~Covered(O, x)
          \/ Policy.default # "ReadWrite" /\ Covered(W, x)
      BY <2>2, <2>7, <3>1, GrantedIs
    <3>4. PICK p \in Plan["rw"] : IsUnder(p, x)
      <4>1. CASE Policy.default = "ReadWrite" /\ ~Covered(O, x)
        <5>1. ~Covered(O, s)
          BY <2>2, <2>4, <2>5, <4>1, CoveredBelow
        <5> QED
          BY <2>1, <2>4, <2>5, <3>2, <4>1, <5>1, PlanIs
      <4>2. CASE Covered(W, x)
        BY <2>1, <2>2, <3>2, <4>2, PlanIs DEF Covered
      <4> QED
        BY <3>3, <4>1, <4>2
    <3>5. \A q \in Paths : IsUnder(q, x) => "write" \notin aces[q].deny
      <4> SUFFICES ASSUME NEW q \in Paths, IsUnder(q, x), "write" \in aces[q].deny PROVE FALSE
        OBVIOUS
      <4>1. q \in Plan["dw"]
        BY <2>1, <3>2, PlanIs DEF NoMoreThanPlanned
      <4>2. q \in O /\ Policy.default = "ReadWrite"
        BY <2>1, <4>1, PlanIs
      <4> QED
        BY <3>3, <4>2 DEF Covered
    <3> QED
      BY <2>1, <2>3, <3>4, <3>5, AllowedBelow
  <2> QED
    BY <2>6, <2>7
<1> QED
  BY <1>1, AccessInvariant, PTL
=============================================================================
