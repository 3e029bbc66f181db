------------------------- MODULE AppContainerProofs -------------------------
(***************************************************************************)
(* Theorems about AppContainer: what its execute() acquires it gives back, *)
(* in an order in which each thing is there for as long as it is needed,   *)
(* for any paths and requests and whatever calls fail.                     *)
(***************************************************************************)
EXTENDS AppContainer, TLAPS

Guards == {"acl", "boot", "network", "helper", "context"}

\* The guards that a list of drops still holds.
Held(list) == {list[i] : i \in 1..Len(list)}
NoRepeat(list) == \A i, j \in 1..Len(list) : list[i] = list[j] => i = j

\* Each guard is dropped once, and the context, which owns the SID, last.
DropOrder ==
    /\ drops \in Seq(Guards) /\ NoRepeat(drops) /\ Len(drops) <= 5
    /\ drops # <<>> => drops[Len(drops)] = "context"
    /\ pc # "drop" => drops = <<>>

Acquired == {"token", "helper", "network", "boot", "apply", "running"}
Holds(guard) == pc = "drop" /\ guard \in Held(drops)

\* The SID and the profile are there from "profile" to the drop of the context.
TokenPlace ==
    /\ sid = "valid" <=> pc \in Acquired \/ Holds("context")
    /\ profile = "created" => sid = "valid" \/ "delete" \in faults

\* What is there natively is tracked, as long as its rollback is held.
AcePlace ==
    /\ tracked.boot # {} => pc \in Acquired \/ Holds("boot")
    /\ tracked.acl # {} => pc \in Acquired \/ Holds("acl")
    /\ helper = "idle" => \A p \in Paths : aces[p].allow # {} =>
           p \in tracked.boot \cup tracked.acl \/ "revoke" \in faults
    /\ pc \in {"check", "profile", "token", "helper", "network", "boot"} =>
           tracked.boot = {} /\ tracked.acl = {}

\* What the helper has in force is all there is; it has both rules in force
\* from spawn to the drop and nothing after it, as far as its contract goes.
HelperPlace ==
    /\ pc \notin {"running", "drop", "returned"} => helper = "idle"
    /\ helper = "idle" => held = {} /\ rules = {}
    /\ helper = "ready" => pc = "running" \/ Holds("helper")
    /\ helper = "ready" => rules = {"out", "in"} \/ "log" \in faults
    /\ helper = "over" => /\ pc # "running"
                          /\ (held = {} /\ rules = {}) \/ faults \cap {"log", "unclean"} # {}
    /\ helper # "idle" => /\ tracked.boot = {} /\ tracked.acl = {} /\ wfp = "idle"
                          /\ aces = [p \in Paths |-> Icacls(held, p)]
    /\ pc \in {"profile"} \cup Acquired => ~Policy.network

InSession == {"app_id", "begin", "add", "commit", "close", "in_force"}

\* The filters are those of the session, and the program starts behind them.
NetPlace ==
    /\ engine <=> wfp \in InSession
    /\ filters = IF wfp = "in_force" THEN BLOCK_LAYERS ELSE 0
    /\ pending = 0 \/ wfp \in {"add", "commit"}
    /\ wfp = "add" => pending < BLOCK_LAYERS
    /\ wfp = "commit" => pending = BLOCK_LAYERS
    /\ pc \in {"check", "profile", "token", "helper"} => wfp = "idle"
    /\ pc = "network" => wfp \notin {"idle", "dropped"}
    /\ pc \in {"boot", "apply"} => wfp = "in_force"
    /\ pc = "running" => wfp = "in_force" \/ helper = "ready"
    /\ pc \in {"drop", "returned"} =>
           wfp \in {"idle", "failed", "dropped"} \/ (wfp = "in_force" /\ Holds("network"))

ContainerInv ==
    /\ TypeOK /\ DropOrder /\ TokenPlace /\ AcePlace /\ HelperPlace /\ NetPlace

-----------------------------------------------------------------------------
(* Lists of guards.                                                        *)

\* Taking the first guard off a list.
LEMMA TailHolds ==
    ASSUME NEW list \in Seq(Guards), list # <<>>, NoRepeat(list)
    PROVE  /\ Tail(list) \in Seq(Guards) /\ Len(Tail(list)) = Len(list) - 1
           /\ NoRepeat(Tail(list))
           /\ Held(Tail(list)) = Held(list) \ {Head(list)}
           /\ Tail(list) # <<>> => Tail(list)[Len(Tail(list))] = list[Len(list)]
           /\ Tail(list) = <<>> => list[Len(list)] = Head(list)
<1>1. /\ Tail(list) \in Seq(Guards) /\ Len(Tail(list)) = Len(list) - 1
      /\ \A i \in 1..Len(Tail(list)) : Tail(list)[i] = list[i + 1]
  OBVIOUS
<1>2. Len(list) \in Nat /\ Len(list) > 0
  OBVIOUS
<1>3. NoRepeat(Tail(list))
  BY <1>1, <1>2 DEF NoRepeat
<1>4. ASSUME NEW g \in Held(Tail(list)) PROVE g \in Held(list) \ {Head(list)}
  BY <1>1, <1>2 DEF NoRepeat, Held
<1>5. ASSUME NEW g \in Held(list) \ {Head(list)} PROVE g \in Held(Tail(list))
  <2>1. PICK i \in 1..Len(list) : g = list[i]
    BY <1>5 DEF Held
  <2>2. i # 1
    BY <1>2, <1>5, <2>1
  <2>3. i - 1 \in 1..Len(Tail(list)) /\ Tail(list)[i - 1] = list[i]
    BY <1>1, <1>2, <2>1, <2>2
  <2> QED
    BY <2>1, <2>3 DEF Held
<1>6. Tail(list) # <<>> => Tail(list)[Len(Tail(list))] = list[Len(list)]
  BY <1>1, <1>2
<1>7. Tail(list) = <<>> => list[Len(list)] = Head(list)
  BY <1>1, <1>2
<1> QED
  BY <1>1, <1>3, <1>4, <1>5, <1>6, <1>7

\* Both orders of dropping.
GoodOrder(list) ==
    /\ list \in Seq(Guards) /\ NoRepeat(list) /\ Len(list) = 5
    /\ list[Len(list)] = "context" /\ Held(list) = Guards

LEMMA Orders == GoodOrder(UnwindDrops) /\ GoodOrder(NormalDrops)
<1>1. ASSUME NEW a, NEW b, NEW c, NEW d, NEW e, {a, b, c, d, e} = Guards,
             a \notin {b, c, d, e}, b \notin {c, d, e}, c \notin {d, e}, d # e, e = "context"
      PROVE  GoodOrder(<<a, b, c, d, e>>)
  <2> DEFINE list == <<a, b, c, d, e>>
  <2>1. list \in Seq(Guards) /\ Len(list) = 5
    BY <1>1
  <2>2. list[1] = a /\ list[2] = b /\ list[3] = c /\ list[4] = d /\ list[5] = e
    OBVIOUS
  <2> HIDE DEF list
  <2>3. \A i \in 1..5 : i = 1 \/ i = 2 \/ i = 3 \/ i = 4 \/ i = 5
    OBVIOUS
  <2>4. NoRepeat(list)
    BY <1>1, <2>1, <2>2, <2>3 DEF NoRepeat
  <2>5. Held(list) = {a, b, c, d, e}
    BY <2>1, <2>2, <2>3 DEF Held
  <2> QED
    BY <1>1, <2>1, <2>2, <2>4, <2>5 DEF GoodOrder, list
<1> QED
  BY <1>1 DEF UnwindDrops, NormalDrops, Guards

\* Leaving by an error or after the run, all guards are still held.
LEMMA LeaveHolds ==
    ASSUME DropOrder, NEW value, NEW order, GoodOrder(order), Leave(value, order)
    PROVE  DropOrder' /\ \A g \in Guards : Holds(g)'
<1>1. pc' = "drop" /\ drops' = order
  BY DEF Leave
<1>2. DropOrder'
  <2>1. /\ drops' \in Seq(Guards) /\ NoRepeat(drops') /\ Len(drops') = 5
        /\ drops'[Len(drops')] = "context"
    BY <1>1 DEF GoodOrder
  <2> QED
    BY <1>1, <2>1 DEF DropOrder
<1>3. \A g \in Guards : Holds(g)'
  BY <1>1 DEF Holds, GoodOrder
<1> QED
  BY <1>2, <1>3

\* Dropping a guard.
LEMMA DroppingHolds ==
    ASSUME DropOrder, NEW guard \in Guards, Dropping(guard)
    PROVE  /\ DropOrder' /\ pc = "drop" /\ pc' = "drop" /\ Holds(guard) /\ ~Holds(guard)'
           /\ \A g \in Guards \ {guard} : Holds(g)' <=> Holds(g)
           /\ Holds("context")' <=> guard # "context"
<1>1. /\ drops \in Seq(Guards) /\ NoRepeat(drops) /\ drops # <<>> /\ Head(drops) = guard
      /\ drops' = Tail(drops) /\ drops[Len(drops)] = "context" /\ Len(drops) <= 5
      /\ pc = "drop" /\ pc' = "drop"
  BY DEF DropOrder, Dropping
<1>2. Len(drops) \in Nat /\ Len(drops) > 0 /\ Head(drops) = drops[1]
  BY <1>1
<1>3. guard \in Held(drops) /\ "context" \in Held(drops)
  BY <1>1, <1>2 DEF Held
<1>4. Held(drops') = Held(drops) \ {guard}
  BY <1>1, TailHolds
<1>5. DropOrder'
  BY <1>1, <1>2, TailHolds DEF DropOrder
<1> QED
  BY <1>1, <1>3, <1>4, <1>5 DEF Holds

-----------------------------------------------------------------------------
(* Types.                                                                  *)

USE FaultAssumption, RequestAssumption

LEMMA FailsIs ==
    ASSUME NEW call, Fails(call) PROVE call \in MayFail /\ faults' = faults \cup {call}
  BY DEF Fails

LEMMA MoreFailIs ==
    ASSUME MoreFail PROVE faults \subseteq faults' /\ faults' \subseteq faults \cup MayFail
  BY DEF MoreFail

-----------------------------------------------------------------------------
(* What the contract of the helper comes to, where no path is ever gone.   *)

HelperOpen == "log" \in faults \/ (helper = "over" /\ "unclean" \in faults)
Asked == held \subseteq ops /\ rules \subseteq {"out", "in"}

LEMMA HelperOpenIs == (Contract!Open <=> HelperOpen) /\ (Contract!Open <=> HelperOpen)'
  BY DEF Contract!Open, HelperOpen, HelperCalls

LEMMA WorsenIs == ASSUME Contract!Worsen PROVE ops' = ops /\ (HelperOpen' => Asked')
  BY HelperOpenIs DEF Contract!Worsen, Contract!Rules, Asked

LEMMA ReadyIs ==
    ASSUME Contract!Ready
    PROVE  /\ helper = "idle" /\ helper' = "ready" /\ ops' = ops /\ held' \subseteq ops
           /\ \/ "log" \in faults' /\ Asked'
              \/ /\ rules' = IF ~request.policy.network THEN {"out", "in"} ELSE {}
                 /\ \A e \in ops \ held' : e.kind \in {"ro", "rw"} /\ "icacls" \in faults'
<1>1. helper = "idle" /\ helper' = "ready" /\ ops' = ops /\ (HelperOpen' => Asked')
  BY WorsenIs DEF Contract!Ready
<1>2. CASE HelperOpen'
  BY <1>1, <1>2 DEF HelperOpen, Asked
<1>3. CASE ~HelperOpen'
  <2>1. PICK missing \in SUBSET (Contract!Lost \cup Contract!Unset)' : held' = ops \ missing
    BY <1>3, HelperOpenIs DEF Contract!Ready
  <2>2. \A e \in missing : e.kind \in {"ro", "rw"} /\ "icacls" \in faults'
    BY <2>1 DEF Contract!Lost, Contract!Unset, Contract!AllowKinds, HelperCalls
  <2>3. rules' = IF ~request.policy.network THEN {"out", "in"} ELSE {}
    BY <1>3, HelperOpenIs DEF Contract!Ready, Contract!Rules
  <2> QED
    BY <1>1, <2>1, <2>2, <2>3
<1> QED
  BY <1>2, <1>3

LEMMA HoldIs ==
    ASSUME Contract!Hold
    PROVE  /\ helper = "ready" /\ helper' = "ready" /\ ops' = ops
           /\ ("log" \in faults' /\ Asked') \/ UNCHANGED <<held, rules>>
<1>1. helper = "ready" /\ helper' = "ready" /\ ops' = ops /\ (HelperOpen' => Asked')
  BY WorsenIs DEF Contract!Hold
<1>2. CASE HelperOpen'
  BY <1>1, <1>2 DEF HelperOpen
<1>3. CASE ~HelperOpen'
  <2>1. PICK lost \in SUBSET Contract!Lost' : held' = held \ lost
    BY <1>3, HelperOpenIs DEF Contract!Hold
  <2>2. lost = {}
    BY <2>1 DEF Contract!Lost
  <2> QED
    BY <1>1, <1>3, <2>1, <2>2, HelperOpenIs DEF Contract!Hold
<1> QED
  BY <1>2, <1>3

LEMMA EndIs ==
    ASSUME Contract!End
    PROVE  /\ helper # "over" /\ helper' = "over" /\ ops' = ops
           /\ \/ faults' \cap {"log", "unclean"} # {} /\ Asked'
              \/ held' = {} /\ rules' = {}
  BY WorsenIs, HelperOpenIs DEF Contract!End, HelperOpen

LEMMA LateIs ==
    ASSUME Contract!Late
    PROVE  /\ helper = "over" /\ helper' = "over" /\ ops' = ops
           /\ \/ faults' \cap {"log", "unclean"} # {} /\ Asked'
              \/ UNCHANGED <<held, rules>>
  BY WorsenIs, HelperOpenIs DEF Contract!Late, HelperOpen

\* The start of the helper.
LEMMA SpawnIs ==
    ASSUME SpawnHelper
    PROVE  /\ pc = "helper" /\ todo' = {} /\ boot' = {} /\ ops' = ops
           /\ UNCHANGED <<hostVars, tracked, tokenVars, netVars>>
           /\ faults \subseteq faults' /\ faults' \subseteq faults \cup MayFail
           /\ aces' = [p \in Paths |-> Icacls(held', p)]
           /\ \/ Contract!Ready /\ helper' = "ready" /\ Go("running")
              \/ /\ Contract!End /\ helper' = "over"
                 /\ \E error \in {"Denied", "Windows", "Io"} : Leave(error, UnwindDrops)
<1>1. \/ Contract!Ready /\ Go("running")
      \/ Contract!End /\ \E error \in {"Denied", "Windows", "Io"} : Leave(error, UnwindDrops)
  BY DEF SpawnHelper
<1>2. Contract!Ready => helper' = "ready" /\ ops' = ops
  BY ReadyIs
<1>3. Contract!End => helper' = "over" /\ ops' = ops
  BY EndIs
<1>4. pc = "helper" /\ todo' = {} /\ boot' = {} /\ MoreFail
      /\ UNCHANGED <<hostVars, tracked, tokenVars, netVars>>
      /\ aces' = [p \in Paths |-> Icacls(held', p)]
  BY DEF SpawnHelper, HelperAces
<1> QED
  BY <1>1, <1>2, <1>3, <1>4, MoreFailIs
\* Its drop.
LEMMA DropHelperIs ==
    ASSUME DropHelper
    PROVE  /\ Dropping("helper") /\ ops' = ops /\ UNCHANGED <<tracked, tokenVars, netVars>>
           /\ faults \subseteq faults' /\ faults' \subseteq faults \cup MayFail
           /\ \/ /\ helper = "ready" /\ helper' = "over"
                 /\ aces' = [p \in Paths |-> Icacls(held', p)]
                 /\ \/ faults' \cap {"log", "unclean"} # {} /\ Asked'
                    \/ held' = {} /\ rules' = {}
              \/ helper # "ready" /\ UNCHANGED <<aces, helper, held, rules>>
  BY MoreFailIs, EndIs DEF DropHelper, HelperAces, helperVars, Works

\* And what it does in between, and afterwards.
LEMMA HelperHoldsIs ==
    ASSUME HelperHolds
    PROVE  /\ UNCHANGED <<hostVars, pc, todo, boot, tracked, drops, tokenVars, result, netVars>>
           /\ helper \in {"ready", "over"} /\ helper' = helper /\ ops' = ops
           /\ faults \subseteq faults' /\ faults' \subseteq faults \cup MayFail
           /\ aces' = [p \in Paths |-> Icacls(held', p)]
           /\ \/ /\ "log" \in faults' \/ (helper = "over" /\ "unclean" \in faults')
                 /\ Asked'
              \/ UNCHANGED <<held, rules>>
  BY MoreFailIs, HoldIs, LateIs DEF HelperHolds, HelperAces

-----------------------------------------------------------------------------
\* The plan speaks of paths of the host.
LEMMA PlanType ==
    ASSUME request \in Requests, present \subseteq Paths
    PROVE  /\ AclPlan(request) \in [Kinds -> SUBSET Paths]
           /\ runtime_bootstrap_readonly_paths(request) \subseteq Paths
<1>1. \A a : collect_paths(request.policy, a) \subseteq Paths
  BY DEF collect_paths
<1>2. default_access_scope_paths(request) \subseteq Paths
  BY DEF default_access_scope_paths
<1>3. runtime_bootstrap_readonly_paths(request) \subseteq Paths
  BY DEF runtime_bootstrap_readonly_paths
<1>4. RawPlan(request) \in [dn : SUBSET Paths, dw : SUBSET Paths, ro : SUBSET Paths, rw : SUBSET Paths]
  BY <1>1, <1>2 DEF RawPlan, collect_acl_plan, Access, denied_paths, read_only_paths,
     read_write_paths, filter_paths_not_under_denied_roots
<1> QED
  BY <1>3, <1>4 DEF AclPlan, resolve_acl_conflicts, filter_paths_not_under_denied_roots, Kinds

LEMMA EntriesType ==
    ASSUME NEW plan \in [Kinds -> SUBSET Paths]
    PROVE  Entries(plan) \subseteq [kind : Kinds, path : Paths]
  BY DEF Entries

LEMMA HelperEntriesType ==
    ASSUME request \in Requests, present \subseteq Paths
    PROVE  HelperEntries \subseteq [kind : Kinds, path : Paths]
<1> DEFINE plan == [AclPlan(request) EXCEPT !.ro = @ \cup runtime_bootstrap_readonly_paths(request)]
<1>1. plan \in [Kinds -> SUBSET Paths]
  BY PlanType DEF Kinds
<1> HIDE DEF plan
<1>2. resolve_acl_conflicts(plan) \in [Kinds -> SUBSET Paths]
  BY <1>1 DEF resolve_acl_conflicts, Kinds
<1>3. HelperEntries = Entries(resolve_acl_conflicts(plan))
  BY DEF HelperEntries, plan
<1> QED
  BY <1>2, <1>3, EntriesType

LEMMA NativeAceType == ASSUME NEW ace \in Aces, NEW kind PROVE NativeAce(ace, kind) \in Aces
  BY DEF Aces, NativeAce, Deny, Mask, Rights

LEMMA IcaclsType == ASSUME NEW entries, NEW path PROVE Icacls(entries, path) \in Aces
  BY DEF Aces, Icacls, Mask, Rights

LEMMA NoAceType == NoAce \in Aces
  BY DEF Aces, NoAce

\* The installation of the filters as one step: where it goes, and what it
\* has opened, added and put in force by then.
LEMMA InstallType == NetTypeOK /\ NetPlace /\ Install => NetTypeOK'
<1> SUFFICES ASSUME NetTypeOK, NetPlace, Install PROVE NetTypeOK'
  OBVIOUS
<1> USE DEF NetTypeOK, NetCall, Works, BLOCK_LAYERS
<1>1. CASE OpenEngine
  BY <1>1, FailsIs DEF OpenEngine
<1>2. CASE AppId
  BY <1>2, FailsIs DEF AppId
<1>3. CASE Begin
  BY <1>3, FailsIs DEF Begin
<1>4. CASE AddFilter
  BY <1>4, FailsIs DEF AddFilter, NetPlace
<1>5. CASE Commit
  BY <1>5, FailsIs DEF Commit
<1>6. CASE CloseEngine \/ TryElevated
  BY <1>6 DEF CloseEngine, TryElevated
<1> QED
  BY <1>1, <1>2, <1>3, <1>4, <1>5, <1>6 DEF Install

\* Each action leaves every variable in its type.
LEMMA TypeStep == TypeOK /\ HelperPlace /\ NetPlace /\ DropOrder' /\ [Next]_vars => TypeOK'
<1> SUFFICES ASSUME TypeOK, HelperPlace, NetPlace, DropOrder', [Next]_vars PROVE TypeOK'
  OBVIOUS
<1> USE DEF hostVars, aclVars, helperVars, tokenVars, netVars, Works, Go, Return, Leave
<1>0. Len(drops') <= 5
  BY DEF DropOrder
<1>a. aces \in [Paths -> Aces]
  BY DEF TypeOK
<1>1. CASE UNCHANGED vars
  BY <1>1 DEF vars, TypeOK, NetTypeOK
<1>2. CASE Prepare
  BY <1>0, <1>2 DEF TypeOK, NetTypeOK, Prepare
<1>3. CASE CreateContext
  BY <1>0, <1>3, FailsIs DEF TypeOK, NetTypeOK, CreateContext
<1>4. CASE ChooseWay
  <2>1. /\ todo' \subseteq [kind : Kinds, path : Paths] /\ boot' \subseteq Paths
        /\ ops' \subseteq [kind : Kinds, path : Paths] /\ held = {}
    BY <1>4, PlanType, HelperEntriesType, EntriesType DEF ChooseWay, TypeOK, HelperPlace
  <2> QED
    BY <1>0, <1>4, <2>1, FailsIs DEF TypeOK, NetTypeOK, ChooseWay
<1>5. CASE SpawnHelper
  <2>1. aces' \in [Paths -> Aces]
    BY <1>5, SpawnIs, IcaclsType
  <2>2. held' \subseteq ops /\ rules' \subseteq {"out", "in"}
    BY <1>5, SpawnIs, ReadyIs, EndIs DEF Asked
  <2>3. /\ ops' = ops /\ todo' = {} /\ boot' = {} /\ faults' \subseteq faults \cup MayFail
        /\ UNCHANGED <<hostVars, tracked, tokenVars, netVars>>
    BY <1>5, SpawnIs
  <2>4. /\ helper' \in {"ready", "over"} /\ pc' \in {"running", "drop"}
        /\ result' \in {result, "Denied", "Windows", "Io"}
    BY <1>5, SpawnIs
  <2> QED
    BY <1>0, <2>1, <2>2, <2>3, <2>4 DEF TypeOK, NetTypeOK
<1>15. CASE HelperHolds
  <2>1. aces' \in [Paths -> Aces]
    BY <1>15, HelperHoldsIs, IcaclsType
  <2>2. held' \subseteq ops /\ rules' \subseteq {"out", "in"} /\ ops' = ops /\ helper' = helper
    BY <1>15, HelperHoldsIs DEF Asked, TypeOK
  <2>3. /\ faults' \subseteq faults \cup MayFail
        /\ UNCHANGED <<hostVars, pc, todo, boot, tracked, drops, tokenVars, result, netVars>>
    BY <1>15, HelperHoldsIs
  <2> QED
    BY <1>0, <2>1, <2>2, <2>3 DEF TypeOK, NetTypeOK
<1>6. CASE InstallFilters
  <2>1. NetTypeOK'
    <3>1. CASE Install
      BY <3>1, InstallType DEF TypeOK
    <3>2. CASE UNCHANGED <<netVars, faults>>
      BY <3>2 DEF TypeOK, NetTypeOK
    <3> QED
      BY <1>6, <3>1, <3>2 DEF InstallFilters
  <2>2. pc' \in {pc, "boot", "drop"} /\ result' \in {result, "Denied", "Windows"}
        /\ UNCHANGED <<hostVars, aclVars, helperVars, tokenVars>>
    BY <1>6 DEF InstallFilters
  <2> QED
    BY <1>0, <2>1, <2>2 DEF TypeOK
<1>7. CASE GrantBootstrap
  <2>1. aces' \in [Paths -> Aces]
    <3>1. PICK set :
             aces' = [p \in Paths |-> IF p \in set THEN NativeAce(aces[p], "ro") ELSE aces[p]]
      BY <1>7 DEF GrantBootstrap
    <3> QED
      BY <1>a, <3>1, NativeAceType
  <2> QED
    <3>1. PICK set \in {boot} \cup {boot \ {p} : p \in boot} :
             tracked' = [tracked EXCEPT !.boot = set]
      BY <1>7 DEF GrantBootstrap
    <3>2. tracked' \in [boot : SUBSET Paths, acl : SUBSET Paths]
      <4>1. set \subseteq Paths /\ tracked \in [boot : SUBSET Paths, acl : SUBSET Paths]
        BY DEF TypeOK
      <4> QED
        BY <3>1, <4>1
    <3>3. /\ boot' = {} /\ pc' = "apply" /\ UNCHANGED <<drops, result>>
          /\ UNCHANGED <<hostVars, todo, helperVars, tokenVars, netVars>>
      BY <1>7 DEF GrantBootstrap
    <3>4. faults' \subseteq faults \cup MayFail
      BY <1>7, FailsIs DEF GrantBootstrap
    <3> QED
      BY <1>0, <2>1, <3>2, <3>3, <3>4 DEF TypeOK, NetTypeOK
<1>8. CASE AddAce
  <2>1. CASE todo = {}
    BY <1>0, <1>8, <2>1 DEF TypeOK, NetTypeOK, AddAce
  <2>2. CASE todo # {}
    <3>1. PICK e \in First(todo) :
             \/ /\ Works /\ Go("apply")
                /\ aces' = [aces EXCEPT ![e.path] = NativeAce(@, e.kind)]
                /\ todo' = todo \ {e}
                /\ tracked' = [tracked EXCEPT !.acl = @ \cup {e.path}]
             \/ /\ Fails("ace") /\ Leave("Windows", UnwindDrops)
                /\ UNCHANGED <<aces, todo, tracked>>
      BY <1>8, <2>2 DEF AddAce
    <3>2. e.path \in Paths
      BY DEF First, TypeOK
    <3>3. aces' \in [Paths -> Aces]
      BY <1>a, <3>1, <3>2, NativeAceType
    <3> QED
      <4>1. todo' \subseteq todo /\ tracked' \in [boot : SUBSET Paths, acl : SUBSET Paths]
        BY <3>1, <3>2 DEF TypeOK
      <4>2. pc' \in {"apply", "drop"} /\ result' \in {result, "Windows"} /\ faults' \subseteq MayFail
        BY <3>1, FailsIs DEF TypeOK, NetTypeOK
      <4>3. UNCHANGED <<boot, hostVars, helperVars, tokenVars, netVars>>
        BY <1>8, <2>2 DEF AddAce
      <4> QED
        BY <1>0, <3>3, <4>1, <4>2, <4>3 DEF TypeOK, NetTypeOK
  <2> QED
    BY <2>1, <2>2
<1>9. CASE RunProgram
  BY <1>0, <1>9, FailsIs DEF TypeOK, NetTypeOK, RunProgram
<1>10. CASE DropHelper
  <2>1. aces' \in [Paths -> Aces]
    BY <1>a, <1>10, DropHelperIs, IcaclsType
  <2>2. held' \subseteq ops /\ rules' \subseteq {"out", "in"} /\ ops' = ops
        /\ helper' \in {helper, "over"}
    BY <1>10, DropHelperIs DEF Asked, TypeOK
  <2>3. /\ faults' \subseteq faults \cup MayFail
        /\ UNCHANGED <<hostVars, pc, todo, boot, result, tracked, tokenVars, netVars>>
    BY <1>10, DropHelperIs DEF Dropping
  <2> QED
    BY <1>0, <2>1, <2>2, <2>3 DEF TypeOK, NetTypeOK
<1>11. CASE DropNetwork
  <2>0. engine' \in BOOLEAN
    BY <1>11 DEF DropNetwork, DropSession, TypeOK, NetTypeOK
  <2>1. /\ wfp' \in {wfp, "dropped"} /\ filters' \in {filters, 0}
        /\ UNCHANGED <<pending, hostVars, pc, todo, boot, result, aces, tracked, helperVars,
                       tokenVars, faults>>
    BY <1>11 DEF DropNetwork, Dropping, DropSession
  <2> QED
    <3>1. filters' \in 0..BLOCK_LAYERS
      BY <2>1 DEF TypeOK, NetTypeOK, BLOCK_LAYERS
    <3> QED
      BY <1>0, <2>0, <2>1, <3>1 DEF TypeOK, NetTypeOK
<1>12. ASSUME NEW guard \in {"boot", "acl"}, RollBack(guard) PROVE TypeOK'
  <2>1. aces' \in [Paths -> Aces]
    <3>1. PICK set, kept : aces' = Revoked(set, kept)
      BY <1>12 DEF RollBack
    <3> QED
      BY <1>a, <3>1 DEF Revoked, Aces
  <2> QED
    <3>1. tracked' \in [boot : SUBSET Paths, acl : SUBSET Paths]
      BY <1>12 DEF TypeOK, RollBack
    <3>2. /\ faults' \subseteq MayFail
          /\ UNCHANGED <<hostVars, pc, todo, boot, result, helperVars, tokenVars, netVars>>
      BY <1>12, FailsIs DEF TypeOK, NetTypeOK, RollBack, Dropping
    <3> QED
      BY <1>0, <2>1, <3>1, <3>2 DEF TypeOK, NetTypeOK
<1>13. CASE DropContext
  BY <1>0, <1>13, FailsIs DEF TypeOK, NetTypeOK, DropContext, Dropping
<1>14. CASE Done
  BY <1>0, <1>14 DEF TypeOK, NetTypeOK, Done
<1> QED
  BY <1>1, <1>2, <1>3, <1>4, <1>5, <1>6, <1>7, <1>8, <1>9, <1>10, <1>11, <1>12, <1>13, <1>14,
     <1>15
     DEF Next

-----------------------------------------------------------------------------
(* The drops, the SID and the profile.                                     *)

Acquires ==
    ChooseWay \/ SpawnHelper \/ InstallFilters \/ GrantBootstrap \/ AddAce \/ RunProgram

\* While resources are acquired the next place is one where they still are, or
\* all guards are about to be dropped.
LEMMA Acquiring ==
    ASSUME DropOrder, Acquires
    PROVE  /\ pc \in Acquired /\ DropOrder'
           /\ pc' \in Acquired \/ (\A g \in Guards : Holds(g)')
<1>1. pc \in Acquired
  BY DEF Acquires, ChooseWay, SpawnHelper, InstallFilters, GrantBootstrap, AddAce, RunProgram,
     Acquired
<1>2. \/ pc' \in Acquired /\ drops' = drops
      \/ \E value, order : Leave(value, order) /\ order \in {UnwindDrops, NormalDrops}
  <2>1. CASE ChooseWay
    BY <2>1 DEF ChooseWay, Go, Acquired
  <2>2. CASE SpawnHelper
    BY <2>2 DEF SpawnHelper, Go, Acquired
  <2>3. CASE InstallFilters
    BY <1>1, <2>3 DEF InstallFilters, Go, Acquired
  <2>4. CASE GrantBootstrap
    BY <2>4 DEF GrantBootstrap, Go, Acquired
  <2>5. CASE AddAce
    BY <2>5 DEF AddAce, Go, Acquired
  <2>6. CASE RunProgram
    BY <2>6 DEF RunProgram
  <2> QED
    BY <2>1, <2>2, <2>3, <2>4, <2>5, <2>6 DEF Acquires
<1>3. CASE pc' \in Acquired /\ drops' = drops
  <2>1. DropOrder'
    BY <1>1, <1>3 DEF DropOrder, Acquired
  <2> QED
    BY <1>1, <1>3, <2>1
<1>4. ASSUME NEW value, NEW order \in {UnwindDrops, NormalDrops}, Leave(value, order)
      PROVE  DropOrder' /\ \A g \in Guards : Holds(g)'
  BY <1>4, Orders, LeaveHolds
<1> QED
  BY <1>1, <1>2, <1>3, <1>4

Drops ==
    DropHelper \/ DropNetwork \/ RollBack("boot") \/ RollBack("acl") \/ DropContext

LEMMA NextIs == Next <=> Prepare \/ CreateContext \/ Acquires \/ HelperHolds \/ Drops \/ Done
  BY DEF Next, Acquires, Drops

LEMMA DropsIs ==
    ASSUME Drops PROVE \E guard \in Guards : Dropping(guard)
  BY DEF Drops, DropHelper, DropNetwork, RollBack, DropContext, Guards

\* The guards are dropped one by one.
LEMMA DropStep == DropOrder /\ [Next]_vars => DropOrder'
<1> SUFFICES ASSUME DropOrder, [Next]_vars PROVE DropOrder'
  OBVIOUS
<1>1. CASE UNCHANGED vars
  BY <1>1 DEF vars, DropOrder
<1>2. CASE Prepare \/ CreateContext
  BY <1>2 DEF Prepare, CreateContext, Go, Return, DropOrder
<1>3. CASE Acquires
  BY <1>3, Acquiring
<1>4. CASE Drops
  BY <1>4, DropsIs, DroppingHolds
<1>5. CASE Done
  BY <1>5 DEF Done, DropOrder
<1>6. CASE HelperHolds
  BY <1>6 DEF HelperHolds, DropOrder
<1> QED
  BY <1>1, <1>2, <1>3, <1>4, <1>5, <1>6, NextIs

\* The SID is freed with the context, which is dropped last.
LEMMA TokenStep == DropOrder /\ TokenPlace /\ [Next]_vars => TokenPlace'
<1> SUFFICES ASSUME DropOrder, TokenPlace, [Next]_vars PROVE TokenPlace'
  OBVIOUS
<1>1. CASE UNCHANGED vars
  BY <1>1 DEF vars, tokenVars, TokenPlace, Holds
<1>2. CASE Prepare
  BY <1>2 DEF Prepare, Go, Return, TokenPlace, Holds, Acquired, tokenVars
<1>3. CASE CreateContext
  BY <1>3, FailsIs DEF CreateContext, Go, Return, Works, TokenPlace, Holds, Acquired, tokenVars
<1>4. CASE Acquires
  <2>1. UNCHANGED tokenVars
    BY <1>4 DEF Acquires, ChooseWay, SpawnHelper, InstallFilters, GrantBootstrap, AddAce,
       RunProgram
  <2>2. pc' \in Acquired \/ Holds("context")'
    BY <1>4, Acquiring DEF Guards
  <2> QED
    BY <1>4, <2>1, <2>2, Acquiring DEF TokenPlace, tokenVars
<1>5. CASE Drops /\ ~DropContext
  <2>1. UNCHANGED tokenVars /\ faults \subseteq faults'
    BY <1>5, FailsIs, DropHelperIs DEF Drops, DropNetwork, RollBack, Works
  <2>2. pc = "drop" /\ pc' = "drop" /\ (Holds("context")' <=> Holds("context"))
    BY <1>5, DroppingHolds DEF Drops, DropHelper, DropNetwork, RollBack, Guards
  <2> QED
    BY <2>1, <2>2 DEF TokenPlace, tokenVars, Acquired
<1>6. CASE DropContext
  <2>1. pc' = "drop" /\ ~Holds("context")'
    BY <1>6, DroppingHolds DEF DropContext, Guards
  <2>2. sid' = "freed" /\ (profile' = "created" => "delete" \in faults')
    BY <1>6, FailsIs DEF DropContext
  <2> QED
    BY <2>1, <2>2 DEF TokenPlace, Acquired
<1>7. CASE Done
  <2>1. ~Holds("context") /\ ~Holds("context")'
    BY <1>7 DEF Done, Holds, Held
  <2> QED
    BY <1>7, <2>1 DEF Done, TokenPlace, Acquired, tokenVars
<1>8. CASE HelperHolds
  BY <1>8, HelperHoldsIs DEF TokenPlace, Holds, tokenVars
<1> QED
  BY <1>1, <1>2, <1>3, <1>4, <1>5, <1>6, <1>7, <1>8, NextIs DEF Drops

-----------------------------------------------------------------------------
(* What is on the host.                                                    *)

\* Natively, the rollback objects hold every path that gets an allow ACE.
LEMMA AceStep ==
    TypeOK /\ DropOrder /\ HelperPlace /\ AcePlace /\ [Next]_vars => AcePlace'
<1> SUFFICES ASSUME TypeOK, DropOrder, HelperPlace, AcePlace, [Next]_vars PROVE AcePlace'
  OBVIOUS
<1> USE DEF Works
<1>a. tracked \in [boot : SUBSET Paths, acl : SUBSET Paths] /\ aces \in [Paths -> Aces]
  BY DEF TypeOK
<1>1. CASE UNCHANGED vars
  BY <1>1 DEF vars, hostVars, aclVars, helperVars, AcePlace, Holds
<1>2. CASE Prepare \/ CreateContext \/ ChooseWay
  <2>1. UNCHANGED <<aces, tracked, helper>> /\ faults \subseteq faults'
    BY <1>2, FailsIs DEF Prepare, CreateContext, ChooseWay, aclVars, helperVars
  <2>2. tracked.boot = {} /\ tracked.acl = {}
    BY <1>2 DEF Prepare, CreateContext, ChooseWay, AcePlace
  <2> QED
    BY <2>1, <2>2 DEF AcePlace
<1>4. CASE SpawnHelper
  <2>1. tracked.boot = {} /\ tracked.acl = {} /\ tracked' = tracked /\ helper' # "idle"
    BY <1>4, SpawnIs DEF AcePlace
  <2> QED
    BY <2>1 DEF AcePlace
<1>3. CASE HelperHolds
  BY <1>3, HelperHoldsIs DEF AcePlace, Holds
<1>5. CASE InstallFilters
  <2>1. tracked.boot = {} /\ tracked.acl = {}
    BY <1>5 DEF InstallFilters, AcePlace
  <2>2. UNCHANGED <<aces, tracked, helper>>
    BY <1>5 DEF InstallFilters, aclVars, helperVars
  <2>3. faults \subseteq faults'
    BY <1>5, FailsIs DEF InstallFilters, Install, OpenEngine, AppId, Begin, AddFilter, Commit,
       CloseEngine, TryElevated, NetCall
  <2> QED
    BY <2>1, <2>2, <2>3 DEF AcePlace
<1>6. CASE GrantBootstrap
  <2>1. PICK set \in {boot} \cup {boot \ {p} : p \in boot} :
           /\ aces' = [p \in Paths |-> IF p \in set THEN NativeAce(aces[p], "ro") ELSE aces[p]]
           /\ tracked' = [tracked EXCEPT !.boot = set]
    BY <1>6 DEF GrantBootstrap
  <2>2. tracked.boot = {} /\ tracked.acl = {} /\ helper = "idle" /\ pc' = "apply"
    BY <1>6 DEF GrantBootstrap, AcePlace, HelperPlace, Go
  <2>3. faults \subseteq faults'
    BY <1>6, FailsIs DEF GrantBootstrap
  <2>4. tracked'.boot = set /\ tracked'.acl = {}
    BY <1>a, <2>1, <2>2
  <2>5. \A p \in Paths : aces'[p].allow # {} => p \in set \/ aces[p].allow # {}
    BY <1>a, <2>1
  <2>6. \A p \in Paths : aces[p].allow # {} => "revoke" \in faults
    BY <2>2 DEF AcePlace
  <2> QED
    BY <2>2, <2>3, <2>4, <2>5, <2>6 DEF AcePlace, Acquired
<1>7. CASE AddAce
  <2>1. pc = "apply" /\ helper = "idle"
    BY <1>7 DEF AddAce, HelperPlace
  <2>2. faults \subseteq faults'
    BY <1>7, FailsIs DEF AddAce
  <2>3. \/ UNCHANGED <<aces, tracked>>
        \/ \E e \in First(todo) :
              /\ pc' = "apply"
              /\ aces' = [aces EXCEPT ![e.path] = NativeAce(@, e.kind)]
              /\ tracked' = [tracked EXCEPT !.acl = @ \cup {e.path}]
    BY <1>7 DEF AddAce, aclVars, Go
  <2>4. pc' \in {"apply", "running", "drop"}
    BY <1>7 DEF AddAce, Go, Leave
  <2>5. pc' \in Acquired \/ (\A g \in Guards : Holds(g)')
    BY <1>7, Acquiring DEF Acquires
  <2>6. CASE UNCHANGED <<aces, tracked>>
    BY <2>1, <2>2, <2>4, <2>5, <2>6 DEF AcePlace, Guards
  <2>7. ASSUME NEW e \in First(todo), pc' = "apply",
               aces' = [aces EXCEPT ![e.path] = NativeAce(@, e.kind)],
               tracked' = [tracked EXCEPT !.acl = @ \cup {e.path}]
        PROVE  AcePlace'
    <3>1. tracked'.boot = tracked.boot /\ tracked'.acl = tracked.acl \cup {e.path}
      BY <1>a, <2>7
    <3>2. \A p \in Paths : aces'[p].allow # {} => p = e.path \/ aces[p].allow # {}
      BY <1>a, <2>7
    <3>3. \A p \in Paths : aces'[p].allow # {} =>
             p \in tracked'.boot \cup tracked'.acl \/ "revoke" \in faults'
      BY <2>1, <2>2, <3>1, <3>2 DEF AcePlace
    <3> QED
      BY <2>1, <2>7, <3>3 DEF AcePlace, Acquired
  <2> QED
    BY <2>3, <2>6, <2>7
<1>8. CASE RunProgram
  <2>1. UNCHANGED <<aces, tracked, helper>> /\ faults \subseteq faults'
    BY <1>8, FailsIs DEF RunProgram, aclVars, helperVars
  <2>2. pc' = "drop"
    BY <1>8 DEF RunProgram, Leave
  <2>3. \A g \in Guards : Holds(g)'
    BY <1>8, <2>2, Acquiring DEF Acquires, Acquired
  <2> QED
    BY <2>1, <2>2, <2>3 DEF AcePlace, Guards
<1>9. CASE DropHelper
  <2>1. /\ pc = "drop" /\ pc' = "drop"
        /\ \A g \in {"boot", "acl"} : Holds(g)' <=> Holds(g)
    BY <1>9, DroppingHolds DEF DropHelper, Guards
  <2>2. tracked' = tracked /\ faults \subseteq faults' /\ (helper' = "idle" => UNCHANGED <<helper, aces>>)
    BY <1>9, DropHelperIs
  <2> QED
    BY <2>1, <2>2 DEF AcePlace, Acquired
<1>10. CASE DropNetwork \/ DropContext
  <2>1. /\ pc = "drop" /\ pc' = "drop"
        /\ \A g \in {"boot", "acl"} : Holds(g)' <=> Holds(g)
    BY <1>10, DroppingHolds DEF DropNetwork, DropContext, Guards
  <2>2. UNCHANGED <<aces, tracked, helper>> /\ faults \subseteq faults'
    BY <1>10, FailsIs DEF DropNetwork, DropContext, helperVars
  <2> QED
    BY <2>1, <2>2 DEF AcePlace, Acquired
<1>11. ASSUME NEW guard \in {"boot", "acl"}, RollBack(guard) PROVE AcePlace'
  <2>1. PICK set \in {tracked[guard]} \cup {tracked[guard] \ {p} : p \in tracked[guard]},
             kept \in {{}, Rights} :
           /\ IF set = tracked[guard] THEN Works ELSE Fails("revoke")
           /\ aces' = Revoked(set, kept)
    BY <1>11 DEF RollBack
  <2>2. tracked' = [tracked EXCEPT ![guard] = {}] /\ helper' = helper
    BY <1>11 DEF RollBack, helperVars
  <2>3. /\ pc = "drop" /\ pc' = "drop"
        /\ \A g \in {"boot", "acl"} \ {guard} : Holds(g)' <=> Holds(g)
    BY <1>11, DroppingHolds DEF RollBack, Guards
  <2>4. faults \subseteq faults' /\ (set # tracked[guard] => "revoke" \in faults')
    BY <2>1, FailsIs
  <2>5. \A p \in Paths : aces'[p].allow # {} => p \notin set /\ aces[p].allow # {}
    BY <2>1 DEF Revoked
  <2>6. tracked'[guard] = {} /\ \A g \in {"boot", "acl"} \ {guard} : tracked'[g] = tracked[g]
    BY <1>a, <2>2
  <2>7. helper' = "idle" => \A p \in Paths : aces'[p].allow # {} =>
           p \in tracked'.boot \cup tracked'.acl \/ "revoke" \in faults'
    <3>1. SUFFICES ASSUME NEW p \in Paths, aces'[p].allow # {}, "revoke" \notin faults',
                          helper' = "idle"
                   PROVE  p \in tracked'.boot \cup tracked'.acl
      OBVIOUS
    <3>2. p \in tracked.boot \cup tracked.acl
      BY <2>2, <2>4, <2>5, <3>1 DEF AcePlace
    <3>3. p \notin tracked[guard]
      BY <2>4, <2>5, <3>1
    <3> QED
      BY <1>11, <2>6, <3>2, <3>3
  <2>8. /\ tracked'.boot # {} => Holds("boot")'
        /\ tracked'.acl # {} => Holds("acl")'
    BY <1>11, <2>3, <2>6 DEF AcePlace, Acquired
  <2> QED
    BY <2>3, <2>7, <2>8 DEF AcePlace
<1>13. CASE Done
  <2>1. \A g : ~Holds(g)
    BY <1>13 DEF Done, Holds, Held
  <2> QED
    BY <1>13, <2>1 DEF Done, AcePlace, Acquired, aclVars, helperVars
<1> QED
  BY <1>1, <1>2, <1>3, <1>4, <1>5, <1>6, <1>7, <1>8, <1>9, <1>10, <1>11, <1>13 DEF Next

\* The helper's contract, and that execute keeps its hands off what the helper
\* has in force.
LEMMA HelperStep ==
    TypeOK /\ DropOrder /\ NetPlace /\ AcePlace /\ HelperPlace /\ [Next]_vars => HelperPlace'
<1> SUFFICES ASSUME TypeOK, DropOrder, NetPlace, AcePlace, HelperPlace, [Next]_vars
             PROVE  HelperPlace'
  OBVIOUS
<1> USE DEF Works
<1>a. tracked \in [boot : SUBSET Paths, acl : SUBSET Paths] /\ aces \in [Paths -> Aces]
  BY DEF TypeOK
<1>1. CASE UNCHANGED vars
  BY <1>1 DEF vars, hostVars, aclVars, helperVars, netVars, HelperPlace, Holds, Policy
<1>2. CASE Prepare \/ CreateContext \/ ChooseWay
  <2>1. helper = "idle" /\ held = {} /\ rules = {}
    BY <1>2 DEF Prepare, CreateContext, ChooseWay, HelperPlace
  <2>2. UNCHANGED <<request, helper, held, rules>>
    BY <1>2 DEF Prepare, CreateContext, ChooseWay, hostVars, helperVars
  <2>3. pc' \in {"profile"} \cup Acquired => ~Policy.network
    BY <1>2 DEF Prepare, CreateContext, ChooseWay, Go, Return, Leave, HelperPlace, Acquired, Policy
  <2> QED
    BY <2>1, <2>2, <2>3 DEF HelperPlace, Policy
<1>3. CASE SpawnHelper
  <2>1. tracked.boot = {} /\ tracked.acl = {} /\ wfp = "idle" /\ ~Policy.network
    BY <1>3, SpawnIs DEF AcePlace, NetPlace, HelperPlace, Acquired
  <2>2. UNCHANGED <<tracked, wfp, request>> /\ aces' = [p \in Paths |-> Icacls(held', p)]
    BY <1>3, SpawnIs DEF hostVars, netVars
  <2>3. CASE Contract!Ready /\ helper' = "ready" /\ Go("running")
    <3>1. rules' = {"out", "in"} \/ "log" \in faults'
      BY <2>1, <2>3, ReadyIs DEF Policy
    <3> QED
      BY <2>1, <2>2, <2>3, <3>1 DEF HelperPlace, Go, Policy
  <2>4. CASE Contract!End /\ helper' = "over" /\ pc' = "drop"
    <3>1. (held' = {} /\ rules' = {}) \/ faults' \cap {"log", "unclean"} # {}
      BY <2>4, EndIs
    <3> QED
      BY <2>1, <2>2, <2>4, <3>1 DEF HelperPlace, Acquired
  <2> QED
    BY <1>3, <2>3, <2>4, SpawnIs DEF Leave
<1>4. CASE HelperHolds
  <2>1. /\ UNCHANGED <<pc, drops, request, tracked, wfp>> /\ helper' = helper /\ helper # "idle"
        /\ aces' = [p \in Paths |-> Icacls(held', p)] /\ faults \subseteq faults'
    BY <1>4, HelperHoldsIs DEF hostVars, netVars
  <2>2. helper = "ready" => rules' = {"out", "in"} \/ "log" \in faults'
    BY <1>4, <2>1, HelperHoldsIs DEF Asked, HelperPlace
  <2>3. helper = "over" => (held' = {} /\ rules' = {}) \/ faults' \cap {"log", "unclean"} # {}
    BY <1>4, <2>1, HelperHoldsIs DEF HelperPlace
  <2> QED
    BY <2>1, <2>2, <2>3 DEF HelperPlace, Holds, Policy
<1>5. CASE InstallFilters \/ GrantBootstrap \/ AddAce
  <2>1. helper = "idle" /\ held = {} /\ rules = {} /\ ~Policy.network
    BY <1>5 DEF InstallFilters, GrantBootstrap, AddAce, HelperPlace, Acquired
  <2>2. UNCHANGED <<request, helper, held, rules>>
    BY <1>5 DEF InstallFilters, GrantBootstrap, AddAce, hostVars, helperVars
  <2> QED
    BY <2>1, <2>2 DEF HelperPlace, Policy
<1>6. CASE RunProgram
  <2>1. UNCHANGED <<request, aces, tracked, helper, held, rules, wfp>> /\ faults \subseteq faults'
    BY <1>6, FailsIs DEF RunProgram, hostVars, aclVars, helperVars, netVars
  <2>2. pc' = "drop"
    BY <1>6 DEF RunProgram, Leave
  <2>3. \A g \in Guards : Holds(g)'
    BY <1>6, <2>2, Acquiring DEF Acquires, Acquired
  <2> QED
    BY <2>1, <2>2, <2>3 DEF HelperPlace, Guards, Acquired
<1>7. CASE DropHelper
  <2>1. pc = "drop" /\ pc' = "drop" /\ ~Holds("helper")'
    BY <1>7, DroppingHolds DEF DropHelper, Guards
  <2>2. UNCHANGED <<tracked, wfp>> /\ faults \subseteq faults'
    BY <1>7, DropHelperIs DEF netVars
  <2>3. CASE helper = "ready"
    <3>1. /\ helper' = "over" /\ aces' = [p \in Paths |-> Icacls(held', p)]
          /\ (held' = {} /\ rules' = {}) \/ faults' \cap {"log", "unclean"} # {}
      BY <1>7, <2>3, DropHelperIs
    <3> QED
      BY <2>1, <2>2, <2>3, <3>1 DEF HelperPlace, Acquired
  <2>4. CASE helper # "ready"
    <3>1. UNCHANGED <<aces, helper, held, rules>>
      BY <1>7, <2>4, DropHelperIs
    <3> QED
      BY <2>1, <2>2, <2>4, <3>1 DEF HelperPlace, Acquired
  <2> QED
    BY <2>3, <2>4
<1>8. CASE DropNetwork \/ DropContext
  <2>1. pc = "drop" /\ pc' = "drop" /\ (Holds("helper")' <=> Holds("helper"))
    BY <1>8, DroppingHolds DEF DropNetwork, DropContext, Guards
  <2>2. UNCHANGED <<aces, tracked, helper, held, rules>> /\ faults \subseteq faults'
    BY <1>8, FailsIs DEF DropNetwork, DropContext, helperVars
  <2>3. wfp = "idle" => wfp' = "idle"
    BY <1>8 DEF DropNetwork, DropContext, netVars
  <2> QED
    BY <2>1, <2>2, <2>3 DEF HelperPlace, Acquired
<1>9. ASSUME NEW guard \in {"boot", "acl"}, RollBack(guard) PROVE HelperPlace'
  <2>1. pc = "drop" /\ pc' = "drop" /\ (Holds("helper")' <=> Holds("helper"))
    BY <1>9, DroppingHolds DEF RollBack, Guards
  <2>2. UNCHANGED <<helper, held, rules, wfp>> /\ faults \subseteq faults'
    BY <1>9, FailsIs DEF RollBack, helperVars, netVars
  <2>3. helper # "idle" => aces' = aces /\ tracked'.boot = {} /\ tracked'.acl = {}
    <3> SUFFICES ASSUME helper # "idle" PROVE aces' = aces /\ tracked'.boot = {} /\ tracked'.acl = {}
      OBVIOUS
    <3>1. tracked.boot = {} /\ tracked.acl = {}
      BY DEF HelperPlace
    <3>2. tracked' = [tracked EXCEPT ![guard] = {}] /\ tracked[guard] = {}
      BY <1>9, <3>1 DEF RollBack
    <3>3. PICK kept : aces' = Revoked({}, kept)
      BY <1>9, <3>2 DEF RollBack
    <3> QED
      BY <1>a, <1>9, <3>1, <3>2, <3>3 DEF Revoked
  <2> QED
    BY <2>1, <2>2, <2>3 DEF HelperPlace, Acquired
<1>10. CASE Done
  <2>1. \A g : ~Holds(g)
    BY <1>10 DEF Done, Holds, Held
  <2> QED
    BY <1>10, <2>1 DEF Done, HelperPlace, Acquired, aclVars, helperVars, netVars
<1> QED
  BY <1>1, <1>2, <1>3, <1>4, <1>5, <1>6, <1>7, <1>8, <1>9, <1>10 DEF Next

\* The session is open between the first call and the commit, all filters are
\* in the transaction when it is committed, and the drop closes the session.
LEMMA SessionStep ==
    ASSUME NetPlace, NetTypeOK, pc = "network", Install
    PROVE  /\ engine' <=> wfp' \in InSession
           /\ filters' = IF wfp' = "in_force" THEN BLOCK_LAYERS ELSE 0
           /\ pending' = 0 \/ wfp' \in {"add", "commit"}
           /\ wfp' = "add" => pending' < BLOCK_LAYERS
           /\ wfp' = "commit" => pending' = BLOCK_LAYERS
           /\ wfp' \notin {"idle", "dropped"}
<1> USE DEF NetCall, BLOCK_LAYERS, InSession
<1>1. CASE OpenEngine
  BY <1>1 DEF OpenEngine, NetPlace
<1>2. CASE AppId
  BY <1>2 DEF AppId, NetPlace
<1>3. CASE Begin
  BY <1>3 DEF Begin, NetPlace
<1>4. CASE AddFilter
  BY <1>4 DEF AddFilter, NetPlace, NetTypeOK
<1>5. CASE Commit
  BY <1>5 DEF Commit, NetPlace
<1>6. CASE CloseEngine \/ TryElevated
  BY <1>6 DEF CloseEngine, TryElevated, NetPlace
<1> QED
  BY <1>1, <1>2, <1>3, <1>4, <1>5, <1>6 DEF Install

LEMMA NetStep == TypeOK /\ DropOrder /\ HelperPlace /\ NetPlace /\ [Next]_vars => NetPlace'
<1> SUFFICES ASSUME TypeOK, DropOrder, HelperPlace, NetPlace, [Next]_vars PROVE NetPlace'
  OBVIOUS
<1> USE DEF netVars
<1>0. NetTypeOK
  BY DEF TypeOK
<1>1. CASE UNCHANGED vars
  BY <1>1 DEF vars, hostVars, helperVars, NetPlace, Holds
<1>2. CASE Prepare \/ CreateContext
  <2>1. UNCHANGED netVars /\ wfp = "idle"
        /\ pc' \in {"check", "profile", "token", "returned"}
    BY <1>2 DEF Prepare, CreateContext, Go, Return, NetPlace
  <2> QED
    BY <2>1 DEF NetPlace
<1>3. CASE ChooseWay
  BY <1>3 DEF ChooseWay, Go, Leave, NetPlace, InSession
<1>4. CASE SpawnHelper
  <2>1. UNCHANGED netVars /\ wfp = "idle"
        /\ (pc' = "drop" \/ (pc' = "running" /\ helper' = "ready"))
    BY <1>4, SpawnIs DEF Go, Leave, NetPlace
  <2> QED
    BY <2>1 DEF NetPlace
<1>11. CASE HelperHolds
  BY <1>11, HelperHoldsIs DEF NetPlace, Holds
<1>5. CASE InstallFilters
  <2>1. pc = "network"
    BY <1>5 DEF InstallFilters
  <2>2. CASE Install /\ UNCHANGED <<pc, drops, result>>
    BY <1>0, <2>1, <2>2, SessionStep DEF NetPlace
  <2>3. CASE wfp = "in_force" /\ Go("boot") /\ UNCHANGED netVars
    BY <2>1, <2>3 DEF NetPlace, Go
  <2>4. CASE wfp = "failed" /\ UNCHANGED netVars /\ pc' = "drop"
    BY <2>1, <2>4 DEF NetPlace
  <2> QED
    BY <1>5, <2>2, <2>3, <2>4 DEF InstallFilters, Leave
<1>6. CASE GrantBootstrap \/ AddAce
  <2>1. UNCHANGED netVars /\ wfp = "in_force" /\ pc' \in {"apply", "running", "drop"}
    BY <1>6 DEF GrantBootstrap, AddAce, Go, Leave, NetPlace
  <2>2. pc' \in Acquired \/ Holds("network")'
    BY <1>6, Acquiring DEF Acquires, Guards
  <2> QED
    BY <2>1, <2>2 DEF NetPlace, Acquired
<1>7. CASE RunProgram
  <2>1. UNCHANGED netVars /\ wfp \in {"in_force", "idle"} /\ pc' = "drop"
    BY <1>7 DEF RunProgram, Leave, NetPlace, HelperPlace
  <2>2. Holds("network")'
    BY <1>7, <2>1, Acquiring DEF Acquires, Guards, Acquired
  <2> QED
    BY <2>1, <2>2 DEF NetPlace
<1>8. CASE Drops /\ ~DropNetwork
  <2>1. pc = "drop" /\ pc' = "drop" /\ (Holds("network")' <=> Holds("network"))
    BY <1>8, DroppingHolds DEF Drops, DropHelper, RollBack, DropContext, Guards
  <2>2. UNCHANGED netVars
    BY <1>8 DEF Drops, DropHelper, RollBack, DropContext
  <2> QED
    BY <2>1, <2>2 DEF NetPlace
<1>9. CASE DropNetwork
  <2>1. pc = "drop" /\ pc' = "drop"
    BY <1>9 DEF DropNetwork, Dropping
  <2> QED
    BY <1>9, <2>1 DEF DropNetwork, DropSession, NetPlace, InSession
<1>10. CASE Done
  <2>1. ~Holds("network")
    BY <1>10 DEF Done, Holds, Held
  <2> QED
    BY <1>10, <2>1 DEF Done, NetPlace
<1> QED
  BY <1>1, <1>2, <1>3, <1>4, <1>5, <1>6, <1>7, <1>8, <1>9, <1>10, <1>11 DEF Next, Drops

-----------------------------------------------------------------------------
(* The theorems.                                                           *)

LEMMA InitInv == Init => ContainerInv
<1> SUFFICES ASSUME Init PROVE ContainerInv
  OBVIOUS
<1> USE DEF Init, NetInit
<1>1. TypeOK
  <2>1. aces \in [Paths -> Aces]
    BY NoAceType
  <2>2. present \subseteq Paths
    OBVIOUS
  <2>3. NetTypeOK
    <3>1. engine \in BOOLEAN /\ faults \subseteq MayFail
      OBVIOUS
    <3>2. pending \in 0..BLOCK_LAYERS /\ filters \in 0..BLOCK_LAYERS
      BY DEF BLOCK_LAYERS
    <3> QED
      BY <3>1, <3>2 DEF NetTypeOK
  <2>4. /\ ops \subseteq [kind : Kinds, path : Paths] /\ held \subseteq ops
        /\ rules \subseteq {"out", "in"} /\ elevated \in BOOLEAN
    OBVIOUS
  <2>5. Len(drops) <= 5
    OBVIOUS
  <2>6. tracked \in [boot : SUBSET Paths, acl : SUBSET Paths]
    OBVIOUS
  <2> QED
    BY <2>1, <2>2, <2>3, <2>4, <2>5, <2>6 DEF TypeOK
<1>2. DropOrder
  BY DEF DropOrder, NoRepeat
<1>3. TokenPlace
  BY DEF TokenPlace, Acquired, Holds
<1>4. AcePlace
  BY DEF AcePlace, NoAce
<1>5. NetPlace
  BY DEF NetPlace, InSession
<1>6. HelperPlace
  BY DEF HelperPlace, Acquired
<1> QED
  BY <1>1, <1>2, <1>3, <1>4, <1>5, <1>6 DEF ContainerInv

\* The invariant of execute(): every guard is dropped once and the context
\* last, what is on the host is tracked or the helper's, and the session's
\* place in the installation says which filters there are.
THEOREM ContainerInvariant == Spec => []ContainerInv
<1>1. Init => ContainerInv
  BY InitInv
<1>2. ContainerInv /\ [Next]_vars => ContainerInv'
  <2> SUFFICES ASSUME ContainerInv, [Next]_vars PROVE ContainerInv'
    OBVIOUS
  <2>1. TypeOK /\ DropOrder /\ TokenPlace /\ AcePlace /\ HelperPlace /\ NetPlace
    BY DEF ContainerInv
  <2>2. DropOrder'
    BY <2>1, DropStep
  <2>3. TypeOK'
    BY <2>1, <2>2, TypeStep
  <2>4. TokenPlace' /\ AcePlace' /\ HelperPlace' /\ NetPlace'
    BY <2>1, TokenStep, AceStep, HelperStep, NetStep
  <2> QED
    BY <2>2, <2>3, <2>4 DEF ContainerInv
<1> QED
  BY <1>1, <1>2, PTL DEF Spec

\* appcontainer.rs:120-130.  The rollback objects of execute() hold a raw
\* pointer to the SID: in both orders of dropping, they are empty before it is
\* freed.
THEOREM SidOutlivesRollbacks == Spec => []RollbackNeedsSid
<1>1. ContainerInv => RollbackNeedsSid
  <2> SUFFICES ASSUME ContainerInv PROVE RollbackNeedsSid
    OBVIOUS
  <2>1. \A g : Holds(g) => Holds("context")
    <3> SUFFICES ASSUME NEW g, Holds(g) PROVE Holds("context")
      OBVIOUS
    <3>1. drops \in Seq(Guards) /\ drops # <<>> /\ pc = "drop"
      BY DEF Holds, Held, ContainerInv, DropOrder
    <3>2. Len(drops) \in 1..Len(drops) /\ drops[Len(drops)] = "context"
      BY <3>1 DEF ContainerInv, DropOrder
    <3> QED
      BY <3>1, <3>2 DEF Holds, Held
  <2>2. tracked.boot \cup tracked.acl # {} => pc \in Acquired \/ Holds("boot") \/ Holds("acl")
    BY DEF ContainerInv, AcePlace
  <2> QED
    BY <2>1, <2>2 DEF ContainerInv, TokenPlace, RollbackNeedsSid
<1> QED
  BY <1>1, ContainerInvariant, PTL

\* wfp.rs:321-.  The program never runs with part of the filters, and never
\* without the session or the helper's rules that keep them in force.
THEOREM NetworkIsBlocked == Spec => []NetworkBlocked
<1>1. ContainerInv => NetworkBlocked
  BY DEF ContainerInv, NetPlace, InSession, HelperPlace, NetworkBlocked, Running, LogLost
<1> QED
  BY <1>1, ContainerInvariant, PTL

\* When execute() returns, on whichever path, no grant, no filter, no rule and
\* no profile of it is left on the host, unless taking it away failed.
THEOREM NothingIsLeft == Spec => []NothingLeft
<1>1. ContainerInv => NothingLeft
  <2> SUFFICES ASSUME ContainerInv, pc = "returned" PROVE NothingLeft
    BY DEF NothingLeft
  <2>1. ~Holds("boot") /\ ~Holds("acl") /\ ~Holds("helper") /\ ~Holds("network")
        /\ ~Holds("context") /\ pc \notin Acquired
    BY DEF Holds, Acquired
  <2>2. tracked.boot = {} /\ tracked.acl = {} /\ helper \in {"idle", "over"}
    BY <2>1 DEF ContainerInv, AcePlace, HelperPlace, TypeOK, Acquired
  <2>3. /\ (\A p \in Paths : aces[p].allow = {}) \/ faults \cap {"revoke", "log", "unclean"} # {}
        /\ rules = {} \/ faults \cap {"log", "unclean"} # {}
    <3>1. CASE helper = "idle"
      BY <2>2, <3>1 DEF ContainerInv, AcePlace, HelperPlace
    <3>2. CASE helper = "over" /\ held = {} /\ rules = {}
      <4>1. aces = [p \in Paths |-> Icacls({}, p)]
        BY <3>2 DEF ContainerInv, HelperPlace
      <4> QED
        BY <3>2, <4>1 DEF Icacls
    <3>3. CASE helper = "over" /\ faults \cap {"log", "unclean"} # {}
      BY <3>3
    <3> QED
      BY <2>2, <3>1, <3>2, <3>3 DEF ContainerInv, HelperPlace
  <2>4. ~engine /\ filters = 0
    BY <2>1 DEF ContainerInv, NetPlace, InSession
  <2>5. profile = "created" => "delete" \in faults
    BY <2>1 DEF ContainerInv, TokenPlace
  <2> QED
    BY <2>2, <2>3, <2>4, <2>5 DEF NothingLeft
<1> QED
  BY <1>1, ContainerInvariant, PTL
=============================================================================
