-------------------------- MODULE ElevatedOpsProofs --------------------------
(***************************************************************************)
(* Theorems about ElevatedOps: for any paths, any specs and any calls that *)
(* fail, the handshake never starts the program early, and the helper      *)
(* takes back what it did.                                                 *)
(***************************************************************************)
EXTENDS ElevatedOps, SequenceTheorems, TLAPS

\* Before the guard has ended the helper, or while the program needs it.
Handshaking == {"poll", "check", "running"}

\* The files of the handshake are there while both sides need them.
FilePlace ==
    /\ guard \notin {"spawn", "returned"} => workspace
    /\ stop => guard \in {"wait", "terminate", "remove", "returned"}
    /\ guard \in {"spawn", "prompt"} => helper = "none" /\ ready = "absent"

\* How a helper may end, and what is on record when it does not.
HelperPlace ==
    /\ guard \in {"remove", "returned"} =>
           helper \in Ended \cup {"none"} \/ "terminate" \in faults
    /\ helper = "none" =>
           guard \in {"spawn", "prompt", "returned"} /\ aces = {} /\ netRules = {}
    /\ guard = "terminate" => faults \cap {"stop", "query"} # {}
    /\ helper = "killed" => faults \cap {"stop", "query"} # {}
    /\ helper = "crashed" => "crash" \in faults

\* $appliedPaths and $firewallEnabled say what there is to take back, unless
\* the log or netsh failed in between, or a removal did.
Tracked ==
    /\ \A entry \in aces :
           (\E i \in 1..Len(applied) : applied[i] = entry.path) \/ faults \cap {"log", "remove"} # {}
    /\ helper = "exited" => aces = {} \/ faults \cap {"log", "terminate", "remove"} # {}
    /\ netRules # {} =>
           firewall \/ helper \in {"in", "enabled", "killed", "crashed"} \/ "in" \in faults
    /\ helper = "exited" => netRules = {} \/ faults \cap {"log", "terminate", "delete", "in"} # {}

\* What the helper has put in force of the entries before n.
AppliedUpTo(n) ==
    \A i \in 1..Len(spec.entries) :
        i < n => \/ spec.entries[i] \in aces
                 \/ spec.entries[i].path \in gone
                 \/ spec.entries[i].kind \in AllowKinds /\ "icacls" \in faults

Enforced == AppliedUpTo(Len(spec.entries) + 1) /\ (spec.block => netRules = {"out", "in"})

\* What is missing is on record.
GonePlace == Paths \subseteq present \cup gone

\* Each place of the helper on its way to "reported", and what it has done.
Progress ==
    /\ helper = "none" => next = 1
    /\ helper = "apply" => AppliedUpTo(next)
    /\ helper \in {"out", "in", "enabled"} => spec.block /\ AppliedUpTo(Len(spec.entries) + 1)
    /\ helper = "in" => "out" \in netRules
    /\ helper = "enabled" => netRules = {"out", "in"}
    /\ netRules # {} => spec.block
    /\ helper \in {"ready", "reported", "stop"} => Enforced

\* The program runs behind a helper that has reported, and that stays where it
\* is until it is told to stop.
Handshake ==
    /\ guard = "running" => ready = "ok" \/ "log" \in faults
    /\ ready = "ok" /\ guard \in Handshaking /\ "log" \notin faults =>
           helper \in {"reported", "stop", "crashed"} /\ Enforced

OpsInv ==
    /\ TypeOK /\ FilePlace /\ HelperPlace /\ Tracked /\ GonePlace /\ Progress /\ Handshake

-----------------------------------------------------------------------------
USE OpsAssumption

LEMMA FailsIs ==
    ASSUME NEW call, Fails(call) PROVE call \in MayFail /\ faults' = faults \cup {call}
  BY DEF Fails

\* No call takes a fault off the record.
LEMMA FaultsGrow ==
    [Next]_vars => /\ faults \subseteq faults'
                   /\ faults \subseteq MayFail \cup MayExpire => faults' \subseteq MayFail \cup MayExpire
<1> USE FailsIs DEF Works, Logs, LogFails
<1> SUFFICES ASSUME [Next]_vars
             PROVE  /\ faults \subseteq faults'
                    /\ faults \subseteq MayFail \cup MayExpire => faults' \subseteq MayFail \cup MayExpire
  OBVIOUS
<1>1. CASE UNCHANGED vars
  BY <1>1 DEF vars
<1>2. CASE Guard
  <2>1. CASE Spawn \/ Consent
    BY <2>1 DEF Spawn, Consent
  <2>4. CASE ReadReady \/ ProgramEnds
    BY <2>4 DEF ReadReady, ProgramEnds
  <2>3. CASE CheckHelper
    BY <2>3 DEF CheckHelper
  <2>2. CASE WriteStop
    BY <2>2 DEF WriteStop
  <2>5. CASE AwaitExit
    BY <2>5 DEF AwaitExit
  <2>6. CASE Terminate
    BY <2>6 DEF Terminate
  <2>7. CASE RemoveWorkspace
    <3>1. faults' = faults \/ Fails("remove-dir")
      BY <2>7 DEF RemoveWorkspace
    <3> QED
      BY <3>1
  <2> QED
    BY <1>2, <2>1, <2>2, <2>3, <2>4, <2>5, <2>6, <2>7 DEF Guard
<1>3. CASE Helper
  <2>1. CASE Apply \/ ApplyDone \/ AddOutRule \/ AddInRule \/ EnableFirewall
    BY <2>1 DEF Apply, ApplyDone, AddOutRule, AddInRule, AddRule, EnableFirewall
  <2>2. CASE ReportReady \/ LogReady \/ Catch \/ ReportError \/ SeeStop \/ BeginCleanup
             \/ RemoveAce \/ RemoveRules
    BY <2>2 DEF ReportReady, ReportError, WriteReady, LogReady, Catch, SeeStop, BeginCleanup,
       RemoveAce, RemoveRules
  <2> QED
    BY <1>3, <2>1, <2>2 DEF Helper
<1>4. CASE Crash \/ World
  BY <1>4 DEF Crash, World, Vanish, Recreate
<1> QED
  BY <1>1, <1>2, <1>3, <1>4 DEF Next

-----------------------------------------------------------------------------
(* The guard's side: files and places.                                     *)

\* A step of the helper, of its death or of the world leaves the guard, the
\* stop file and the workspace alone; a helper that is not there does nothing.
Others == Helper \/ Crash \/ World

LEMMA OthersStep ==
    ASSUME Others
    PROVE  /\ UNCHANGED <<spec, guard, outcome, stop, workspace>>
           /\ helper \in Ended \cup {"none"} =>
                  UNCHANGED <<helper, ready, netRules, faults, applied, firewall>> /\ aces' \subseteq aces
           /\ helper # "none" => helper' # "none"
           /\ helper' = "killed" => helper = "killed"
<1> USE DEF HelperOnly, guardVars, helperVars, fileVars, Ended
<1>1. CASE Apply \/ ApplyDone
  BY <1>1 DEF Apply, ApplyDone, Skip, Throw
<1>2. CASE AddOutRule \/ AddInRule \/ EnableFirewall
  BY <1>2 DEF AddOutRule, AddInRule, AddRule, EnableFirewall
<1>3. CASE ReportReady \/ ReportError
  BY <1>3 DEF ReportReady, ReportError, WriteReady
<1>4. CASE LogReady \/ Catch \/ SeeStop \/ BeginCleanup \/ RemoveAce \/ RemoveRules
  BY <1>4 DEF LogReady, Catch, SeeStop, BeginCleanup, RemoveAce, RemoveRules
<1>5. CASE Crash \/ World
  BY <1>5 DEF Crash, World, Vanish, Recreate
<1> QED
  BY <1>1, <1>2, <1>3, <1>4, <1>5 DEF Helper, Others

LEMMA NextIs == Next <=> Guard \/ Others
  BY DEF Next, Others

\* What a step of the guard leaves alone: the helper's data and the host.
LEMMA GuardStep ==
    ASSUME Guard
    PROVE  /\ UNCHANGED <<spec, next, applied, firewall, hostVars>>
           /\ helper' # helper => \/ guard = "prompt" /\ guard' = "poll" /\ helper' = "apply"
                                  \/ guard = "terminate" /\ guard' = "remove" /\ helper' = "killed"
                                     /\ helper \notin Ended
           /\ ready' # ready => guard = "remove" /\ guard' = "returned"
  BY DEF Guard, Spawn, Consent, ReadReady, CheckHelper, ProgramEnds, WriteStop, AwaitExit, Terminate,
     RemoveWorkspace, GuardOnly, helperVars, hostVars, fileVars, Ended

\* The workspace stands from the start of the helper to the end of the guard.
LEMMA FileStep == TypeOK /\ FilePlace /\ [Next]_vars => FilePlace'
<1> SUFFICES ASSUME TypeOK, FilePlace, [Next]_vars PROVE FilePlace'
  OBVIOUS
<1>a. ready \in {"absent", "empty", "ok", "error"}
  BY DEF TypeOK
<1>1. CASE UNCHANGED vars
  BY <1>1 DEF vars, guardVars, helperVars, fileVars, FilePlace
<1>2. CASE Others
  BY <1>2, OthersStep DEF FilePlace
<1>3. CASE Guard
  <2> USE DEF fileVars, helperVars, GuardOnly, GiveUp, FilePlace
  <2>1. CASE Spawn \/ Consent
    BY <2>1 DEF Spawn, Consent
  <2>2. CASE ReadReady \/ CheckHelper
    <3>1. /\ guard \in {"poll", "check"} /\ guard' \in {"poll", "check", "running", "drop"}
          /\ UNCHANGED <<workspace, stop>>
      BY <1>a, <2>2 DEF ReadReady, CheckHelper
    <3>2. ~stop
      BY <3>1
    <3> QED
      BY <3>1, <3>2
  <2>3. CASE ProgramEnds
    BY <2>3 DEF ProgramEnds
  <2>4. CASE WriteStop
    BY <2>4 DEF WriteStop
  <2>5. CASE AwaitExit
    BY <2>5 DEF AwaitExit
  <2>6. CASE Terminate
    BY <2>6 DEF Terminate
  <2>7. CASE RemoveWorkspace
    BY <2>7 DEF RemoveWorkspace
  <2> QED
    BY <1>3, <2>1, <2>2, <2>3, <2>4, <2>5, <2>6, <2>7 DEF Guard
<1> QED
  BY <1>1, <1>2, <1>3, NextIs

LEMMA HelperStep == TypeOK /\ FilePlace /\ HelperPlace /\ [Next]_vars => HelperPlace'
<1> SUFFICES ASSUME TypeOK, FilePlace, HelperPlace, [Next]_vars PROVE HelperPlace'
  OBVIOUS
<1>a. ready \in {"absent", "empty", "ok", "error"}
  BY DEF TypeOK
<1>0. faults \subseteq faults'
  BY FaultsGrow
<1>1. CASE UNCHANGED vars
  BY <1>1 DEF vars, guardVars, helperVars, hostVars, HelperPlace
<1>2. CASE Others
  <2>1. UNCHANGED guard
    BY <1>2, OthersStep
  <2>2. helper' = "crashed" /\ helper # "crashed" => "crash" \in faults'
    BY <1>2, FailsIs DEF Others, Helper, Crash, World, Vanish, Recreate, Apply, Skip, Throw, ApplyDone, AddOutRule,
       AddInRule, AddRule, EnableFirewall, ReportReady, ReportError, WriteReady, LogReady, Catch,
       SeeStop, BeginCleanup, RemoveAce, RemoveRules, helperVars
  <2>3. helper \in Ended \cup {"none"} => helper' = helper /\ netRules' = netRules /\ aces' \subseteq aces
    BY <1>2, OthersStep
  <2>4. (helper # "none" => helper' # "none") /\ (helper' = "killed" => helper = "killed")
    BY <1>2, OthersStep
  <2> QED
    BY <1>0, <2>1, <2>2, <2>3, <2>4 DEF HelperPlace, Ended
<1>3. CASE Guard
  <2>1. aces' = aces /\ netRules' = netRules
    BY <1>3, GuardStep DEF hostVars
  <2>2. CASE Spawn \/ Consent
    BY <1>0, <2>1, <2>2 DEF Spawn, Consent, FilePlace, HelperPlace, Ended, helperVars
  <2>3. CASE AwaitExit
    <3>1. helper' = helper /\ guard' \in {"remove", "terminate"} /\ guard = "wait"
          /\ (guard' = "remove" => helper \in Ended)
      BY <2>3 DEF AwaitExit, GuardOnly, helperVars
    <3>2. guard' = "terminate" => faults' \cap {"stop", "query"} # {}
      BY <2>3, FailsIs DEF AwaitExit
    <3> QED
      BY <1>0, <2>1, <3>1, <3>2 DEF HelperPlace, Ended
  <2>4. CASE Terminate
    <3>1. guard = "terminate" /\ guard' = "remove"
      BY <2>4 DEF Terminate
    <3>2. \/ helper' = (IF helper \in Ended THEN helper ELSE "killed")
          \/ helper' = helper /\ "terminate" \in faults'
      BY <2>4, FailsIs DEF Terminate
    <3> QED
      BY <1>0, <2>1, <3>1, <3>2 DEF HelperPlace, Ended
  <2>5. CASE ReadReady \/ CheckHelper \/ ProgramEnds \/ WriteStop \/ RemoveWorkspace
    <3>1. /\ helper' = helper /\ guard \notin {"spawn", "prompt", "returned", "terminate"}
          /\ guard' \notin {"spawn", "prompt", "terminate", "remove"}
          /\ guard' = "returned" => guard = "remove"
      BY <1>a, <2>5 DEF ReadReady, CheckHelper, ProgramEnds, WriteStop, RemoveWorkspace, GuardOnly,
         GiveUp, helperVars
    <3> QED
      BY <1>0, <2>1, <3>1 DEF HelperPlace, Ended
  <2> QED
    BY <1>3, <2>2, <2>3, <2>4, <2>5 DEF Guard
<1> QED
  BY <1>1, <1>2, <1>3, NextIs

\* The entries of the spec.
LEMMA EntryType ==
    ASSUME TypeOK
    PROVE  /\ spec.entries \in Seq([kind : DenyKinds \cup AllowKinds, path : Paths])
           /\ Len(spec.entries) \in Nat /\ next \in Nat
           /\ \A i \in 1..Len(spec.entries) :
                 /\ spec.entries[i].path \in Paths
                 /\ spec.entries[i].kind \in DenyKinds \cup AllowKinds
<1>1. spec.entries \in Seq([kind : DenyKinds \cup AllowKinds, path : Paths])
  BY DEF TypeOK
<1>2. Len(spec.entries) \in Nat
  BY <1>1
<1>3. next \in Nat
  BY <1>2 DEF TypeOK
<1>4. ASSUME NEW i \in 1..Len(spec.entries)
      PROVE  spec.entries[i].path \in Paths /\ spec.entries[i].kind \in DenyKinds \cup AllowKinds
  <2>1. \A set : spec.entries \in Seq(set) => spec.entries[i] \in set
    OBVIOUS
  <2>2. spec.entries[i] \in [kind : DenyKinds \cup AllowKinds, path : Paths]
    BY <1>1, <2>1
  <2> QED
    BY <2>2
<1> QED
  BY <1>1, <1>2, <1>3, <1>4

\* One line of the spec: each way it can go.
LEMMA ApplyIs ==
    ASSUME TypeOK, Apply
    PROVE  /\ helper = "apply" /\ next \in 1..Len(spec.entries)
           /\ UNCHANGED <<spec, guardVars, present, gone, stop, workspace, firewall, netRules, ready>>
           /\ aces \subseteq aces' /\ aces' \subseteq aces \cup {spec.entries[next]}
           /\ \/ helper' = "apply" /\ next' = next + 1
              \/ helper' = "catch" /\ next' = next
           /\ \/ applied' = Append(applied, spec.entries[next].path)
              \/ applied' = applied /\ (aces' = aces \/ "log" \in faults')
           /\ helper' = "apply" /\ spec.entries[next].path \in present =>
                 \/ spec.entries[next] \in aces'
                 \/ spec.entries[next].kind \in AllowKinds /\ "icacls" \in faults'
<1>1. next \in 1..Len(spec.entries)
  BY EntryType DEF Apply, TypeOK
<1>2. DenyKinds \cap AllowKinds = {}
  BY DEF DenyKinds, AllowKinds
<1> DEFINE entry   == spec.entries[next]
           inForce == IF entry.path \in present THEN aces \cup {entry} ELSE aces
<1>3. \/ Skip /\ applied' = Append(applied, entry.path) /\ aces' = inForce
      \/ /\ Fails("icacls") /\ (IF entry.kind \in AllowKinds THEN Skip ELSE Throw)
         /\ UNCHANGED <<applied, aces>>
      \/ Throw /\ UNCHANGED <<applied, aces>>
      \/ /\ Fails("log") /\ (Throw \/ (entry.kind \in AllowKinds /\ Skip))
         /\ aces' = inForce /\ UNCHANGED applied
  BY DEF Apply
<1>4. helper = "apply" /\ UNCHANGED <<spec, guardVars, present, gone, stop, workspace, firewall, netRules, ready>>
  BY DEF Apply, HelperOnly
<1>5. aces \subseteq inForce /\ inForce \subseteq aces \cup {entry}
      /\ (entry.path \in present => entry \in inForce)
  OBVIOUS
<1> HIDE DEF entry, inForce
<1>6. /\ aces \subseteq aces' /\ aces' \subseteq aces \cup {entry}
      /\ \/ helper' = "apply" /\ next' = next + 1
         \/ helper' = "catch" /\ next' = next
      /\ \/ applied' = Append(applied, entry.path)
         \/ applied' = applied /\ (aces' = aces \/ "log" \in faults')
      /\ helper' = "apply" /\ entry.path \in present =>
            entry \in aces' \/ (entry.kind \in AllowKinds /\ "icacls" \in faults')
  BY <1>2, <1>3, <1>4, <1>5, FailsIs DEF Skip, Throw
<1> QED
  BY <1>1, <1>4, <1>6 DEF entry

Quiet ==
    ApplyDone \/ AddOutRule \/ AddInRule \/ EnableFirewall \/ ReportReady \/ LogReady \/ Catch
      \/ ReportError \/ SeeStop \/ BeginCleanup

\* The steps of the helper that add or remove no ACE, place by place.
LEMMA QuietIs ==
    ASSUME TypeOK, Quiet
    PROVE  /\ UNCHANGED <<spec, guardVars, present, gone, stop, workspace, next, applied, aces>>
           /\ helper \in {"apply", "out", "in", "enabled", "ready", "reported", "stop", "catch",
                          "failed", "finally"}
           /\ helper' \in {"out", "in", "enabled", "ready", "reported", "stop", "catch",
                           "failed", "finally", "cleanup", "exited"}
           /\ firewall' = firewall \/ (firewall' = TRUE /\ helper = "enabled")
           /\ helper' = "exited" => (~workspace \/ "log" \in faults') /\ helper = "finally"
           /\ netRules' # netRules =>
                 \/ helper = "out" /\ helper' = "in" /\ netRules' = netRules \cup {"out"}
                 \/ helper = "in" /\ helper' = "enabled" /\ netRules' = netRules \cup {"in"}
           /\ helper' = "in" => helper = "out" /\ netRules' = netRules \cup {"out"}
           /\ helper' = "enabled" => helper = "in" /\ netRules' = netRules \cup {"in"}
           /\ helper = "in" => helper' = "enabled" \/ "in" \in faults'
           /\ helper = "enabled" => firewall' = TRUE
           /\ ready' \in {ready, "empty", "ok", "error"}
           /\ ready' # ready => helper \in {"ready", "failed"}
           /\ ready' # ready /\ ready' = "ok" => helper = "ready" /\ helper' = "reported"
           /\ helper' = "ready" => (helper = "apply" /\ next > Len(spec.entries) /\ ~spec.block)
                                     \/ (helper = "enabled") \/ (helper = "ready")
           /\ helper' = "out" => helper = "apply" /\ next > Len(spec.entries) /\ spec.block
           /\ helper' \in {"reported", "stop"} => helper \in {"ready", "reported"}
           /\ helper = "reported" => helper' = "stop" \/ ~workspace \/ "log" \in faults'
           /\ helper = "stop" => stop
           /\ helper = "apply" => next > Len(spec.entries)
<1> USE FailsIs DEF HelperOnly, Works, Logs, LogFails
<1>1. CASE ApplyDone
  BY <1>1 DEF ApplyDone
<1>2. CASE AddOutRule
  BY <1>2 DEF AddOutRule, AddRule
<1>3. CASE AddInRule
  BY <1>3 DEF AddInRule, AddRule
<1>4. CASE EnableFirewall
  BY <1>4 DEF EnableFirewall
<1>5. CASE ReportReady
  BY <1>5 DEF ReportReady, WriteReady
<1>6. CASE ReportError
  BY <1>6 DEF ReportError, WriteReady
<1>7. CASE LogReady \/ Catch \/ SeeStop \/ BeginCleanup
  BY <1>7 DEF LogReady, Catch, SeeStop, BeginCleanup
<1> QED
  BY <1>1, <1>2, <1>3, <1>4, <1>5, <1>6, <1>7 DEF Quiet

LEMMA OthersIs ==
    Others <=> \/ Apply \/ Quiet \/ RemoveAce \/ RemoveRules \/ Crash
               \/ World
  BY DEF Others, Helper, Quiet

-----------------------------------------------------------------------------
(* Types.                                                                  *)

LEMMA TypeStep == TypeOK /\ [Next]_vars => TypeOK'
<1> SUFFICES ASSUME TypeOK, [Next]_vars PROVE TypeOK'
  OBVIOUS
<1>0. faults' \subseteq MayFail \cup MayExpire
  BY FaultsGrow DEF TypeOK
<1>1. CASE UNCHANGED vars
  BY <1>1 DEF vars, guardVars, helperVars, hostVars, fileVars, TypeOK
<1>2. CASE Guard
  <2>1. /\ UNCHANGED <<spec, next, applied, firewall, present, gone, aces, netRules>>
        /\ helper' \in {helper, "apply", "killed"}
    BY <1>2, GuardStep DEF hostVars
  <2>2. ready \in {"absent", "empty", "ok", "error"} /\ stop \in BOOLEAN /\ workspace \in BOOLEAN
    BY DEF TypeOK
  <2>3. ready' \in {"absent", ready} /\ stop' \in BOOLEAN /\ workspace' \in BOOLEAN
    BY <1>2, <2>2 DEF Guard, Spawn, Consent, ReadReady, CheckHelper, ProgramEnds, WriteStop, AwaitExit,
       Terminate, RemoveWorkspace, GuardOnly, fileVars
  <2>4. /\ guard' \in {"prompt", "poll", "check", "running", "drop", "wait", "terminate", "remove", "returned"}
        /\ outcome' \in {outcome, "denied", "io", "windows", "ran"}
    BY <1>2, <2>2 DEF Guard, Spawn, Consent, ReadReady, CheckHelper, ProgramEnds, WriteStop, AwaitExit,
       Terminate, RemoveWorkspace, GiveUp
  <2> QED
    BY <1>0, <2>1, <2>2, <2>3, <2>4 DEF TypeOK, Ended
<1>3. CASE Apply
  <2>1. spec' = spec /\ next' \in 1..(Len(spec.entries) + 1)
    BY <1>3, ApplyIs, EntryType DEF TypeOK
  <2>2. applied' \in Seq(Paths)
    <3>1. applied \in Seq(Paths) /\ spec.entries[next].path \in Paths
      BY <1>3, ApplyIs, EntryType DEF TypeOK
    <3>2. applied' \in {applied, Append(applied, spec.entries[next].path)}
      BY <1>3, ApplyIs
    <3> QED
      BY <3>1, <3>2
  <2>3. \A entry \in aces' : \E i \in DOMAIN spec.entries : spec.entries[i] = entry
    <3>1. next \in DOMAIN spec.entries /\ aces' \subseteq aces \cup {spec.entries[next]}
      BY <1>3, ApplyIs, EntryType
    <3> QED
      BY <3>1 DEF TypeOK
  <2>4. UNCHANGED <<guardVars, present, gone, stop, workspace, firewall, netRules, ready>>
        /\ helper' \in {"apply", "catch"}
    BY <1>3, ApplyIs
  <2> QED
    BY <1>0, <2>1, <2>2, <2>3, <2>4 DEF TypeOK, guardVars
<1>4. CASE Quiet
  <2>1. /\ UNCHANGED <<spec, guardVars, present, gone, stop, workspace, next, applied, aces>>
        /\ helper' \in {"out", "in", "enabled", "ready", "reported", "stop", "catch",
                        "failed", "finally", "cleanup", "exited"}
        /\ ready' \in {ready, "empty", "ok", "error"}
        /\ netRules' \in {netRules, netRules \cup {"out"}, netRules \cup {"in"}}
    BY <1>4, QuietIs
  <2>2. firewall' \in BOOLEAN
    BY <1>4, QuietIs DEF TypeOK
  <2> QED
    BY <1>0, <2>1, <2>2 DEF TypeOK, guardVars, Ended
<1>5. CASE RemoveAce \/ RemoveRules
  <2>1. applied' \in Seq(Paths)
    <3>1. applied \in Seq(Paths)
      BY DEF TypeOK
    <3>2. Len(applied) > 0 => SubSeq(applied, 1, Len(applied) - 1) \in Seq(Paths)
      BY <3>1
    <3>3. applied' = applied \/ (Len(applied) > 0 /\ applied' = SubSeq(applied, 1, Len(applied) - 1))
      BY <1>5 DEF RemoveAce, RemoveRules
    <3> QED
      BY <3>1, <3>2, <3>3
  <2>2. /\ UNCHANGED <<spec, guardVars, present, gone, stop, workspace, next, firewall, ready>>
        /\ aces' \subseteq aces /\ netRules' \subseteq netRules /\ helper' \in {helper, "exited"}
    BY <1>5 DEF RemoveAce, RemoveRules, HelperOnly
  <2> QED
    BY <1>0, <2>1, <2>2 DEF TypeOK, guardVars, Ended
<1>6. CASE Crash \/ World
  <2>1. /\ UNCHANGED <<spec, guardVars, stop, workspace, next, applied, firewall, netRules, ready>>
        /\ aces' \subseteq aces /\ present' \subseteq Paths /\ gone' \subseteq Paths
        /\ helper' \in {helper, "crashed"}
    BY <1>6 DEF Crash, World, Vanish, Recreate, HelperOnly, helperVars, fileVars, TypeOK
  <2> QED
    BY <1>0, <2>1 DEF TypeOK, guardVars, Ended
<1> QED
  BY <1>1, <1>2, <1>3, <1>4, <1>5, <1>6, NextIs, OthersIs

-----------------------------------------------------------------------------
(* What there is to take back.                                             *)

LEMMA TrackedStep == TypeOK /\ FilePlace /\ HelperPlace /\ Tracked /\ [Next]_vars => Tracked'
<1> SUFFICES ASSUME TypeOK, FilePlace, HelperPlace, Tracked, [Next]_vars PROVE Tracked'
  OBVIOUS
<1>0. faults \subseteq faults'
  BY FaultsGrow
<1>a. applied \in Seq(Paths) /\ Len(applied) \in Nat
  BY DEF TypeOK
<1>1. CASE UNCHANGED vars
  BY <1>1 DEF vars, helperVars, hostVars, Tracked
<1>2. CASE Guard
  <2>1. UNCHANGED <<aces, applied, firewall, netRules>>
    BY <1>2, GuardStep DEF hostVars
  <2>2. \/ helper' = helper
        \/ helper' = "apply" /\ helper = "none"
        \/ helper' = "killed" /\ helper \notin Ended
    <3>1. guard = "prompt" => helper = "none"
      BY DEF FilePlace
    <3>3. CASE helper' # helper
      <4>1. \/ guard = "prompt" /\ helper' = "apply"
            \/ helper' = "killed" /\ helper \notin Ended
        BY <1>2, <3>3, GuardStep
      <4> QED
        BY <3>1, <4>1
    <3> QED
      BY <3>3
  <2> QED
    BY <1>0, <2>1, <2>2 DEF Tracked, HelperPlace, Ended
<1>3. CASE Apply
  <2>1. /\ helper = "apply" /\ helper' # "exited" /\ UNCHANGED <<firewall, netRules>>
        /\ aces' \subseteq aces \cup {spec.entries[next]}
    BY <1>3, ApplyIs
  <2>2. CASE applied' = Append(applied, spec.entries[next].path)
    <3>1. /\ Len(applied') = Len(applied) + 1
          /\ applied'[Len(applied) + 1] = spec.entries[next].path
          /\ \A i \in 1..Len(applied) : applied'[i] = applied[i]
      BY <1>a, <2>2
    <3>2. ASSUME NEW entry \in aces'
          PROVE  \/ \E i \in 1..Len(applied') : applied'[i] = entry.path
                 \/ faults' \cap {"log", "remove"} # {}
      <4>1. CASE entry = spec.entries[next]
        BY <1>a, <3>1, <4>1
      <4>2. CASE entry \in aces
        BY <1>0, <1>a, <3>1, <4>2 DEF Tracked
      <4> QED
        BY <2>1, <4>1, <4>2
    <3> QED
      BY <1>0, <2>1, <3>2 DEF Tracked
  <2>3. CASE applied' = applied /\ (aces' = aces \/ "log" \in faults')
    BY <1>0, <2>1, <2>3 DEF Tracked
  <2> QED
    BY <1>3, <2>2, <2>3, ApplyIs
<1>4. CASE Quiet
  <2>1. UNCHANGED <<applied, aces>> /\ helper \notin Ended
    BY <1>4, QuietIs DEF Ended
  <2>2. helper' = "exited" => faults' \cap {"log", "terminate"} # {}
    <3> SUFFICES ASSUME helper' = "exited" PROVE faults' \cap {"log", "terminate"} # {}
      OBVIOUS
    <3>1. helper = "finally" /\ (~workspace \/ "log" \in faults')
      BY <1>4, QuietIs
    <3>2. ~workspace => "terminate" \in faults
      BY <3>1 DEF FilePlace, HelperPlace, Ended
    <3> QED
      BY <1>0, <3>1, <3>2
  <2>3. netRules' # {} => firewall' \/ helper' \in {"in", "enabled"} \/ "in" \in faults'
    <3>1. netRules # {} => firewall' \/ helper' \in {"in", "enabled"} \/ "in" \in faults'
      BY <1>0, <1>4, <2>1, QuietIs DEF Tracked, Ended
    <3> QED
      BY <1>4, <3>1, QuietIs
  <2> QED
    BY <1>0, <2>1, <2>2, <2>3 DEF Tracked
<1>5. CASE RemoveAce
  <2>1. /\ Len(applied) > 0 /\ aces' \subseteq aces
        /\ \/ \A entry \in aces' : entry.path # applied[Len(applied)]
           \/ "remove" \in faults'
        /\ applied' = SubSeq(applied, 1, Len(applied) - 1)
        /\ UNCHANGED <<helper, firewall, netRules>> /\ helper = "cleanup"
    BY <1>5, FailsIs DEF RemoveAce
  <2>2. Len(applied') = Len(applied) - 1 /\ \A i \in 1..Len(applied') : applied'[i] = applied[i]
    <3>1. Len(applied) - 1 \in 0..Len(applied) /\ Len(applied) \in 1..Len(applied)
      BY <1>a, <2>1
    <3> DEFINE short == SubSeq(applied, 1, Len(applied) - 1)
    <3>2. /\ 1 \in Int /\ Len(applied) - 1 \in Int
          /\ \A i \in 1..(Len(applied) - 1) : applied[i] \in Paths
      BY <1>a, <3>1
    <3>3. /\ Len(short) = IF 1 <= Len(applied) - 1 THEN Len(applied) - 1 - 1 + 1 ELSE 0
          /\ \A i \in 1..(Len(applied) - 1 - 1 + 1) : short[i] = applied[1 + i - 1]
      BY <3>2, SubSeqProperties
    <3>4. applied' = short
      BY <2>1
    <3> HIDE DEF short
    <3>5. Len(short) = Len(applied) - 1
      <4>1. \A n \in Nat \ {0} : n - 1 = IF 1 <= n - 1 THEN n - 1 - 1 + 1 ELSE 0
        OBVIOUS
      <4>2. Len(applied) \in Nat \ {0}
        BY <1>a, <3>1
      <4> QED
        BY <3>3, <4>1, <4>2
    <3>6. ASSUME NEW i \in 1..Len(short) PROVE short[i] = applied[i]
      <4>1. i \in 1..(Len(applied) - 1 - 1 + 1) /\ 1 + i - 1 = i
        BY <1>a, <3>5
      <4> QED
        BY <3>3, <4>1
    <3> QED
      BY <3>4, <3>5, <3>6
  <2>3. ASSUME NEW entry \in aces'
        PROVE  \/ \E i \in 1..Len(applied') : applied'[i] = entry.path
               \/ faults' \cap {"log", "remove"} # {}
    BY <1>0, <1>a, <2>1, <2>2 DEF Tracked
  <2> QED
    BY <1>0, <2>1, <2>3 DEF Tracked
<1>6. CASE RemoveRules
  <2>1. /\ applied = <<>> /\ UNCHANGED <<applied, aces, firewall>> /\ helper = "cleanup"
        /\ netRules' = (IF firewall THEN {} ELSE netRules) \/ "delete" \in faults'
        /\ netRules' \subseteq netRules /\ helper' = "exited"
    BY <1>6, FailsIs DEF RemoveRules
  <2>2. aces = {} \/ faults \cap {"log", "remove"} # {}
    BY <2>1 DEF Tracked
  <2> QED
    BY <1>0, <2>1, <2>2 DEF Tracked
<1>7. CASE Crash
  BY <1>0, <1>7, FailsIs DEF Crash, Tracked
<1>8. CASE World
  <2>1. UNCHANGED <<helper, applied, firewall, netRules>> /\ aces' \subseteq aces
    BY <1>8 DEF World, Vanish, Recreate, helperVars
  <2> QED
    BY <1>0, <2>1 DEF Tracked
<1> QED
  BY <1>1, <1>2, <1>3, <1>4, <1>5, <1>6, <1>7, <1>8, NextIs, OthersIs

-----------------------------------------------------------------------------
(* What is in force.                                                       *)

\* A step of the world: what is gone has lost its ACEs.
LEMMA WorldIs ==
    ASSUME World
    PROVE  /\ UNCHANGED <<spec, guard, outcome, helper, next, netRules, ready, faults>>
           /\ gone \subseteq gone' /\ gone' \subseteq gone \cup Paths
           /\ present \cup gone \subseteq present' \cup gone'
           /\ aces' \subseteq aces /\ \A entry \in aces : entry \in aces' \/ entry.path \in gone'
<1>1. MayVanish \subseteq Paths
  OBVIOUS
<1>2. ASSUME NEW path \in MayVanish, Vanish(path) \/ Recreate(path)
      PROVE  /\ UNCHANGED <<spec, guard, outcome, helper, next, netRules, ready, faults>>
             /\ gone \subseteq gone' /\ gone' \subseteq gone \cup Paths
             /\ present \cup gone \subseteq present' \cup gone'
             /\ aces' \subseteq aces
             /\ \A entry \in aces : entry \in aces' \/ entry.path \in gone'
  BY <1>1, <1>2 DEF Vanish, Recreate, guardVars, helperVars, fileVars
<1> QED
  BY <1>2 DEF World

LEMMA GoneStep == TypeOK /\ GonePlace /\ [Next]_vars => GonePlace'
<1> SUFFICES ASSUME TypeOK, GonePlace, [Next]_vars PROVE GonePlace'
  OBVIOUS
<1>1. CASE UNCHANGED vars
  BY <1>1 DEF vars, hostVars, GonePlace
<1>2. CASE Guard
  BY <1>2, GuardStep DEF hostVars, GonePlace
<1>3. CASE World
  BY <1>3, WorldIs DEF GonePlace
<1>4. CASE Others /\ ~World
  <2>1. UNCHANGED <<present, gone>>
    BY <1>4, OthersIs, ApplyIs, QuietIs DEF RemoveAce, RemoveRules, Crash, HelperOnly
  <2> QED
    BY <2>1 DEF GonePlace
<1> QED
  BY <1>1, <1>2, <1>3, <1>4, NextIs

\* What is in force stays so, but for what is gone.
LEMMA StaysInForce ==
    ASSUME UNCHANGED <<spec, netRules>>, gone \subseteq gone', faults \subseteq faults',
           \A entry \in aces : entry \in aces' \/ entry.path \in gone'
    PROVE  /\ \A n : AppliedUpTo(n) => AppliedUpTo(n)'
           /\ Enforced => Enforced'
<1>1. ASSUME NEW n, AppliedUpTo(n) PROVE AppliedUpTo(n)'
  BY <1>1 DEF AppliedUpTo
<1>2. Enforced => Enforced'
  <2>1. AppliedUpTo(Len(spec.entries) + 1) => AppliedUpTo(Len(spec.entries) + 1)'
    BY DEF AppliedUpTo
  <2> QED
    BY <2>1 DEF Enforced
<1> QED
  BY <1>1, <1>2

LEMMA ProgressStep ==
    TypeOK /\ FilePlace /\ HelperPlace /\ GonePlace /\ Progress /\ [Next]_vars => Progress'
<1> SUFFICES ASSUME TypeOK, FilePlace, HelperPlace, GonePlace, Progress, [Next]_vars
             PROVE  Progress'
  OBVIOUS
<1>a. next \in Nat /\ Len(spec.entries) \in Nat
  BY EntryType
<1>0. faults \subseteq faults'
  BY FaultsGrow
<1>r. netRules' # {} => spec'.block
  <2>1. UNCHANGED vars \/ Guard \/ World => UNCHANGED <<spec, netRules>>
    BY GuardStep, WorldIs DEF vars, hostVars
  <2>2. Apply \/ RemoveAce \/ RemoveRules \/ Crash => spec' = spec /\ netRules' \subseteq netRules
    BY ApplyIs DEF RemoveAce, RemoveRules, Crash, HelperOnly
  <2>3. Quiet => spec' = spec /\ (netRules' # netRules => spec.block)
    BY QuietIs DEF Progress
  <2> QED
    BY <2>1, <2>2, <2>3, NextIs, OthersIs DEF Progress
<1>1. CASE UNCHANGED vars
  BY <1>1 DEF vars, helperVars, hostVars, Progress, AppliedUpTo, Enforced
<1>2. CASE Guard
  <2>1. UNCHANGED <<spec, next, gone, aces, netRules>>
    BY <1>2, GuardStep DEF hostVars
  <2>2. CASE helper' = helper
    <3>1. (\A n : AppliedUpTo(n) => AppliedUpTo(n)') /\ (Enforced => Enforced')
      BY <1>0, <2>1, StaysInForce
    <3> QED
      BY <1>r, <2>1, <2>2, <3>1 DEF Progress
  <2>3. CASE helper' = "apply" /\ guard = "prompt"
    <3>1. next = 1
      BY <2>3 DEF FilePlace, Progress
    <3>2. AppliedUpTo(next)'
      BY <2>1, <3>1 DEF AppliedUpTo
    <3> QED
      BY <1>r, <2>3, <3>2 DEF Progress
  <2>4. CASE helper' = "killed"
    BY <1>r, <2>4 DEF Progress
  <2> QED
    BY <1>2, <2>2, <2>3, <2>4, GuardStep
<1>3. CASE Apply
  <2>1. CASE helper' = "apply" /\ next' = next + 1
    <3>1. AppliedUpTo(next) /\ UNCHANGED <<spec, gone>> /\ aces \subseteq aces'
      BY <1>3, ApplyIs DEF Progress
    <3>2. \A i \in 1..Len(spec.entries) : i < next' => i < next \/ i = next
      BY <1>a, <2>1
    <3>3. \/ spec.entries[next] \in aces'
          \/ spec.entries[next].path \in gone
          \/ spec.entries[next].kind \in AllowKinds /\ "icacls" \in faults'
      <4>1. next \in 1..Len(spec.entries)
        BY <1>3, ApplyIs
      <4>2. spec.entries[next].path \in present \cup gone
        BY <4>1, EntryType DEF GonePlace
      <4> QED
        BY <1>3, <2>1, <4>2, ApplyIs
    <3>4. AppliedUpTo(next)'
      BY <1>0, <3>1, <3>2, <3>3 DEF AppliedUpTo
    <3> QED
      BY <1>r, <2>1, <3>4 DEF Progress
  <2>2. CASE helper' = "catch"
    BY <1>r, <2>2 DEF Progress
  <2> QED
    BY <1>3, <2>1, <2>2, ApplyIs
<1>4. CASE Quiet
  <2>1. UNCHANGED <<spec, gone, next, aces>>
    BY <1>4, QuietIs
  <2>2. helper = "apply" => AppliedUpTo(Len(spec.entries) + 1)
    <3>1. helper = "apply" => next > Len(spec.entries)
      BY <1>4, QuietIs
    <3>2. \A i \in 1..Len(spec.entries) : next > Len(spec.entries) => i < next
      BY <1>a
    <3> QED
      BY <3>1, <3>2 DEF Progress, AppliedUpTo
  <2>3. helper \in {"out", "in", "enabled", "ready", "reported", "stop"} =>
           AppliedUpTo(Len(spec.entries) + 1)
    BY DEF Progress, Enforced
  <2>4. helper \in {"apply", "out", "in", "enabled", "ready", "reported", "stop"} =>
           AppliedUpTo(Len(spec.entries) + 1)'
    BY <1>0, <2>1, <2>2, <2>3 DEF AppliedUpTo
  <2>5. CASE helper' = "out"
    BY <1>r, <1>4, <2>1, <2>4, <2>5, QuietIs DEF Progress
  <2>6. CASE helper' = "in"
    BY <1>r, <1>4, <2>1, <2>4, <2>6, QuietIs DEF Progress
  <2>7. CASE helper' = "enabled"
    <3>1. helper = "in" /\ netRules' = netRules \cup {"in"}
      BY <1>4, <2>7, QuietIs
    <3>2. spec.block /\ "out" \in netRules /\ netRules \subseteq {"out", "in"}
      BY <3>1 DEF Progress, TypeOK
    <3> QED
      BY <1>r, <2>1, <2>4, <2>7, <3>1, <3>2 DEF Progress
  <2>8. CASE helper' \in {"ready", "reported", "stop"}
    <3>1. helper = "enabled" \/ (helper = "apply" /\ ~spec.block) \/ helper \in {"ready", "reported"}
      BY <1>4, <2>8, QuietIs
    <3>2. netRules' = netRules
      BY <1>4, <2>8, QuietIs
    <3>3. spec.block => netRules = {"out", "in"}
      BY <3>1 DEF Progress, Enforced
    <3>4. Enforced'
      BY <2>1, <2>4, <3>1, <3>2, <3>3 DEF Enforced
    <3> QED
      BY <1>r, <2>8, <3>4 DEF Progress
  <2>9. CASE helper' \in {"catch", "failed", "finally", "cleanup", "exited"}
    BY <1>r, <2>9 DEF Progress
  <2> QED
    BY <1>4, <2>5, <2>6, <2>7, <2>8, <2>9, QuietIs
<1>5. CASE RemoveAce \/ RemoveRules \/ Crash
  BY <1>r, <1>5 DEF RemoveAce, RemoveRules, Crash, Progress
<1>6. CASE World
  <2>1. UNCHANGED <<spec, helper, next, netRules, faults>>
    BY <1>6, WorldIs
  <2>2. (\A n : AppliedUpTo(n) => AppliedUpTo(n)') /\ (Enforced => Enforced')
    BY <1>6, <2>1, WorldIs, StaysInForce
  <2> QED
    BY <1>r, <2>1, <2>2 DEF Progress
<1> QED
  BY <1>1, <1>2, <1>3, <1>4, <1>5, <1>6, NextIs, OthersIs

LEMMA HandshakeStep ==
    TypeOK /\ FilePlace /\ HelperPlace /\ Progress /\ Handshake /\ [Next]_vars => Handshake'
<1> SUFFICES ASSUME TypeOK, FilePlace, HelperPlace, Progress, Handshake, [Next]_vars
             PROVE  Handshake'
  OBVIOUS
<1>0. faults \subseteq faults'
  BY FaultsGrow
<1>1. CASE UNCHANGED vars
  BY <1>1 DEF vars, guardVars, helperVars, hostVars, fileVars, Handshake, Enforced, AppliedUpTo
<1>2. CASE Guard
  <2>1. Enforced => Enforced'
    BY <1>0, <1>2, GuardStep, StaysInForce DEF hostVars
  <2>2. ready \in {"absent", "empty", "ok", "error"}
    BY DEF TypeOK
  <2>3. guard' = "running" => guard = "poll" /\ ready = "ok"
    BY <1>2, <2>2 DEF Guard, Spawn, Consent, ReadReady, CheckHelper, ProgramEnds, WriteStop, AwaitExit,
       Terminate, RemoveWorkspace, GiveUp
  <2>4. guard' \in Handshaking => guard \in {"prompt", "poll", "check"}
    BY <1>2 DEF Guard, Spawn, Consent, ReadReady, CheckHelper, ProgramEnds, WriteStop, AwaitExit,
       Terminate, RemoveWorkspace, GiveUp, Handshaking
  <2>5. guard' \in Handshaking => ready' = ready /\ (helper' = helper \/ guard = "prompt")
    BY <1>2, GuardStep DEF Handshaking
  <2>6. guard = "prompt" => ready # "ok"
    BY DEF FilePlace
  <2> QED
    BY <1>0, <2>1, <2>3, <2>4, <2>5, <2>6 DEF Handshake, Handshaking
<1>3. SUFFICES ASSUME Others PROVE Handshake'
  BY <1>1, <1>2, NextIs
<1>4. guard' = guard /\ (guard \in Handshaking => workspace /\ ~stop)
  BY <1>3, OthersStep DEF FilePlace, Handshaking
<1>5. CASE Apply \/ RemoveAce \/ RemoveRules
  <2>1. ready' = ready /\ helper \in {"apply", "cleanup"}
    BY <1>5, ApplyIs DEF RemoveAce, RemoveRules
  <2> QED
    BY <1>0, <1>4, <2>1 DEF Handshake, Handshaking
<1>6. CASE Quiet
  <2>1. SUFFICES ASSUME guard \in Handshaking, "log" \notin faults'
                 PROVE  /\ guard = "running" => ready' = "ok"
                        /\ ready' = "ok" => helper' \in {"reported", "stop", "crashed"} /\ Enforced'
    BY <1>4 DEF Handshake, Handshaking
  <2>2. CASE ready = "ok"
    <3>1. helper = "reported" /\ Enforced
      BY <1>0, <1>4, <1>6, <2>1, <2>2, QuietIs DEF Handshake
    <3>2. helper' = "stop" /\ ready' = ready
      BY <1>4, <1>6, <2>1, <3>1, QuietIs
    <3>3. Enforced'
      BY <1>0, <1>6, <3>1, QuietIs, StaysInForce
    <3> QED
      BY <2>2, <3>1, <3>2, <3>3
  <2>3. CASE ready # "ok"
    <3>1. guard # "running"
      BY <1>0, <2>1, <2>3 DEF Handshake
    <3>2. ready' = "ok" => helper = "ready" /\ helper' = "reported" /\ Enforced
      BY <1>6, <2>3, QuietIs DEF Progress
    <3>3. helper = "ready" /\ Enforced => Enforced'
      BY <1>0, <1>6, QuietIs, StaysInForce
    <3> QED
      BY <3>1, <3>2, <3>3
  <2> QED
    BY <2>2, <2>3
<1>7. CASE Crash
  <2>1. helper' = "crashed" /\ UNCHANGED <<spec, gone, aces, netRules, ready>>
    BY <1>7 DEF Crash, HelperOnly
  <2>2. Enforced => Enforced'
    BY <1>0, <2>1, StaysInForce
  <2> QED
    BY <1>0, <1>4, <2>1, <2>2 DEF Handshake, Handshaking
<1>8. CASE World
  <2>1. UNCHANGED <<helper, ready, faults>> /\ (Enforced => Enforced')
    BY <1>8, WorldIs, StaysInForce
  <2> QED
    BY <1>4, <2>1 DEF Handshake, Handshaking
<1> QED
  BY <1>3, <1>5, <1>6, <1>7, <1>8, OthersIs

-----------------------------------------------------------------------------
(* The theorems.                                                           *)

LEMMA InitInv == Init => OpsInv
<1> SUFFICES ASSUME Init PROVE OpsInv
  OBVIOUS
<1> USE DEF Init
<1>1. TypeOK
  <2>1. spec.entries \in Seq([kind : DenyKinds \cup AllowKinds, path : Paths])
    OBVIOUS
  <2>2. next \in 1..(Len(spec.entries) + 1)
    BY <2>1
  <2>3. firewall \in BOOLEAN /\ stop \in BOOLEAN /\ workspace \in BOOLEAN
    OBVIOUS
  <2> QED
    BY <2>2, <2>3 DEF TypeOK
<1>2. FilePlace /\ HelperPlace
  BY DEF FilePlace, HelperPlace, Ended
<1>3. Tracked
  BY DEF Tracked
<1>4. Progress /\ Handshake
  BY DEF Progress, Handshake, Handshaking
<1>5. GonePlace
  BY DEF GonePlace
<1> QED
  BY <1>1, <1>2, <1>3, <1>4, <1>5 DEF OpsInv

\* The invariant of the guard and its helper: what each place of the helper
\* has put in force, what is recorded of it, and which files are there.
THEOREM OpsInvariant == Spec => []OpsInv
<1>1. Init => OpsInv
  BY InitInv
<1>2. OpsInv /\ [Next]_vars => OpsInv'
  BY TypeStep, FileStep, HelperStep, TrackedStep, GoneStep, ProgressStep, HandshakeStep
     DEF OpsInv
<1> QED
  BY <1>1, <1>2, PTL DEF Spec

\* The handshake never lets the program start before the deny entries and the
\* rules are in force, nor the helper take them back while it runs.
THEOREM ProgramIsConfined == Spec => []EnforcedWhileRunning
<1>1. OpsInv => EnforcedWhileRunning
  <2> SUFFICES ASSUME OpsInv, guard = "running", "log" \notin faults
               PROVE  /\ \A entry \in Entries :
                            entry.kind \in DenyKinds /\ entry.path \notin gone => entry \in aces
                      /\ spec.block => netRules = {"out", "in"}
    BY DEF EnforcedWhileRunning
  <2>1. Enforced
    BY DEF OpsInv, Handshake, Handshaking
  <2>2. spec.entries \in Seq([kind : DenyKinds \cup AllowKinds, path : Paths])
    BY EntryType DEF OpsInv
  <2>3. DOMAIN spec.entries = 1..Len(spec.entries) /\ Len(spec.entries) \in Nat
    BY <2>2
  <2>4. \A i \in 1..Len(spec.entries) : i < Len(spec.entries) + 1
    BY <2>3
  <2>5. DenyKinds \cap AllowKinds = {}
    BY DEF DenyKinds, AllowKinds
  <2> QED
    BY <2>1, <2>3, <2>4, <2>5 DEF Enforced, AppliedUpTo, Entries
<1> QED
  BY <1>1, OpsInvariant, PTL

\* The finally block takes back what the try block did, whatever fails in it,
\* but for what the log, an end from outside or a removal that fails keeps it
\* from: there is no other way to leave an ACE or a rule behind.
THEOREM HostIsRestored == Spec => []HostRestored
<1>1. OpsInv => HostRestored
  <2> SUFFICES ASSUME OpsInv PROVE HostRestored
    OBVIOUS
  <2>1. helper = "exited" =>
           /\ aces = {} \/ faults \cap {"log", "terminate", "remove"} # {}
           /\ netRules = {} \/ faults \cap {"log", "terminate", "delete", "in"} # {}
    BY DEF OpsInv, Tracked
  <2>2. ASSUME guard = "returned", faults = {} PROVE helper \in {"exited", "none"}
    BY <2>2 DEF OpsInv, HelperPlace, Ended
  <2>3. ASSUME guard = "returned", faults = {} PROVE aces = {} /\ netRules = {}
    BY <2>2, <2>3 DEF OpsInv, HelperPlace, Tracked
  <2> QED
    BY <2>1, <2>3 DEF HostRestored
<1> QED
  BY <1>1, OpsInvariant, PTL

\* Drop waits for the helper or ends it before it removes the workspace.
THEOREM NoHelperIsLeft == Spec => []NoHelperLeft
<1>1. OpsInv => NoHelperLeft
  BY DEF OpsInv, HelperPlace, NoHelperLeft
<1> QED
  BY <1>1, OpsInvariant, PTL

-----------------------------------------------------------------------------
(* The refinement of HelperContract.                                       *)

\* The contract does not say what a helper without a log has in force, nor what
\* one that was ended has left.
Open == "log" \in faults \/ (guard = "returned" /\ faults \cap Uncleanly # {})

LEMMA OpenIs == (Contract!Open <=> Open) /\ (Contract!Open <=> Open)'
  BY DEF Contract!Open, Open, Trouble, Phase

\* The guard's places seen as phases, and what is on record.
LEMMA SpecIs ==
    ASSUME OpsInv
    PROVE  /\ aces \subseteq Entries /\ netRules \subseteq {"out", "in"}
           /\ Entries \subseteq [kind : DenyKinds \cup AllowKinds, path : Paths]
<1>1. TypeOK
  BY DEF OpsInv
<1>2. \A i \in DOMAIN spec.entries :
         spec.entries[i] \in [kind : DenyKinds \cup AllowKinds, path : Paths]
  <2> DEFINE Kind == [kind : DenyKinds \cup AllowKinds, path : Paths]
  <2>1. spec.entries \in Seq(Kind)
    BY <1>1, EntryType
  <2> HIDE DEF Kind
  <2>2. \A i \in DOMAIN spec.entries : spec.entries[i] \in Kind
    BY <2>1
  <2> QED
    BY <2>2 DEF Kind
<1> QED
  BY <1>1, <1>2 DEF TypeOK, Entries

\* Every step only adds to what has failed and to what was gone.
LEMMA StepWorsens ==
    ASSUME OpsInv, OpsInv', [Next]_vars
    PROVE  Contract!Worsen /\ UNCHANGED <<spec, Entries>> /\ (Open => Open')
<1>1. spec' = spec /\ gone \subseteq gone' /\ (guard = "returned" => guard' = guard)
  <2>1. CASE UNCHANGED vars
    BY <2>1 DEF vars, guardVars, hostVars
  <2>2. CASE Guard
    BY <2>2, GuardStep DEF hostVars, Guard, Spawn, Consent, ReadReady, CheckHelper, ProgramEnds, WriteStop,
       AwaitExit, Terminate, RemoveWorkspace
  <2>3. CASE World
    BY <2>3, WorldIs
  <2>4. CASE Apply \/ Quiet \/ RemoveAce \/ RemoveRules \/ Crash
    BY <2>4, ApplyIs, QuietIs DEF OpsInv, RemoveAce, RemoveRules, Crash, HelperOnly, guardVars
  <2> QED
    BY <2>1, <2>2, <2>3, <2>4, NextIs, OthersIs
<1>2. Entries' = Entries /\ spec'.block = spec.block
  BY <1>1 DEF Entries
<1>3. faults \subseteq faults'
  BY FaultsGrow
<1>4. Trouble \subseteq Trouble' /\ Trouble' \subseteq {"icacls", "log", "unclean"}
  BY <1>3 DEF Trouble
<1>5. gone' \subseteq Paths
  BY DEF OpsInv, TypeOK
<1>6. Open => Open'
  BY <1>1, <1>3 DEF Open
<1>7. aces' \subseteq Entries /\ netRules' \subseteq {"out", "in"}
  BY <1>2 DEF OpsInv, TypeOK, Entries
<1>8. Contract!Worsen
  BY <1>1, <1>2, <1>4, <1>5, <1>7 DEF Contract!Worsen, Contract!Troubles, Contract!Rules, AnyPart
<1> QED
  BY <1>1, <1>2, <1>6, <1>8

\* Nothing is in force before the helper is there, and nothing once it has
\* ended, but for what is on record.
LEMMA HostIsClean ==
    ASSUME OpsInv, guard \in {"spawn", "prompt", "remove", "returned"},
           "log" \notin faults, faults \cap Uncleanly = {}
    PROVE  aces = {} /\ netRules = {} /\ helper \in Ended \cup {"none"}
<1>1. guard \in {"spawn", "prompt"} => helper = "none"
  BY DEF OpsInv, FilePlace
<1>2. helper \in {"exited", "none"}
  BY <1>1 DEF OpsInv, HelperPlace, Uncleanly, Ended
<1>3. helper \in {"exited", "none"} => aces = {} /\ netRules = {}
  BY DEF OpsInv, HelperPlace, Tracked, Uncleanly
<1> QED
  BY <1>2, <1>3 DEF Ended

\* spawn returns Ok: everything is in force, but for what may be missing.
LEMMA ReadyStep ==
    ASSUME OpsInv, OpsInv', ReadReady, guard' = "running" PROVE Contract!Ready
<1>1. guard = "poll" /\ ready = "ok" /\ UNCHANGED <<aces, netRules, helper, spec, gone>>
  <2>1. ready \in {"absent", "empty", "ok", "error"}
    BY DEF OpsInv, TypeOK
  <2> QED
    BY <2>1 DEF ReadReady, GiveUp, GuardOnly, helperVars, hostVars
<1>2. Contract!Worsen /\ UNCHANGED <<spec, Entries>>
  BY StepWorsens, NextIs DEF Guard
<1>3. ASSUME ~Open'
      PROVE  /\ Entries \ aces' \subseteq (Contract!Lost \cup Contract!Unset)'
             /\ netRules' = IF spec.block THEN {"out", "in"} ELSE {}
  <2>1. Enforced' /\ (netRules' # {} => spec'.block)
    BY <1>1, <1>3 DEF OpsInv, Handshake, Handshaking, Open, Progress
  <2>2. ASSUME NEW entry \in Entries, entry \notin aces'
        PROVE  entry.path \in gone' \/ (entry.kind \in AllowKinds /\ "icacls" \in faults')
    <3>1. PICK i \in DOMAIN spec.entries : spec.entries[i] = entry
      BY DEF Entries
    <3>2. i \in 1..Len(spec.entries) /\ i < Len(spec.entries) + 1
      BY EntryType DEF OpsInv
    <3> QED
      BY <1>1, <2>1, <2>2, <3>1, <3>2 DEF Enforced, AppliedUpTo
  <2> QED
    BY <1>2, <2>1, <2>2
       DEF Contract!Lost, Contract!Unset, Contract!AllowKinds, AllowKinds, Trouble, Enforced
<1>4. aces' = Entries \ (Entries \ aces')
  BY <1>1, SpecIs
<1> QED
  BY <1>1, <1>2, <1>3, <1>4, OpenIs DEF Contract!Ready, Contract!Rules, Phase

\* The program runs: nothing is added, and nothing lost but for what is gone.
LEMMA HoldStep ==
    ASSUME OpsInv, OpsInv', Others, guard = "running" PROVE Contract!Hold
<1>1. Contract!Worsen /\ UNCHANGED <<spec, Entries>> /\ (Open => Open') /\ [Next]_vars
  BY StepWorsens, NextIs
<1>2. guard' = guard /\ ~stop
  BY OthersStep DEF OpsInv, FilePlace
<1>3. ASSUME ~Open'
      PROVE  /\ aces' \subseteq aces /\ netRules' = netRules
             /\ \A entry \in aces : entry \in aces' \/ entry.path \in gone'
  <2>1. helper \in {"reported", "stop", "crashed"}
    BY <1>1, <1>3 DEF OpsInv, Handshake, Handshaking, Open
  <2>2. CASE Apply \/ RemoveAce \/ RemoveRules
    BY <2>1, <2>2 DEF Apply, RemoveAce, RemoveRules
  <2>3. CASE Quiet
    BY <1>2, <2>1, <2>3, QuietIs DEF OpsInv
  <2>4. CASE Crash
    BY <2>4 DEF Crash
  <2>5. CASE World
    BY <2>5, WorldIs
  <2> QED
    BY <2>2, <2>3, <2>4, <2>5, OthersIs
<1>4. ~Open' => aces' = aces \ (aces \ aces') /\ aces \ aces' \subseteq Contract!Lost'
  BY <1>1, <1>3, SpecIs DEF Contract!Lost
<1> QED
  BY <1>1, <1>2, <1>3, <1>4, OpenIs DEF Contract!Hold, Phase

\* Nothing comes back once the guard is gone.
LEMMA LateStep ==
    ASSUME OpsInv, OpsInv', Others, guard = "returned" PROVE Contract!Late
<1>1. Contract!Worsen /\ (Open => Open') /\ guard' = guard
  BY StepWorsens, NextIs, OthersStep
<1>2. ~Open' => aces = {} /\ netRules = {} /\ aces' = {} /\ netRules' = {}
  <2> SUFFICES ASSUME ~Open' PROVE aces = {} /\ netRules = {} /\ aces' = {} /\ netRules' = {}
    OBVIOUS
  <2>1. "log" \notin faults /\ faults \cap Uncleanly = {}
    BY <1>1 DEF Open
  <2> QED
    BY <2>1, HostIsClean, OthersStep
<1> QED
  BY <1>1, <1>2, OpenIs DEF Contract!Late, Phase

\* Every step of guard, helper and world is a step of the contract.
LEMMA StepKeepsContract ==
    ASSUME OpsInv, OpsInv', [Next]_vars PROVE [Contract!Next]_(Contract!vars)
<1> USE DEF Contract!Next
<1>0. Contract!Worsen /\ UNCHANGED <<spec, Entries>> /\ (Open => Open')
  BY StepWorsens
<1>a. /\ aces' \subseteq Entries' /\ netRules' \subseteq {"out", "in"}
      /\ ready \in {"absent", "empty", "ok", "error"}
  BY DEF OpsInv, TypeOK, Entries
<1>b. ASSUME Phase' = Phase, Phase \in {"idle", "closing"} PROVE Contract!Change
  BY <1>0, <1>a, <1>b DEF Contract!Change, Contract!Rules
<1>1. CASE UNCHANGED vars
  BY <1>1 DEF vars, guardVars, hostVars, Contract!vars, Entries, Phase, Trouble, Open
<1>2. CASE Others
  <2>1. guard' = guard
    BY <1>2, OthersStep
  <2>2. CASE guard = "running"
    BY <1>2, <2>2, HoldStep
  <2>3. CASE guard = "returned"
    BY <1>2, <2>3, LateStep
  <2>4. CASE guard \notin {"running", "returned"}
    BY <1>b, <2>1, <2>4 DEF Phase
  <2> QED
    BY <2>2, <2>3, <2>4
<1>3. CASE Guard
  <2>0. UNCHANGED <<aces, netRules>>
    BY <1>3, GuardStep DEF hostVars
  <2>1. CASE guard' = "returned"
    <3>1. guard \in {"spawn", "prompt", "remove"}
      BY <1>3, <1>a, <2>1 DEF Guard, Spawn, Consent, ReadReady, CheckHelper, ProgramEnds, WriteStop, AwaitExit,
         Terminate, RemoveWorkspace, GiveUp
    <3>2. ~Open' => aces' = {} /\ netRules' = {}
      <4> SUFFICES ASSUME ~Open' PROVE aces' = {} /\ netRules' = {}
        OBVIOUS
      <4>1. "log" \notin faults /\ faults \cap Uncleanly = {}
        BY <2>1, FaultsGrow DEF Open
      <4> QED
        BY <2>0, <3>1, <4>1, HostIsClean
    <3> QED
      BY <1>0, <2>1, <3>1, <3>2, OpenIs DEF Contract!End, Phase
  <2>2. CASE guard' = "running"
    <3>1. ReadReady
      BY <1>3, <2>2 DEF Guard, Spawn, Consent, CheckHelper, ProgramEnds, WriteStop, AwaitExit, Terminate,
         RemoveWorkspace, GiveUp
    <3> QED
      BY <2>2, <3>1, ReadyStep
  <2>3. CASE guard' = "drop"
    <3>1. guard \in {"poll", "check", "running"}
      BY <1>3, <2>3 DEF Guard, Spawn, Consent, ReadReady, CheckHelper, ProgramEnds, WriteStop, AwaitExit, Terminate,
         RemoveWorkspace
    <3>2. ~Open' => UNCHANGED <<aces, netRules>> /\ ~Open
      BY <1>0, <2>0
    <3> QED
      BY <1>0, <2>3, <3>1, <3>2, OpenIs DEF Contract!Close, Phase
  <2>4. CASE guard' \notin {"running", "drop", "returned"}
    <3>1. Phase' = Phase /\ Phase \in {"idle", "closing"}
      BY <1>3, <1>a, <2>4 DEF Guard, Spawn, Consent, ReadReady, CheckHelper, ProgramEnds, WriteStop, AwaitExit,
         Terminate, RemoveWorkspace, GiveUp, Phase
    <3> QED
      BY <1>b, <3>1
  <2> QED
    BY <2>1, <2>2, <2>3, <2>4
<1> QED
  BY <1>1, <1>2, <1>3, NextIs

LEMMA InitKeepsContract == Init => Contract!Init
<1> SUFFICES ASSUME Init PROVE Contract!Init
  OBVIOUS
<1>1. OpsInv
  BY InitInv
<1>2. spec.block \in BOOLEAN
  BY DEF Init
<1>3. Phase = "idle" /\ aces = {} /\ netRules = {} /\ gone = {} /\ Trouble = {} /\ ~Open
  BY DEF Init, Phase, Trouble, Open
<1> QED
  BY <1>1, <1>2, <1>3, SpecIs DEF Contract!Init, Contract!DenyKinds, Contract!AllowKinds, DenyKinds, AllowKinds

\* Guard and helper together keep the contract that execute is built on: what
\* spawn promises is in force, it stays so until the guard is dropped, and it
\* is gone when the drop returns.
THEOREM HelperKeepsContract == Spec => KeepsContract
<1>1. Init => Contract!Init
  BY InitKeepsContract
<1>2. OpsInv /\ OpsInv' /\ [Next]_vars => [Contract!Next]_(Contract!vars)
  BY StepKeepsContract
<1> QED
  BY <1>1, <1>2, OpsInvariant, PTL DEF Spec, KeepsContract, Contract!Spec
=============================================================================
