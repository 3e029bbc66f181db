----------------------------- MODULE ElevatedOps -----------------------------
(***************************************************************************)
(* src/src/platform/windows/elevated_ops.rs: ElevatedOpsGuard in the       *)
(* caller's process and the PowerShell helper that it starts with          *)
(* administrator rights.  The helper adds the ACEs and the firewall rules, *)
(* reports through ready.signal, waits for stop.signal and cleans up; the  *)
(* two share nothing but these files and the helper's process handle.      *)
(*                                                                         *)
(* Both timeouts are nondeterministic: the helper may be arbitrarily slow. *)
(***************************************************************************)
EXTENDS Integers, Sequences, FiniteSets

CONSTANTS
    Paths,         \* what the policy lists
    Specs,         \* what the helper is asked for
    MayVanish,     \* paths that another process may remove and create again
    MayFail,       \* calls that may fail, on either side
    MayExpire,     \* the waits that may time out: "ready", "stop"
    MaxFaults      \* bound: calls that fail in one run

DenyKinds  == {"dn", "dw"}
AllowKinds == {"ro", "rw"}

ASSUME OpsAssumption ==
    /\ \A spec \in Specs :
          /\ spec.entries \in Seq([kind : DenyKinds \cup AllowKinds, path : Paths])
          /\ spec.block \in BOOLEAN
    /\ MayVanish \subseteq Paths
    /\ MayExpire \subseteq {"ready", "stop"} /\ MaxFaults \in Nat

VARIABLES
    spec,       \* entries in the order of serialize_acl_spec, and block_network
    present,    \* the paths that exist
    gone,       \* history: the paths that were missing at some time
    guard,      \* where the caller's thread stands
    outcome,    \* what spawn and the execution came to
    helper,     \* where the helper stands
    next,       \* the entry that the helper comes to next
    applied,    \* $appliedPaths
    firewall,   \* $firewallEnabled
    aces,       \* the entries that are in force on the host
    netRules,   \* the firewall rules that are in force
    ready,      \* contents of ready.signal
    stop,       \* does stop.signal exist?
    workspace,  \* does the directory of both files exist?
    faults      \* the calls that have failed, the timeouts that have passed

guardVars  == <<guard, outcome>>
helperVars == <<helper, next, applied, firewall>>
hostVars   == <<present, gone, aces, netRules>>
fileVars   == <<ready, stop, workspace>>
vars == <<spec, guardVars, helperVars, hostVars, fileVars, faults>>

Ended == {"exited", "killed", "crashed"}

Init ==
    /\ spec \in Specs
    /\ present = Paths /\ gone = {}
    /\ guard = "spawn" /\ outcome = "none"
    /\ helper = "none" /\ next = 1 /\ applied = <<>> /\ firewall = FALSE
    /\ aces = {} /\ netRules = {}
    /\ ready = "absent" /\ stop = FALSE /\ workspace = FALSE
    /\ faults = {}

Works == UNCHANGED faults

Fails(call) ==
    /\ call \in MayFail
    /\ Cardinality((faults \cap MayFail) \cup {call}) <= MaxFaults
    /\ faults' = faults \cup {call}

-----------------------------------------------------------------------------
(* The guard.                                                              *)

\* spawn: the workspace with script and spec.  One that is only half there when
\* spawn gives up is nobody's any more.
Spawn ==
    /\ guard = "spawn"
    /\ UNCHANGED <<spec, hostVars, helperVars, ready, stop>>
    /\ \/ /\ Works
          /\ guard' = "prompt" /\ workspace' = TRUE
          /\ UNCHANGED outcome
       \/ /\ Fails("workspace")
          /\ guard' = "returned" /\ outcome' = "io"
          /\ UNCHANGED workspace

\* ShellExecuteExW(runas) returns when the user has answered the prompt.
Consent ==
    /\ guard = "prompt"
    /\ UNCHANGED <<spec, hostVars, next, applied, firewall, ready, stop>>
    /\ \/ /\ Works
          /\ guard' = "poll" /\ helper' = "apply"
          /\ UNCHANGED <<outcome, workspace>>
       \/ /\ Fails("runas")
          /\ guard' = "returned" /\ outcome' = "denied" /\ workspace' = FALSE
          /\ UNCHANGED helper

\* A failed spawn drops the guard that it has built already.
GiveUp(why) == guard' = "drop" /\ outcome' = why

GuardOnly == UNCHANGED <<spec, helperVars, hostVars, fileVars>>

\* read_ready_signal: no file, a file that is locked and an empty file are
\* all pending.
ReadReady ==
    /\ guard = "poll"
    /\ GuardOnly
    /\ \/ /\ Works
          /\ CASE ready \in {"absent", "empty"} -> guard' = "check" /\ UNCHANGED outcome
               [] ready = "ok"    -> guard' = "running" /\ UNCHANGED outcome
               [] ready = "error" -> GiveUp("denied")
       \/ Fails("read") /\ GiveUp("io")

\* The helper may have ended, or the time may be up; otherwise poll again.
CheckHelper ==
    /\ guard = "check"
    /\ GuardOnly
    /\ \/ helper \in Ended /\ GiveUp("denied") /\ Works
       \/ helper \notin Ended /\ guard' = "poll" /\ Works /\ UNCHANGED outcome
       \/ /\ helper \notin Ended /\ "ready" \in MayExpire
          /\ GiveUp("denied") /\ faults' = faults \cup {"ready"}
       \/ Fails("query") /\ GiveUp("windows")

\* The sandboxed program runs and ends; then the guard is dropped.
ProgramEnds ==
    /\ guard = "running"
    /\ guard' = "drop" /\ outcome' = "ran"
    /\ GuardOnly /\ Works

\* Drop: `let _ = fs::write(&self.stop_file, ..)`
WriteStop ==
    /\ guard = "drop"
    /\ guard' = "wait"
    /\ (stop' = TRUE /\ Works) \/ (UNCHANGED stop /\ Fails("stop-file"))
    /\ UNCHANGED <<spec, outcome, helperVars, hostVars, ready, workspace>>

\* Mutant: one look at the helper, without waiting for it.
AwaitExitNot ==
    /\ guard = "wait"
    /\ GuardOnly /\ UNCHANGED outcome
    /\ \/ helper \in Ended /\ guard' = "remove" /\ Works
       \/ helper \notin Ended /\ guard' = "terminate" /\ Works
       \/ Fails("query") /\ guard' = "terminate"

\* Mutant: a helper that is late is left alone.
AwaitExitNoTerminate ==
    /\ guard = "wait"
    /\ GuardOnly /\ UNCHANGED outcome
    /\ guard' = "remove"
    /\ \/ helper \in Ended /\ Works
       \/ /\ helper \notin Ended /\ "stop" \in MayExpire
          /\ faults' = faults \cup {"stop"}
       \/ Fails("query")

\* Mutant: the wait has no timeout.
AwaitExitForever ==
    /\ guard = "wait"
    /\ GuardOnly /\ UNCHANGED outcome
    /\ \/ helper \in Ended /\ guard' = "remove" /\ Works
       \/ Fails("query") /\ guard' = "terminate"

\* try_wait_exit_code(5 s)
AwaitExit ==
    /\ guard = "wait"
    /\ GuardOnly /\ UNCHANGED outcome
    /\ \/ helper \in Ended /\ guard' = "remove" /\ Works
       \/ /\ helper \notin Ended /\ "stop" \in MayExpire
          /\ guard' = "terminate" /\ faults' = faults \cup {"stop"}
       \/ Fails("query") /\ guard' = "terminate"

\* TerminateProcess, whose failure goes unnoticed; the second wait for the
\* exit is over by the time that the workspace is removed.
Terminate ==
    /\ guard = "terminate"
    /\ guard' = "remove"
    /\ \/ /\ Works
          /\ helper' = IF helper \in Ended THEN helper ELSE "killed"
       \/ Fails("terminate") /\ UNCHANGED helper
    /\ UNCHANGED <<spec, outcome, next, applied, firewall, hostVars, fileVars>>

\* remove_dir_all takes ready.signal and stop.signal with it; nobody looks
\* whether it got through.
RemoveWorkspace ==
    /\ guard = "remove"
    /\ guard' = "returned"
    /\ UNCHANGED <<spec, outcome, helperVars, hostVars>>
    /\ \/ workspace' = FALSE /\ stop' = FALSE /\ ready' = "absent" /\ Works
       \/ /\ Fails("remove-dir") /\ UNCHANGED workspace
          /\ stop' \in {stop, FALSE} /\ ready' \in {ready, "absent"}

Guard ==
    \/ Spawn \/ Consent \/ ReadReady \/ CheckHelper \/ ProgramEnds
    \/ WriteStop \/ AwaitExit \/ Terminate \/ RemoveWorkspace

-----------------------------------------------------------------------------
(* The helper script.                                                      *)

HelperOnly == UNCHANGED <<spec, guardVars, present, gone, stop, workspace>>

\* Log-Progress: Add-Content to progress.log, which fails when the workspace is
\* gone, and is an error wherever it happens.
Logs     == workspace /\ Works
LogFails == (~workspace /\ Works) \/ Fails("log")

\* Mutant: a deny rule that fails is skipped as well.
ApplySkipsAll ==
    /\ helper = "apply" /\ next <= Len(spec.entries)
    /\ HelperOnly /\ UNCHANGED <<firewall, netRules, ready, helper>>
    /\ LET entry == spec.entries[next]
       IN  \/ /\ Logs
              /\ next' = next + 1
              /\ applied' = Append(applied, entry.path)
              /\ aces' = IF entry.path \in present THEN aces \cup {entry} ELSE aces
           \/ /\ Fails("icacls")
              /\ next' = next + 1 /\ UNCHANGED <<applied, aces>>

\* Mutant: the counter is not moved past a line that was applied.
ApplyCountsTwice ==
    /\ helper = "apply" /\ next <= Len(spec.entries)
    /\ HelperOnly /\ UNCHANGED <<firewall, netRules, ready, helper>>
    /\ Logs
    /\ next' = next + 2
    /\ applied' = Append(applied, spec.entries[next].path)
    /\ aces' = aces \cup {spec.entries[next]}

Skip  == next' = next + 1 /\ UNCHANGED helper
Throw == helper' = "catch" /\ UNCHANGED next

\* One line of the spec: a path that is gone is passed over, an allow rule that
\* fails is skipped, a deny rule that fails is an error.  The path is only
\* remembered after the "end" line is logged; an allow rule whose "end" line
\* is lost is skipped as if it had failed, when that can be logged.
Apply ==
    /\ helper = "apply" /\ next <= Len(spec.entries)
    /\ HelperOnly /\ UNCHANGED <<firewall, netRules, ready>>
    /\ LET entry   == spec.entries[next]
           inForce == IF entry.path \in present THEN aces \cup {entry} ELSE aces
       IN  \/ /\ Logs /\ Skip
              /\ applied' = Append(applied, entry.path) /\ aces' = inForce
           \/ /\ entry.path \in present /\ workspace /\ Fails("icacls")
              /\ IF entry.kind \in AllowKinds THEN Skip ELSE Throw
              /\ UNCHANGED <<applied, aces>>
           \/ /\ LogFails /\ Throw
              /\ UNCHANGED <<applied, aces>>
           \/ /\ Fails("log") /\ (Throw \/ (entry.kind \in AllowKinds /\ Skip))
              /\ aces' = inForce /\ UNCHANGED applied

\* All lines are done: the firewall is next, if it is asked for.
ApplyDone ==
    /\ helper = "apply" /\ next > Len(spec.entries)
    /\ \/ ~spec.block /\ helper' = "ready" /\ Works
       \/ spec.block /\ helper' = "out" /\ Logs
       \/ spec.block /\ helper' = "catch" /\ LogFails
    /\ HelperOnly
    /\ UNCHANGED <<next, applied, firewall, aces, netRules, ready>>

\* netsh ... add rule
AddRule(rule, place, then) ==
    /\ helper = place
    /\ HelperOnly /\ UNCHANGED <<next, applied, firewall, aces, ready>>
    /\ \/ /\ Works
          /\ netRules' = netRules \cup {rule}
          /\ helper' = then
       \/ Fails(rule) /\ helper' = "catch" /\ UNCHANGED netRules

AddOutRule == AddRule("out", "out", "in")
AddInRule  == AddRule("in", "in", "enabled")

\* $firewallEnabled is set after the second rule.
EnableFirewall ==
    /\ helper = "enabled"
    /\ firewall' = TRUE
    /\ (helper' = "ready" /\ Logs) \/ (helper' = "catch" /\ LogFails)
    /\ HelperOnly /\ UNCHANGED <<next, applied, aces, netRules, ready>>

\* Set-Content creates the file before it fills it, and may fail at either
\* step; it does when the workspace is gone.
WriteReady(place, contents, then, orElse) ==
    /\ helper = place
    /\ HelperOnly
    /\ UNCHANGED <<next, applied, firewall, aces, netRules>>
    /\ \/ workspace /\ ready # "empty" /\ ready' = "empty" /\ UNCHANGED helper /\ Works
       \/ workspace /\ ready = "empty" /\ ready' = contents /\ helper' = then /\ Works
       \/ ~workspace /\ helper' = orElse /\ UNCHANGED ready /\ Works
       \/ workspace /\ Fails("ready-file") /\ helper' = orElse /\ UNCHANGED ready

ReportReady == WriteReady("ready", "ok", "reported", "catch")
ReportError == WriteReady("failed", "error", "finally", "finally")

\* The "ready" line is logged after the file is written.
LogReady ==
    /\ helper = "reported"
    /\ (helper' = "stop" /\ Logs) \/ (helper' = "catch" /\ LogFails)
    /\ HelperOnly
    /\ UNCHANGED <<next, applied, firewall, aces, netRules, ready>>

\* catch: an error that cannot be logged is not reported either.
Catch ==
    /\ helper = "catch"
    /\ (helper' = "failed" /\ Logs) \/ (helper' = "finally" /\ LogFails)
    /\ HelperOnly
    /\ UNCHANGED <<next, applied, firewall, aces, netRules, ready>>

\* while (-not (Test-Path $StopFile))
SeeStop ==
    /\ helper = "stop" /\ stop
    /\ helper' = "finally"
    /\ HelperOnly /\ Works
    /\ UNCHANGED <<next, applied, firewall, aces, netRules, ready>>

\* finally: it begins with a line in the log, and ends there if that fails.
BeginCleanup ==
    /\ helper = "finally"
    /\ (helper' = "cleanup" /\ Logs) \/ (helper' = "exited" /\ LogFails)
    /\ HelperOnly
    /\ UNCHANGED <<next, applied, firewall, aces, netRules, ready>>

\* Mutant: `$i -gt 0`.
RemoveAceOffByOne ==
    /\ helper = "cleanup" /\ Len(applied) > 0
    /\ aces' = {entry \in aces : Len(applied) = 1 \/ entry.path # applied[Len(applied)]}
    /\ applied' = SubSeq(applied, 1, Len(applied) - 1)
    /\ HelperOnly /\ Works
    /\ UNCHANGED <<helper, next, firewall, netRules, ready>>

\* The applied paths, from last to first, lose every ACE of the SID.  The allow
\* and the deny entries of a path go by a call of icacls each, and nobody looks
\* whether they went.
RemoveAce ==
    /\ helper = "cleanup" /\ Len(applied) > 0
    /\ LET path == applied[Len(applied)]
       IN  \/ /\ Works
              /\ aces' = {entry \in aces : entry.path # path}
           \/ /\ path \in present /\ Fails("remove")
              /\ \E kept \in {AllowKinds, DenyKinds, AllowKinds \cup DenyKinds} :
                    aces' = {entry \in aces : entry.path = path => entry.kind \in kept}
    /\ applied' = SubSeq(applied, 1, Len(applied) - 1)
    /\ HelperOnly
    /\ UNCHANGED <<helper, next, firewall, netRules, ready>>

\* The firewall rules go when $firewallEnabled is set, each by a call of netsh
\* whose result is dropped.
RemoveRules ==
    /\ helper = "cleanup" /\ applied = <<>>
    /\ helper' = "exited"
    /\ \/ netRules' = (IF firewall THEN {} ELSE netRules) /\ Works
       \/ firewall /\ Fails("delete") /\ netRules' \in SUBSET netRules
    /\ HelperOnly
    /\ UNCHANGED <<next, applied, firewall, aces, ready>>

Helper ==
    \/ Apply \/ ApplyDone \/ AddOutRule \/ AddInRule \/ EnableFirewall
    \/ ReportReady \/ LogReady \/ Catch \/ ReportError \/ SeeStop
    \/ BeginCleanup \/ RemoveAce \/ RemoveRules

\* The helper dies from outside, without its finally block.
Crash ==
    /\ helper \notin Ended \cup {"none"}
    /\ helper' = "crashed"
    /\ Fails("crash")
    /\ HelperOnly
    /\ UNCHANGED <<next, applied, firewall, aces, netRules, ready>>

\* Another process removes a path, and its ACEs go with it.
Vanish(path) ==
    /\ path \in MayVanish \cap present
    /\ present' = present \ {path} /\ gone' = gone \cup {path}
    /\ aces' = {entry \in aces : entry.path # path}
    /\ UNCHANGED <<spec, guardVars, helperVars, netRules, fileVars, faults>>

\* It creates it again, without them.
Recreate(path) ==
    /\ path \in MayVanish \ present
    /\ present' = present \cup {path}
    /\ UNCHANGED <<spec, gone, aces, netRules, guardVars, helperVars, fileVars, faults>>

World == \E path \in MayVanish : Vanish(path) \/ Recreate(path)

Next == Guard \/ Helper \/ Crash \/ World

Spec == Init /\ [][Next]_vars

\* The caller's thread runs, and its clock does: a loop that goes on long
\* enough finds the time up.  Nothing is assumed of the helper, of the user
\* before the prompt, or of the program.
OwnStep == Guard /\ guard \notin {"prompt", "running"}
TimeRunsOut == CheckHelper /\ guard' = "drop"
GuardFairSpec == Spec /\ WF_vars(OwnStep) /\ SF_vars(TimeRunsOut)

-----------------------------------------------------------------------------
TypeOK ==
    /\ spec \in Specs
    /\ present \subseteq Paths /\ gone \subseteq Paths
    /\ guard \in {"spawn", "prompt", "poll", "check", "running", "drop", "wait",
                  "terminate", "remove", "returned"}
    /\ outcome \in {"none", "denied", "io", "windows", "ran"}
    /\ helper \in {"none", "apply", "out", "in", "enabled", "ready", "reported",
                   "stop", "catch", "failed", "finally", "cleanup"} \cup Ended
    /\ next \in 1..(Len(spec.entries) + 1)
    /\ applied \in Seq(Paths)
    /\ firewall \in BOOLEAN
    /\ \A entry \in aces : \E i \in DOMAIN spec.entries : spec.entries[i] = entry
    /\ netRules \subseteq {"out", "in"}
    /\ ready \in {"absent", "empty", "ok", "error"}
    /\ stop \in BOOLEAN /\ workspace \in BOOLEAN
    /\ faults \subseteq MayFail \cup MayExpire

Entries == {spec.entries[i] : i \in DOMAIN spec.entries}

\* README.md:193.  While the sandboxed program runs, every deny entry and both
\* firewall rules are in force: the handshake never lets the program start early,
\* and a helper that can write its log never cleans up early.  Not so for a path
\* that was removed, even when it is there again: Apply-Rule passes over it.
EnforcedWhileRunning ==
    guard = "running" /\ "log" \notin faults =>
        /\ \A entry \in Entries :
              entry.kind \in DenyKinds /\ entry.path \notin gone => entry \in aces
        /\ spec.block => netRules = {"out", "in"}

\* A helper that ends by itself has removed every ACE that it added, also
\* after an error half way through the entries, and the firewall rules too
\* when it got as far as to set $firewallEnabled.  Four things it does not make
\* good: it cannot write its log; it outlives the workspace because it could not
\* be ended; a call of icacls or netsh that takes something back fails, which
\* nobody notices; the second rule fails after the first was added.  When no
\* call fails and no wait runs out, the host is as it was before.
HostRestored ==
    /\ helper = "exited" =>
           /\ aces = {} \/ faults \cap {"log", "terminate", "remove"} # {}
           /\ netRules = {} \/ faults \cap {"log", "terminate", "delete", "in"} # {}
    /\ guard = "returned" /\ faults = {} => aces = {} /\ netRules = {}

\* No helper is left behind once the guard is dropped, unless the system would
\* neither answer for its process nor end it.
NoHelperLeft ==
    guard = "returned" =>
        helper \in Ended \cup {"none"} \/ "terminate" \in faults

\* Seen as HelperContract: the calls after which nothing needs to be clean.
Uncleanly == {"in", "crash", "stop", "query", "terminate", "remove", "delete"}

Phase ==
    CASE guard \in {"spawn", "prompt", "poll", "check"} -> "idle"
      [] guard = "running"  -> "ready"
      [] guard = "returned" -> "over"
      [] OTHER -> "closing"

Trouble ==
    (faults \cap {"icacls", "log"}) \cup IF faults \cap Uncleanly = {} THEN {} ELSE {"unclean"}

AnyPart(set) == SUBSET set

Contract ==
    INSTANCE HelperContract WITH
        entries <- Entries, block <- spec.block, phase <- Phase, trouble <- Trouble,
        force <- aces, rules <- netRules, Guesses <- AnyPart

\* README.md:198, :217.  Guard and helper keep the contract that execute relies
\* on, wherever the two stand to each other, whichever paths come and go and
\* whatever fails that the contract does not name: allow entries too are in force
\* once spawn is through, the guard ends no helper that would have cleaned up in
\* time, and what was clean stays so.
KeepsContract == Contract!Spec

\* Whatever the helper does, the caller's thread gets out of spawn and Drop, or
\* as far as to the prompt, which waits for the user without a timeout.
GuardReturns ==
    (guard \notin {"prompt", "running"}) ~> (guard \in {"prompt", "running", "returned"})

\* README.md:198: "setup/cleanup are delegated to a single elevated helper
\* process".  The cleanup of the network block, whatever netsh answers.
NetworkCleanedUp == helper = "exited" => netRules = {}
=============================================================================
