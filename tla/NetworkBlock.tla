---------------------------- MODULE NetworkBlock ----------------------------
(***************************************************************************)
(* src/src/platform/windows/wfp.rs: the filters of the Windows Filtering   *)
(* Platform that an elevated caller installs before the program starts,    *)
(* in one transaction of a dynamic session.                                *)
(*                                                                         *)
(* try_elevated_network_guard asks for a helper only when the caller is    *)
(* not elevated, and execute comes here only when it is: the helper of     *)
(* this file is never started, and the original error is returned.         *)
(***************************************************************************)
EXTENDS Integers, FiniteSets

CONSTANTS
    MayFail,     \* calls of the system that may fail
    MaxFaults    \* bound: calls that fail in one run

ASSUME FaultAssumption == MaxFaults \in Nat

VARIABLES
    wfp,      \* where install_block_all_network_filters stands
    engine,   \* is the session open?
    pending,  \* filters added in the open transaction
    filters,  \* filters in force
    faults    \* the calls that have failed

netVars == <<wfp, engine, pending, filters>>

BLOCK_LAYERS == 6

Works == UNCHANGED faults

Fails(call) ==
    /\ call \in MayFail
    /\ Cardinality(faults \cup {call}) <= MaxFaults
    /\ faults' = faults \cup {call}

NetInit == wfp = "idle" /\ engine = FALSE /\ pending = 0 /\ filters = 0

\* One call of install_block_all_network_filters: where it goes when it works,
\* and where it goes when it does not.
NetCall(place, call, then, orElse) ==
    /\ wfp = place
    /\ \/ Works /\ wfp' = then
       \/ Fails(call) /\ wfp' = orElse

\* open_dynamic_engine
OpenEngine ==
    /\ NetCall("open", "engine", "app_id", "elevate")
    /\ engine' = (wfp' = "app_id")
    /\ UNCHANGED <<pending, filters>>

\* AppIdBlob::from_executable; the error closes the engine and is returned.
AppId ==
    /\ NetCall("app_id", "app_id", "begin", "failed")
    /\ engine' = (wfp' = "begin")
    /\ UNCHANGED <<pending, filters>>

\* FwpmTransactionBegin0
Begin ==
    /\ NetCall("begin", "begin", "add", "close")
    /\ UNCHANGED <<engine, pending, filters>>

\* Mutant: one filter too many.
AddFilterOffByOne ==
    /\ NetCall("add", "filter", IF pending = BLOCK_LAYERS THEN "commit" ELSE "add", "close")
    /\ pending' = IF wfp' = "close" THEN 0 ELSE pending + 1
    /\ UNCHANGED <<engine, filters>>

\* add_block_filter, once per layer; the first that fails aborts.
AddFilter ==
    /\ NetCall("add", "filter", IF pending + 1 = BLOCK_LAYERS THEN "commit" ELSE "add", "close")
    /\ pending' = IF wfp' = "close" THEN 0 ELSE pending + 1
    /\ UNCHANGED <<engine, filters>>

\* Mutant: the status of the commit is not looked at.
CommitUnchecked ==
    /\ wfp = "commit" /\ wfp' = "in_force" /\ pending' = 0
    /\ \/ Works /\ filters' = pending
       \/ Fails("commit") /\ UNCHANGED filters
    /\ UNCHANGED engine

\* FwpmTransactionCommit0; a failure aborts.
Commit ==
    /\ NetCall("commit", "commit", "in_force", "close")
    /\ filters' = IF wfp' = "in_force" THEN pending ELSE 0
    /\ pending' = 0
    /\ UNCHANGED engine

\* FwpmEngineClose0 after a failure.
CloseEngine ==
    /\ wfp = "close"
    /\ wfp' = "elevate" /\ engine' = FALSE
    /\ UNCHANGED <<pending, filters, faults>>

\* try_elevated_network_guard of an elevated caller: the error stands.
TryElevated ==
    /\ wfp = "elevate"
    /\ wfp' = "failed"
    /\ UNCHANGED <<engine, pending, filters, faults>>

Install ==
    \/ OpenEngine \/ AppId \/ Begin \/ AddFilter \/ Commit
    \/ CloseEngine \/ TryElevated

\* WfpSessionGuard::drop: the filters of a dynamic session go with it.
DropSession == wfp' = "dropped" /\ engine' = FALSE /\ filters' = 0 /\ UNCHANGED pending

NetTypeOK ==
    /\ wfp \in {"idle", "open", "app_id", "begin", "add", "commit", "close",
                "elevate", "failed", "in_force", "dropped"}
    /\ engine \in BOOLEAN
    /\ pending \in 0..BLOCK_LAYERS /\ filters \in 0..BLOCK_LAYERS
    /\ faults \subseteq MayFail
=============================================================================
