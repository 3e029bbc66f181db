---------------------------- MODULE HelperContract ----------------------------
(***************************************************************************)
(* What execute() of the Windows back end gets from                        *)
(* ElevatedOpsGuard::spawn and from the drop of the guard (README.md:198   *)
(* and :217): when spawn returns Ok every entry of the spec and the        *)
(* network block are in force, they stay so until the guard is dropped,    *)
(* and nothing of them is left when spawn has failed or the drop is over.  *)
(* Some failures leave part of it open, and the contract says which.       *)
(*                                                                         *)
(* ElevatedOps implements it, AppContainer is built on it.                 *)
(***************************************************************************)

CONSTANTS
    Paths,
    Guesses(_)   \* what may be in force of what was asked for, where that is open

VARIABLES
    entries,   \* what spawn is asked to put in force: a kind and a path each
    block,     \* is it asked to block the network?
    phase,     \* "idle" until spawn returns, "ready", "closing", "over"
    force,     \* the entries in force
    rules,     \* the firewall rules in force
    gone,      \* the paths that were missing at some time since spawn
    trouble    \* what has failed that the contract speaks of

vars == <<entries, block, phase, force, rules, gone, trouble>>

DenyKinds  == {"dn", "dw"}
AllowKinds == {"ro", "rw"}
Rules      == {"out", "in"}

\* icacls on an entry; the log of the helper; what ends the helper before it
\* has cleaned up, or keeps it from doing so: also a removal that fails, which
\* the helper does not notice.
Troubles == {"icacls", "log", "unclean"}

\* A helper that cannot write its log may take back what it likes and leave
\* what it likes; one that did not end by itself, or whose removals fail, leaves
\* what it had done.
Open == "log" \in trouble \/ (phase = "over" /\ "unclean" \in trouble)

\* Paths come and go, and what has failed has failed.
Worsen ==
    /\ UNCHANGED <<entries, block>>
    /\ gone \subseteq gone' /\ gone' \subseteq Paths
    /\ trouble \subseteq trouble' /\ trouble' \subseteq Troubles
    /\ Open' => /\ force' \in Guesses(entries) /\ force' \subseteq entries
                /\ rules' \in Guesses(Rules) /\ rules' \subseteq Rules

\* What is gone has lost its ACEs.
Lost == {entry \in entries : entry.path \in gone}

\* An allow entry may never have got any.
Unset == {entry \in entries : entry.kind \in AllowKinds /\ "icacls" \in trouble}

Init ==
    /\ entries \subseteq [kind : DenyKinds \cup AllowKinds, path : Paths] /\ block \in BOOLEAN
    /\ phase = "idle" /\ force = {} /\ rules = {} /\ gone = {} /\ trouble = {}

\* The helper is at work, before spawn returns or while the guard is dropped.
Change ==
    /\ phase \in {"idle", "closing"} /\ UNCHANGED phase
    /\ Worsen
    /\ force' \subseteq entries /\ rules' \subseteq Rules

\* spawn returns Ok.
Ready ==
    /\ phase = "idle" /\ phase' = "ready"
    /\ Worsen
    /\ ~Open' => /\ \E missing \in SUBSET (Lost \cup Unset)' : force' = entries \ missing
                 /\ rules' = IF block THEN Rules ELSE {}

\* Nothing is added while the guard is held, and nothing taken back.
Hold ==
    /\ phase = "ready" /\ UNCHANGED phase
    /\ Worsen
    /\ ~Open' => /\ \E lost \in SUBSET Lost' : force' = force \ lost
                 /\ UNCHANGED rules

\* The drop begins, or the clean-up of a spawn that fails.
Close ==
    /\ phase \in {"idle", "ready"} /\ phase' = "closing"
    /\ Worsen
    /\ ~Open' => UNCHANGED <<force, rules>>

\* spawn returns an error, or the drop returns.
End ==
    /\ phase # "over" /\ phase' = "over"
    /\ Worsen
    /\ ~Open' => force' = {} /\ rules' = {}

\* Nothing comes back later.
Late ==
    /\ phase = "over" /\ UNCHANGED phase
    /\ Worsen
    /\ ~Open' => UNCHANGED <<force, rules>>

Next == Change \/ Ready \/ Hold \/ Close \/ End \/ Late

Spec == Init /\ [][Next]_vars
=============================================================================
