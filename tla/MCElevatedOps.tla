--------------------------- MODULE MCElevatedOps ---------------------------
(***************************************************************************)
(* ElevatedOps for TLC: two paths; every spec of up to two entries that    *)
(* serialize_acl_spec writes for them, deny entries before allow entries.  *)
(* Of the kinds one of each sort: the helper does not tell "dw" from "dn"  *)
(* nor "rw" from "ro" but by what it hands to icacls.                      *)
(***************************************************************************)
EXTENDS ElevatedOpsProofs, SequencesExt

CONSTANTS p1, p2

MCPaths == {p1, p2}
KindOrder == [dn |-> 1, ro |-> 2]

\* The kinds come in their fixed order.
Ordered ==
    {s \in SeqOf([kind : DOMAIN KindOrder, path : MCPaths], 2) :
        \A i, j \in DOMAIN s : i < j => KindOrder[s[i].kind] <= KindOrder[s[j].kind]}

MCSpecs == [entries : Ordered, block : BOOLEAN]
Blocking == {s \in MCSpecs : s.block}

AllCalls == {"workspace", "runas", "read", "query", "stop-file", "terminate",
             "remove-dir", "icacls", "out", "in", "log", "ready-file", "remove",
             "delete", "crash"}
=============================================================================
