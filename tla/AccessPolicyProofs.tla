------------------------- MODULE AccessPolicyProofs -------------------------
(***************************************************************************)
(* Facts about paths and policies that the proofs about the back ends      *)
(* share.                                                                  *)
(***************************************************************************)
EXTENDS AccessPolicy, SequenceTheorems, TLAPS

\* A path lies below itself.
LEMMA UnderItself == ASSUME NEW p \in Seq(Nat) PROVE IsUnder(p, p)
  BY DEF IsUnder

\* What lies below a path that lies below a third one lies below that one too.
LEMMA UnderTransitive ==
    ASSUME NEW p \in Seq(Nat), NEW q \in Seq(Nat), NEW r \in Seq(Nat),
           IsUnder(p, q), IsUnder(q, r)
    PROVE  IsUnder(p, r)
<1>1. Len(p) \in Nat /\ Len(q) \in Nat /\ Len(r) \in Nat
  OBVIOUS
<1> QED
  BY <1>1 DEF IsUnder

\* Two paths at or above a third one lie on one line.
LEMMA AboveTheSame ==
    ASSUME NEW p \in Seq(Nat), NEW q \in Seq(Nat), NEW r \in Seq(Nat),
           IsUnder(p, r), IsUnder(q, r)
    PROVE  IsUnder(p, q) \/ IsUnder(q, p)
<1>1. /\ Len(p) \in Nat /\ Len(q) \in Nat
      /\ \A i \in 1..Len(p) : p[i] = r[i]
      /\ \A i \in 1..Len(q) : q[i] = r[i]
  BY DEF IsUnder
<1>2. CASE Len(p) <= Len(q)
  <2>1. \A i \in 1..Len(p) : i \in 1..Len(q)
    BY <1>1, <1>2
  <2> QED
    BY <1>1, <1>2, <2>1 DEF IsUnder
<1>3. CASE Len(q) <= Len(p)
  <2>1. \A i \in 1..Len(q) : i \in 1..Len(p)
    BY <1>1, <1>3
  <2> QED
    BY <1>1, <1>3, <2>1 DEF IsUnder
<1> QED
  BY <1>1, <1>2, <1>3

\* A proper ancestor is shorter.
LEMMA StrictlyUnderLen ==
    ASSUME NEW p \in Seq(Nat), NEW q \in Seq(Nat), StrictlyUnder(p, q)
    PROVE  Len(p) < Len(q)
<1>1. Len(p) \in Nat /\ Len(q) \in Nat
  OBVIOUS
<1>2. Len(p) <= Len(q) /\ \A i \in 1..Len(p) : p[i] = q[i]
  BY DEF StrictlyUnder, IsUnder
<1>3. Len(p) # Len(q)
  BY <1>1, <1>2, SeqEqual DEF StrictlyUnder
<1> QED
  BY <1>1, <1>2, <1>3

\* Every path lies below the root.
LEMMA UnderRoot == ASSUME NEW p \in Seq(Nat) PROVE IsUnder(<<>>, p)
  BY DEF IsUnder

\* What covers a path covers all that lies below it.
LEMMA CoveredBelow ==
    ASSUME NEW roots \in SUBSET Seq(Nat), NEW p \in Seq(Nat), NEW q \in Seq(Nat),
           Covered(roots, p), IsUnder(p, q)
    PROVE  Covered(roots, q)
  BY UnderTransitive DEF Covered

LEMMA AccessOrder ==
    ASSUME NEW a \in Access, NEW b \in Access
    PROVE  /\ Weaker(a, b) \in Access
           /\ AtMost(Weaker(a, b), a) /\ AtMost(Weaker(a, b), b)
           /\ a = "NoAccess" \/ b = "NoAccess" => Weaker(a, b) = "NoAccess"
           /\ \A c : AtMost(c, a) /\ AtMost(c, b) => AtMost(c, Weaker(a, b))
<1>1. \A c \in Access : Rank(c) \in 0..2 /\ (Rank(c) = 0 <=> c = "NoAccess")
  BY DEF Access, Rank
<1>2. CASE AtMost(a, b)
  BY <1>1, <1>2 DEF Weaker, AtMost
<1>3. CASE ~AtMost(a, b)
  BY <1>1, <1>3 DEF Weaker, AtMost
<1> QED
  BY <1>2, <1>3

LEMMA AtMostTransitive ==
    ASSUME NEW a \in Access, NEW b \in Access, NEW c \in Access, AtMost(a, b), AtMost(b, c)
    PROVE  AtMost(a, c)
  BY DEF Access, AtMost, Rank

\* What a policy grants, case by case.
LEMMA GrantedIs ==
    ASSUME NEW pol, pol.default \in Access, NEW p
    PROVE  /\ Granted(pol, p) \in Access
           /\ Granted(pol, p) = "NoAccess" <=>
                 \/ Covered(denied_paths(pol), p)
                 \/ pol.default = "NoAccess" /\ ~Covered(read_write_paths(pol), p)
                                             /\ ~Covered(read_only_paths(pol), p)
           /\ ~Covered(denied_paths(pol), p) =>
                 Granted(pol, p) = "ReadWrite" <=>
                    \/ pol.default = "ReadWrite" /\ ~Covered(read_only_paths(pol), p)
                    \/ pol.default # "ReadWrite" /\ Covered(read_write_paths(pol), p)
<1>1. CASE Covered(denied_paths(pol), p)
  BY <1>1 DEF Granted, Access
<1>2. CASE ~Covered(denied_paths(pol), p) /\ pol.default = "ReadWrite"
  BY <1>2 DEF Granted, Access
<1>3. CASE ~Covered(denied_paths(pol), p) /\ pol.default = "ReadOnly"
  BY <1>3 DEF Granted, Access
<1>4. CASE ~Covered(denied_paths(pol), p) /\ pol.default = "NoAccess"
  BY <1>4 DEF Granted, Access
<1> QED
  BY <1>1, <1>2, <1>3, <1>4 DEF Access
=============================================================================
