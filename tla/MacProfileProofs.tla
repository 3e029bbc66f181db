-------------------------- MODULE MacProfileProofs --------------------------
(***************************************************************************)
(* Theorems about MacProfile: for any paths and any policies, the rules of *)
(* a profile, read in Seatbelt's way, mean what the policy grants.         *)
(***************************************************************************)
EXTENDS MacProfile, AccessPolicyProofs, WellFoundedInduction

USE ProfileAssumption

Actions == {"allow", "deny"}
Rule == [action : Actions, op : Operations, filter : {"any", "literal", "subpath"},
         paths : SUBSET Seq(Nat)]

-----------------------------------------------------------------------------
(* The last match decides.                                                 *)

LEMMA Greatest ==
    ASSUME NEW n \in Nat, NEW set \in SUBSET (1..n), set # {}
    PROVE  Max(set) \in set /\ \A y \in set : Max(set) >= y
<1> DEFINE Less == {ss \in Nat \X Nat : ss[1] < ss[2]}
           Mirror == {n - i : i \in set}
<1>1. IsWellFoundedOn(Less, Nat)
  BY NatLessThanWellFounded DEF OpToRel
<1>2. Mirror \subseteq Nat /\ Mirror # {}
  <2>1. \A i \in set : i \in Int /\ n - i \in Nat
    OBVIOUS
  <2> QED
    BY <2>1
<1>3. PICK x \in Mirror : \A y \in Mirror : <<y, x>> \notin Less
  <2> HIDE DEF Less, Mirror
  <2> QED
    BY <1>1, <1>2, WFMin
<1>4. PICK m \in set : x = n - m
  BY <1>3
<1>5. ASSUME NEW y \in set PROVE m >= y
  <2>1. n - y \in Mirror /\ n - y \in Nat /\ n - m \in Nat /\ m \in Int /\ y \in Int
    OBVIOUS
  <2>2. ~(n - y < n - m)
    BY <1>3, <1>4, <2>1
  <2> QED
    BY <1>4, <2>1, <2>2
<1> QED
  BY <1>4, <1>5 DEF Max

\* What the rules say of an operation, if they say anything.
Matched(rules, op, path) == \E i \in DOMAIN rules : Matches(rules[i], op, path)
Says(rules, op, path) ==
    IF ~Matched(rules, op, path) THEN "nothing"
    ELSE IF Allows(rules, op, path) THEN "allow" ELSE "deny"

LEMMA AllowsUnlessDenied ==
    ASSUME NEW rules, NEW op, NEW path
    PROVE  Allows(rules, op, path) <=> Says(rules, op, path) # "deny"
  BY DEF Says, Matched, Allows

\* The place of the last match.
IsLast(rules, op, path, i) ==
    /\ i \in 1..Len(rules) /\ Matches(rules[i], op, path)
    /\ \A j \in 1..Len(rules) : j > i => ~Matches(rules[j], op, path)

LEMMA HasLast ==
    ASSUME NEW rules \in Seq(Rule), NEW op, NEW path, Matched(rules, op, path)
    PROVE  \E i \in 1..Len(rules) : IsLast(rules, op, path, i)
<1> DEFINE matching == {i \in 1..Len(rules) : Matches(rules[i], op, path)}
<1>1. matching \in SUBSET (1..Len(rules)) /\ matching # {} /\ Len(rules) \in Nat
  BY DEF Matched
<1>2. Max(matching) \in matching /\ \A y \in matching : Max(matching) >= y
  <2> HIDE DEF matching
  <2> QED
    BY <1>1, Greatest
<1> QED
  BY <1>2 DEF IsLast

LEMMA LastSays ==
    ASSUME NEW rules \in Seq(Rule), NEW op, NEW path, NEW i, IsLast(rules, op, path, i)
    PROVE  Says(rules, op, path) = rules[i].action
<1> DEFINE matching == {j \in DOMAIN rules : Matches(rules[j], op, path)}
<1>1. DOMAIN rules = 1..Len(rules) /\ i \in matching /\ \A y \in matching : i >= y
  BY DEF IsLast
<1>2. matching \in SUBSET (1..Len(rules)) /\ matching # {} /\ Len(rules) \in Nat
  BY <1>1
<1>a. matching \subseteq Int /\ i \in matching /\ \A y \in matching : i >= y
  BY <1>1, <1>2
<1>3. Max(matching) = i
  <2> HIDE DEF matching
  <2>1. Max(matching) \in matching /\ \A y \in matching : Max(matching) >= y
    BY <1>2, Greatest
  <2>2. Max(matching) \in Int /\ i \in Int
    BY <1>a, <2>1
  <2>3. Max(matching) >= i /\ i >= Max(matching)
    BY <1>a, <2>1
  <2> QED
    BY <2>2, <2>3
<1>4. rules[i].action \in Actions
  <2>1. i \in 1..Len(rules) /\ rules[i] \in Rule
    BY <1>1
  <2> QED
    BY <2>1 DEF Rule
<1>5. Matched(rules, op, path)
  BY <1>1 DEF Matched
<1>6. Allows(rules, op, path) <=> rules[i].action = "allow"
  BY <1>2, <1>3 DEF Allows
<1> QED
  BY <1>4, <1>5, <1>6 DEF Says, Actions

\* Later rules are asked first.
LEMMA ConcatSays ==
    ASSUME NEW s \in Seq(Rule), NEW t \in Seq(Rule)
    PROVE  /\ s \o t \in Seq(Rule)
           /\ \A op, path : Says(s \o t, op, path) =
                  IF Says(t, op, path) = "nothing" THEN Says(s, op, path) ELSE Says(t, op, path)
<1>1. /\ s \o t \in Seq(Rule) /\ Len(s \o t) = Len(s) + Len(t)
      /\ \A i \in 1..Len(s \o t) : (s \o t)[i] = IF i <= Len(s) THEN s[i] ELSE t[i - Len(s)]
      /\ Len(s) \in Nat /\ Len(t) \in Nat
  BY ConcatProperties
<1> DEFINE st == s \o t
<1> HIDE DEF st
<1>s. /\ st \in Seq(Rule) /\ Len(st) = Len(s) + Len(t) /\ Len(s) \in Nat /\ Len(t) \in Nat
      /\ \A i \in 1..Len(st) : st[i] = IF i <= Len(s) THEN s[i] ELSE t[i - Len(s)]
  BY <1>1 DEF st
<1>2. ASSUME NEW op, NEW path
      PROVE  Says(st, op, path) =
                 IF Says(t, op, path) = "nothing" THEN Says(s, op, path) ELSE Says(t, op, path)
  <2>0. \A rules : Says(rules, op, path) = "nothing" <=> ~Matched(rules, op, path)
    BY DEF Says
  <2>1. CASE Matched(t, op, path)
    <3>1. PICK i \in 1..Len(t) : IsLast(t, op, path, i)
      BY <2>1, HasLast
    <3>2. Len(s) + i \in 1..Len(st) /\ st[Len(s) + i] = t[i]
      <4>1. Len(s) + i \in 1..Len(st) /\ ~(Len(s) + i <= Len(s)) /\ (Len(s) + i) - Len(s) = i
        BY <1>s, <3>1
      <4> QED
        BY <1>s, <4>1
    <3>3. ASSUME NEW j \in 1..Len(st), j > Len(s) + i PROVE ~Matches(st[j], op, path)
      <4>1. st[j] = t[j - Len(s)] /\ j - Len(s) \in 1..Len(t) /\ j - Len(s) > i
        BY <1>s, <3>1, <3>3
      <4> QED
        BY <3>1, <4>1 DEF IsLast
    <3>4. IsLast(st, op, path, Len(s) + i)
      BY <3>1, <3>2, <3>3 DEF IsLast
    <3>5. Says(st, op, path) = t[i].action /\ Says(t, op, path) = t[i].action
      BY <1>s, <3>1, <3>2, <3>4, LastSays
    <3> QED
      BY <2>0, <2>1, <3>5
  <2>2. CASE ~Matched(t, op, path) /\ Matched(s, op, path)
    <3>1. PICK i \in 1..Len(s) : IsLast(s, op, path, i)
      BY <2>2, HasLast
    <3>2. i \in 1..Len(st) /\ st[i] = s[i]
      BY <1>s, <3>1
    <3>3. ASSUME NEW j \in 1..Len(st), j > i PROVE ~Matches(st[j], op, path)
      <4>1. CASE j <= Len(s)
        BY <1>s, <3>1, <3>3, <4>1 DEF IsLast
      <4>2. CASE j > Len(s)
        <5>1. st[j] = t[j - Len(s)] /\ j - Len(s) \in DOMAIN t
          BY <1>s, <4>2
        <5> QED
          BY <2>2, <5>1 DEF Matched
      <4> QED
        BY <1>s, <4>1, <4>2
    <3>4. IsLast(st, op, path, i)
      BY <3>1, <3>2, <3>3 DEF IsLast
    <3>5. Says(st, op, path) = s[i].action /\ Says(s, op, path) = s[i].action
      BY <1>s, <3>1, <3>2, <3>4, LastSays
    <3> QED
      BY <2>0, <2>2, <3>5
  <2>3. CASE ~Matched(t, op, path) /\ ~Matched(s, op, path)
    <3>1. ASSUME NEW j \in 1..Len(st) PROVE ~Matches(st[j], op, path)
      <4>1. CASE j <= Len(s)
        BY <1>s, <2>3, <4>1 DEF Matched
      <4>2. CASE j > Len(s)
        <5>1. st[j] = t[j - Len(s)] /\ j - Len(s) \in DOMAIN t
          BY <1>s, <4>2
        <5> QED
          BY <2>3, <5>1 DEF Matched
      <4> QED
        BY <1>s, <4>1, <4>2
    <3>2. ~Matched(st, op, path)
      BY <1>s, <3>1 DEF Matched
    <3> QED
      BY <2>0, <2>3, <3>2
  <2> QED
    BY <2>1, <2>2, <2>3
<1> QED
  BY <1>1, <1>2 DEF st

-----------------------------------------------------------------------------
(* The parts of a profile.                                                 *)

LEMMA SingleSays ==
    ASSUME NEW rule \in Rule
    PROVE  /\ <<rule>> \in Seq(Rule)
           /\ \A op, path : Says(<<rule>>, op, path) =
                  IF Matches(rule, op, path) THEN rule.action ELSE "nothing"
<1> DEFINE one == <<rule>>
<1>1. one \in Seq(Rule) /\ Len(one) = 1 /\ one[1] = rule /\ DOMAIN one = {1}
  OBVIOUS
<1> HIDE DEF one
<1>2. ASSUME NEW op, NEW path
      PROVE  Says(one, op, path) = IF Matches(rule, op, path) THEN rule.action ELSE "nothing"
  <2>1. CASE Matches(rule, op, path)
    <3>1. IsLast(one, op, path, 1)
      BY <1>1, <2>1 DEF IsLast
    <3> QED
      BY <1>1, <2>1, <3>1, LastSays
  <2>2. CASE ~Matches(rule, op, path)
    BY <1>1, <2>2 DEF Says, Matched
  <2> QED
    BY <2>1, <2>2
<1> QED
  BY <1>1, <1>2 DEF one

LEMMA NothingSays ==
    /\ <<>> \in Seq(Rule)
    /\ \A op, path : Says(<<>>, op, path) = "nothing"
<1>1. DOMAIN <<>> = {} /\ <<>> \in Seq(Rule)
  OBVIOUS
<1> QED
  BY <1>1 DEF Says, Matched

LEMMA EverywhereSays ==
    ASSUME NEW action \in Actions, NEW o \in Operations
    PROVE  /\ Everywhere(action, o) \in Seq(Rule)
           /\ \A op, path : Says(Everywhere(action, o), op, path) =
                  IF op = o THEN action ELSE "nothing"
<1> DEFINE rule == [action |-> action, op |-> o, filter |-> "any", paths |-> {}]
<1>1. rule \in Rule /\ rule.action = action /\ \A op, path : Matches(rule, op, path) <=> op = o
  BY DEF Rule, Matches
<1> QED
  BY <1>1, SingleSays DEF Everywhere

LEMMA PathRulesSay ==
    ASSUME NEW action \in Actions, NEW o \in Operations, NEW paths \in SUBSET Seq(Nat)
    PROVE  /\ path_rules(action, o, paths) \in Seq(Rule)
           /\ \A op, path : Says(path_rules(action, o, paths), op, path) =
                  IF op = o /\ Covered(paths, path) THEN action ELSE "nothing"
<1> DEFINE rule == [action |-> action, op |-> o, filter |-> "subpath", paths |-> paths]
<1>1. /\ rule \in Rule /\ rule.action = action
      /\ \A op, path : Matches(rule, op, path) <=> op = o /\ Covered(paths, path)
  BY DEF Rule, Matches
<1> QED
  BY <1>1, SingleSays DEF path_rules

LEMMA LiteralRulesSay ==
    ASSUME NEW action \in Actions, NEW o \in Operations, NEW paths \in SUBSET Seq(Nat)
    PROVE  /\ literal_rules(action, o, paths) \in Seq(Rule)
           /\ \A op, path : Says(literal_rules(action, o, paths), op, path) =
                  IF op = o /\ path \in paths THEN action ELSE "nothing"
<1> DEFINE rule == [action |-> action, op |-> o, filter |-> "literal", paths |-> paths]
<1>1. /\ rule \in Rule /\ rule.action = action
      /\ \A op, path : Matches(rule, op, path) <=> op = o /\ path \in paths
  BY DEF Rule, Matches
<1> QED
  BY <1>1, SingleSays DEF literal_rules

-----------------------------------------------------------------------------
(* The profile of a policy.                                                *)

LEMMA PolicyType ==
    ASSUME NEW pol \in Policies
    PROVE  /\ pol.default \in Access /\ pol.network \in BOOLEAN
           /\ denied_paths(pol) \subseteq Paths /\ read_only_paths(pol) \subseteq Paths
           /\ read_write_paths(pol) \subseteq Paths
           /\ readable_paths(pol) = read_only_paths(pol) \cup read_write_paths(pol)
  BY DEF denied_paths, read_only_paths, read_write_paths, readable_paths, collect_paths

\* The literals are the proper ancestors.
LEMMA AncestorsAre ==
    ASSUME NEW paths \in SUBSET Seq(Nat)
    PROVE  /\ readable_path_ancestors(paths) \subseteq Seq(Nat)
           /\ \A p \in Seq(Nat) : p \in readable_path_ancestors(paths) <=>
                  \E root \in paths : StrictlyUnder(p, root)
<1>1. ASSUME NEW root \in paths, NEW n \in 0..(Len(root) - 1)
      PROVE  SubSeq(root, 1, n) \in Seq(Nat) /\ StrictlyUnder(SubSeq(root, 1, n), root)
  <2>1. root \in Seq(Nat) /\ Len(root) \in Nat /\ n \in Nat /\ n < Len(root)
    OBVIOUS
  <2>2. /\ SubSeq(root, 1, n) \in Seq(Nat) /\ Len(SubSeq(root, 1, n)) = n
        /\ \A i \in 1..n : SubSeq(root, 1, n)[i] = root[i]
    BY <2>1
  <2> QED
    BY <2>1, <2>2 DEF StrictlyUnder, IsUnder
<1>2. ASSUME NEW root \in paths, NEW p \in Seq(Nat), StrictlyUnder(p, root)
      PROVE  \E n \in 0..(Len(root) - 1) : p = SubSeq(root, 1, n)
  <2>1. root \in Seq(Nat) /\ Len(root) \in Nat /\ Len(p) \in Nat /\ Len(p) < Len(root)
    BY <1>2, StrictlyUnderLen
  <2>2. /\ SubSeq(root, 1, Len(p)) \in Seq(Nat) /\ Len(SubSeq(root, 1, Len(p))) = Len(p)
        /\ \A i \in 1..Len(p) : SubSeq(root, 1, Len(p))[i] = root[i]
    BY <2>1
  <2>3. \A i \in 1..Len(p) : p[i] = root[i]
    BY <1>2 DEF StrictlyUnder, IsUnder
  <2>4. p = SubSeq(root, 1, Len(p))
    BY <2>2, <2>3, SeqEqual
  <2>5. Len(p) \in 0..(Len(root) - 1)
    BY <2>1
  <2> QED
    BY <2>4, <2>5
<1>3. \A p : p \in readable_path_ancestors(paths) <=>
             \E root \in paths : \E n \in 0..(Len(root) - 1) : p = SubSeq(root, 1, n)
  BY DEF readable_path_ancestors
<1>4. readable_path_ancestors(paths) \subseteq Seq(Nat)
  BY <1>1, <1>3
<1>5. ASSUME NEW p \in Seq(Nat)
      PROVE  p \in readable_path_ancestors(paths) <=> \E root \in paths : StrictlyUnder(p, root)
  <2>1. ASSUME NEW root \in paths, StrictlyUnder(p, root) PROVE p \in readable_path_ancestors(paths)
    BY <1>2, <1>3, <2>1
  <2>2. ASSUME p \in readable_path_ancestors(paths) PROVE \E root \in paths : StrictlyUnder(p, root)
    <3>1. PICK root \in paths : \E n \in 0..(Len(root) - 1) : p = SubSeq(root, 1, n)
      BY <1>3, <2>2
    <3> QED
      BY <1>1, <3>1
  <2> QED
    BY <2>1, <2>2
<1> QED
  BY <1>4, <1>5

LEMMA DenyRulesSay ==
    ASSUME NEW pol \in Policies
    PROVE  /\ deny_rules(pol) \in Seq(Rule)
           /\ \A op, path : Says(deny_rules(pol), op, path) =
                  IF op \in {"file-read*", "file-write*"} /\ Covered(denied_paths(pol), path)
                    THEN "deny" ELSE "nothing"
<1>1. denied_paths(pol) \in SUBSET Seq(Nat) /\ "deny" \in Actions
      /\ {"file-read*", "file-write*"} \subseteq Operations
  BY PolicyType DEF Actions, Operations
<1> DEFINE reads  == path_rules("deny", "file-read*", denied_paths(pol))
           writes == path_rules("deny", "file-write*", denied_paths(pol))
<1>2. /\ reads \in Seq(Rule) /\ writes \in Seq(Rule)
      /\ \A op, path : Says(reads, op, path) =
             IF op = "file-read*" /\ Covered(denied_paths(pol), path) THEN "deny" ELSE "nothing"
      /\ \A op, path : Says(writes, op, path) =
             IF op = "file-write*" /\ Covered(denied_paths(pol), path) THEN "deny" ELSE "nothing"
  BY <1>1, PathRulesSay
<1> HIDE DEF reads, writes
<1> QED
  BY <1>2, ConcatSays DEF deny_rules, reads, writes

\* What the rules for the default, the carve-outs and the deny entries say.
LEMMA DefaultRulesSay ==
    ASSUME NEW pol \in Policies, NEW p \in Seq(Nat)
    PROVE  /\ default_rules(pol) \in Seq(Rule)
           /\ Says(default_rules(pol), "network*", p) = "nothing"
           /\ Says(default_rules(pol), "file-write*", p) # "deny" <=> Granted(pol, p) = "ReadWrite"
           /\ Says(default_rules(pol), "file-read*", p) # "deny" <=>
                  \/ Granted(pol, p) # "NoAccess"
                  \/ /\ \E root \in readable_paths(pol) : StrictlyUnder(p, root)
                     /\ ~Covered(denied_paths(pol), p)
<1>1. /\ pol.default \in Access /\ read_only_paths(pol) \in SUBSET Seq(Nat)
      /\ read_write_paths(pol) \in SUBSET Seq(Nat) /\ readable_paths(pol) \in SUBSET Seq(Nat)
      /\ p \in Seq(Nat)
  BY PolicyType
<1>2. Actions = {"allow", "deny"} /\ Operations = {"file-read*", "file-write*", "network*"}
  BY DEF Actions, Operations
<1> DEFINE D == deny_rules(pol)
           denied == Covered(denied_paths(pol), p)
<1>d. /\ D \in Seq(Rule)
      /\ \A op : Says(D, op, p) =
             IF op \in {"file-read*", "file-write*"} /\ denied THEN "deny" ELSE "nothing"
  BY DenyRulesSay
<1>g. /\ denied => Granted(pol, p) = "NoAccess"
      /\ pol.default # "NoAccess" /\ ~denied => Granted(pol, p) # "NoAccess"
  BY <1>1, GrantedIs
<1> HIDE DEF D, denied
<1>3. CASE pol.default = "ReadWrite"
  <2> DEFINE A == path_rules("deny", "file-write*", read_only_paths(pol))
  <2>1. /\ A \in Seq(Rule)
        /\ \A op : Says(A, op, p) =
               IF op = "file-write*" /\ Covered(read_only_paths(pol), p) THEN "deny" ELSE "nothing"
    BY <1>1, <1>2, PathRulesSay
  <2> HIDE DEF A
  <2>2. /\ A \o D \in Seq(Rule)
        /\ \A op : Says(A \o D, op, p) =
               IF Says(D, op, p) = "nothing" THEN Says(A, op, p) ELSE Says(D, op, p)
    BY <1>d, <2>1, ConcatSays
  <2>3. default_rules(pol) = A \o D
    BY <1>3 DEF default_rules, A, D
  <2>4. ~denied => (Granted(pol, p) = "ReadWrite" <=> ~Covered(read_only_paths(pol), p))
    BY <1>1, <1>3, GrantedIs DEF denied
  <2>5. Says(default_rules(pol), "network*", p) = "nothing"
    BY <1>d, <2>1, <2>2, <2>3
  <2>6. Says(default_rules(pol), "file-write*", p) =
            IF denied \/ Covered(read_only_paths(pol), p) THEN "deny" ELSE "nothing"
    BY <1>d, <2>1, <2>2, <2>3
  <2>7. Says(default_rules(pol), "file-read*", p) = IF denied THEN "deny" ELSE "nothing"
    BY <1>d, <2>1, <2>2, <2>3
  <2>8. Granted(pol, p) = "ReadWrite" <=> ~denied /\ ~Covered(read_only_paths(pol), p)
    BY <1>g, <2>4
  <2>9. Granted(pol, p) # "NoAccess" <=> ~denied
    BY <1>3, <1>g
  <2> QED
    BY <2>2, <2>3, <2>5, <2>6, <2>7, <2>8, <2>9 DEF denied
<1>4. CASE pol.default = "ReadOnly"
  <2> DEFINE A == Everywhere("deny", "file-write*")
             B == path_rules("allow", "file-write*", read_write_paths(pol))
  <2>1. /\ A \in Seq(Rule) /\ B \in Seq(Rule)
        /\ \A op : Says(A, op, p) = IF op = "file-write*" THEN "deny" ELSE "nothing"
        /\ \A op : Says(B, op, p) =
               IF op = "file-write*" /\ Covered(read_write_paths(pol), p) THEN "allow" ELSE "nothing"
    BY <1>1, <1>2, PathRulesSay, EverywhereSays
  <2> HIDE DEF A, B
  <2> DEFINE AB == A \o B
  <2>2. /\ AB \in Seq(Rule)
        /\ \A op : Says(AB, op, p) =
               IF Says(B, op, p) = "nothing" THEN Says(A, op, p) ELSE Says(B, op, p)
    BY <2>1, ConcatSays
  <2> HIDE DEF AB
  <2>3. /\ AB \o D \in Seq(Rule)
        /\ \A op : Says(AB \o D, op, p) =
               IF Says(D, op, p) = "nothing" THEN Says(AB, op, p) ELSE Says(D, op, p)
    BY <1>d, <2>2, ConcatSays
  <2>4. default_rules(pol) = AB \o D
    BY <1>4 DEF default_rules, A, B, AB, D
  <2>5. ~denied => (Granted(pol, p) = "ReadWrite" <=> Covered(read_write_paths(pol), p))
    BY <1>1, <1>4, GrantedIs DEF denied
  <2>6. Says(default_rules(pol), "network*", p) = "nothing"
    <3>1. Says(AB, "network*", p) = "nothing"
      BY <2>1, <2>2
    <3>2. Says(D, "network*", p) = "nothing"
      BY <1>d
    <3> QED
      BY <2>3, <2>4, <3>1, <3>2
  <2>7. Says(default_rules(pol), "file-write*", p) =
            IF denied \/ ~Covered(read_write_paths(pol), p) THEN "deny" ELSE "allow"
    <3>1. Says(AB, "file-write*", p) = IF Covered(read_write_paths(pol), p) THEN "allow" ELSE "deny"
      BY <2>1, <2>2
    <3>2. Says(D, "file-write*", p) = IF denied THEN "deny" ELSE "nothing"
      BY <1>d
    <3> QED
      BY <2>3, <2>4, <3>1, <3>2
  <2>8. Says(default_rules(pol), "file-read*", p) = IF denied THEN "deny" ELSE "nothing"
    <3>1. Says(AB, "file-read*", p) = "nothing"
      BY <2>1, <2>2
    <3>2. Says(D, "file-read*", p) = IF denied THEN "deny" ELSE "nothing"
      BY <1>d
    <3> QED
      BY <2>3, <2>4, <3>1, <3>2
  <2>9. Granted(pol, p) = "ReadWrite" <=> ~denied /\ Covered(read_write_paths(pol), p)
    BY <1>g, <2>5
  <2>10. Granted(pol, p) # "NoAccess" <=> ~denied
    BY <1>4, <1>g
  <2> QED
    BY <2>3, <2>4, <2>6, <2>7, <2>8, <2>9, <2>10 DEF denied
<1>5. CASE pol.default = "NoAccess"
  <2> DEFINE readable == readable_paths(pol)
             A == Everywhere("deny", "file-read*")
             B == Everywhere("deny", "file-write*")
             L == literal_rules("allow", "file-read*", readable_path_ancestors(readable))
             R == path_rules("allow", "file-read*", readable)
             W == path_rules("allow", "file-write*", read_write_paths(pol))
             above == \E root \in readable : StrictlyUnder(p, root)
  <2>1. /\ readable_path_ancestors(readable) \in SUBSET Seq(Nat)
        /\ p \in readable_path_ancestors(readable) <=> above
    BY <1>1, AncestorsAre
  <2>2. /\ A \in Seq(Rule) /\ B \in Seq(Rule)
        /\ \A op : Says(A, op, p) = IF op = "file-read*" THEN "deny" ELSE "nothing"
        /\ \A op : Says(B, op, p) = IF op = "file-write*" THEN "deny" ELSE "nothing"
    BY <1>1, <1>2, EverywhereSays
  <2>3. /\ L \in Seq(Rule)
        /\ \A op : Says(L, op, p) = IF op = "file-read*" /\ above THEN "allow" ELSE "nothing"
    <3> HIDE DEF above
    <3> QED
      BY <1>2, <2>1, LiteralRulesSay
  <2>4. /\ R \in Seq(Rule) /\ W \in Seq(Rule)
        /\ \A op : Says(R, op, p) =
               IF op = "file-read*" /\ Covered(readable, p) THEN "allow" ELSE "nothing"
        /\ \A op : Says(W, op, p) =
               IF op = "file-write*" /\ Covered(read_write_paths(pol), p) THEN "allow" ELSE "nothing"
    BY <1>1, <1>2, PathRulesSay
  <2> HIDE DEF A, B, L, R, W, above
  <2> DEFINE AB == A \o B
             ABL == AB \o L
             ABLR == ABL \o R
             ABLRW == ABLR \o W
  <2>5. /\ AB \in Seq(Rule)
        /\ \A op : Says(AB, op, p) =
               IF Says(B, op, p) = "nothing" THEN Says(A, op, p) ELSE Says(B, op, p)
    BY <2>2, ConcatSays
  <2> HIDE DEF AB
  <2>6. /\ ABL \in Seq(Rule)
        /\ \A op : Says(ABL, op, p) =
               IF Says(L, op, p) = "nothing" THEN Says(AB, op, p) ELSE Says(L, op, p)
    BY <2>3, <2>5, ConcatSays
  <2> HIDE DEF ABL
  <2>7. /\ ABLR \in Seq(Rule)
        /\ \A op : Says(ABLR, op, p) =
               IF Says(R, op, p) = "nothing" THEN Says(ABL, op, p) ELSE Says(R, op, p)
    BY <2>4, <2>6, ConcatSays
  <2> HIDE DEF ABLR
  <2>8. /\ ABLRW \in Seq(Rule)
        /\ \A op : Says(ABLRW, op, p) =
               IF Says(W, op, p) = "nothing" THEN Says(ABLR, op, p) ELSE Says(W, op, p)
    BY <2>4, <2>7, ConcatSays
  <2> HIDE DEF ABLRW
  <2>9. /\ ABLRW \o D \in Seq(Rule)
        /\ \A op : Says(ABLRW \o D, op, p) =
               IF Says(D, op, p) = "nothing" THEN Says(ABLRW, op, p) ELSE Says(D, op, p)
    BY <1>d, <2>8, ConcatSays
  <2>10. default_rules(pol) = ABLRW \o D
    BY <1>5 DEF default_rules, A, B, L, R, W, AB, ABL, ABLR, ABLRW, D
  <2>11. ~denied => /\ Granted(pol, p) = "ReadWrite" <=> Covered(read_write_paths(pol), p)
                    /\ Granted(pol, p) # "NoAccess" <=> Covered(readable, p)
    <3>1. Covered(readable, p) <=> Covered(read_only_paths(pol), p) \/ Covered(read_write_paths(pol), p)
      BY PolicyType DEF Covered
    <3> QED
      BY <1>1, <1>5, <3>1, GrantedIs DEF denied
  <2>12. Says(default_rules(pol), "network*", p) = "nothing"
    <3>1. Says(ABL, "network*", p) = "nothing"
      <4>1. Says(AB, "network*", p) = "nothing"
        BY <2>2, <2>5
      <4>2. Says(L, "network*", p) = "nothing"
        BY <2>3
      <4> QED
        BY <2>6, <4>1, <4>2
    <3>2. Says(ABLRW, "network*", p) = "nothing"
      BY <2>4, <2>7, <2>8, <3>1
    <3> QED
      BY <1>d, <2>9, <2>10, <3>2
  <2>13. Says(default_rules(pol), "file-write*", p) # "deny" <=> Granted(pol, p) = "ReadWrite"
    <3>1. Says(ABL, "file-write*", p) = "deny"
      <4>1. Says(AB, "file-write*", p) = "deny"
        BY <2>2, <2>5
      <4>2. Says(L, "file-write*", p) = "nothing"
        BY <2>3
      <4> QED
        BY <2>6, <4>1, <4>2
    <3>2. Says(ABLRW, "file-write*", p) =
              IF Covered(read_write_paths(pol), p) THEN "allow" ELSE "deny"
      BY <2>4, <2>7, <2>8, <3>1
    <3>3. Says(default_rules(pol), "file-write*", p) =
              IF denied \/ ~Covered(read_write_paths(pol), p) THEN "deny" ELSE "allow"
      BY <1>d, <2>9, <2>10, <3>2
    <3> QED
      BY <1>g, <2>11, <3>3
  <2>14. Says(default_rules(pol), "file-read*", p) # "deny" <=>
             Granted(pol, p) # "NoAccess" \/ (above /\ ~denied)
    <3>1. Says(ABL, "file-read*", p) = IF above THEN "allow" ELSE "deny"
      <4>1. Says(AB, "file-read*", p) = "deny"
        BY <2>2, <2>5
      <4>2. Says(L, "file-read*", p) = IF above THEN "allow" ELSE "nothing"
        BY <2>3
      <4> QED
        BY <2>6, <4>1, <4>2
    <3>2. Says(ABLRW, "file-read*", p) = IF above \/ Covered(readable, p) THEN "allow" ELSE "deny"
      BY <2>4, <2>7, <2>8, <3>1
    <3>3. Says(default_rules(pol), "file-read*", p) =
              IF denied \/ ~(above \/ Covered(readable, p)) THEN "deny" ELSE "allow"
      BY <1>d, <2>9, <2>10, <3>2
    <3> QED
      BY <1>g, <2>11, <3>3
  <2> QED
    BY <2>9, <2>10, <2>12, <2>13, <2>14 DEF above, denied
<1> QED
  BY <1>1, <1>3, <1>4, <1>5 DEF Access

\* What a program is allowed under the profile.
LEMMA ProfileMeans ==
    ASSUME NEW pol \in Policies, NEW p \in Paths
    PROVE  /\ Allows(build_sbpl_profile(pol), "network*", p) <=> pol.network
           /\ Allows(build_sbpl_profile(pol), "file-write*", p) <=> Granted(pol, p) = "ReadWrite"
           /\ Allows(build_sbpl_profile(pol), "file-read*", p) <=>
                  \/ Granted(pol, p) # "NoAccess"
                  \/ /\ \E root \in readable_paths(pol) : StrictlyUnder(p, root)
                     /\ ~Covered(denied_paths(pol), p)
<1> DEFINE N == IF pol.network THEN <<>> ELSE Everywhere("deny", "network*")
           F == default_rules(pol)
<1>1. /\ N \in Seq(Rule)
      /\ \A op : Says(N, op, p) =
             IF op = "network*" /\ ~pol.network THEN "deny" ELSE "nothing"
  BY NothingSays, EverywhereSays DEF Actions, Operations
<1>2. F \in Seq(Rule)
  BY DefaultRulesSay
<1> HIDE DEF N, F
<1>3. \A op : Says(N \o F, op, p) =
          IF Says(F, op, p) = "nothing" THEN Says(N, op, p) ELSE Says(F, op, p)
  BY <1>1, <1>2, ConcatSays
<1>4. \A op : Allows(build_sbpl_profile(pol), op, p) <=> Says(N \o F, op, p) # "deny"
  BY AllowsUnlessDenied DEF build_sbpl_profile, N, F
<1>5. Says(F, "network*", p) = "nothing"
  BY DefaultRulesSay DEF F
<1>6. Allows(build_sbpl_profile(pol), "network*", p) <=> pol.network
  BY <1>1, <1>3, <1>4, <1>5
<1>7. Allows(build_sbpl_profile(pol), "file-write*", p) <=> Says(F, "file-write*", p) # "deny"
  BY <1>1, <1>3, <1>4
<1>8. Allows(build_sbpl_profile(pol), "file-read*", p) <=> Says(F, "file-read*", p) # "deny"
  BY <1>1, <1>3, <1>4
<1> QED
  BY <1>6, <1>7, <1>8, DefaultRulesSay DEF F

LEMMA ProfileType ==
    ASSUME NEW pol \in Policies
    PROVE  build_sbpl_profile(pol) \in Seq(Rule)
<1>1. default_rules(pol) \in Seq(Rule)
  <2>1. <<>> \in Seq(Nat)
    OBVIOUS
  <2> QED
    BY <2>1, DefaultRulesSay
<1>2. (IF pol.network THEN <<>> ELSE Everywhere("deny", "network*")) \in Seq(Rule)
  BY NothingSays, EverywhereSays DEF Actions, Operations
<1> QED
  BY <1>1, <1>2, ConcatSays DEF build_sbpl_profile

-----------------------------------------------------------------------------
(* The run.                                                                *)

\* An answer is what the profile of the policy allows.
Answered ==
    /\ phase = "check" => request = None
    /\ phase = "running" => profile = build_sbpl_profile(policy)
    /\ request # None =>
           /\ profile = build_sbpl_profile(policy)
           /\ allowed <=> Allows(build_sbpl_profile(policy), request.op, request.path)

ProfileInv == TypeOK /\ Answered

LEMMA InitInv == Init => ProfileInv
<1> SUFFICES ASSUME Init PROVE ProfileInv
  OBVIOUS
<1>1. profile = <<>> /\ DOMAIN profile = {}
  BY DEF Init
<1>2. TypeOK
  BY <1>1 DEF Init, TypeOK
<1> QED
  BY <1>2 DEF Init, ProfileInv, Answered

LEMMA NextInv == ProfileInv /\ [Next]_vars => ProfileInv'
<1> SUFFICES ASSUME ProfileInv, [Next]_vars PROVE ProfileInv'
  OBVIOUS
<1>a. policy \in Policies
  BY DEF ProfileInv, TypeOK
<1>1. CASE UNCHANGED vars
  BY <1>1 DEF vars, ProfileInv, TypeOK, Answered
<1>2. CASE Start
  <2>1. profile' \in Seq(Rule)
    BY <1>2, <1>a, ProfileType DEF Start
  <2>2. \A i \in DOMAIN profile' : profile'[i].op \in Operations
    <3>1. \A i \in DOMAIN profile' : profile'[i] \in Rule
      BY <2>1
    <3> QED
      BY <3>1 DEF Rule
  <2> QED
    BY <1>2, <2>2 DEF Start, ProfileInv, TypeOK, Answered
<1>3. CASE Missing
  BY <1>3 DEF Missing, ProfileInv, TypeOK, Answered
<1>4. CASE Finish
  BY <1>4 DEF Finish, ProfileInv, TypeOK, Answered
<1>5. ASSUME NEW op \in Operations, NEW path \in Paths, Ask(op, path) PROVE ProfileInv'
  <2>1. /\ phase = "running" /\ request' = [op |-> op, path |-> path]
        /\ allowed' = Allows(profile, op, path) /\ UNCHANGED <<phase, policy, profile, result>>
    BY <1>5 DEF Ask
  <2>2. allowed' \in BOOLEAN
    BY <2>1 DEF Allows
  <2>3. TypeOK'
    BY <2>1, <2>2 DEF ProfileInv, TypeOK
  <2>4. Answered'
    BY <2>1 DEF ProfileInv, Answered
  <2> QED
    BY <2>3, <2>4 DEF ProfileInv
<1> QED
  BY <1>1, <1>2, <1>3, <1>4, <1>5 DEF Next

\* Types, and that every answer is that of the policy's own profile.
THEOREM ProfileInvariant == Spec => []ProfileInv
  BY InitInv, NextInv, PTL DEF Spec

\* What the profile allows is what the policy grants, however its carve-outs,
\* overlays and deny entries nest.
THEOREM AccessIsAsGranted == Spec => []AccessAsGranted
<1>1. ProfileInv => AccessAsGranted
  <2> SUFFICES ASSUME ProfileInv, request # None PROVE AccessAsGranted
    BY DEF AccessAsGranted, Asked
  <2>1. /\ policy \in Policies /\ request.path \in Paths
        /\ allowed <=> Allows(build_sbpl_profile(policy), request.op, request.path)
    BY DEF ProfileInv, TypeOK, Answered
  <2>2. request.op = "file-write*" => (allowed <=> Granted(policy, request.path) = "ReadWrite")
    BY <2>1, ProfileMeans
  <2>3. request.op = "file-read*" =>
           (allowed <=> \/ Granted(policy, request.path) # "NoAccess"
                        \/ /\ \E root \in readable_paths(policy) : StrictlyUnder(request.path, root)
                           /\ ~Covered(denied_paths(policy), request.path))
    BY <2>1, ProfileMeans
  <2> QED
    BY <2>2, <2>3 DEF AccessAsGranted, Asked
<1> QED
  BY <1>1, ProfileInvariant, PTL

\* Every directory on the way to a readable object can be read.
THEOREM GrantsAreReachable == Spec => []GrantsReachable
<1>1. ProfileInv => GrantsReachable
  <2> SUFFICES ASSUME ProfileInv, phase = "running", NEW path \in Paths, NEW above \in Paths,
                      Granted(policy, path) # "NoAccess", StrictlyUnder(above, path)
               PROVE  Allows(profile, "file-read*", above)
    BY DEF GrantsReachable
  <2>1. policy \in Policies /\ profile = build_sbpl_profile(policy)
    BY DEF ProfileInv, TypeOK, Answered
  <2>2. /\ policy.default \in Access /\ denied_paths(policy) \subseteq Paths
        /\ readable_paths(policy) \subseteq Paths
        /\ readable_paths(policy) = read_only_paths(policy) \cup read_write_paths(policy)
    BY <2>1, PolicyType
  <2>3. IsUnder(above, path)
    BY DEF StrictlyUnder
  <2>4. ~Covered(denied_paths(policy), above)
    <3>1. ~Covered(denied_paths(policy), path)
      BY <2>2, GrantedIs
    <3> QED
      BY <2>2, <2>3, <3>1, CoveredBelow
  <2>5. CASE policy.default # "NoAccess"
    BY <2>1, <2>2, <2>4, <2>5, GrantedIs, ProfileMeans
  <2>6. CASE policy.default = "NoAccess"
    <3>1. PICK r \in readable_paths(policy) : IsUnder(r, path)
      BY <2>2, <2>6, GrantedIs DEF Covered
    <3>2. CASE IsUnder(r, above)
      <4>1. Covered(read_only_paths(policy), above) \/ Covered(read_write_paths(policy), above)
        BY <2>2, <3>2 DEF Covered
      <4> QED
        BY <2>1, <2>2, <2>4, <4>1, GrantedIs, ProfileMeans
    <3>3. CASE ~IsUnder(r, above)
      <4>1. IsUnder(above, r) /\ above # r
        BY <2>2, <2>3, <3>1, <3>3, AboveTheSame, UnderItself
      <4>2. StrictlyUnder(above, r)
        BY <4>1 DEF StrictlyUnder
      <4> QED
        BY <2>1, <2>4, <4>2, ProfileMeans
    <3> QED
      BY <3>2, <3>3
  <2> QED
    BY <2>5, <2>6
<1> QED
  BY <1>1, ProfileInvariant, PTL

\* The network is open only to a policy that asks for it.
THEOREM NetworkIsAsGranted == Spec => []NetworkAsGranted
<1>1. ProfileInv => NetworkAsGranted
  <2> SUFFICES ASSUME ProfileInv, request # None PROVE NetworkAsGranted
    BY DEF NetworkAsGranted, Asked
  <2>1. /\ policy \in Policies /\ request.path \in Paths
        /\ allowed <=> Allows(build_sbpl_profile(policy), request.op, request.path)
    BY DEF ProfileInv, TypeOK, Answered
  <2> QED
    BY <2>1, ProfileMeans DEF NetworkAsGranted, Asked
<1> QED
  BY <1>1, ProfileInvariant, PTL
=============================================================================
