--------------------------- MODULE DecisionProofs ---------------------------
(***************************************************************************)
(* What the decisions promise, proved for every input.                     *)
(***************************************************************************)
EXTENDS Decisions, FiniteSetTheorems, WellFoundedInduction, TLAPS

-----------------------------------------------------------------------------
(***************************************************************************)
(* The gates of two sides (gate.py, merge_gates).                          *)
(***************************************************************************)
Gatelike(gates) ==
  \A gate \in gates :
    /\ gate = [kind |-> gate.kind, at |-> gate.at] /\ gate.kind \in {"severity", "kev", "epss"}
    /\ gate.kind = "severity" => gate.at \in Policy!Severities

\* Of several severities one is the lowest on the scale.
LEMMA HighestLevel ==
  ASSUME NEW gates, Gatelike(gates), Policy!Levels(gates) # {}
  PROVE  /\ Policy!Max(Policy!Levels(gates)) \in Policy!Levels(gates)
         /\ \A at \in Policy!Levels(gates) : at <= Policy!Max(Policy!Levels(gates))
<1> DEFINE L == Policy!Levels(gates)
<1>1. L \subseteq 1..4
  BY DEF Gatelike, Policy!Levels, Policy!Severities
<1>2. L # {}
  OBVIOUS
<1> HIDE DEF L
<1>3. \E x \in L : \A y \in L : x >= y
  <2>1. \A x \in L : x = 1 \/ x = 2 \/ x = 3 \/ x = 4
    BY <1>1
  <2>2. CASE 4 \in L
    BY <2>1, <2>2
  <2>3. CASE 4 \notin L /\ 3 \in L
    BY <2>1, <2>3
  <2>4. CASE 4 \notin L /\ 3 \notin L /\ 2 \in L
    BY <2>1, <2>4
  <2>5. CASE 4 \notin L /\ 3 \notin L /\ 2 \notin L
    BY <1>2, <2>1, <2>5
  <2> QED BY <2>2, <2>3, <2>4, <2>5
<1>4. Policy!Max(L) \in L /\ \A y \in L : Policy!Max(L) >= y
  BY <1>3 DEF Policy!Max
<1> QED BY <1>1, <1>4 DEF L

\* Who is stopped at a severity is stopped at every lower one.
LEMMA StricterStops ==
  ASSUME NEW i \in Policy!Severities, NEW j \in Policy!Severities, i <= j, NEW findings, NEW counts,
         Policy!Outcome([kind |-> "severity", at |-> j], findings, counts) = "PASS"
  PROVE  Policy!Outcome([kind |-> "severity", at |-> i], findings, counts) = "PASS"
<1> DEFINE g == [kind |-> "severity", at |-> i]
           h == [kind |-> "severity", at |-> j]
<1>1. \A finding : Policy!Answered(g, finding) /\ Policy!Answered(h, finding)
  BY DEF Policy!Answered
<1>2. 1..i \subseteq 1..j
  BY DEF Policy!Severities
<1>3. \A finding : Policy!Offends(g, finding) => Policy!Offends(h, finding)
  BY <1>2 DEF Policy!Offends
<1>4. Policy!Fires(g, findings, counts) => Policy!Fires(h, findings, counts)
  BY <1>2, <1>3 DEF Policy!Fires
<1>5. ~Policy!Fires(h, findings, counts)
  BY DEF Policy!Outcome
<1> QED BY <1>1, <1>4, <1>5 DEF Policy!Outcome

\* A build passes the merged gates exactly when it passes both sides.
LEMMA TheGatesAddUp ==
  ASSUME NEW declared, NEW requested, NEW findings, NEW counts, Gatelike(declared \cup requested)
  PROVE  Policy!GatesAddUp(declared, requested, findings, counts)
<1> DEFINE both == declared \cup requested
           merged == Policy!MergeGates(declared, requested)
           Passes(gate) == Policy!Outcome(gate, findings, counts) = "PASS"
<1>1. SUFFICES (\A gate \in merged : Passes(gate)) <=> (\A gate \in both : Passes(gate))
  BY DEF Policy!GatesAddUp, Policy!Failing
<1>2. CASE declared = {} \/ requested = {}
  BY <1>2 DEF Policy!MergeGates
<1>3. CASE declared # {} /\ requested # {}
  <2> DEFINE others == {gate \in both : gate.kind # "severity"}
             worst == [kind |-> "severity", at |-> Policy!Max(Policy!Levels(both))]
  <2>1. CASE Policy!Levels(both) = {}
    <3>1. merged = others
      BY <1>3, <2>1 DEF Policy!MergeGates
    <3>2. others = both
      BY <2>1 DEF Policy!Levels
    <3> QED BY <3>1, <3>2
  <2>2. CASE Policy!Levels(both) # {}
    <3>1. merged = others \cup {worst}
      BY <1>3, <2>2 DEF Policy!MergeGates, Policy!Level
    <3>2. /\ worst.at \in Policy!Levels(both)
          /\ \A at \in Policy!Levels(both) : at <= worst.at
      BY <2>2, HighestLevel
    <3>3. worst \in both
      BY <3>2 DEF Policy!Levels, Gatelike
    <3>4. ASSUME NEW gate \in both, gate.kind = "severity", Passes(worst) PROVE Passes(gate)
      <4>1. gate.at \in Policy!Levels(both) /\ gate = [kind |-> "severity", at |-> gate.at]
        BY <3>4 DEF Policy!Levels, Gatelike
      <4>2. gate.at \in Policy!Severities /\ worst.at \in Policy!Severities /\ gate.at <= worst.at
        BY <3>2, <3>3, <3>4, <4>1 DEF Gatelike
      <4> QED BY <3>4, <4>1, <4>2, StricterStops
    <3> QED BY <3>1, <3>3, <3>4
  <2> QED BY <2>1, <2>2
<1> QED BY <1>2, <1>3

-----------------------------------------------------------------------------
(***************************************************************************)
(* The policies of two sides (build_policy.py, merged_with).               *)
(***************************************************************************)
\* Of two ceilings for a severity the merged policy has the lower one.
LEMMA LowestCeiling ==
  ASSUME NEW p, NEW q, NEW s \in (DOMAIN p.ceilings) \cup (DOMAIN q.ceilings),
         \A policy \in {p, q} : s \in DOMAIN policy.ceilings => policy.ceilings[s] \in Nat
  PROVE  \A policy \in {p, q} : s \in DOMAIN policy.ceilings =>
           Policy!Ceiling(p, q, s) \in Nat /\ Policy!Ceiling(p, q, s) <= policy.ceilings[s]
<1> DEFINE C == {policy.ceilings[s] : policy \in {r \in {p, q} : s \in DOMAIN r.ceilings}}
<1>1. C \subseteq Nat /\ \E a, b \in C : C = {a, b}
  <2>1. CASE s \in DOMAIN p.ceilings /\ s \in DOMAIN q.ceilings
    <3>1. C = {p.ceilings[s], q.ceilings[s]}
      BY <2>1
    <3> QED BY <2>1, <3>1
  <2>2. CASE s \in DOMAIN p.ceilings /\ s \notin DOMAIN q.ceilings
    <3>1. C = {p.ceilings[s], p.ceilings[s]}
      BY <2>2
    <3> QED BY <2>2, <3>1
  <2>3. CASE s \notin DOMAIN p.ceilings /\ s \in DOMAIN q.ceilings
    <3>1. C = {q.ceilings[s], q.ceilings[s]}
      BY <2>3
    <3> QED BY <2>3, <3>1
  <2> QED BY <2>1, <2>2, <2>3
<1>2. \A policy \in {p, q} : s \in DOMAIN policy.ceilings => policy.ceilings[s] \in C
  OBVIOUS
<1>3. Policy!Ceiling(p, q, s) = Policy!Min(C)
  BY DEF Policy!Ceiling
<1> HIDE DEF C
<1>4. \E x \in C : \A y \in C : x <= y
  BY <1>1
<1>5. Policy!Min(C) \in C /\ \A y \in C : Policy!Min(C) <= y
  BY <1>4 DEF Policy!Min
<1> QED BY <1>1, <1>2, <1>3, <1>5

\* Whatever violates one of two policies violates the merged one.
LEMMA NothingIsLoosened ==
  ASSUME NEW p, NEW q, NEW facts, p.registries = {} \/ q.registries = {}, NEW policy \in {p, q},
         \A r \in {p, q} : \A s \in DOMAIN r.ceilings : 
           r.ceilings[s] \in Nat /\ (facts.scanned => facts.counts[s] \in Nat)
  PROVE  Policy!Violations(policy, facts) \subseteq Policy!Violations(Policy!Merged(p, q), facts)
<1> DEFINE merged == Policy!Merged(p, q)
<1>1. /\ policy.scan => merged.scan
      /\ policy.pinned => merged.pinned
      /\ policy.nonroot => merged.nonroot
      /\ policy.provenance => merged.provenance
      /\ policy.labels \subseteq merged.labels
  BY DEF Policy!Merged
<1>2. policy.registries # {} => merged.registries = policy.registries
  BY DEF Policy!Merged
<1>3. /\ DOMAIN merged.ceilings = (DOMAIN p.ceilings) \cup (DOMAIN q.ceilings)
      /\ \A s \in DOMAIN merged.ceilings : merged.ceilings[s] = Policy!Ceiling(p, q, s)
  BY DEF Policy!Merged
<1> HIDE DEF merged
<1>4. Policy!CheckScan(policy, facts) \subseteq Policy!CheckScan(merged, facts)
  BY <1>1 DEF Policy!CheckScan, Policy!Broken
<1>5. Policy!CheckCeilings(policy, facts) \subseteq Policy!CheckCeilings(merged, facts)
  <2>1. DOMAIN policy.ceilings \subseteq DOMAIN merged.ceilings
    BY <1>3
  <2>2. ASSUME NEW s \in DOMAIN policy.ceilings, facts.scanned, facts.counts[s] > policy.ceilings[s]
        PROVE  facts.counts[s] > merged.ceilings[s]
    <3>1. merged.ceilings[s] \in Nat /\ merged.ceilings[s] <= policy.ceilings[s]
      BY <1>3, <2>1, LowestCeiling
    <3>2. facts.counts[s] \in Nat /\ policy.ceilings[s] \in Nat
      BY <2>2
    <3> QED BY <2>2, <3>1, <3>2
  <2> QED BY <2>1, <2>2 DEF Policy!CheckCeilings, Policy!Broken
<1>6. Policy!CheckBases(policy, facts) \subseteq Policy!CheckBases(merged, facts)
  BY <1>1, <1>2 DEF Policy!CheckBases, Policy!Broken
<1>7. Policy!CheckNonroot(policy, facts) \subseteq Policy!CheckNonroot(merged, facts)
  BY <1>1 DEF Policy!CheckNonroot, Policy!Broken
<1>8. Policy!CheckLabels(policy, facts) \subseteq Policy!CheckLabels(merged, facts)
  BY <1>1 DEF Policy!CheckLabels, Policy!Broken
<1>9. Policy!CheckProvenance(policy, facts) \subseteq Policy!CheckProvenance(merged, facts)
  BY <1>1 DEF Policy!CheckProvenance, Policy!Broken
<1> QED BY <1>4, <1>5, <1>6, <1>7, <1>8, <1>9 DEF Policy!Violations, merged

-----------------------------------------------------------------------------
(***************************************************************************)
(* Judging changes nothing of the question.                                *)
(***************************************************************************)
LEMMA InputsStay ==
  ASSUME NEW Q, NEW t
  PROVE  /\ [Judge]_vars /\ (topic = t => input \in Q) => (topic' = t => input' \in Q)
BY DEF Judge, vars

(***************************************************************************)
(* Two sides, the file of the repository and the command line or the       *)
(* production profile, merge into a demand that neither loosens: a build   *)
(* passes the merged gates exactly when it passes both (merge_gates), and  *)
(* what violates either policy violates the merged one (merged_with, where *)
(* at most one restricts the registries), for any gates, policies, scans.  *)
(***************************************************************************)
THEOREM NeitherSideLoosens == Spec => []PoliciesAddUp
<1> DEFINE Inv == (topic = "gates" => input \in GateInputs) /\ (topic = "policies" => input \in PolicyInputs)
<1>1. Init => Inv
  BY DEF Init
<1>2. Inv /\ [Judge]_vars => Inv'
  BY InputsStay
<1>3. Inv => PoliciesAddUp
  <2> SUFFICES ASSUME Inv PROVE PoliciesAddUp
    OBVIOUS
  <2>1. ASSUME topic = "gates"
        PROVE  Policy!GatesAddUp(input.declared, input.requested, input.findings, input.counts)
    <3>1. Gatelike(input.declared \cup input.requested)
      BY <2>1, GatesAreGates DEF Gatelike
    <3> QED BY <3>1, TheGatesAddUp
  <2>2. ASSUME topic = "policies"
        PROVE  Policy!MergeOnlyTightens(input.mine, input.theirs, input.facts)
    <3> DEFINE p == input.mine
               q == input.theirs
    <3>1. \A r \in {p, q} : \A s \in DOMAIN r.ceilings : 
            r.ceilings[s] \in Nat /\ (input.facts.scanned => input.facts.counts[s] \in Nat)
      BY <2>2, CeilingsAreNumbers
    <3> HIDE DEF p, q
    <3>2. ASSUME p.registries = {} \/ q.registries = {}
          PROVE  /\ Policy!Violations(p, input.facts) \subseteq Policy!Violations(Policy!Merged(p, q), input.facts)
                 /\ Policy!Violations(q, input.facts) \subseteq Policy!Violations(Policy!Merged(p, q), input.facts)
      BY <3>1, <3>2, NothingIsLoosened
    <3> QED BY <3>2 DEF Policy!MergeOnlyTightens, Policy!Demands, p, q
  <2> QED BY <2>1, <2>2 DEF PoliciesAddUp, Asked
<1> QED BY <1>1, <1>2, <1>3, PTL DEF Spec

-----------------------------------------------------------------------------
(***************************************************************************)
(* Orders and places in them.                                              *)
(***************************************************************************)
\* Of several naturals one is the least.
LEMMA LeastIsIn ==
  ASSUME NEW set \in SUBSET Nat, set # {}
  PROVE  \E x \in set : \A y \in set : x <= y
<1>1. PICK x \in set : \A y \in set : <<y, x>> \notin OpToRel(<, Nat)
  BY NatLessThanWellFounded, WFMin
<1>2. \A y \in set : ~(y < x)
  BY <1>1 DEF OpToRel
<1> QED BY <1>2

(***************************************************************************)
(* A strict total order on a set, as a set of pairs, and who is ahead.     *)
(***************************************************************************)
Orders(rel, set) ==
  /\ \A a \in set : <<a, a>> \notin rel
  /\ \A a, b, c \in set : <<a, b>> \in rel /\ <<b, c>> \in rel => <<a, c>> \in rel
  /\ \A a, b \in set : a = b \/ <<a, b>> \in rel \/ <<b, a>> \in rel
\* Who is ahead of a member, and its place.
Ahead(rel, set, a) == {b \in set : <<b, a>> \in rel}
Place(rel, set, a) == Cardinality(Ahead(rel, set, a))

\* Who is ahead has the smaller place, so each has its own.
LEMMA EachHasItsPlace ==
  ASSUME NEW set, IsFiniteSet(set), NEW rel, Orders(rel, set)
  PROVE  /\ \A a \in set : Place(rel, set, a) \in Nat
         /\ \A a, b \in set : <<a, b>> \in rel <=> Place(rel, set, a) < Place(rel, set, b)
         /\ \A a, b \in set : Place(rel, set, a) = Place(rel, set, b) => a = b
<1>1. \A a \in set : Ahead(rel, set, a) \in SUBSET set
  BY DEF Ahead
<1>2. \A a \in set : IsFiniteSet(Ahead(rel, set, a)) /\ Place(rel, set, a) \in Nat
  BY <1>1, FS_Subset, FS_CardinalityType DEF Place
<1>3. ASSUME NEW a \in set, NEW b \in set, <<a, b>> \in rel PROVE Place(rel, set, a) < Place(rel, set, b)
  <2>1. Ahead(rel, set, a) \in SUBSET Ahead(rel, set, b)
    BY <1>3 DEF Orders, Ahead
  <2>2. a \in Ahead(rel, set, b) /\ a \notin Ahead(rel, set, a)
    BY <1>3 DEF Orders, Ahead
  <2>3. Place(rel, set, a) <= Place(rel, set, b) /\ Place(rel, set, a) # Place(rel, set, b)
    BY <1>2, <2>1, <2>2, FS_Subset DEF Place
  <2> QED BY <1>2, <2>3
<1>4. \A a, b \in set : a = b \/ <<a, b>> \in rel \/ <<b, a>> \in rel
  BY DEF Orders
<1>5. ASSUME NEW a \in set, NEW b \in set, Place(rel, set, a) < Place(rel, set, b) PROVE <<a, b>> \in rel
  <2>1. Place(rel, set, a) \in Nat /\ Place(rel, set, b) \in Nat
    BY <1>2
  <2>2. ~(<<b, a>> \in rel)
    BY <1>3, <1>5, <2>1
  <2>3. a # b
    BY <1>5, <2>1
  <2> QED BY <1>4, <2>2, <2>3
<1>6. ASSUME NEW a \in set, NEW b \in set, Place(rel, set, a) = Place(rel, set, b) PROVE a = b
  <2>1. Place(rel, set, a) \in Nat /\ Place(rel, set, b) \in Nat
    BY <1>2
  <2>2. ~(<<a, b>> \in rel) /\ ~(<<b, a>> \in rel)
    BY <1>3, <1>6, <2>1
  <2> QED BY <1>4, <2>2
<1> QED BY <1>2, <1>3, <1>5, <1>6

\* One is ahead of all others.
LEMMA OneIsFirst ==
  ASSUME NEW set, IsFiniteSet(set), set # {}, NEW rel, Orders(rel, set)
  PROVE  \E a \in set : /\ Place(rel, set, a) = 0
                        /\ \A b \in set : b # a => <<a, b>> \in rel
<1> DEFINE places == {Place(rel, set, a) : a \in set}
<1>1. /\ \A a \in set : Place(rel, set, a) \in Nat
      /\ \A a, b \in set : <<a, b>> \in rel <=> Place(rel, set, a) < Place(rel, set, b)
  BY EachHasItsPlace
<1>2. places \in SUBSET Nat /\ places # {}
  BY <1>1
<1>3. PICK n \in places : \A m \in places : n <= m
  BY <1>2, LeastIsIn
<1>4. PICK a \in set : n = Place(rel, set, a)
  OBVIOUS
<1>5. \A b \in set : ~(<<b, a>> \in rel)
  <2> TAKE b \in set
  <2>1. Place(rel, set, b) \in places
    OBVIOUS
  <2> HIDE DEF places
  <2> QED BY <1>1, <1>3, <1>4, <2>1
<1>6. Ahead(rel, set, a) = {}
  BY <1>5 DEF Ahead
<1>7. Place(rel, set, a) = 0
  BY <1>6, FS_EmptySet DEF Place
<1> QED BY <1>5, <1>7 DEF Orders

\* A budget takes the first ones, as many as it allows.
LEMMA TheBudgetIsSpent ==
  ASSUME NEW set, IsFiniteSet(set), NEW rel, Orders(rel, set), NEW budget \in Nat
  PROVE  Cardinality({a \in set : Place(rel, set, a) < budget})
           = IF budget < Cardinality(set) THEN budget ELSE Cardinality(set)
<1> DEFINE n == Cardinality(set)
           m == IF budget < n THEN budget ELSE n
           f == [a \in set |-> Place(rel, set, a)]
           kept == {a \in set : Place(rel, set, a) < budget}
<1>1. /\ \A a \in set : Place(rel, set, a) \in Nat
      /\ \A a, b \in set : Place(rel, set, a) = Place(rel, set, b) => a = b
  BY EachHasItsPlace
<1>2. n \in Nat
  BY FS_CardinalityType
<1>3. ASSUME NEW a \in set PROVE Place(rel, set, a) < n
  <2>1. Ahead(rel, set, a) \in SUBSET set /\ a \notin Ahead(rel, set, a)
    BY DEF Ahead, Orders
  <2>2. Place(rel, set, a) <= n /\ Place(rel, set, a) # n
    BY <2>1, FS_Subset DEF Place
  <2> QED BY <1>1, <1>2, <2>2
<1>4. f \in Injection(set, 0..(n - 1))
  <2>1. f \in [set -> 0..(n - 1)]
    BY <1>1, <1>2, <1>3
  <2> QED BY <1>1, <2>1 DEF Injection, IsInjective
<1>5. IsFiniteSet(0..(n - 1)) /\ Cardinality(0..(n - 1)) = n
  BY <1>2, FS_Interval
<1>6. f \in Surjection(set, 0..(n - 1))
  <2> HIDE DEF f
  <2> QED BY <1>4, <1>5, FS_Injection
<1>7. \A i \in 0..(n - 1) : \E a \in set : Place(rel, set, a) = i
  BY <1>6 DEF Surjection
<1>8. IsFiniteSet(kept)
  <2>1. kept \in SUBSET set
    OBVIOUS
  <2> QED BY <2>1, FS_Subset
<1> DEFINE g == [a \in kept |-> Place(rel, set, a)]
<1>9. g \in Bijection(kept, 0..(m - 1))
  <2>1. \A a \in kept : Place(rel, set, a) \in 0..(m - 1)
    BY <1>1, <1>2, <1>3
  <2>2. g \in Injection(kept, 0..(m - 1))
    BY <1>1, <2>1 DEF Injection, IsInjective
  <2>3. ASSUME NEW i \in 0..(m - 1) PROVE \E a \in kept : g[a] = i
    <3>1. i \in 0..(n - 1) /\ i < budget
      BY <1>2
    <3>2. PICK a \in set : Place(rel, set, a) = i
      BY <1>7, <3>1
    <3> QED BY <3>1, <3>2
  <2>4. g \in Surjection(kept, 0..(m - 1))
    BY <2>1, <2>3 DEF Surjection
  <2> QED BY <2>2, <2>4 DEF Bijection
<1>10. Cardinality(0..(m - 1)) = Cardinality(kept)
  <2> HIDE DEF g, kept, m
  <2>1. ExistsBijection(kept, 0..(m - 1))
    BY <1>9 DEF ExistsBijection
  <2> QED BY <1>8, <2>1, FS_Bijection
<1>11. Cardinality(0..(m - 1)) = m
  <2>1. m \in Nat
    BY <1>2
  <2> HIDE DEF m
  <2> QED BY <2>1, FS_Interval
<1> QED BY <1>10, <1>11

-----------------------------------------------------------------------------
(***************************************************************************)
(* What was measured decides (security_score.py, verdict.py).              *)
(***************************************************************************)
Measured(a) ==
  /\ {a.critical, a.high, a.medium, a.exploited} \subseteq Nat
  /\ a.verified \in BOOLEAN /\ a.epss \in Seq(Nat)
  /\ a.age = Unknown \/ a.age \in Nat

\* What the probabilities of exploitation cost is a number, however many.
LEMMA ExploitsCost ==
  ASSUME NEW epss \in Seq(Nat)
  PROVE  V!ExploitPenalty(epss) \in Nat
<1> DEFINE Sums(f, n) == f = [i \in 0..n |-> IF i = 0 THEN 0 ELSE f[i - 1] + V!EpssPenalty(epss[i])]
           len == Len(epss)
<1>1. len \in Nat /\ \A i \in 1..len : epss[i] \in Nat /\ V!EpssPenalty(epss[i]) \in Nat
  BY DEF V!EpssPenalty
<1>2. \A n \in 0..len : \E f \in [0..n -> Nat] : Sums(f, n)
  <2> DEFINE without == {n \in 0..len : ~\E f \in [0..n -> Nat] : Sums(f, n)}
  <2> SUFFICES ASSUME without # {} PROVE FALSE
    OBVIOUS
  <2>1. without \in SUBSET Nat
    BY <1>1
  <2>2. PICK n \in without : \A m \in without : n <= m
    BY <2>1, LeastIsIn
  <2>3. n \in 0..len /\ ~\E f \in [0..n -> Nat] : Sums(f, n)
    BY <2>2
  <2>4. CASE n = 0
    <3> DEFINE f == [i \in 0..0 |-> 0]
    <3>1. f \in [0..0 -> Nat]
      OBVIOUS
    <3>2. \A i \in 0..0 : i = 0
      OBVIOUS
    <3>3. f = [i \in 0..0 |-> IF i = 0 THEN 0 ELSE f[i - 1] + V!EpssPenalty(epss[i])]
      BY <3>2
    <3> HIDE DEF f
    <3>4. \E h \in [0..0 -> Nat] : Sums(h, 0)
      BY <3>1, <3>3
    <3> QED BY <2>3, <2>4, <3>4
  <2>5. CASE n # 0
    <3>0. n - 1 \in 0..len /\ ~(n <= n - 1)
      BY <1>1, <2>3, <2>5
    <3>1. n - 1 \in 0..len /\ n - 1 \notin without
      <4> HIDE DEF without
      <4> QED BY <2>2, <3>0
    <3>2. PICK f \in [0..(n - 1) -> Nat] : Sums(f, n - 1)
      BY <3>1
    <3> DEFINE g == [i \in 0..n |-> IF i = n THEN f[n - 1] + V!EpssPenalty(epss[n]) ELSE f[i]]
    <3>3. g \in [0..n -> Nat]
      <4>1. n \in 1..len /\ n - 1 \in 0..(n - 1)
        BY <1>1, <2>3, <2>5
      <4>2. f[n - 1] + V!EpssPenalty(epss[n]) \in Nat
        BY <1>1, <4>1
      <4>3. \A i \in 0..n : i # n => i \in 0..(n - 1)
        BY <4>1
      <4> QED BY <4>2, <4>3
    <3>4. \A i \in 0..n : g[i] = IF i = 0 THEN 0 ELSE g[i - 1] + V!EpssPenalty(epss[i])
      <4> TAKE i \in 0..n
      <4>1. n \in 1..len /\ n - 1 \in 0..n
        BY <1>1, <2>3, <2>5
      <4>2. CASE i = n
        BY <4>1, <4>2
      <4>3. CASE i # n
        <5>1. i \in 0..(n - 1) /\ (i # 0 => i - 1 \in 0..n /\ i - 1 # n)
          BY <4>1, <4>3
        <5>2. f[i] = IF i = 0 THEN 0 ELSE f[i - 1] + V!EpssPenalty(epss[i])
          BY <3>2, <5>1
        <5> QED BY <4>3, <5>1, <5>2
      <4> QED BY <4>2, <4>3
    <3>5. Sums(g, n)
      <4> HIDE DEF g
      <4> QED BY <3>3, <3>4
    <3> QED BY <2>3, <3>3, <3>5
  <2> QED BY <2>4, <2>5
<1>3. PICK f \in [0..len -> Nat] : Sums(f, len)
  <2> HIDE DEF Sums, len
  <2>1. len \in 0..len
    BY <1>1
  <2> QED BY <1>2, <2>1
<1> DEFINE sum == CHOOSE g : Sums(g, len)
<1>4. Sums(sum, len)
  BY <1>3
<1>5. \A i \in 0..len : sum[i] \in Nat
  <2> DEFINE without == {n \in 0..len : sum[n] \notin Nat}
  <2> HIDE DEF sum
  <2> SUFFICES ASSUME without # {} PROVE FALSE
    OBVIOUS
  <2>1. PICK n \in without : \A m \in without : n <= m
    <3>1. without \in SUBSET Nat
      BY <1>1
    <3> QED BY <3>1, LeastIsIn
  <2>2. n \in 0..len /\ sum[n] \notin Nat
    BY <2>1
  <2>3. sum[n] = IF n = 0 THEN 0 ELSE sum[n - 1] + V!EpssPenalty(epss[n])
    BY <1>4, <2>2
  <2>4. n # 0
    BY <2>2, <2>3
  <2>5. n - 1 \in 0..len /\ n - 1 \notin without /\ n \in 1..len
    BY <1>1, <2>1, <2>2, <2>4
  <2>6. sum[n - 1] \in Nat
    BY <2>5
  <2> QED BY <1>1, <2>2, <2>3, <2>4, <2>5, <2>6
<1>6. V!ExploitPenalty(epss) = sum[len]
  BY DEF V!ExploitPenalty
<1> QED BY <1>1, <1>5, <1>6

\* The bonus of an image is between 0 and 400.
LEMMA BonusIsBounded ==
  ASSUME NEW a
  PROVE  V!Bonus(a) \in 0..400
BY DEF V!Bonus, V!SignalBonus

\* Age costs a natural number.
LEMMA AgeCosts ==
  ASSUME NEW a, Measured(a)
  PROVE  V!AgePenalty(a) \in Nat
<1>1. CASE a.age = Unknown
  BY <1>1 DEF V!AgePenalty
<1>2. CASE a.age # Unknown
  <2> DEFINE set == {100 * a.age, 300}
  <2>1. a.age \in Nat /\ V!AgePenalty(a) = V!Min(set)
    BY <1>2 DEF Measured, V!AgePenalty
  <2>2. set \subseteq Nat /\ \E x \in set : \A y \in set : x <= y
    BY <2>1
  <2> HIDE DEF set
  <2>3. V!Min(set) \in set
    BY <2>2 DEF V!Min
  <2> QED BY <2>1, <2>2, <2>3
<1> QED BY <1>1, <1>2

\* The score stays on its scale.
LEMMA ScoreClips ==
  ASSUME NEW a, Measured(a)
  PROVE  LET n == V!Rounded(V!Base - V!Penalty(a) + V!Bonus(a)) IN
           /\ V!Penalty(a) \in Nat /\ n \in Int
           /\ V!Score(a) = IF n > 10000 THEN 10000 ELSE IF n < 0 THEN 0 ELSE n
<1> DEFINE n == V!Rounded(V!Base - V!Penalty(a) + V!Bonus(a))
<1>1. V!ExploitPenalty(a.epss) \in Nat /\ V!AgePenalty(a) \in Nat
  BY ExploitsCost, AgeCosts DEF Measured
<1>2. V!Penalty(a) \in Nat
  <2>1. a.critical \in Nat /\ a.high \in Nat /\ a.medium \in Nat /\ a.exploited \in Nat
    BY DEF Measured
  <2>2. (IF a.eol = "true" THEN 2000 ELSE 0) \in Nat
    OBVIOUS
  <2> QED BY <1>1, <2>1, <2>2 DEF V!Penalty
<1>3. n \in Int
  BY <1>2, BonusIsBounded DEF V!Rounded, V!Base
<1>4. V!Score(a) = V!Max({0, V!Min({10000, n})})
  BY DEF V!Score
<1> HIDE DEF n
<1>5. V!Min({10000, n}) = IF n > 10000 THEN 10000 ELSE n
  <2> DEFINE set == {10000, n}
  <2>1. \E x \in set : \A y \in set : x <= y
    BY <1>3
  <2>2. V!Min(set) \in set /\ \A y \in set : V!Min(set) <= y
    <3> HIDE DEF set
    <3> QED BY <2>1 DEF V!Min
  <2> QED BY <1>3, <2>2
<1> DEFINE m == IF n > 10000 THEN 10000 ELSE n
<1>6. V!Max({0, m}) = IF m < 0 THEN 0 ELSE m
  <2> DEFINE set == {0, m}
  <2>0. m \in Int
    BY <1>3
  <2> HIDE DEF m
  <2>1. \E x \in set : \A y \in set : x >= y
    BY <2>0
  <2>2. V!Max(set) \in set /\ \A y \in set : V!Max(set) >= y
    <3> HIDE DEF set
    <3> QED BY <2>1 DEF V!Max
  <2> QED BY <2>0, <2>2
<1> QED BY <1>2, <1>3, <1>4, <1>5, <1>6 DEF n

\* A confidence is one of four levels, and none but the lowest is for the unverified.
LEMMA ConfidenceIsALevel ==
  ASSUME NEW a
  PROVE  V!Confidence(a) \in 0..3 /\ (a.verified => V!Confidence(a) \in 1..3) /\ (~a.verified => V!Confidence(a) = 0)
BY DEF V!Confidence

\* The dirtier of two images has the lower score.
LEMMA DirtierScoresLower ==
  ASSUME NEW a, NEW b, Measured(a), Measured(b), V!Dirtier(a, b), V!Score(b) > 0
  PROVE  V!Score(a) < V!Score(b)
<1> DEFINE m == V!Rounded(V!Base - V!Penalty(a) + V!Bonus(a))
           n == V!Rounded(V!Base - V!Penalty(b) + V!Bonus(b))
<1>1. /\ V!Penalty(a) \in Nat /\ V!Penalty(b) \in Nat /\ m \in Int /\ n \in Int
      /\ V!Score(a) = IF m > 10000 THEN 10000 ELSE IF m < 0 THEN 0 ELSE m
      /\ V!Score(b) = IF n > 10000 THEN 10000 ELSE IF n < 0 THEN 0 ELSE n
  BY ScoreClips
<1>2. V!Penalty(a) >= V!Penalty(b) + 500
  <2>1. /\ a.critical >= b.critical /\ a.high >= b.high /\ a.critical + a.high > b.critical + b.high
        /\ a.medium = b.medium /\ a.exploited = b.exploited /\ a.epss = b.epss /\ a.age = b.age /\ a.eol = b.eol
    BY DEF V!Dirtier
  <2> DEFINE rest == 100 * b.medium + 1000 * b.exploited + V!ExploitPenalty(b.epss)
                     + (IF b.eol = "true" THEN 2000 ELSE 0) + V!AgePenalty(b)
  <2>2. V!AgePenalty(a) = V!AgePenalty(b)
    BY <2>1 DEF V!AgePenalty
  <2>3. V!ExploitPenalty(b.epss) \in Nat /\ V!AgePenalty(b) \in Nat
    BY ExploitsCost, AgeCosts DEF Measured
  <2>4. /\ a.critical \in Nat /\ a.high \in Nat /\ b.critical \in Nat /\ b.high \in Nat
        /\ b.medium \in Nat /\ b.exploited \in Nat
    BY DEF Measured
  <2>5. (IF b.eol = "true" THEN 2000 ELSE 0) \in Nat
    OBVIOUS
  <2>6. rest \in Nat
    BY <2>3, <2>4, <2>5
  <2>7. V!Penalty(b) = 2000 * b.critical + 500 * b.high + rest
    BY <2>3, <2>4, <2>5 DEF V!Penalty
  <2>8. V!Penalty(a) = 2000 * a.critical + 500 * a.high + rest
    BY <2>1, <2>2, <2>3, <2>4, <2>5 DEF V!Penalty
  <2> HIDE DEF rest
  <2> QED BY <2>1, <2>4, <2>6, <2>7, <2>8
<1>3. m + 100 <= n /\ n <= 10000
  <2>1. V!Bonus(a) \in 0..400 /\ V!Bonus(b) \in 0..400
    BY BonusIsBounded
  <2> DEFINE i == V!Base - V!Penalty(a) + V!Bonus(a)
             j == V!Base - V!Penalty(b) + V!Bonus(b)
  <2>2. i \in Int /\ j \in Int /\ i + 100 <= j /\ j <= 10000
    <3> DEFINE p == V!Penalty(a)
               q == V!Penalty(b)
               c == V!Bonus(a)
               d == V!Bonus(b)
    <3>1. p \in Nat /\ q \in Nat /\ p >= q + 500 /\ c \in 0..400 /\ d \in 0..400
      BY <1>1, <1>2, <2>1
    <3>2. i = 9600 - p + c /\ j = 9600 - q + d
      BY DEF V!Base
    <3> HIDE DEF i, j, p, q, c, d
    <3> QED BY <3>1, <3>2
  <2>3. m = 10 * ((i + 5) \div 10) /\ n = 10 * ((j + 5) \div 10)
    BY DEF V!Rounded
  <2> HIDE DEF i, j, m, n
  <2>4. \A z \in Int : z \div 10 \in Int /\ 10 * (z \div 10) <= z /\ z < 10 * (z \div 10) + 10
    OBVIOUS
  <2> DEFINE k == (i + 5) \div 10
             l == (j + 5) \div 10
  <2>5. /\ k \in Int /\ 10 * k <= i + 5 /\ i + 5 < 10 * k + 10
        /\ l \in Int /\ 10 * l <= j + 5 /\ j + 5 < 10 * l + 10
    BY <2>2, <2>4
  <2>6. m = 10 * k /\ n = 10 * l
    BY <2>3
  <2> HIDE DEF k, l
  <2> QED BY <2>2, <2>5, <2>6
<1> HIDE DEF m, n
<1> QED BY <1>1, <1>3

\* The unverified never outrank the measured, nor the dirtier the cleaner.
LEMMA TheMeasuredComeFirst ==
  ASSUME NEW a, NEW b, Measured(a), Measured(b)
  PROVE  V!MeasuredFirst(a, b)
<1>1. V!Confidence(a) \in 0..3 /\ V!Confidence(b) \in 0..3
  BY ConfidenceIsALevel
<1>2. V!Score(a) \in Int /\ V!Score(b) \in Int
  BY ScoreClips
<1> DEFINE x == V!RankingKey(a)
           y == V!RankingKey(b)
<1>3. /\ x[1] = V!Confidence(a) /\ x[2] = V!Score(a) /\ DOMAIN x = 1..4
      /\ y[1] = V!Confidence(b) /\ y[2] = V!Score(b)
  BY DEF V!RankingKey
<1>4. V!Outranks(a, b) <=> \E i \in DOMAIN x : x[i] > y[i] /\ \A j \in 1..(i - 1) : x[j] = y[j]
  BY DEF V!Outranks
<1> HIDE DEF x, y
<1>5. ASSUME ~a.verified, b.verified PROVE ~V!Outranks(a, b)
  <2>1. x[1] \in Int /\ y[1] \in Int /\ x[1] < y[1]
    BY <1>3, <1>5, ConfidenceIsALevel
  <2>2. \A i \in 1..4 : i # 1 => 1 \in 1..(i - 1)
    OBVIOUS
  <2> QED BY <1>3, <1>4, <2>1, <2>2
<1>6. ASSUME V!Dirtier(a, b), V!Score(b) > 0, V!Confidence(a) = V!Confidence(b) PROVE ~V!Outranks(a, b)
  <2>1. x[1] \in Int /\ x[1] = y[1] /\ x[2] \in Int /\ y[2] \in Int /\ x[2] < y[2]
    BY <1>1, <1>2, <1>3, <1>6, DirtierScoresLower
  <2>2. \A i \in 1..4 : i # 1 /\ i # 2 => 2 \in 1..(i - 1)
    OBVIOUS
  <2> QED BY <1>3, <1>4, <2>1, <2>2
<1> QED BY <1>5, <1>6 DEF V!MeasuredFirst

\* Who is ready has none of the blockers, each of which denies one piece of evidence.
LEMMA ReadinessIsEarned ==
  ASSUME NEW a, Measured(a)
  PROVE  V!ReadyIsEarned(a)
<1> SUFFICES ASSUME V!Ready(a)
             PROVE  /\ a.verified /\ a.critical = 0 /\ a.high = 0 /\ a.eol # "true"
                    /\ a.tag # "false" /\ (a.digest \/ a.tag = "true") /\ a.second # "MATERIAL"
  BY DEF V!ReadyIsEarned
<1>1. /\ a.verified /\ ~(a.critical > 0) /\ ~(a.high > 0) /\ a.eol # "true"
      /\ ~(V!Confidence(a) < 2)
  BY DEF V!Ready, V!Blockers
<1>2. a.critical = 0 /\ a.high = 0
  BY <1>1 DEF Measured
<1>3. V!Confidence(a) # 1
  BY <1>1
<1>4. ~(a.tag = "false" \/ a.second = "MATERIAL") /\ ~(~a.digest /\ a.tag # "true")
  BY <1>1, <1>3 DEF V!Confidence
<1> QED BY <1>1, <1>2, <1>4

-----------------------------------------------------------------------------
(***************************************************************************)
(* The plan of scans (scan_plan.py).                                       *)
(***************************************************************************)
\* Python's order of tuples is strict and total.
LEMMA TuplesAreOrdered ==
  ASSUME NEW x \in Seq(Int), NEW y \in Seq(Int), NEW z \in Seq(Int)
  PROVE  /\ ~S!Before(x, x)
         /\ S!Before(x, y) /\ S!Before(y, z) => S!Before(x, z)
         /\ x = y \/ S!Before(x, y) \/ S!Before(y, x)
<1>1. /\ Len(x) \in Nat /\ DOMAIN x = 1..Len(x) /\ \A i \in DOMAIN x : x[i] \in Int
      /\ Len(y) \in Nat /\ DOMAIN y = 1..Len(y) /\ \A i \in DOMAIN y : y[i] \in Int
      /\ Len(z) \in Nat /\ DOMAIN z = 1..Len(z) /\ \A i \in DOMAIN z : z[i] \in Int
  OBVIOUS
<1>2. ~S!Before(x, x)
  BY <1>1 DEF S!Before
<1>3. ASSUME S!Before(x, y), S!Before(y, z) PROVE S!Before(x, z)
  <2>1. PICK i \in DOMAIN y : (\A j \in 1..(i - 1) : j \in DOMAIN x /\ x[j] = y[j]) /\ (i \in DOMAIN x => x[i] < y[i])
    BY <1>3 DEF S!Before
  <2>2. PICK k \in DOMAIN z : (\A j \in 1..(k - 1) : j \in DOMAIN y /\ y[j] = z[j]) /\ (k \in DOMAIN y => y[k] < z[k])
    BY <1>3 DEF S!Before
  <2>3. i \in Int /\ k \in Int /\ i >= 1 /\ k >= 1
    BY <1>1
  <2>4. CASE i < k
    <3>1. i \in 1..(k - 1)
      BY <2>3, <2>4
    <3>2. i \in DOMAIN z /\ y[i] = z[i]
      BY <1>1, <2>2, <2>3, <3>1
    <3>3. \A j \in 1..(i - 1) : j \in 1..(k - 1)
      BY <2>3, <2>4
    <3>4. \A j \in 1..(i - 1) : j \in DOMAIN x /\ x[j] = z[j]
      BY <2>1, <2>2, <3>3
    <3> QED BY <2>1, <3>2, <3>4 DEF S!Before
  <2>5. CASE i = k
    <3>1. \A j \in 1..(k - 1) : j \in DOMAIN x /\ x[j] = z[j]
      BY <2>1, <2>2, <2>5
    <3>2. k \in DOMAIN x => x[k] < z[k]
      BY <1>1, <2>1, <2>2, <2>5
    <3> QED BY <3>1, <3>2 DEF S!Before
  <2>6. CASE k < i
    <3>1. k \in 1..(i - 1) /\ k \in DOMAIN y
      BY <1>1, <2>3, <2>6
    <3>2. x[k] = y[k] /\ y[k] < z[k]
      BY <2>1, <2>2, <3>1
    <3>3. \A j \in 1..(k - 1) : j \in 1..(i - 1)
      BY <2>3, <2>6
    <3>4. \A j \in 1..(k - 1) : j \in DOMAIN x /\ x[j] = z[j]
      BY <2>1, <2>2, <3>3
    <3> QED BY <3>2, <3>4 DEF S!Before
  <2> QED BY <2>3, <2>4, <2>5, <2>6
<1>4. ASSUME x # y PROVE S!Before(x, y) \/ S!Before(y, x)
  <2> DEFINE apart == {i \in Nat \ {0} : \/ i \in DOMAIN x /\ i \notin DOMAIN y
                                         \/ i \notin DOMAIN x /\ i \in DOMAIN y
                                         \/ i \in DOMAIN x /\ i \in DOMAIN y /\ x[i] # y[i]}
  <2>1. apart # {}
    <3> SUFFICES ASSUME apart = {} PROVE FALSE
      OBVIOUS
    <3>1. \A i \in Nat \ {0} : (i \in DOMAIN x <=> i \in DOMAIN y) /\ (i \in DOMAIN x => x[i] = y[i])
      OBVIOUS
    <3>2. DOMAIN x = DOMAIN y
      <4>1. \A i \in 1..Len(x) : i \in Nat \ {0}
        BY <1>1
      <4>2. \A i \in 1..Len(y) : i \in Nat \ {0}
        BY <1>1
      <4> QED BY <1>1, <3>1, <4>1, <4>2
    <3>3. \A i \in DOMAIN x : x[i] = y[i]
      BY <1>1, <3>1
    <3> QED BY <1>4, <3>2, <3>3
  <2>2. PICK i \in apart : \A j \in apart : i <= j
    <3>1. apart \in SUBSET Nat
      OBVIOUS
    <3> QED BY <2>1, <3>1, LeastIsIn
  <2>3. \A j \in 1..(i - 1) : (j \in DOMAIN x <=> j \in DOMAIN y) /\ (j \in DOMAIN x => x[j] = y[j])
    <3> TAKE j \in 1..(i - 1)
    <3>1. j \in Nat \ {0} /\ ~(i <= j)
      OBVIOUS
    <3> QED BY <2>2, <3>1
  <2>4. i \in Nat \ {0}
    OBVIOUS
  <2>5. CASE i \in DOMAIN x
    <3>1. \A j \in 1..(i - 1) : j \in DOMAIN x
      BY <1>1, <2>4, <2>5
    <3>2. CASE i \in DOMAIN y
      <4>1. x[i] \in Int /\ y[i] \in Int /\ x[i] # y[i]
        BY <1>1, <2>2, <2>5, <3>2
      <4>2. CASE x[i] < y[i]
        BY <2>3, <3>1, <3>2, <4>2 DEF S!Before
      <4>3. CASE y[i] < x[i]
        BY <2>3, <2>5, <3>1, <4>3 DEF S!Before
      <4> QED BY <4>1, <4>2, <4>3
    <3>3. CASE i \notin DOMAIN y
      BY <2>3, <2>5, <3>1, <3>3 DEF S!Before
    <3> QED BY <3>2, <3>3
  <2>6. CASE i \notin DOMAIN x
    <3>1. i \in DOMAIN y
      BY <2>2, <2>6
    <3>2. \A j \in 1..(i - 1) : j \in DOMAIN y
      BY <1>1, <2>4, <3>1
    <3> QED BY <2>3, <2>6, <3>1, <3>2 DEF S!Before
  <2> QED BY <2>5, <2>6
<1> QED BY <1>2, <1>3, <1>4

-----------------------------------------------------------------------------
\* Tags as a plan is given them.
Tags(tags) ==
  /\ \A t \in tags : t.version \in Seq(Nat) /\ t.published \in Int /\ t.name \in Int
  /\ \A s, t \in tags : s.name = t.name => s = t


\* The orders of a plan as sets of pairs, and that they are orders.
PreferredIn(set) == {p \in set \X set : S!Preferred(p[1], p[2])}
LEMMA PreferenceOrders ==
  ASSUME NEW tags, Tags(tags), NEW set \in SUBSET tags
  PROVE  Orders(PreferredIn(set), set)
<1> DEFINE key(t) == <<IF t.official THEN 0 ELSE 1, -t.published, t.name>>
<1>1. \A t \in set : key(t) \in Seq(Int) /\ key(t)[3] = t.name
  BY DEF Tags
<1>2. \A s, t \in set : <<s, t>> \in PreferredIn(set) <=> S!Before(key(s), key(t))
  BY DEF PreferredIn, S!Preferred
<1>3. \A s, t \in set : key(s) = key(t) => s = t
  BY <1>1 DEF Tags
<1> HIDE DEF key
<1>4. \A s \in set : <<s, s>> \notin PreferredIn(set)
  BY <1>1, <1>2, TuplesAreOrdered
<1>5. ASSUME NEW r \in set, NEW s \in set, NEW t \in set, <<r, s>> \in PreferredIn(set), <<s, t>> \in PreferredIn(set)
      PROVE <<r, t>> \in PreferredIn(set)
  BY <1>1, <1>2, <1>5, TuplesAreOrdered
<1>6. ASSUME NEW s \in set, NEW t \in set, s # t
      PROVE <<s, t>> \in PreferredIn(set) \/ <<t, s>> \in PreferredIn(set)
  <2>1. key(s) \in Seq(Int) /\ key(t) \in Seq(Int) /\ key(s) # key(t)
    BY <1>1, <1>3, <1>6
  <2>2. S!Before(key(s), key(t)) \/ S!Before(key(t), key(s))
    BY <2>1, TuplesAreOrdered
  <2> QED BY <1>2, <2>2
<1> QED BY <1>4, <1>5, <1>6 DEF Orders

\* ScanPlan counts with its own instance of FiniteSets.
LEMMA PlansCountAlike ==
  ASSUME NEW set
  PROVE  S!Cardinality(set) = Cardinality(set)
BY DEF S!Cardinality, Cardinality

\* Who is ahead of a tag by preference.
LEMMA PreferredAhead ==
  ASSUME NEW set, NEW t \in set
  PROVE  S!Cardinality({s \in set : S!Preferred(s, t)}) = Place(PreferredIn(set), set, t)
<1>1. {s \in set : S!Preferred(s, t)} = Ahead(PreferredIn(set), set, t)
  BY DEF Ahead, PreferredIn
<1> QED BY <1>1, PlansCountAlike DEF Place

\* The first of some tags is one of them, preferred to all others.
LEMMA FirstIsIn ==
  ASSUME NEW tags, Tags(tags), NEW set \in SUBSET tags, IsFiniteSet(set), set # {}
  PROVE  S!First(set) \in set /\ Place(PreferredIn(set), set, S!First(set)) = 0
<1>1. Orders(PreferredIn(set), set)
  BY PreferenceOrders
<1>2. PICK t \in set : \A s \in set : s # t => <<t, s>> \in PreferredIn(set)
  BY <1>1, OneIsFirst
<1>3. \A s \in set \ {t} : S!Preferred(t, s)
  BY <1>2 DEF PreferredIn
<1>4. S!First(set) \in set /\ \A s \in set \ {S!First(set)} : S!Preferred(S!First(set), s)
  BY <1>3 DEF S!First
<1> DEFINE f == S!First(set)
<1>5. \A s \in set : s # f => <<f, s>> \in PreferredIn(set)
  BY <1>4 DEF PreferredIn
<1> HIDE DEF f
<1>6. \A s \in set : ~(<<s, f>> \in PreferredIn(set))
  <2> TAKE s \in set
  <2>1. f \in set
    BY <1>4 DEF f
  <2>2. CASE s = f
    BY <1>1, <2>1, <2>2 DEF Orders
  <2>3. CASE s # f
    <3> SUFFICES ASSUME <<s, f>> \in PreferredIn(set) PROVE FALSE
      OBVIOUS
    <3>1. <<f, s>> \in PreferredIn(set)
      BY <1>5, <2>3
    <3>2. <<f, f>> \in PreferredIn(set)
      BY <1>1, <2>1, <3>1 DEF Orders
    <3> QED BY <1>1, <2>1, <3>2 DEF Orders
  <2> QED BY <2>2, <2>3
<1>7. Ahead(PreferredIn(set), set, f) = {}
  BY <1>6 DEF Ahead
<1>8. Place(PreferredIn(set), set, f) = 0
  BY <1>7, FS_EmptySet DEF Place
<1> QED BY <1>4, <1>8 DEF f

\* A tag that gives way does so to one of its line that does not.
NewerIn(set) == {p \in set \X set : S!Newer(p[1], p[2])}
\* A line in which a tag gave way keeps one that did not.
LEMMA TheNewestWins ==
  ASSUME NEW tags, Tags(tags), IsFiniteSet(tags), NEW t \in S!Superseded(tags)
  PROVE  \E s \in tags \ S!Superseded(tags) : S!SameLine(s, t)
<1> DEFINE line == {s \in tags : S!SameLine(s, t)}
<1>1. IsFiniteSet(line) /\ line # {}
  <2>1. line \in SUBSET tags
    OBVIOUS
  <2>2. line # {}
    BY DEF S!Superseded
  <2> QED BY <2>1, <2>2, FS_Subset
<1>2. \A s \in line : s.version \in Seq(Int) /\ s.name \in Int
  BY DEF Tags
<1>3. \A s, u \in line : s.name = u.name => s = u
  BY DEF Tags
<1>4. Orders(NewerIn(line), line)
  <2> HIDE DEF line
  <2>1. \A s, u \in line : <<s, u>> \in NewerIn(line) <=>
          S!Before(u.version, s.version) \/ (s.version = u.version /\ s.name < u.name)
    BY DEF NewerIn, S!Newer
  <2>2. ASSUME NEW s \in line PROVE <<s, s>> \notin NewerIn(line)
    BY <1>2, <2>1, TuplesAreOrdered
  <2>3. ASSUME NEW q \in line, NEW s \in line, NEW u \in line, <<q, s>> \in NewerIn(line), <<s, u>> \in NewerIn(line)
        PROVE  <<q, u>> \in NewerIn(line)
    <3>1. q.version \in Seq(Int) /\ s.version \in Seq(Int) /\ u.version \in Seq(Int)
          /\ q.name \in Int /\ s.name \in Int /\ u.name \in Int
      BY <1>2
    <3>2. S!Before(u.version, s.version) /\ S!Before(s.version, q.version) => S!Before(u.version, q.version)
      BY <3>1, TuplesAreOrdered
    <3> QED BY <2>1, <2>3, <3>1, <3>2
  <2>4. ASSUME NEW s \in line, NEW u \in line, s # u PROVE <<s, u>> \in NewerIn(line) \/ <<u, s>> \in NewerIn(line)
    <3>1. s.version \in Seq(Int) /\ u.version \in Seq(Int) /\ s.name \in Int /\ u.name \in Int /\ s.name # u.name
      BY <1>2, <1>3, <2>4
    <3>2. s.version = u.version \/ S!Before(s.version, u.version) \/ S!Before(u.version, s.version)
      BY <3>1, TuplesAreOrdered
    <3> QED BY <2>1, <3>1, <3>2
  <2> QED BY <2>2, <2>3, <2>4 DEF Orders
<1>5. PICK w \in line : \A s \in line : s # w => <<w, s>> \in NewerIn(line)
  BY <1>1, <1>4, OneIsFirst
<1>6. w \in tags /\ S!SameLine(w, t) /\ w.version # <<>>
  BY DEF S!SameLine
<1>7. w \notin S!Superseded(tags)
  <2> SUFFICES ASSUME NEW s \in tags, S!SameLine(s, w), S!Newer(s, w) PROVE FALSE
    BY DEF S!Superseded
  <2>1. s \in line
    BY <1>6 DEF S!SameLine
  <2>2. <<s, w>> \in NewerIn(line)
    BY <2>1 DEF NewerIn
  <2> HIDE DEF line
  <2>3. s # w => <<w, w>> \in NewerIn(line)
    BY <1>4, <1>5, <2>1, <2>2 DEF Orders
  <2> QED BY <1>4, <2>2, <2>3 DEF Orders
<1> QED BY <1>6, <1>7

-----------------------------------------------------------------------------
\* The turns of a version's tags: one place for each.
TurnIn(line) == {p \in line \X line : S!Before(S!Turn(p[1], line), S!Turn(p[2], line))}
\* The turns of a line: each group by itself, and the leaders of the groups first.
GroupOf(t, line) == PreferredIn(S!Group(t, line))
LEMMA TurnsAreApart ==
  ASSUME NEW tags, Tags(tags), NEW line \in SUBSET tags, IsFiniteSet(line)
  PROVE  /\ \A t \in line : /\ S!Turn(t, line) \in Seq(Int) /\ Len(S!Turn(t, line)) = 2
                            /\ S!Turn(t, line)[1] = Place(GroupOf(t, line), S!Group(t, line), t)
                            /\ S!Leader(t, line) \in S!Group(t, line)
                            /\ S!Turn(S!Leader(t, line), line)[1] = 0
         /\ \A s, t \in line : S!Turn(s, line) = S!Turn(t, line) => s = t
<1> DEFINE leaders == {S!Leader(s, line) : s \in line}
<1>1. ASSUME NEW t \in line
      PROVE  S!Group(t, line) \in SUBSET tags /\ t \in S!Group(t, line) /\ IsFiniteSet(S!Group(t, line))
  <2>1. S!Group(t, line) \in SUBSET line /\ t \in S!Group(t, line)
    BY DEF S!Group
  <2> QED BY <2>1, FS_Subset
<1>2. ASSUME NEW t \in line
      PROVE  /\ S!Leader(t, line) \in S!Group(t, line) /\ S!Leader(t, line) \in line
             /\ Place(GroupOf(t, line), S!Group(t, line), S!Leader(t, line)) = 0
  <2>1. S!Leader(t, line) \in S!Group(t, line) /\ Place(GroupOf(t, line), S!Group(t, line), S!Leader(t, line)) = 0
    BY <1>1, FirstIsIn DEF S!Leader, GroupOf
  <2> QED BY <2>1 DEF S!Group
<1>3. leaders \in SUBSET tags /\ IsFiniteSet(leaders) /\ Orders(PreferredIn(leaders), leaders)
  <2>1. leaders \in SUBSET line
    BY <1>2
  <2> HIDE DEF leaders
  <2> QED BY <2>1, FS_Subset, PreferenceOrders
<1>4. ASSUME NEW t \in line
      PROVE  /\ S!Turn(t, line) = <<Place(GroupOf(t, line), S!Group(t, line), t),
                                    Place(PreferredIn(leaders), leaders, S!Leader(t, line))>>
             /\ Place(GroupOf(t, line), S!Group(t, line), t) \in Nat
             /\ Place(PreferredIn(leaders), leaders, S!Leader(t, line)) \in Nat
  <2>1. S!Cardinality({s \in S!Group(t, line) : S!Preferred(s, t)}) = Place(GroupOf(t, line), S!Group(t, line), t)
    BY <1>1, PreferredAhead DEF GroupOf
  <2>2. S!Leader(t, line) \in leaders
    OBVIOUS
  <2>3. S!Turn(t, line) = <<S!Cardinality({s \in S!Group(t, line) : S!Preferred(s, t)}),
                            S!Cardinality({s \in leaders : S!Preferred(s, S!Leader(t, line))})>>
    BY DEF S!Turn
  <2> HIDE DEF leaders
  <2>4. S!Cardinality({s \in leaders : S!Preferred(s, S!Leader(t, line))})
          = Place(PreferredIn(leaders), leaders, S!Leader(t, line))
    BY <2>2, PreferredAhead
  <2>5. Place(PreferredIn(leaders), leaders, S!Leader(t, line)) \in Nat
    BY <1>3, <2>2, EachHasItsPlace
  <2>6. Orders(GroupOf(t, line), S!Group(t, line))
    BY <1>1, PreferenceOrders DEF GroupOf
  <2>7. Place(GroupOf(t, line), S!Group(t, line), t) \in Nat
    BY <1>1, <2>6, EachHasItsPlace
  <2> QED BY <2>1, <2>3, <2>4, <2>5, <2>7
<1>5. ASSUME NEW t \in line PROVE S!Turn(S!Leader(t, line), line)[1] = 0
  <2>1. S!Group(S!Leader(t, line), line) = S!Group(t, line)
    BY <1>2 DEF S!Group
  <2>2. GroupOf(S!Leader(t, line), line) = GroupOf(t, line)
    BY <2>1 DEF GroupOf
  <2>3. S!Turn(S!Leader(t, line), line)[1]
          = Place(GroupOf(S!Leader(t, line), line), S!Group(S!Leader(t, line), line), S!Leader(t, line))
    <3> DEFINE u == S!Leader(t, line)
               x == Place(GroupOf(u, line), S!Group(u, line), u)
               y == Place(PreferredIn(leaders), leaders, S!Leader(u, line))
    <3>1. u \in line
      BY <1>2
    <3> HIDE DEF u, leaders
    <3>2. S!Turn(u, line) = <<x, y>>
      BY <1>4, <3>1
    <3> HIDE DEF x, y
    <3>3. S!Turn(u, line)[1] = x
      BY <3>2
    <3> QED BY <3>3 DEF u, x
  <2> QED BY <1>2, <2>1, <2>2, <2>3
<1>6. ASSUME NEW s \in line, NEW t \in line, S!Turn(s, line) = S!Turn(t, line) PROVE s = t
  <2>1. /\ Place(PreferredIn(leaders), leaders, S!Leader(s, line)) = Place(PreferredIn(leaders), leaders, S!Leader(t, line))
        /\ Place(GroupOf(s, line), S!Group(s, line), s) = Place(GroupOf(t, line), S!Group(t, line), t)
    <3> HIDE DEF leaders
    <3> QED BY <1>4, <1>6
  <2>2. S!Leader(s, line) \in leaders /\ S!Leader(t, line) \in leaders
    OBVIOUS
  <2>3. S!Leader(s, line) = S!Leader(t, line)
    <3> HIDE DEF leaders
    <3> QED BY <1>3, <2>1, <2>2, EachHasItsPlace
  <2>4. S!Group(s, line) = S!Group(t, line)
    <3>1. S!Leader(s, line) \in S!Group(s, line) /\ S!Leader(s, line) \in S!Group(t, line)
      BY <1>2, <2>3
    <3>2. s.family = t.family /\ s.dev = t.dev
      BY <3>1 DEF S!Group
    <3> QED BY <3>2 DEF S!Group
  <2>5. s \in S!Group(t, line) /\ t \in S!Group(t, line)
    BY <1>1, <2>4
  <2>6. Orders(GroupOf(t, line), S!Group(t, line))
    BY <1>1, PreferenceOrders DEF GroupOf
  <2>7. Place(GroupOf(t, line), S!Group(t, line), s) = Place(GroupOf(t, line), S!Group(t, line), t)
    BY <2>1, <2>4 DEF GroupOf
  <2> QED BY <1>1, <2>5, <2>6, <2>7, EachHasItsPlace
<1>7. ASSUME NEW t \in line
      PROVE  S!Turn(t, line) \in Seq(Int) /\ Len(S!Turn(t, line)) = 2
             /\ S!Turn(t, line)[1] = Place(GroupOf(t, line), S!Group(t, line), t)
  <2>1. ASSUME NEW x \in Nat, NEW y \in Nat PROVE <<x, y>> \in Seq(Int) /\ Len(<<x, y>>) = 2 /\ <<x, y>>[1] = x
    OBVIOUS
  <2> DEFINE x == Place(GroupOf(t, line), S!Group(t, line), t)
             y == Place(PreferredIn(leaders), leaders, S!Leader(t, line))
  <2>2. S!Turn(t, line) = <<x, y>> /\ x \in Nat /\ y \in Nat
    BY <1>4
  <2> HIDE DEF x, y
  <2>3. S!Turn(t, line) \in Seq(Int) /\ Len(S!Turn(t, line)) = 2 /\ S!Turn(t, line)[1] = x
    BY <2>1, <2>2
  <2> QED BY <2>3 DEF x
<1> QED BY <1>2, <1>5, <1>6, <1>7

\* The turns order a line.
LEMMA TurnsAreOrdered ==
  ASSUME NEW tags, Tags(tags), NEW line \in SUBSET tags, IsFiniteSet(line)
  PROVE  Orders(TurnIn(line), line)
<1>1. /\ \A t \in line : S!Turn(t, line) \in Seq(Int)
      /\ \A s, t \in line : S!Turn(s, line) = S!Turn(t, line) => s = t
  BY TurnsAreApart
<1>2. \A s, t \in line : <<s, t>> \in TurnIn(line) <=> S!Before(S!Turn(s, line), S!Turn(t, line))
  BY DEF TurnIn
<1>3. \A t \in line : <<t, t>> \notin TurnIn(line)
  BY <1>1, <1>2, TuplesAreOrdered
<1>4. ASSUME NEW r \in line, NEW s \in line, NEW t \in line, <<r, s>> \in TurnIn(line), <<s, t>> \in TurnIn(line)
      PROVE  <<r, t>> \in TurnIn(line)
  BY <1>1, <1>2, <1>4, TuplesAreOrdered
<1>5. ASSUME NEW s \in line, NEW t \in line, s # t PROVE <<s, t>> \in TurnIn(line) \/ <<t, s>> \in TurnIn(line)
  <2>1. S!Turn(s, line) \in Seq(Int) /\ S!Turn(t, line) \in Seq(Int) /\ S!Turn(s, line) # S!Turn(t, line)
    BY <1>1, <1>5
  <2>2. S!Before(S!Turn(s, line), S!Turn(t, line)) \/ S!Before(S!Turn(t, line), S!Turn(s, line))
    BY <2>1, TuplesAreOrdered
  <2> QED BY <1>2, <2>2
<1> QED BY <1>3, <1>4, <1>5 DEF Orders

\* The round of a tag is its place among the turns of its version.
LEMMA RoundsArePlaces ==
  ASSUME NEW tags, Tags(tags), IsFiniteSet(tags), NEW t \in tags
  PROVE  LET line == S!Line(t, tags) IN
           /\ line \in SUBSET tags /\ IsFiniteSet(line) /\ t \in line
           /\ Orders(TurnIn(line), line)
           /\ S!Round(t, tags) = Place(TurnIn(line), line, t) /\ S!Round(t, tags) \in Nat
<1> DEFINE line == S!Line(t, tags)
<1>1. line \in SUBSET tags /\ t \in line
  BY DEF S!Line
<1>2. IsFiniteSet(line)
  BY <1>1, FS_Subset
<1>3. S!Round(t, tags) = S!Cardinality({s \in line : S!Before(S!Turn(s, line), S!Turn(t, line))})
  BY DEF S!Round
<1> HIDE DEF line
<1>4. Orders(TurnIn(line), line)
  BY <1>1, <1>2, TurnsAreOrdered
<1>5. {s \in line : S!Before(S!Turn(s, line), S!Turn(t, line))} = Ahead(TurnIn(line), line, t)
  BY <1>1 DEF Ahead, TurnIn
<1>6. S!Round(t, tags) = Place(TurnIn(line), line, t)
  BY <1>3, <1>5, PlansCountAlike DEF Place
<1>7. Place(TurnIn(line), line, t) \in Nat
  BY <1>1, <1>2, <1>4, EachHasItsPlace
<1> QED BY <1>1, <1>2, <1>4, <1>6, <1>7 DEF line

RepresentativeIn(tags) == {p \in tags \X tags : S!Representative(p[1], p[2], tags)}
\* Rounds, and within a round the heads of the lines, order the tags.
LEMMA RepresentativesAreOrdered ==
  ASSUME NEW tags, Tags(tags), IsFiniteSet(tags)
  PROVE  Orders(RepresentativeIn(tags), tags)
<1> DEFINE head(t) == S!First(S!Line(t, tags))
           heads == {head(t) : t \in tags}
           Pref == PreferredIn(heads)
<1>1. \A t \in tags : S!Round(t, tags) \in Nat
  BY RoundsArePlaces
<1>2. \A t \in tags : head(t) \in S!Line(t, tags)
  <2> TAKE t \in tags
  <2>1. S!Line(t, tags) \in SUBSET tags /\ IsFiniteSet(S!Line(t, tags)) /\ S!Line(t, tags) # {}
    BY RoundsArePlaces
  <2> QED BY <2>1, FirstIsIn
<1>3. \A t \in tags : head(t) \in heads
  OBVIOUS
<1>4. Orders(Pref, heads)
  <2>1. heads \in SUBSET tags
    BY <1>2 DEF S!Line
  <2> HIDE DEF heads
  <2> QED BY <2>1, PreferenceOrders
<1>5. \A s, t \in tags : <<head(s), head(t)>> \in Pref <=> S!Preferred(head(s), head(t))
  <2> HIDE DEF heads, head
  <2> QED BY <1>3 DEF PreferredIn
<1>6. \A s, t \in tags : <<s, t>> \in RepresentativeIn(tags) <=>
        \/ S!Round(s, tags) < S!Round(t, tags)
        \/ S!Round(s, tags) = S!Round(t, tags) /\ <<head(s), head(t)>> \in Pref
  <2> HIDE DEF Pref
  <2> QED BY <1>5 DEF RepresentativeIn, S!Representative
<1>7. \A s, t \in tags : S!Round(s, tags) = S!Round(t, tags) /\ head(s) = head(t) => s = t
  <2> SUFFICES ASSUME NEW s \in tags, NEW t \in tags, S!Round(s, tags) = S!Round(t, tags), head(s) = head(t)
               PROVE  s = t
    OBVIOUS
  <2>1. S!Line(s, tags) = S!Line(t, tags)
    BY <1>2 DEF S!Line
  <2> DEFINE line == S!Line(t, tags)
  <2>2. /\ IsFiniteSet(line) /\ Orders(TurnIn(line), line) /\ s \in line /\ t \in line
        /\ Place(TurnIn(line), line, s) = Place(TurnIn(line), line, t)
    BY <2>1, RoundsArePlaces
  <2> HIDE DEF line
  <2> QED BY <2>2, EachHasItsPlace
<1> HIDE DEF Pref, heads, head
<1>8. \A t \in tags : <<t, t>> \notin RepresentativeIn(tags)
  <2> TAKE t \in tags
  <2>1. S!Round(t, tags) \in Nat /\ head(t) \in heads
    BY <1>1, <1>3
  <2>2. <<head(t), head(t)>> \notin Pref
    BY <1>4, <2>1 DEF Orders
  <2> QED BY <1>6, <2>1, <2>2
<1>9. ASSUME NEW r \in tags, NEW s \in tags, NEW t \in tags,
             <<r, s>> \in RepresentativeIn(tags), <<s, t>> \in RepresentativeIn(tags)
      PROVE  <<r, t>> \in RepresentativeIn(tags)
  <2>1. /\ S!Round(r, tags) \in Nat /\ S!Round(s, tags) \in Nat /\ S!Round(t, tags) \in Nat
        /\ head(r) \in heads /\ head(s) \in heads /\ head(t) \in heads
    BY <1>1, <1>3
  <2>2. <<head(r), head(s)>> \in Pref /\ <<head(s), head(t)>> \in Pref => <<head(r), head(t)>> \in Pref
    BY <1>4, <2>1 DEF Orders
  <2> QED BY <1>6, <1>9, <2>1, <2>2
<1>10. ASSUME NEW s \in tags, NEW t \in tags, s # t
       PROVE  <<s, t>> \in RepresentativeIn(tags) \/ <<t, s>> \in RepresentativeIn(tags)
  <2>1. /\ S!Round(s, tags) \in Nat /\ S!Round(t, tags) \in Nat
        /\ head(s) \in heads /\ head(t) \in heads
    BY <1>1, <1>3
  <2>2. S!Round(s, tags) = S!Round(t, tags) => <<head(s), head(t)>> \in Pref \/ <<head(t), head(s)>> \in Pref
    BY <1>4, <1>7, <1>10, <2>1 DEF Orders
  <2> QED BY <1>6, <2>1, <2>2
<1> QED BY <1>8, <1>9, <1>10 DEF Orders

-----------------------------------------------------------------------------
\* The order in which a plan spends its budget.
OrderIn(spread, tags) == IF spread THEN RepresentativeIn(tags) ELSE PreferredIn(tags)
MeasuresAll(tags, budget) == budget <= 0 \/ Cardinality(tags) <= budget

\* The plan in terms of the order in which the budget is spent.
SpentInOrder(p, found, budget, spread) ==
  LET tags == found \ p.excluded
      survivors == tags \ p.superseded
      order == OrderIn(spread, survivors)
  IN  /\ p.excluded \in SUBSET found
      /\ p.superseded = IF MeasuresAll(tags, budget) THEN {} ELSE S!Superseded(tags)
      /\ p.selected = IF MeasuresAll(tags, budget) THEN survivors
                      ELSE {t \in survivors : Place(order, survivors, t) < budget}
      /\ p.over = survivors \ p.selected
      /\ Orders(order, survivors)

\* A plan selects what comes first in its order, as far as the budget goes.
LEMMA PlanSpendsInOrder ==
  ASSUME NEW found, Tags(found), IsFiniteSet(found), NEW budget \in Int, NEW c, NEW spread \in BOOLEAN
  PROVE  SpentInOrder(S!Plan(found, budget, c, spread), found, budget, spread)
<1> DEFINE p == S!Plan(found, budget, c, spread)
           excluded == IF S!Active(c) THEN {t \in found : S!Excludes(c, t) # ""} ELSE {}
           tags == found \ excluded
           all == budget <= 0 \/ S!Cardinality(tags) <= budget
           old == IF all THEN {} ELSE S!Superseded(tags)
           survivors == tags \ old
           ahead(t) == {s \in survivors : IF spread THEN S!Representative(s, t, survivors) ELSE S!Preferred(s, t)}
           kept == IF all THEN survivors ELSE {t \in survivors : budget > S!Cardinality(ahead(t))}
           order == OrderIn(spread, survivors)
<1>1. p = [selected |-> kept, superseded |-> old, over |-> survivors \ kept, excluded |-> excluded]
  BY DEF S!Plan
<1>2. excluded \in SUBSET found
  OBVIOUS
<1>3. all <=> MeasuresAll(tags, budget)
  BY PlansCountAlike DEF MeasuresAll
<1> HIDE DEF excluded
<1>4. survivors \in SUBSET found /\ Tags(survivors) /\ IsFiniteSet(survivors)
  <2>1. survivors \in SUBSET found
    OBVIOUS
  <2> HIDE DEF survivors
  <2> QED BY <2>1, FS_Subset DEF Tags
<1> HIDE DEF all, old, survivors
<1>5. Orders(order, survivors)
  <2>1. Orders(RepresentativeIn(survivors), survivors)
    BY <1>4, RepresentativesAreOrdered
  <2>2. Orders(PreferredIn(survivors), survivors)
    BY <1>4, PreferenceOrders
  <2> QED BY <2>1, <2>2 DEF OrderIn
<1>6. ASSUME NEW t \in survivors PROVE S!Cardinality(ahead(t)) = Place(order, survivors, t) /\ Place(order, survivors, t) \in Nat
  <2>1. ahead(t) = Ahead(order, survivors, t)
    BY DEF Ahead, OrderIn, RepresentativeIn, PreferredIn
  <2> HIDE DEF ahead, order
  <2>2. S!Cardinality(ahead(t)) = Place(order, survivors, t)
    BY <2>1, PlansCountAlike DEF Place
  <2>3. Place(order, survivors, t) \in Nat
    BY <1>4, <1>5, EachHasItsPlace
  <2> QED BY <2>2, <2>3
<1>7. kept = IF all THEN survivors ELSE {t \in survivors : Place(order, survivors, t) < budget}
  <2> HIDE DEF ahead, order
  <2>1. \A t \in survivors : budget > S!Cardinality(ahead(t)) <=> Place(order, survivors, t) < budget
    BY <1>6
  <2> QED BY <2>1
<1> HIDE DEF kept
<1>8. p.selected = kept /\ p.superseded = old /\ p.over = survivors \ kept /\ p.excluded = excluded
  BY <1>1
<1>9. /\ found \ p.excluded = tags
      /\ tags \ p.superseded = survivors
      /\ p.superseded = IF all THEN {} ELSE S!Superseded(tags)
  BY <1>8 DEF old, survivors
<1> HIDE DEF p, tags, order
<1>10. /\ p.excluded \in SUBSET found
       /\ p.superseded = IF MeasuresAll(tags, budget) THEN {} ELSE S!Superseded(tags)
       /\ p.selected = IF MeasuresAll(tags, budget) THEN survivors
                       ELSE {t \in survivors : Place(order, survivors, t) < budget}
       /\ p.over = survivors \ p.selected
       /\ Orders(order, survivors)
  BY <1>2, <1>3, <1>5, <1>7, <1>8, <1>9
<1> QED BY <1>9, <1>10 DEF SpentInOrder, p, order

\* Nothing that was discovered disappears.
LEMMA EveryTagIsAccounted ==
  ASSUME NEW found, Tags(found), IsFiniteSet(found), NEW budget \in Int, NEW c, NEW spread \in BOOLEAN
  PROVE  S!EveryTagAccounted(found, budget, c, spread)
<1> DEFINE p == S!Plan(found, budget, c, spread)
           tags == found \ p.excluded
           survivors == tags \ p.superseded
           order == OrderIn(spread, survivors)
<1>1. /\ p.excluded \in SUBSET found
      /\ p.superseded = IF MeasuresAll(tags, budget) THEN {} ELSE S!Superseded(tags)
      /\ p.selected = IF MeasuresAll(tags, budget) THEN survivors
                      ELSE {t \in survivors : Place(order, survivors, t) < budget}
      /\ p.over = survivors \ p.selected
      /\ Orders(order, survivors)
  <2>1. SpentInOrder(p, found, budget, spread)
    BY PlanSpendsInOrder
  <2> HIDE DEF p
  <2> QED BY <2>1 DEF SpentInOrder
<1>2. p.superseded \in SUBSET tags
  BY <1>1 DEF S!Superseded
<1>3. p.selected \in SUBSET survivors
  BY <1>1
<1> DEFINE n == Cardinality(found)
           e == Cardinality(p.excluded)
           t0 == Cardinality(tags)
           o == Cardinality(p.superseded)
           v == Cardinality(survivors)
           s0 == Cardinality(p.selected)
           r == Cardinality(p.over)
           Accounted == /\ n = s0 + o + r + e
                        /\ budget > 0 => s0 <= budget
                        /\ p.over # {} => s0 = budget
                        /\ budget <= 0 \/ n - e <= budget => s0 = n - e
                        /\ \A t \in p.superseded :
                             \E s \in p.selected \cup p.over : S!SameLine(s, t)
<1> HIDE DEF p
<1>4. /\ n \in Nat /\ e \in Nat /\ t0 \in Nat /\ o \in Nat /\ v \in Nat /\ s0 \in Nat /\ r \in Nat
      /\ t0 = n - e /\ v = t0 - o /\ r = v - s0 /\ IsFiniteSet(tags) /\ IsFiniteSet(survivors)
  <2>1. IsFiniteSet(p.excluded) /\ IsFiniteSet(tags) /\ t0 = n - Cardinality(found \cap p.excluded)
    BY <1>1, FS_Subset, FS_Difference
  <2>2. found \cap p.excluded = p.excluded
    BY <1>1
  <2> HIDE DEF tags
  <2>3. IsFiniteSet(p.superseded) /\ IsFiniteSet(survivors) /\ v = t0 - Cardinality(tags \cap p.superseded)
    BY <1>2, <2>1, FS_Subset, FS_Difference
  <2>4. tags \cap p.superseded = p.superseded
    BY <1>2
  <2> HIDE DEF survivors
  <2>5. IsFiniteSet(p.selected) /\ IsFiniteSet(p.over) /\ r = v - Cardinality(survivors \cap p.selected)
    BY <1>1, <1>3, <2>3, FS_Subset, FS_Difference
  <2>6. survivors \cap p.selected = p.selected
    BY <1>3
  <2> QED BY <2>1, <2>2, <2>3, <2>4, <2>5, <2>6, FS_CardinalityType
<1>5. p.selected \cup p.superseded \cup p.over \cup p.excluded = found
  BY <1>1, <1>2, <1>3
<1>6. ASSUME MeasuresAll(tags, budget)
      PROVE  Accounted
  <2>1. p.superseded = {} /\ p.selected = survivors /\ p.over = {} /\ survivors = tags
    BY <1>1, <1>6
  <2>2. o = 0 /\ s0 = t0 /\ r = 0
    BY <2>1, FS_EmptySet
  <2>3. budget > 0 => t0 <= budget
    BY <1>4, <1>6 DEF MeasuresAll
  <2> HIDE DEF n, e, t0, o, v, s0, r
  <2>4. n = s0 + o + r + e /\ (budget > 0 => s0 <= budget) /\ s0 = n - e
    BY <1>4, <2>2, <2>3
  <2>5. p.over = {} /\ p.superseded = {}
    BY <2>1
  <2> QED BY <2>4, <2>5
<1>7. ASSUME ~MeasuresAll(tags, budget)
      PROVE  Accounted
  <2>1. budget \in Nat /\ budget > 0 /\ t0 > budget
    BY <1>4, <1>7 DEF MeasuresAll
  <2>2. s0 = IF budget < v THEN budget ELSE v
    <3>1. p.selected = {t \in survivors : Place(order, survivors, t) < budget}
      BY <1>1, <1>7
    <3> HIDE DEF survivors, order
    <3>2. Cardinality({t \in survivors : Place(order, survivors, t) < budget})
          = IF budget < Cardinality(survivors) THEN budget ELSE Cardinality(survivors)
      BY <1>1, <1>4, <2>1, TheBudgetIsSpent
    <3> QED BY <3>1, <3>2
  <2>3. p.over # {} => r # 0
    <3>1. IsFiniteSet(p.over)
      <4>1. p.over \in SUBSET survivors
        BY <1>1
      <4> HIDE DEF survivors
      <4> QED BY <1>4, <4>1, FS_Subset
    <3> QED BY <3>1, FS_EmptySet
  <2>4. \A t \in p.superseded : \E s \in p.selected \cup p.over : S!SameLine(s, t)
    <3>1. p.superseded = S!Superseded(tags) /\ p.selected \cup p.over = survivors
      BY <1>1, <1>3, <1>7
    <3>2. Tags(tags)
      BY DEF Tags
    <3> HIDE DEF tags
    <3> QED BY <1>4, <3>1, <3>2, TheNewestWins
  <2> HIDE DEF n, e, t0, o, v, s0, r
  <2>5. n = s0 + o + r + e /\ s0 <= budget /\ (r # 0 => s0 = budget) /\ ~(n - e <= budget)
    BY <1>4, <2>1, <2>2
  <2> QED BY <2>1, <2>3, <2>4, <2>5
<1>9. /\ n = s0 + o + r + e
      /\ budget > 0 => s0 <= budget
      /\ p.over # {} => s0 = budget
      /\ budget <= 0 \/ n - e <= budget => s0 = n - e
      /\ \A t \in p.superseded : \E s \in p.selected \cup p.over : S!SameLine(s, t)
  BY <1>6, <1>7 DEF Accounted
<1>10. S!Cardinality(found) = n /\ S!Cardinality(p.excluded) = e /\ S!Cardinality(p.superseded) = o
       /\ S!Cardinality(p.selected) = s0 /\ S!Cardinality(p.over) = r
  BY PlansCountAlike
<1> HIDE DEF n, e, o, s0, r
<1> QED BY <1>5, <1>9, <1>10 DEF S!EveryTagAccounted, p

\* The spread covers before it repeats.
LEMMA TheSpreadCovers ==
  ASSUME NEW found, Tags(found), IsFiniteSet(found), NEW budget \in Int, NEW c
  PROVE  S!SpreadCovers(found, budget, c)
<1> DEFINE p == S!Plan(found, budget, c, TRUE)
           tags == found \ p.excluded
           survivors == tags \ p.superseded
           order == RepresentativeIn(survivors)
           Of(major) == {t \in p.selected : S!Major(t) = major}
           round(t) == S!Round(t, survivors)
<1>1. /\ p.selected = IF MeasuresAll(tags, budget) THEN survivors
                      ELSE {t \in survivors : Place(order, survivors, t) < budget}
      /\ p.over = survivors \ p.selected
      /\ Orders(order, survivors)
  <2>1. SpentInOrder(p, found, budget, TRUE)
    BY PlanSpendsInOrder
  <2> HIDE DEF p
  <2> QED BY <2>1 DEF SpentInOrder, OrderIn
<1> HIDE DEF p
<1>2. IsFiniteSet(survivors) /\ Tags(survivors)
  <2>1. survivors \in SUBSET found
    OBVIOUS
  <2> HIDE DEF survivors
  <2> QED BY <2>1, FS_Subset DEF Tags
<1> HIDE DEF survivors
<1>3. p.selected \in SUBSET survivors /\ IsFiniteSet(p.selected)
  <2>1. p.selected \in SUBSET survivors
    BY <1>1
  <2> QED BY <1>2, <2>1, FS_Subset
<1>4. \A t \in survivors : round(t) \in Nat
  BY <1>2, RoundsArePlaces
<1>5. ASSUME NEW s \in survivors, NEW t \in p.selected, <<s, t>> \in order PROVE s \in p.selected
  <2>1. CASE MeasuresAll(tags, budget)
    BY <1>1, <2>1
  <2>2. CASE ~MeasuresAll(tags, budget)
    <3> HIDE DEF order
    <3>1. t \in survivors /\ Place(order, survivors, t) < budget
      BY <1>1, <1>3, <2>2
    <3>2. /\ Place(order, survivors, s) \in Nat /\ Place(order, survivors, t) \in Nat
          /\ Place(order, survivors, s) < Place(order, survivors, t)
      BY <1>1, <1>2, <1>5, <3>1, EachHasItsPlace
    <3>3. Place(order, survivors, s) < budget
      BY <3>1, <3>2
    <3> QED BY <1>1, <2>2, <3>3
  <2> QED BY <2>1, <2>2
<1>6. \A s, t \in survivors : round(s) < round(t) => <<s, t>> \in order
  BY DEF RepresentativeIn, S!Representative
<1>7. ASSUME NEW s \in p.selected, NEW t \in p.over PROVE round(s) <= round(t)
  <2>1. s \in survivors /\ t \in survivors /\ t \notin p.selected
    BY <1>1, <1>3
  <2>2. ~(round(t) < round(s))
    BY <1>5, <1>6, <2>1
  <2> QED BY <1>4, <2>1, <2>2
<1>8. ASSUME NEW t \in survivors
      PROVE  /\ S!Line(t, survivors) \in SUBSET survivors /\ IsFiniteSet(S!Line(t, survivors)) /\ t \in S!Line(t, survivors)
             /\ Orders(TurnIn(S!Line(t, survivors)), S!Line(t, survivors))
             /\ round(t) = Cardinality(Ahead(TurnIn(S!Line(t, survivors)), S!Line(t, survivors), t))
             /\ \A s \in S!Line(t, survivors) : S!Line(s, survivors) = S!Line(t, survivors)
  <2>1. \A s \in S!Line(t, survivors) : S!Line(s, survivors) = S!Line(t, survivors)
    BY DEF S!Line
  <2> QED BY <1>2, <2>1, RoundsArePlaces DEF Place
<1> HIDE DEF order
<1>9. ASSUME NEW t \in p.over, NEW s \in p.selected
      PROVE  Cardinality(Of(S!Major(s))) <= Cardinality(Of(S!Major(t))) + 1
  <2> DEFINE mine == Of(S!Major(s))
             yours == Of(S!Major(t))
  <2>1. IsFiniteSet(mine) /\ IsFiniteSet(yours) /\ Cardinality(mine) \in Nat /\ Cardinality(yours) \in Nat
    <3>1. mine \in SUBSET p.selected /\ yours \in SUBSET p.selected
      OBVIOUS
    <3> HIDE DEF mine, yours
    <3> QED BY <1>3, <3>1, FS_Subset, FS_CardinalityType
  \* The first of the other version that was left over: all before it are in.
  <2>2. PICK u \in p.over : S!Major(u) = S!Major(t) /\ \A w \in p.over : S!Major(w) = S!Major(t) => round(u) <= round(w)
    <3> DEFINE rounds == {round(w) : w \in {x \in p.over : S!Major(x) = S!Major(t)}}
    <3>1. rounds \in SUBSET Nat /\ rounds # {}
      BY <1>1, <1>4
    <3>2. PICK i \in rounds : \A j \in rounds : i <= j
      BY <3>1, LeastIsIn
    <3>3. PICK u \in p.over : S!Major(u) = S!Major(t) /\ i = round(u)
      OBVIOUS
    <3>4. \A w \in p.over : S!Major(w) = S!Major(t) => round(u) <= round(w)
      BY <3>2, <3>3
    <3> QED BY <3>3, <3>4
  <2>3. u \in survivors
    BY <1>1
  <2> DEFINE line == S!Line(u, survivors)
             before == Ahead(TurnIn(line), line, u)
  <2>4. /\ IsFiniteSet(line) /\ line \in SUBSET survivors /\ u \in line /\ Orders(TurnIn(line), line)
        /\ round(u) = Cardinality(before)
        /\ \A w \in line : S!Line(w, survivors) = line
    BY <1>8, <2>3
  <2>5. before \in SUBSET yours
    <3> SUFFICES ASSUME NEW w \in before PROVE w \in yours
      OBVIOUS
    <3>1. w \in line /\ <<w, u>> \in TurnIn(line)
      BY DEF Ahead
    <3>2. w \in survivors /\ S!Major(w) = S!Major(t)
      BY <2>2, <3>1 DEF S!Line
    <3>3. round(w) < round(u)
      <4>1. Place(TurnIn(line), line, w) < Place(TurnIn(line), line, u)
        <5> HIDE DEF line
        <5> QED BY <2>4, <3>1, EachHasItsPlace
      <4>2. round(w) = Place(TurnIn(line), line, w) /\ round(u) = Place(TurnIn(line), line, u)
        <5>1. S!Line(w, survivors) = line
          BY <2>4, <3>1
        <5> QED BY <1>8, <2>3, <3>2, <5>1 DEF Place
      <4> QED BY <4>1, <4>2
    <3>4. ~(round(u) <= round(w))
      BY <1>4, <2>3, <3>2, <3>3
    <3>5. w \in p.selected
      BY <1>1, <2>2, <3>2, <3>4
    <3> QED BY <3>2, <3>5
  <2>6. round(u) <= Cardinality(yours)
    <3> HIDE DEF before, yours
    <3> QED BY <2>1, <2>4, <2>5, FS_Subset
  \* Of this version all that are in come no later than that one.
  <2> DEFINE mineLine == S!Line(s, survivors)
  <2>7. s \in survivors
    BY <1>3
  <2>8. /\ IsFiniteSet(mineLine) /\ mineLine \in SUBSET survivors /\ s \in mineLine /\ Orders(TurnIn(mineLine), mineLine)
        /\ \A w \in mineLine : round(w) = Place(TurnIn(mineLine), mineLine, w)
    <3>1. \A w \in mineLine : w \in survivors /\ S!Line(w, survivors) = mineLine
      BY <1>8, <2>7
    <3>2. \A w \in mineLine : round(w) = Place(TurnIn(mineLine), mineLine, w)
      <4> TAKE w \in mineLine
      <4>1. w \in survivors /\ S!Line(w, survivors) = mineLine
        BY <3>1
      <4> HIDE DEF mineLine
      <4> QED BY <1>8, <4>1 DEF Place
    <3> QED BY <1>8, <2>7, <3>2
  <2>9. mine \in SUBSET mineLine
    BY <1>3, <2>7 DEF S!Line
  <2>10. mine \in SUBSET {w \in mineLine : Place(TurnIn(mineLine), mineLine, w) < round(u) + 1}
    <3> SUFFICES ASSUME NEW w \in mine PROVE Place(TurnIn(mineLine), mineLine, w) < round(u) + 1
      BY <2>9
    <3>1. w \in p.selected /\ w \in mineLine
      BY <2>9
    <3>2. round(w) <= round(u) /\ round(w) \in Nat /\ round(u) \in Nat
      BY <1>4, <1>7, <2>2, <2>3, <2>8, <3>1
    <3>3. round(w) = Place(TurnIn(mineLine), mineLine, w)
      BY <2>8, <3>1
    <3> QED BY <3>2, <3>3
  <2>11. Cardinality(mine) <= round(u) + 1
    <3> DEFINE first == {w \in mineLine : Place(TurnIn(mineLine), mineLine, w) < round(u) + 1}
               all == Cardinality(mineLine)
    <3>1. round(u) + 1 \in Nat
      BY <1>4, <2>3
    <3>2. Cardinality(first) = IF round(u) + 1 < all THEN round(u) + 1 ELSE all
      <4> HIDE DEF mineLine
      <4> QED BY <2>8, <3>1, TheBudgetIsSpent
    <3>3. IsFiniteSet(first)
      <4>1. first \in SUBSET mineLine
        OBVIOUS
      <4> HIDE DEF first, mineLine
      <4> QED BY <2>8, <4>1, FS_Subset
    <3>4. Cardinality(mine) <= Cardinality(first) /\ all \in Nat
      <4> HIDE DEF first, mine, mineLine
      <4> QED BY <2>8, <2>10, <3>3, FS_Subset, FS_CardinalityType DEF first
    <3> HIDE DEF first, mine, all
    <3> QED BY <2>1, <3>1, <3>2, <3>4
  <2> HIDE DEF mine, yours
  <2>12. round(u) \in Nat
    BY <1>4, <2>3
  <2>13. Cardinality(mine) <= Cardinality(yours) + 1
    BY <2>1, <2>6, <2>11, <2>12
  <2> QED BY <2>13 DEF mine, yours
<1>10. ASSUME NEW t \in p.over, \A s \in Of(S!Major(t)) : s.family # t.family \/ s.dev # t.dev,
              NEW s \in Of(S!Major(t)), NEW u \in Of(S!Major(t)), s.family = u.family, s.dev = u.dev
       PROVE  s = u
  <2> SUFFICES ASSUME s # u PROVE FALSE
    OBVIOUS
  <2> DEFINE line == S!Line(t, survivors)
             group == S!Group(s, line)
             leader == S!Leader(t, line)
  <2>1. t \in survivors /\ s \in p.selected /\ u \in p.selected
    BY <1>1
  <2>2. /\ IsFiniteSet(line) /\ line \in SUBSET survivors /\ t \in line /\ Orders(TurnIn(line), line)
        /\ s \in line /\ u \in line
    <3>1. s \in line /\ u \in line
      BY <1>3 DEF S!Line
    <3> QED BY <1>8, <2>1, <3>1
  <2>3. /\ \A w \in line : /\ S!Turn(w, line) \in Seq(Int) /\ Len(S!Turn(w, line)) = 2
                           /\ S!Turn(w, line)[1] = Place(GroupOf(w, line), S!Group(w, line), w)
        /\ leader \in S!Group(t, line) /\ S!Turn(leader, line)[1] = 0
    <3> HIDE DEF line
    <3> QED BY <1>2, <2>2, TurnsAreApart
  <2>4. S!Group(u, line) = group /\ GroupOf(u, line) = PreferredIn(group) /\ GroupOf(s, line) = PreferredIn(group)
        /\ s \in group /\ u \in group /\ group \in SUBSET survivors /\ IsFiniteSet(group)
    <3> HIDE DEF line
    <3>1. S!Group(u, line) = group /\ s \in group /\ u \in group /\ group \in SUBSET line
      BY <1>10, <2>2 DEF S!Group
    <3> QED BY <2>2, <3>1, FS_Subset DEF GroupOf
  <2>5. Place(PreferredIn(group), group, s) # Place(PreferredIn(group), group, u)
        /\ Place(PreferredIn(group), group, s) \in Nat /\ Place(PreferredIn(group), group, u) \in Nat
    <3> HIDE DEF group
    <3>1. Orders(PreferredIn(group), group)
      BY <1>2, <2>4, PreferenceOrders
    <3> QED BY <2>4, <3>1, EachHasItsPlace
  <2>6. \E w \in {s, u} : S!Turn(w, line)[1] \in Nat /\ S!Turn(w, line)[1] > 0
    <3>1. /\ S!Turn(s, line)[1] = Place(PreferredIn(group), group, s)
          /\ S!Turn(u, line)[1] = Place(PreferredIn(group), group, u)
      BY <2>2, <2>3, <2>4
    <3> HIDE DEF group, line
    <3> QED BY <2>5, <3>1
  <2>7. PICK w \in {s, u} : S!Turn(w, line)[1] \in Nat /\ S!Turn(w, line)[1] > 0
    BY <2>6
  <2>8. leader \in line /\ w \in line /\ w \in p.selected
    BY <2>1, <2>2, <2>3 DEF S!Group
  <2>9. S!Before(S!Turn(leader, line), S!Turn(w, line))
    <3> DEFINE x == S!Turn(leader, line)
               y == S!Turn(w, line)
    <3>1. x \in Seq(Int) /\ y \in Seq(Int) /\ Len(x) = 2 /\ Len(y) = 2 /\ x[1] = 0 /\ y[1] > 0
      BY <2>3, <2>7, <2>8
    <3> HIDE DEF x, y
    <3>2. 1 \in DOMAIN y /\ 1 \in DOMAIN x /\ x[1] < y[1] /\ 1..(1 - 1) = {}
      BY <3>1
    <3>3. S!Before(x, y)
      BY <3>2 DEF S!Before
    <3> QED BY <3>3 DEF x, y
  <2>10. round(leader) < round(w)
    <3>1. <<leader, w>> \in TurnIn(line)
      BY <2>8, <2>9 DEF TurnIn
    <3>2. \A x \in line : x \in survivors /\ S!Line(x, survivors) = line
      BY <1>8, <2>1
    <3>3. round(leader) = Place(TurnIn(line), line, leader) /\ round(w) = Place(TurnIn(line), line, w)
      <4>1. leader \in survivors /\ S!Line(leader, survivors) = line /\ w \in survivors /\ S!Line(w, survivors) = line
        BY <2>8, <3>2
      <4> HIDE DEF leader, line
      <4> QED BY <1>8, <4>1 DEF Place
    <3>4. Place(TurnIn(line), line, leader) < Place(TurnIn(line), line, w)
      <4> HIDE DEF leader, line
      <4> QED BY <2>2, <2>8, <3>1, EachHasItsPlace
    <3> QED BY <3>3, <3>4
  <2>11. leader \in p.selected
    <3>1. leader \in survivors /\ w \in survivors
      BY <2>2, <2>8
    <3> QED BY <1>5, <1>6, <2>8, <2>10, <3>1
  <2>12. leader \in Of(S!Major(t)) /\ leader.family = t.family /\ leader.dev = t.dev
    <3>1. leader.family = t.family /\ leader.dev = t.dev
      BY <2>3 DEF S!Group
    <3>2. S!Major(leader) = S!Major(t)
      BY <2>8 DEF S!Line
    <3> QED BY <2>11, <3>1, <3>2
  <2> QED BY <1>10, <2>12
<1> QED BY <1>9, <1>10, PlansCountAlike DEF S!SpreadCovers, p

(***************************************************************************)
(* For any analyses and any discovered tags: an unverified candidate never *)
(* outranks a measured one, nor an image with more HIGH or CRITICAL and    *)
(* otherwise the same, whatever its signals (verdict.py, security_score.py)*)
(* and readiness has its evidence; and of a plan no tag is lost or counted *)
(* twice, the budget is kept and not wasted, what is superseded is         *)
(* answered for, and the spread covers before it repeats (scan_plan.py).   *)
(***************************************************************************)
THEOREM EveryVerdictIsEarned == Spec => []VerdictIsEarned
<1> DEFINE Inv == (topic = "verdict" => input \in VerdictInputs) /\ (topic = "plan" => input \in PlanInputs)
<1>1. Init => Inv
  BY DEF Init
<1>2. Inv /\ [Judge]_vars => Inv'
  BY InputsStay
<1>3. Inv => VerdictIsEarned
  <2> SUFFICES ASSUME Inv PROVE VerdictIsEarned
    OBVIOUS
  <2>1. ASSUME topic = "verdict"
        PROVE  V!MeasuredFirst(input[1], input[2]) /\ V!ReadyIsEarned(input[1])
    <3>1. Measured(input[1]) /\ Measured(input[2])
      BY <2>1, CountsAreNumbers DEF Measured
    <3> QED BY <3>1, TheMeasuredComeFirst, ReadinessIsEarned
  <2>2. ASSUME topic = "plan"
        PROVE  /\ \A spread \in BOOLEAN : S!EveryTagAccounted(input.found, input.budget, input.criteria, spread)
               /\ S!SpreadCovers(input.found, input.budget, input.criteria)
    <3>1. Tags(input.found) /\ IsFiniteSet(input.found) /\ input.budget \in Int
      BY <2>2, TagsAreNamed DEF Tags
    <3> QED BY <3>1, EveryTagIsAccounted, TheSpreadCovers
  <2> QED BY <2>1, <2>2 DEF VerdictIsEarned, Asked
<1> QED BY <1>1, <1>2, <1>3, PTL DEF Spec

-----------------------------------------------------------------------------
(***************************************************************************)
(* Two readings of one Dockerfile, and the file the hardener writes        *)
(* (dockerfile_validator.py, build_image.py).                              *)
(***************************************************************************)
\* A walk stays where its steps stay.
LEMMA WalkStays ==
  ASSUME NEW up, NEW stages, IsFiniteSet(DOMAIN stages),
         NEW set, Max({0} \cup DOMAIN stages) \in set, \A k \in set : up[k] \in set
  PROVE  Walk(up, stages) \in set
<1> DEFINE n == Cardinality(DOMAIN stages)
           start == Max({0} \cup DOMAIN stages)
           Steps(g, m) == g = [i \in 0..m |-> IF i = 0 THEN start ELSE up[g[i - 1]]]
<1>1. n \in Nat /\ start \in set
  BY FS_CardinalityType
<1> HIDE DEF n, start
<1>2. \A m \in Nat : \E g \in [0..m -> set] : Steps(g, m)
  <2> DEFINE without == {m \in Nat : ~\E g \in [0..m -> set] : Steps(g, m)}
  <2> SUFFICES ASSUME without # {} PROVE FALSE
    OBVIOUS
  <2>1. PICK m \in without : \A k \in without : m <= k
    <3>1. without \in SUBSET Nat
      OBVIOUS
    <3> HIDE DEF without
    <3> QED BY <3>1, LeastIsIn
  <2>2. m \in Nat /\ ~\E g \in [0..m -> set] : Steps(g, m)
    BY <2>1
  <2>3. CASE m = 0
    <3> DEFINE g == [i \in 0..0 |-> start]
    <3>1. g \in [0..0 -> set] /\ \A i \in 0..0 : i = 0
      BY <1>1
    <3>2. g = [i \in 0..0 |-> IF i = 0 THEN start ELSE up[g[i - 1]]]
      BY <3>1
    <3> HIDE DEF g
    <3>3. \E h \in [0..0 -> set] : Steps(h, 0)
      BY <3>1, <3>2
    <3> QED BY <2>2, <2>3, <3>3
  <2>4. CASE m # 0
    <3>1. m - 1 \in Nat /\ ~(m <= m - 1)
      BY <2>2, <2>4
    <3>2. m - 1 \notin without
      <4> HIDE DEF without
      <4> QED BY <2>1, <3>1
    <3>3. PICK g \in [0..(m - 1) -> set] : Steps(g, m - 1)
      BY <3>1, <3>2
    <3> DEFINE h == [i \in 0..m |-> IF i = m THEN up[g[m - 1]] ELSE g[i]]
    <3>4. m \in 0..m /\ m - 1 \in 0..(m - 1) /\ \A i \in 0..m : i # m => i \in 0..(m - 1)
      BY <2>2, <3>1
    <3>5. h \in [0..m -> set]
      BY <3>4
    <3>6. \A i \in 0..m : h[i] = IF i = 0 THEN start ELSE up[h[i - 1]]
      <4> TAKE i \in 0..m
      <4>1. CASE i = m
        <5>1. m - 1 \in 0..m /\ m - 1 # m
          BY <2>2, <3>1
        <5> QED BY <2>4, <4>1, <5>1
      <4>2. CASE i # m
        <5>1. i \in 0..(m - 1) /\ (i # 0 => i - 1 \in 0..m /\ i - 1 # m)
          BY <2>2, <4>2
        <5>2. g[i] = IF i = 0 THEN start ELSE up[g[i - 1]]
          BY <3>3, <5>1
        <5> QED BY <4>2, <5>1, <5>2
      <4> QED BY <4>1, <4>2
    <3>7. Steps(h, m)
      <4> HIDE DEF h
      <4> QED BY <3>5, <3>6
    <3> QED BY <2>2, <3>5, <3>7
  <2> QED BY <2>3, <2>4
<1>3. \E g \in [0..n -> set] : Steps(g, n)
  BY <1>1, <1>2
<1> DEFINE at == CHOOSE g : Steps(g, n)
<1>4. Steps(at, n)
  BY <1>3
<1>5. Walk(up, stages) = at[n]
  BY DEF Walk, n, start
<1> HIDE DEF at
<1>6. \A i \in 0..n : at[i] \in set
  <2> DEFINE outside == {i \in 0..n : at[i] \notin set}
  <2> SUFFICES ASSUME outside # {} PROVE FALSE
    OBVIOUS
  <2>1. PICK i \in outside : \A k \in outside : i <= k
    <3>1. outside \in SUBSET Nat
      BY <1>1
    <3> HIDE DEF outside
    <3> QED BY <3>1, LeastIsIn
  <2>2. i \in 0..n /\ at[i] \notin set
    BY <2>1
  <2>3. at[i] = IF i = 0 THEN start ELSE up[at[i - 1]]
    BY <1>4, <2>2
  <2>4. i # 0
    BY <1>1, <2>2, <2>3
  <2>5. i - 1 \in 0..n /\ i - 1 \notin outside
    <3>1. i - 1 \in 0..n /\ ~(i <= i - 1)
      BY <1>1, <2>2, <2>4
    <3> HIDE DEF outside
    <3> QED BY <2>1, <3>1
  <2> QED BY <2>2, <2>3, <2>4, <2>5
<1> QED BY <1>1, <1>5, <1>6

\* With comments apart, the builder and the parser join the same lines.
LEMMA GroupsAreAlike ==
  ASSUME NEW lines, IsList(lines), CommentsApart(lines),
         NEW kept, kept = {j \in DOMAIN lines : lines[j].op \notin {"comment", "blank"}}, NEW i \in kept
  PROVE  /\ Joined(lines, DOMAIN lines, i) = Joined(lines, kept, i)
         /\ i \in Starts(lines, DOMAIN lines) <=> i \in Starts(lines, kept)
<1> DEFINE all == DOMAIN lines
<1>1. Len(lines) \in Nat /\ all = 1..Len(lines)
  BY DEF IsList
<1>2. kept \in SUBSET all /\ i \in Nat /\ i >= 1 /\ i \in all
  BY <1>1
<1>3. \A j \in all : j \notin kept => ~lines[j].ends /\ (j = 1 \/ ~lines[j - 1].ends)
  BY DEF CommentsApart
<1> HIDE DEF all
<1>4. ASSUME NEW j \in Joined(lines, all, i) PROVE j \in Joined(lines, kept, i)
  <2>1. j \in all /\ i <= j /\ \A k \in all : i <= k /\ k < j => lines[k].ends
    BY <1>4 DEF Joined
  <2>2. j \in kept
    <3>1. CASE j = i
      BY <3>1
    <3>2. CASE j # i
      <4>1. j - 1 \in all /\ i <= j - 1 /\ j - 1 < j /\ j # 1
        BY <1>1, <1>2, <2>1, <3>2
      <4> QED BY <1>3, <2>1, <4>1
    <3> QED BY <3>1, <3>2
  <2> QED BY <1>2, <2>1, <2>2 DEF Joined
<1>5. ASSUME NEW j \in Joined(lines, kept, i) PROVE j \in Joined(lines, all, i)
  <2>1. j \in kept /\ i <= j /\ \A k \in kept : i <= k /\ k < j => lines[k].ends
    BY <1>5 DEF Joined
  <2> DEFINE open == {k \in all : i <= k /\ k < j /\ ~lines[k].ends}
  <2>2. open = {}
    <3> SUFFICES ASSUME open # {} PROVE FALSE
      OBVIOUS
    <3>1. PICK k \in open : \A m \in open : k <= m
      <4>1. open \in SUBSET Nat
        BY <1>1
      <4> HIDE DEF open
      <4> QED BY <4>1, LeastIsIn
    <3>2. k \in all /\ i <= k /\ k < j /\ ~lines[k].ends
      BY <3>1
    <3>3. k \notin kept /\ k # i
      BY <2>1, <3>2
    <3>4. k - 1 \in all /\ i <= k - 1 /\ k - 1 < j /\ ~(k <= k - 1) /\ k # 1
      BY <1>1, <1>2, <2>1, <3>2, <3>3
    <3>5. lines[k - 1].ends
      BY <3>1, <3>4
    <3> QED BY <1>3, <3>2, <3>3, <3>4, <3>5
  <2> QED BY <1>2, <2>1, <2>2 DEF Joined
<1>6. ASSUME i \in Starts(lines, all) PROVE i \in Starts(lines, kept)
  <2> SUFFICES ASSUME NEW k \in kept, k < i, lines[k].ends PROVE \E j \in kept : k < j /\ j < i
    BY DEF Starts
  <2>1. PICK j \in all : k < j /\ j < i
    BY <1>2, <1>6 DEF Starts
  <2>2. k + 1 \in all /\ k + 1 # 1 /\ (k + 1) - 1 = k /\ k < k + 1 /\ k + 1 < i
    BY <1>1, <1>2, <2>1
  <2>3. k + 1 \in kept
    BY <1>3, <2>2
  <2> QED BY <2>2, <2>3
<1>7. ASSUME i \in Starts(lines, kept) PROVE i \in Starts(lines, all)
  <2>1. \A k \in kept : k < i /\ lines[k].ends => \E j \in kept : k < j /\ j < i
    BY <1>7 DEF Starts
  <2>2. \A k \in all : k < i /\ lines[k].ends => \E j \in all : k < j /\ j < i
    BY <1>2, <1>3, <2>1
  <2> QED BY <1>2, <2>2 DEF Starts
<1> QED BY <1>4, <1>5, <1>6, <1>7 DEF all

\* So the builder reads what the parser reads.
LEMMA BothReadAlike ==
  ASSUME NEW lines, IsList(lines), CommentsApart(lines)
  PROVE  BuilderInstructions(lines) = Instructions(lines)
<1> DEFINE all == DOMAIN lines
           kept == {i \in DOMAIN lines : lines[i].op \notin {"comment", "blank"}}
           Told(set) == {i \in Starts(lines, set) : Said(lines, Joined(lines, set, i)) # {}}
           Kept(set) == {i \in Told(set) : Instruction(lines, Joined(lines, set, i)).op \notin {"comment", "text"}}
<1>1. all \in SUBSET Nat /\ kept \in SUBSET all
  BY DEF IsList
<1>2. \A i \in kept : /\ Joined(lines, all, i) = Joined(lines, kept, i)
                      /\ i \in Starts(lines, all) <=> i \in Starts(lines, kept)
  BY GroupsAreAlike
<1>3. ASSUME NEW i \in all, i \notin kept PROVE i \notin Kept(all)
  <2>1. lines[i].op \in {"comment", "blank"} /\ ~lines[i].ends
    BY <1>3 DEF CommentsApart
  <2>2. Joined(lines, all, i) = {i}
    BY <1>1, <2>1 DEF Joined
  <2>3. CASE lines[i].op = "blank"
    BY <2>2, <2>3 DEF Said
  <2>4. CASE lines[i].op = "comment"
    <3>1. Said(lines, {i}) = {i}
      BY <2>4 DEF Said
    <3>2. Min({i}) = i
      BY <1>1 DEF Min
    <3> QED BY <2>2, <2>4, <3>1, <3>2 DEF Instruction
  <2> QED BY <2>1, <2>3, <2>4
<1>4. Starts(lines, all) \in SUBSET all /\ Starts(lines, kept) \in SUBSET kept
  BY DEF Starts
<1>5. Instructions(lines) = [i \in Kept(all) |-> Instruction(lines, Joined(lines, all, i))]
  BY DEF Instructions, Read
<1>6. BuilderInstructions(lines) = [i \in Kept(kept) |-> Instruction(lines, Joined(lines, kept, i))]
  BY DEF BuilderInstructions, Read
<1>7. Kept(all) = Kept(kept) /\ Kept(kept) \in SUBSET kept
  <2> HIDE DEF all, kept
  <2> QED BY <1>1, <1>2, <1>3, <1>4
<1> HIDE DEF all, kept
<1>8. \A i \in Kept(kept) : Instruction(lines, Joined(lines, all, i)) = Instruction(lines, Joined(lines, kept, i))
  BY <1>2, <1>7
<1> QED BY <1>5, <1>6, <1>7, <1>8

\* Where an alias is written once, before its use, both resolve the same user.
LEMMA BothFindTheUser ==
  ASSUME NEW stages,
         \A k \in DOMAIN stages : \A j \in Named(stages, stages[k].of) :
           j < k /\ stages[j].of.alias # stages[k].of.alias
  PROVE  BuilderUser(stages) = FinalUser(stages)
<1> DEFINE up == [k \in {0} \cup DOMAIN stages |-> IF k = 0 \/ stages[k].user # None THEN k ELSE Before(stages, k)]
<1>1. ASSUME NEW k \in DOMAIN stages PROVE Before(stages, k) = Parent(stages, k)
  <2>1. {j \in Named(stages, stages[k].of) : j < k} = Named(stages, stages[k].of)
    OBVIOUS
  <2> QED BY <2>1 DEF Before, Parent
<1>2. up = UpToUser(stages)
  BY <1>1 DEF UpToUser
<1> HIDE DEF up
<1>3. BuilderUser(stages) = UserAt(up, stages)
  BY DEF BuilderUser, up
<1> QED BY <1>2, <1>3 DEF FinalUser

\* What the error rules are asked.
LEMMA NoErrorIsFound ==
  ASSUME NEW ins
  PROVE  Errors(ins) = {} <=> /\ ~MovingBase(ins) /\ ~RunsAsRoot(ins) /\ ~SecretWritten(ins) /\ ~Escalates(ins)
                              /\ ~Unchecked(ins) /\ ~RunsRemoteScript(ins) /\ ~SetsUid(ins)
<1>1. /\ Fails(ins, "DF001") <=> MovingBase(ins)
      /\ Fails(ins, "DF002") <=> RunsAsRoot(ins)
      /\ Fails(ins, "DF004") <=> SecretWritten(ins)
      /\ Fails(ins, "DF009") <=> Escalates(ins)
      /\ Fails(ins, "DF013") <=> Unchecked(ins)
      /\ Fails(ins, "DF014") <=> RunsRemoteScript(ins)
      /\ Fails(ins, "DF015") <=> SetsUid(ins)
  BY DEF Fails
<1> QED BY <1>1 DEF Errors

\* What is called ready hides nothing.
LEMMA WhatIsReadyHidesNothing ==
  ASSUME NEW lines, IsList(lines), NEW context
  PROVE  ReadyHidesNothing(lines, context)
<1> DEFINE ins == Instructions(lines)
<1> SUFFICES ASSUME CommentsApart(lines), AliasesOnce(lines), ProductionReady(lines, context)
             PROVE  /\ \A trait \in {"sudo", "piped", "setuid"} : ~Has(ins, "RUN", trait)
                    /\ ~SecretWritten(ins) /\ ~Unchecked(ins)
                    /\ ~Root(BuilderUser(Stages(ins)))
  BY BothReadAlike DEF ReadyHidesNothing, Sound
<1>1. Errors(ins) = {}
  BY DEF ProductionReady
<1>2. BuilderUser(Stages(ins)) = FinalUser(Stages(ins))
  <2>1. BuilderInstructions(lines) = ins
    BY BothReadAlike
  <2> QED BY <2>1, BothFindTheUser DEF AliasesOnce
<1> HIDE DEF ins
<1>3. ~RunsAsRoot(ins) /\ ~SecretWritten(ins) /\ ~Escalates(ins) /\ ~Unchecked(ins) /\ ~RunsRemoteScript(ins) /\ ~SetsUid(ins)
  BY <1>1, NoErrorIsFound
<1> QED BY <1>2, <1>3 DEF RunsAsRoot, Escalates, RunsRemoteScript, SetsUid

\* Of several lines one is the last.
LEMMA LargestIsIn ==
  ASSUME NEW n \in Nat, NEW set \in SUBSET (0..n), set # {}
  PROVE  Max(set) \in set /\ \A y \in set : y <= Max(set)
<1> DEFINE T == {n - x : x \in set}
<1>1. \A x \in set : x \in 0..n /\ n - x \in Nat
  OBVIOUS
<1>2. T \in SUBSET Nat /\ T # {}
  BY <1>1
<1>3. PICK t \in T : \A u \in T : t <= u
  BY <1>2, LeastIsIn
<1>4. PICK x \in set : t = n - x
  OBVIOUS
<1>5. ASSUME NEW y \in set PROVE x >= y
  <2>1. n - x <= n - y
    BY <1>3, <1>4
  <2> QED BY <1>1, <2>1
<1>6. Max(set) \in set /\ \A y \in set : Max(set) >= y
  BY <1>5 DEF Max
<1>7. x \in Nat /\ \A y \in set : y \in Nat /\ y <= x
  BY <1>1, <1>5
<1>8. Max(set) = x
  <2>1. \A z \in set : (\A y \in set : z >= y) => z = x
    BY <1>7
  <2> QED BY <1>6, <2>1
<1> QED BY <1>7, <1>8

\* An instruction says what some of its lines say.
LEMMA InstructionsAreOfLines ==
  ASSUME NEW lines, IsList(lines), NEW i \in DOMAIN Instructions(lines)
  PROVE  LET group == Joined(lines, DOMAIN lines, i) IN
         /\ i \in Starts(lines, DOMAIN lines) /\ i \in 1..Len(lines)
         /\ Instructions(lines)[i] = Instruction(lines, group)
         /\ Min(Said(lines, group)) \in Said(lines, group)
         /\ Said(lines, group) \in SUBSET group /\ group \in SUBSET (DOMAIN lines)
         /\ Instructions(lines)[i].op \notin {"comment", "text"}
<1> DEFINE group == Joined(lines, DOMAIN lines, i)
           Group(j) == Joined(lines, DOMAIN lines, j)
           told == {j \in Starts(lines, DOMAIN lines) : Said(lines, Group(j)) # {}}
           kept == {j \in told : Instruction(lines, Group(j)).op \notin {"comment", "text"}}
<1>1. Instructions(lines) = [j \in kept |-> Instruction(lines, Group(j))]
  BY DEF Instructions, Read
<1>2. i \in kept
  BY <1>1
<1>3. i \in Starts(lines, DOMAIN lines) /\ Said(lines, group) # {} /\ Instruction(lines, group).op \notin {"comment", "text"}
  BY <1>2
<1>4. Instructions(lines)[i] = Instruction(lines, group)
  <2> HIDE DEF kept
  <2> QED BY <1>1, <1>2
<1>5. Said(lines, group) \in SUBSET group /\ group \in SUBSET (DOMAIN lines) /\ DOMAIN lines = 1..Len(lines) /\ Len(lines) \in Nat
  BY DEF Said, Joined, IsList
<1>6. Min(Said(lines, group)) \in Said(lines, group)
  <2> DEFINE said == Said(lines, group)
  <2> HIDE DEF group
  <2>1. said \in SUBSET Nat
    BY <1>5
  <2> HIDE DEF said
  <2>2. \E x \in said : \A y \in said : x <= y
    BY <1>3, <2>1, LeastIsIn DEF said
  <2>3. Min(said) \in said
    BY <2>2 DEF Min
  <2> QED BY <2>3 DEF said
<1>7. i \in 1..Len(lines)
  BY <1>3, <1>5 DEF Starts
<1> HIDE DEF group
<1> QED BY <1>3, <1>4, <1>5, <1>6, <1>7 DEF group

\* What an instruction is and whom it names is on one of the lines, and so is each trait.
LEMMA SaidOnLines ==
  ASSUME NEW lines, IsList(lines), NEW i \in DOMAIN Instructions(lines)
  PROVE  /\ i \in 1..Len(lines) /\ Instructions(lines)[i].op \notin {"comment", "text"}
         /\ \E j \in DOMAIN lines :
              Instructions(lines)[i].op = lines[j].op /\ Instructions(lines)[i].of = lines[j].of
         /\ \A trait \in Instructions(lines)[i].has : \E j \in DOMAIN lines : trait \in lines[j].has
<1> DEFINE group == Joined(lines, DOMAIN lines, i)
<1>1. /\ i \in 1..Len(lines) /\ Instructions(lines)[i] = Instruction(lines, group)
      /\ Min(Said(lines, group)) \in Said(lines, group)
      /\ Said(lines, group) \in SUBSET group /\ group \in SUBSET (DOMAIN lines)
      /\ Instructions(lines)[i].op \notin {"comment", "text"}
  BY InstructionsAreOfLines
<1> HIDE DEF group
<1> QED BY <1>1 DEF Instruction

\* The stages of a file are its FROM instructions, each known by its line.
LEMMA StagesAreFinite ==
  ASSUME NEW ins, NEW n \in Nat, DOMAIN ins \in SUBSET (1..n)
  PROVE  /\ IsFiniteSet(DOMAIN Stages(ins)) /\ DOMAIN Stages(ins) = {i \in DOMAIN ins : ins[i].op = "FROM"}
         /\ \A k \in DOMAIN Stages(ins) : Stages(ins)[k].of = ins[k].of /\ Stages(ins)[k].has = ins[k].has
         /\ DOMAIN Stages(ins) \in SUBSET (1..n)
<1>1. DOMAIN Stages(ins) = {i \in DOMAIN ins : ins[i].op = "FROM"}
  BY DEF Stages
<1>2. DOMAIN Stages(ins) \in SUBSET (1..n)
  BY <1>1
<1>3. IsFiniteSet(1..n)
  BY FS_Interval
<1>4. IsFiniteSet(DOMAIN Stages(ins))
  BY <1>2, <1>3, FS_Subset
<1>5. \A k \in DOMAIN Stages(ins) : Stages(ins)[k].of = ins[k].of /\ Stages(ins)[k].has = ins[k].has
  BY DEF Stages
<1> QED BY <1>1, <1>2, <1>4, <1>5

\* Where the walk for the user ends is a stage, or nothing.
LEMMA TheUserIsOfAStage ==
  ASSUME NEW ins, NEW n \in Nat, DOMAIN ins \in SUBSET (1..n)
  PROVE  LET k == Walk(UpToUser(Stages(ins)), Stages(ins)) IN k = 0 \/ k \in DOMAIN Stages(ins)
<1> DEFINE stages == Stages(ins)
           set == {0} \cup DOMAIN stages
<1>1. IsFiniteSet(DOMAIN stages) /\ DOMAIN stages \in SUBSET (1..n)
  BY StagesAreFinite
<1> HIDE DEF stages
<1>2. set \in SUBSET (0..n) /\ set # {}
  BY <1>1
<1>3. Max({0} \cup DOMAIN stages) \in set
  BY <1>2, LargestIsIn
<1>4. ASSUME NEW k \in set PROVE UpToUser(stages)[k] \in set
  <2>1. Parent(stages, k) \in Named(stages, stages[k].of) \cup {0}
    <3> DEFINE named == Named(stages, stages[k].of) \cup {0}
    <3>1. named \in SUBSET (0..n) /\ named # {}
      BY <1>2 DEF Named
    <3>2. Max(named) \in named
      <4> HIDE DEF named
      <4> QED BY <3>1, LargestIsIn
    <3> QED BY <3>2 DEF Parent
  <2>2. Parent(stages, k) \in set
    BY <2>1 DEF Named
  <2> QED BY <2>2 DEF UpToUser
<1>5. Walk(UpToUser(stages), stages) \in set
  BY <1>1, <1>3, <1>4, WalkStays
<1> QED BY <1>5 DEF stages

\* The lines that the hardener adds.
BlankLine == [op |-> "blank", has |-> {}, of |-> None, ends |-> FALSE]
UserAdded == [op |-> "USER", has |-> {}, of |-> [name |-> "appuser", uid |-> None], ends |-> FALSE]

\* The blank line and the USER line that the hardener adds, field by field.
LEMMA AppendedSay ==
  /\ ~BlankLine.ends /\ BlankLine.op = "blank" /\ BlankLine.has = {}
  /\ UserAdded.op = "USER" /\ UserAdded.has = {}
<1>1. BlankLine.ends = FALSE
  BY DEF BlankLine
<1>2. BlankLine.op = "blank" /\ BlankLine.has = {}
  BY DEF BlankLine
<1>3. UserAdded.op = "USER" /\ UserAdded.has = {}
  BY DEF UserAdded
<1> QED BY <1>1, <1>2, <1>3

\* Two lines after a file leave it a list, whose earlier lines stay.
LEMMA AppendedLines ==
  ASSUME NEW lines, IsList(lines), NEW more, more = lines \o <<BlankLine, UserAdded>>
  PROVE  /\ Len(lines) \in Nat /\ DOMAIN lines = 1..Len(lines) /\ DOMAIN more = 1..(Len(lines) + 2)
         /\ \A i \in 1..Len(lines) : more[i] = lines[i]
         /\ more[Len(lines) + 1] = BlankLine /\ more[Len(lines) + 2] = UserAdded
<1> DEFINE all == {lines[i] : i \in DOMAIN lines} \cup {BlankLine, UserAdded}
           two == <<BlankLine, UserAdded>>
<1>1. lines \in Seq(all)
  BY DEF IsList
<1>2. two \in Seq(all) /\ Len(two) = 2 /\ two[1] = BlankLine /\ two[2] = UserAdded
  OBVIOUS
<1> HIDE DEF all, two
<1>3. more = lines \o two
  BY DEF two
<1>4. Len(lines) \in Nat /\ DOMAIN lines = 1..Len(lines)
  BY <1>1
<1>5. DOMAIN more = 1..(Len(lines) + 2)
  BY <1>1, <1>2, <1>3
<1>6. \A i \in 1..(Len(lines) + 2) : more[i] = IF i <= Len(lines) THEN lines[i] ELSE two[i - Len(lines)]
  BY <1>1, <1>2, <1>3
<1>7. \A i \in 1..Len(lines) : more[i] = lines[i]
  BY <1>4, <1>6
<1>8. more[Len(lines) + 1] = two[1] /\ more[Len(lines) + 2] = two[2]
  BY <1>4, <1>6
<1> QED BY <1>2, <1>4, <1>5, <1>7, <1>8

\* Appending a blank line and a USER adds that instruction and changes no other.
LEMMA AppendedReads ==
  ASSUME NEW lines, IsList(lines), NEW more, more = lines \o <<BlankLine, UserAdded>>
  PROVE  LET ins == Instructions(lines)
             added == Instructions(more)
             last == Len(lines) + 2
         IN  /\ DOMAIN added = DOMAIN ins \cup {last}
             /\ \A i \in DOMAIN ins : added[i] = ins[i]
             /\ added[last].op = "USER" /\ added[last].of = UserAdded.of /\ added[last].has = {}
<1> DEFINE n == Len(lines)
           Old(i) == Joined(lines, 1..n, i)
           New(i) == Joined(more, 1..(n + 2), i)
           OldRead(i) == /\ i \in Starts(lines, 1..n) /\ Said(lines, Old(i)) # {}
                         /\ Instruction(lines, Old(i)).op \notin {"comment", "text"}
           NewRead(i) == /\ i \in Starts(more, 1..(n + 2)) /\ Said(more, New(i)) # {}
                         /\ Instruction(more, New(i)).op \notin {"comment", "text"}
<1>1. /\ n \in Nat /\ DOMAIN lines = 1..n /\ DOMAIN more = 1..(n + 2)
      /\ \A i \in 1..n : more[i] = lines[i]
      /\ more[n + 1] = BlankLine /\ more[n + 2] = UserAdded
  BY AppendedLines
<1>2. Instructions(lines) = [i \in {j \in 1..n : OldRead(j)} |-> Instruction(lines, Old(i))]
  BY <1>1 DEF Instructions, Read, Starts
<1>3. Instructions(more) = [i \in {j \in 1..(n + 2) : NewRead(j)} |-> Instruction(more, New(i))]
  BY <1>1 DEF Instructions, Read, Starts
<1> HIDE DEF n
<1>4. ~more[n + 1].ends /\ more[n + 1].op = "blank" /\ more[n + 1].has = {}
  BY <1>1, AppendedSay
<1>5. more[n + 2].op = "USER" /\ more[n + 2].has = {} /\ more[n + 2].of = UserAdded.of
  BY <1>1, AppendedSay
<1>6. ASSUME NEW i \in 1..n
      PROVE  /\ i \in Starts(more, 1..(n + 2)) <=> i \in Starts(lines, 1..n)
             /\ Said(more, New(i)) = Said(lines, Old(i))
             /\ UNION {more[j].has : j \in New(i)} = UNION {lines[j].has : j \in Old(i)}
             /\ Said(lines, Old(i)) \in SUBSET (1..n)
  <2>1. \A k \in 1..(n + 2) : k < i => k \in 1..n
    BY <1>1
  <2>2. i \in Starts(more, 1..(n + 2)) <=> i \in Starts(lines, 1..n)
    <3>1. ASSUME i \in Starts(more, 1..(n + 2)) PROVE i \in Starts(lines, 1..n)
      <4> SUFFICES ASSUME NEW k \in 1..n, k < i, lines[k].ends PROVE \E j \in 1..n : k < j /\ j < i
        BY DEF Starts
      <4>1. k \in 1..(n + 2) /\ more[k].ends
        BY <1>1
      <4>2. PICK j \in 1..(n + 2) : k < j /\ j < i
        BY <3>1, <4>1 DEF Starts
      <4> QED BY <2>1, <4>2
    <3>2. ASSUME i \in Starts(lines, 1..n) PROVE i \in Starts(more, 1..(n + 2))
      <4>1. i \in 1..(n + 2)
        BY <1>1
      <4> SUFFICES ASSUME NEW k \in 1..(n + 2), k < i, more[k].ends PROVE \E j \in 1..(n + 2) : k < j /\ j < i
        BY <4>1 DEF Starts
      <4>2. k \in 1..n /\ lines[k].ends
        BY <1>1, <2>1
      <4>3. PICK j \in 1..n : k < j /\ j < i
        BY <3>2, <4>2 DEF Starts
      <4>4. j \in 1..(n + 2)
        BY <1>1
      <4> QED BY <4>3, <4>4
    <3> QED BY <3>1, <3>2
  <2>3. \A j \in 1..n : j \in New(i) <=> j \in Old(i)
    <3> TAKE j \in 1..n
    <3>1. \A k \in 1..(n + 2) : k < j => k \in 1..n
      BY <1>1
    <3> QED BY <1>1, <3>1 DEF Joined
  <2>4. n + 2 \notin New(i)
    <3>1. n + 1 \in 1..(n + 2) /\ i <= n + 1 /\ n + 1 < n + 2
      BY <1>1
    <3> QED BY <1>4, <3>1 DEF Joined
  <2>5. New(i) \in SUBSET (1..(n + 2)) /\ Old(i) \in SUBSET (1..n)
    BY DEF Joined
  <2>6. \A j \in 1..(n + 2) : j \in 1..n \/ j = n + 1 \/ j = n + 2
    BY <1>1
  <2>7. New(i) = Old(i) \/ New(i) = Old(i) \cup {n + 1}
    <3> HIDE DEF New, Old
    <3>1. \A j \in New(i) : j \in Old(i) \/ j = n + 1
      BY <2>3, <2>4, <2>5, <2>6
    <3>2. \A j \in Old(i) : j \in New(i)
      BY <2>3, <2>5
    <3> QED BY <3>1, <3>2
  <2> HIDE DEF New, Old
  <2>8. Said(more, New(i)) = Said(lines, Old(i))
    BY <1>1, <1>4, <2>5, <2>7 DEF Said
  <2>9. {more[j].has : j \in Old(i)} = {lines[j].has : j \in Old(i)}
    BY <1>1, <2>5
  <2>10. UNION {more[j].has : j \in New(i)} = UNION {more[j].has : j \in Old(i)}
    BY <1>4, <2>7
  <2>11. Said(lines, Old(i)) \in SUBSET (1..n)
    BY <2>5 DEF Said
  <2> QED BY <2>2, <2>8, <2>9, <2>10, <2>11
<1>7. ASSUME NEW i \in 1..n
      PROVE  /\ OldRead(i) <=> NewRead(i)
             /\ OldRead(i) => Instruction(more, New(i)) = Instruction(lines, Old(i))
  <2>1. CASE Said(lines, Old(i)) = {}
    BY <1>6, <2>1
  <2>2. CASE Said(lines, Old(i)) # {}
    <3> DEFINE first == Min(Said(lines, Old(i)))
    <3>1. first \in 1..n
      <4> DEFINE said == Said(lines, Old(i))
      <4>1. said \in SUBSET (1..n) /\ said # {}
        BY <1>6, <2>2
      <4> HIDE DEF said
      <4>2. said \in SUBSET Nat
        BY <1>1, <4>1
      <4>3. \E x \in said : \A y \in said : x <= y
        BY <4>1, <4>2, LeastIsIn
      <4>4. Min(said) \in said
        BY <4>3 DEF Min
      <4> QED BY <4>1, <4>4 DEF said
    <3>2. more[first] = lines[first]
      BY <1>1, <3>1
    <3>3. Instruction(more, New(i)) = Instruction(lines, Old(i))
      BY <1>6, <3>2 DEF Instruction
    <3> HIDE DEF New, Old
    <3> QED BY <1>6, <3>3
  <2> QED BY <2>1, <2>2
<1>8. ~NewRead(n + 1)
  <2>1. n + 1 \in 1..(n + 2) /\ \A j \in 1..(n + 2) : n + 1 <= j => j = n + 1 \/ (n + 1 < j)
    BY <1>1
  <2>2. New(n + 1) \in SUBSET {n + 1}
    <3> SUFFICES ASSUME NEW j \in New(n + 1), j # n + 1 PROVE FALSE
      OBVIOUS
    <3>1. j \in 1..(n + 2) /\ n + 1 <= j /\ \A k \in 1..(n + 2) : n + 1 <= k /\ k < j => more[k].ends
      BY DEF Joined
    <3>2. n + 1 < j /\ n + 1 <= n + 1
      BY <1>1, <2>1, <3>1
    <3> QED BY <1>4, <2>1, <3>1, <3>2
  <2>3. Said(more, New(n + 1)) = {}
    <3> HIDE DEF New
    <3> QED BY <1>4, <2>2 DEF Said
  <2> QED BY <2>3
<1>9. NewRead(n + 2) /\ Instruction(more, New(n + 2)) = [op |-> "USER", of |-> UserAdded.of, has |-> {}]
  <2>1. n + 2 \in 1..(n + 2) /\ \A j \in 1..(n + 2) : n + 2 <= j => j = n + 2
    BY <1>1
  <2>2. New(n + 2) = {n + 2}
    <3>1. ~\E k \in 1..(n + 2) : n + 2 <= k /\ k < n + 2
      BY <1>1
    <3>2. n + 2 <= n + 2
      BY <1>1
    <3> QED BY <2>1, <3>1, <3>2 DEF Joined
  <2>3. n + 2 \in Starts(more, 1..(n + 2))
    <3>1. \A k \in 1..(n + 2) : k < n + 2 /\ more[k].ends => k < n + 1 /\ n + 1 < n + 2
      BY <1>1, <1>4
    <3>2. n + 1 \in 1..(n + 2)
      BY <1>1
    <3> QED BY <2>1, <3>1, <3>2 DEF Starts
  <2>4. Said(more, {n + 2}) = {n + 2}
    BY <1>5 DEF Said
  <2>5. Min({n + 2}) = n + 2
    <3>1. \A x \in {n + 2} : x <= n + 2
      BY <1>1
    <3> QED BY <3>1 DEF Min
  <2>6. Instruction(more, {n + 2}) = [op |-> "USER", of |-> UserAdded.of, has |-> {}]
    BY <1>5, <2>4, <2>5 DEF Instruction
  <2>7. Instruction(more, {n + 2}).op = "USER"
    BY <2>6
  <2>8. Said(more, New(n + 2)) # {} /\ Instruction(more, New(n + 2)).op \notin {"comment", "text"}
    BY <2>2, <2>4, <2>7
  <2> HIDE DEF New
  <2> QED BY <2>2, <2>3, <2>6, <2>8
<1> HIDE DEF OldRead, NewRead, Old, New
<1>10. \A j \in 1..(n + 2) : j \in 1..n \/ j = n + 1 \/ j = n + 2
  BY <1>1
<1>11. \A j \in 1..n : j \in 1..(n + 2)
  BY <1>1
<1>12. n + 2 \in 1..(n + 2) /\ n + 2 \notin 1..n
  BY <1>1
<1>13. {j \in 1..(n + 2) : NewRead(j)} = {j \in 1..n : OldRead(j)} \cup {n + 2}
  BY <1>7, <1>8, <1>9, <1>10, <1>11, <1>12
<1>14. \A i \in DOMAIN Instructions(lines) : Instructions(more)[i] = Instructions(lines)[i]
  BY <1>2, <1>3, <1>7, <1>13
<1>15. Instructions(more)[n + 2] = [op |-> "USER", of |-> UserAdded.of, has |-> {}]
  BY <1>3, <1>9, <1>13
<1>16. DOMAIN Instructions(more) = DOMAIN Instructions(lines) \cup {n + 2}
  BY <1>2, <1>3, <1>13
<1>17. /\ Instructions(more)[n + 2].op = "USER"
       /\ Instructions(more)[n + 2].of = UserAdded.of
       /\ Instructions(more)[n + 2].has = {}
  BY <1>15
<1> QED BY <1>14, <1>16, <1>17 DEF n

\* A file in which no USER is written has no user.
LEMMA NobodyIsWritten ==
  ASSUME NEW lines, IsList(lines), \A i \in DOMAIN lines : lines[i].op # "USER"
  PROVE  /\ \A i \in DOMAIN Instructions(lines) : Instructions(lines)[i].op # "USER"
         /\ FinalUser(Stages(Instructions(lines))) = None
<1> DEFINE ins == Instructions(lines)
           k == Walk(UpToUser(Stages(ins)), Stages(ins))
<1>1. \A i \in DOMAIN ins : ins[i].op # "USER" /\ i \in 1..Len(lines)
  BY SaidOnLines
<1>2. Len(lines) \in Nat
  BY DEF IsList
<1>3. DOMAIN ins \in SUBSET (1..Len(lines))
  BY <1>1
<1> HIDE DEF ins
<1>4. k = 0 \/ k \in DOMAIN Stages(ins)
  BY <1>2, <1>3, TheUserIsOfAStage
<1>5. \A j \in DOMAIN Stages(ins) : Stages(ins)[j].user = None
  BY <1>1 DEF Stages
<1> HIDE DEF k
<1>6. FinalUser(Stages(ins)) = IF k = 0 THEN None ELSE Stages(ins)[k].user
  BY DEF FinalUser, UserAt, k
<1> QED BY <1>1, <1>4, <1>5, <1>6 DEF ins

\* The same rules hold of instructions that differ in a USER without traits.
LEMMA AnotherUserBreaksNothing ==
  ASSUME NEW ins, NEW added, NEW last, last \notin DOMAIN ins,
         DOMAIN added = DOMAIN ins \cup {last}, \A i \in DOMAIN ins : added[i] = ins[i],
         added[last].op = "USER", added[last].has = {}
  PROVE  /\ SecretWritten(added) => SecretWritten(ins)
         /\ Escalates(added) => Escalates(ins)
         /\ Unchecked(added) => Unchecked(ins)
         /\ RunsRemoteScript(added) => RunsRemoteScript(ins)
         /\ SetsUid(added) => SetsUid(ins)
         /\ MovingBase(added) => MovingBase(ins)
<1>1. \A op, trait : Has(added, op, trait) => Has(ins, op, trait)
  BY DEF Has
<1>2. SecretWritten(added) => SecretWritten(ins)
  BY <1>1 DEF SecretWritten
<1>3. Unchecked(added) => Unchecked(ins)
  BY DEF Unchecked
<1>4. DOMAIN Stages(added) = DOMAIN Stages(ins) /\ \A k \in DOMAIN Stages(ins) : Stages(added)[k].of = Stages(ins)[k].of
  <2>1. DOMAIN Stages(added) = {i \in DOMAIN added : added[i].op = "FROM"}
    BY DEF Stages
  <2>2. DOMAIN Stages(ins) = {i \in DOMAIN ins : ins[i].op = "FROM"}
    BY DEF Stages
  <2>3. DOMAIN Stages(added) = DOMAIN Stages(ins)
    BY <2>1, <2>2
  <2>4. \A k \in DOMAIN Stages(added) : Stages(added)[k].of = added[k].of
    BY DEF Stages
  <2>5. \A k \in DOMAIN Stages(ins) : Stages(ins)[k].of = ins[k].of
    BY DEF Stages
  <2> QED BY <2>2, <2>3, <2>4, <2>5
<1>5. MovingBase(added) => MovingBase(ins)
  BY <1>4 DEF MovingBase, Named
<1> QED BY <1>1, <1>2, <1>3, <1>5 DEF Escalates, RunsRemoteScript, SetsUid

\* A USER at the end of a file is the one that counts.
LEMMA TheLastUserCounts ==
  ASSUME NEW ins, NEW n \in Nat, DOMAIN ins \in SUBSET (1..n), n \in DOMAIN ins,
         ins[n].op = "USER", ins[n].of # None, Uses(ins, "FROM")
  PROVE  FinalUser(Stages(ins)) = ins[n].of
<1> DEFINE stages == Stages(ins)
           froms == {i \in DOMAIN ins : ins[i].op = "FROM"}
           users(k) == {i \in DOMAIN ins : ins[i].op = "USER" /\ k < i /\ \A m \in froms : m <= k \/ i < m}
           top == Max({0} \cup DOMAIN stages)
<1>1. DOMAIN stages = froms /\ froms \in SUBSET (1..n) /\ froms # {} /\ IsFiniteSet(DOMAIN stages)
  BY StagesAreFinite DEF Uses
<1>2. \A k \in froms : stages[k].user = IF users(k) = {} THEN None ELSE ins[Max(users(k))].of
  BY DEF Stages
<1> HIDE DEF stages
<1>3. top \in froms /\ \A k \in froms : k <= top
  <2> DEFINE set == {0} \cup DOMAIN stages
  <2>1. set \in SUBSET (0..n) /\ set # {}
    BY <1>1
  <2>2. Max(set) \in set /\ \A k \in set : k <= Max(set)
    <3> HIDE DEF set
    <3> QED BY <2>1, LargestIsIn
  <2>3. \A k \in froms : k >= 1 /\ k \in Nat
    BY <1>1
  <2> HIDE DEF froms
  <2> QED BY <1>1, <2>2, <2>3
<1> HIDE DEF top
<1>4. top < n /\ top # 0
  <2>1. top \in 1..n /\ top # n
    BY <1>1, <1>3
  <2> QED BY <2>1
<1>5. n \in users(top) /\ users(top) \in SUBSET (0..n)
  BY <1>3, <1>4
<1>6. Max(users(top)) = n
  <2> DEFINE set == users(top)
  <2>1. set \in SUBSET (0..n) /\ n \in set
    BY <1>5
  <2> HIDE DEF set
  <2>2. Max(set) \in set /\ n <= Max(set)
    BY <2>1, LargestIsIn
  <2>3. Max(set) \in 0..n
    BY <2>1, <2>2
  <2>4. Max(set) = n
    BY <2>2, <2>3
  <2> QED BY <2>4 DEF set
<1>7. stages[top].user = ins[n].of
  <2> HIDE DEF users
  <2> QED BY <1>2, <1>3, <1>5, <1>6
<1>8. UpToUser(stages)[top] = top
  BY <1>1, <1>3, <1>7 DEF UpToUser
<1>9. Walk(UpToUser(stages), stages) \in {top}
  <2>1. Max({0} \cup DOMAIN stages) \in {top} /\ \A k \in {top} : UpToUser(stages)[k] \in {top}
    BY <1>8 DEF top
  <2> QED BY <1>1, <2>1, WalkStays
<1>10. Walk(UpToUser(stages), stages) = top
  BY <1>9
<1> QED BY <1>4, <1>7, <1>10 DEF FinalUser, UserAt, stages

\* Which rules a file breaks, one by one.
LEMMA ErrorsAre ==
  ASSUME NEW ins
  PROVE  /\ Errors(ins) \in SUBSET {"DF001", "DF002", "DF004", "DF009", "DF013", "DF014", "DF015"}
         /\ "DF001" \in Errors(ins) <=> MovingBase(ins)
         /\ "DF002" \in Errors(ins) <=> RunsAsRoot(ins)
         /\ "DF004" \in Errors(ins) <=> SecretWritten(ins)
         /\ "DF009" \in Errors(ins) <=> Escalates(ins)
         /\ "DF013" \in Errors(ins) <=> Unchecked(ins)
         /\ "DF014" \in Errors(ins) <=> RunsRemoteScript(ins)
         /\ "DF015" \in Errors(ins) <=> SetsUid(ins)
<1>1. /\ Fails(ins, "DF001") <=> MovingBase(ins)
      /\ Fails(ins, "DF002") <=> RunsAsRoot(ins)
      /\ Fails(ins, "DF004") <=> SecretWritten(ins)
      /\ Fails(ins, "DF009") <=> Escalates(ins)
      /\ Fails(ins, "DF013") <=> Unchecked(ins)
      /\ Fails(ins, "DF014") <=> RunsRemoteScript(ins)
      /\ Fails(ins, "DF015") <=> SetsUid(ins)
  BY DEF Fails
<1> QED BY <1>1 DEF Errors

\* Nothing is suggested but for a rule that is broken.
LEMMA SuggestionsHaveReasons ==
  ASSUME NEW ins, NEW context
  PROVE  Suggested(ins) \subseteq
           Errors(ins) \cup Warnings(ins, context) \cup (IF NotMinimal(ins) THEN {"DF001"} ELSE {})
<1>1. /\ SingleStage(ins) => "DF003" \in Warnings(ins, context)
      /\ CacheKept(ins) => "DF005" \in Warnings(ins, context)
      /\ Unwatched(ins) => "DF006" \in Warnings(ins, context)
      /\ Unlabelled(ins) => "DF007" \in Warnings(ins, context)
  <2>1. /\ Warns(ins, context, "DF003") <=> SingleStage(ins)
        /\ Warns(ins, context, "DF005") <=> CacheKept(ins)
        /\ Warns(ins, context, "DF006") <=> Unwatched(ins)
        /\ Warns(ins, context, "DF007") <=> Unlabelled(ins)
    BY DEF Warns
  <2> QED BY <2>1 DEF Warnings
<1>2. ~Uses(ins, "FROM") \/ FinalUser(Stages(ins)) = None => RunsAsRoot(ins)
  BY DEF RunsAsRoot, Root
<1>3. Has(ins, "ENV", "secret") => SecretWritten(ins)
  BY DEF SecretWritten
<1>4. ~Has(ins, "LABEL", "scanner") => Unlabelled(ins)
  BY DEF Unlabelled
<1> QED BY <1>1, <1>2, <1>3, <1>4, ErrorsAre DEF Suggested

\* Hardening a file in which no USER is written removes DF002 and adds nothing.
LEMMA HardeningAFileHelps ==
  ASSUME NEW lines, IsList(lines), NEW context
  PROVE  HardeningHelps(lines, context)
<1> DEFINE ins == Instructions(lines)
           more == lines \o <<BlankLine, UserAdded>>
           added == Instructions(more)
           last == Len(lines) + 2
<1>1. ASSUME \A line \in ToSet(lines) : line.op # "USER", Uses(ins, "FROM")
      PROVE  Errors(Instructions(HardenedFile(lines))) \subseteq Errors(ins) \ {"DF002"}
  <2>1. \A i \in DOMAIN lines : lines[i].op # "USER"
    BY <1>1 DEF ToSet
  <2>2. HardenedFile(lines) = more
    BY <1>1, <2>1, NobodyIsWritten DEF HardenedFile, BlankLine, UserAdded
  <2>3. /\ DOMAIN added = DOMAIN ins \cup {last}
        /\ \A i \in DOMAIN ins : added[i] = ins[i]
        /\ added[last].op = "USER" /\ added[last].of = UserAdded.of /\ added[last].has = {}
    BY AppendedReads
  <2>4. Len(lines) \in Nat /\ \A i \in DOMAIN ins : i \in 1..Len(lines)
    BY SaidOnLines DEF IsList
  <2> HIDE DEF ins, added
  <2>5. last \in Nat /\ last \notin DOMAIN ins /\ DOMAIN added \in SUBSET (1..last)
    BY <2>3, <2>4
  <2>6. UserAdded.of = [name |-> "appuser", uid |-> None]
    BY DEF UserAdded
  <2>7. Uses(added, "FROM")
    BY <1>1, <2>3 DEF Uses
  <2>8. FinalUser(Stages(added)) = UserAdded.of
    BY <2>3, <2>5, <2>6, <2>7, NobodyIsNoUser, TheLastUserCounts
  <2>9. ~RunsAsRoot(added)
    BY <2>6, <2>7, <2>8, NobodyIsNoUser DEF RunsAsRoot, Root
  <2>10. /\ SecretWritten(added) => SecretWritten(ins)
         /\ Escalates(added) => Escalates(ins)
         /\ Unchecked(added) => Unchecked(ins)
         /\ RunsRemoteScript(added) => RunsRemoteScript(ins)
         /\ SetsUid(added) => SetsUid(ins)
         /\ MovingBase(added) => MovingBase(ins)
    <3> HIDE DEF last
    <3> QED BY <2>3, <2>5, AnotherUserBreaksNothing
  <2>11. Errors(added) \subseteq Errors(ins) \ {"DF002"}
    BY <2>9, <2>10, ErrorsAre
  <2> QED BY <2>2, <2>11 DEF added
<1> HIDE DEF ins
<1>2. Suggested(ins) \subseteq
        Errors(ins) \cup Warnings(ins, context) \cup (IF NotMinimal(ins) THEN {"DF001"} ELSE {})
  BY SuggestionsHaveReasons
<1> QED BY <1>1, <1>2 DEF HardeningHelps, ins

(***************************************************************************)
(* For any file: what is called ready for production hides nothing from    *)
(* the builder (where comments stand apart and aliases are written once),  *)
(* and a hardened file has no error that it had not before                 *)
(* (dockerfile_validator.py).                                              *)
(***************************************************************************)
THEOREM EveryDockerfileIsSound == Spec => []DockerfileIsSound
<1> DEFINE Inv == topic = "file" => input \in FileInputs
<1>1. Init => Inv
  BY DEF Init
<1>2. Inv /\ [Judge]_vars => Inv'
  BY DEF Judge, vars
<1>3. Inv => DockerfileIsSound
  BY FilesAreLists, WhatIsReadyHidesNothing, HardeningAFileHelps DEF DockerfileIsSound, Asked
<1> QED BY <1>1, <1>2, <1>3, PTL DEF Spec

-----------------------------------------------------------------------------
(***************************************************************************)
(* The bases of a file and their upgrades (base_upgrade.py, and the        *)
(* policies of policy.py that read the bases).                             *)
(***************************************************************************)
\* What a policy says of fewer bases it says of more, if it is told of one at all.
LEMMA MoreBasesSayMore ==
  ASSUME NEW policy, NEW few, NEW many,
         few.scanned = many.scanned, few.counts = many.counts, few.provenance = many.provenance,
         few.labels = many.labels, few.nonroot = many.nonroot,
         few.bases \subseteq many.bases, few.bases = {} => many.bases = {}
  PROVE  Policy!Violations(policy, few) \subseteq Policy!Violations(policy, many)
<1>1. /\ Policy!CheckScan(policy, few) = Policy!CheckScan(policy, many)
      /\ Policy!CheckCeilings(policy, few) = Policy!CheckCeilings(policy, many)
      /\ Policy!CheckNonroot(policy, few) = Policy!CheckNonroot(policy, many)
      /\ Policy!CheckLabels(policy, few) = Policy!CheckLabels(policy, many)
      /\ Policy!CheckProvenance(policy, few) = Policy!CheckProvenance(policy, many)
  BY DEF Policy!CheckScan, Policy!CheckCeilings, Policy!CheckNonroot, Policy!CheckLabels, Policy!CheckProvenance
<1>2. \A rule, small, large : small \subseteq large => Policy!Broken(rule, small) \subseteq Policy!Broken(rule, large)
  BY DEF Policy!Broken
<1>3. Policy!CheckBases(policy, few) \subseteq Policy!CheckBases(policy, many)
  <2> DEFINE loose(facts) == IF ~policy.pinned THEN {}
                             ELSE IF facts.bases = {} THEN {None} ELSE {base \in facts.bases : ~base.pinned}
             strange(facts) == IF policy.registries = {} THEN {}
                               ELSE {base \in facts.bases : base.registry \notin policy.registries}
  <2>1. loose(few) \subseteq loose(many) /\ strange(few) \subseteq strange(many)
    OBVIOUS
  <2>2. \A facts : Policy!CheckBases(policy, facts)
                     = Policy!Broken("pinned", loose(facts)) \cup Policy!Broken("registry", strange(facts))
    BY DEF Policy!CheckBases
  <2> HIDE DEF loose, strange
  <2> QED BY <1>2, <2>1, <2>2
<1> QED BY <1>1, <1>3 DEF Policy!Violations

\* The bases of a file, each with its line.
LEMMA BasesHaveLines ==
  ASSUME NEW lines, IsList(lines)
  PROVE  /\ Len(lines) \in Nat /\ DOMAIN lines = 1..Len(lines)
         /\ \A base \in Bases(lines) :
              base.line \in 1..Len(lines) /\ lines[base.line].op = "FROM" /\ base = Base(lines, base.line)
         /\ \A i \in DOMAIN lines : lines[i].op = "FROM" => Base(lines, i) \in Bases(lines) /\ Base(lines, i).line = i
<1>1. Len(lines) \in Nat /\ DOMAIN lines = 1..Len(lines)
  BY DEF IsList
<1>2. \A i : Base(lines, i).line = i
  BY DEF Base
<1> QED BY <1>1, <1>2 DEF Bases

\* Of the bases of one name and tag the record keeps one.
LEMMA TheRecordKeepsOne ==
  ASSUME NEW lines, IsList(lines), NEW registry_of
  PROVE  /\ RecordedBases(lines, registry_of) \subseteq BaseFacts(lines, registry_of)
         /\ RecordedBases(lines, registry_of) = {} => BaseFacts(lines, registry_of) = {}
<1> DEFINE same(base) == {b \in Bases(lines) : b.name = base.name /\ b.tag = base.tag}
           fact(base) == [line |-> base.line, registry |-> registry_of[base.name], pinned |-> base.digest # None]
<1>1. RecordedBases(lines, registry_of) \subseteq BaseFacts(lines, registry_of)
  BY DEF RecordedBases
<1>2. ASSUME NEW base \in Bases(lines) PROVE RecordedBases(lines, registry_of) # {}
  <2> DEFINE at == {b.line : b \in same(base)}
  <2>1. at \in SUBSET (0..Len(lines)) /\ at # {} /\ Len(lines) \in Nat
    BY BasesHaveLines
  <2>2. Max(at) \in at
    <3> HIDE DEF at
    <3> QED BY <2>1, LargestIsIn
  <2>3. PICK last \in same(base) : last.line = Max(at)
    BY <2>2
  <2>4. same(last) = same(base)
    BY <2>3
  <2>5. last.line = Max({b.line : b \in same(last)})
    BY <2>3, <2>4
  <2>6. fact(last) \in BaseFacts(lines, registry_of) /\ fact(last).line = last.line
    BY DEF BaseFacts
  <2>7. fact(last) \in RecordedBases(lines, registry_of)
    <3> HIDE DEF fact
    <3> QED BY <2>3, <2>5, <2>6 DEF RecordedBases
  <2> QED BY <2>7
<1>3. BaseFacts(lines, registry_of) # {} => Bases(lines) # {}
  BY DEF BaseFacts
<1> QED BY <1>1, <1>2, <1>3

\* So what is said after the scan was said before the build.
LEMMA NothingIsSaidLate ==
  ASSUME NEW lines, IsList(lines), NEW policy, NEW registry_of, NEW labels
  PROVE  PreflightSaysIt(policy, lines, registry_of, labels)
<1> DEFINE few == FactsOf(lines, RecordedBases(lines, registry_of), labels)
           many == FactsOf(lines, BaseFacts(lines, registry_of), labels)
<1>1. /\ few.scanned = many.scanned /\ few.counts = many.counts /\ few.provenance = many.provenance
      /\ few.labels = many.labels /\ few.nonroot = many.nonroot
      /\ few.bases = RecordedBases(lines, registry_of) /\ many.bases = BaseFacts(lines, registry_of)
  BY DEF FactsOf
<1> HIDE DEF few, many
<1>2. \A p : Policy!Violations(p, few) \subseteq Policy!Violations(p, many)
  BY <1>1, TheRecordKeepsOne, MoreBasesSayMore
<1> QED BY <1>2 DEF PreflightSaysIt, AfterScan, Preflight, few, many

\* A status, one by one.
LEMMA StatusesAre ==
  ASSUME NEW base, NEW today
  PROVE  /\ Status(base, today) \in {"UNPINNED", "PINNED_STALE"} <=>
              CurrentDigest(base, today) # None /\ base.digest # CurrentDigest(base, today)
         /\ Status(base, today) = "PINNED_CURRENT" <=>
              CurrentDigest(base, today) # None /\ base.digest = CurrentDigest(base, today)
<1>1. CASE CurrentDigest(base, today) = None
  BY <1>1 DEF Status
<1>2. CASE CurrentDigest(base, today) # None
  BY <1>2 DEF Status
<1> QED BY <1>1, <1>2

\* The line of an ARG is that of an ARG that has a default.
LEMMA ArgsHaveLines ==
  ASSUME NEW lines, IsList(lines), NEW name
  PROVE  ArgLine(lines, name) = 0
           \/ /\ ArgLine(lines, name) \in DOMAIN lines /\ lines[ArgLine(lines, name)].op = "ARG"
              /\ lines[ArgLine(lines, name)].of.name = name
<1> DEFINE set == {i \in DOMAIN lines : lines[i].op = "ARG" /\ "default" \in lines[i].has /\ lines[i].of.name = name} \cup {0}
<1>1. Len(lines) \in Nat /\ DOMAIN lines = 1..Len(lines)
  BY BasesHaveLines
<1>2. set \in SUBSET (0..Len(lines)) /\ set # {}
  BY <1>1
<1>3. Max(set) \in set
  <2> HIDE DEF set
  <2> QED BY <1>1, <1>2, LargestIsIn
<1>4. ArgLine(lines, name) = Max(set)
  BY DEF ArgLine
<1>5. \A x \in set : x = 0 \/ (x \in DOMAIN lines /\ lines[x].op = "ARG" /\ lines[x].of.name = name)
  OBVIOUS
<1> HIDE DEF set
<1> QED BY <1>3, <1>4, <1>5

\* What each line of an upgraded file is.
LEMMA UpgradedLines ==
  ASSUME NEW lines, IsList(lines), NEW today, NEW after, after = Rewrite(lines, today)
  PROVE  /\ DOMAIN after = DOMAIN lines /\ IsList(after)
         /\ \A i \in DOMAIN lines :
              /\ after[i].op = lines[i].op /\ after[i].has = lines[i].has /\ after[i].ends = lines[i].ends
              /\ lines[i].op = "FROM" =>
                   IF Base(lines, i) \in FromEdits(lines, today)
                   THEN after[i].of = Pinned(lines[i].of, Base(lines, i), today) ELSE after[i] = lines[i]
              /\ lines[i].op = "ARG" =>
                   /\ ArgEdits(lines, today, i) = {} => after[i] = lines[i]
                   /\ ArgEdits(lines, today, i) # {} =>
                        /\ after[i].of.name = lines[i].of.name
                        /\ \E last \in ArgEdits(lines, today, i) : after[i].of.value = CurrentDigest(last, today)
              /\ lines[i].op \notin {"FROM", "ARG"} => after[i] = lines[i]
<1>1. /\ Len(lines) \in Nat /\ DOMAIN lines = 1..Len(lines)
      /\ \A base \in Bases(lines) :
           base.line \in 1..Len(lines) /\ lines[base.line].op = "FROM" /\ base = Base(lines, base.line)
      /\ \A i \in DOMAIN lines : lines[i].op = "FROM" => Base(lines, i) \in Bases(lines) /\ Base(lines, i).line = i
  BY BasesHaveLines
<1> DEFINE From(i) == \E base \in FromEdits(lines, today) : base.line = i
           last(i) == Base(lines, Max({base.line : base \in ArgEdits(lines, today, i)}))
<1>2. after = [i \in DOMAIN lines |->
                 IF From(i) THEN Edited(lines[i], Pinned(lines[i].of, Base(lines, i), today))
                 ELSE IF ArgEdits(lines, today, i) = {} THEN lines[i]
                 ELSE Edited(lines[i], [name |-> lines[i].of.name, value |-> CurrentDigest(last(i), today)])]
  BY DEF Rewrite
<1>3. DOMAIN after = DOMAIN lines /\ IsList(after)
  <2>1. DOMAIN after = DOMAIN lines
    BY <1>2
  <2> DEFINE said == {after[i] : i \in DOMAIN after}
  <2>2. after = [i \in 1..Len(lines) |-> after[i]]
    BY <1>1, <1>2, <2>1
  <2>3. after \in Seq(said)
    <3>1. \A i \in 1..Len(lines) : after[i] \in said
      BY <1>1, <2>1
    <3> HIDE DEF said
    <3> QED BY <1>1, <2>2, <3>1
  <2> QED BY <2>1, <2>3 DEF IsList
<1>4. ASSUME NEW i \in DOMAIN lines
      PROVE  From(i) <=> lines[i].op = "FROM" /\ Base(lines, i) \in FromEdits(lines, today)
  BY <1>1 DEF FromEdits, Proposed
<1>5. ASSUME NEW i \in DOMAIN lines, ArgEdits(lines, today, i) # {}
      PROVE  lines[i].op = "ARG" /\ last(i) \in ArgEdits(lines, today, i)
  <2>1. PICK base \in ArgEdits(lines, today, i) : TRUE
    BY <1>5
  <2>2. base \in Bases(lines) /\ base.arg_line = i /\ i # 0
    BY <1>1, <2>1 DEF ArgEdits, Proposed
  <2>3. base = Base(lines, base.line)
    BY <1>1, <2>2
  <2>4. i = ArgLine(lines, lines[base.line].of.arg)
    BY <2>2, <2>3 DEF Base
  <2>5. lines[i].op = "ARG"
    BY <2>2, <2>4, ArgsHaveLines
  <2> DEFINE at == {b.line : b \in ArgEdits(lines, today, i)}
  <2>6. at \in SUBSET (0..Len(lines)) /\ at # {}
    BY <1>1, <2>1 DEF ArgEdits, Proposed
  <2>7. Max(at) \in at
    <3> HIDE DEF at
    <3> QED BY <1>1, <2>6, LargestIsIn
  <2>8. PICK b \in ArgEdits(lines, today, i) : b.line = Max(at)
    BY <2>7
  <2>9. b = Base(lines, b.line)
    BY <1>1, <2>8 DEF ArgEdits, Proposed
  <2>10. last(i) = Base(lines, Max(at))
    OBVIOUS
  <2> HIDE DEF at, last
  <2> QED BY <2>5, <2>8, <2>9, <2>10
<1> HIDE DEF From, last
<1>6. ASSUME NEW line, NEW of
      PROVE  Edited(line, of).op = line.op /\ Edited(line, of).has = line.has /\ Edited(line, of).of = of
  BY DEF Edited
<1>7. ASSUME NEW line, NEW of PROVE Edited(line, of).ends = line.ends
  BY DEF Edited
<1>8. ASSUME NEW i \in DOMAIN lines PROVE after[i].op = lines[i].op /\ after[i].has = lines[i].has
  BY <1>2, <1>6
<1>9. ASSUME NEW i \in DOMAIN lines PROVE after[i].ends = lines[i].ends
  BY <1>2, <1>7
<1>10. ASSUME NEW i \in DOMAIN lines, lines[i].op = "FROM"
       PROVE  IF Base(lines, i) \in FromEdits(lines, today)
              THEN after[i].of = Pinned(lines[i].of, Base(lines, i), today) ELSE after[i] = lines[i]
  <2>1. ArgEdits(lines, today, i) = {}
    BY <1>5, <1>10
  <2> QED BY <1>2, <1>4, <1>6, <1>10, <2>1
<1>11. ASSUME NEW i \in DOMAIN lines, lines[i].op = "ARG"
       PROVE  /\ ArgEdits(lines, today, i) = {} => after[i] = lines[i]
              /\ ArgEdits(lines, today, i) # {} =>
                   /\ after[i].of.name = lines[i].of.name
                   /\ \E l \in ArgEdits(lines, today, i) : after[i].of.value = CurrentDigest(l, today)
  <2>1. ~From(i)
    BY <1>4, <1>11
  <2>2. ArgEdits(lines, today, i) = {} => after[i] = lines[i]
    BY <1>2, <2>1
  <2>3. ASSUME ArgEdits(lines, today, i) # {}
        PROVE  after[i].of = [name |-> lines[i].of.name, value |-> CurrentDigest(last(i), today)]
    BY <1>2, <1>6, <2>1, <2>3
  <2>4. ASSUME ArgEdits(lines, today, i) # {}
        PROVE  after[i].of.name = lines[i].of.name /\ after[i].of.value = CurrentDigest(last(i), today)
    BY <2>3, <2>4
  <2> QED BY <1>5, <2>2, <2>4
<1>12. ASSUME NEW i \in DOMAIN lines, lines[i].op \notin {"FROM", "ARG"} PROVE after[i] = lines[i]
  <2>1. ~From(i) /\ ArgEdits(lines, today, i) = {}
    BY <1>4, <1>5, <1>12
  <2> QED BY <1>2, <2>1
<1> QED BY <1>3, <1>8, <1>9, <1>10, <1>11, <1>12

\* What an upgraded file declares: the same bases, of which some say another digest.
LEMMA UpgradedBases ==
  ASSUME NEW lines, IsList(lines), NEW today, NEW after, after = Rewrite(lines, today),
         NEW i \in DOMAIN lines, lines[i].op = "FROM"
  PROVE  LET base == Base(lines, i)
             now == Base(after, i)
         IN  /\ after[i].of.name = lines[i].of.name /\ after[i].of.alias = lines[i].of.alias
             /\ after[i].of.arg = lines[i].of.arg
             /\ now.line = i /\ now.name = base.name /\ TagOf(now) = TagOf(base)
             /\ CurrentDigest(now, today) = CurrentDigest(base, today)
             /\ now.arg_line = base.arg_line /\ now.templated = base.templated
             /\ now.digest = IF base.arg_line # 0 THEN after[base.arg_line].of.value
                             ELSE IF lines[i].of.arg # None THEN lines[i].of.arg ELSE after[i].of.digest
<1> DEFINE base == Base(lines, i)
           now == Base(after, i)
<1>1. /\ DOMAIN after = DOMAIN lines /\ IsList(after)
      /\ \A j \in DOMAIN lines :
           after[j].op = lines[j].op /\ after[j].has = lines[j].has
  BY UpgradedLines
<1>2. IF base \in FromEdits(lines, today) THEN after[i].of = Pinned(lines[i].of, base, today) ELSE after[i] = lines[i]
  BY UpgradedLines
<1>3. /\ after[i].of.name = lines[i].of.name /\ after[i].of.alias = lines[i].of.alias
      /\ after[i].of.arg = lines[i].of.arg
      /\ after[i].of.tag = lines[i].of.tag \/ after[i].of.tag = TagOf(base)
  BY <1>2 DEF Pinned
<1>4. \A j \in DOMAIN lines : lines[j].op = "ARG" => after[j].of.name = lines[j].of.name
  BY UpgradedLines
<1>5. \A name : ArgLine(after, name) = ArgLine(lines, name)
  BY <1>1, <1>4 DEF ArgLine
<1>6. /\ now.line = i /\ now.name = base.name /\ now.tag = after[i].of.tag /\ base.tag = lines[i].of.tag
      /\ now.arg_line = base.arg_line
      /\ base.arg_line = IF lines[i].of.arg = None THEN 0 ELSE ArgLine(lines, lines[i].of.arg)
      /\ now.digest = IF base.arg_line # 0 THEN after[base.arg_line].of.value
                      ELSE IF lines[i].of.arg # None THEN lines[i].of.arg ELSE after[i].of.digest
  BY <1>3, <1>5 DEF Base
<1>7. now.templated = base.templated
  <2>1. now.templated = (after[i].of.arg # None \/ "templated" \in after[i].has)
    BY DEF Base
  <2>2. base.templated = (lines[i].of.arg # None \/ "templated" \in lines[i].has)
    BY DEF Base
  <2> QED BY <1>1, <1>3, <2>1, <2>2
<1> HIDE DEF base, now
<1>8. TagOf(now) = TagOf(base)
  BY <1>3, <1>6 DEF TagOf
<1>9. CurrentDigest(now, today) = CurrentDigest(base, today)
  BY <1>6, <1>8 DEF CurrentDigest
<1> QED BY <1>3, <1>6, <1>7, <1>8, <1>9 DEF base, now

\* What an upgrade could write is pinned to what its tag is today.
LEMMA WhatIsProposedIsPinned ==
  ASSUME NEW lines, IsList(lines), NEW today, NEW after, after = Rewrite(lines, today), NoSharedArg(lines),
         NEW base \in Proposed(lines, today)
  PROVE  Status(Base(after, base.line), today) = "PINNED_CURRENT"
<1> DEFINE i == base.line
           now == Base(after, i)
<1>1. base \in Bases(lines) /\ Status(base, today) \in {"UNPINNED", "PINNED_STALE"} /\ (base.templated => base.arg_line # 0)
  BY DEF Proposed
<1>2. i \in DOMAIN lines /\ lines[i].op = "FROM" /\ base = Base(lines, i)
  BY <1>1, BasesHaveLines
<1> HIDE DEF i, now
<1>3. /\ CurrentDigest(now, today) = CurrentDigest(base, today)
      /\ now.digest = IF base.arg_line # 0 THEN after[base.arg_line].of.value
                      ELSE IF lines[i].of.arg # None THEN lines[i].of.arg ELSE after[i].of.digest
  BY <1>2, UpgradedBases DEF now
<1>4. CurrentDigest(base, today) # None
  BY <1>1, StatusesAre
<1>5. CASE base.arg_line = 0
  <2>1. base.templated = (lines[i].of.arg # None \/ "templated" \in lines[i].has)
    BY <1>2 DEF Base
  <2>2. lines[i].of.arg = None
    BY <1>1, <1>5, <2>1
  <2>3. base \in FromEdits(lines, today)
    BY <1>5 DEF FromEdits
  <2>4. after[i].of = Pinned(lines[i].of, base, today)
    BY <1>2, <2>3, UpgradedLines
  <2>5. now.digest = CurrentDigest(base, today)
    BY <1>3, <1>5, <2>2, <2>4 DEF Pinned
  <2> QED BY <1>3, <1>4, <2>5, StatusesAre DEF now, i
<1>6. CASE base.arg_line # 0
  <2> DEFINE at == base.arg_line
  <2>1. base \in ArgEdits(lines, today, at)
    BY DEF ArgEdits
  <2>2. at = ArgLine(lines, lines[i].of.arg)
    BY <1>2, <1>6 DEF Base
  <2>3. at \in DOMAIN lines /\ lines[at].op = "ARG"
    BY <1>6, <2>2, ArgsHaveLines
  <2>4. PICK last \in ArgEdits(lines, today, at) : after[at].of.value = CurrentDigest(last, today)
    BY <2>1, <2>3, UpgradedLines
  <2>5. last.name = base.name /\ TagOf(last) = TagOf(base)
    BY <1>1, <1>6, <2>4 DEF ArgEdits, Proposed, NoSharedArg
  <2>6. CurrentDigest(last, today) = CurrentDigest(base, today)
    BY <2>5 DEF CurrentDigest
  <2>7. now.digest = CurrentDigest(base, today)
    BY <1>3, <1>6, <2>4, <2>6
  <2> QED BY <1>3, <1>4, <2>7, StatusesAre DEF now, i
<1> QED BY <1>5, <1>6

\* After an upgrade nothing is left to propose.
LEMMA NothingIsLeftToPropose ==
  ASSUME NEW lines, IsList(lines), NEW today, NEW after, after = Rewrite(lines, today), NoSharedArg(lines)
  PROVE  Proposed(after, today) = {}
<1> SUFFICES ASSUME NEW now \in Proposed(after, today) PROVE FALSE
  OBVIOUS
<1> DEFINE i == now.line
           base == Base(lines, i)
<1>1. /\ DOMAIN after = DOMAIN lines /\ IsList(after)
      /\ \A j \in DOMAIN lines : after[j].op = lines[j].op
  BY UpgradedLines
<1>2. now \in Bases(after) /\ Status(now, today) \in {"UNPINNED", "PINNED_STALE"} /\ (now.templated => now.arg_line # 0)
  BY DEF Proposed
<1>3. i \in DOMAIN lines /\ lines[i].op = "FROM" /\ now = Base(after, i)
  BY <1>1, <1>2, BasesHaveLines
<1> HIDE DEF i
<1>4. base \in Bases(lines) /\ base.line = i
  BY <1>3, BasesHaveLines
<1>5. /\ CurrentDigest(now, today) = CurrentDigest(base, today)
      /\ now.arg_line = base.arg_line /\ now.templated = base.templated
      /\ now.digest = IF base.arg_line # 0 THEN after[base.arg_line].of.value
                      ELSE IF lines[i].of.arg # None THEN lines[i].of.arg ELSE after[i].of.digest
  BY <1>3, UpgradedBases
<1>6. base.digest = IF base.arg_line # 0 THEN lines[base.arg_line].of.value
                    ELSE IF lines[i].of.arg # None THEN lines[i].of.arg ELSE lines[i].of.digest
  BY DEF Base
<1>7. base.arg_line # 0 => base.arg_line = ArgLine(lines, lines[i].of.arg)
  BY DEF Base
<1> HIDE DEF base
<1>8. CurrentDigest(now, today) # None /\ now.digest # CurrentDigest(now, today)
  BY <1>2, StatusesAre
<1>9. base \notin Proposed(lines, today)
  <2> SUFFICES ASSUME base \in Proposed(lines, today) PROVE FALSE
    OBVIOUS
  <2>1. Status(Base(after, base.line), today) = "PINNED_CURRENT"
    BY WhatIsProposedIsPinned
  <2>2. Status(now, today) = "PINNED_CURRENT"
    BY <1>3, <1>4, <2>1
  <2> QED BY <1>2, <2>2
<1>10. base.digest = CurrentDigest(base, today)
  BY <1>2, <1>4, <1>5, <1>8, <1>9, StatusesAre DEF Proposed
<1>11. after[i] = lines[i]
  BY <1>3, <1>9, UpgradedLines DEF FromEdits, base
<1>12. CASE base.arg_line = 0
  BY <1>5, <1>6, <1>8, <1>10, <1>11, <1>12
<1>13. CASE base.arg_line # 0
  <2> DEFINE at == base.arg_line
  <2>1. at \in DOMAIN lines /\ lines[at].op = "ARG"
    BY <1>7, <1>13, ArgsHaveLines
  <2>2. CASE ArgEdits(lines, today, at) = {}
    <3>1. after[at] = lines[at]
      BY <2>1, <2>2, UpgradedLines
    <3> QED BY <1>5, <1>6, <1>8, <1>10, <1>13, <3>1
  <2>3. CASE ArgEdits(lines, today, at) # {}
    <3>1. PICK last \in ArgEdits(lines, today, at) : after[at].of.value = CurrentDigest(last, today)
      BY <2>1, <2>3, UpgradedLines
    <3>2. last.name = base.name /\ TagOf(last) = TagOf(base)
      BY <1>4, <1>13, <3>1 DEF ArgEdits, Proposed, NoSharedArg
    <3>3. CurrentDigest(last, today) = CurrentDigest(base, today)
      BY <3>2 DEF CurrentDigest
    <3> QED BY <1>5, <1>8, <1>13, <3>1, <3>3
  <2> QED BY <2>2, <2>3
<1> QED BY <1>12, <1>13

\* A file in which nothing is proposed is left as it is.
LEMMA NothingProposedNothingWritten ==
  ASSUME NEW lines, lines = [i \in DOMAIN lines |-> lines[i]], NEW today, Proposed(lines, today) = {}
  PROVE  Rewrite(lines, today) = lines
<1>1. FromEdits(lines, today) = {} /\ \A i : ArgEdits(lines, today, i) = {}
  BY DEF FromEdits, ArgEdits
<1> QED BY <1>1 DEF Rewrite

\* An upgrade, upgraded, proposes nothing, and so changes nothing.
LEMMA AnUpgradeSettles ==
  ASSUME NEW lines, IsList(lines), NEW today
  PROVE  UpgradeSettles(lines, today)
<1> DEFINE after == Rewrite(lines, today)
<1>1. DOMAIN after = DOMAIN lines /\ after = [i \in DOMAIN after |-> after[i]]
  BY DEF Rewrite
<1>2. \A i \in DOMAIN lines :
        lines[i].op = "FROM" => lines[i].of.name = after[i].of.name /\ lines[i].of.alias = after[i].of.alias
  <2> HIDE DEF after
  <2> QED BY UpgradedBases DEF after
<1>3. ASSUME NoSharedArg(lines)
      PROVE  /\ \A base \in Proposed(lines, today) : Status(Base(after, base.line), today) = "PINNED_CURRENT"
             /\ Rewrite(after, today) = after
  <2>1. Proposed(after, today) = {}
    BY <1>3, NothingIsLeftToPropose
  <2>2. Rewrite(after, today) = after
    <3> HIDE DEF after
    <3> QED BY <1>1, <2>1, NothingProposedNothingWritten
  <2> QED BY <1>3, <2>2, WhatIsProposedIsPinned
<1> QED BY <1>2, <1>3 DEF UpgradeSettles

\* Files of the same words read alike, whatever their lines name.
LEMMA SameWordsReadAlike ==
  ASSUME NEW lines, IsList(lines), NEW after, IsList(after), DOMAIN after = DOMAIN lines,
         \A i \in DOMAIN lines : after[i].op = lines[i].op /\ after[i].has = lines[i].has /\ after[i].ends = lines[i].ends
  PROVE  /\ DOMAIN Instructions(after) = DOMAIN Instructions(lines)
         /\ \A i \in DOMAIN Instructions(lines) :
              /\ Instructions(after)[i].op = Instructions(lines)[i].op
              /\ Instructions(after)[i].has = Instructions(lines)[i].has
              /\ \E j \in DOMAIN lines : /\ Instructions(lines)[i].op = lines[j].op
                                         /\ Instructions(lines)[i].of = lines[j].of
                                         /\ Instructions(after)[i].of = after[j].of
<1> DEFINE all == DOMAIN lines
           group(i) == Joined(lines, all, i)
           told(file, i) == Said(file, Joined(file, all, i)) # {}
           read(file) == {i \in {j \in Starts(file, all) : told(file, j)} :
                            Instruction(file, Joined(file, all, i)).op \notin {"comment", "text"}}
<1>1. Starts(after, all) = Starts(lines, all) /\ \A i : Joined(after, all, i) = group(i)
  BY DEF Starts, Joined
<1>2. \A i : group(i) \in SUBSET all
  BY DEF Joined
<1>3. \A set \in SUBSET all : Said(after, set) = Said(lines, set) /\ Said(lines, set) \in SUBSET all
  BY DEF Said
<1>4. all \in SUBSET Nat
  BY DEF IsList
<1>5. ASSUME NEW set \in SUBSET all, Said(lines, set) # {}
      PROVE  LET j == Min(Said(lines, set)) IN
             /\ j \in all /\ Instruction(lines, set).op = lines[j].op /\ Instruction(lines, set).of = lines[j].of
             /\ Instruction(after, set).op = lines[j].op /\ Instruction(after, set).of = after[j].of
             /\ Instruction(after, set).has = Instruction(lines, set).has
  <2> DEFINE said == Said(lines, set)
             j == Min(said)
  <2>1. said \in SUBSET Nat /\ said # {}
    BY <1>3, <1>4, <1>5
  <2> HIDE DEF said
  <2>2. \E x \in said : \A y \in said : x <= y
    BY <2>1, LeastIsIn
  <2>3. j \in said
    BY <2>2 DEF Min
  <2>4. j \in all
    BY <1>3, <2>3 DEF said
  <2>5. Said(after, set) = said
    BY <1>3 DEF said
  <2> HIDE DEF j, all
  <2>6. Instruction(lines, set) = [op |-> lines[j].op, of |-> lines[j].of, has |-> UNION {lines[i].has : i \in set}]
    BY DEF Instruction, said, j
  <2>7. Instruction(after, set) = [op |-> after[j].op, of |-> after[j].of, has |-> UNION {after[i].has : i \in set}]
    BY <2>5 DEF Instruction, j
  <2>8. {after[i].has : i \in set} = {lines[i].has : i \in set} /\ after[j].op = lines[j].op
    BY <2>4 DEF all
  <2>9. Instruction(lines, set).op = lines[j].op /\ Instruction(lines, set).of = lines[j].of
    BY <2>6
  <2>10. Instruction(after, set).op = lines[j].op /\ Instruction(after, set).of = after[j].of
    BY <2>7, <2>8
  <2>11. Instruction(after, set).has = Instruction(lines, set).has
    <3> DEFINE olds == {lines[i].has : i \in set}
               news == {after[i].has : i \in set}
    <3>1. Instruction(lines, set).has = UNION olds
      BY <2>6
    <3>2. Instruction(after, set).has = UNION news
      BY <2>7
    <3>3. news = olds
      BY <2>8
    <3> HIDE DEF olds, news
    <3> QED BY <3>1, <3>2, <3>3
  <2>12. j = Min(Said(lines, set))
    BY DEF said, j
  <2> HIDE DEF said
  <2> QED BY <2>4, <2>9, <2>10, <2>11, <2>12
<1>6. Instructions(lines) = [i \in read(lines) |-> Instruction(lines, group(i))]
  BY DEF Instructions, Read
<1>7. Instructions(after) = [i \in read(after) |-> Instruction(after, Joined(after, all, i))]
  BY DEF Instructions, Read
<1> HIDE DEF all, group
<1>8. read(after) = read(lines)
  <2>1. \A i : told(after, i) <=> told(lines, i)
    BY <1>1, <1>2, <1>3 DEF group
  <2>2. \A i : told(lines, i) => Instruction(after, Joined(after, all, i)).op = Instruction(lines, Joined(lines, all, i)).op
    BY <1>1, <1>2, <1>5 DEF group
  <2>3. ASSUME NEW i PROVE i \in read(after) <=> i \in read(lines)
    <3>1. told(after, i) <=> told(lines, i)
      BY <2>1
    <3>2. told(lines, i) => Instruction(after, Joined(after, all, i)).op = Instruction(lines, Joined(lines, all, i)).op
      BY <2>2
    <3> HIDE DEF told
    <3> QED BY <1>1, <3>1, <3>2
  <2> HIDE DEF read
  <2>4. read(after) \subseteq read(lines) /\ read(lines) \subseteq read(after)
    BY <2>3
  <2> QED BY <2>4
<1>9. \A i \in read(lines) : Said(lines, group(i)) # {}
  BY DEF group
<1> HIDE DEF read
<1>10. ASSUME NEW i \in read(lines)
       PROVE  /\ Instructions(after)[i].op = Instructions(lines)[i].op
              /\ Instructions(after)[i].has = Instructions(lines)[i].has
              /\ \E j \in all : /\ Instructions(lines)[i].op = lines[j].op
                                /\ Instructions(lines)[i].of = lines[j].of
                                /\ Instructions(after)[i].of = after[j].of
  <2>1. Instructions(lines)[i] = Instruction(lines, group(i)) /\ Instructions(after)[i] = Instruction(after, group(i))
    BY <1>1, <1>6, <1>7, <1>8
  <2> QED BY <1>2, <1>5, <1>9, <2>1
<1>11. DOMAIN Instructions(lines) = read(lines) /\ DOMAIN Instructions(after) = read(lines)
  BY <1>6, <1>7, <1>8
<1> QED BY <1>10, <1>11 DEF all

\* With the same users and no stage that is a base, the final user is the same.
LEMMA TheUserStays ==
  ASSUME NEW ins, NEW now, NEW n \in Nat, DOMAIN ins \in SUBSET (1..n), DOMAIN now = DOMAIN ins,
         \A i \in DOMAIN ins : now[i].op = ins[i].op /\ (ins[i].op = "USER" => now[i].of = ins[i].of),
         \A k \in DOMAIN Stages(ins) : Named(Stages(ins), Stages(ins)[k].of) = {},
         \A k \in DOMAIN Stages(now) : Named(Stages(now), Stages(now)[k].of) = {}
  PROVE  FinalUser(Stages(now)) = FinalUser(Stages(ins))
<1> DEFINE froms == {i \in DOMAIN ins : ins[i].op = "FROM"}
           users(k) == {i \in DOMAIN ins : ins[i].op = "USER" /\ k < i /\ \A m \in froms : m <= k \/ i < m}
           old == Stages(ins)
           new == Stages(now)
<1>1. DOMAIN old = froms /\ DOMAIN new = froms
  BY DEF Stages
<1>2. \A k \in froms : old[k].user = IF users(k) = {} THEN None ELSE ins[Max(users(k))].of
  BY DEF Stages
<1>3. \A k \in froms : new[k].user = IF users(k) = {} THEN None ELSE now[Max(users(k))].of
  <2> DEFINE nows == {i \in DOMAIN now : now[i].op = "FROM"}
             written(k) == {i \in DOMAIN now : now[i].op = "USER" /\ k < i /\ \A m \in nows : m <= k \/ i < m}
  <2>1. \A k \in nows : new[k].user = IF written(k) = {} THEN None ELSE now[Max(written(k))].of
    BY DEF Stages
  <2>2. nows = froms /\ \A k : written(k) = users(k)
    OBVIOUS
  <2> HIDE DEF nows, written, froms, users, new
  <2> QED BY <2>1, <2>2
<1>4. ASSUME NEW k \in froms PROVE new[k].user = old[k].user
  <2>1. CASE users(k) = {}
    BY <1>2, <1>3, <2>1
  <2>2. CASE users(k) # {}
    <3> DEFINE set == users(k)
    <3>1. set \in SUBSET (0..n) /\ set # {}
      BY <2>2
    <3>2. Max(set) \in set
      <4> HIDE DEF set
      <4> QED BY <3>1, LargestIsIn
    <3>3. now[Max(set)].of = ins[Max(set)].of
      BY <3>2
    <3> QED BY <1>2, <1>3, <2>2, <3>3
  <2> QED BY <2>1, <2>2
<1>5. /\ \A k \in froms : Parent(old, k) = Max({0})
      /\ \A k \in froms : Parent(new, k) = Max({0})
  BY <1>1 DEF Parent
<1> DEFINE k == Walk(UpToUser(old), old)
<1>6. k = 0 \/ k \in froms
  <2>1. k = 0 \/ k \in DOMAIN old
    BY TheUserIsOfAStage
  <2> HIDE DEF k, old, froms
  <2> QED BY <1>1, <2>1
<1> HIDE DEF old, new, froms, users
<1>7. UpToUser(new) = UpToUser(old)
  BY <1>1, <1>4, <1>5 DEF UpToUser
<1>8. Walk(UpToUser(new), new) = k
  BY <1>1, <1>7 DEF Walk
<1> HIDE DEF k
<1>9. FinalUser(old) = (IF k = 0 THEN None ELSE old[k].user) /\ FinalUser(new) = (IF k = 0 THEN None ELSE new[k].user)
  BY <1>8 DEF FinalUser, UserAt, k
<1>10. FinalUser(new) = FinalUser(old)
  BY <1>4, <1>6, <1>9
<1> QED BY <1>10 DEF old, new

\* What the instructions of an upgraded file are.
LEMMA UpgradedReads ==
  ASSUME NEW lines, IsList(lines), NEW today
  PROVE  LET ins == Instructions(lines)
             now == Instructions(Rewrite(lines, today))
         IN  /\ DOMAIN now = DOMAIN ins
             /\ \A i \in DOMAIN ins :
                  /\ now[i].op = ins[i].op /\ now[i].has = ins[i].has
                  /\ ins[i].op = "FROM" => /\ now[i].of.name = ins[i].of.name /\ now[i].of.alias = ins[i].of.alias
                                           /\ now[i].of = ins[i].of \/ now[i].of.digest # None
                  /\ ins[i].op = "USER" => now[i].of = ins[i].of
<1> DEFINE ins == Instructions(lines)
           after == Rewrite(lines, today)
           now == Instructions(after)
<1>1. /\ DOMAIN after = DOMAIN lines /\ IsList(after)
      /\ \A i \in DOMAIN lines :
           /\ after[i].op = lines[i].op /\ after[i].has = lines[i].has /\ after[i].ends = lines[i].ends
           /\ lines[i].op \notin {"FROM", "ARG"} => after[i] = lines[i]
  BY UpgradedLines
<1>2. ASSUME NEW j \in DOMAIN lines, lines[j].op = "FROM"
      PROVE  /\ after[j].of.name = lines[j].of.name /\ after[j].of.alias = lines[j].of.alias
             /\ after[j].of = lines[j].of \/ after[j].of.digest # None
  <2>1. after[j].of.name = lines[j].of.name /\ after[j].of.alias = lines[j].of.alias
    <3> HIDE DEF after
    <3> QED BY <1>2, UpgradedBases DEF after
  <2>2. CASE Base(lines, j) \in FromEdits(lines, today)
    <3>1. after[j].of = Pinned(lines[j].of, Base(lines, j), today)
      BY <1>2, <2>2, UpgradedLines
    <3>2. CurrentDigest(Base(lines, j), today) # None
      BY <2>2, StatusesAre DEF FromEdits, Proposed
    <3>3. after[j].of.digest # None
      BY <3>1, <3>2 DEF Pinned
    <3> QED BY <2>1, <3>3
  <2>3. CASE Base(lines, j) \notin FromEdits(lines, today)
    <3>1. after[j] = lines[j]
      BY <1>2, <2>3, UpgradedLines
    <3> QED BY <2>1, <3>1
  <2> QED BY <2>2, <2>3
<1> HIDE DEF after
<1>3. /\ DOMAIN now = DOMAIN ins
      /\ \A i \in DOMAIN ins :
           /\ now[i].op = ins[i].op /\ now[i].has = ins[i].has
           /\ \E j \in DOMAIN lines :
                ins[i].op = lines[j].op /\ ins[i].of = lines[j].of /\ now[i].of = after[j].of
  BY <1>1, SameWordsReadAlike
<1> HIDE DEF ins, now
<1>4. ASSUME NEW i \in DOMAIN ins
      PROVE  /\ ins[i].op = "FROM" => /\ now[i].of.name = ins[i].of.name /\ now[i].of.alias = ins[i].of.alias
                                      /\ now[i].of = ins[i].of \/ now[i].of.digest # None
             /\ ins[i].op = "USER" => now[i].of = ins[i].of
  <2>1. PICK j \in DOMAIN lines : ins[i].op = lines[j].op /\ ins[i].of = lines[j].of /\ now[i].of = after[j].of
    BY <1>3
  <2> QED BY <1>1, <1>2, <2>1
<1> QED BY <1>3, <1>4 DEF ins, now, after

\* Where no stage is a base, an upgraded file breaks no rule that the file did not break.
LEMMA AnUpgradeBreaksNothing ==
  ASSUME NEW lines, IsList(lines), NEW today, NoStageAsBase(lines)
  PROVE  Errors(Instructions(Rewrite(lines, today))) \subseteq Errors(Instructions(lines))
<1> DEFINE ins == Instructions(lines)
           now == Instructions(Rewrite(lines, today))
           n == Len(lines)
<1>1. /\ DOMAIN now = DOMAIN ins
      /\ \A i \in DOMAIN ins :
           /\ now[i].op = ins[i].op /\ now[i].has = ins[i].has
           /\ ins[i].op = "FROM" => /\ now[i].of.name = ins[i].of.name /\ now[i].of.alias = ins[i].of.alias
                                    /\ now[i].of = ins[i].of \/ now[i].of.digest # None
           /\ ins[i].op = "USER" => now[i].of = ins[i].of
  BY UpgradedReads
<1>2. n \in Nat /\ DOMAIN ins \in SUBSET (1..n)
  BY SaidOnLines, BasesHaveLines
<1>3. \A k \in DOMAIN Stages(ins) : Named(Stages(ins), Stages(ins)[k].of) = {}
  BY DEF NoStageAsBase
<1> HIDE DEF ins, now, n
<1>4. /\ DOMAIN Stages(ins) = {i \in DOMAIN ins : ins[i].op = "FROM"}
      /\ \A k \in DOMAIN Stages(ins) : Stages(ins)[k].of = ins[k].of
  BY <1>2, StagesAreFinite
<1>5. /\ DOMAIN Stages(now) = {i \in DOMAIN now : now[i].op = "FROM"}
      /\ \A k \in DOMAIN Stages(now) : Stages(now)[k].of = now[k].of
  BY <1>1, <1>2, StagesAreFinite
<1>6. DOMAIN Stages(now) = DOMAIN Stages(ins)
  BY <1>1, <1>4, <1>5
<1>7. ASSUME NEW k \in DOMAIN Stages(now)
      PROVE  /\ Stages(now)[k].of.name = Stages(ins)[k].of.name /\ Stages(now)[k].of.alias = Stages(ins)[k].of.alias
             /\ Stages(now)[k].of = Stages(ins)[k].of \/ Stages(now)[k].of.digest # None
  BY <1>1, <1>4, <1>5, <1>6
<1>8. ASSUME NEW k \in DOMAIN Stages(now) PROVE Named(Stages(now), Stages(now)[k].of) = {}
  <2> SUFFICES ASSUME NEW j \in DOMAIN Stages(now), Plain(Stages(now)[k].of), Stages(now)[j].of.alias = Stages(now)[k].of.name
               PROVE  FALSE
    BY DEF Named
  <2>1. Stages(now)[k].of.digest = None
    BY DEF Plain
  <2>2. Plain(Stages(ins)[k].of)
    BY <1>7, <2>1
  <2>3. Stages(ins)[j].of.alias = Stages(ins)[k].of.name
    BY <1>7
  <2>4. j \in Named(Stages(ins), Stages(ins)[k].of)
    BY <1>6, <2>2, <2>3 DEF Named
  <2> QED BY <1>3, <1>6, <2>4
<1>9. FinalUser(Stages(now)) = FinalUser(Stages(ins))
  BY <1>1, <1>2, <1>3, <1>8, TheUserStays
<1>10. \A op, trait : Has(now, op, trait) <=> Has(ins, op, trait)
  BY <1>1 DEF Has
<1>11. \A op : Uses(now, op) <=> Uses(ins, op)
  BY <1>1 DEF Uses
<1>12. MovingBase(now) => MovingBase(ins)
  <2> SUFFICES ASSUME NEW k \in DOMAIN Stages(now), Stages(now)[k].of.name # "scratch", Moving(Stages(now)[k].of)
               PROVE  MovingBase(ins)
    BY DEF MovingBase
  <2>1. Stages(now)[k].of.digest = None
    BY DEF Moving
  <2>2. Moving(Stages(ins)[k].of) /\ Stages(ins)[k].of.name # "scratch"
    BY <1>7, <2>1
  <2> QED BY <1>3, <1>6, <2>2 DEF MovingBase
<1>13. RunsAsRoot(now) <=> RunsAsRoot(ins)
  BY <1>9, <1>11 DEF RunsAsRoot
<1>14. SecretWritten(now) <=> SecretWritten(ins)
  BY <1>1, <1>10 DEF SecretWritten
<1>15. Unchecked(now) <=> Unchecked(ins)
  BY <1>1 DEF Unchecked
<1>16. /\ Escalates(now) <=> Escalates(ins)
       /\ RunsRemoteScript(now) <=> RunsRemoteScript(ins)
       /\ SetsUid(now) <=> SetsUid(ins)
  BY <1>10 DEF Escalates, RunsRemoteScript, SetsUid
<1>17. Errors(now) \subseteq Errors(ins)
  BY <1>12, <1>13, <1>14, <1>15, <1>16, ErrorsAre
<1> QED BY <1>17 DEF ins, now

\* With every base rewritten, every base has a digest.
LEMMA AnUpgradePins ==
  ASSUME NEW lines, IsList(lines), NEW today, NEW after, after = Rewrite(lines, today),
         Proposed(lines, today) = Bases(lines), NEW now \in Bases(after)
  PROVE  now.digest # None
<1> DEFINE i == now.line
           base == Base(lines, i)
<1>1. DOMAIN after = DOMAIN lines /\ IsList(after) /\ \A j \in DOMAIN lines : after[j].op = lines[j].op
  BY UpgradedLines
<1>2. i \in DOMAIN lines /\ lines[i].op = "FROM" /\ now = Base(after, i)
  BY <1>1, BasesHaveLines
<1> HIDE DEF i
<1>3. base \in Bases(lines) /\ base.line = i
  BY <1>2, BasesHaveLines
<1>4. now.digest = IF base.arg_line # 0 THEN after[base.arg_line].of.value
                   ELSE IF lines[i].of.arg # None THEN lines[i].of.arg ELSE after[i].of.digest
  BY <1>2, UpgradedBases
<1>5. CurrentDigest(base, today) # None
  BY <1>3, StatusesAre DEF Proposed
<1>6. CASE base.arg_line = 0
  <2>1. lines[i].of.arg = None
    <3>1. ~base.templated
      BY <1>3, <1>6 DEF Proposed
    <3> QED BY <3>1 DEF Base
  <2>2. base \in FromEdits(lines, today)
    BY <1>3, <1>6 DEF FromEdits
  <2>3. after[i].of = Pinned(lines[i].of, base, today)
    BY <1>2, <2>2, UpgradedLines
  <2>4. after[i].of.digest = CurrentDigest(base, today)
    BY <2>3 DEF Pinned
  <2> HIDE DEF base
  <2> QED BY <1>4, <1>5, <1>6, <2>1, <2>4
<1>7. CASE base.arg_line # 0
  <2> DEFINE at == base.arg_line
  <2>1. at = ArgLine(lines, lines[i].of.arg)
    BY <1>7 DEF Base
  <2>2. at \in DOMAIN lines /\ lines[at].op = "ARG"
    BY <1>7, <2>1, ArgsHaveLines
  <2> HIDE DEF base
  <2>3. base \in ArgEdits(lines, today, at)
    BY <1>3 DEF ArgEdits
  <2>4. PICK last \in ArgEdits(lines, today, at) : after[at].of.value = CurrentDigest(last, today)
    BY <2>2, <2>3, UpgradedLines
  <2>5. CurrentDigest(last, today) # None
    BY StatusesAre DEF ArgEdits, Proposed
  <2> QED BY <1>4, <1>7, <2>4, <2>5
<1> QED BY <1>6, <1>7

\* An upgraded file breaks no policy that the file did not, and pins what it can.
LEMMA AnUpgradeOnlyHelps ==
  ASSUME NEW lines, IsList(lines), NEW today
  PROVE  UpgradeOnlyHelps(lines, today)
BY AnUpgradeBreaksNothing, AnUpgradePins DEF UpgradeOnlyHelps

-----------------------------------------------------------------------------
(***************************************************************************)
(* The Dockerfiles that recipes write (base_recipe.py), read and upgraded. *)
(***************************************************************************)
\* Two lists are a list of what is in either.
IsJoined(u, s, t) ==
  /\ IsList(u) /\ Len(u) = Len(s) + Len(t) /\ Len(s) \in Nat /\ Len(t) \in Nat
  /\ DOMAIN s = 1..Len(s) /\ DOMAIN t = 1..Len(t) /\ DOMAIN u = 1..(Len(s) + Len(t))
  /\ \A i \in DOMAIN s : u[i] = s[i]
  /\ \A i \in DOMAIN t : u[Len(s) + i] = t[i]
  /\ \A i \in DOMAIN u : (\E j \in DOMAIN s : u[i] = s[j]) \/ (\E j \in DOMAIN t : u[i] = t[j])
\* The concatenation of two lists is joined from them.
LEMMA ListsAreJoined ==
  ASSUME NEW s, IsList(s), NEW t, IsList(t)
  PROVE  IsJoined(s \o t, s, t)
<1> DEFINE all == {s[i] : i \in DOMAIN s} \cup {t[i] : i \in DOMAIN t}
           u == s \o t
<1>1. s \in Seq(all) /\ t \in Seq(all)
  BY DEF IsList
<1> HIDE DEF all
<1>2. u \in Seq(all) /\ Len(u) = Len(s) + Len(t) /\ Len(s) \in Nat /\ Len(t) \in Nat
  BY <1>1
<1>3. DOMAIN s = 1..Len(s) /\ DOMAIN t = 1..Len(t) /\ DOMAIN u = 1..(Len(s) + Len(t))
  BY <1>1, <1>2
<1>4. \A i \in 1..(Len(s) + Len(t)) : u[i] = IF i <= Len(s) THEN s[i] ELSE t[i - Len(s)]
  BY <1>1, <1>2
<1> HIDE DEF u
<1>5. \A i \in DOMAIN s : u[i] = s[i]
  BY <1>2, <1>3, <1>4
<1>6. \A i \in DOMAIN t : u[Len(s) + i] = t[i]
  <2> TAKE i \in DOMAIN t
  <2>1. Len(s) + i \in 1..(Len(s) + Len(t)) /\ ~(Len(s) + i <= Len(s)) /\ (Len(s) + i) - Len(s) = i
    BY <1>2, <1>3
  <2> QED BY <1>4, <2>1
<1>7. \A i \in DOMAIN u : (\E j \in DOMAIN s : u[i] = s[j]) \/ (\E j \in DOMAIN t : u[i] = t[j])
  <2> TAKE i \in DOMAIN u
  <2>1. CASE i <= Len(s)
    <3>1. i \in DOMAIN s
      BY <1>2, <1>3, <2>1
    <3> QED BY <1>5, <3>1
  <2>2. CASE ~(i <= Len(s))
    <3>1. i - Len(s) \in DOMAIN t
      BY <1>2, <1>3, <2>2
    <3> QED BY <1>3, <1>4, <2>2, <3>1
  <2> QED BY <2>1, <2>2
<1>8. IsList(u)
  <2> DEFINE said == {u[i] : i \in DOMAIN u}
  <2>1. u = [i \in 1..(Len(s) + Len(t)) |-> u[i]]
    BY <1>2, <1>3
  <2>2. u \in Seq(said)
    <3>1. \A i \in 1..(Len(s) + Len(t)) : u[i] \in said
      BY <1>3
    <3>2. Len(s) + Len(t) \in Nat
      BY <1>2
    <3> HIDE DEF said
    <3> QED BY <2>1, <3>1, <3>2
  <2> QED BY <2>2 DEF IsList
<1> QED BY <1>2, <1>3, <1>5, <1>6, <1>7, <1>8 DEF u, IsJoined

\* A line that no backslash joins to another is an instruction.
LEMMA ALineByItself ==
  ASSUME NEW lines, IsList(lines), NEW i \in DOMAIN lines, ~lines[i].ends,
         lines[i].op \notin {"blank", "comment", "text"}, i = 1 \/ (i - 1 \in DOMAIN lines /\ ~lines[i - 1].ends)
  PROVE  /\ i \in DOMAIN Instructions(lines)
         /\ Instructions(lines)[i].op = lines[i].op /\ Instructions(lines)[i].of = lines[i].of
<1> DEFINE all == DOMAIN lines
           group(j) == Joined(lines, all, j)
           told == {j \in Starts(lines, all) : Said(lines, group(j)) # {}}
           read == {j \in told : Instruction(lines, group(j)).op \notin {"comment", "text"}}
<1>1. all = 1..Len(lines) /\ Len(lines) \in Nat
  BY DEF IsList
<1>2. Instructions(lines) = [j \in read |-> Instruction(lines, group(j))]
  BY DEF Instructions, Read
<1> HIDE DEF all
<1>3. group(i) = {i}
  <2>1. i \in group(i)
    <3>1. i \in all /\ i <= i /\ \A k \in all : ~(i <= k /\ k < i)
      BY <1>1 DEF all
    <3> QED BY <3>1 DEF Joined
  <2>2. ASSUME NEW j \in group(i) PROVE j = i
    <3>1. j \in all /\ i <= j /\ (i < j => lines[i].ends)
      <4>1. i \in all /\ i <= i
        BY <1>1 DEF all
      <4> QED BY <4>1 DEF Joined
    <3> QED BY <1>1, <3>1 DEF all
  <2> HIDE DEF group
  <2> QED BY <2>1, <2>2
<1>4. i \in Starts(lines, all)
  <2> SUFFICES ASSUME NEW k \in all, k < i, lines[k].ends PROVE \E j \in all : k < j /\ j < i
    BY DEF Starts, all
  <2>1. i # 1
    BY <1>1
  <2>2. i - 1 \in all /\ k # i - 1
    BY <2>1 DEF all
  <2>3. k < i - 1 /\ i - 1 < i
    BY <1>1, <2>2 DEF all
  <2> QED BY <2>2, <2>3
<1>5. Said(lines, {i}) = {i} /\ Min({i}) = i
  <2>1. i <= i
    BY <1>1 DEF all
  <2> QED BY <2>1 DEF Said, Min
<1>6. Instruction(lines, {i}).op = lines[i].op /\ Instruction(lines, {i}).of = lines[i].of
  BY <1>5 DEF Instruction
<1>7. i \in read
  <2>1. Said(lines, group(i)) # {} /\ Instruction(lines, group(i)).op \notin {"comment", "text"}
    BY <1>3, <1>5, <1>6
  <2> HIDE DEF group
  <2> QED BY <1>4, <2>1
<1> HIDE DEF read, group
<1>8. DOMAIN Instructions(lines) = read /\ Instructions(lines)[i] = Instruction(lines, group(i))
  BY <1>2, <1>7
<1> QED BY <1>3, <1>6, <1>7, <1>8

\* What the lines of a recipe can be.
Commands == {"FROM", "ARG", "LABEL", "RUN", "USER", "WORKDIR"}
Traits == {"minimal", "default", "scanner", "maintainer", "manager", "cleaned", "unpinned"}

\* What a recipe's lines are: of these words, and with one FROM and one ARG.
From(recipe) ==
  [name |-> recipe.runtime, tag |-> Image(recipe.runtime, recipe.family).tag, digest |-> None,
   arg |-> IF recipe.digest = None THEN None ELSE "BASE_DIGEST", alias |-> None]
Argument(recipe) == [name |-> "BASE_DIGEST", value |-> recipe.digest]
OfRecipe(recipe, line) ==
  /\ line.op \in Commands \cup {"comment", "blank", "text"} /\ line.has \subseteq Traits
  /\ line.op = "FROM" => line.of = From(recipe)
  /\ line.op = "ARG" => line.of = Argument(recipe) /\ recipe.digest # None
OfRecipes(recipe, lines) == IsList(lines) /\ \A i \in DOMAIN lines : OfRecipe(recipe, lines[i])

\* Lines of a recipe, joined, are lines of it.
LEMMA PartsMakeARecipe ==
  ASSUME NEW recipe, NEW s, OfRecipes(recipe, s), NEW t, OfRecipes(recipe, t)
  PROVE  OfRecipes(recipe, s \o t)
<1>1. IsList(s) /\ IsList(t)
  BY DEF OfRecipes
<1> DEFINE u == s \o t
<1>2. IsJoined(u, s, t)
  BY <1>1, ListsAreJoined
<1> HIDE DEF u
<1>3. IsList(u) /\ \A i \in DOMAIN u : (\E j \in DOMAIN s : u[i] = s[j]) \/ (\E j \in DOMAIN t : u[i] = t[j])
  BY <1>2 DEF IsJoined
<1>4. OfRecipes(recipe, u)
  BY <1>3 DEF OfRecipes
<1> QED BY <1>4 DEF u

\* The lines of which recipes are made, field by field.
LEMMA SomeLines ==
  /\ \A op, has : Text(op, has).op = op /\ Text(op, has).has = has /\ ~Text(op, has).ends
  /\ \A op, has : Going(op, has).op = op /\ Going(op, has).has = has
  /\ \A name : /\ UserLine(name).op = "USER" /\ UserLine(name).has = {} /\ ~UserLine(name).ends
               /\ UserLine(name).of = [name |-> name, uid |-> None]
<1>1. \A op, has : Text(op, has).op = op /\ Text(op, has).has = has
  BY DEF Text
<1>2. \A op, has : Text(op, has).ends = FALSE
  BY DEF Text
<1>3. \A op, has : Going(op, has).op = op /\ Going(op, has).has = has
  BY DEF Going
<1>4. \A name : UserLine(name).op = "USER" /\ UserLine(name).has = {} /\ UserLine(name).of = [name |-> name, uid |-> None]
  BY DEF UserLine
<1>5. \A name : UserLine(name).ends = FALSE
  BY DEF UserLine
<1> QED BY <1>1, <1>2, <1>3, <1>4, <1>5

\* The lines that are written without a look at the recipe are lines of it.
LEMMA PlainLines ==
  ASSUME NEW recipe, NEW op \in {"LABEL", "RUN", "WORKDIR", "comment", "blank", "text"}, NEW has \in SUBSET Traits, NEW name
  PROVE  OfRecipe(recipe, Text(op, has)) /\ OfRecipe(recipe, Going(op, has)) /\ OfRecipe(recipe, UserLine(name))
<1>1. op \in Commands \cup {"comment", "blank", "text"} /\ op # "FROM" /\ op # "ARG"
  BY DEF Commands
<1>2. "USER" \in Commands
  BY DEF Commands
<1>3. \A line : line.op = op /\ line.has = has => OfRecipe(recipe, line)
  BY <1>1 DEF OfRecipe
<1>4. \A line : line.op = "USER" /\ line.has = {} => OfRecipe(recipe, line)
  BY <1>2 DEF OfRecipe
<1>5. OfRecipe(recipe, Text(op, has))
  BY <1>3, SomeLines
<1>6. OfRecipe(recipe, Going(op, has))
  BY <1>3, SomeLines
<1>7. OfRecipe(recipe, UserLine(name))
  BY <1>4, SomeLines
<1> QED BY <1>5, <1>6, <1>7

\* How a recipe begins: with a FROM, and with an ARG if it is pinned.
LEMMA TheBaseComesFirst ==
  ASSUME NEW recipe, NEW image, image = Image(recipe.runtime, recipe.family)
  PROVE  LET lines == Pinning(recipe, image) IN
         /\ OfRecipes(recipe, lines) /\ DOMAIN lines = {1, 2, 3} /\ ~lines[1].ends /\ ~lines[2].ends /\ ~lines[3].ends
         /\ lines[3].op = "FROM" /\ lines[3].of = From(recipe)
         /\ recipe.digest # None => lines[1].op = "ARG" /\ lines[1].of = Argument(recipe) /\ lines[1].has = {"default"}
<1> DEFINE arg == IF recipe.digest = None THEN None ELSE "BASE_DIGEST"
           from == [op |-> "FROM", has |-> IF image.minimal THEN {"minimal"} ELSE {}, ends |-> FALSE,
                    of |-> [name |-> recipe.runtime, tag |-> image.tag, digest |-> None, arg |-> arg, alias |-> None]]
           argument == [op |-> "ARG", has |-> {"default"}, of |-> [name |-> "BASE_DIGEST", value |-> recipe.digest], ends |-> FALSE]
           note == Text("comment", {})
           blank == Text("blank", {})
<1>1. Pinning(recipe, image) = IF recipe.digest = None THEN <<note, note, from>> ELSE <<argument, blank, from>>
  BY DEF Pinning
<1>2. from.op = "FROM" /\ from.of = From(recipe) /\ from.has \subseteq {"minimal"}
  BY DEF From
<1>3. from.ends = FALSE
  OBVIOUS
<1>4. argument.op = "ARG" /\ argument.of = Argument(recipe) /\ argument.has = {"default"}
  BY DEF Argument
<1>5. argument.ends = FALSE
  OBVIOUS
<1>6. OfRecipe(recipe, note) /\ OfRecipe(recipe, blank)
  BY PlainLines
<1>7. ~note.ends /\ ~blank.ends
  BY SomeLines
<1> HIDE DEF from, argument, note, blank
<1>8. OfRecipe(recipe, from)
  BY <1>2 DEF OfRecipe, Commands, Traits
<1>9. recipe.digest # None => OfRecipe(recipe, argument)
  BY <1>4 DEF OfRecipe, Commands, Traits
<1>10. CASE recipe.digest = None
  <2>1. Pinning(recipe, image) = <<note, note, from>>
    BY <1>1, <1>10
  <2>2. /\ IsList(<<note, note, from>>) /\ DOMAIN <<note, note, from>> = {1, 2, 3}
        /\ <<note, note, from>>[1] = note /\ <<note, note, from>>[2] = note /\ <<note, note, from>>[3] = from
    BY DEF IsList
  <2> QED BY <1>2, <1>3, <1>6, <1>7, <1>8, <1>10, <2>1, <2>2 DEF OfRecipes
<1>11. CASE recipe.digest # None
  <2>1. Pinning(recipe, image) = <<argument, blank, from>>
    BY <1>1, <1>11
  <2>2. /\ IsList(<<argument, blank, from>>) /\ DOMAIN <<argument, blank, from>> = {1, 2, 3}
        /\ <<argument, blank, from>>[1] = argument /\ <<argument, blank, from>>[2] = blank /\ <<argument, blank, from>>[3] = from
    BY DEF IsList
  <2> QED BY <1>2, <1>3, <1>4, <1>5, <1>6, <1>7, <1>8, <1>9, <1>11, <2>1, <2>2 DEF OfRecipes
<1> QED BY <1>10, <1>11

\* What comes between.
LEMMA TheMiddleIsOfTheRecipe ==
  ASSUME NEW recipe, NEW image
  PROVE  /\ OfRecipes(recipe, <<Text("comment", {})>>) /\ OfRecipes(recipe, Labels(recipe))
         /\ OfRecipes(recipe, Packages(recipe)) /\ OfRecipes(recipe, StripManager(recipe, image))
         /\ OfRecipes(recipe, CreateUser(recipe, image))
<1>1. OfRecipes(recipe, <<>>)
  BY DEF OfRecipes, IsList
<1>2. ASSUME NEW a, OfRecipe(recipe, a) PROVE OfRecipes(recipe, <<a>>)
  <2>1. IsList(<<a>>)
    BY DEF IsList
  <2> QED BY <1>2, <2>1 DEF OfRecipes
<1>3. ASSUME NEW a, NEW b, OfRecipe(recipe, a), OfRecipe(recipe, b) PROVE OfRecipes(recipe, <<a, b>>)
  <2>1. IsList(<<a, b>>)
    BY DEF IsList
  <2> QED BY <1>3, <2>1 DEF OfRecipes
<1>4. ASSUME NEW a, NEW b, NEW c, OfRecipe(recipe, a), OfRecipe(recipe, b), OfRecipe(recipe, c)
      PROVE  OfRecipes(recipe, <<a, b, c>>)
  <2>1. IsList(<<a, b, c>>)
    BY DEF IsList
  <2> QED BY <1>4, <2>1 DEF OfRecipes
<1>5. ASSUME NEW a, NEW b, NEW c, NEW d,
             OfRecipe(recipe, a), OfRecipe(recipe, b), OfRecipe(recipe, c), OfRecipe(recipe, d)
      PROVE  OfRecipes(recipe, <<a, b, c, d>>)
  <2>1. IsList(<<a, b, c, d>>)
    BY DEF IsList
  <2> QED BY <1>5, <2>1 DEF OfRecipes
<1>6. /\ {} \in SUBSET Traits /\ {"scanner"} \in SUBSET Traits /\ {"maintainer"} \in SUBSET Traits
      /\ {"unpinned"} \in SUBSET Traits
      /\ {"manager"} \cup (IF recipe.family = "alpine" THEN {} ELSE {"cleaned"}) \in SUBSET Traits
  BY DEF Traits
<1>7. \A op \in {"LABEL", "RUN", "WORKDIR", "comment", "blank", "text"} : \A has \in SUBSET Traits :
        OfRecipe(recipe, Text(op, has)) /\ OfRecipe(recipe, Going(op, has))
  BY PlainLines
<1>8. \A name : OfRecipe(recipe, UserLine(name))
  BY <1>6, PlainLines
<1>9. OfRecipes(recipe, <<Text("comment", {})>>)
  BY <1>2, <1>6, <1>7
<1>10. OfRecipes(recipe, Labels(recipe))
  BY <1>2, <1>3, <1>6, <1>7 DEF Labels
<1>11. OfRecipes(recipe, Packages(recipe))
  BY <1>1, <1>3, <1>5, <1>6, <1>7 DEF Packages
<1>12. OfRecipes(recipe, StripManager(recipe, image))
  BY <1>1, <1>5, <1>6, <1>7, <1>8 DEF StripManager
<1>13. OfRecipes(recipe, CreateUser(recipe, image))
  BY <1>1, <1>4, <1>6, <1>7 DEF CreateUser
<1> QED BY <1>9, <1>10, <1>11, <1>12, <1>13

\* A recipe begins with its base and ends with its user.
Begins(recipe, lines) ==
  /\ OfRecipes(recipe, lines) /\ {2, 3, 4} \subseteq DOMAIN lines
  /\ lines[4].op = "FROM" /\ ~lines[4].ends /\ ~lines[3].ends
  /\ recipe.digest # None => lines[2].op = "ARG" /\ "default" \in lines[2].has
Ends(user, lines) ==
  /\ Len(lines) \in Nat /\ Len(lines) > 1 /\ DOMAIN lines = 1..Len(lines)
  /\ lines[Len(lines)].op = "USER" /\ lines[Len(lines)].of = [name |-> user, uid |-> None]
  /\ ~lines[Len(lines)].ends /\ ~lines[Len(lines) - 1].ends
AccountOf(recipe) ==
  LET image == Image(recipe.runtime, recipe.family) IN IF image.user = None THEN recipe.user ELSE image.user

\* What begins as a recipe does still begins so when lines are added.
LEMMA TheBeginningStays ==
  ASSUME NEW recipe, NEW s, Begins(recipe, s), NEW t, OfRecipes(recipe, t)
  PROVE  Begins(recipe, s \o t)
<1> DEFINE u == s \o t
<1>1. IsList(s) /\ IsList(t)
  BY DEF Begins, OfRecipes
<1>2. IsJoined(u, s, t) /\ OfRecipes(recipe, u)
  BY <1>1, ListsAreJoined, PartsMakeARecipe DEF Begins
<1> HIDE DEF u
<1>3. \A i \in {2, 3, 4} : i \in DOMAIN s
  BY DEF Begins
<1>4. \A i \in {2, 3, 4} : i \in DOMAIN u /\ u[i] = s[i]
  BY <1>2, <1>3 DEF IsJoined
<1>5. Begins(recipe, u)
  BY <1>2, <1>4 DEF Begins
<1> QED BY <1>5 DEF u

\* A recipe that is written begins with its base.
LEMMA TheRecipeBegins ==
  ASSUME NEW recipe, NEW image, image = Image(recipe.runtime, recipe.family)
  PROVE  Begins(recipe, <<Text("comment", {})>> \o Pinning(recipe, image))
<1> DEFINE s == <<Text("comment", {})>>
           t == Pinning(recipe, image)
           u == s \o t
<1>1. /\ OfRecipes(recipe, t) /\ DOMAIN t = {1, 2, 3} /\ ~t[2].ends /\ ~t[3].ends /\ t[3].op = "FROM"
      /\ recipe.digest # None => t[1].op = "ARG" /\ "default" \in t[1].has
  <2> HIDE DEF t
  <2> QED BY TheBaseComesFirst DEF t
<1>2. OfRecipes(recipe, s) /\ Len(s) = 1
  BY TheMiddleIsOfTheRecipe
<1> HIDE DEF s, t
<1>3. IsList(s) /\ IsList(t)
  BY <1>1, <1>2 DEF OfRecipes
<1>4. IsJoined(u, s, t) /\ OfRecipes(recipe, u)
  BY <1>1, <1>2, <1>3, ListsAreJoined, PartsMakeARecipe
<1> HIDE DEF u
<1>5. DOMAIN u = 1..(1 + Len(t)) /\ Len(t) \in Nat /\ DOMAIN t = 1..Len(t) /\ \A i \in DOMAIN t : u[1 + i] = t[i]
  BY <1>2, <1>4 DEF IsJoined
<1>6. u[2] = t[1] /\ u[3] = t[2] /\ u[4] = t[3]
  <2>1. u[1 + 1] = t[1] /\ u[1 + 2] = t[2] /\ u[1 + 3] = t[3]
    BY <1>1, <1>5
  <2> QED BY <2>1
<1>7. {2, 3, 4} \subseteq DOMAIN u
  <2>1. 3 <= Len(t)
    BY <1>1, <1>5
  <2> QED BY <1>5, <2>1
<1>8. Begins(recipe, u)
  BY <1>1, <1>4, <1>6, <1>7 DEF Begins
<1> QED BY <1>8 DEF u, s, t

\* A recipe that is written ends with its user and its command.
LEMMA TheRecipeEnds ==
  ASSUME NEW recipe, NEW image, image = Image(recipe.runtime, recipe.family), NEW s, Begins(recipe, s)
  PROVE  Begins(recipe, s \o Account(recipe, image)) /\ Ends(AccountOf(recipe), s \o Account(recipe, image))
<1> DEFINE user == AccountOf(recipe)
           a == Text("WORKDIR", {})
           b == UserLine(user)
           t == <<a, b>>
           u == s \o t
<1>1. Account(recipe, image) = t
  BY DEF Account, AccountOf
<1>2. OfRecipe(recipe, a) /\ OfRecipe(recipe, b)
  <2>1. {} \in SUBSET Traits
    OBVIOUS
  <2> QED BY <2>1, PlainLines
<1>3. ~a.ends /\ b.op = "USER" /\ ~b.ends /\ b.of = [name |-> user, uid |-> None]
  BY SomeLines
<1> HIDE DEF a, b, user
<1>4. IsList(t) /\ Len(t) = 2 /\ DOMAIN t = {1, 2} /\ t[1] = a /\ t[2] = b
  BY DEF IsList
<1>5. OfRecipes(recipe, t)
  BY <1>2, <1>4 DEF OfRecipes
<1> HIDE DEF t
<1>6. Begins(recipe, u)
  BY <1>5, TheBeginningStays
<1>7. IsList(s)
  BY DEF Begins, OfRecipes
<1>8. IsJoined(u, s, t)
  BY <1>4, <1>7, ListsAreJoined
<1> HIDE DEF u
<1> DEFINE n == Len(s)
<1>9. n \in Nat /\ DOMAIN s = 1..n /\ Len(u) = n + 2 /\ DOMAIN u = 1..(n + 2) /\ u[n + 1] = a /\ u[n + 2] = b
  BY <1>4, <1>8 DEF IsJoined
<1>10. n >= 2
  <2>1. 2 \in DOMAIN s
    BY DEF Begins
  <2> QED BY <1>9, <2>1
<1> HIDE DEF n
<1>11. Len(u) \in Nat /\ Len(u) > 1 /\ Len(u) - 1 = n + 1
  BY <1>9, <1>10
<1>12. Ends(user, u)
  BY <1>3, <1>9, <1>11 DEF Ends
<1> QED BY <1>1, <1>6, <1>12 DEF u, user

\* A recipe is a list of lines of the recipe, with its beginning and its end.
LEMMA TheRecipeIsWritten ==
  ASSUME NEW recipe
  PROVE  Begins(recipe, Rendered(recipe)) /\ Ends(AccountOf(recipe), Rendered(recipe))
<1> DEFINE image == Image(recipe.runtime, recipe.family)
           first == <<Text("comment", {})>> \o Pinning(recipe, image)
           s == first \o Labels(recipe) \o Packages(recipe) \o StripManager(recipe, image) \o CreateUser(recipe, image)
<1>1. Begins(recipe, first)
  BY TheRecipeBegins
<1>2. /\ OfRecipes(recipe, Labels(recipe)) /\ OfRecipes(recipe, Packages(recipe))
      /\ OfRecipes(recipe, StripManager(recipe, image)) /\ OfRecipes(recipe, CreateUser(recipe, image))
  BY TheMiddleIsOfTheRecipe
<1> HIDE DEF first
<1>3. Begins(recipe, first \o Labels(recipe))
  BY <1>1, <1>2, TheBeginningStays
<1>4. Begins(recipe, first \o Labels(recipe) \o Packages(recipe))
  BY <1>2, <1>3, TheBeginningStays
<1>5. Begins(recipe, first \o Labels(recipe) \o Packages(recipe) \o StripManager(recipe, image))
  BY <1>2, <1>4, TheBeginningStays
<1>6. Begins(recipe, s)
  BY <1>2, <1>5, TheBeginningStays
<1>7. Rendered(recipe) = s \o Account(recipe, image)
  BY DEF Rendered, first
<1> HIDE DEF s
<1> QED BY <1>6, <1>7, TheRecipeEnds

\* Where no instruction says more than a recipe's do, few rules can be broken.
Harmless(ins) ==
  \A i \in DOMAIN ins : ins[i].op \notin {"ENV", "ADD", "ENTRYPOINT", "CMD"} /\ ins[i].has \subseteq Traits

\* The rules that a harmless file can break.
LEMMA LittleCanBeWrong ==
  ASSUME NEW ins, Harmless(ins), NEW context
  PROVE  /\ Errors(ins) \subseteq {"DF001", "DF002"}
         /\ Warnings(ins, context) \subseteq {"DF003", "DF005", "DF006", "DF007", "DF008", "DF012", "DF016"}
<1>1. \A op \in {"ENV", "ADD", "ENTRYPOINT", "CMD"} : ~Uses(ins, op)
  BY DEF Uses, Harmless
<1>2. \A op, trait : Has(ins, op, trait) => trait \in Traits /\ Uses(ins, op)
  BY DEF Has, Uses, Harmless
<1>3. \A trait \in {"secret", "sudo", "piped", "setuid", "platform"} : trait \notin Traits
  BY DEF Traits
<1>4. ~SecretWritten(ins)
  BY <1>1, <1>2, <1>3 DEF SecretWritten, Harmless
<1>5. ~Escalates(ins) /\ ~RunsRemoteScript(ins) /\ ~SetsUid(ins)
  BY <1>2, <1>3 DEF Escalates, RunsRemoteScript, SetsUid
<1>6. ~Unchecked(ins)
  BY DEF Unchecked, Harmless
<1>7. Errors(ins) \subseteq {"DF001", "DF002"}
  BY <1>4, <1>5, <1>6, ErrorsAre
<1>8. ~ShellForm(ins, "ENTRYPOINT") /\ ~ShellForm(ins, "CMD")
  BY <1>1 DEF ShellForm
<1>9. ~AddsWithoutNeed(ins)
  BY <1>1 DEF AddsWithoutNeed
<1>10. ~DriftsByPlatform(ins)
  BY <1>2, <1>3 DEF DriftsByPlatform
<1>11. ~Warns(ins, context, "DF010") /\ ~Warns(ins, context, "DF011") /\ ~Warns(ins, context, "DF013") /\ ~Warns(ins, context, "DF017")
  BY <1>8, <1>9, <1>10 DEF Warns
<1>12. Warnings(ins, context) \subseteq {"DF003", "DF005", "DF006", "DF007", "DF008", "DF012", "DF016"}
  BY <1>11 DEF Warnings
<1> QED BY <1>7, <1>12

\* And without an error such a file is ready for production.
LEMMA HarmlessIsReady ==
  ASSUME NEW ins, Harmless(ins), Errors(ins) = {}, NEW context
  PROVE  FileTier(ins, context) \in {"A", "B"}
<1> DEFINE seven == {"DF003", "DF005", "DF006", "DF007", "DF008", "DF012", "DF016"}
           f == <<"DF003", "DF005", "DF006", "DF007", "DF008", "DF012", "DF016">>
           W == Warnings(ins, context)
           light == W \cap Light(ins)
           heavy == W \ Light(ins)
           value == 100 - Cardinality(light) - 4 * Cardinality(heavy)
<1>1. f \in Surjection(1..7, seven)
  <2>1. f \in [1..7 -> seven]
    OBVIOUS
  <2>2. /\ f[1] = "DF003" /\ f[2] = "DF005" /\ f[3] = "DF006" /\ f[4] = "DF007"
        /\ f[5] = "DF008" /\ f[6] = "DF012" /\ f[7] = "DF016"
    OBVIOUS
  <2> HIDE DEF f
  <2>3. \A rule \in seven : \E i \in 1..7 : f[i] = rule
    BY <2>2
  <2> QED BY <2>1, <2>3 DEF Surjection
<1> HIDE DEF f
<1>2. PICK n \in Nat : n = 7
  OBVIOUS
<1>3. IsFiniteSet(seven) /\ Cardinality(seven) <= 7
  <2>1. IsFiniteSet(1..n) /\ Cardinality(1..n) = IF 1 > n THEN 0 ELSE n - 1 + 1
    BY FS_Interval
  <2>2. Cardinality(1..n) = 7
    BY <1>2, <2>1
  <2>3. f \in Surjection(1..n, seven)
    BY <1>1, <1>2
  <2> HIDE DEF seven
  <2> QED BY <2>1, <2>2, <2>3, FS_Surjection
<1>4. W \in SUBSET seven
  BY LittleCanBeWrong
<1> HIDE DEF seven, W
<1>5. IsFiniteSet(W) /\ Cardinality(W) <= Cardinality(seven)
  BY <1>3, <1>4, FS_Subset
<1>6. IsFiniteSet(light) /\ IsFiniteSet(heavy)
  BY <1>5, FS_Subset
<1>7. light \cup heavy = W /\ light \cap heavy = {}
  OBVIOUS
<1> HIDE DEF light, heavy
<1>8. Cardinality(W) = Cardinality(light) + Cardinality(heavy) - Cardinality({})
  BY <1>6, <1>7, FS_Union
<1>9. Cardinality({}) = 0 /\ Cardinality(light) \in Nat /\ Cardinality(heavy) \in Nat /\ Cardinality(W) \in Nat /\ Cardinality(seven) \in Nat
  BY <1>3, <1>5, <1>6, FS_EmptySet, FS_CardinalityType
<1>10. value \in 72..100
  <2> DEFINE a == Cardinality(light)
             b == Cardinality(heavy)
             c == Cardinality(W)
             d == Cardinality(seven)
  <2>1. a \in Nat /\ b \in Nat /\ c \in Nat /\ d \in Nat /\ c <= d /\ d <= 7 /\ c = a + b - 0
    BY <1>3, <1>5, <1>8, <1>9
  <2> HIDE DEF a, b, c, d
  <2>2. 100 - a - 4 * b \in 72..100
    BY <2>1
  <2> QED BY <2>2 DEF a, b
<1>11. FileScore(ins, context) = Max({0, value})
  <2>1. Errors(ins) = {} /\ "DF004" \notin Errors(ins) /\ Cardinality(Errors(ins)) = 0
    BY <1>9
  <2>2. 100 - 15 * Cardinality(Errors(ins)) - (IF "DF004" \in Errors(ins) THEN 10 ELSE 0)
          - Cardinality(light) - 4 * Cardinality(heavy) = value
    BY <1>9, <2>1
  <2> HIDE DEF value
  <2> QED BY <2>2 DEF FileScore, light, heavy, W
<1> HIDE DEF value
<1>12. Max({0, value}) \in {0, value} /\ value <= Max({0, value})
  <2> DEFINE set == {0, value}
  <2>1. set \in SUBSET (0..100) /\ set # {} /\ value \in set
    BY <1>10
  <2> HIDE DEF set
  <2>2. Max(set) \in set /\ value <= Max(set)
    BY <2>1, LargestIsIn
  <2> QED BY <2>2 DEF set
<1>13. ~(FileScore(ins, context) < 70)
  BY <1>10, <1>11, <1>12
<1> QED BY <1>13 DEF FileTier

\* What a recipe, and what an upgrade of it, reads as.
LEMMA RecipesRead ==
  ASSUME NEW recipe, NEW lines, lines = Rendered(recipe)
  PROVE  /\ IsList(lines) /\ Harmless(Instructions(lines))
         /\ Uses(Instructions(lines), "FROM")
         /\ [name |-> AccountOf(recipe), uid |-> None] # None
              => FinalUser(Stages(Instructions(lines))) = [name |-> AccountOf(recipe), uid |-> None]
<1> DEFINE ins == Instructions(lines)
           n == Len(lines)
           user == [name |-> AccountOf(recipe), uid |-> None]
<1>1. Begins(recipe, lines) /\ Ends(AccountOf(recipe), lines)
  BY TheRecipeIsWritten
<1>2. IsList(lines) /\ \A i \in DOMAIN lines : OfRecipe(recipe, lines[i])
  BY <1>1 DEF Begins, OfRecipes
<1>3. Harmless(ins)
  <2> SUFFICES ASSUME NEW i \in DOMAIN ins
               PROVE  ins[i].op \notin {"ENV", "ADD", "ENTRYPOINT", "CMD"} /\ ins[i].has \subseteq Traits
    BY DEF Harmless
  <2>1. PICK j \in DOMAIN lines : ins[i].op = lines[j].op
    BY <1>2, SaidOnLines
  <2>2. \A trait \in ins[i].has : \E k \in DOMAIN lines : trait \in lines[k].has
    BY <1>2, SaidOnLines
  <2> HIDE DEF ins
  <2>3. ins[i].op \in Commands \cup {"comment", "blank", "text"}
    BY <1>2, <2>1 DEF OfRecipe
  <2>4. ins[i].has \subseteq Traits
    BY <1>2, <2>2 DEF OfRecipe
  <2> QED BY <2>3, <2>4 DEF Commands
<1>4. Uses(ins, "FROM")
  <2>1. 4 \in DOMAIN lines /\ 3 \in DOMAIN lines /\ lines[4].op = "FROM" /\ ~lines[4].ends /\ ~lines[4 - 1].ends
    BY <1>1 DEF Begins
  <2>2. 4 \in DOMAIN ins /\ ins[4].op = lines[4].op
    BY <1>2, <2>1, ALineByItself
  <2> QED BY <2>1, <2>2 DEF Uses
<1>5. /\ n \in Nat /\ n > 1 /\ DOMAIN lines = 1..n /\ lines[n].op = "USER" /\ lines[n].of = user
      /\ ~lines[n].ends /\ ~lines[n - 1].ends
  BY <1>1 DEF Ends
<1> HIDE DEF n, user
<1>6. n \in DOMAIN lines /\ n - 1 \in DOMAIN lines
  BY <1>5
<1>7. n \in DOMAIN ins /\ ins[n].op = "USER" /\ ins[n].of = user
  BY <1>2, <1>5, <1>6, ALineByItself
<1>8. DOMAIN ins \in SUBSET (1..n)
  BY <1>2, SaidOnLines DEF n
<1> HIDE DEF ins
<1>9. user # None => FinalUser(Stages(ins)) = user
  BY <1>4, <1>5, <1>7, <1>8, TheLastUserCounts
<1> QED BY <1>2, <1>3, <1>4, <1>9 DEF ins, user

\* Nobody runs as root in a recipe.
LEMMA RecipesRunAsUsers ==
  ASSUME NEW pair \in RecipeInputs, NEW recipe, recipe = pair[1], recipe.user # "root"
  PROVE  ~RunsAsRoot(Instructions(Rendered(recipe)))
<1> DEFINE user == [name |-> AccountOf(recipe), uid |-> None]
           ins == Instructions(Rendered(recipe))
<1>1. AccountOf(recipe) \in {"nonroot", "node"} \cup {recipe.user}
  <2> DEFINE image == Image(recipe.runtime, recipe.family)
  <2>1. image.user = None \/ image.user \in {"nonroot", "node"}
    BY DEF Image
  <2> HIDE DEF image
  <2> QED BY <2>1 DEF AccountOf, image
<1>2. user # None
  BY <1>1, NobodyIsNoUser
<1>3. Uses(ins, "FROM") /\ FinalUser(Stages(ins)) = user
  BY <1>2, RecipesRead
<1>4. AccountOf(recipe) # "root"
  BY <1>1
<1>5. user.name = AccountOf(recipe) /\ user.uid = None /\ None # 0
  BY NobodyIsNoUser
<1> HIDE DEF user, ins
<1>6. ~Root(user)
  BY <1>2, <1>4, <1>5 DEF Root
<1> QED BY <1>3, <1>6 DEF RunsAsRoot, ins

\* The base of a recipe, and what it is today.
LEMMA TheBaseOfARecipe ==
  ASSUME NEW recipe, NEW lines, lines = Rendered(recipe), NEW today, NEW i \in DOMAIN lines, lines[i].op = "FROM",
         None \notin {"v1", "latest", "BASE_DIGEST"}
  PROVE  LET base == Base(lines, i)
             key == <<recipe.runtime, Image(recipe.runtime, recipe.family).tag>>
         IN  /\ lines[i].of = From(recipe) /\ Image(recipe.runtime, recipe.family).tag # None
             /\ CurrentDigest(base, today) = IF key \in DOMAIN today THEN today[key] ELSE None
             /\ recipe.digest = None => base.digest = None /\ ~base.templated /\ base.arg_line = 0
             /\ recipe.digest # None => base.digest = recipe.digest
<1> DEFINE base == Base(lines, i)
           tag == Image(recipe.runtime, recipe.family).tag
<1>1. Begins(recipe, lines)
  BY TheRecipeIsWritten
<1>2. IsList(lines) /\ \A j \in DOMAIN lines : OfRecipe(recipe, lines[j])
  BY <1>1 DEF Begins, OfRecipes
<1>3. lines[i].of = From(recipe) /\ lines[i].has \subseteq Traits
  BY <1>2 DEF OfRecipe
<1>4. tag # None
  BY DEF Image
<1> HIDE DEF tag
<1>5. /\ lines[i].of.name = recipe.runtime /\ lines[i].of.tag = tag /\ lines[i].of.digest = None
      /\ lines[i].of.arg = IF recipe.digest = None THEN None ELSE "BASE_DIGEST"
  BY <1>3 DEF From, tag
<1>6. /\ base.name = recipe.runtime /\ base.tag = tag
      /\ base.arg_line = IF lines[i].of.arg = None THEN 0 ELSE ArgLine(lines, lines[i].of.arg)
      /\ base.digest = IF base.arg_line # 0 THEN lines[base.arg_line].of.value
                       ELSE IF lines[i].of.arg # None THEN lines[i].of.arg ELSE lines[i].of.digest
  BY <1>5 DEF Base
<1>7. base.templated = (lines[i].of.arg # None \/ "templated" \in lines[i].has)
  BY DEF Base
<1>8. "templated" \notin lines[i].has
  BY <1>3 DEF Traits
<1> HIDE DEF base
<1>9. TagOf(base) = tag
  BY <1>4, <1>6 DEF TagOf
<1>10. CurrentDigest(base, today) = IF <<recipe.runtime, tag>> \in DOMAIN today THEN today[<<recipe.runtime, tag>>] ELSE None
  BY <1>6, <1>9 DEF CurrentDigest
<1>11. recipe.digest = None => base.digest = None /\ ~base.templated /\ base.arg_line = 0
  BY <1>5, <1>6, <1>7, <1>8
<1>12. ASSUME recipe.digest # None PROVE base.digest = recipe.digest
  <2> DEFINE set == {j \in DOMAIN lines : lines[j].op = "ARG" /\ "default" \in lines[j].has /\ lines[j].of.name = "BASE_DIGEST"} \cup {0}
             at == ArgLine(lines, "BASE_DIGEST")
  <2>1. at = Max(set)
    BY DEF ArgLine
  <2>2. DOMAIN lines = 1..Len(lines) /\ Len(lines) \in Nat
    BY <1>2, BasesHaveLines
  <2>3. 2 \in DOMAIN lines /\ lines[2].op = "ARG" /\ "default" \in lines[2].has
    BY <1>1, <1>12 DEF Begins
  <2>4. lines[2].of.name = "BASE_DIGEST"
    BY <1>2, <2>3 DEF OfRecipe, Argument
  <2>5. set \in SUBSET (0..Len(lines)) /\ 2 \in set
    BY <2>2, <2>3, <2>4
  <2> HIDE DEF set
  <2>6. Max(set) \in set /\ 2 <= Max(set)
    BY <2>2, <2>5, LargestIsIn
  <2> HIDE DEF at
  <2>7. at # 0
    BY <2>1, <2>6
  <2>8. at \in DOMAIN lines /\ lines[at].op = "ARG"
    BY <2>1, <2>6, <2>7 DEF set
  <2>9. lines[at].of = Argument(recipe)
    BY <1>2, <2>8 DEF OfRecipe
  <2>10. lines[at].of.value = recipe.digest
    BY <2>9 DEF Argument
  <2>11. base.arg_line = at
    BY <1>5, <1>6, <1>12 DEF at
  <2> QED BY <1>6, <2>7, <2>10, <2>11
<1> QED BY <1>3, <1>4, <1>10, <1>11, <1>12 DEF base, tag

\* A pinned recipe is ready, and `dockerls base` leaves it alone.
LEMMA PinnedRecipesAreReady ==
  ASSUME NEW pair \in RecipeInputs, NEW recipe, recipe = pair[1], recipe.user # "root", recipe.digest # None,
         NEW context, NEW today
  PROVE  /\ ProductionReady(Rendered(recipe), context)
         /\ today[<<recipe.runtime, Image(recipe.runtime, recipe.family).tag>>] = recipe.digest
              => Rewrite(Rendered(recipe), today) = Rendered(recipe)
<1> DEFINE lines == Rendered(recipe)
           ins == Instructions(lines)
           key == <<recipe.runtime, Image(recipe.runtime, recipe.family).tag>>
<1>1. IsList(lines) /\ Harmless(ins)
  BY RecipesRead
<1>2. ~RunsAsRoot(ins)
  BY RecipesRunAsUsers
<1>3. None \notin {"v1", "latest", "BASE_DIGEST"}
  BY NobodyIsNoUser
<1>4. ASSUME NEW i \in DOMAIN lines, lines[i].op = "FROM"
      PROVE  /\ lines[i].of = From(recipe) /\ Base(lines, i).digest = recipe.digest
             /\ CurrentDigest(Base(lines, i), today) = IF key \in DOMAIN today THEN today[key] ELSE None
  BY <1>3, <1>4, TheBaseOfARecipe
<1> HIDE DEF lines, ins, key
<1>5. \A k \in DOMAIN Stages(ins) : ~Moving(Stages(ins)[k].of)
  <2> TAKE k \in DOMAIN Stages(ins)
  <2>1. DOMAIN ins \in SUBSET (1..Len(lines)) /\ Len(lines) \in Nat
    BY <1>1, SaidOnLines DEF ins, IsList
  <2>2. k \in DOMAIN ins /\ ins[k].op = "FROM" /\ Stages(ins)[k].of = ins[k].of
    BY <2>1, StagesAreFinite
  <2>3. PICK j \in DOMAIN lines : ins[k].op = lines[j].op /\ ins[k].of = lines[j].of
    BY <1>1, <2>2, SaidOnLines DEF ins
  <2>4. Stages(ins)[k].of = From(recipe)
    BY <1>4, <2>2, <2>3
  <2>5. From(recipe).arg = "BASE_DIGEST"
    BY DEF From
  <2> QED BY <1>3, <2>4, <2>5 DEF Moving
<1>6. ~MovingBase(ins)
  BY <1>5 DEF MovingBase
<1>7. Errors(ins) = {}
  BY <1>1, <1>2, <1>6, LittleCanBeWrong, ErrorsAre
<1>8. FileTier(ins, context) \in {"A", "B"}
  BY <1>1, <1>7, HarmlessIsReady
<1>9. ProductionReady(lines, context)
  BY <1>7, <1>8 DEF ProductionReady, ins
<1>10. ASSUME today[key] = recipe.digest PROVE Rewrite(lines, today) = lines
  <2>1. Proposed(lines, today) = {}
    <3> SUFFICES ASSUME NEW base \in Proposed(lines, today) PROVE FALSE
      OBVIOUS
    <3>1. base \in Bases(lines) /\ Status(base, today) \in {"UNPINNED", "PINNED_STALE"}
      BY DEF Proposed
    <3>2. base.line \in DOMAIN lines /\ lines[base.line].op = "FROM" /\ base = Base(lines, base.line)
      BY <1>1, <3>1, BasesHaveLines
    <3>3. CurrentDigest(base, today) # None /\ base.digest # CurrentDigest(base, today)
      BY <3>1, StatusesAre
    <3>4. base.digest = recipe.digest /\ CurrentDigest(base, today) \in {recipe.digest, None}
      BY <1>4, <1>10, <3>2
    <3> QED BY <3>3, <3>4
  <2>2. lines = [i \in DOMAIN lines |-> lines[i]]
    <3>1. lines \in Seq({lines[i] : i \in DOMAIN lines})
      BY <1>1 DEF IsList
    <3> QED BY <3>1
  <2> QED BY <2>1, <2>2, NothingProposedNothingWritten
<1> QED BY <1>9, <1>10 DEF lines, key

\* One that is not pinned moves at most, and is ready once it is pinned.
LEMMA UnpinnedRecipesCanBePinned ==
  ASSUME NEW pair \in RecipeInputs, NEW recipe, recipe = pair[1], recipe.user # "root", recipe.digest = None,
         NEW context
  PROVE  /\ Errors(Instructions(Rendered(recipe))) \subseteq {"DF001"}
         /\ ProductionReady(Rewrite(Rendered(recipe), RecipesToday), context)
<1> DEFINE lines == Rendered(recipe)
           after == Rewrite(lines, RecipesToday)
           ins == Instructions(lines)
           now == Instructions(after)
           key == <<recipe.runtime, Image(recipe.runtime, recipe.family).tag>>
<1>1. IsList(lines) /\ Harmless(ins)
  BY RecipesRead
<1>2. ~RunsAsRoot(ins)
  BY RecipesRunAsUsers
<1>3. None \notin {"v1", "latest", "BASE_DIGEST"}
  BY NobodyIsNoUser
<1>4. key \in DOMAIN RecipesToday /\ RecipesToday[key] # None
  BY BasesAreKnown
<1>5. ASSUME NEW i \in DOMAIN lines, lines[i].op = "FROM"
      PROVE  /\ lines[i].of = From(recipe) /\ lines[i].of.tag # None
             /\ Base(lines, i) \in FromEdits(lines, RecipesToday)
             /\ CurrentDigest(Base(lines, i), RecipesToday) # None
  <2> DEFINE base == Base(lines, i)
  <2>1. /\ lines[i].of = From(recipe) /\ Image(recipe.runtime, recipe.family).tag # None
        /\ CurrentDigest(base, RecipesToday) = IF key \in DOMAIN RecipesToday THEN RecipesToday[key] ELSE None
        /\ base.digest = None /\ ~base.templated /\ base.arg_line = 0
    BY <1>3, <1>5, TheBaseOfARecipe
  <2>2. base \in Bases(lines)
    BY <1>1, <1>5, BasesHaveLines
  <2>3. From(recipe).tag = Image(recipe.runtime, recipe.family).tag
    BY DEF From
  <2> HIDE DEF base, lines, key
  <2>4. CurrentDigest(base, RecipesToday) # None
    BY <1>4, <2>1
  <2>5. base \in FromEdits(lines, RecipesToday)
    BY <2>1, <2>2, <2>4, StatusesAre DEF FromEdits, Proposed
  <2> QED BY <2>1, <2>3, <2>4, <2>5 DEF base
<1>6. IsList(after)
  BY <1>1, UpgradedLines
<1>7. /\ DOMAIN now = DOMAIN ins
      /\ \A i \in DOMAIN ins : now[i].op = ins[i].op /\ now[i].has = ins[i].has
  BY <1>1, UpgradedReads
<1>8. ASSUME NEW j \in DOMAIN lines, lines[j].op = "FROM" PROVE after[j].of.digest # None
  <2>1. after[j].of = Pinned(lines[j].of, Base(lines, j), RecipesToday)
    BY <1>1, <1>5, <1>8, UpgradedLines
  <2> HIDE DEF lines, after
  <2> QED BY <1>5, <1>8, <2>1 DEF Pinned
<1>9. DOMAIN after = DOMAIN lines /\ \A j \in DOMAIN lines : after[j].op = lines[j].op
  BY <1>1, UpgradedLines
<1> HIDE DEF lines, after, key
<1>10. NoStageAsBase(lines)
  <2> SUFFICES ASSUME NEW k \in DOMAIN Stages(ins) PROVE Named(Stages(ins), Stages(ins)[k].of) = {}
    BY DEF NoStageAsBase
  <2>1. DOMAIN ins \in SUBSET (1..Len(lines)) /\ Len(lines) \in Nat
    BY <1>1, SaidOnLines DEF IsList
  <2>2. k \in DOMAIN ins /\ ins[k].op = "FROM" /\ Stages(ins)[k].of = ins[k].of
    BY <2>1, StagesAreFinite
  <2>3. PICK j \in DOMAIN lines : ins[k].op = lines[j].op /\ ins[k].of = lines[j].of
    BY <1>1, <2>2, SaidOnLines
  <2>4. Stages(ins)[k].of.tag # None
    BY <1>5, <2>2, <2>3
  <2> HIDE DEF ins
  <2> QED BY <2>4 DEF Named, Plain
<1>11. Errors(now) \subseteq Errors(ins)
  BY <1>1, <1>10, AnUpgradeBreaksNothing DEF after
<1>12. ~MovingBase(now)
  <2>1. DOMAIN now \in SUBSET (1..Len(after)) /\ Len(after) \in Nat
    BY <1>6, SaidOnLines DEF IsList
  <2>2. ASSUME NEW k \in DOMAIN Stages(now) PROVE ~Moving(Stages(now)[k].of)
    <3>1. k \in DOMAIN now /\ now[k].op = "FROM" /\ Stages(now)[k].of = now[k].of
      BY <2>1, StagesAreFinite
    <3>2. PICK j \in DOMAIN after : now[k].op = after[j].op /\ now[k].of = after[j].of
      BY <1>6, <3>1, SaidOnLines
    <3>3. now[k].of.digest # None
      BY <1>8, <1>9, <3>1, <3>2
    <3> QED BY <3>1, <3>3 DEF Moving
  <2> HIDE DEF now
  <2> QED BY <2>2 DEF MovingBase
<1> HIDE DEF ins, now
<1>13. Errors(ins) \subseteq {"DF001"}
  BY <1>1, <1>2, LittleCanBeWrong, ErrorsAre
<1>14. Errors(now) = {}
  BY <1>11, <1>12, <1>13, ErrorsAre
<1>15. Harmless(now)
  BY <1>1, <1>7 DEF Harmless
<1>16. FileTier(now, context) \in {"A", "B"}
  BY <1>14, <1>15, HarmlessIsReady
<1>17. ProductionReady(after, context)
  BY <1>14, <1>16 DEF ProductionReady, now
<1> QED BY <1>13, <1>17 DEF ins, lines, after

\* Recipes between which no change is seen are written alike.
LEMMA WhatIsEqualIsWrittenAlike ==
  ASSUME NEW left, NEW right
  PROVE  NothingUnsaid(left, right)
<1> SUFFICES ASSUME ~HasChanges(left, right), left.owner = right.owner, left.user = right.user,
                    left.digest = right.digest \/ None \in {left.digest, right.digest}
             PROVE  Rendered(left) = Rendered(right)
  BY DEF NothingUnsaid
<1>1. /\ left.packages = right.packages /\ left.family = right.family /\ left.runtime = right.runtime
      /\ (left.digest = None) = (right.digest = None)
  BY DEF HasChanges
<1>2. left.strip = right.strip
  BY DEF HasChanges
<1>3. left.digest = right.digest
  BY <1>1
<1> DEFINE image == Image(left.runtime, left.family)
<1>4. Image(right.runtime, right.family) = image
  BY <1>1
<1> HIDE DEF image
<1>5. Pinning(left, image) = Pinning(right, image)
  BY <1>1, <1>3 DEF Pinning
<1>6. Labels(left) = Labels(right)
  BY DEF Labels
<1>7. Packages(left) = Packages(right)
  BY <1>1 DEF Packages
<1>8. StripManager(left, image) = StripManager(right, image)
  BY <1>2 DEF StripManager
<1>9. CreateUser(left, image) = CreateUser(right, image)
  BY <1>1 DEF CreateUser
<1>10. Account(left, image) = Account(right, image)
  BY DEF Account
<1> QED BY <1>4, <1>5, <1>6, <1>7, <1>8, <1>9, <1>10 DEF Rendered, image

(***************************************************************************)
(* For any files and recipes: an upgrade settles and makes no file worse,  *)
(* the preflight says whatever is said after the scan, what is generated   *)
(* is ready once it is pinned, and no change of a recipe goes unsaid       *)
(* (base_upgrade.py, build_image.py, base_recipe.py, recipe_diff.py).      *)
(***************************************************************************)
THEOREM UpgradesAndRecipesAreSound == Spec => []UpgradeIsSound
<1> DEFINE Inv == /\ topic = "upgrade" => input \in UpgradeInputs
                  /\ topic = "recipe" => input \in RecipeInputs
<1>1. Init => Inv
  BY DEF Init
<1>2. Inv /\ [Judge]_vars => Inv'
  BY DEF Judge, vars
<1>3. Inv => UpgradeIsSound
  <2> SUFFICES ASSUME Inv PROVE UpgradeIsSound
    OBVIOUS
  <2>1. ASSUME topic = "upgrade"
        PROVE  /\ UpgradeSettles(input.file, input.today) /\ UpgradeOnlyHelps(input.file, input.today)
               /\ PreflightSaysIt(Required, input.file, RegistryOf, {})
    <3>1. IsList(input.file)
      BY <2>1, FilesAreLists
    <3> QED BY <3>1, AnUpgradeSettles, AnUpgradeOnlyHelps, NothingIsSaidLate
  <2>2. ASSUME topic = "recipe"
        PROVE  /\ RecipeIsReady(input[1], [ignore |-> "absent", lock |-> FALSE], RecipesToday)
               /\ NothingUnsaid(input[1], input[2])
    <3>1. input \in RecipeInputs
      BY <2>2
    <3> DEFINE recipe == input[1]
               context == [ignore |-> "absent", lock |-> FALSE]
    <3>2. recipe = input[1]
      OBVIOUS
    <3> HIDE DEF recipe, context
    <3>3. ASSUME recipe.user # "root", recipe.digest # None
          PROVE  /\ ProductionReady(Rendered(recipe), context)
                 /\ RecipesToday[<<recipe.runtime, Image(recipe.runtime, recipe.family).tag>>] = recipe.digest
                      => Rewrite(Rendered(recipe), RecipesToday) = Rendered(recipe)
      BY <3>1, <3>2, <3>3, PinnedRecipesAreReady
    <3>4. ASSUME recipe.user # "root", recipe.digest = None
          PROVE  /\ Errors(Instructions(Rendered(recipe))) \subseteq {"DF001"}
                 /\ ProductionReady(Rewrite(Rendered(recipe), RecipesToday), context)
      BY <3>1, <3>2, <3>4, UnpinnedRecipesCanBePinned
    <3>5. RecipeIsReady(recipe, context, RecipesToday)
      BY <3>3, <3>4 DEF RecipeIsReady
    <3> QED BY <3>5, WhatIsEqualIsWrittenAlike DEF recipe, context
  <2> QED BY <2>1, <2>2 DEF UpgradeIsSound, Asked
<1> QED BY <1>1, <1>2, <1>3, PTL DEF Spec

-----------------------------------------------------------------------------
(***************************************************************************)
(* The layers that remedy (remediation.py, build_remediation_plan).        *)
(***************************************************************************)
\* A layer has a fix for all that it upgrades; what it could fix is not left.
LEMMA TheRemedyIsHonest ==
  ASSUME NEW findings, NEW distro, \A finding \in findings : finding.origin \in {"os", "lang"}
  PROVE  M!RemedyIsHonest(findings, distro)
<1> DEFINE Tells(action, part) == action.cves = M!Cves(part) /\ \A pin \in action.pins : \E f \in part : pin[2] = f.fixed
<1>1. ASSUME NEW kind, NEW part, NEW action \in M!Action(kind, part)
      PROVE  action.kind = kind /\ Tells(action, part)
  BY DEF M!Action
<1>2. ASSUME NEW action \in M!Rendered(findings, distro)
      PROVE  /\ action.kind # "update-npm" => \A pin \in action.pins : pin[2] # None
             /\ action.kind \in M!LangUpgrade =>
                  \A cve \in action.cves : \E finding \in findings : finding.cve = cve /\ ~finding.bundled
  <2>1. PICK kind, part :
          /\ action \in M!Action(kind, part) /\ kind # "remove-npm"
          /\ \/ kind = "update-npm"
             \/ kind = "os" /\ part \subseteq M!Fixable(findings)
             \/ kind \in M!LangUpgrade /\ part = M!LangFixable(findings, kind)
    <3>1. action \in M!Actions(findings, distro) /\ action.kind # "remove-npm"
      BY DEF M!Rendered
    <3>2. CASE action \in M!Action("update-npm", M!BundledNpm(findings))
      BY <3>2
    <3>3. CASE action \in M!Action("remove-npm", M!BundledNpm(findings))
      BY <1>1, <3>1, <3>3
    <3>4. CASE action \in M!Action("os", IF distro \in M!OsManaged THEN M!OsFixable(findings) ELSE {})
      BY <3>4 DEF M!OsFixable
    <3>5. CASE \E ecosystem \in M!LangUpgrade : action \in M!Action(ecosystem, M!LangFixable(findings, ecosystem))
      BY <3>5 DEF M!LangUpgrade
    <3> QED BY <3>1, <3>2, <3>3, <3>4, <3>5 DEF M!Actions
  <2>2. action.kind = kind /\ Tells(action, part)
    BY <1>1, <2>1
  <2>3. CASE kind = "update-npm"
    BY <2>2, <2>3 DEF M!LangUpgrade
  <2>4. CASE kind = "os" /\ part \subseteq M!Fixable(findings)
    BY <2>2, <2>4 DEF M!LangUpgrade, M!Fixable
  <2>5. CASE kind \in M!LangUpgrade /\ part = M!LangFixable(findings, kind)
    <3>1. \A f \in part : f \in findings /\ f.fixed # None /\ ~f.bundled
      BY <2>5 DEF M!LangFixable, M!Fixable, M!BundledNpm
    <3> QED BY <2>2, <3>1 DEF M!Cves
  <2> QED BY <2>1, <2>3, <2>4, <2>5
<1>3. ASSUME NEW finding \in M!Fixable(findings), finding.cve \in M!Unresolved(findings, distro)
      PROVE  IF finding.origin = "os" THEN distro \notin M!OsManaged ELSE finding.ecosystem \notin M!LangUpgrade
  <2>1. ASSUME NEW kind, NEW part, finding \in part, M!Action(kind, part) \subseteq M!Actions(findings, distro)
        PROVE  FALSE
    <3>1. PICK action : action \in M!Action(kind, part)
      BY <2>1 DEF M!Action
    <3>2. finding.cve \in action.cves
      BY <1>1, <2>1, <3>1 DEF M!Cves
    <3> QED BY <1>3, <2>1, <3>1, <3>2 DEF M!Unresolved
  <2>2. finding \in findings /\ finding.fixed # None
    BY DEF M!Fixable
  <2>3. ASSUME finding.origin = "os", distro \in M!OsManaged PROVE FALSE
    <3>1. finding \in M!OsFixable(findings)
      BY <2>3 DEF M!OsFixable
    <3> QED BY <2>1, <2>3, <3>1 DEF M!Actions
  <2>4. ASSUME finding.origin = "lang", finding.ecosystem \in M!LangUpgrade PROVE FALSE
    <3>1. CASE finding.bundled
      <4>1. finding \in M!BundledNpm(findings)
        BY <2>2, <2>4, <3>1 DEF M!BundledNpm
      <4>2. M!Action("update-npm", M!BundledNpm(findings)) \subseteq M!Actions(findings, distro)
        BY DEF M!Actions
      <4> QED BY <2>1, <4>1, <4>2
    <3>2. CASE ~finding.bundled
      <4>1. finding \in M!LangFixable(findings, finding.ecosystem)
        BY <2>2, <2>4, <3>2 DEF M!LangFixable, M!BundledNpm
      <4>2. M!Action(finding.ecosystem, M!LangFixable(findings, finding.ecosystem)) \subseteq M!Actions(findings, distro)
        BY <2>4 DEF M!Actions
      <4> QED BY <2>1, <4>1, <4>2
    <3> QED BY <3>1, <3>2
  <2> QED BY <2>2, <2>3, <2>4
<1> QED BY <1>2, <1>3 DEF M!RemedyIsHonest

-----------------------------------------------------------------------------
(***************************************************************************)
(* The case for another image (migration.py, plan_migration).              *)
(***************************************************************************)
\* A direct replacement costs nothing of its kind, and every cost has its check.
LEMMA TheMigrationIsHonest ==
  ASSUME NEW from, NEW to
  PROVE  M!MigrationIsHonest(from, to)
<1>1. ASSUME M!DirectReplacement(from, to), M!Libc(from.family) # None
      PROVE  M!TradeOffs(from, to) \cap {"major", "libc", "manager", "libraries", "publisher"} = {}
  <2>1. /\ from.major = to.major
        /\ from.family # None /\ from.family = to.family
        /\ from.source = to.source
    BY <1>1 DEF M!DirectReplacement, M!Incompatibilities, M!Both
  <2>2. /\ ~M!MajorTradeOff(from, to)
        /\ ~M!LibcTradeOff(from, to)
        /\ ~M!ManagerTradeOff(from, to)
        /\ ~M!LibrariesTradeOff(from, to)
    BY <1>1, <2>1 DEF M!MajorTradeOff, M!LibcTradeOff, M!ManagerTradeOff, M!LibrariesTradeOff, M!Differ, M!Both
  <2> QED BY <2>1, <2>2 DEF M!TradeOffs
<1>2. ASSUME "libc" \in M!TradeOffs(from, to), M!Both(M!Libc(from.family), M!Libc(to.family))
      PROVE  "native dependencies" \in M!Checklist(from, to)
  <2>1. M!Differ(M!Libc(from.family), M!Libc(to.family))
    BY <1>2 DEF M!TradeOffs, M!LibcTradeOff
  <2> QED BY <2>1 DEF M!Checklist
<1>3. "shell" \in M!TradeOffs(from, to) => "exec form" \in M!Checklist(from, to)
  BY DEF M!TradeOffs, M!ShellTradeOff, M!Checklist
<1>4. "nonroot" \in M!Improvements(from, to) => "ownership" \in M!Checklist(from, to)
  BY DEF M!Improvements, M!Checklist
<1>5. from.user # to.user => "user" \in M!TradeOffs(from, to) \cup M!Unverified(from, to)
  BY DEF M!TradeOffs, M!UserTradeOff, M!Unverified
<1>6. from.entrypoint # to.entrypoint => "entrypoint" \in M!TradeOffs(from, to) \cup M!Unverified(from, to)
  BY DEF M!TradeOffs, M!EntrypointTradeOff, M!Unverified
<1> QED BY <1>1, <1>2, <1>3, <1>4, <1>5, <1>6 DEF M!MigrationIsHonest

-----------------------------------------------------------------------------
(***************************************************************************)
(* Exemptions and what is published of them (ignore_file.py, vex.py).      *)
(***************************************************************************)
\* What is hidden on a day is what the document of that day states.
LEMMA WhatIsHiddenIsSaid ==
  ASSUME NEW entries, NEW found, NEW yesterday \in Int, NEW today \in Int, yesterday <= today,
         \A entry \in entries : entry.expires # None => entry.expires \in Int
  PROVE  X!HiddenIsSaid(entries, found, yesterday, today)
<1> DEFINE rules == X!LoadIgnoreRules(entries, today)
           document == X!Document(rules)
           ignored == X!ActiveIgnored(rules, today)
<1>1. \A rule \in rules : rule \in entries /\ X!WellFormed(rule) /\ ~X!Expired(rule, today)
  BY DEF X!LoadIgnoreRules
<1>2. ignored = {statement.cve : statement \in document}
  <2>1. {statement.cve : statement \in document} = {rule.cve : rule \in rules}
    <3>1. \A rule \in rules : X!StatementFor(rule).cve = rule.cve
      BY DEF X!StatementFor
    <3>2. document = {X!StatementFor(rule) : rule \in rules}
      BY DEF X!Document
    <3> HIDE DEF document, rules
    <3> QED BY <3>1, <3>2
  <2>2. {r \in rules : ~X!Expired(r, today) /\ r.cve # ""} = rules
    BY <1>1 DEF X!WellFormed
  <2> QED BY <2>1, <2>2 DEF X!ActiveIgnored
<1>3. "" \notin ignored
  BY DEF X!ActiveIgnored
<1>4. X!ActiveIgnored(X!LoadIgnoreRules(entries, yesterday), today) = ignored
  <2>1. \A entry \in entries : X!Expired(entry, yesterday) => X!Expired(entry, today)
    <3> SUFFICES ASSUME NEW entry \in entries, X!Expired(entry, yesterday) PROVE X!Expired(entry, today)
      OBVIOUS
    <3>1. entry.expires \in Int /\ yesterday > entry.expires /\ entry.expires # None
      BY DEF X!Expired
    <3> QED BY <3>1 DEF X!Expired
  <2>2. {r \in X!LoadIgnoreRules(entries, yesterday) : ~X!Expired(r, today) /\ r.cve # ""}
          = {r \in rules : ~X!Expired(r, today) /\ r.cve # ""}
    BY <2>1 DEF X!LoadIgnoreRules
  <2> QED BY <2>2 DEF X!ActiveIgnored
<1>5. ASSUME NEW statement \in document
      PROVE  /\ X!Permitted(statement)
             /\ statement.until = None \/ statement.until >= today
             /\ \E entry \in entries :
                  /\ entry.cve = statement.cve /\ entry.expires = statement.until
                  /\ statement.status = "not_affected" <=> entry.vex = "known"
  <2>1. PICK rule \in rules : statement = X!StatementFor(rule)
    BY DEF X!Document
  <2>2. /\ statement.cve = rule.cve /\ statement.until = rule.expires
        /\ statement.status = "not_affected" <=> rule.vex = "known"
        /\ statement.justified <=> rule.vex = "known"
    BY <2>1 DEF X!StatementFor
  <2>3. rule \in entries /\ X!WellFormed(rule) /\ ~X!Expired(rule, today)
    BY <1>1
  <2>4. X!Permitted(statement)
    BY <2>2, <2>3 DEF X!Permitted, X!WellFormed
  <2>5. statement.until = None \/ statement.until >= today
    BY <2>2, <2>3 DEF X!Expired
  <2> QED BY <2>2, <2>3, <2>4, <2>5
<1>6. found \ X!Kept(found, ignored) = found \cap ignored
  BY DEF X!Kept
<1> HIDE DEF rules, document, ignored
<1> QED BY <1>2, <1>3, <1>4, <1>5, <1>6 DEF X!HiddenIsSaid, rules, document, ignored

-----------------------------------------------------------------------------
(***************************************************************************)
(* The audit of a registry (registry_audit.py, execute).                   *)
(***************************************************************************)
\* An alert is an answer of the registry, or was seen in the history.
LEMMA AnAlertIsAnAnswer ==
  ASSUME NEW given, NEW registry, NEW history,
         \A tag \in {"sig", "att"} : tag \in DOMAIN registry.has /\ registry.has[tag] # None,
         IsList(history.seen), history.dropped \in Nat
  PROVE  R!AlertIsAnAnswer(given, registry, history)
<1> DEFINE digest == IF given # None THEN given ELSE R!ResolveDigest(registry, "tag")
           audit == R!Audit(given, registry, history)
           alerts == R!Alerts(audit)
<1>1. /\ audit["RESOLVABLE"] = R!Known(digest # None)
      /\ audit["TAG_STABLE"] = R!TagStability(given, history)
      /\ audit["SIGNATURE_PRESENT"] = R!CosignArtifact(registry, digest, "sig")
      /\ audit["ATTESTATION_PRESENT"] = R!CosignArtifact(registry, digest, "att")
  BY DEF R!Audit, R!Checks
<1>2. \A check \in alerts : audit[check] = "false"
  BY DEF R!Alerts
<1> HIDE DEF audit, alerts, digest
<1>3. audit["RESOLVABLE"] = "false" => alerts \cap {"SIGNATURE_PRESENT", "ATTESTATION_PRESENT"} = {}
  BY <1>1, <1>2 DEF R!Known, R!CosignArtifact
<1>4. ASSUME R!Reached(registry), NEW tag \in {"sig", "att"}, R!CosignArtifact(registry, digest, tag) = "false"
      PROVE  registry.has[tag] = "absent"
  BY <1>4 DEF R!Reached, R!CosignArtifact, R!Known, R!ResolveDigest
<1>5. ASSUME "TAG_STABLE" \in alerts
      PROVE  given = None /\ (Len(history.seen) > 1 \/ history.dropped > 0)
  <2>1. given = None /\ history.seen # <<>> /\ R!Moves(history) # 0
    BY <1>1, <1>2, <1>5 DEF R!TagStability, R!Known
  <2>2. Len(history.seen) \in Nat /\ Len(history.seen) # 0
    BY <2>1 DEF IsList
  <2>3. Len(history.seen) - 1 + history.dropped # 0
    BY <2>1 DEF R!Moves
  <2> QED BY <2>1, <2>2, <2>3
<1> QED BY <1>1, <1>2, <1>3, <1>4, <1>5 DEF R!AlertIsAnAnswer, audit, alerts

-----------------------------------------------------------------------------
(***************************************************************************)
(* Two runs against each other (run_diff.py, diff_runs).                   *)
(***************************************************************************)
\* What is said of a change, forwards and backwards.
Explains(said, back, old, new) ==
  /\ back = [cause |-> said.cause, new |-> said.removed, removed |-> said.new, noted |-> said.noted]
  /\ said.cause \in {"IMAGE_CHANGED", "IMAGE_AND_DATABASE_CHANGED"}
       => None \notin {old.digest, new.digest} /\ old.digest # new.digest
  /\ said.cause \in {"SCANNER_DATABASE_CHANGED", "IMAGE_AND_DATABASE_CHANGED"}
       => None \notin {old.db, new.db} /\ <<old.db, old.version>> # <<new.db, new.version>>
  /\ said.cause = "NO_CHANGE" => said.new \cup said.removed = {} /\ old.digest = new.digest
  /\ said.new \cup said.removed # {} => old.scanner = new.scanner

\* Of two analyses of one reference the cause is explained, both ways.
LEMMA ComparingExplains ==
  ASSUME NEW old, NEW new
  PROVE  Explains(A!Compare(old, new), A!Compare(new, old), old, new)
<1>1. A!Comparable(old, new) <=> A!Comparable(new, old)
  BY DEF A!Comparable
<1>2. /\ A!DbUnknown(old, new) <=> A!DbUnknown(new, old)
      /\ A!DbChanged(old, new) <=> A!DbChanged(new, old)
  BY DEF A!DbUnknown, A!DbChanged
<1>3. A!Cause(old, new) = A!Cause(new, old)
  BY <1>2 DEF A!Cause
<1>4. CASE ~A!Comparable(old, new)
  <2> DEFINE said == [cause |-> "NOT_COMPARABLE", new |-> {}, removed |-> {}, noted |-> TRUE]
  <2>1. A!Compare(old, new) = said /\ A!Compare(new, old) = said
    BY <1>1, <1>4 DEF A!Compare
  <2>2. said = [cause |-> said.cause, new |-> said.removed, removed |-> said.new, noted |-> said.noted]
    OBVIOUS
  <2>3. said.cause = "NOT_COMPARABLE" /\ said.new \cup said.removed = {}
    OBVIOUS
  <2> HIDE DEF said
  <2> QED BY <2>1, <2>2, <2>3 DEF Explains
<1>5. CASE A!Comparable(old, new)
  <2> DEFINE said == A!Compare(old, new)
             back == A!Compare(new, old)
  <2>1. /\ said = [cause   |-> A!Cause(old, new),
                   new     |-> A!FullIdentities(new.scan) \ A!FullIdentities(old.scan),
                   removed |-> A!FullIdentities(old.scan) \ A!FullIdentities(new.scan),
                   noted   |-> (A!DbUnknown(old, new) /\ old.digest = new.digest) \/ A!Cause(old, new) = "UNEXPLAINED"]
        /\ back = [cause   |-> A!Cause(new, old),
                   new     |-> A!FullIdentities(old.scan) \ A!FullIdentities(new.scan),
                   removed |-> A!FullIdentities(new.scan) \ A!FullIdentities(old.scan),
                   noted   |-> (A!DbUnknown(new, old) /\ new.digest = old.digest) \/ A!Cause(new, old) = "UNEXPLAINED"]
    BY <1>1, <1>5 DEF A!Compare
  <2>2. back = [cause |-> said.cause, new |-> said.removed, removed |-> said.new, noted |-> said.noted]
    <3>1. back.noted = said.noted
      BY <1>2, <1>3, <2>1
    <3> QED BY <1>3, <2>1, <3>1
  <2>3. /\ said.cause \in {"IMAGE_CHANGED", "IMAGE_AND_DATABASE_CHANGED"} => old.digest # new.digest
        /\ said.cause \in {"SCANNER_DATABASE_CHANGED", "IMAGE_AND_DATABASE_CHANGED"} => A!DbChanged(old, new)
        /\ said.cause = "NO_CHANGE" =>
             A!FullIdentities(old.scan) = A!FullIdentities(new.scan) /\ old.digest = new.digest
    BY <2>1 DEF A!Cause
  <2>4. None \notin {old.digest, new.digest} /\ old.scanner = new.scanner
    BY <1>5 DEF A!Comparable
  <2>5. A!DbChanged(old, new) => None \notin {old.db, new.db} /\ <<old.db, old.version>> # <<new.db, new.version>>
    BY DEF A!DbChanged, A!DbUnknown
  <2>6. said.cause = "NO_CHANGE" => said.new \cup said.removed = {}
    BY <2>1, <2>3
  <2> QED BY <2>2, <2>3, <2>4, <2>5, <2>6 DEF Explains
<1> QED BY <1>4, <1>5

\* So it is for every reference that two runs have in common.
LEMMA TheCauseIsKnown ==
  ASSUME NEW previous, NEW current
  PROVE  A!CauseIsKnown(previous, current)
<1>1. CASE previous.scope # current.scope
  BY <1>1 DEF A!CauseIsKnown, A!DiffRuns
<1>2. CASE previous.scope = current.scope
  <2> DEFINE diff == A!DiffRuns(previous, current)
             back == A!DiffRuns(current, previous)
  <2>1. /\ DOMAIN diff = DOMAIN previous.images \cap DOMAIN current.images
        /\ DOMAIN back = DOMAIN diff
        /\ \A r \in DOMAIN diff :
             /\ diff[r] = A!Compare(previous.images[r], current.images[r])
             /\ back[r] = A!Compare(current.images[r], previous.images[r])
    BY <1>2 DEF A!DiffRuns
  <2> HIDE DEF diff, back
  <2>2. \A r \in DOMAIN diff : Explains(diff[r], back[r], previous.images[r], current.images[r])
    BY <2>1, ComparingExplains
  <2> QED BY <2>1, <2>2 DEF A!CauseIsKnown, Explains, diff, back
<1> QED BY <1>1, <1>2

-----------------------------------------------------------------------------
(***************************************************************************)
(* Whose a finding is, and the plan of work (inheritance.py).              *)
(***************************************************************************)
\* Of several places in a list one is the last.
LEMMA LastIsIn ==
  ASSUME NEW n \in Nat, NEW set \in SUBSET (1..n), set # {}
  PROVE  A!Max(set) \in set
<1> DEFINE T == {n - x : x \in set}
<1>0. \A x \in set : x \in 1..n
  OBVIOUS
<1>1. T \in SUBSET Nat /\ T # {}
  <2>1. \A x \in set : n - x \in Nat
    BY <1>0
  <2> QED BY <2>1
<1>2. PICK t \in T : \A u \in T : t <= u
  BY <1>1, LeastIsIn
<1>3. PICK x \in set : t = n - x
  OBVIOUS
<1>4. ASSUME NEW y \in set PROVE x >= y
  <2>1. n - x <= n - y
    BY <1>2, <1>3
  <2> QED BY <1>0, <2>1
<1> QED BY <1>4 DEF A!Max

\* What is reported for an identity is one of its findings.
LEMMA ReportedIsOfIt ==
  ASSUME NEW scan, IsList(scan), NEW id \in A!Identities(scan)
  PROVE  \E i \in DOMAIN scan : A!Identity(scan[i]) = id /\ A!Reported(scan, id) = scan[i]
<1> DEFINE places == {i \in DOMAIN scan : A!Identity(scan[i]) = id}
<1>1. Len(scan) \in Nat /\ places \in SUBSET (1..Len(scan)) /\ places # {}
  BY DEF IsList, A!Identities
<1>2. A!Max(places) \in places
  <2> HIDE DEF places
  <2> QED BY <1>1, LastIsIn
<1>3. A!Reported(scan, id) = scan[A!Max(places)]
  BY DEF A!Reported
<1> QED BY <1>2, <1>3

\* A scan has finitely many identities,
LEMMA IdentitiesAreFinite ==
  ASSUME NEW scan, IsList(scan)
  PROVE  IsFiniteSet(A!Identities(scan))
<1> DEFINE f == [i \in DOMAIN scan |-> A!Identity(scan[i])]
<1>1. IsFiniteSet(DOMAIN scan)
  BY FS_Interval DEF IsList
<1>2. f \in Surjection(DOMAIN scan, A!Identities(scan))
  BY DEF Surjection, A!Identities
<1> QED BY <1>1, <1>2, FS_Surjection

\* so finitely many findings are attributed
LEMMA AttributedIsFinite ==
  ASSUME NEW origin, NEW scan, NEW ids, IsFiniteSet(ids)
  PROVE  IsFiniteSet(A!Attributed(origin, scan, ids))
<1> DEFINE f == [id \in ids |-> [id |-> id, origin |-> origin, severity |-> A!Reported(scan, id).severity,
                                 fixed |-> A!Reported(scan, id).fixed]]
<1>1. f \in Surjection(ids, A!Attributed(origin, scan, ids))
  BY DEF Surjection, A!Attributed
<1> QED BY <1>1, FS_Surjection

\* and the report is finite.
LEMMA ReportIsFinite ==
  ASSUME NEW built, NEW base, IsList(built), IsList(base)
  PROVE  IsFiniteSet(A!Attribute(built, base).findings)
<1>1. /\ IsFiniteSet(A!Identities(built) \cap A!Identities(base))
      /\ IsFiniteSet(A!Identities(built) \ A!Identities(base))
      /\ IsFiniteSet(A!Identities(base) \ A!Identities(built))
  BY IdentitiesAreFinite, FS_Subset
<1>2. /\ IsFiniteSet(A!Attributed("INHERITED", built, A!Identities(built) \cap A!Identities(base)))
      /\ IsFiniteSet(A!Attributed("INTRODUCED", built, A!Identities(built) \ A!Identities(base)))
      /\ IsFiniteSet(A!Attributed("REMOVED", base, A!Identities(base) \ A!Identities(built)))
  BY <1>1, AttributedIsFinite
<1> QED BY <1>2, FS_Union DEF A!Attribute

\* Attribution counts with its own instance of FiniteSets.
LEMMA CountsAlike ==
  ASSUME NEW set
  PROVE  A!Cardinality(set) = Cardinality(set)
BY DEF A!Cardinality, Cardinality

Sized(bucket) == Cardinality(bucket.findings) \in Nat /\ A!Critical(bucket) \in Nat

\* The order of the groups is strict and total, so each has its own place.
LEMMA TheOrderIsStrict ==
  ASSUME NEW b, NEW c, NEW d, Sized(b), Sized(c), Sized(d)
  PROVE  /\ ~A!First(b, b)
         /\ A!First(b, c) /\ A!First(c, d) => A!First(b, d)
         /\ A!First(b, c) \/ A!First(c, b) \/ A!Place(b) = A!Place(c)
<1>1. \A x : A!Place(x) \in 0..3
  BY DEF A!Place
<1> QED BY <1>1, CountsAlike DEF A!First, Sized

WorkGroups(report) ==
  {b \in {A!Bucket(report, origin, fixable) : origin \in {"INHERITED", "INTRODUCED"}, fixable \in BOOLEAN} : b.findings # {}}

\* The groups of the plan are four at most, and can be counted.
LEMMA GroupsAreFinite ==
  ASSUME NEW report, IsFiniteSet(report.findings)
  PROVE  IsFiniteSet(WorkGroups(report)) /\ \A b \in WorkGroups(report) : Sized(b)
<1>1. ASSUME NEW b \in WorkGroups(report) PROVE Sized(b)
  <2>1. b.findings \in SUBSET report.findings
    BY DEF WorkGroups, A!Bucket
  <2>2. {f \in b.findings : f.severity = 4} \in SUBSET report.findings
    BY <2>1
  <2>3. IsFiniteSet(b.findings) /\ IsFiniteSet({f \in b.findings : f.severity = 4})
    BY <2>1, <2>2, FS_Subset
  <2> QED BY <2>3, CountsAlike, FS_CardinalityType DEF Sized, A!Critical
<1>2. IsFiniteSet(WorkGroups(report))
  <2> DEFINE four == {A!Bucket(report, "INHERITED", TRUE), A!Bucket(report, "INHERITED", FALSE),
                      A!Bucket(report, "INTRODUCED", TRUE), A!Bucket(report, "INTRODUCED", FALSE)}
  <2>1. IsFiniteSet(four)
    <3>1. ASSUME NEW w, NEW x, NEW y, NEW z PROVE IsFiniteSet({w, x, y, z})
      <4>1. IsFiniteSet({} \cup {w})
        BY FS_EmptySet, FS_AddElement
      <4>2. IsFiniteSet(({} \cup {w}) \cup {x})
        BY <4>1, FS_AddElement
      <4>3. IsFiniteSet((({} \cup {w}) \cup {x}) \cup {y})
        BY <4>2, FS_AddElement
      <4>4. IsFiniteSet(((({} \cup {w}) \cup {x}) \cup {y}) \cup {z})
        BY <4>3, FS_AddElement
      <4>5. {w, x, y, z} = ((({} \cup {w}) \cup {x}) \cup {y}) \cup {z}
        OBVIOUS
      <4> QED BY <4>4, <4>5
    <3> QED BY <3>1
  <2>2. WorkGroups(report) \in SUBSET four
    <3>1. ASSUME NEW origin \in {"INHERITED", "INTRODUCED"}, NEW fixable \in BOOLEAN
          PROVE  A!Bucket(report, origin, fixable) \in four
      OBVIOUS
    <3> HIDE DEF four
    <3> QED BY <3>1 DEF WorkGroups
  <2> QED BY <2>1, <2>2, FS_Subset
<1> QED BY <1>1, <1>2

\* Who comes first has the smaller place; and one has place 1.
LEMMA ThePlanIsARanking ==
  ASSUME NEW report, IsFiniteSet(report.findings)
  PROVE  LET plan == A!Plan(report)
         IN  /\ DOMAIN plan = WorkGroups(report)
             /\ \A b, c \in WorkGroups(report) : A!First(b, c) => plan[b] # plan[c]
             /\ WorkGroups(report) # {} => \E b \in WorkGroups(report) : plan[b] = 1 /\ \A c \in WorkGroups(report) : ~A!First(c, b)
<1> DEFINE G == WorkGroups(report)
           Sooner(b) == {c \in G : A!First(c, b)}
           plan == A!Plan(report)
<1>1. plan = [b \in G |-> 1 + Cardinality(Sooner(b))]
  BY CountsAlike DEF A!Plan, WorkGroups
<1>2. IsFiniteSet(G) /\ \A b \in G : Sized(b)
  BY GroupsAreFinite
<1> HIDE DEF plan, G
<1>3. \A b \in G : IsFiniteSet(Sooner(b)) /\ Cardinality(Sooner(b)) \in Nat
  <2> TAKE b \in G
  <2>1. Sooner(b) \in SUBSET G
    OBVIOUS
  <2> QED BY <1>2, <2>1, FS_Subset, FS_CardinalityType
<1>4. ASSUME NEW b \in G, NEW c \in G, A!First(b, c) PROVE Cardinality(Sooner(b)) < Cardinality(Sooner(c))
  <2>1. Sooner(b) \in SUBSET Sooner(c)
    BY <1>2, <1>4, TheOrderIsStrict
  <2>2. b \in Sooner(c) /\ b \notin Sooner(b)
    BY <1>2, <1>4, TheOrderIsStrict
  <2>3. Cardinality(Sooner(b)) <= Cardinality(Sooner(c)) /\ Cardinality(Sooner(b)) # Cardinality(Sooner(c))
    BY <1>3, <2>1, <2>2, FS_Subset
  <2> QED BY <1>3, <2>3
<1>5. ASSUME G # {} PROVE \E b \in G : Sooner(b) = {}
  <2> DEFINE sizes == {Cardinality(Sooner(b)) : b \in G}
  <2>1. sizes \in SUBSET Nat /\ sizes # {}
    BY <1>3, <1>5
  <2>2. PICK n \in sizes : \A m \in sizes : n <= m
    BY <2>1, LeastIsIn
  <2>3. PICK b \in G : n = Cardinality(Sooner(b))
    OBVIOUS
  <2>4. \A c \in G : ~A!First(c, b)
    <3> SUFFICES ASSUME NEW c \in G, A!First(c, b) PROVE FALSE
      OBVIOUS
    <3>1. Cardinality(Sooner(c)) \in sizes
      OBVIOUS
    <3>2. Cardinality(Sooner(c)) < Cardinality(Sooner(b))
      BY <1>4
    <3> HIDE DEF Sooner
    <3> QED BY <1>3, <2>2, <2>3, <3>1, <3>2
  <2> QED BY <2>4
<1>6. \A b \in G : plan[b] = 1 + Cardinality(Sooner(b))
  BY <1>1
<1>7. \A b, c \in G : A!First(b, c) => plan[b] # plan[c]
  <2> HIDE DEF Sooner
  <2> TAKE b, c \in G
  <2> HAVE A!First(b, c)
  <2> QED BY <1>3, <1>4, <1>6
<1>8. G # {} => \E b \in G : plan[b] = 1 /\ \A c \in G : ~A!First(c, b)
  BY <1>5, <1>6, FS_EmptySet
<1>9. DOMAIN plan = G
  BY <1>1
<1> QED BY <1>7, <1>8, <1>9 DEF plan, G

\* What is attributed to an origin has that origin and one of its identities.
LEMMA AttributedTo ==
  ASSUME NEW origin, NEW scan, NEW ids
  PROVE  /\ \A f \in A!Attributed(origin, scan, ids) : f.origin = origin /\ f.id \in ids
         /\ \A id \in ids : \E f \in A!Attributed(origin, scan, ids) : f.id = id
<1>1. \A f \in A!Attributed(origin, scan, ids) : f.origin = origin /\ f.id \in ids
  BY DEF A!Attributed
<1>2. ASSUME NEW id \in ids PROVE \E f \in A!Attributed(origin, scan, ids) : f.id = id
  <2> DEFINE f == [id |-> id, origin |-> origin, severity |-> A!Reported(scan, id).severity,
                   fixed |-> A!Reported(scan, id).fixed]
  <2>1. f \in A!Attributed(origin, scan, ids)
    BY DEF A!Attributed
  <2>2. f.id = id
    OBVIOUS
  <2> QED BY <2>1, <2>2
<1> QED BY <1>1, <1>2

\* Whose each identity is: the build's, its base's or of both.
LEMMA WhoseItIs ==
  ASSUME NEW built, NEW base, NEW id
  PROVE  LET found == A!Attribute(built, base).findings
             Is(origin) == \E f \in found : f.origin = origin /\ f.id = id
         IN  /\ Is("INHERITED") <=> id \in A!Identities(built) /\ id \in A!Identities(base)
             /\ Is("INTRODUCED") <=> id \in A!Identities(built) /\ id \notin A!Identities(base)
             /\ Is("REMOVED") <=> id \notin A!Identities(built) /\ id \in A!Identities(base)
<1> DEFINE both == A!Identities(built) \cap A!Identities(base)
           added == A!Identities(built) \ A!Identities(base)
           gone == A!Identities(base) \ A!Identities(built)
           found == A!Attribute(built, base).findings
           inherited == A!Attributed("INHERITED", built, both)
           introduced == A!Attributed("INTRODUCED", built, added)
           removed == A!Attributed("REMOVED", base, gone)
<1>1. found = inherited \cup introduced \cup removed
  BY DEF A!Attribute
<1> HIDE DEF both, added, gone
<1>2. /\ \A f \in inherited : f.origin = "INHERITED" /\ f.id \in both
      /\ \A x \in both : \E f \in inherited : f.id = x
  BY AttributedTo
<1>3. /\ \A f \in introduced : f.origin = "INTRODUCED" /\ f.id \in added
      /\ \A x \in added : \E f \in introduced : f.id = x
  BY AttributedTo
<1>4. /\ \A f \in removed : f.origin = "REMOVED" /\ f.id \in gone
      /\ \A x \in gone : \E f \in removed : f.id = x
  BY AttributedTo
<1> HIDE DEF found, inherited, introduced, removed
<1>5. /\ (\E f \in found : f.origin = "INHERITED" /\ f.id = id) <=> id \in both
      /\ (\E f \in found : f.origin = "INTRODUCED" /\ f.id = id) <=> id \in added
      /\ (\E f \in found : f.origin = "REMOVED" /\ f.id = id) <=> id \in gone
  BY <1>1, <1>2, <1>3, <1>4
<1> QED BY <1>5 DEF found, both, added, gone

\* A finding in the image has the severity that its scan reports.
LEMMA WhatIsAttributed ==
  ASSUME NEW built, NEW base, NEW f \in A!Attribute(built, base).findings
  PROVE  /\ f.origin \in {"INHERITED", "INTRODUCED", "REMOVED"}
         /\ f.id \in A!Identities(built) \cup A!Identities(base)
         /\ f.origin # "REMOVED" => f.severity = A!Reported(built, f.id).severity
<1>1. ASSUME NEW origin, NEW scan, NEW ids, f \in A!Attributed(origin, scan, ids)
      PROVE  f.origin = origin /\ f.id \in ids /\ f.severity = A!Reported(scan, f.id).severity
  BY <1>1 DEF A!Attributed
<1>2. CASE f \in A!Attributed("INHERITED", built, A!Identities(built) \cap A!Identities(base))
  BY <1>1, <1>2
<1>3. CASE f \in A!Attributed("INTRODUCED", built, A!Identities(built) \ A!Identities(base))
  BY <1>1, <1>3
<1>4. CASE f \in A!Attributed("REMOVED", base, A!Identities(base) \ A!Identities(built))
  BY <1>1, <1>4
<1> QED BY <1>2, <1>3, <1>4 DEF A!Attribute

\* Each finding in the image has one group, and criticals come first.
LEMMA EachHasItsGroup ==
  ASSUME NEW built, NEW base, IsList(built), IsList(base)
  PROVE  LET report == A!Attribute(built, base)
             plan   == A!Plan(report)
         IN  /\ UNION {b.findings : b \in DOMAIN plan} = {f \in report.findings : f.origin # "REMOVED"}
             /\ \A b, c \in DOMAIN plan : b # c => b.findings \cap c.findings = {} /\ plan[b] # plan[c]
             /\ \A f \in report.findings : f.origin # "REMOVED" /\ f.severity = 4 =>
                  \E b \in DOMAIN plan : plan[b] = 1 /\ A!Critical(b) > 0
<1> DEFINE report == A!Attribute(built, base)
           plan == A!Plan(report)
           W == WorkGroups(report)
<1>1. IsFiniteSet(report.findings)
  BY ReportIsFinite
<1>2. /\ DOMAIN plan = W
      /\ \A b, c \in W : A!First(b, c) => plan[b] # plan[c]
      /\ W # {} => \E b \in W : plan[b] = 1 /\ \A c \in W : ~A!First(c, b)
  BY <1>1, ThePlanIsARanking
<1>3. \A b \in W : Sized(b)
  BY <1>1, GroupsAreFinite
<1>4. \A f \in report.findings : f.origin \in {"INHERITED", "INTRODUCED", "REMOVED"}
  BY WhatIsAttributed
<1> HIDE DEF report, plan
<1>5. ASSUME NEW b \in W
      PROVE  /\ b = A!Bucket(report, b.origin, b.fixable)
             /\ b.origin \in {"INHERITED", "INTRODUCED"} /\ b.fixable \in BOOLEAN
             /\ b.findings = {f \in report.findings : f.origin = b.origin /\ A!Fixable(f) = b.fixable}
  <2>1. PICK origin \in {"INHERITED", "INTRODUCED"}, fixable \in BOOLEAN : b = A!Bucket(report, origin, fixable)
    BY DEF WorkGroups
  <2>2. b.origin = origin /\ b.fixable = fixable
    BY <2>1 DEF A!Bucket
  <2> QED BY <2>1, <2>2 DEF A!Bucket
<1>6. ASSUME NEW f \in report.findings, f.origin # "REMOVED"
      PROVE  \E b \in W : f \in b.findings
  <2> DEFINE b == A!Bucket(report, f.origin, A!Fixable(f))
  <2>1. f.origin \in {"INHERITED", "INTRODUCED"} /\ A!Fixable(f) \in BOOLEAN
    BY <1>4, <1>6 DEF A!Fixable
  <2>2. f \in b.findings
    BY DEF A!Bucket
  <2> HIDE DEF b
  <2>3. b \in W
    BY <2>1, <2>2 DEF WorkGroups, b
  <2> QED BY <2>2, <2>3
<1> HIDE DEF W
<1>7. UNION {b.findings : b \in W} = {f \in report.findings : f.origin # "REMOVED"}
  <2>1. \A b \in W : b.findings \subseteq {f \in report.findings : f.origin # "REMOVED"}
    BY <1>5
  <2> QED BY <1>6, <2>1
<1>8. ASSUME NEW b \in W, NEW c \in W, b # c
      PROVE  b.findings \cap c.findings = {} /\ plan[b] # plan[c]
  <2>1. b.origin # c.origin \/ b.fixable # c.fixable
    BY <1>5, <1>8
  <2>2. b.findings \cap c.findings = {}
    <3> SUFFICES ASSUME NEW f \in b.findings \cap c.findings PROVE FALSE
      OBVIOUS
    <3>1. f.origin = b.origin /\ A!Fixable(f) = b.fixable
      BY <1>5
    <3>2. f.origin = c.origin /\ A!Fixable(f) = c.fixable
      BY <1>5
    <3> QED BY <2>1, <3>1, <3>2
  <2>3. A!Place(b) # A!Place(c)
    BY <1>5, <2>1 DEF A!Place
  <2> QED BY <1>2, <1>3, <2>2, <2>3, TheOrderIsStrict
<1>9. ASSUME NEW f \in report.findings, f.origin # "REMOVED", f.severity = 4
      PROVE  \E b \in W : plan[b] = 1 /\ A!Critical(b) > 0
  <2>1. PICK c \in W : f \in c.findings
    BY <1>6, <1>9
  <2>2. A!Critical(c) > 0
    <3> DEFINE worst == {g \in c.findings : g.severity = 4}
    <3>1. worst \in SUBSET report.findings /\ worst # {}
      BY <1>5, <1>9, <2>1
    <3>2. IsFiniteSet(worst)
      BY <1>1, <3>1, FS_Subset
    <3>3. Cardinality(worst) # 0 /\ Cardinality(worst) \in Nat
      BY <3>1, <3>2, FS_EmptySet, FS_CardinalityType
    <3> QED BY <3>3, CountsAlike DEF A!Critical
  <2>3. PICK b \in W : plan[b] = 1 /\ \A d \in W : ~A!First(d, b)
    BY <1>2, <2>1
  <2>4. ~A!First(c, b) /\ Sized(b) /\ Sized(c)
    BY <1>3, <2>3
  <2>5. A!Critical(b) >= A!Critical(c)
    BY <2>4 DEF A!First, Sized
  <2> QED BY <2>2, <2>3, <2>4, <2>5 DEF Sized
<1> QED BY <1>2, <1>7, <1>8, <1>9 DEF report, plan

\* With or without both scans, nobody is blamed for what was not measured.
LEMMA TheBlameIsEarned ==
  ASSUME NEW built, NEW name, NEW base, built # None => IsList(built), base # None => IsList(base)
  PROVE  A!BlameIsEarned(built, name, base)
<1> DEFINE ground == IF name = "scratch" THEN <<>> ELSE base
           answered == built # None /\ name # None /\ (name = "scratch" \/ base # None)
           report == A!AttributeFindings(built, name, base)
<1>1. CASE ~answered
  <2>1. report.available = FALSE /\ report.findings = {}
    BY <1>1 DEF A!AttributeFindings, A!Unavailable
  <2> QED BY <2>1 DEF A!BlameIsEarned
<1>2. CASE answered
  <2>1. report = A!Attribute(built, ground)
    BY <1>2 DEF A!AttributeFindings
  <2>2. report.available
    BY <2>1 DEF A!Attribute
  <2>3. IsList(built) /\ IsList(ground)
    BY <1>2 DEF IsList
  <2>4. ASSUME NEW i \in DOMAIN built
        PROVE  LET Is(origin) == \E f \in report.findings :
                                   f.origin = origin /\ f.id[1] = built[i].cve /\ f.id[2] = built[i].package
                   before == name # "scratch" /\ \E j \in DOMAIN base : A!SameProblem(built[i], base[j])
               IN  Is("INHERITED") = before /\ Is("INTRODUCED") = ~before /\ ~Is("REMOVED")
    <3> DEFINE id == A!Identity(built[i])
               before == name # "scratch" /\ \E j \in DOMAIN base : A!SameProblem(built[i], base[j])
    <3>1. id \in A!Identities(built)
      BY DEF A!Identities
    <3>2. id \in A!Identities(ground) <=> before
      <4>1. CASE name = "scratch"
        BY <4>1 DEF A!Identities
      <4>2. CASE name # "scratch"
        BY <4>2 DEF A!Identities, A!Identity, A!SameProblem
      <4> QED BY <4>1, <4>2
    <3>3. \A f \in report.findings : f.id[1] = built[i].cve /\ f.id[2] = built[i].package <=> f.id = id
      <4> TAKE f \in report.findings
      <4>1. f.id \in A!Identities(built) \cup A!Identities(ground)
        BY <2>1, WhatIsAttributed
      <4>2. f.id = <<f.id[1], f.id[2]>>
        BY <4>1 DEF A!Identities, A!Identity
      <4> QED BY <4>2 DEF A!Identity
    <3> HIDE DEF id, before, report, ground
    <3>4. /\ (\E f \in report.findings : f.origin = "INHERITED" /\ f.id = id) <=> before
          /\ (\E f \in report.findings : f.origin = "INTRODUCED" /\ f.id = id) <=> ~before
          /\ ~ \E f \in report.findings : f.origin = "REMOVED" /\ f.id = id
      BY <2>1, <3>1, <3>2, WhoseItIs
    <3> QED BY <3>3, <3>4 DEF before
  <2>5. ASSUME NEW i \in DOMAIN built, \A j \in DOMAIN built : A!SameProblem(built[i], built[j]) => built[j].severity = 4
        PROVE  \E f \in report.findings : f.origin # "REMOVED" /\ f.severity = 4
    <3> DEFINE id == A!Identity(built[i])
    <3>1. id \in A!Identities(built)
      BY DEF A!Identities
    <3>2. PICK j \in DOMAIN built : A!Identity(built[j]) = id /\ A!Reported(built, id) = built[j]
      BY <2>3, <3>1, ReportedIsOfIt
    <3>3. built[j].severity = 4
      BY <2>5, <3>2 DEF A!SameProblem, A!Identity
    <3> HIDE DEF id, report, ground
    <3>4. PICK f \in report.findings : f.origin # "REMOVED" /\ f.id = id
      BY <2>1, <3>1, WhoseItIs
    <3>5. f.severity = 4
      BY <2>1, <3>2, <3>3, <3>4, WhatIsAttributed
    <3> QED BY <3>4, <3>5
  <2> DEFINE plan == A!Plan(report)
  <2>6. /\ UNION {b.findings : b \in DOMAIN plan} = {f \in report.findings : f.origin # "REMOVED"}
        /\ \A b, c \in DOMAIN plan : b # c => b.findings \cap c.findings = {} /\ plan[b] # plan[c]
        /\ \A f \in report.findings : f.origin # "REMOVED" /\ f.severity = 4 =>
             \E b \in DOMAIN plan : plan[b] = 1 /\ A!Critical(b) > 0
    BY <2>1, <2>3, EachHasItsGroup
  <2> HIDE DEF report, plan
  <2> QED BY <1>2, <2>2, <2>4, <2>5, <2>6 DEF A!BlameIsEarned, report, plan
<1> QED BY <1>1, <1>2

-----------------------------------------------------------------------------
(***************************************************************************)
(* What DockerLs advises and reports is what it measured, for any inputs:  *)
(* a layer has a fix for all that it upgrades and nothing fixable is called *)
(* unresolved (remediation.py); a direct replacement has no cost that its  *)
(* definition excludes, and every cost its check (migration.py); a finding *)
(* is the build's own only where its base was measured without it, and the *)
(* plan of work lists each once, criticals first (inheritance.py); a cause *)
(* is what is known to have changed (run_diff.py); what is hidden on a day *)
(* is stated for that day (ignore_file.py, vex.py); and an alert is an     *)
(* answer of the registry (registry_audit.py).                             *)
(***************************************************************************)
THEOREM WhatIsAdvisedIsHonest == Spec => []AdviceIsHonest
<1> DEFINE Inv == /\ topic = "remedy" => input \in RemedyInputs
                  /\ topic = "blame" => input \in BlameInputs
                  /\ topic = "exemptions" => input \in ExemptionInputs
                  /\ topic = "audit" => input \in AuditInputs
<1>1. Init => Inv
  BY DEF Init
<1>2. Inv /\ [Judge]_vars => Inv'
  BY InputsStay
<1>3. Inv => AdviceIsHonest
  <2> SUFFICES ASSUME Inv PROVE AdviceIsHonest
    OBVIOUS
  <2>1. topic = "remedy" => M!RemedyIsHonest(input.findings, input.distro)
    BY FindingsHaveOrigins, TheRemedyIsHonest
  <2>2. topic = "migration" => M!MigrationIsHonest(input[1], input[2])
    BY TheMigrationIsHonest
  <2>3. topic = "blame" => A!BlameIsEarned(input.built, input.name, input.base)
    BY ScansAreLists, TheBlameIsEarned
  <2>4. topic = "runs" => A!CauseIsKnown(input[1], input[2])
    BY TheCauseIsKnown
  <2>5. topic = "exemptions" => X!HiddenIsSaid(input.entries, input.found, input.days[1], input.days[2])
    BY DaysFollow, WhatIsHiddenIsSaid
  <2>6. topic = "audit" => R!AlertIsAnAnswer(input.given, input.registry, input.history)
    BY RegistriesSaySomething, AnAlertIsAnAnswer
  <2> QED BY <2>1, <2>2, <2>3, <2>4, <2>5, <2>6 DEF AdviceIsHonest, Asked
<1> QED BY <1>1, <1>2, <1>3, PTL DEF Spec
=============================================================================
