---------------------------- MODULE BuildPolicy ----------------------------
(***************************************************************************)
(* The gates of --fail-on (gate.py) and the policy of a repository         *)
(* (build_policy.py): how a side is evaluated, and how two sides, the file *)
(* of the repository and the command line or the production profile, are   *)
(* merged into the one that a build has to pass.                           *)
(*                                                                         *)
(* A gate is [kind, at], `at` being the position of a severity in          *)
(* SEVERITY_THRESHOLDS or the floor of an EPSS in percent; a finding is    *)
(* [severity, kev, epss]; `counts` are those of the whole scan by          *)
(* position, or None.  A policy's fail_on is a set of gates.               *)
(***************************************************************************)
EXTENDS Integers, FiniteSetsExt

CONSTANT None

Severities == 1..4      \* SEVERITY_THRESHOLDS: critical, high, medium, low; 0 is off the scale

Offends(gate, finding) ==
  CASE gate.kind = "severity" -> finding.severity \in 1..gate.at
    [] gate.kind = "kev"  -> finding.kev = "true"
    [] gate.kind = "epss" -> finding.epss # None /\ finding.epss >= gate.at
Answered(gate, finding) ==
  CASE gate.kind = "severity" -> TRUE
    [] gate.kind = "kev"  -> finding.kev # "unknown"
    [] gate.kind = "epss" -> finding.epss # None

\* A count of the whole scan prevails over the findings that the report kept.
Fires(gate, findings, counts) ==
  IF gate.kind = "severity" /\ counts # None THEN \E s \in 1..gate.at : counts[s] > 0
  ELSE \E finding \in findings : Offends(gate, finding)
Outcome(gate, findings, counts) ==
  IF Fires(gate, findings, counts) THEN "FAIL"
  ELSE IF findings # {} /\ \A finding \in findings : ~Answered(gate, finding) THEN "UNMEASURED"
  ELSE "PASS"

\* GateSet.evaluate: a question left unanswered stops a build as well.
Failing(gates, findings, counts) == {gate \in gates : Outcome(gate, findings, counts) # "PASS"}

(***************************************************************************)
(* merge_gates: of the severities the lowest on the scale prevails, the    *)
(* other gates add up; a side that names no gate leaves the other as it is.*)
(***************************************************************************)
Levels(gates) == {gate.at : gate \in {g \in gates : g.kind = "severity"}}
Level(at) == {[kind |-> "severity", at |-> at]}
\* mutant: the word that frightens most prevails
MergeGatesByWord(declared, requested) ==
  IF declared = {} \/ requested = {} THEN declared \cup requested
  ELSE LET both == declared \cup requested IN
       {gate \in both : gate.kind # "severity"}
         \cup IF Levels(both) = {} THEN {} ELSE Level(Min(Levels(both)))
MergeGates(declared, requested) ==
  IF declared = {} \/ requested = {} THEN declared \cup requested
  ELSE LET both == declared \cup requested IN
       {gate \in both : gate.kind # "severity"}
         \cup IF Levels(both) = {} THEN {} ELSE Level(Max(Levels(both)))

(***************************************************************************)
(* BuildPolicy.  `ceilings` maps some severities to the number tolerated.  *)
(***************************************************************************)
Empty == [fail_on |-> {}, ceilings |-> [s \in {} |-> 0], scan |-> FALSE, pinned |-> FALSE,
          nonroot |-> FALSE, labels |-> {}, registries |-> {}, provenance |-> FALSE]
Production ==
  [Empty EXCEPT !.fail_on = Level(1), !.scan = TRUE, !.pinned = TRUE, !.nonroot = TRUE,
                !.provenance = TRUE, !.labels = {"source", "vendor", "contact"}]
StaticSubset(policy) ==
  [Empty EXCEPT !.pinned = policy.pinned, !.nonroot = policy.nonroot,
                !.labels = policy.labels, !.registries = policy.registries]

\* mutant: a ceiling of the other side replaces this one's
CeilingOfOther(p, q, s) == IF s \in DOMAIN q.ceilings THEN q.ceilings[s] ELSE p.ceilings[s]
Ceiling(p, q, s) ==
  Min({policy.ceilings[s] : policy \in {r \in {p, q} : s \in DOMAIN r.ceilings}})
Merged(p, q) ==
  [fail_on    |-> MergeGates(p.fail_on, q.fail_on),
   ceilings   |-> [s \in DOMAIN p.ceilings \cup DOMAIN q.ceilings |-> Ceiling(p, q, s)],
   scan       |-> p.scan \/ q.scan,
   pinned     |-> p.pinned \/ q.pinned,
   nonroot    |-> p.nonroot \/ q.nonroot,
   labels     |-> p.labels \cup q.labels,
   registries |-> p.registries \cup q.registries,
   provenance |-> p.provenance \/ q.provenance]

(***************************************************************************)
(* evaluate: the violations, each a rule and what breaks it.  The facts    *)
(* are those a build measured; `nonroot` has three values, and what could  *)
(* not be determined is a violation.                                       *)
(***************************************************************************)
Broken(rule, whats) == {<<rule, what>> : what \in whats}
CheckScan(policy, facts) == Broken("scan", IF policy.scan /\ ~facts.scanned THEN {None} ELSE {})
CheckCeilings(policy, facts) ==
  Broken("ceiling", IF DOMAIN policy.ceilings = {} THEN {}
                    ELSE IF ~facts.scanned THEN {None}
                    ELSE {s \in DOMAIN policy.ceilings : facts.counts[s] > policy.ceilings[s]})
CheckBases(policy, facts) ==
  Broken("pinned", IF ~policy.pinned THEN {}
                   ELSE IF facts.bases = {} THEN {None} ELSE {base \in facts.bases : ~base.pinned})
    \cup Broken("registry", IF policy.registries = {} THEN {}
                            ELSE {base \in facts.bases : base.registry \notin policy.registries})
CheckNonroot(policy, facts) ==
  Broken("nonroot", IF policy.nonroot /\ facts.nonroot # "true" THEN {None} ELSE {})
CheckLabels(policy, facts) == Broken("label", policy.labels \ facts.labels)
CheckProvenance(policy, facts) ==
  Broken("provenance", IF policy.provenance /\ facts.provenance # "VERIFIED" THEN {None} ELSE {})

Violations(policy, facts) ==
  CheckScan(policy, facts) \cup CheckCeilings(policy, facts) \cup CheckBases(policy, facts)
    \cup CheckNonroot(policy, facts) \cup CheckLabels(policy, facts) \cup CheckProvenance(policy, facts)
-----------------------------------------------------------------------------
(***************************************************************************)
(* A build passes the merged gates exactly when it passes those of both    *)
(* sides: neither the file nor the flag loosens the other, nor do they     *)
(* together refuse what each of them accepts (gate.py, merge_gates).       *)
(***************************************************************************)
GatesAddUp(declared, requested, findings, counts) ==
  Failing(MergeGates(declared, requested), findings, counts) = {}
    <=> Failing(declared, findings, counts) = {} /\ Failing(requested, findings, counts) = {}

(***************************************************************************)
(* build_policy.py:186-192: "a demand declared in either holds in both".   *)
(* What violates one side violates the merged policy, here where at most   *)
(* one side restricts the registries (MergeOnlyTightens without that       *)
(* premise fails: the two lists are united).                               *)
(***************************************************************************)
Demands(p, q, facts) == Violations(p, facts) \cup Violations(q, facts) \subseteq Violations(Merged(p, q), facts)
MergeOnlyTightens(p, q, facts) == p.registries = {} \/ q.registries = {} => Demands(p, q, facts)
=============================================================================
