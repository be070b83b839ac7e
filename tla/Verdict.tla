------------------------------- MODULE Verdict -------------------------------
(***************************************************************************)
(* From measurements to a verdict, as functions: the security score and    *)
(* its tier (security_score.py, security_tier.py), the two dimensions over *)
(* what was determined (hardening.py, attack_surface.py), confidence,      *)
(* production readiness, the order of candidates (verdict.py), the second  *)
(* scanner's opinion (cross_validation.py) and the summary that a command  *)
(* ends with (decision_summary.py, alternatives_lookup.py).                *)
(*                                                                         *)
(* An analysis is a record: `verified`, the counts `critical`, `high` and  *)
(* `medium`, `unfixable` (criticals without a fix), `exploited` (in KEV),  *)
(* `epss` (percents), `age` in years or Unknown, `signals` (a set), `eol`, *)
(* `tag` and the `facts` as "true", "false" or "unknown", `digest` and     *)
(* `second`, the outcome of the second scanner.  Scores are in hundredths  *)
(* of a point, weights in tenths.                                          *)
(***************************************************************************)
EXTENDS Integers, FiniteSetsExt, SequencesExt

CONSTANT Unknown

(***************************************************************************)
(* SecurityScore and SecurityTier.                                         *)
(***************************************************************************)
Base == 9600
SignalBonus == [official |-> 100, minimal |-> 100, signed |-> 100, lts |-> 50, recent |-> 50]
Bonus(a) ==
  LET of(signal) == IF signal \in a.signals THEN SignalBonus[signal] ELSE 0
  IN  of("official") + of("minimal") + of("signed") + of("lts") + of("recent")

\* A step at one half, and a slope.
EpssPenalty(p) == 4 * p + (IF p >= 50 THEN 500 ELSE 0)
ExploitPenalty(epss) ==
  LET sum[n \in 0..Len(epss)] == IF n = 0 THEN 0 ELSE sum[n - 1] + EpssPenalty(epss[n])
  IN  sum[Len(epss)]
AgePenalty(a) == IF a.age = Unknown THEN 0 ELSE Min({100 * a.age, 300})
Penalty(a) ==
  2000 * a.critical + 500 * a.high + 100 * a.medium + 1000 * a.exploited
  + ExploitPenalty(a.epss)
  + (IF a.eol = "true" THEN 2000 ELSE 0) + AgePenalty(a)

Rounded(n) == 10 * ((n + 5) \div 10)
Score(a) == Max({0, Min({10000, Rounded(Base - Penalty(a) + Bonus(a))})})

Floors == <<9000, 7500, 6000, 4000, 2000, 0>>  \* tiers 1 (A) to 6 (F)
TierOf(score) == CHOOSE t \in 1..6 : score >= Floors[t] /\ \A u \in 1..(t - 1) : score < Floors[u]
\* A critical without a fix keeps the image out of A and B.
Tier(a) == IF a.unfixable > 0 THEN Max({TierOf(Score(a)), 3}) ELSE TierOf(Score(a))

(***************************************************************************)
(* HardeningScore and AttackSurfaceScore: shares of the weight of the      *)
(* facts that were determined; too little of it is not reported.           *)
(***************************************************************************)
HardeningWeight == [nonroot |-> 250, shell |-> 150, manager |-> 120, debug |-> 80, setuid |-> 100,
                    ports |-> 80, entrypoint |-> 50, healthcheck |-> 50]
SurfaceWeight == [manager |-> 250, shell |-> 200, debug |-> 150, setuid |-> 150, nonroot |-> 150]
Wanted(f) == IF f \in {"nonroot", "entrypoint", "healthcheck"} THEN "true" ELSE "false"

FewPackages(n) == IF n <= 50 THEN 120 ELSE Max({0, (120 * (200 - n)) \div 150})
ManyPackages(n) == (100 * Min({n, 400})) \div 400

Weigh(weight, earning, packages, packageWeight, a) ==
  LET known  == {f \in DOMAIN weight : a.facts[f] # "unknown"}
      sum(S) == MapThenSumSet(LAMBDA f : weight[f], S)
      counted == a.packages # Unknown
      available == sum(known) + (IF counted THEN packageWeight ELSE 0)
      earned == sum(known \cap earning) + (IF counted THEN packages ELSE 0)
  IN  [reportable |-> 4 * available >= sum(DOMAIN weight) + packageWeight,
       score |-> IF available = 0 THEN 0 ELSE (1000 * earned) \div available]

Hardening(a) ==
  Weigh(HardeningWeight, {f \in DOMAIN HardeningWeight : a.facts[f] = Wanted(f)},
        FewPackages(a.packages), 120, a)
AttackSurface(a) ==
  Weigh(SurfaceWeight, {f \in DOMAIN SurfaceWeight : a.facts[f] # Wanted(f)},
        ManyPackages(a.packages), 100, a)
Reported(dimension) == IF dimension.reportable THEN dimension.score ELSE 0

(***************************************************************************)
(* HardeningAnalyzer: what the registry measured, presence that the        *)
(* scanner's packages prove, and what the catalogue declares about the     *)
(* rest; a claim that contradicts a measurement is a conflict.             *)
(***************************************************************************)
Seen(registry, present) == [f \in DOMAIN registry |-> IF f \in present THEN "true" ELSE registry[f]]
Merged(registry, present, declared) ==
  LET seen == Seen(registry, present) IN
    [f \in DOMAIN registry |-> IF seen[f] = "unknown" THEN declared[f] ELSE seen[f]]
Conflicts(registry, present, declared) ==
  {f \in DOMAIN registry : "unknown" \notin {Seen(registry, present)[f], declared[f]}
                           /\ Seen(registry, present)[f] # declared[f]}

(***************************************************************************)
(* ConfidenceAssessment, from "unverified" (0) over low and medium to high *)
(* (3), and ProductionReadiness as the set of its blockers.                *)
(***************************************************************************)
CrossValidated(a) == a.second \in {"AGREEMENT", "MINOR"}
Gaps(a) ==
  {g \in {"one scanner", "minor", "digest", "coverage"} :
     \/ g = "one scanner" /\ ~CrossValidated(a)
     \/ g = "minor" /\ a.second = "MINOR"
     \/ g = "digest" /\ ~a.digest
     \/ g = "coverage" /\ ~Hardening(a).reportable}

Confidence(a) ==
  IF ~a.verified THEN 0
  ELSE IF a.tag = "false" \/ a.second = "MATERIAL" \/ (~a.digest /\ a.tag # "true") THEN 1
  ELSE IF Gaps(a) # {} THEN 2 ELSE 3

Blockers(a) ==
  {b \in {"NOT_MEASURED", "LOW_CONFIDENCE", "END_OF_LIFE", "CRITICAL_FINDINGS", "HIGH_FINDINGS",
          "UNFIXABLE_CRITICAL", "SCANNER_DIVERGENCE", "TIER_TOO_LOW"} :
     \/ b = "NOT_MEASURED" /\ ~a.verified
     \/ b = "LOW_CONFIDENCE" /\ Confidence(a) < 2
     \/ b = "END_OF_LIFE" /\ a.eol = "true"
     \/ b = "CRITICAL_FINDINGS" /\ a.critical > 0
     \/ b = "HIGH_FINDINGS" /\ a.high > 0
     \/ b = "UNFIXABLE_CRITICAL" /\ a.unfixable > 0
     \/ b = "SCANNER_DIVERGENCE" /\ a.second = "MATERIAL"
     \/ b = "TIER_TOO_LOW" /\ Tier(a) > 2}
Ready(a) == Blockers(a) = {}

(***************************************************************************)
(* verdict.rank: the first term that differs decides.                      *)
(***************************************************************************)
\* mutant: the score decides before the confidence in it
RankingKeyByScore(a) == <<Score(a), Confidence(a), Reported(Hardening(a)), -Reported(AttackSurface(a))>>
RankingKey(a) == <<Confidence(a), Score(a), Reported(Hardening(a)), -Reported(AttackSurface(a))>>
Outranks(a, b) ==
  LET x == RankingKey(a) y == RankingKey(b) IN
    \E i \in DOMAIN x : x[i] > y[i] /\ \A j \in 1..(i - 1) : x[j] = y[j]

(***************************************************************************)
(* CrossValidator.compare, of the findings of each compared severity.      *)
(***************************************************************************)
AbsTolerance == 2
Apart(mine, theirs) == (mine \ theirs) \cup (theirs \ mine)
Material(mine, theirs) ==
  LET magnitude == Cardinality(Apart(mine, theirs))
      baseline  == Max({Cardinality(mine), Cardinality(theirs), 1})
  IN  magnitude > AbsTolerance /\ 2 * magnitude > baseline
Compare(primary, secondary) ==
  LET severities == {"CRITICAL", "HIGH"} IN
  CASE \E s \in severities : Material(primary[s], secondary[s]) -> "MATERIAL"
    [] \E s \in severities : primary[s] # secondary[s] -> "MINOR"
    [] OTHER -> "AGREEMENT"

(***************************************************************************)
(* AlternativeSuggestion.improves, and the summary of a recommendation:    *)
(* `run` is complete, filtered (the filters left nothing), baseline_met,   *)
(* pending, failed (scans that failed for reasons of infrastructure).      *)
(***************************************************************************)
Improves(current, candidate) ==
  \/ candidate.critical < current.critical \/ candidate.high < current.high
  \/ /\ Score(candidate) > Score(current)
     /\ candidate.critical <= current.critical /\ candidate.high <= current.high

Kind(run, items) ==
  CASE items = <<>> -> "NONE"
    [] run.baseline_met /\ Ready(Head(items)) /\ run.complete /\ ~run.filtered -> "RECOMMENDED"
    [] OTHER -> "BEST_MEASURED"

Categories(run, items) ==
  {c \in {"POLICY", "INCOMPLETE", "INFRASTRUCTURE"} :
     \/ c = "POLICY" /\ items # <<>> /\ (Blockers(Head(items)) # {} \/ ~run.baseline_met)
     \/ c = "INCOMPLETE" /\ (~run.complete \/ run.pending \/ run.filtered)
     \/ c = "INFRASTRUCTURE" /\ run.failed}
-----------------------------------------------------------------------------
(***************************************************************************)
(* The measured position decides and nothing masks it: an unverified       *)
(* candidate never outranks a measured one; an image with an extra HIGH or *)
(* CRITICAL, the same otherwise and of the same age, never does either,    *)
(* whatever its signals and facts, unless both scores are at the bottom.   *)
(***************************************************************************)
Dirtier(a, b) ==
  /\ a.critical >= b.critical /\ a.high >= b.high /\ a.critical + a.high > b.critical + b.high
  /\ \A f \in {"medium", "exploited", "epss", "age", "eol", "verified", "second", "digest", "tag"} :
       a[f] = b[f]
MeasuredFirst(a, b) ==
  /\ ~a.verified /\ b.verified => ~Outranks(a, b)
  /\ /\ Dirtier(a, b) /\ Score(b) > 0 /\ Confidence(a) = Confidence(b)
     => ~Outranks(a, b)

\* SecurityScore: "no amount of ... may lift an image with an extra HIGH or
\* CRITICAL above a cleaner one", here with the age free.
\* The code does not keep it: the bonus and the age outweigh a HIGH.
CleanerScoresHigher(a, b) ==
  Dirtier([a EXCEPT !.age = b.age], b) => Score(a) <= Score(b)

(***************************************************************************)
(* Production readiness is earned by evidence: measured, of an image whose *)
(* tag exists and which is pinned or confirmed, without criticals and      *)
(* highs, not end of life and not disputed by the second scanner.          *)
(***************************************************************************)
ReadyIsEarned(a) ==
  Ready(a) =>
    /\ a.verified /\ a.critical = 0 /\ a.high = 0 /\ a.eol # "true"
    /\ a.tag # "false" /\ (a.digest \/ a.tag = "true") /\ a.second # "MATERIAL"
==============================================================================
