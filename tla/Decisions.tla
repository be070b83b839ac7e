----------------------------- MODULE Decisions -----------------------------
(***************************************************************************)
(* The pure decisions: a behaviour picks a question and an input to it,    *)
(* and judges it.                                                          *)
(***************************************************************************)
EXTENDS Recipe

CONSTANTS
  Unknown,
  VerdictInputs,    \* pairs of analyses (Verdict)
  PlanInputs,       \* [found, budget, criteria] (ScanPlan)
  FileInputs,       \* files, as sequences of lines (Dockerfile)
  Beside,           \* what lies beside each of them
  GateInputs,       \* [declared, requested, findings, counts] (BuildPolicy)
  PolicyInputs,     \* [mine, theirs, facts] (BuildPolicy)
  UpgradeInputs,    \* [file, today] (BaseUpgrade)
  Required,         \* the policy that their preflight is asked about
  RegistryOf,       \* name of a base -> its registry
  RecipeInputs,     \* pairs of recipes (Recipe)
  RecipesToday,     \* <<name, tag>> -> digest, for their bases
  RemedyInputs,     \* [findings, distro] (Migration)
  MigrationInputs,  \* pairs of sides (Migration)
  BlameInputs,      \* [built, name, base] (Attribution)
  RunInputs,        \* pairs of saved runs (Attribution)
  ExemptionInputs,  \* [entries, found, days] (Exemptions)
  AuditInputs       \* [given, registry, history] (RegistryAudit)

V == INSTANCE Verdict
S == INSTANCE ScanPlan
M == INSTANCE Migration
A == INSTANCE Attribution
X == INSTANCE Exemptions
R == INSTANCE RegistryAudit

VARIABLES topic, input, judged
vars == <<topic, input, judged>>

IsList(s) == s \in Seq({s[i] : i \in DOMAIN s})

\* What is counted in an analysis are numbers.
ASSUME CountsAreNumbers ==
  \A pair \in VerdictInputs : \A i \in {1, 2} :
    /\ {pair[i].critical, pair[i].high, pair[i].medium, pair[i].exploited} \subseteq Nat
    /\ pair[i].verified \in BOOLEAN /\ pair[i].epss \in Seq(Nat)
    /\ pair[i].age = Unknown \/ pair[i].age \in Nat

\* The discovered tags are finitely many, each with its own name.
ASSUME TagsAreNamed ==
  \A x \in PlanInputs :
    /\ IsFiniteSet(x.found) /\ x.budget \in Int
    /\ \A t \in x.found : t.version \in Seq(Nat) /\ t.published \in Int /\ t.name \in Int
    /\ \A s, t \in x.found : s.name = t.name => s = t

\* A file is a list of lines.
ASSUME FilesAreLists ==
  (\A file \in FileInputs : IsList(file)) /\ \A x \in UpgradeInputs : IsList(x.file)

\* None is not an account, nor what a recipe writes.
ASSUME NobodyIsNoUser ==
  /\ None \notin {0} /\ None \notin {"v1", "latest", "BASE_DIGEST"}
  /\ \A name \in {"appuser", "nonroot", "node"} \cup {pair[1].user : pair \in RecipeInputs} :
       None # [name |-> name, uid |-> None]

\* The registry could be asked about the images that recipes start from.
ASSUME BasesAreKnown ==
  \A pair \in RecipeInputs :
    LET key == <<pair[1].runtime, Image(pair[1].runtime, pair[1].family).tag>>
    IN  key \in DOMAIN RecipesToday /\ RecipesToday[key] # None

\* A gate of severity has its position on the scale.
ASSUME GatesAreGates ==
  \A x \in GateInputs : \A gate \in x.declared \cup x.requested :
    /\ gate = [kind |-> gate.kind, at |-> gate.at] /\ gate.kind \in {"severity", "kev", "epss"}
    /\ gate.kind = "severity" => gate.at \in Policy!Severities

\* Ceilings are numbers, and so are the counts of a scan.
ASSUME CeilingsAreNumbers ==
  \A x \in PolicyInputs : \A policy \in {x.mine, x.theirs} : \A s \in DOMAIN policy.ceilings :
    policy.ceilings[s] \in Nat /\ (x.facts.scanned => x.facts.counts[s] \in Nat)

\* A scanner names the kind of each finding.
ASSUME FindingsHaveOrigins == \A x \in RemedyInputs : \A finding \in x.findings : finding.origin \in {"os", "lang"}

ASSUME ScansAreLists ==
  \A x \in BlameInputs : (x.built # None => IsList(x.built)) /\ (x.base # None => IsList(x.base))

\* Days follow each other.
ASSUME DaysFollow ==
  \A x \in ExemptionInputs :
    /\ x.days[1] \in Int /\ x.days[2] \in Int /\ x.days[1] <= x.days[2]
    /\ \A entry \in x.entries : entry.expires # None => entry.expires \in Int

\* What a registry says is not nothing; what is remembered of a tag is a list.
ASSUME RegistriesSaySomething ==
  \A x \in AuditInputs :
    /\ \A tag \in {"sig", "att"} : tag \in DOMAIN x.registry.has /\ x.registry.has[tag] # None
    /\ IsList(x.history.seen) /\ x.history.dropped \in Nat

Init ==
  /\ judged = FALSE
  /\ \/ topic = "verdict" /\ input \in VerdictInputs
     \/ topic = "plan" /\ input \in PlanInputs
     \/ topic = "file" /\ input \in FileInputs
     \/ topic = "gates" /\ input \in GateInputs
     \/ topic = "policies" /\ input \in PolicyInputs
     \/ topic = "upgrade" /\ input \in UpgradeInputs
     \/ topic = "recipe" /\ input \in RecipeInputs
     \/ topic = "remedy" /\ input \in RemedyInputs
     \/ topic = "migration" /\ input \in MigrationInputs
     \/ topic = "blame" /\ input \in BlameInputs
     \/ topic = "runs" /\ input \in RunInputs
     \/ topic = "exemptions" /\ input \in ExemptionInputs
     \/ topic = "audit" /\ input \in AuditInputs
Judge == ~judged /\ judged' = TRUE /\ UNCHANGED <<topic, input>>
Spec == Init /\ [][Judge]_vars

Asked(t) == judged /\ topic = t
-----------------------------------------------------------------------------
\* What was measured decides the order and the readiness of candidates, and no
\* discovered tag is lost on the way to the scans (verdict.py, scan_plan.py).
VerdictIsEarned ==
  /\ Asked("verdict") => V!MeasuredFirst(input[1], input[2]) /\ V!ReadyIsEarned(input[1])
  /\ Asked("plan") =>
       /\ \A spread \in BOOLEAN : S!EveryTagAccounted(input.found, input.budget, input.criteria, spread)
       /\ S!SpreadCovers(input.found, input.budget, input.criteria)

\* A file that is called ready hides nothing that an error rule names, and
\* hardening a file does not add an error (dockerfile_validator.py).
DockerfileIsSound ==
  Asked("file") => ReadyHidesNothing(input, Beside) /\ HardeningHelps(input, Beside)

\* Two sides merge into one that neither loosens (gate.py, build_policy.py).
PoliciesAddUp ==
  /\ Asked("gates") => Policy!GatesAddUp(input.declared, input.requested, input.findings, input.counts)
  /\ Asked("policies") => Policy!MergeOnlyTightens(input.mine, input.theirs, input.facts)

\* `dockerls base` pins what it can, once, and breaks nothing; the preflight
\* says it all; and what DockerLs generates passes what DockerLs demands
\* (base_upgrade.py, build_image.py, base_recipe.py).
UpgradeIsSound ==
  /\ Asked("upgrade") =>
       /\ UpgradeSettles(input.file, input.today) /\ UpgradeOnlyHelps(input.file, input.today)
       /\ PreflightSaysIt(Required, input.file, RegistryOf, {})
  /\ Asked("recipe") =>
       /\ RecipeIsReady(input[1], [ignore |-> "absent", lock |-> FALSE], RecipesToday)
       /\ NothingUnsaid(input[1], input[2])

\* A remedy names a fix for all it upgrades, and a migration names its costs
\* and its checks; nobody is blamed for what was not measured, what is hidden
\* is also said, and an alert is an answer (remediation.py, migration.py,
\* inheritance.py, run_diff.py, ignore_file.py, vex.py, registry_audit.py).
AdviceIsHonest ==
  /\ Asked("remedy") => M!RemedyIsHonest(input.findings, input.distro)
  /\ Asked("migration") => M!MigrationIsHonest(input[1], input[2])
  /\ Asked("blame") => A!BlameIsEarned(input.built, input.name, input.base)
  /\ Asked("runs") => A!CauseIsKnown(input[1], input[2])
  /\ Asked("exemptions") => X!HiddenIsSaid(input.entries, input.found, input.days[1], input.days[2])
  /\ Asked("audit") => R!AlertIsAnAnswer(input.given, input.registry, input.history)
=============================================================================
