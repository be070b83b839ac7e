---------------------------- MODULE MCDecisions ----------------------------
(***************************************************************************)
(* The inputs to the decisions, bounded.                                   *)
(***************************************************************************)
EXTENDS Decisions, TLC

UpToTwo(set) == {{a, b} : a, b \in set}

(***************************************************************************)
(* Verdict: pairs of analyses that differ in what may mask a finding.      *)
(***************************************************************************)
LittleFacts == [f \in DOMAIN V!HardeningWeight |-> IF f \in {"ports", "healthcheck"} THEN "true" ELSE "unknown"]
GoodFacts == [f \in DOMAIN V!HardeningWeight |-> V!Wanted(f)]
EverySignal == {"official", "minimal", "signed", "lts", "recent"}
Analyses ==
  [verified : BOOLEAN, critical : 0..1, high : 0..2, medium : {0}, unfixable : {0}, exploited : {0, 1},
   epss : {<<>>, <<51>>}, age : {0, 4}, signals : {{}, EverySignal}, eol : {"unknown"},
   tag : {"true", "false"}, facts : {LittleFacts, GoodFacts}, packages : {125}, digest : BOOLEAN,
   second : {"NO", "AGREEMENT", "MATERIAL"}]
Rivals(a) ==
  {a, [a EXCEPT !.critical = 0], [a EXCEPT !.high = 0, !.signals = {}],
   [a EXCEPT !.verified = TRUE, !.signals = {}, !.facts = LittleFacts]}
AnalysisPairs == UNION {{<<a, b>> : b \in Rivals(a)} : a \in Analyses}

(***************************************************************************)
(* ScanPlan: subsets of nine tags of three versions, in several shapes.    *)
(***************************************************************************)
Tag(n, v, variant, family, dev, official, published, archs) ==
  [name |-> n, version |-> v, variant |-> variant, family |-> family, dev |-> dev,
   official |-> official, published |-> published, archs |-> archs]
Pool ==
  {Tag(1, <<22>>, "", "", "run", TRUE, 5, {}), Tag(2, <<22, 1>>, "alpine", "alpine", "run", TRUE, 4, {"amd64"}),
   Tag(3, <<22, 2>>, "alpine", "alpine", "run", TRUE, 6, {"arm64"}),
   Tag(4, <<22, 2>>, "slim", "debian", "run", FALSE, 6, {}), Tag(5, <<20>>, "", "", "run", TRUE, 3, {}),
   Tag(6, <<20, 5>>, "alpine", "alpine", "run", TRUE, 2, {}), Tag(7, <<>>, "lts", "", "run", TRUE, 7, {}),
   Tag(8, <<22, 2>>, "dev", "", "dev", TRUE, 9, {})}
Anything == [arch |-> "", terms |-> {}, family |-> "", dev |-> ""]
Criteria ==
  {Anything, [Anything EXCEPT !.arch = "amd64"], [Anything EXCEPT !.terms = S!Between(<<20>>, <<21>>)],
   [Anything EXCEPT !.family = "debian"]}
PlanQuestions == [found : SUBSET Pool, budget : 0..3, criteria : Criteria]

(***************************************************************************)
(* Dockerfile: the files of up to four lines out of thirteen.              *)
(***************************************************************************)
Line(op, has, of, ends) == [op |-> op, has |-> has, of |-> of, ends |-> ends]
From(name, tag, digest, arg, alias) ==
  Line("FROM", {}, [name |-> name, tag |-> tag, digest |-> digest, arg |-> arg, alias |-> alias], FALSE)
Minimal(line) == [line EXCEPT !.has = {"minimal"}]
Words ==
  {Minimal(From("go", "v1", None, None, "b")), From("b", None, None, None, "c"),
   From("go", "latest", None, None, None), UserLine("app"), UserLine("root"),
   Line("RUN", {"manager"}, None, TRUE), Line("text", {"sudo"}, None, FALSE),
   Line("text", {"cleaned"}, None, TRUE), Line("comment", {}, None, FALSE),
   Line("comment", {}, None, TRUE), Line("ENV", {"secret"}, None, FALSE), Line("blank", {}, None, FALSE)}
Files(words, n) == UNION {[1..k -> words] : k \in 1..n}
Whole == [ignore |-> "whole", lock |-> TRUE]
SomeFiles == Files(Words, 4)

(***************************************************************************)
(* BuildPolicy: two sides of up to two gates, and two policies.            *)
(***************************************************************************)
Gates ==
  {[kind |-> "severity", at |-> s] : s \in 1..3} \cup {[kind |-> "kev", at |-> 0]}
    \cup {[kind |-> "epss", at |-> e] : e \in {1, 50}}
Found(severity, kev, epss) == [severity |-> severity, kev |-> kev, epss |-> epss]
GateQuestions ==
  [declared : {{}} \cup UpToTwo(Gates),
   requested : {{}} \cup UpToTwo(Gates),
   findings : {{}, {Found(2, "unknown", 20)}, {Found(0, "false", 60)}, {Found(1, "true", None)}},
   counts : {None, [s \in 1..4 |-> 0], [s \in 1..4 |-> IF s = 3 THEN 2 ELSE 0]}]
Policies ==
  {[Policy!Empty EXCEPT !.ceilings = c, !.pinned = b, !.registries = r, !.labels = l, !.scan = b, !.nonroot = b]
     : c \in {[s \in {} |-> 0], 2 :> 1, (1 :> 0) @@ (2 :> 0)}, b \in BOOLEAN,
       r \in {{}, {"hub"}}, l \in {{}, {"source"}}} \cup {Policy!Production}
Measured ==
  [scanned : BOOLEAN, counts : {[s \in 1..4 |-> 1]},
   bases : {{}, {[registry |-> "hub", pinned |-> FALSE], [registry |-> "ghcr", pinned |-> TRUE]}},
   nonroot : {"unknown", "true"}, labels : {{"source", "vendor", "contact"}}, provenance : {"VERIFIED", "INCOMPLETE"}]
PolicyQuestions == [mine : Policies, theirs : Policies, facts : Measured]

(***************************************************************************)
(* BaseUpgrade: files of up to three lines, bases of three names, digests  *)
(* in ARGs that two of them may share; and Recipe: every family.           *)
(***************************************************************************)
BaseWords ==
  {From("a", "t", None, None, "b"), From("a", "t", "old", None, None), From("a", None, None, None, None),
   From("a", "t", None, "D", None), From("c", "t", None, "D", None), From("b", None, None, None, None),
   [From("c", "t", None, None, None) EXCEPT !.has = {"templated"}],
   Line("ARG", {"default"}, [name |-> "D", value |-> "old"], FALSE),
   Line("ARG", {"default"}, [name |-> "D", value |-> "n1"], FALSE), UserLine("app")}
Todays ==
  {<<"a", "t">> :> "n1" @@ <<"a", "latest">> :> "n2" @@ <<"c", "t">> :> "n3" @@ <<"b", "latest">> :> "n4",
   <<"c", "t">> :> "n3"}
HostOf == "a" :> "hub" @@ "b" :> "hub" @@ "c" :> "ghcr"
Asking == [Policy!Empty EXCEPT !.pinned = TRUE, !.nonroot = TRUE, !.registries = {"hub"}]
UpgradeQuestions == [file : Files(BaseWords, 3), today : Todays]

Runtimes == {"none", "java", "node", "go"}
Recipes ==
  [family : Families, runtime : Runtimes, packages : {{}, {"curl", "libc6-compat"}}, digest : {None, "d1"},
   owner : {None, "team"}, user : {"app"}, strip : BOOLEAN]
Others(recipe) ==
  {other \in Recipes : other.runtime = recipe.runtime /\ other.owner = recipe.owner /\ other.family = recipe.family}
ImagesToday == [k \in Runtimes \X {"v1", "latest"} |-> "d1"]
RecipePairs == UNION {{<<recipe, other>> : other \in Others(recipe)} : recipe \in Recipes}

(***************************************************************************)
(* Migration: up to two findings, and two sides.                           *)
(***************************************************************************)
Findings ==
  [cve : {"v1", "v2"}, origin : {"os"}, ecosystem : {"go"}, bundled : {FALSE}, package : {"p"}, fixed : {None, "1"}]
    \cup [cve : {"v1", "v2"}, origin : {"lang"}, ecosystem : {"npm", "pip", "go"}, bundled : {FALSE}, package : {"p"},
          fixed : {None, "1", "2"}]
    \cup [cve : {"v1", "v2"}, origin : {"lang"}, ecosystem : {"npm"}, bundled : {TRUE}, package : {"p"}, fixed : {None, "1"}]
Sides ==
  [major : {None, 20, 22}, family : {None, "alpine", "debian", "ubuntu", "alma"}, platform : {"amd64"},
   source : {"official", "chainguard"}, verified : {{}, {"nonroot", "entrypoint"}}, user : {"root", "app"},
   nonroot : {"unknown", "true"}, entrypoint : {"e", "f"}, shell : {"true", "false"}, architectures : {{"amd64"}},
   counts : {[critical |-> 0, high |-> 1]}, eol : {FALSE}, digest : {None}]
Startings ==
  {s \in Sides : s.user = "root" /\ s.entrypoint = "e" /\ s.shell = "true" /\ s.source = "official"
                 /\ s.nonroot = "unknown"}
RemedyQuestions == [findings : UpToTwo(Findings), distro : {"debian", "other"}]
MigrationPairs == Startings \X Sides

(***************************************************************************)
(* Attribution: up to three findings over up to two of the base, and two   *)
(* runs; Exemptions: files of up to two rules, on three days;              *)
(* RegistryAudit: every answer to three questions.                         *)
(***************************************************************************)
Reported(cve, version, severity, fixed) ==
  [cve |-> cve, package |-> "p", version |-> version, severity |-> severity, fixed |-> fixed]
Scans(n) ==
  {<<>>} \cup Files({Reported("v1", 1, 4, None), Reported("v1", 2, 1, "2"), Reported("v2", 1, 1, "2"),
                    Reported("v3", 1, 1, "2"), Reported("v2", 1, 4, "2"), Reported("v3", 2, 4, None)}, n)
Blames ==
  [built : Scans(3), name : {"base"}, base : Scans(2) \cup {None}]
    \cup [built : Scans(3) \cup {None}, name : {None, "scratch", "base"}, base : {None, <<>>}]
Runs(scopes, scanners) ==
  [scope : scopes,
   images : [{"a"} -> [digest : {None, "d1", "d2"}, db : {None, "r1", "r2"}, scanner : scanners, version : 1..2,
                       scan : {<<>>, <<Reported("v1", 1, 4, None)>>, <<Reported("v1", 2, 4, None)>>}]]]
Entries == [cve : {"", "v1", "v2"}, expires : {None, 1, 2}, vex : {"", "known", "word"}]
Answers ==
  [has : [{"tag", "sig", "att"} -> {"d1", "absent", "silent"}], private : BOOLEAN, login : BOOLEAN]
Histories == [seen : {<<>>, <<"d1">>, <<"d0">>, <<"d0", "d1">>}, dropped : 0..1]
RunPairs == Runs({"q"}, {"trivy"}) \X Runs({"q", "other"}, {"trivy", "grype"})
ExemptionQuestions ==
  [entries : {{}} \cup UpToTwo(Entries), found : {{"", "v1", "v2"}, {"v1"}},
   days : {<<1, 1>>, <<1, 2>>, <<2, 3>>}]
AuditQuestions == [given : {None, "d1"}, registry : Answers, history : Histories]
=============================================================================
