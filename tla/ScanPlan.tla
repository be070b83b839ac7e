------------------------------- MODULE ScanPlan -------------------------------
(***************************************************************************)
(* Which of the discovered tags a run measures (scan_plan.py), after the   *)
(* filters that need no scan (candidate_criteria.py), and which versions a *)
(* runtime offers (version_discovery.py).                                  *)
(*                                                                         *)
(* A tag is a record: `name` (a number, unique), `version` (a sequence,    *)
(* empty when the name has none), `variant` (what follows the version),    *)
(* `family` and `dev` (what the name's tokens say, "" when nothing),       *)
(* `official`, `published` and `archs` (empty when the listing is silent). *)
(* Criteria are a record of `arch`, `terms` (of the version range),        *)
(* `family` and `dev`, each "" or empty when not asked for.                *)
(***************************************************************************)
EXTENDS Integers, FiniteSetsExt, SequencesExt

\* Tuples compare as in Python: at the first difference, or where x ends.
Before(x, y) ==
  \E i \in DOMAIN y :
     /\ \A j \in 1..(i - 1) : j \in DOMAIN x /\ x[j] = y[j]
     /\ i \in DOMAIN x => x[i] < y[i]
Major(tag) == SubSeq(tag.version, 1, Min({1, Len(tag.version)}))

(***************************************************************************)
(* VersionRange and CandidateCriteria.                                     *)
(***************************************************************************)
Prefix(version) == {[op |-> "prefix", bound |-> version]}
Between(low, high) ==
  {[op |-> ">=", bound |-> low], [op |-> "<<", bound |-> SubSeq(high, 1, 1)]}
Holds(term, version) ==
  CASE term.op = "prefix" -> IsPrefix(term.bound, version)
    [] term.op = ">=" -> ~Before(version, term.bound)
    [] term.op = ">" -> Before(term.bound, version)
    [] term.op = "<=" -> ~Before(term.bound, version)
    [] term.op = "<" -> Before(version, term.bound)
    [] term.op = "==" -> version = term.bound
    [] term.op = "<<" -> ~Before(term.bound, SubSeq(version, 1, Min({1, Len(version)})))
Accepts(terms, version) == \A term \in terms : Holds(term, version)

\* Families that tags and scanners spell differently.
Compatible(f, g) ==
  \E group \in {{"wolfi", "chainguard"}, {"rhel", "redhat", "centos", "rocky", "almalinux"}} :
     {f, g} \subseteq group
Active(c) == c.arch # "" \/ c.terms # {} \/ c.family # "" \/ c.dev # ""

\* The criterion that takes a tag out before any scan, "" when none does:
\* the evidence must say that it does not match.
Excludes(c, tag) ==
  CASE c.arch # "" /\ tag.archs # {} /\ c.arch \notin tag.archs -> "platform"
    [] tag.version # <<>> /\ ~Accepts(c.terms, tag.version) -> "runtime"
    [] /\ c.family # "" /\ tag.family # "" /\ tag.family # c.family
       /\ ~Compatible(tag.family, c.family) -> "distro"
    [] c.dev # "" /\ tag.dev # c.dev -> "variant"
    [] OTHER -> ""

\* The scanner's reading of a measured image replaces what its name said.
Confirms(c, measured) ==
  c.family = "" \/ measured = "" \/ measured = c.family \/ Compatible(measured, c.family)

(***************************************************************************)
(* plan_scans, over the set of discovered tags.                            *)
(***************************************************************************)
SameLine(s, t) ==
  s.version # <<>> /\ s.variant = t.variant /\ Len(s.version) = Len(t.version)
  /\ Major(s) = Major(t)
\* The winner of a line is its newest tag, the first discovered among equals.
Newer(s, t) == Before(t.version, s.version) \/ (s.version = t.version /\ s.name < t.name)
Superseded(tags) == {t \in tags : t.version # <<>> /\ \E s \in tags : SameLine(s, t) /\ Newer(s, t)}

Preferred(s, t) ==
  Before(<<IF s.official THEN 0 ELSE 1, -s.published, s.name>>,
         <<IF t.official THEN 0 ELSE 1, -t.published, t.name>>)
First(S) == CHOOSE t \in S : \A s \in S \ {t} : Preferred(t, s)

\* _representative_order: from each version in turn its next variant in turn,
\* a round of the versions before any of them is asked again.
Line(tag, tags) == {t \in tags : Major(t) = Major(tag)}
Group(tag, line) == {t \in line : t.family = tag.family /\ t.dev = tag.dev}
Leader(tag, line) == First(Group(tag, line))
Turn(tag, line) ==
  <<Cardinality({t \in Group(tag, line) : Preferred(t, tag)}),
    Cardinality({t \in {Leader(s, line) : s \in line} : Preferred(t, Leader(tag, line))})>>
Round(tag, tags) ==
  LET line == Line(tag, tags) IN Cardinality({t \in line : Before(Turn(t, line), Turn(tag, line))})
Representative(s, t, tags) ==
  \/ Round(s, tags) < Round(t, tags)
  \/ Round(s, tags) = Round(t, tags) /\ Preferred(First(Line(s, tags)), First(Line(t, tags)))

Plan(found, budget, c, spread) ==
  LET excluded  == IF Active(c) THEN {t \in found : Excludes(c, t) # ""} ELSE {}
      tags      == found \ excluded
      all       == budget <= 0 \/ Cardinality(tags) <= budget
      old       == IF all THEN {} ELSE Superseded(tags)
      survivors == tags \ old
      kept      == IF all THEN survivors
                   ELSE {t \in survivors : budget >
                          Cardinality({s \in survivors :
                            IF spread THEN Representative(s, t, survivors) ELSE Preferred(s, t)})}
  IN  [selected |-> kept, superseded |-> old, over |-> survivors \ kept, excluded |-> excluded]

(***************************************************************************)
(* discover_versions: the newest `count` of the versions whose tags have   *)
(* the shape of a stable release (no variant, in this abstraction).        *)
(***************************************************************************)
Stable(tags) == {t.version : t \in {u \in tags : u.version # <<>> /\ u.variant = ""}}
Newest(tags, count) == {v \in Stable(tags) : Cardinality({u \in Stable(tags) : Before(v, u)}) < count}
-----------------------------------------------------------------------------
(***************************************************************************)
(* Nothing that was discovered disappears: every tag is selected, deferred *)
(* or excluded, in one way only; the budget holds and is not wasted; and a *)
(* tag gives way to a newer one only if some tag of its line and variant   *)
(* is still answered for, as a selected tag or one beyond the budget.      *)
(***************************************************************************)
EveryTagAccounted(found, budget, c, spread) ==
  LET p == Plan(found, budget, c, spread)
      left == Cardinality(found) - Cardinality(p.excluded) IN
    /\ p.selected \cup p.superseded \cup p.over \cup p.excluded = found
    /\ Cardinality(found) = Cardinality(p.selected) + Cardinality(p.superseded)
                            + Cardinality(p.over) + Cardinality(p.excluded)
    /\ budget > 0 => Cardinality(p.selected) <= budget
    /\ p.over # {} => Cardinality(p.selected) = budget
    /\ (budget <= 0 \/ left <= budget) => Cardinality(p.selected) = left
    /\ \A t \in p.superseded : \E s \in p.selected \cup p.over : SameLine(s, t)

(***************************************************************************)
(* The spread covers before it repeats: while a version or a variant of a  *)
(* version has no tag among the selected, no other version has two more    *)
(* than it has, and no variant of that version has two.                    *)
(***************************************************************************)
SpreadCovers(found, budget, c) ==
  LET p == Plan(found, budget, c, TRUE)
      of(major) == {t \in p.selected : Major(t) = major} IN
    \A t \in p.over :
      /\ \A s \in p.selected : Cardinality(of(Major(s))) <= Cardinality(of(Major(t))) + 1
      /\ (\A s \in of(Major(t)) : s.family # t.family \/ s.dev # t.dev)
         => \A s, u \in of(Major(t)) : s.family = u.family /\ s.dev = u.dev => s = u
==============================================================================
