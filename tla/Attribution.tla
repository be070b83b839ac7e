---------------------------- MODULE Attribution ----------------------------
(***************************************************************************)
(* Whose a finding is, and since when: the findings of a built image       *)
(* against those of its base (inheritance.py, as build_image.py asks), and *)
(* two saved runs of one question against each other (run_diff.py).        *)
(*                                                                         *)
(* A scan is a sequence of findings [cve, package, version, severity,      *)
(* fixed], or None where there is none; 4 is the severity CRITICAL.        *)
(***************************************************************************)
EXTENDS Integers, Sequences, FiniteSetsExt

CONSTANT None

(***************************************************************************)
(* The identity of a finding leaves its version out; of two findings of    *)
(* one identity the later one is kept.                                     *)
(***************************************************************************)
\* mutant: a package that was upgraded is another one
IdentityWithVersion(finding) == <<finding.cve, finding.package, finding.version>>
Identity(finding) == <<finding.cve, finding.package>>
Identities(scan) == {Identity(scan[i]) : i \in DOMAIN scan}
Reported(scan, id) == scan[Max({i \in DOMAIN scan : Identity(scan[i]) = id})]

(***************************************************************************)
(* attribute, and the report that says why there is none.                  *)
(***************************************************************************)
Attributed(origin, scan, ids) ==
  {[id |-> id, origin |-> origin, severity |-> Reported(scan, id).severity, fixed |-> Reported(scan, id).fixed]
     : id \in ids}
Attribute(built, base) ==
  [available |-> TRUE,
   findings  |-> Attributed("INHERITED", built, Identities(built) \cap Identities(base))
                   \cup Attributed("INTRODUCED", built, Identities(built) \ Identities(base))
                   \cup Attributed("REMOVED", base, Identities(base) \ Identities(built))]
Unavailable == [available |-> FALSE, findings |-> {}]

\* Without both scans nothing is attributed; `scratch` is the base that has
\* nothing in it.
\* mutant: a base that could not be scanned has nothing in it
AttributeUnscanned(built, name, base) ==
  IF built = None \/ name = None THEN Unavailable
  ELSE Attribute(built, IF name = "scratch" \/ base = None THEN <<>> ELSE base)
AttributeFindings(built, name, base) ==
  IF built = None \/ name = None THEN Unavailable
  ELSE IF name = "scratch" THEN Attribute(built, <<>>)
  ELSE IF base = None THEN Unavailable ELSE Attribute(built, base)

(***************************************************************************)
(* plan: what is in the image, by origin and by whether a fix exists; the  *)
(* group with the most criticals first, then the largest, then the base's. *)
(***************************************************************************)
Fixable(finding) == finding.fixed # None
Bucket(report, origin, fixable) ==
  [origin |-> origin, fixable |-> fixable,
   findings |-> {f \in report.findings : f.origin = origin /\ Fixable(f) = fixable}]
Critical(bucket) == Cardinality({f \in bucket.findings : f.severity = 4})
Place(bucket) == (IF bucket.origin = "INHERITED" THEN 0 ELSE 2) + (IF bucket.fixable THEN 0 ELSE 1)
\* mutant: the largest group first
LargerFirst(b, c) ==
  \/ Cardinality(b.findings) > Cardinality(c.findings)
  \/ Cardinality(b.findings) = Cardinality(c.findings) /\ Place(b) < Place(c)
First(b, c) ==
  \/ Critical(b) > Critical(c)
  \/ Critical(b) = Critical(c) /\ Cardinality(b.findings) > Cardinality(c.findings)
  \/ Critical(b) = Critical(c) /\ Cardinality(b.findings) = Cardinality(c.findings) /\ Place(b) < Place(c)
\* The place of each group in the plan.
Plan(report) ==
  LET buckets == {Bucket(report, origin, fixable) : origin \in {"INHERITED", "INTRODUCED"}, fixable \in BOOLEAN}
      work    == {b \in buckets : b.findings # {}}
  IN  [b \in work |-> 1 + Cardinality({c \in work : First(c, b)})]

(***************************************************************************)
(* diff_runs.  A run is [scope, images]; `images` maps a reference to its  *)
(* analysis [digest, db, scanner, version, scan].  Here the version of a   *)
(* package is part of what a finding is.                                   *)
(***************************************************************************)
FullIdentities(scan) == {<<scan[i].cve, scan[i].package, scan[i].version>> : i \in DOMAIN scan}
DbUnknown(old, new) == None \in {old.db, new.db}
\* mutant: what is not known to be the same has changed
DbChangedUnlessKnown(old, new) == DbUnknown(old, new) \/ old.db # new.db \/ old.version # new.version
DbChanged(old, new) == ~DbUnknown(old, new) /\ (old.db # new.db \/ old.version # new.version)

Cause(old, new) ==
  LET image      == old.digest # new.digest
      difference == FullIdentities(old.scan) # FullIdentities(new.scan)
  IN  CASE DbUnknown(old, new) /\ ~image /\ difference -> "UNEXPLAINED"
        [] image /\ DbChanged(old, new) -> "IMAGE_AND_DATABASE_CHANGED"
        [] image /\ ~DbChanged(old, new) -> "IMAGE_CHANGED"
        [] ~image /\ DbChanged(old, new) -> "SCANNER_DATABASE_CHANGED"
        [] OTHER -> IF difference THEN "UNEXPLAINED" ELSE "NO_CHANGE"
Comparable(old, new) == old.scanner = new.scanner /\ None \notin {old.digest, new.digest}
Compare(old, new) ==
  IF ~Comparable(old, new) THEN [cause |-> "NOT_COMPARABLE", new |-> {}, removed |-> {}, noted |-> TRUE]
  ELSE [cause   |-> Cause(old, new),
        new     |-> FullIdentities(new.scan) \ FullIdentities(old.scan),
        removed |-> FullIdentities(old.scan) \ FullIdentities(new.scan),
        noted   |-> (DbUnknown(old, new) /\ old.digest = new.digest) \/ Cause(old, new) = "UNEXPLAINED"]
DiffRuns(previous, current) ==
  IF previous.scope # current.scope THEN <<>>
  ELSE [reference \in DOMAIN previous.images \cap DOMAIN current.images |->
          Compare(previous.images[reference], current.images[reference])]
-----------------------------------------------------------------------------
(***************************************************************************)
(* Nobody is blamed for what was not measured: something is the build's    *)
(* own only if its base was scanned and does not have that advisory of     *)
(* that package in any version, or has nothing in it; and the plan of work *)
(* lists all that is in the image, once, with a critical in its first      *)
(* group if there is one at all.                                           *)
(***************************************************************************)
SameProblem(f, g) == f.cve = g.cve /\ f.package = g.package
BlameIsEarned(built, name, base) ==
  LET report == AttributeFindings(built, name, base)
      plan   == Plan(report)
      Is(i, origin) == \E f \in report.findings : f.origin = origin /\ f.id[1] = built[i].cve /\ f.id[2] = built[i].package
  IN  /\ report.available =>
           /\ built # None /\ (name = "scratch" \/ base # None)
           /\ \A i \in DOMAIN built :
                LET before == name # "scratch" /\ \E j \in DOMAIN base : SameProblem(built[i], base[j])
                IN  Is(i, "INHERITED") = before /\ Is(i, "INTRODUCED") = ~before /\ ~Is(i, "REMOVED")
           /\ UNION {b.findings : b \in DOMAIN plan} = {f \in report.findings : f.origin # "REMOVED"}
           /\ \A b, c \in DOMAIN plan : b # c => b.findings \cap c.findings = {} /\ plan[b] # plan[c]
           /\ (\E i \in DOMAIN built : \A j \in DOMAIN built :
                 SameProblem(built[i], built[j]) => built[j].severity = 4)
                => \E b \in DOMAIN plan : plan[b] = 1 /\ Critical(b) > 0
      /\ ~report.available => report.findings = {}

(***************************************************************************)
(* A change between two runs is put down to what is known to have changed: *)
(* the image if both digests are known and differ, the database if both    *)
(* revisions are; a difference that nothing explains is not called no      *)
(* change.  Told backwards the story is the same: new and removed change   *)
(* places, and the cause stays.                                            *)
(***************************************************************************)
CauseIsKnown(previous, current) ==
  LET diff == DiffRuns(previous, current)
      back == DiffRuns(current, previous)
  IN  /\ DOMAIN diff = DOMAIN back
      /\ \A reference \in DOMAIN diff :
           LET old == previous.images[reference]
               new == current.images[reference]
               said == diff[reference]
           IN  /\ back[reference] =
                    [cause |-> said.cause, new |-> said.removed, removed |-> said.new, noted |-> said.noted]
               /\ said.cause \in {"IMAGE_CHANGED", "IMAGE_AND_DATABASE_CHANGED"}
                    => None \notin {old.digest, new.digest} /\ old.digest # new.digest
               /\ said.cause \in {"SCANNER_DATABASE_CHANGED", "IMAGE_AND_DATABASE_CHANGED"}
                    => None \notin {old.db, new.db} /\ <<old.db, old.version>> # <<new.db, new.version>>
               /\ said.cause = "NO_CHANGE" => said.new \cup said.removed = {} /\ old.digest = new.digest
               /\ said.new \cup said.removed # {} => old.scanner = new.scanner

\* "An unknown revision on either side means the database cannot be said to be
\* the same: it is treated as changed or unknown, and the note says which."
\* The code does not keep it: if the digest changed as well, the image alone is
\* named as the cause, without a note.
UnknownIsNoted(previous, current) ==
  LET diff == DiffRuns(previous, current) IN
  \A reference \in DOMAIN diff :
    DbUnknown(previous.images[reference], current.images[reference]) => diff[reference].noted
=============================================================================
