---------------------------- MODULE BaseUpgrade ----------------------------
(***************************************************************************)
(* `dockerls base` (base_upgrade.py, upgrade_base.py): the bases that a    *)
(* Dockerfile declares, what the registry says that their tags are today,  *)
(* and the edit that pins them; and what a sweep of many Dockerfiles       *)
(* (fleet_scan.py) tells a policy about one file.                          *)
(*                                                                         *)
(* Lines are those of Dockerfile; a FROM "templated" in its traits has a   *)
(* variable in its name or tag, which are already expanded, and an ARG is  *)
(* "default" when it has a value.  `today` maps <<name, tag>> to the       *)
(* digest of the registry, for what the registry could be asked.           *)
(***************************************************************************)
EXTENDS Dockerfile

Policy == INSTANCE BuildPolicy

(***************************************************************************)
(* parse_bases: every physical FROM, its digest expanded from the default  *)
(* of an ARG, of which the last one in the file is remembered.  A variable *)
(* that has no default stays in the reference, as a digest that nothing    *)
(* is equal to.                                                            *)
(***************************************************************************)
ArgLine(lines, name) ==
  Max({i \in DOMAIN lines : lines[i].op = "ARG" /\ "default" \in lines[i].has /\ lines[i].of.name = name} \cup {0})
Base(lines, i) ==
  LET from == lines[i].of
      at   == IF from.arg = None THEN 0 ELSE ArgLine(lines, from.arg)
  IN  [line |-> i, name |-> from.name, tag |-> from.tag, arg_line |-> at,
       digest |-> IF at # 0 THEN lines[at].of.value ELSE IF from.arg # None THEN from.arg ELSE from.digest,
       templated |-> from.arg # None \/ "templated" \in lines[i].has]
Bases(lines) == {Base(lines, i) : i \in {j \in DOMAIN lines : lines[j].op = "FROM"}}

TagOf(base) == IF base.tag = None THEN "latest" ELSE base.tag
CurrentDigest(base, today) ==
  IF <<base.name, TagOf(base)>> \in DOMAIN today THEN today[<<base.name, TagOf(base)>>] ELSE None

Status(base, today) ==
  CASE CurrentDigest(base, today) = None -> "UNRESOLVED"
    [] CurrentDigest(base, today) # None /\ base.digest = None -> "UNPINNED"
    [] CurrentDigest(base, today) # None /\ base.digest = CurrentDigest(base, today) -> "PINNED_CURRENT"
    [] OTHER -> "PINNED_STALE"

(***************************************************************************)
(* rewrite: a digest that lives in an ARG is replaced there, so that the   *)
(* last base that uses the ARG decides; otherwise the FROM names it.  A    *)
(* templated reference whose digest is in no ARG cannot be written.        *)
(***************************************************************************)
Proposed(lines, today) ==
  {base \in Bases(lines) : /\ Status(base, today) \in {"UNPINNED", "PINNED_STALE"}
                           /\ base.templated => base.arg_line # 0}
FromEdits(lines, today) == {base \in Proposed(lines, today) : base.arg_line = 0}
ArgEdits(lines, today, i) == {base \in Proposed(lines, today) : base.arg_line = i}

Edited(line, of) == [op |-> line.op, has |-> line.has, of |-> of, ends |-> line.ends]
Pinned(from, base, today) ==
  [name |-> from.name, tag |-> TagOf(base), digest |-> CurrentDigest(base, today), arg |-> from.arg, alias |-> from.alias]
\* mutant: the FROM is edited although its digest lives in an ARG
RewriteFrom(lines, today) ==
  [i \in DOMAIN lines |->
     IF \E base \in Proposed(lines, today) : base.line = i
     THEN Edited(lines[i], Pinned(lines[i].of, Base(lines, i), today)) ELSE lines[i]]
Rewrite(lines, today) ==
  LET last(i) == Base(lines, Max({base.line : base \in ArgEdits(lines, today, i)})) IN
  [i \in DOMAIN lines |->
     IF \E base \in FromEdits(lines, today) : base.line = i
     THEN Edited(lines[i], Pinned(lines[i].of, Base(lines, i), today))
     ELSE IF ArgEdits(lines, today, i) = {} THEN lines[i]
     ELSE Edited(lines[i], [name |-> lines[i].of.name, value |-> CurrentDigest(last(i), today)])]

(***************************************************************************)
(* What a policy is told of the bases and of the user of a file: by a      *)
(* sweep of many files and by a build before it starts (_preflight), line  *)
(* by line; and by a build after its scan, from the provenance record,     *)
(* which keeps one digest for each name and tag, the last one.             *)
(***************************************************************************)
FactsOf(lines, bases, labels) ==
  [scanned |-> FALSE, counts |-> None, provenance |-> None, labels |-> labels, bases |-> bases,
   nonroot |-> IF RunsAsRoot(Instructions(lines)) THEN "false" ELSE "true"]
BaseFacts(lines, registry_of) ==
  {[line |-> base.line, registry |-> registry_of[base.name], pinned |-> base.digest # None] : base \in Bases(lines)}
RecordedBases(lines, registry_of) ==
  LET same(base) == {b \in Bases(lines) : b.name = base.name /\ b.tag = base.tag}
  IN  {fact \in BaseFacts(lines, registry_of) :
         \E base \in Bases(lines) : fact.line = base.line /\ base.line = Max({b.line : b \in same(base)})}

Preflight(policy, lines, registry_of, labels) ==
  Policy!Violations(Policy!StaticSubset(policy), FactsOf(lines, BaseFacts(lines, registry_of), labels))
AfterScan(policy, lines, registry_of, labels) ==
  Policy!Violations(Policy!StaticSubset(policy), FactsOf(lines, RecordedBases(lines, registry_of), labels))
-----------------------------------------------------------------------------
(***************************************************************************)
(* After an upgrade every base that could be rewritten is pinned to what   *)
(* its tag is today, so that a second upgrade changes nothing, and no      *)
(* image that a FROM names is another one than before.  Here where no two  *)
(* tags share an ARG: with one ARG for two tags, each upgrade writes the   *)
(* digest of the other tag, for ever.                                      *)
(***************************************************************************)
NoSharedArg(lines) ==
  \A b, c \in Bases(lines) :
     b.arg_line = c.arg_line /\ b.arg_line # 0 => b.name = c.name /\ TagOf(b) = TagOf(c)
UpgradeSettles(lines, today) ==
  LET after == Rewrite(lines, today) IN
  NoSharedArg(lines) =>
    /\ \A base \in Proposed(lines, today) : Status(Base(after, base.line), today) = "PINNED_CURRENT"
    /\ Rewrite(after, today) = after
    /\ \A i \in DOMAIN lines :
          lines[i].op = "FROM" => lines[i].of.name = after[i].of.name /\ lines[i].of.alias = after[i].of.alias

(***************************************************************************)
(* An upgrade makes no file worse: what the validator calls an error of    *)
(* the upgraded file, it calls an error of the file as it was; and with    *)
(* every base rewritten, a policy that asks for pinned bases has nothing   *)
(* left to say of them.  Here where no FROM names a stage of the file.     *)
(***************************************************************************)
NoStageAsBase(lines) ==
  LET stages == Stages(Instructions(lines)) IN \A k \in DOMAIN stages : Named(stages, stages[k].of) = {}
UpgradeOnlyHelps(lines, today) ==
  LET after == Rewrite(lines, today) IN
  NoStageAsBase(lines) =>
    /\ Errors(Instructions(after)) \subseteq Errors(Instructions(lines))
    /\ Proposed(lines, today) = Bases(lines) /\ lines # <<>>
         => \A base \in Bases(after) : base.digest # None

(***************************************************************************)
(* What a policy says of a file after the scan it has said before the      *)
(* build, so that nobody waits ten minutes for it (build_image.py, the     *)
(* docstring of _preflight).  The reverse does not hold: the record hides  *)
(* an unpinned base behind a pinned one of the same name and tag.          *)
(***************************************************************************)
PreflightSaysIt(policy, lines, registry_of, labels) ==
  AfterScan(policy, lines, registry_of, labels) \subseteq Preflight(policy, lines, registry_of, labels)
=============================================================================
