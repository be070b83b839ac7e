----------------------------- MODULE Dockerfile -----------------------------
(***************************************************************************)
(* How a Dockerfile is read and judged (dockerfile_validator.py): physical *)
(* lines are joined into instructions, instructions are gathered per       *)
(* stage, the rules DF001 to DF017 are applied to what was gathered, and   *)
(* the verdict is a score and a tier.                                      *)
(*                                                                         *)
(* A line is a record: `op`, the instruction that it starts ("comment",    *)
(* "blank", or "text" for the rest of an instruction); `has`, the traits   *)
(* of its words that a rule looks for; `of`, what it names; and `ends`,    *)
(* whether a backslash continues it.  A FROM names [name, tag, digest,     *)
(* arg, alias], arg being the variable that holds the digest; a USER names *)
(* [name, uid]; an ARG names [name, value].                                *)
(***************************************************************************)
EXTENDS Integers, FiniteSetsExt, SequencesExt

CONSTANT None

(***************************************************************************)
(* DockerfileParser.parse: a line that ends in a backslash waits in a      *)
(* buffer, and the next one that does not is joined to it, whatever it is; *)
(* what waits at the end of the file is read too.  What is read is known   *)
(* by the line that it starts on.                                          *)
(***************************************************************************)
Starts(lines, kept) ==
  {i \in kept : \A k \in kept : k < i /\ lines[k].ends => \E j \in kept : k < j /\ j < i}
Joined(lines, kept, i) == {j \in kept : i <= j /\ \A k \in kept : i <= k /\ k < j => lines[k].ends}

Said(lines, group) == {i \in group : lines[i].op # "blank"}
Instruction(lines, group) ==
  LET first == lines[Min(Said(lines, group))]
  IN  [op |-> first.op, of |-> first.of, has |-> UNION {lines[i].has : i \in group}]

Read(lines, kept) ==
  LET group(i) == Joined(lines, kept, i)
      said == {i \in Starts(lines, kept) : Said(lines, group(i)) # {}}
      read == {i \in said : Instruction(lines, group(i)).op \notin {"comment", "text"}}
  IN  [i \in read |-> Instruction(lines, group(i))]
Instructions(lines) == Read(lines, DOMAIN lines)

\* What the builder reads: comments and blank lines are dropped first.
BuilderInstructions(lines) == Read(lines, {i \in DOMAIN lines : lines[i].op \notin {"comment", "blank"}})

(***************************************************************************)
(* Stages, by the line of their FROM, and the final one's user and base: a *)
(* FROM that names a stage takes over what that stage has.                 *)
(***************************************************************************)
Stages(ins) ==
  LET froms == {i \in DOMAIN ins : ins[i].op = "FROM"}
      users(k) == {i \in DOMAIN ins : ins[i].op = "USER" /\ k < i /\ \A n \in froms : n <= k \/ i < n}
  IN  [k \in froms |->
         [of |-> ins[k].of, has |-> ins[k].has,
          user |-> IF users(k) = {} THEN None ELSE ins[Max(users(k))].of]]

Plain(from) == from.tag = None /\ from.digest = None /\ from.arg = None
Named(stages, from) == {k \in DOMAIN stages : Plain(from) /\ stages[k].of.alias = from.name}

\* The stage a FROM refers to, or 0: by its alias, the last one that has it.
Parent(stages, k) == Max(Named(stages, stages[k].of) \cup {0})
UpToUser(stages) ==
  [k \in {0} \cup DOMAIN stages |-> IF k = 0 \/ stages[k].user # None THEN k ELSE Parent(stages, k)]
UpToBase(stages) == [k \in DOMAIN stages |-> IF Parent(stages, k) = 0 THEN k ELSE Parent(stages, k)]

\* From the final stage up, as often as there are stages.
Walk(up, stages) ==
  LET n == Cardinality(DOMAIN stages)
      at[i \in 0..n] == IF i = 0 THEN Max({0} \cup DOMAIN stages) ELSE up[at[i - 1]]
  IN  at[n]
UserAt(up, stages) == LET k == Walk(up, stages) IN IF k = 0 THEN None ELSE stages[k].user

LastUser(stages) ==
  LET with == {k \in DOMAIN stages : stages[k].user # None} IN IF with = {} THEN None ELSE stages[Max(with)].user
FinalUser(stages) == UserAt(UpToUser(stages), stages)
FinalBase(stages) ==
  LET k == Walk(UpToBase(stages), stages) IN stages[IF Parent(stages, k) = 0 THEN k ELSE Max(DOMAIN stages)]

\* To the builder only a stage before it can be meant.
Before(stages, k) == Max({j \in Named(stages, stages[k].of) : j < k} \cup {0})
BuilderUser(stages) ==
  UserAt([k \in {0} \cup DOMAIN stages |-> IF k = 0 \/ stages[k].user # None THEN k ELSE Before(stages, k)], stages)

Root(user) == user = None \/ user.name = "root" \/ user.uid = 0

(***************************************************************************)
(* The rules.  `context` is what lies beside the file: `ignore`, the state *)
(* of .dockerignore, and `lock`, whether there is a package-lock.json.     *)
(***************************************************************************)
Has(ins, op, trait) == \E i \in DOMAIN ins : ins[i].op = op /\ trait \in ins[i].has
Uses(ins, op) == \E i \in DOMAIN ins : ins[i].op = op

Moving(from) == from.arg = None /\ from.digest = None /\ from.tag \in {None, "latest"}
MovingBase(ins) ==                                                    \* DF001
  LET stages == Stages(ins) IN
  \E k \in DOMAIN stages :
     /\ ~\E j \in Named(stages, stages[k].of) : j < k
     /\ stages[k].of.name # "scratch" /\ Moving(stages[k].of)
RunsAsRoot(ins) == ~Uses(ins, "FROM") \/ Root(FinalUser(Stages(ins)))    \* DF002
SecretWritten(ins) ==                                                 \* DF004
  \/ Has(ins, "ENV", "secret")
  \/ \E i \in DOMAIN ins : ins[i].op = "ARG" /\ {"secret", "default"} \subseteq ins[i].has
Escalates(ins) == Has(ins, "RUN", "sudo")                             \* DF009
Unchecked(ins) ==                                                     \* DF013
  \E i \in DOMAIN ins : ins[i].op = "ADD" /\ "remote" \in ins[i].has /\ "checksum" \notin ins[i].has
RunsRemoteScript(ins) == Has(ins, "RUN", "piped")                     \* DF014
SetsUid(ins) == Has(ins, "RUN", "setuid")                             \* DF015

Fails(ins, rule) ==
  CASE rule = "DF001" -> MovingBase(ins)
    [] rule = "DF002" -> RunsAsRoot(ins)
    [] rule = "DF004" -> SecretWritten(ins)
    [] rule = "DF009" -> Escalates(ins)
    [] rule = "DF013" -> Unchecked(ins)
    [] rule = "DF014" -> RunsRemoteScript(ins)
    [] rule = "DF015" -> SetsUid(ins)
Errors(ins) ==
  {rule \in {"DF001", "DF002", "DF004", "DF009", "DF013", "DF014", "DF015"} : Fails(ins, rule)}

SingleStage(ins) == Cardinality(DOMAIN Stages(ins)) <= 1              \* DF003
CacheKept(ins) == Has(ins, "RUN", "manager") /\ ~Has(ins, "RUN", "cleaned")  \* DF005
Unwatched(ins) == ~Uses(ins, "HEALTHCHECK")                           \* DF006
Unlabelled(ins) == ~\A label \in {"scanner", "maintainer"} : Has(ins, "LABEL", label)  \* DF007
NotMinimal(ins) == ~Uses(ins, "FROM") \/ "minimal" \notin FinalBase(Stages(ins)).has  \* DF008
ShellForm(ins, op) ==                                                 \* DF010, DF011
  Uses(ins, op) /\ "exec" \notin ins[Max({i \in DOMAIN ins : ins[i].op = op})].has
ContextOpen(context) == context.ignore \in {"absent", "partial"}      \* DF012
AddsWithoutNeed(ins) == Uses(ins, "ADD") /\ ~Unchecked(ins)           \* DF013
Unpinned(ins) == Has(ins, "RUN", "unpinned")
PackagesUnpinned(ins, context) == Unpinned(ins) \/ (Has(ins, "RUN", "npm") /\ ~context.lock)  \* DF016
DriftsByPlatform(ins) ==                                              \* DF017
  (Has(ins, "FROM", "platform") \/ Has(ins, "ARG", "platform")) /\ Unpinned(ins)

Warns(ins, context, rule) ==
  CASE rule = "DF003" -> SingleStage(ins)
    [] rule = "DF005" -> CacheKept(ins)
    [] rule = "DF006" -> Unwatched(ins)
    [] rule = "DF007" -> Unlabelled(ins)
    [] rule = "DF008" -> NotMinimal(ins)
    [] rule = "DF010" -> ShellForm(ins, "ENTRYPOINT")
    [] rule = "DF011" -> ShellForm(ins, "CMD")
    [] rule = "DF012" -> ContextOpen(context)
    [] rule = "DF013" -> AddsWithoutNeed(ins)
    [] rule = "DF016" -> PackagesUnpinned(ins, context)
    [] rule = "DF017" -> DriftsByPlatform(ins)
Warnings(ins, context) ==
  {rule \in {"DF003", "DF005", "DF006", "DF007", "DF008", "DF010", "DF011", "DF012", "DF013", "DF016", "DF017"} :
     Warns(ins, context, rule)}

(***************************************************************************)
(* The score and the tier: a warning costs half of its severity's weight,  *)
(* and with an error nothing is ready for production.                      *)
(***************************************************************************)
Light(ins) ==
  {"DF006", "DF007", "DF012", "DF017"} \cup (IF Has(ins, "ADD", "archive") THEN {} ELSE {"DF013"})
FileScore(ins, context) ==
  LET warnings == Warnings(ins, context)
      errors == Errors(ins)
  IN  Max({0, 100 - 15 * Cardinality(errors) - (IF "DF004" \in errors THEN 10 ELSE 0)
                - Cardinality(warnings \cap Light(ins)) - 4 * Cardinality(warnings \ Light(ins))})
FileTier(ins, context) ==
  IF Errors(ins) # {} \/ FileScore(ins, context) < 70 THEN "C"
  ELSE IF FileScore(ins, context) < 90 THEN "B" ELSE "A"

ProductionReady(lines, context) ==
  LET ins == Instructions(lines) IN FileTier(ins, context) \in {"A", "B"} /\ Errors(ins) = {}

(***************************************************************************)
(* suggest_hardening: the rules for which a remedy is proposed.            *)
(***************************************************************************)
Suggested(ins) ==
  {rule \in {"DF001", "DF002", "DF003", "DF004", "DF005", "DF006", "DF007"} :
     \/ rule = "DF001" /\ (MovingBase(ins) \/ NotMinimal(ins))
     \/ rule = "DF002" /\ (~Uses(ins, "FROM") \/ FinalUser(Stages(ins)) = None)
     \/ rule = "DF003" /\ SingleStage(ins) /\ Has(ins, "RUN", "manager")
     \/ rule = "DF004" /\ Has(ins, "ENV", "secret")
     \/ rule = "DF005" /\ CacheKept(ins)
     \/ rule = "DF006" /\ Unwatched(ins)
     \/ rule = "DF007" /\ ~Has(ins, "LABEL", "scanner")}

(***************************************************************************)
(* generate_hardened_dockerfile without a template: where no USER is       *)
(* written at all, one is appended.                                        *)
(***************************************************************************)
HardenedAbove(lines) ==
  <<[op |-> "USER", has |-> {}, of |-> [name |-> "appuser", uid |-> None], ends |-> FALSE]>> \o lines
HardenedFile(lines) ==
  IF FinalUser(Stages(Instructions(lines))) = None /\ \A line \in ToSet(lines) : line.op # "USER"
  THEN lines \o <<[op |-> "blank", has |-> {}, of |-> None, ends |-> FALSE],
                  [op |-> "USER", has |-> {}, of |-> [name |-> "appuser", uid |-> None], ends |-> FALSE]>>
  ELSE lines
-----------------------------------------------------------------------------
(***************************************************************************)
(* What is called ready for production holds, in what the builder reads,   *)
(* nothing that an error rule names, and does not run as root: neither a   *)
(* continuation, nor the end of the file, nor a stage hides an instruction *)
(* or lends a user.  Here for files in which no comment stands inside or   *)
(* ends in a continuation, and in which an alias is written once and       *)
(* before its use (NothingHides is the same for every file).               *)
(***************************************************************************)
Sound(lines, context) ==
  LET ins == BuilderInstructions(lines) IN
  ProductionReady(lines, context) =>
    /\ \A trait \in {"sudo", "piped", "setuid"} : ~Has(ins, "RUN", trait)
    /\ ~SecretWritten(ins) /\ ~Unchecked(ins)
    /\ ~Root(BuilderUser(Stages(ins)))

CommentsApart(lines) ==
  \A i \in DOMAIN lines :
     lines[i].op \in {"comment", "blank"} => ~lines[i].ends /\ (i = 1 \/ ~lines[i - 1].ends)
AliasesOnce(lines) ==
  LET stages == Stages(BuilderInstructions(lines)) IN
  \A k \in DOMAIN stages : \A j \in Named(stages, stages[k].of) : j < k /\ stages[j].of.alias # stages[k].of.alias
ReadyHidesNothing(lines, context) == CommentsApart(lines) /\ AliasesOnce(lines) => Sound(lines, context)

(***************************************************************************)
(* dockerfile_validator.py:337-339 calls it a defect that a RUN "with      *)
(* sudo, with a secret, with whatever it was" goes unchecked; a comment    *)
(* between the lines of a RUN still does that to the lines that follow it. *)
(***************************************************************************)
NothingHides(lines, context) == AliasesOnce(lines) => Sound(lines, context)

(***************************************************************************)
(* Hardening: a file in which no USER is written runs unprivileged once    *)
(* hardened and has no error that it had not before, and nothing is        *)
(* suggested but for a rule that the validator calls broken (for DF001 the *)
(* one about the base's size, DF008, counts as well).                      *)
(***************************************************************************)
HardeningHelps(lines, context) ==
  LET ins == Instructions(lines)
      hardened == Instructions(HardenedFile(lines))
  IN  /\ (\A line \in ToSet(lines) : line.op # "USER") /\ Uses(ins, "FROM")
           => Errors(hardened) \subseteq Errors(ins) \ {"DF002"}
      /\ Suggested(ins) \subseteq
           Errors(ins) \cup Warnings(ins, context) \cup (IF NotMinimal(ins) THEN {"DF001"} ELSE {})
=============================================================================
