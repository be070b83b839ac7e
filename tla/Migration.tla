----------------------------- MODULE Migration -----------------------------
(***************************************************************************)
(* What to do about an image that was measured: the layers that remedy its *)
(* findings (remediation.py) and the case for moving to another image      *)
(* (migration.py).                                                         *)
(*                                                                         *)
(* A finding is [cve, origin, ecosystem, bundled, package, fixed] (every   *)
(* one names its package here); a side of a migration is what was measured *)
(* of an image, `verified` naming the facts that the registry's config     *)
(* gave.                                                                   *)
(***************************************************************************)
EXTENDS Integers, FiniteSets

CONSTANT None

(***************************************************************************)
(* build_remediation_plan.  An action is [kind, cves, pins].               *)
(***************************************************************************)
OsManaged == {"alpine", "debian", "ubuntu", "redhat", "centos", "rocky", "alma", "amazon", "photon", "suse"}
LangUpgrade == {"npm", "yarn", "pip", "gem", "composer"}

Cves(findings) == {finding.cve : finding \in findings}
Fixable(findings) == {finding \in findings : finding.fixed # None}
BundledNpm(findings) == {finding \in findings : finding.origin = "lang" /\ finding.bundled}
OsFixable(findings) == {finding \in Fixable(findings) : finding.origin = "os"}
\* mutant: what npm brings along is upgraded like a package of the application
LangFixableAll(findings, ecosystem) ==
  {finding \in Fixable(findings) :
     finding.origin = "lang" /\ finding.ecosystem = ecosystem}
LangFixable(findings, ecosystem) ==
  {finding \in Fixable(findings) \ BundledNpm(findings) :
     finding.origin = "lang" /\ finding.ecosystem = ecosystem}

Action(kind, findings) ==
  IF findings = {} THEN {}
  ELSE {[kind |-> kind, cves |-> Cves(findings), pins |-> {<<f.package, f.fixed>> : f \in findings}]}
Actions(findings, distro) ==
  Action("update-npm", BundledNpm(findings)) \cup Action("remove-npm", BundledNpm(findings))
    \cup Action("os", IF distro \in OsManaged THEN OsFixable(findings) ELSE {})
    \cup UNION {Action(ecosystem, LangFixable(findings, ecosystem)) : ecosystem \in LangUpgrade}
Unresolved(findings, distro) == Cves(findings) \ UNION {action.cves : action \in Actions(findings, distro)}
SuggestsBase(findings, distro, minimal) == Unresolved(findings, distro) # {} /\ ~minimal

\* render_dockerfile_patch: of two alternatives the second is a comment.
Rendered(findings, distro) == {action \in Actions(findings, distro) : action.kind # "remove-npm"}

(***************************************************************************)
(* plan_migration: what is gained, what it costs, why it is not a drop-in  *)
(* replacement, and the steps that validate it.                            *)
(***************************************************************************)
Libc(family) ==
  CASE family = "alpine" -> "musl"
    [] family \in {"debian", "ubuntu", "wolfi", "chainguard", "redhat", "rhel", "centos", "rocky", "almalinux",
                   "amazon", "fedora", "opensuse", "sles", "photon", "oracle"} -> "glibc"
    [] OTHER -> None
Manager(family) ==
  CASE family \in {"alpine", "wolfi", "chainguard"} -> "apk"
    [] family \in {"debian", "ubuntu"} -> "apt"
    [] family \in {"redhat", "rhel", "centos", "rocky", "almalinux", "amazon"} -> "dnf/yum"
    [] family = "fedora" -> "dnf"
    [] family \in {"opensuse", "sles"} -> "zypper"
    [] OTHER -> None

Both(a, b) == a # None /\ b # None
Differ(a, b) == Both(a, b) /\ a # b
Improvements(from, to) ==
  {gain \in {"critical", "high", "supported", "nonroot", "pinnable"} :
     \/ gain \in {"critical", "high"} /\ to.counts[gain] < from.counts[gain]
     \/ gain = "supported" /\ from.eol /\ ~to.eol
     \/ gain = "nonroot" /\ to.nonroot = "true" /\ from.nonroot # "true"
     \/ gain = "pinnable" /\ to.digest # None}

\* A trade-off that needs both sides verified says nothing where one is not.
MajorTradeOff(from, to) == Differ(from.major, to.major)
LibcTradeOff(from, to) == ~Both(Libc(from.family), Libc(to.family)) \/ Differ(Libc(from.family), Libc(to.family))
ManagerTradeOff(from, to) == Differ(Manager(from.family), Manager(to.family))
UserTradeOff(from, to) == "nonroot" \in from.verified \cap to.verified /\ from.user # to.user
EntrypointTradeOff(from, to) == "entrypoint" \in from.verified \cap to.verified /\ from.entrypoint # to.entrypoint
LibrariesTradeOff(from, to) == from.family = None \/ from.family # to.family
ShellTradeOff(to) == to.shell = "false"
ArchitectureTradeOff(from, to) ==
  from.architectures # {} /\ to.architectures # {} /\ ~ from.architectures \subseteq to.architectures
TradeOffs(from, to) ==
  {cost \in {"critical", "high", "major", "libc", "manager", "shell", "user", "entrypoint", "libraries",
             "architecture", "publisher"} :
     \/ cost \in {"critical", "high"} /\ to.counts[cost] > from.counts[cost]
     \/ cost = "major" /\ MajorTradeOff(from, to)
     \/ cost = "libc" /\ LibcTradeOff(from, to)
     \/ cost = "manager" /\ ManagerTradeOff(from, to)
     \/ cost = "shell" /\ ShellTradeOff(to)
     \/ cost = "user" /\ UserTradeOff(from, to)
     \/ cost = "entrypoint" /\ EntrypointTradeOff(from, to)
     \/ cost = "libraries" /\ LibrariesTradeOff(from, to)
     \/ cost = "architecture" /\ ArchitectureTradeOff(from, to)
     \/ cost = "publisher" /\ from.source # to.source}

\* mutant: two distributions with one C library are taken for the same base
IncompatibilitiesOfLibc(from, to) ==
  {why \in {"major", "family", "libc", "platform", "publisher"} :
     \/ why = "major" /\ (~Both(from.major, to.major) \/ from.major # to.major)
     \/ why = "libc" /\ Differ(Libc(from.family), Libc(to.family))
     \/ why = "platform" /\ Differ(from.platform, to.platform)
     \/ why = "publisher" /\ from.source # to.source}
Incompatibilities(from, to) ==
  {why \in {"major", "family", "libc", "platform", "publisher"} :
     \/ why = "major" /\ (~Both(from.major, to.major) \/ from.major # to.major)
     \/ why = "family" /\ (~Both(from.family, to.family) \/ from.family # to.family)
     \/ why = "libc" /\ Differ(Libc(from.family), Libc(to.family))
     \/ why = "platform" /\ Differ(from.platform, to.platform)
     \/ why = "publisher" /\ from.source # to.source}
DirectReplacement(from, to) == Incompatibilities(from, to) = {}

Checklist(from, to) ==
  {"rebuild", "unit tests", "integration tests", "scan", "load", "canary"}
    \cup (IF Differ(Libc(from.family), Libc(to.family)) THEN {"native dependencies"} ELSE {})
    \cup (IF to.nonroot = "true" /\ from.nonroot # "true" THEN {"ownership"} ELSE {})
    \cup (IF to.shell = "false" THEN {"exec form"} ELSE {})
Unverified(from, to) ==
  {"behaviour", "libraries"}
    \cup (IF "entrypoint" \in from.verified \cap to.verified THEN {} ELSE {"entrypoint"})
    \cup (IF "nonroot" \in from.verified \cap to.verified THEN {} ELSE {"user"})
-----------------------------------------------------------------------------
(***************************************************************************)
(* The patch promises no more than it does: a layer that upgrades names a  *)
(* fixed version for each thing that it upgrades, and does not take what   *)
(* npm brings along for a package of the application; and what has a fix   *)
(* that a layer could bring is not called unresolved.                      *)
(***************************************************************************)
RemedyIsHonest(findings, distro) ==
  /\ \A action \in Rendered(findings, distro) :
        /\ action.kind # "update-npm" => \A pin \in action.pins : pin[2] # None
        /\ action.kind \in LangUpgrade =>
             \A cve \in action.cves : \E finding \in findings : finding.cve = cve /\ ~finding.bundled
  /\ \A finding \in Fixable(findings) :
        finding.cve \in Unresolved(findings, distro) =>
          IF finding.origin = "os" THEN distro \notin OsManaged ELSE finding.ecosystem \notin LangUpgrade

(***************************************************************************)
(* remediation.py:241-247: the rendered patch "is applicable".  It is not  *)
(* where two findings of one package have different fixed versions: both   *)
(* are pinned in one command, which pip refuses.                           *)
(***************************************************************************)
PatchIsApplicable(findings, distro) ==
  \A action \in Rendered(findings, distro) :
     action.kind \in LangUpgrade => \A p, q \in action.pins : p[1] = q[1] => p = q

(***************************************************************************)
(* migration.py:90-95: a direct replacement has "the same base             *)
(* distribution, the same C library, the same major version": no cost of   *)
(* that kind is named beside it, where the tables know the distribution;   *)
(* and whatever is named as a cost to the application has its step in the  *)
(* checklist, or is listed as not verified.                                *)
(***************************************************************************)
MigrationIsHonest(from, to) ==
  /\ DirectReplacement(from, to) /\ Libc(from.family) # None
       => TradeOffs(from, to) \cap {"major", "libc", "manager", "libraries", "publisher"} = {}
  /\ "libc" \in TradeOffs(from, to) /\ Both(Libc(from.family), Libc(to.family))
       => "native dependencies" \in Checklist(from, to)
  /\ "shell" \in TradeOffs(from, to) => "exec form" \in Checklist(from, to)
  /\ "nonroot" \in Improvements(from, to) => "ownership" \in Checklist(from, to)
  /\ from.user # to.user => "user" \in TradeOffs(from, to) \cup Unverified(from, to)
  /\ from.entrypoint # to.entrypoint => "entrypoint" \in TradeOffs(from, to) \cup Unverified(from, to)
=============================================================================
