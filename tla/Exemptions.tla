----------------------------- MODULE Exemptions -----------------------------
(***************************************************************************)
(* The exemptions of `.dockerls-ignore.yaml`: read (ignore_file.py), taken *)
(* out of a scan (analyze_image.py, recommend_images.py), and published as *)
(* VEX statements (vex.py, vex_cmd.py).                                    *)
(*                                                                         *)
(* Each entry of the file is taken by itself, so the file is a set of them:*)
(* [cve, expires, vex], the advisory, or "" where nothing names one; the   *)
(* last day on which it holds, or None; and the VEX justification that it  *)
(* declares: "", a "known" one or another "word".                          *)
(***************************************************************************)
EXTENDS Integers

CONSTANT None

\* A rule that is not well-formed is skipped, and so is one that has expired.
WellFormed(entry) == entry.cve # "" /\ entry.vex # "word"
Expired(rule, today) == rule.expires # None /\ today > rule.expires
\* mutant: an expired rule is left to those who apply it
LoadEveryRule(entries, today) == {entry \in entries : WellFormed(entry)}
LoadIgnoreRules(entries, today) == {entry \in entries : WellFormed(entry) /\ ~Expired(entry, today)}

\* Asked again when they are applied, which may be on another day.
ActiveIgnored(rules, today) == {rule.cve : rule \in {r \in rules : ~Expired(r, today) /\ r.cve # ""}}
Kept(found, ignored) == found \ ignored

(***************************************************************************)
(* statement_for: "not_affected" is a technical claim, which only a        *)
(* declared justification makes; a risk that was accepted stays            *)
(* "affected".  What __post_init__ refuses never exists.                   *)
(***************************************************************************)
StatementFor(rule) ==
  [cve |-> rule.cve, status |-> IF rule.vex = "known" THEN "not_affected" ELSE "affected",
   justified |-> rule.vex = "known", until |-> rule.expires]
Permitted(statement) ==
  statement.cve # "" /\ (statement.status = "not_affected" <=> statement.justified)
Document(rules) == {StatementFor(rule) : rule \in rules}
-----------------------------------------------------------------------------
(***************************************************************************)
(* What this tool hides it also says: on any day the advisories that are   *)
(* taken out of a scan are those that the document of that day states, and *)
(* the document says for how long; a command that began the day before     *)
(* hides nothing that has lapsed since.  No statement claims more than its *)
(* rule, one that cannot be made is never begun, and a finding that has no *)
(* identifier is never hidden.                                             *)
(***************************************************************************)
HiddenIsSaid(entries, found, yesterday, today) ==
  LET rules    == LoadIgnoreRules(entries, today)
      document == Document(rules)
      hidden   == found \ Kept(found, ActiveIgnored(rules, today))
      late     == ActiveIgnored(LoadIgnoreRules(entries, yesterday), today)
  IN  /\ hidden = found \cap {statement.cve : statement \in document}
      /\ hidden = found \ Kept(found, late)
      /\ "" \notin hidden
      /\ \A statement \in document :
           /\ Permitted(statement)
           /\ statement.until = None \/ statement.until >= today
           /\ \E entry \in entries :
                /\ entry.cve = statement.cve /\ entry.expires = statement.until
                /\ statement.status = "not_affected" <=> entry.vex = "known"
=============================================================================
