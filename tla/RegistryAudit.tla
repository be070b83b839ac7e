--------------------------- MODULE RegistryAudit ---------------------------
(***************************************************************************)
(* `dockerls registry-audit` (use_cases/registry_audit.py): six checks,    *)
(* each "true", "false" or "unknown", of what a registry says of one       *)
(* reference.                                                              *)
(*                                                                         *)
(* The registry has, for the tag and for the tags under which cosign       *)
(* publishes the signature and the attestation of its digest, a digest,    *)
(* "absent", or "silent" where it does not answer; `private` is whether it *)
(* answers only to a login and `login` whether the tool has one.  What is  *)
(* remembered of the tag is the sequence of digests that it was seen at,   *)
(* and how many were dropped from it.                                      *)
(***************************************************************************)
EXTENDS Integers, Sequences, FiniteSets

CONSTANT None

Checks == {"RESOLVABLE", "PINNED_REFERENCE", "TAG_STABLE", "SIGNATURE_PRESENT", "ATTESTATION_PRESENT",
           "PUBLICLY_READABLE"}
Informational == {"PUBLICLY_READABLE"}
Known(truth) == IF truth THEN "true" ELSE "false"

\* resolve_digest: nothing, for an answer of no and for none at all.
ResolveDigest(registry, tag) ==
  IF (registry.private /\ ~registry.login) \/ registry.has[tag] \in {"absent", "silent"} THEN None
  ELSE registry.has[tag]
Moves(history) == (IF history.seen = <<>> THEN 0 ELSE Len(history.seen) - 1) + history.dropped

TagStability(given, history) ==
  IF given # None \/ history.seen = <<>> THEN "unknown" ELSE Known(Moves(history) = 0)
\* mutant: without a digest there is no signature
ArtifactAnyway(registry, digest, tag) == Known(digest # None /\ ResolveDigest(registry, tag) # None)
CosignArtifact(registry, digest, tag) ==
  IF digest = None THEN "unknown" ELSE Known(ResolveDigest(registry, tag) # None)

\* execute, for a tag or for the digest that was given.
Audit(given, registry, history) ==
  LET digest == IF given # None THEN given ELSE ResolveDigest(registry, "tag")
  IN  [check \in Checks |->
         CASE check = "RESOLVABLE" -> Known(digest # None)
           [] check = "PINNED_REFERENCE" -> Known(given # None)
           [] check = "PUBLICLY_READABLE" -> IF given # None THEN "unknown" ELSE Known(digest # None)
           [] check = "TAG_STABLE" -> TagStability(given, history)
           [] check = "SIGNATURE_PRESENT" -> CosignArtifact(registry, digest, "sig")
           [] check = "ATTESTATION_PRESENT" -> CosignArtifact(registry, digest, "att")]
Alerts(audit) == {check \in Checks \ Informational : audit[check] = "false"}
-----------------------------------------------------------------------------
(***************************************************************************)
(* An alert about what the registry has is an answer of the registry, here *)
(* of one that can be reached: a signature is missed only where there is   *)
(* none, for a digest that is known; a tag is called unstable only if two  *)
(* digests were seen under it; and where nothing could be resolved, no     *)
(* alert says anything of what would have hung on the digest.              *)
(***************************************************************************)
Reached(registry) == /\ registry.private => registry.login
                     /\ \A tag \in DOMAIN registry.has : registry.has[tag] # "silent"
AlertIsAnAnswer(given, registry, history) ==
  LET audit  == Audit(given, registry, history)
      alerts == Alerts(audit)
  IN  /\ audit["RESOLVABLE"] = "false" => alerts \cap {"SIGNATURE_PRESENT", "ATTESTATION_PRESENT"} = {}
      /\ Reached(registry) =>
           /\ "SIGNATURE_PRESENT" \in alerts => registry.has["sig"] = "absent"
           /\ "ATTESTATION_PRESENT" \in alerts => registry.has["att"] = "absent"
      /\ "TAG_STABLE" \in alerts => given = None /\ (Len(history.seen) > 1 \/ history.dropped > 0)

\* "UNKNOWN: without it, 'the registry did not answer' would become 'there is no
\* signature'."  The code does not keep it: the inspector answers None for both.
SilenceIsUnknown(given, registry, history) ==
  registry.has["sig"] = "silent" => "SIGNATURE_PRESENT" \notin Alerts(Audit(given, registry, history))
\* "The registry answered with no credential at all."  The code does not keep
\* it: the command gives the inspector the credentials of the run.
PublicIsAnonymous(given, registry, history) ==
  Audit(given, registry, history)["PUBLICLY_READABLE"] = "true" => ~registry.private
\* "This tag has not changed digest since we started watching it."  The code
\* does not keep it: the digest just resolved is not held against the history.
StableIsCurrent(given, registry, history) ==
  Audit(given, registry, history)["TAG_STABLE"] = "true"
    => ResolveDigest(registry, "tag") \in {None, history.seen[Len(history.seen)]}
=============================================================================
