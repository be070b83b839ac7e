----------------------------- MODULE StoredFacts -----------------------------
(***************************************************************************)
(* The records that outlive a run, as functions: the history of a tag or   *)
(* of the scans of an image (domain/value_objects/tag_history.py and       *)
(* scan_history.py), and what MeasurementStore accepts back from the cache.*)
(* The content of a row is untrusted: Garbage stands for what another      *)
(* version, or damage, may have left there.                                *)
(***************************************************************************)
EXTENDS Integers, SequencesExt

CONSTANTS MaxObservations, ScanTtl, UnknownTtl, IntelMaxAge, Garbage, NoValue

(***************************************************************************)
(* Histories.  `chain` is a ghost: all that was ever recorded on the way   *)
(* to this history, which the stored observations are what is left of.     *)
(***************************************************************************)
NoHistory == [seen |-> <<>>, dropped |-> 0, chain |-> <<>>]
HistoryFrom(row) == IF row \in {NoValue, Garbage} THEN NoHistory ELSE row

Moves(h) == (IF h.seen = <<>> THEN 0 ELSE Len(h.seen) - 1) + h.dropped

\* What was seen is a digest, or a digest with the counts of its scan.
Unchanged(h, what) == h.seen # <<>> /\ Last(h.seen).what = what
PrunedFromFirst(seen) ==
  IF Len(seen) <= MaxObservations THEN seen ELSE SubSeq(seen, Len(seen) - MaxObservations + 1, Len(seen))
Pruned(seen) ==
  LET over == Len(seen) - MaxObservations
  IN  IF over <= 0 THEN seen ELSE <<Head(seen)>> \o SubSeq(seen, over + 2, Len(seen))
Record(h, what, t) ==
  IF what = NoValue \/ Unchanged(h, what) THEN h
  ELSE LET o    == [what |-> what, at |-> t]
           seen == Append(h.seen, o)
       IN  [seen    |-> Pruned(seen),
            dropped |-> h.dropped + Len(seen) - Len(Pruned(seen)),
            chain   |-> Append(h.chain, o)]

(***************************************************************************)
(* Layer 1, raw scans.  A fingerprint is the scanner's version and the     *)
(* revision of its database, NoValue when it cannot be told.               *)
(***************************************************************************)
TtlOf(fp) == IF fp.rev # NoValue THEN ScanTtl ELSE UnknownTtl
ScanRow(fp, measured, t) ==
  [version |-> fp.version, rev |-> fp.rev, measured |-> measured,
   stored |-> t, until |-> t + TtlOf(fp)]

ScanRefused(raw, fp, t) ==
  CASE raw = NoValue -> "ABSENT"
    [] raw = Garbage -> "CORRUPT"
    [] raw.version # fp.version -> "SCANNER_CHANGED"
    [] fp.rev # NoValue /\ raw.rev # fp.rev -> "DB_REVISION_CHANGED"
    [] fp.rev = NoValue /\ (raw.rev # NoValue \/ t - raw.stored > UnknownTtl) -> "DB_REVISION_UNKNOWN"
    [] raw.until < t -> "EXPIRED"
    [] OTHER -> "HIT"

(***************************************************************************)
(* Layer 4, evaluations: of the scan that was just read, and no older than *)
(* the threat intelligence in them may be.  _set_cached does not keep one  *)
(* with notable findings that no feed answered for.                        *)
(***************************************************************************)
EvaluationRow(scan, intel) == [measured |-> scan.measured, intel |-> intel, of |-> scan]
Storable(notable, intel) == ~(notable /\ intel = NoValue)

EvaluationOfAnyScan(raw, scan, t) ==
  CASE raw = NoValue -> "POLICY_CHANGED"
    [] raw = Garbage -> "SCHEMA_MISMATCH"
    [] raw.intel # NoValue /\ t - raw.intel > IntelMaxAge -> "ENRICHMENT_STALE"
    [] OTHER -> "HIT"
EvaluationRefused(raw, scan, t) ==
  CASE raw = NoValue -> "POLICY_CHANGED"
    [] raw = Garbage -> "SCHEMA_MISMATCH"
    [] raw.measured # scan.measured -> "EXPIRED"
    [] raw.intel # NoValue /\ t - raw.intel > IntelMaxAge -> "ENRICHMENT_STALE"
    [] OTHER -> "HIT"
=============================================================================
