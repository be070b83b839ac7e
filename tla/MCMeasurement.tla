---------------------------- MODULE MCMeasurement ----------------------------
(***************************************************************************)
(* Instances of Measurement for TLC: one repository with a tag and two     *)
(* digests, asked for by tag, by tag with the hint of a discovery source,  *)
(* and by digest.                                                          *)
(***************************************************************************)
EXTENDS Measurement

CONSTANTS r1, r2, r3, t, d1, d2

ByTagOnly == [tag |-> t, pin |-> None, hint |-> None]
Hinted    == [tag |-> t, pin |-> None, hint |-> d1]
Pinned    == [tag |-> t, pin |-> d1, hint |-> None]

\* Two requests for one tag.
SameTag == [r \in Requests |-> ByTagOnly]

\* A tag and a digest that may turn out to be the same bytes.
TagAndDigest == [r \in Requests |-> IF r = r1 THEN Hinted ELSE Pinned]

=============================================================================
