----------------------------- MODULE MCRecommend -----------------------------
(***************************************************************************)
(* Two tags, of two manifests or of one: the first is clean and at its end *)
(* of life, the second has a critical that KEV lists.                      *)
(***************************************************************************)
EXTENDS Recommend

AllTags == 1..2
Separate == [t \in AllTags |-> t]
Siblings == [t \in AllTags |-> 2]
Found == [d \in AllTags |-> IF d = 2 THEN 1 ELSE 0]
Listed == {2}
Ended1 == {1}

Plain == [staged |-> FALSE, everyone |-> TRUE, bounded |-> TRUE, family |-> TRUE,
          checks |-> {"tag", "inspection", "second"}]
Quick == [staged |-> TRUE, everyone |-> FALSE, bounded |-> TRUE, family |-> FALSE,
          checks |-> {"tag", "inspection"}]
Streamed == [Plain EXCEPT !.staged = TRUE, !.bounded = FALSE, !.family = FALSE]
PlainOnly == {Plain}
EveryOption == {Plain, Quick, Streamed}
==============================================================================
