--------------------------- MODULE MCBuildPipeline ---------------------------
EXTENDS BuildPipeline, TLC

CONSTANTS b1, b2

\* A pipeline that remediates and publishes behind a gate, and one that only
\* builds what it finds and publishes it under the tag itself.
Remediating == [scan |-> TRUE, gate |-> "kev", auto |-> TRUE, push |-> "target",
                policy |-> {"provenance"}]
Publishing  == [scan |-> FALSE, gate |-> "none", auto |-> FALSE, push |-> "tag", policy |-> {}]

Two   == b1 :> Remediating @@ b2 :> Publishing
Alone == b1 :> [Remediating EXCEPT !.gate = "critical"]
=============================================================================
