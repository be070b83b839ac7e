----------------------------- MODULE MCServices -----------------------------
(***************************************************************************)
(* Services on small instances: what the configuration cannot write down.  *)
(***************************************************************************)
EXTENDS Services

\* The engine: of three targets two share a digest.
EngineKeys == <<"k", "k", None>>

\* The cache: two runs whose databases differ, one image, one policy.
CacheKeys == {<<"scan">>, <<"history">>, <<"eval", 1>>}
Fingerprints == <<[version |-> 1, rev |-> "r1"], [version |-> 1, rev |-> "r2"]>>
Policies == <<1, 1>>
CacheRounds == <<2, 1>>

\* Saved runs: the first and the third asked the same question.
RunScopes == <<"a", "b", "a">>

\* The registry: an index of three platforms, one without arm64, a bare image.
Arm == [arch |-> "arm64", variant |-> ""]
Image(a, v) == [kind |-> "image", arch |-> a, variant |-> v]
Entry(d, a, v) == [digest |-> d, arch |-> a, variant |-> v]
Published ==
  [d \in {"i1", "i2", "mx", "my", "r7", "r8"} |->
     CASE d = "i1" -> [kind |-> "index",
                       entries |-> {Entry("mx", "amd64", ""), Entry("r7", "arm64", "v7"),
                                    Entry("r8", "arm64", "v8")}]
       [] d = "i2" -> [kind |-> "index", entries |-> {Entry("my", "amd64", "")}]
       [] d \in {"mx", "my"} -> Image("amd64", "")
       [] d = "r7" -> Image("arm64", "v7")
       [] d = "r8" -> Image("arm64", "v8")]
BothArm == <<Arm, Arm>>
SecondHint == <<None, "mx">>
DefaultVariant == [arch \in {"amd64", "arm64"} |-> IF arch = "arm64" THEN "v8" ELSE ""]

\* A listing of three pages; one verifier asks for a tag that is not listed.
TagAsked == [v \in {"v", "w"} |-> IF v = "v" THEN "t3" ELSE "t9"]
TagPages == <<{"t1"}, {"t2"}, {"t3"}>>

ImageWanted == [s \in {"p", "q"} |-> IF s = "p" THEN "n" ELSE "m"]

\* Two enrichments that share a finding.
FindsOf == <<{1, 2}, {2}>>
=============================================================================
