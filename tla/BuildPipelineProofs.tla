------------------------- MODULE BuildPipelineProofs -------------------------
(***************************************************************************)
(* Proofs about BuildPipeline, for any number of concurrent builds, edits  *)
(* and rounds of remediation.  A build counts on a name that others may    *)
(* take; the invariant says what the image under that name is to a build   *)
(* as long as nobody took it.                                              *)
(***************************************************************************)
EXTENDS BuildPipeline, FiniteSetTheorems, TLAPS

(***************************************************************************)
(* The tree grows by one with each edit and each round.  A build that has  *)
(* ended has forgotten its rounds and counts for all it was allowed.       *)
(***************************************************************************)
Rounds(b) == IF run[b].pc \in Outcomes THEN MaxRounds ELSE run[b].round

RoundsBegun == {p \in Builds \X (1..MaxRounds) : p[2] <= Rounds(p[1])}

TreeIsCounted ==
  /\ tree <= edits + Cardinality(RoundsBegun)
  /\ tree \in Nat /\ fileRev \in 0..tree /\ edits \in 0..MaxEdits /\ fits \in BOOLEAN

(***************************************************************************)
(* The image a build counts on, while it counts on a name.                 *)
(***************************************************************************)
Holds(b) == OnTag(b) \/ OnTarget(b)

Mine(b) == IF OnTarget(b) THEN target ELSE tagged

Undisturbed(b) == Holds(b) /\ ~run[b].overtaken

Early   == {"validate", "digest"}
Judged  == {"retag", "push"}

\* Every place has what its steps need.
IsEquipped(b) ==
  /\ Holds(b) => Mine(b) # None
  /\ At(b, "name") => run[b].reading # None
  /\ run[b].pc \in Early \cup Outcomes => run[b].round = 0
  /\ run[b].pc \notin Early \cup Outcomes => run[b].before # None
  /\ run[b].pc \in Early \cup {"build", "name", "inspect", "after"} /\ run[b].round = 0
       => run[b].after = None
  /\ run[b].pc \in Early \cup {"build", "name", "inspect", "after", "scan"} /\ run[b].round = 0
       => run[b].scan = None

\* What is remembered of an image is of the image under the name.
RemembersMine(b) ==
  /\ Undisturbed(b) /\ ~At(b, "inspect") => run[b].image \in {None, Mine(b)}
  /\ Undisturbed(b) /\ run[b].pc \notin {"inspect", "scan"} /\ run[b].scan # None /\ ~run[b].blind
       => run[b].scan.of = Mine(b)
  /\ run[b].scan # None =>
       /\ worst[run[b].scan.of] # None
       /\ run[b].scan.kev => worst[run[b].scan.of] \notin {"clean", "low"}

\* A first image was read between the two digests of the tree.
ReadBetween(b) ==
  /\ run[b].before # None =>
       IF fits THEN run[b].before.context \in 0..tree ELSE run[b].before.context = None
  /\ fits /\ run[b].round = 0 /\ run[b].before # None =>
       /\ At(b, "name") => run[b].reading.src \in run[b].before.context..tree
       /\ Undisturbed(b) =>
            /\ Mine(b).src \in run[b].before.context..tree
            /\ run[b].after # None /\ run[b].after.context # None
                 => Mine(b).src <= run[b].after.context

\* What is about to be published passed its gate and its input is unchanged.
IsJudged(b) ==
  run[b].pc \in Judged =>
    /\ run[b].before = run[b].after
    /\ request[b].gate # "none" => run[b].scan # None /\ Deserves(request[b].gate, run[b].scan.of)

RunInv(b) == IsEquipped(b) /\ RemembersMine(b) /\ ReadBetween(b) /\ IsJudged(b)

(***************************************************************************)
(* A build publishes once, then records what it published.                 *)
(***************************************************************************)
PublishesOnce ==
  \A p \in pushed :
    /\ p.by \in Builds /\ run[p.by].pc \in {"record"} \cup Outcomes
    /\ At(p.by, "record") /\ ~run[p.by].overtaken =>
         p.image = Named(p.by) /\ run[p.by].image \in {None, p.image}

RecordsLast == \A r \in records : r.by \in Builds /\ run[r.by].pc \in Outcomes

Inv ==
  /\ TypeOK
  /\ TreeIsCounted
  /\ \A b \in Builds : RunInv(b)
  /\ PublishesOnce
  /\ RecordsLast
  /\ RecordIsOfPublished
  /\ PublishedFromInput
  /\ PublishedPassedGate

-----------------------------------------------------------------------------
(***************************************************************************)
(* The tree is never ahead of what was edited and remediated.              *)
(***************************************************************************)
LEMMA SpacesAreFinite ==
  /\ IsFiniteSet(Builds \X (1..MaxRounds))
  /\ Cardinality(Builds \X (1..MaxRounds)) = Cardinality(Builds) * MaxRounds
  /\ Cardinality(Builds) \in Nat
  /\ MaxRev \in Nat
<1>1. IsFiniteSet(1..MaxRounds) /\ Cardinality(1..MaxRounds) = MaxRounds
  BY BoundsAreNumbers, FS_Interval
<1>2. Cardinality(Builds) \in Nat
  BY BuildsFinite, FS_CardinalityType
<1>3. Cardinality(Builds) * MaxRounds \in Nat
  BY <1>2, BoundsAreNumbers
<1>4. /\ IsFiniteSet(Builds \X (1..MaxRounds))
      /\ Cardinality(Builds \X (1..MaxRounds)) = Cardinality(Builds) * Cardinality(1..MaxRounds)
  BY <1>1, BuildsFinite, FS_Product, Zenon
<1>5. MaxRev \in Nat
  BY <1>3, BoundsAreNumbers DEF MaxRev
<1> QED
  BY <1>1, <1>2, <1>4, <1>5

LEMMA RoundsAreBounded ==
  /\ IsFiniteSet(RoundsBegun)
  /\ Cardinality(RoundsBegun) \in Nat
  /\ Cardinality(RoundsBegun) <= Cardinality(Builds) * MaxRounds
<1>1. RoundsBegun \subseteq Builds \X (1..MaxRounds)
  BY DEF RoundsBegun
<1>2. IsFiniteSet(RoundsBegun) /\ Cardinality(RoundsBegun) <= Cardinality(Builds \X (1..MaxRounds))
  BY <1>1, SpacesAreFinite, FS_Subset
<1> QED
  BY <1>2, SpacesAreFinite, FS_CardinalityType

LEMMA TreeIsBounded == TreeIsCounted => tree \in 0..MaxRev
<1> SUFFICES ASSUME TreeIsCounted PROVE tree \in 0..MaxRev
  OBVIOUS
<1> DEFINE n == Cardinality(RoundsBegun)
           m == Cardinality(Builds) * MaxRounds
<1>1. n \in Nat /\ n <= m
  BY RoundsAreBounded
<1>2. m \in Nat
  <2>1. Cardinality(Builds) \in Nat /\ MaxRounds \in Nat
    BY SpacesAreFinite, BoundsAreNumbers
  <2> QED
    BY <2>1
<1>3. tree <= edits + n /\ tree \in Nat /\ edits \in 0..MaxEdits
  BY DEF TreeIsCounted
<1> HIDE DEF n, m
<1>4. tree <= MaxEdits + m
  BY <1>1, <1>2, <1>3, BoundsAreNumbers
<1> QED
  BY <1>2, <1>3, <1>4, BoundsAreNumbers DEF MaxRev, m

\* A step in which no build forgets a round keeps the count.
LEMMA RoundsKept ==
  ASSUME TypeOK, run' \in [Builds -> Runs], \A c \in Builds : Rounds(c) <= Rounds(c)'
  PROVE  Cardinality(RoundsBegun) <= Cardinality(RoundsBegun)'
<1>1. \A c \in Builds : Rounds(c) \in Nat /\ Rounds(c)' \in Nat
  BY BoundsAreNumbers DEF TypeOK, Runs, Rounds
<1>2. RoundsBegun \subseteq RoundsBegun'
  <2> SUFFICES ASSUME NEW p \in Builds \X (1..MaxRounds), p[2] <= Rounds(p[1])
               PROVE  p[2] <= Rounds(p[1])'
    BY DEF RoundsBegun
  <2>1. p[1] \in Builds /\ p[2] \in Nat
    BY BoundsAreNumbers
  <2> QED
    BY <1>1, <2>1
<1>3. IsFiniteSet(RoundsBegun')
  <2>1. RoundsBegun' \subseteq Builds \X (1..MaxRounds)
    BY DEF RoundsBegun
  <2> QED
    BY <2>1, SpacesAreFinite, FS_Subset
<1> QED
  BY <1>2, <1>3, FS_Subset

\* A round begun is one more pair.
LEMMA RoundAdded ==
  ASSUME TypeOK, run' \in [Builds -> Runs], NEW b \in Builds, run[b].pc \notin Outcomes,
         Rounds(b)' = run[b].round + 1, \A c \in Builds \ {b} : Rounds(c)' = Rounds(c)
  PROVE  Cardinality(RoundsBegun) + 1 = Cardinality(RoundsBegun)'
<1>1. \A c \in Builds : Rounds(c) \in 0..MaxRounds /\ Rounds(c)' \in 0..MaxRounds
  BY BoundsAreNumbers DEF TypeOK, Runs, Rounds
<1>2. Rounds(b) = run[b].round
  BY DEF Rounds
<1> DEFINE new == <<b, run[b].round + 1>>
<1>3. new \in Builds \X (1..MaxRounds) /\ new \notin RoundsBegun
  BY <1>1, <1>2, BoundsAreNumbers DEF RoundsBegun
<1>4. RoundsBegun' = RoundsBegun \cup {new}
  <2>1. ASSUME NEW c \in Builds, NEW n \in 1..MaxRounds
        PROVE  n <= Rounds(c)' <=> n <= Rounds(c) \/ <<c, n>> = new
    <3>1. CASE c = b
      BY <1>1, <1>2, <3>1, BoundsAreNumbers
    <3>2. CASE c # b
      BY <3>2
    <3> QED
      BY <3>1, <3>2
  <2> HIDE DEF new
  <2> QED
    BY <1>3, <2>1 DEF RoundsBegun
<1> QED
  BY <1>3, <1>4, RoundsAreBounded, FS_AddElement

-----------------------------------------------------------------------------
(***************************************************************************)
(* What a step does to the builds that do not take it: at most, it takes   *)
(* the name of their image, and they are overtaken.                        *)
(***************************************************************************)
OnlyOvertakes(c) ==
  /\ run'[c] = [run[c] EXCEPT !.overtaken = run'[c].overtaken]
  /\ run[c].overtaken => run'[c].overtaken
  /\ tagged' # tagged => tagged' # None /\ (OnTag(c) => run'[c].overtaken)
  /\ target' # target => target' # None /\ (OnTarget(c) => run'[c].overtaken)

Grows ==
  /\ tree <= tree' /\ UNCHANGED fits
  /\ \A i \in Images : worst[i] # None => worst'[i] = worst[i]

LEMMA OthersKeep ==
  ASSUME TypeOK, TypeOK', NEW c \in Builds, RunInv(c), OnlyOvertakes(c), Grows
  PROVE  RunInv(c)'
<1> USE DEF RunInv
<1>1. run[c] \in Runs /\ run'[c] \in Runs
  BY DEF TypeOK
<1>2. /\ run'[c].pc = run[c].pc /\ run'[c].before = run[c].before /\ run'[c].after = run[c].after
      /\ run'[c].reading = run[c].reading /\ run'[c].round = run[c].round
      /\ run'[c].image = run[c].image /\ run'[c].scan = run[c].scan /\ run'[c].blind = run[c].blind
  BY <1>1 DEF OnlyOvertakes, Runs
<1>3. (OnTag(c)' <=> OnTag(c)) /\ (OnTarget(c)' <=> OnTarget(c))
  BY <1>2 DEF OnTag, OnTarget, At
<1>4. Undisturbed(c)' => Undisturbed(c) /\ Mine(c)' = Mine(c)
  BY <1>1, <1>3 DEF Undisturbed, Holds, Mine, OnlyOvertakes, Runs
<1>5. IsEquipped(c)'
  BY <1>2, <1>3 DEF IsEquipped, Holds, Mine, OnlyOvertakes, At
<1>6. run[c].scan # None => worst'[run[c].scan.of] = worst[run[c].scan.of]
  BY <1>1, NoneIsNoValue DEF Runs, Grows, RemembersMine
<1>7. RemembersMine(c)'
  BY <1>2, <1>4, <1>6 DEF RemembersMine, At
<1>8. ReadBetween(c)'
  BY <1>2, <1>4 DEF ReadBetween, At, Grows, TypeOK
<1>9. IsJudged(c)'
  BY <1>2, <1>6 DEF IsJudged, Deserves
<1> QED
  BY <1>5, <1>7, <1>8, <1>9

-----------------------------------------------------------------------------
(***************************************************************************)
(* What every step of a build b shares: it is enough to look at b.         *)
(***************************************************************************)
LEMMA PublicationsKept ==
  ASSUME Inv, TypeOK', Grows, UNCHANGED proofVars, NEW b \in Builds,
         run[b].pc \notin {"record"} \cup Outcomes,
         \A c \in Builds \ {b} : OnlyOvertakes(c)
  PROVE  PublishesOnce' /\ RecordsLast' /\ RecordIsOfPublished' /\ PublishedFromInput'
           /\ PublishedPassedGate'
<1> USE DEF Inv, proofVars
<1>1. \A p \in pushed : p.by \in Builds \ {b} /\ run'[p.by].pc = run[p.by].pc
                        /\ run'[p.by].image = run[p.by].image
  BY DEF PublishesOnce, OnlyOvertakes, TypeOK, Runs
<1>2. ASSUME NEW p \in pushed, At(p.by, "record")', ~run'[p.by].overtaken
      PROVE  At(p.by, "record") /\ ~run[p.by].overtaken /\ Named(p.by)' = Named(p.by)
  <2>1. At(p.by, "record") /\ (OnTag(p.by) \/ OnTarget(p.by))
    BY <1>1, <1>2 DEF At, OnTag, OnTarget
  <2>2. ~run[p.by].overtaken
    BY <1>1, <1>2 DEF OnlyOvertakes
  <2>3. Named(p.by)' = Named(p.by)
    BY <1>1, <1>2, <2>1 DEF OnlyOvertakes, Named, OnTag, OnTarget, At
  <2> QED
    BY <2>1, <2>2, <2>3
<1>3. PublishesOnce'
  BY <1>1, <1>2 DEF PublishesOnce, At
<1>4. RecordsLast'
  BY DEF RecordsLast, OnlyOvertakes, TypeOK, Runs
<1>5. RecordIsOfPublished' /\ PublishedFromInput'
  BY DEF RecordIsOfPublished, PublishedFromInput
<1>6. PublishedPassedGate'
  <2> SUFFICES ASSUME NEW p \in pushed, p.undisturbed, p.measured
               PROVE  Deserves(request[p.by].gate, p.image)'
    BY DEF PublishedPassedGate
  <2>1. Deserves(request[p.by].gate, p.image) /\ p.image \in Images
    BY DEF PublishedPassedGate, TypeOK
  <2>2. worst[p.image] # None => worst'[p.image] = worst[p.image]
    BY <2>1 DEF Grows
  <2>3. request[p.by].gate \in Gates
    BY <1>1, RequestsAreRequests
  <2> QED
    BY <2>1, <2>2, <2>3, NoneIsNoValue DEF Deserves, Gates, Worst
<1> QED
  BY <1>3, <1>4, <1>5, <1>6

LEMMA RunsKept ==
  ASSUME Inv, TypeOK', NEW b \in Builds, run[b].pc \notin Outcomes,
         \A c \in Builds \ {b} : OnlyOvertakes(c),
         run'[b].pc \in Outcomes \/ run'[b].round = run[b].round,
         Grows, UNCHANGED treeVars, RunInv(b)'
  PROVE  TreeIsCounted' /\ \A c \in Builds : RunInv(c)'
<1>1. \A c \in Builds : RunInv(c)'
  BY OthersKeep DEF Inv
<1>2. \A c \in Builds : Rounds(c) <= Rounds(c)'
  BY BoundsAreNumbers DEF Rounds, OnlyOvertakes, Inv, TypeOK, Runs
<1>3. TreeIsCounted'
  <2>1. Cardinality(RoundsBegun) <= Cardinality(RoundsBegun)'
    BY <1>2, RoundsKept DEF Inv, TypeOK
  <2>2. Cardinality(RoundsBegun) \in Nat /\ Cardinality(RoundsBegun)' \in Nat
    <3>1. RoundsBegun' \subseteq Builds \X (1..MaxRounds)
      BY DEF RoundsBegun
    <3> QED
      BY <3>1, RoundsAreBounded, SpacesAreFinite, FS_Subset, FS_CardinalityType
  <2>3. UNCHANGED <<tree, fileRev, edits, fits>>
    BY DEF treeVars
  <2>4. edits \in Nat /\ tree \in Nat /\ tree <= edits + Cardinality(RoundsBegun)
    BY BoundsAreNumbers DEF Inv, TreeIsCounted
  <2>5. tree <= edits + Cardinality(RoundsBegun)'
    BY <2>1, <2>2, <2>4
  <2> QED
    BY <2>3, <2>5 DEF Inv, TreeIsCounted
<1> QED
  BY <1>1, <1>3

LEMMA StepOfOne ==
  ASSUME Inv, TypeOK', NEW b \in Builds, run[b].pc \notin {"record"} \cup Outcomes,
         \A c \in Builds \ {b} : OnlyOvertakes(c),
         run'[b].pc \in Outcomes \/ run'[b].round = run[b].round,
         Grows, UNCHANGED <<treeVars, proofVars>>, RunInv(b)'
  PROVE  Inv'
<1>1. TreeIsCounted' /\ \A c \in Builds : RunInv(c)'
  BY RunsKept
<1> QED
  BY <1>1, PublicationsKept DEF Inv

\* A step of b that touches no name overtakes nobody.
LEMMA AloneOvertakesNobody ==
  ASSUME TypeOK, NEW b \in Builds, NEW s, Goes(b, s), UNCHANGED nameVars
  PROVE  run'[b] = s /\ \A c \in Builds \ {b} : OnlyOvertakes(c)
  BY DEF TypeOK, Goes, OnlyOvertakes, Runs, nameVars

LEMMA QuietStep ==
  ASSUME Inv, NEW b \in Builds, run[b].pc \notin {"record"} \cup Outcomes,
         NEW s \in Runs, Goes(b, s), s.pc \in Outcomes \/ s.round = run[b].round,
         worst' \in [Images -> Findings \cup {None}],
         \A i \in Images : worst[i] # None => worst'[i] = worst[i],
         UNCHANGED <<treeVars, nameVars, proofVars>>, RunInv(b)'
  PROVE  Inv'
<1>1. TypeOK'
  BY DEF Inv, TypeOK, Goes, treeVars, nameVars, proofVars
<1>2. run'[b] = s /\ \A c \in Builds \ {b} : OnlyOvertakes(c)
  BY AloneOvertakesNobody DEF Inv
<1>3. Grows
  BY DEF Grows, treeVars, Inv, TreeIsCounted
<1> QED
  BY <1>1, <1>2, <1>3, StepOfOne

\* Most steps do not look at an image either.
LEMMA PlainStep ==
  ASSUME Inv, NEW b \in Builds, run[b].pc \notin {"record"} \cup Outcomes,
         NEW s \in Runs, Goes(b, s), s.round = run[b].round,
         UNCHANGED <<treeVars, nameVars, worst, proofVars>>, RunInv(b)'
  PROVE  Inv'
  BY QuietStep DEF Inv, TypeOK

\* A build that ends forgets everything and owes nothing.
LEMMA EndedIsFine ==
  ASSUME TypeOK, NEW b \in Builds, NEW o \in Outcomes, Ends(b, o)
  PROVE  Local(o) \in Runs /\ run'[b] = Local(o) /\ RunInv(b)'
<1>1. Local(o) \in Runs /\ run'[b] = Local(o)
  BY BoundsAreNumbers DEF Local, Runs, Places, Ends, Goes, TypeOK
<1>2. ~Holds(b)'
  BY <1>1 DEF Holds, OnTag, OnTarget, At, Local, Outcomes
<1>3. IsEquipped(b)' /\ IsJudged(b)'
  BY <1>1, <1>2 DEF IsEquipped, IsJudged, At, Local, Outcomes, Early, Judged
<1>4. RemembersMine(b)' /\ ReadBetween(b)'
  BY <1>1, <1>2 DEF RemembersMine, ReadBetween, Undisturbed, Local
<1> QED
  BY <1>1, <1>3, <1>4 DEF RunInv

LEMMA EndsKeeps ==
  ASSUME Inv, NEW b \in Builds, NEW o \in Outcomes, Ends(b, o),
         run[b].pc \notin {"record"} \cup Outcomes,
         UNCHANGED <<treeVars, nameVars, worst, proofVars>>
  PROVE  Inv'
<1>1. Local(o) \in Runs /\ Local(o).pc \in Outcomes /\ RunInv(b)'
  BY EndedIsFine DEF Inv, Local
<1> QED
  BY <1>1, QuietStep DEF Ends, Inv, TypeOK

-----------------------------------------------------------------------------
(***************************************************************************)
(* The steps.                                                              *)
(***************************************************************************)
LEMMA EditKeeps == ASSUME Inv, Edit PROVE Inv'
<1> USE DEF Inv, Edit, nameVars, proofVars
<1>1. run' = run /\ (\A c \in Builds : OnlyOvertakes(c))
  BY DEF OnlyOvertakes, TypeOK, Runs
<1>2. TreeIsCounted'
  <2>1. RoundsBegun' = RoundsBegun
    BY DEF RoundsBegun, Rounds
  <2>2. Cardinality(RoundsBegun) \in Nat
    BY RoundsAreBounded
  <2>3. edits \in Nat /\ edits + 1 \in 0..MaxEdits /\ tree + 1 <= edits + 1 + Cardinality(RoundsBegun)
    BY <2>2, BoundsAreNumbers DEF TreeIsCounted
  <2>4. fileRev' \in 0..(tree + 1) /\ tree + 1 \in Nat
    BY DEF TreeIsCounted
  <2> QED
    BY <2>1, <2>3, <2>4 DEF TreeIsCounted
<1>3. tree' \in 0..MaxRev
  <2>1. (tree \in 0..MaxRev)'
    BY <1>2, TreeIsBounded, PTL
  <2> QED
    BY <2>1
<1>4. TypeOK'
  BY <1>2, <1>3 DEF TypeOK, TreeIsCounted
<1>5. Grows
  BY DEF Grows, TreeIsCounted
<1>6. \A c \in Builds : RunInv(c)'
  BY <1>1, <1>4, <1>5, OthersKeep
<1>7. PublishesOnce' /\ RecordsLast'
  BY <1>1 DEF PublishesOnce, RecordsLast, At, Named
<1>8. RecordIsOfPublished' /\ PublishedFromInput' /\ PublishedPassedGate'
  BY DEF RecordIsOfPublished, PublishedFromInput, PublishedPassedGate, Deserves
<1> QED
  BY <1>2, <1>4, <1>6, <1>7, <1>8

LEMMA ValidateKeeps ==
  ASSUME Inv, NEW b \in Builds, Validate(b) PROVE Inv'
<1> USE DEF Validate, At, Outcomes
<1>1. CASE \E o \in Outcomes : Ends(b, o)
  BY <1>1, EndsKeeps
<1>2. CASE Goes(b, To(b, "digest"))
  <2> DEFINE s == To(b, "digest")
  <2>1. run[b] \in Runs /\ s \in Runs /\ s = [run[b] EXCEPT !.pc = "digest"] /\ run'[b] = s
    BY <1>2, AloneOvertakesNobody DEF Inv, TypeOK, To, Runs, Places
  <2> HIDE DEF s
  <2>2. ~Holds(b)'
    BY <2>1 DEF Holds, OnTag, OnTarget, Runs
  <2>3. RunInv(b)'
    BY <2>1, <2>2 DEF Inv, RunInv, IsEquipped, RemembersMine, ReadBetween, IsJudged, Undisturbed,
       Early, Judged, Runs, treeVars
  <2> QED
    BY <1>2, <2>1, <2>3, QuietStep DEF Inv, TypeOK, s, Runs
<1> QED
  BY <1>1, <1>2

\* The digest of the tree as it is, or of nothing when it does not fit.
LEMMA DigestIsOfTree ==
  ASSUME TypeOK, TreeIsCounted
  PROVE  /\ DigestNow \in Digest /\ DigestNow # None
         /\ IF fits THEN DigestNow.context = tree ELSE DigestNow.context = None
<1>1. DigestNow \in Digest
  BY SpacesAreFinite DEF DigestNow, Digest, TypeOK, TreeIsCounted
<1> QED
  BY <1>1, NoneIsNoValue DEF DigestNow

LEMMA DigestBeforeKeeps ==
  ASSUME Inv, NEW b \in Builds, DigestBefore(b) PROVE Inv'
<1> USE DEF DigestBefore, At, Outcomes
<1> DEFINE s == [To(b, "build") EXCEPT !.before = DigestNow]
<1>1. DigestNow \in Digest /\ DigestNow # None
      /\ IF fits THEN DigestNow.context = tree ELSE DigestNow.context = None
  BY DigestIsOfTree DEF Inv
<1>2. /\ run[b] \in Runs /\ s \in Runs /\ Goes(b, s) /\ run'[b] = s
      /\ s = [run[b] EXCEPT !.pc = "build", !.before = DigestNow]
  <2>1. run[b] \in Runs /\ Goes(b, s) /\ UNCHANGED nameVars
    BY DEF Inv, TypeOK
  <2>2. s = [run[b] EXCEPT !.pc = "build", !.before = DigestNow]
    BY <2>1 DEF To, Runs
  <2> HIDE DEF s
  <2>3. s \in Runs
    BY <1>1, <2>1, <2>2 DEF Runs, Places
  <2> QED
    BY <2>1, <2>2, <2>3, AloneOvertakesNobody DEF Inv
<1> HIDE DEF s
<1>3. ~Holds(b)'
  BY <1>2 DEF Holds, OnTag, OnTarget, Runs, Inv, RunInv, IsEquipped, Early
<1>4. RunInv(b)'
  <2>1. IsEquipped(b)' /\ IsJudged(b)'
    BY <1>1, <1>2, <1>3 DEF Inv, RunInv, IsEquipped, IsJudged, Early, Judged, Runs
  <2>2. RemembersMine(b)'
    BY <1>2, <1>3 DEF Inv, RunInv, RemembersMine, Undisturbed, Runs
  <2>3. ReadBetween(b)'
    BY <1>1, <1>2, <1>3 DEF ReadBetween, Undisturbed, Runs, Inv, TypeOK, TreeIsCounted, treeVars
  <2> QED
    BY <2>1, <2>2, <2>3 DEF RunInv
<1> QED
  BY <1>2, <1>4, PlainStep DEF Runs

LEMMA ReadTreeKeeps ==
  ASSUME Inv, NEW b \in Builds, ReadTree(b) PROVE Inv'
<1> USE DEF ReadTree, At, Outcomes
<1>1. CASE Ends(b, "error")
  BY <1>1, EndsKeeps
<1>2. CASE Goes(b, [To(b, "name") EXCEPT !.reading = [src |-> tree, fixes |-> run[b].round]])
  <2> DEFINE i == [src |-> tree, fixes |-> run[b].round]
             s == [To(b, "name") EXCEPT !.reading = i]
  <2>1. i \in Images /\ i # None /\ i.src = tree
    BY NoneIsNoValue DEF Inv, TypeOK, Runs, Images
  <2> HIDE DEF i
  <2>2. /\ run[b] \in Runs /\ s \in Runs /\ Goes(b, s) /\ run'[b] = s
        /\ s = [run[b] EXCEPT !.pc = "name", !.reading = i]
    <3>1. run[b] \in Runs /\ Goes(b, s) /\ UNCHANGED nameVars
      BY <1>2 DEF Inv, TypeOK, i
    <3>2. s = [run[b] EXCEPT !.pc = "name", !.reading = i]
      BY <3>1 DEF To, Runs
    <3> HIDE DEF s
    <3>3. s \in Runs
      BY <2>1, <3>1, <3>2 DEF Runs, Places
    <3> QED
      BY <3>1, <3>2, <3>3, AloneOvertakesNobody DEF Inv
  <2> HIDE DEF s
  <2>3. ~Holds(b)'
    BY <2>2 DEF Holds, OnTag, OnTarget, Runs
  <2>4. RunInv(b)'
    <3>1. IsEquipped(b)' /\ IsJudged(b)'
      BY <2>1, <2>2, <2>3 DEF Inv, RunInv, IsEquipped, IsJudged, Early, Judged, Runs
    <3>2. RemembersMine(b)'
      BY <2>2, <2>3 DEF Inv, RunInv, RemembersMine, Undisturbed, Runs
    <3>3. ReadBetween(b)'
      BY <2>1, <2>2, <2>3 DEF ReadBetween, Undisturbed, Runs, Inv, RunInv, TypeOK, TreeIsCounted, treeVars
    <3> QED
      BY <3>1, <3>2, <3>3 DEF RunInv
  <2> QED
    BY <1>2, <2>2, <2>4, PlainStep DEF Runs
<1>3. CASE run[b].round > 0 /\ Goes(b, To(b, "decide"))
  <2> DEFINE s == To(b, "decide")
  <2>1. /\ run[b] \in Runs /\ s \in Runs /\ Goes(b, s) /\ run'[b] = s
        /\ s = [run[b] EXCEPT !.pc = "decide"]
    BY <1>3, AloneOvertakesNobody DEF Inv, TypeOK, To, Runs, Places
  <2> HIDE DEF s
  <2>2. Holds(b) /\ Holds(b)' /\ (Undisturbed(b)' <=> Undisturbed(b)) /\ Mine(b)' = Mine(b)
    BY <1>3, <2>1 DEF Undisturbed, Mine, Holds, OnTag, OnTarget, Runs, nameVars
  <2>3. RunInv(b)'
    <3>1. IsEquipped(b)' /\ IsJudged(b)'
      BY <1>3, <2>1, <2>2 DEF Inv, RunInv, IsEquipped, IsJudged, Early, Judged, Runs
    <3>2. RemembersMine(b)' /\ ReadBetween(b)'
      BY <1>3, <2>1, <2>2 DEF Inv, RunInv, RemembersMine, ReadBetween, Runs, treeVars
    <3> QED
      BY <3>1, <3>2 DEF RunInv
  <2> QED
    BY <1>3, <2>1, <2>3, PlainStep DEF Runs
<1> QED
  BY <1>1, <1>2, <1>3

LEMMA InspectKeeps ==
  ASSUME Inv, NEW b \in Builds, Inspect(b) PROVE Inv'
<1> USE DEF At, Outcomes
<1> DEFINE next == IF run[b].round = 0 THEN "after" ELSE "scan"
<1> SUFFICES ASSUME NEW seen \in {tagged, None}, Inspects(b, seen) PROVE Inv'
  BY DEF Inspect
<1> USE DEF Inspects
<1> DEFINE s == [To(b, next) EXCEPT !.image = seen]
<1>1. next \in {"after", "scan"} /\ (run[b].round = 0 <=> next = "after")
  OBVIOUS
<1>2. /\ run[b] \in Runs /\ s \in Runs /\ Goes(b, s) /\ run'[b] = s
      /\ s = [run[b] EXCEPT !.pc = next, !.image = seen]
  <2>1. run[b] \in Runs /\ Goes(b, s) /\ UNCHANGED nameVars
    BY DEF Inv, TypeOK
  <2> HIDE DEF next
  <2>2. s = [run[b] EXCEPT !.pc = next, !.image = seen]
    BY <2>1 DEF To, Runs
  <2> HIDE DEF s
  <2>3. s \in Runs
    BY <1>1, <2>1, <2>2 DEF Runs, Places, Inv, TypeOK
  <2> QED
    BY <2>1, <2>2, <2>3, AloneOvertakesNobody DEF Inv
<1> HIDE DEF s, next
<1>3. /\ Holds(b) /\ Holds(b)' /\ (Undisturbed(b)' <=> Undisturbed(b))
      /\ Mine(b)' = Mine(b) /\ Mine(b) = tagged
  BY <1>1, <1>2 DEF Undisturbed, Mine, Holds, OnTag, OnTarget, Runs, nameVars
<1>4. RunInv(b)'
  <2>1. IsEquipped(b)' /\ IsJudged(b)'
    BY <1>1, <1>2, <1>3 DEF Inv, RunInv, IsEquipped, IsJudged, Early, Judged, Runs
  <2>2. RemembersMine(b)'
    BY <1>1, <1>2, <1>3 DEF Inv, RunInv, RemembersMine, IsEquipped, Runs
  <2>3. ReadBetween(b)'
    BY <1>1, <1>2, <1>3 DEF Inv, RunInv, ReadBetween, Runs, treeVars
  <2> QED
    BY <2>1, <2>2, <2>3 DEF RunInv
<1> QED
  BY <1>2, <1>4, PlainStep DEF Runs

LEMMA DigestAfterKeeps ==
  ASSUME Inv, NEW b \in Builds, DigestAfter(b) PROVE Inv'
<1> USE DEF DigestAfter, At, Outcomes
<1> DEFINE next == IF request[b].scan THEN "scan" ELSE "decide"
           s    == [To(b, next) EXCEPT !.after = DigestNow]
<1>1. DigestNow \in Digest /\ DigestNow # None
      /\ IF fits THEN DigestNow.context = tree ELSE DigestNow.context = None
  BY DigestIsOfTree DEF Inv
<1>2. next \in {"scan", "decide"}
  OBVIOUS
<1>3. /\ run[b] \in Runs /\ s \in Runs /\ Goes(b, s) /\ run'[b] = s
      /\ s = [run[b] EXCEPT !.pc = next, !.after = DigestNow]
  <2>1. run[b] \in Runs /\ Goes(b, s) /\ UNCHANGED nameVars
    BY DEF Inv, TypeOK
  <2> HIDE DEF next
  <2>2. s = [run[b] EXCEPT !.pc = next, !.after = DigestNow]
    BY <2>1 DEF To, Runs
  <2> HIDE DEF s
  <2>3. s \in Runs
    BY <1>1, <1>2, <2>1, <2>2 DEF Runs, Places
  <2> QED
    BY <2>1, <2>2, <2>3, AloneOvertakesNobody DEF Inv
<1> HIDE DEF s, next
<1>4. /\ Holds(b) /\ Holds(b)' /\ (Undisturbed(b)' <=> Undisturbed(b)) /\ Mine(b)' = Mine(b)
  BY <1>2, <1>3 DEF Undisturbed, Mine, Holds, OnTag, OnTarget, Runs, nameVars
<1>5. RunInv(b)'
  <2>1. IsEquipped(b)' /\ IsJudged(b)'
    BY <1>2, <1>3, <1>4 DEF Inv, RunInv, IsEquipped, IsJudged, Early, Judged, Runs
  <2>2. RemembersMine(b)'
    BY <1>2, <1>3, <1>4 DEF Inv, RunInv, RemembersMine, IsEquipped, Runs
  <2>3. ReadBetween(b)'
    <3>1. Mine(b) \in Images
      BY <1>4 DEF Inv, RunInv, IsEquipped, TypeOK, Mine
    <3> QED
      BY <1>1, <1>2, <1>3, <1>4, <3>1
         DEF Inv, RunInv, ReadBetween, Runs, treeVars, TreeIsCounted, Images
  <2> QED
    BY <2>1, <2>2, <2>3 DEF RunInv
<1> QED
  BY <1>3, <1>5, PlainStep DEF Runs

LEMMA ScanKeeps ==
  ASSUME Inv, NEW b \in Builds, Scan(b) PROVE Inv'
<1> USE DEF At, Outcomes
<1>1. run[b] \in Runs /\ run[b].pc = "scan" /\ UNCHANGED <<treeVars, nameVars, proofVars>>
  BY DEF Scan, Inv, TypeOK
<1>2. OnTag(b) /\ ~OnTarget(b) /\ Mine(b) = tagged /\ tagged \in Images
  BY <1>1 DEF OnTag, OnTarget, Mine, Inv, TypeOK, RunInv, IsEquipped, Holds
<1>3. CASE \E w \in Findings, kev \in BOOLEAN :
          /\ w \in {"clean", "low"} => ~kev
          /\ worst[tagged] \in {None, w}
          /\ worst' = [worst EXCEPT ![tagged] = w]
          /\ Goes(b, [To(b, "remedy") EXCEPT !.scan = [of |-> tagged, kev |-> kev], !.blind = FALSE])
  <2> SUFFICES ASSUME NEW w \in Findings, NEW kev \in BOOLEAN, w \in {"clean", "low"} => ~kev,
                      worst[tagged] \in {None, w}, worst' = [worst EXCEPT ![tagged] = w],
                      Goes(b, [To(b, "remedy") EXCEPT !.scan = [of |-> tagged, kev |-> kev],
                                                      !.blind = FALSE])
               PROVE  Inv'
    BY <1>3
  <2> DEFINE v == [of |-> tagged, kev |-> kev]
             s == [To(b, "remedy") EXCEPT !.scan = v, !.blind = FALSE]
  <2>1. v \in [of : Images, kev : BOOLEAN] /\ v # None /\ v.of = tagged /\ v.kev = kev
    BY <1>2, NoneIsNoValue
  <2>2. Goes(b, s)
    OBVIOUS
  <2> HIDE DEF v
  <2>3. s = [run[b] EXCEPT !.pc = "remedy", !.scan = v, !.blind = FALSE]
    BY <1>1 DEF To, Runs
  <2> HIDE DEF s
  <2>4. s \in Runs /\ s.round = run[b].round
    BY <1>1, <2>1, <2>3 DEF Runs, Places
  <2>5. run'[b] = s
    BY <1>1, <2>2, AloneOvertakesNobody DEF Inv
  <2>6. /\ worst' \in [Images -> Findings \cup {None}] /\ worst'[tagged] = w
        /\ \A i \in Images : worst[i] # None => worst'[i] = worst[i]
        /\ w # None
    BY <1>2, NoneIsNoValue, FindingsAreFindings DEF Inv, TypeOK
  <2>7. /\ Holds(b) /\ Holds(b)' /\ (Undisturbed(b)' <=> Undisturbed(b))
        /\ Mine(b)' = Mine(b) /\ Mine(b) = tagged
    BY <1>1, <1>2, <2>3, <2>5 DEF Undisturbed, Mine, Holds, OnTag, OnTarget, Runs, nameVars
  <2>8. IsEquipped(b)' /\ IsJudged(b)'
    BY <1>1, <1>2, <2>3, <2>5, <2>7 DEF Inv, RunInv, IsEquipped, IsJudged, Early, Judged, Runs
  <2>9. RemembersMine(b)'
    BY <1>1, <2>1, <2>3, <2>5, <2>6, <2>7 DEF Inv, RunInv, RemembersMine, Runs
  <2>10. ReadBetween(b)'
    BY <1>1, <2>3, <2>5, <2>7 DEF Inv, RunInv, ReadBetween, Runs, treeVars
  <2>11. RunInv(b)'
    BY <2>8, <2>9, <2>10 DEF RunInv
  <2> QED
    BY <1>1, <2>2, <2>4, <2>6, <2>11, QuietStep
<1>4. CASE Goes(b, [To(b, "remedy") EXCEPT !.blind = run[b].round > 0]) /\ UNCHANGED worst
  <2> DEFINE blind == run[b].round > 0
             s     == [To(b, "remedy") EXCEPT !.blind = blind]
  <2>1. blind \in BOOLEAN
    OBVIOUS
  <2>2. Goes(b, s)
    BY <1>4
  <2>3. run[b].scan = None \/ blind
    <3>1. run[b].round = 0 => run[b].scan = None
      BY <1>1 DEF Inv, RunInv, IsEquipped
    <3> QED
      BY <1>1, <3>1, BoundsAreNumbers DEF Runs
  <2> HIDE DEF blind
  <2>4. s = [run[b] EXCEPT !.pc = "remedy", !.blind = blind]
    BY <1>1 DEF To, Runs
  <2> HIDE DEF s
  <2>5. s \in Runs /\ s.round = run[b].round /\ run'[b] = s
    <3>1. s \in Runs /\ s.round = run[b].round
      BY <1>1, <2>1, <2>4 DEF Runs, Places
    <3> QED
      BY <1>1, <2>2, <3>1, AloneOvertakesNobody DEF Inv
  <2>6. /\ Holds(b) /\ Holds(b)' /\ (Undisturbed(b)' <=> Undisturbed(b)) /\ Mine(b)' = Mine(b)
    BY <1>1, <1>2, <2>4, <2>5 DEF Undisturbed, Mine, Holds, OnTag, OnTarget, Runs, nameVars
  <2>7. IsEquipped(b)' /\ IsJudged(b)'
    BY <1>1, <2>4, <2>5, <2>6 DEF Inv, RunInv, IsEquipped, IsJudged, Early, Judged, Runs
  <2>8. RemembersMine(b)'
    BY <1>1, <1>4, <2>4, <2>5, <2>6, <2>3 DEF Inv, RunInv, RemembersMine, Runs
  <2>9. ReadBetween(b)'
    BY <1>1, <2>4, <2>5, <2>6 DEF Inv, RunInv, ReadBetween, Runs, treeVars
  <2>10. RunInv(b)'
    BY <2>7, <2>8, <2>9 DEF RunInv
  <2> QED
    BY <1>1, <1>4, <2>2, <2>5, <2>10, PlainStep
<1> QED
  BY <1>3, <1>4 DEF Scan

\* A run that moves on, and does nothing else.
LEMMA MovesOn ==
  ASSUME Inv, NEW b \in Builds, run[b].pc \notin {"record"} \cup Outcomes,
         NEW place \in Places, Goes(b, To(b, place)),
         UNCHANGED <<treeVars, nameVars, worst, proofVars>>
  PROVE  /\ run[b] \in Runs /\ run'[b] = [run[b] EXCEPT !.pc = place]
         /\ RunInv(b)' => Inv'
<1> DEFINE s == To(b, place)
<1>1. run[b] \in Runs /\ Goes(b, s)
  BY DEF Inv, TypeOK
<1>2. s = [run[b] EXCEPT !.pc = place]
  BY DEF To
<1> HIDE DEF s
<1>3. s \in Runs /\ s.round = run[b].round
  BY <1>1, <1>2 DEF Runs
<1>4. run'[b] = s
  BY <1>1, AloneOvertakesNobody DEF Inv
<1> QED
  BY <1>1, <1>2, <1>3, <1>4, PlainStep

LEMMA RemedyKeeps ==
  ASSUME Inv, NEW b \in Builds, Remedy(b) PROVE Inv'
<1> USE DEF At
<1>1. run[b] \in Runs /\ run[b].pc = "remedy" /\ UNCHANGED <<fileRev, fits, edits, nameVars, worst, proofVars>>
  BY DEF Remedy, Remedies, Inv, TypeOK
<1>2. OnTag(b) /\ ~OnTarget(b) /\ Mine(b) = tagged
  BY <1>1 DEF OnTag, OnTarget, Mine
<1>3. CASE /\ ToRemedy(b)
           /\ \E t \in {tree, tree + 1} \cap 0..MaxRev : tree' = t
           /\ Goes(b, [To(b, "build") EXCEPT !.round = run[b].round + 1])
  <2> DEFINE n == run[b].round + 1
             s == [To(b, "build") EXCEPT !.round = n]
  <2>1. n \in 1..MaxRounds
    BY <1>1, <1>3, BoundsAreNumbers DEF ToRemedy, MayRemedy, Runs
  <2>2. Goes(b, s)
    BY <1>3
  <2>3. n = run[b].round + 1
    OBVIOUS
  <2> HIDE DEF n
  <2>4. s = [run[b] EXCEPT !.pc = "build", !.round = n]
    BY <1>1 DEF To, Runs
  <2> HIDE DEF s
  <2>5. s \in Runs
    <3>1. n \in 0..MaxRounds
      BY <2>1
    <3> QED
      BY <1>1, <2>4, <3>1 DEF Runs, Places
  <2>6. run'[b] = s /\ \A c \in Builds \ {b} : OnlyOvertakes(c)
    BY <1>1, <2>2, AloneOvertakesNobody DEF Inv
  <2>7. tree' \in {tree, tree + 1} /\ tree' \in 0..MaxRev /\ tree <= tree' /\ tree \in Nat
    <3>1. tree \in Nat
      BY DEF Inv, TreeIsCounted
    <3>2. tree' \in {tree, tree + 1} /\ tree' \in 0..MaxRev
      BY <1>3
    <3> QED
      BY <3>1, <3>2
  <2>8. TypeOK'
    <3>1. run' \in [Builds -> Runs]
      BY <2>2, <2>5 DEF Inv, TypeOK, Goes
    <3>2. fileRev' \in 0..tree'
      BY <1>1, <2>7 DEF Inv, TypeOK
    <3> QED
      BY <1>1, <2>7, <3>1, <3>2 DEF Inv, TypeOK, nameVars, proofVars
  <2>9. Grows
    BY <1>1, <2>7 DEF Grows
  <2>10. /\ Holds(b) /\ Holds(b)' /\ (Undisturbed(b)' <=> Undisturbed(b))
         /\ Mine(b)' = Mine(b)
    BY <1>1, <1>2, <2>1, <2>4, <2>5, <2>6 DEF Undisturbed, Mine, Holds, OnTag, OnTarget, Runs, nameVars
  <2>11. RunInv(b)'
    <3>1. IsEquipped(b)' /\ IsJudged(b)'
      BY <1>1, <2>1, <2>4, <2>6, <2>10 DEF Inv, RunInv, IsEquipped, IsJudged, Early, Judged, Runs, Outcomes
    <3>2. RemembersMine(b)'
      BY <1>1, <2>4, <2>6, <2>10 DEF Inv, RunInv, RemembersMine, Runs
    <3>3. ReadBetween(b)'
      BY <1>1, <2>1, <2>4, <2>6, <2>7, <2>10 DEF Inv, RunInv, ReadBetween, Runs
    <3> QED
      BY <3>1, <3>2, <3>3 DEF RunInv
  <2>12. \A c \in Builds : RunInv(c)'
    BY <2>6, <2>8, <2>9, <2>11, OthersKeep DEF Inv
  <2>13. TreeIsCounted'
    <3>1. Rounds(b)' = run[b].round + 1
      BY <1>1, <2>3, <2>4, <2>6 DEF Rounds, Outcomes, Runs
    <3>2. \A c \in Builds \ {b} : Rounds(c)' = Rounds(c)
      <4> SUFFICES ASSUME NEW c \in Builds \ {b} PROVE Rounds(c)' = Rounds(c)
        OBVIOUS
      <4>1. run[c] \in Runs /\ OnlyOvertakes(c)
        BY <2>6 DEF Inv, TypeOK
      <4>2. run'[c].pc = run[c].pc /\ run'[c].round = run[c].round
        BY <4>1 DEF OnlyOvertakes, Runs
      <4> QED
        BY <4>2 DEF Rounds
    <3>3. Cardinality(RoundsBegun) + 1 = Cardinality(RoundsBegun)'
      BY <1>1, <2>8, <3>1, <3>2, RoundAdded DEF Inv, TypeOK, Outcomes
    <3>4. Cardinality(RoundsBegun) \in Nat /\ edits \in Nat
      BY RoundsAreBounded, BoundsAreNumbers DEF Inv, TreeIsCounted
    <3>5. tree' <= edits + Cardinality(RoundsBegun)'
      BY <2>7, <3>3, <3>4 DEF Inv, TreeIsCounted
    <3> QED
      BY <1>1, <2>7, <3>5 DEF Inv, TreeIsCounted
  <2> QED
    BY <1>1, <2>6, <2>8, <2>9, <2>12, <2>13, PublicationsKept DEF Inv, Outcomes
<1>4. CASE Ends(b, "error") /\ UNCHANGED tree
  BY <1>1, <1>4, EndsKeeps DEF Outcomes, treeVars
<1>5. CASE Goes(b, To(b, "decide")) /\ UNCHANGED tree
  <2>1. run'[b] = [run[b] EXCEPT !.pc = "decide"] /\ (RunInv(b)' => Inv')
    BY <1>1, <1>5, MovesOn DEF Places, Outcomes, treeVars
  <2>2. Holds(b) /\ Holds(b)' /\ (Undisturbed(b)' <=> Undisturbed(b)) /\ Mine(b)' = Mine(b)
    BY <1>1, <1>2, <2>1 DEF Undisturbed, Mine, Holds, OnTag, OnTarget, Runs, nameVars
  <2>3. IsEquipped(b)' /\ IsJudged(b)'
    BY <1>1, <2>1, <2>2 DEF Inv, RunInv, IsEquipped, IsJudged, Early, Judged, Runs, Outcomes
  <2>4. RemembersMine(b)' /\ ReadBetween(b)'
    BY <1>1, <1>5, <2>1, <2>2 DEF Inv, RunInv, RemembersMine, ReadBetween, Runs
  <2> QED
    BY <2>1, <2>3, <2>4 DEF RunInv
<1> QED
  BY <1>3, <1>4, <1>5 DEF Remedy, Remedies

\* A gate that does not fail lets an image through that deserves it.
LEMMA GateIsSound ==
  ASSUME Inv, NEW b \in Builds, Passes(b), Gated(b)
  PROVE  run[b].scan # None /\ Deserves(request[b].gate, run[b].scan.of)
<1>1. run[b].scan # None /\ ~GateFails(request[b].gate, run[b].scan)
  BY DEF Passes
<1>2. run[b].scan \in [of : Images, kev : BOOLEAN]
  BY <1>1 DEF Inv, TypeOK, Runs
<1>3. /\ worst[run[b].scan.of] \in Worst
      /\ run[b].scan.kev => worst[run[b].scan.of] \notin {"clean", "low"}
  BY <1>1, <1>2, FindingsAreFindings DEF Inv, TypeOK, RunInv, RemembersMine
<1>4. request[b].gate \in {"critical", "kev"}
  BY RequestsAreRequests DEF Gated, Gates
<1> QED
  BY <1>1, <1>3, <1>4 DEF Deserves, GateFails, GateOn, Unanswered, Worst

LEMMA DecideKeeps ==
  ASSUME Inv, NEW b \in Builds, Decide(b) PROVE Inv'
<1> USE DEF At
<1>1. /\ run[b] \in Runs /\ run[b].pc = "decide"
      /\ UNCHANGED <<treeVars, nameVars, worst, proofVars>>
  BY DEF Decide, Inv, TypeOK
<1>2. CASE \E o \in Outcomes : Ends(b, o)
  BY <1>1, <1>2, EndsKeeps DEF Outcomes
<1>3. ASSUME Passes(b),
             NEW place \in {"record", "push", "retag"}, Goes(b, To(b, place)),
             place # "record" => ~InputChanged(b),
             request[b].push = "target" <=> place = "retag"
      PROVE  Inv'
  <2>1. run'[b] = [run[b] EXCEPT !.pc = place] /\ (RunInv(b)' => Inv')
    BY <1>1, <1>3, MovesOn DEF Places, Outcomes
  <2>2. Holds(b) /\ Holds(b)' /\ (Undisturbed(b)' <=> Undisturbed(b)) /\ Mine(b)' = Mine(b)
    BY <1>1, <1>3, <2>1 DEF Undisturbed, Mine, Holds, OnTag, OnTarget, Runs, nameVars
  <2>3. IsEquipped(b)'
    BY <1>1, <2>1, <2>2 DEF Inv, RunInv, IsEquipped, Early, Runs, Outcomes
  <2>4. RemembersMine(b)' /\ ReadBetween(b)'
    BY <1>1, <2>1, <2>2 DEF Inv, RunInv, RemembersMine, ReadBetween, Runs, treeVars
  <2>5. IsJudged(b)'
    <3>1. Gated(b) => run[b].scan # None /\ Deserves(request[b].gate, run[b].scan.of)
      BY <1>3, GateIsSound
    <3> QED
      BY <1>1, <1>3, <2>1, <3>1 DEF IsJudged, InputChanged, Gated, Judged, Deserves, Runs
  <2> QED
    BY <2>1, <2>3, <2>4, <2>5 DEF RunInv
<1>4. CASE /\ Passes(b) /\ ~Violates(b)
           /\ CASE request[b].push = "no" -> Goes(b, To(b, "record"))
                [] InputChanged(b)        -> Ends(b, "policy")
                [] OTHER -> Goes(b, To(b, IF request[b].push = "tag" THEN "push" ELSE "retag"))
  <2>1. request[b].push \in {"no", "tag", "target"}
    BY RequestsAreRequests DEF Pushes
  <2>2. \/ request[b].push = "no" /\ Goes(b, To(b, "record"))
        \/ Ends(b, "policy")
        \/ request[b].push = "tag" /\ ~InputChanged(b) /\ Goes(b, To(b, "push"))
        \/ request[b].push = "target" /\ ~InputChanged(b) /\ Goes(b, To(b, "retag"))
    BY <1>4, <2>1
  <2> QED
    BY <1>2, <1>3, <1>4, <2>2 DEF Outcomes
<1> QED
  BY <1>2, <1>4 DEF Decide, Outcomes

\* A step that gives b's image a name overtakes those that count on it.
LEMMA NameImageKeeps ==
  ASSUME Inv, NEW b \in Builds, NameImage(b) PROVE Inv'
<1> USE DEF At
<1> DEFINE s == [To(b, "inspect") EXCEPT !.reading = None, !.overtaken = FALSE]
<1>1. /\ run[b] \in Runs /\ run[b].pc = "name" /\ tagged' = run[b].reading
      /\ UNCHANGED <<treeVars, target, worst, proofVars>>
      /\ run' = [c \in Builds |-> IF c = b THEN s ELSE [run[c] EXCEPT !.overtaken = @ \/ OnTag(c)]]
  <2>1. Overtakes(b, s, {c \in Builds : OnTag(c)})
    BY DEF NameImage
  <2>2. run' = [c \in Builds |-> IF c = b THEN s ELSE [run[c] EXCEPT !.overtaken = @ \/ OnTag(c)]]
    BY <2>1, Zenon DEF Overtakes
  <2> QED
    BY <2>2 DEF NameImage, Inv, TypeOK
<1>2. s = [run[b] EXCEPT !.pc = "inspect", !.reading = None, !.overtaken = FALSE]
  BY <1>1 DEF To, Runs
<1> HIDE DEF s
<1>3. s \in Runs
  BY <1>1, <1>2 DEF Runs, Places
<1>4. tagged' \in Images /\ tagged' # None
  BY <1>1 DEF Inv, RunInv, IsEquipped, Runs
<1>5. ASSUME NEW c \in Builds \ {b} PROVE run'[c] \in Runs /\ OnlyOvertakes(c)
  <2>1. run[c] \in Runs /\ run[c].overtaken \in BOOLEAN
    BY DEF Inv, TypeOK, Runs
  <2>2. run'[c] = [run[c] EXCEPT !.overtaken = @ \/ OnTag(c)]
    BY <1>1
  <2>3. (run[c].overtaken \/ OnTag(c)) \in BOOLEAN
    OBVIOUS
  <2>4. run'[c] \in Runs /\ run'[c].overtaken = (run[c].overtaken \/ OnTag(c))
    BY <2>1, <2>2, <2>3 DEF Runs
  <2> QED
    BY <1>1, <1>4, <2>1, <2>2, <2>4 DEF OnlyOvertakes, Runs
<1>6. TypeOK'
  <2>1. run' \in [Builds -> Runs]
    BY <1>1, <1>3, <1>5
  <2> QED
    BY <1>1, <1>4, <2>1 DEF Inv, TypeOK, treeVars, proofVars
<1>7. run'[b] = s
  BY <1>1
<1>8. Holds(b)' /\ Mine(b)' = run[b].reading
  BY <1>1, <1>2, <1>7 DEF Mine, Holds, OnTag, OnTarget, Runs
<1>9. RunInv(b)'
  <2>1. IsEquipped(b)' /\ IsJudged(b)'
    BY <1>1, <1>2, <1>4, <1>7, <1>8 DEF Inv, RunInv, IsEquipped, IsJudged, Early, Judged, Runs, Outcomes
  <2>2. RemembersMine(b)'
    BY <1>1, <1>2, <1>7 DEF Inv, RunInv, RemembersMine, Runs
  <2>3. ReadBetween(b)'
    BY <1>1, <1>2, <1>7, <1>8 DEF Inv, RunInv, IsEquipped, ReadBetween, Runs, treeVars
  <2> QED
    BY <2>1, <2>2, <2>3 DEF RunInv
<1>10. Grows
  BY <1>1 DEF Grows, treeVars, Inv, TreeIsCounted
<1>11. run'[b].round = run[b].round
  BY <1>1, <1>2, <1>7 DEF Runs
<1> QED
  BY <1>1, <1>5, <1>6, <1>9, <1>10, <1>11, StepOfOne DEF Outcomes

LEMMA RetagKeeps ==
  ASSUME Inv, NEW b \in Builds, Retag(b) PROVE Inv'
<1> USE DEF At
<1>1. /\ run[b] \in Runs /\ run[b].pc = "retag"
      /\ UNCHANGED <<treeVars, tagged, worst, proofVars>>
  BY DEF Retag, Inv, TypeOK
<1>2. CASE Ends(b, "error") /\ UNCHANGED target
  BY <1>1, <1>2, EndsKeeps DEF Outcomes, nameVars
<1>3. CASE /\ target' = tagged
           /\ Overtakes(b, To(b, "push"), {c \in Builds : OnTarget(c)})
  <2> DEFINE s == To(b, "push")
  <2>1. s = [run[b] EXCEPT !.pc = "push"]
    BY DEF To
  <2>2. run' = [c \in Builds |-> IF c = b THEN s ELSE [run[c] EXCEPT !.overtaken = @ \/ OnTarget(c)]]
    BY <1>3, Zenon DEF Overtakes
  <2> HIDE DEF s
  <2>3. s \in Runs
    BY <1>1, <2>1 DEF Runs, Places
  <2>4. /\ OnTag(b) /\ ~OnTarget(b) /\ Mine(b) = tagged
        /\ target' \in Images /\ target' # None
    BY <1>1, <1>3 DEF OnTag, OnTarget, Mine, Holds, Inv, TypeOK, RunInv, IsEquipped
  <2>5. ASSUME NEW c \in Builds \ {b} PROVE run'[c] \in Runs /\ OnlyOvertakes(c)
    <3>1. run[c] \in Runs /\ run[c].overtaken \in BOOLEAN
      BY DEF Inv, TypeOK, Runs
    <3>2. run'[c] = [run[c] EXCEPT !.overtaken = @ \/ OnTarget(c)]
      BY <2>2
    <3>3. (run[c].overtaken \/ OnTarget(c)) \in BOOLEAN
      OBVIOUS
    <3>4. run'[c] \in Runs /\ run'[c].overtaken = (run[c].overtaken \/ OnTarget(c))
      BY <3>1, <3>2, <3>3 DEF Runs
    <3> QED
      BY <1>1, <2>4, <3>1, <3>2, <3>4 DEF OnlyOvertakes, Runs
  <2>6. TypeOK'
    <3>1. run' \in [Builds -> Runs]
      BY <2>2, <2>3, <2>5
    <3> QED
      BY <1>1, <2>4, <3>1 DEF Inv, TypeOK, treeVars, proofVars
  <2>7. run'[b] = s
    BY <2>2
  <2>8. Holds(b) /\ Holds(b)' /\ Mine(b)' = Mine(b) /\ (Undisturbed(b)' <=> Undisturbed(b))
    BY <1>1, <1>3, <2>1, <2>4, <2>7 DEF Mine, Holds, OnTag, OnTarget, Undisturbed, Runs
  <2>9. RunInv(b)'
    <3>1. IsEquipped(b)'
      BY <1>1, <2>1, <2>7, <2>8 DEF Inv, RunInv, IsEquipped, Early, Runs, Outcomes
    <3>2. IsJudged(b)'
      <4>1. /\ run[b].before = run[b].after
            /\ request[b].gate # "none"
                 => run[b].scan # None /\ Deserves(request[b].gate, run[b].scan.of)
        BY <1>1 DEF Inv, RunInv, IsJudged, Judged
      <4>2. /\ run'[b].before = run[b].before /\ run'[b].after = run[b].after
            /\ run'[b].scan = run[b].scan
        BY <1>1, <2>1, <2>7 DEF Runs
      <4> QED
        BY <1>1, <4>1, <4>2 DEF IsJudged, Deserves
    <3>3. RemembersMine(b)' /\ ReadBetween(b)'
      BY <1>1, <2>1, <2>7, <2>8 DEF Inv, RunInv, RemembersMine, ReadBetween, Runs, treeVars
    <3> QED
      BY <3>1, <3>2, <3>3 DEF RunInv
  <2>10. Grows
    BY <1>1 DEF Grows, treeVars, Inv, TreeIsCounted
  <2>11. run'[b].round = run[b].round
    BY <1>1, <2>1, <2>7 DEF Runs
  <2> QED
    BY <1>1, <2>5, <2>6, <2>9, <2>10, <2>11, StepOfOne DEF Outcomes
<1> QED
  BY <1>2, <1>3 DEF Retag

-----------------------------------------------------------------------------
(***************************************************************************)
(* Publishing: what b pushes is the image that it counts on.               *)
(***************************************************************************)
LEMMA PushKeeps ==
  ASSUME Inv, NEW b \in Builds, Push(b) PROVE Inv'
<1> USE DEF At
<1> DEFINE pub == [by |-> b, image |-> Named(b), input |-> run[b].before,
                   remedied |-> run[b].round > 0, undisturbed |-> ~run[b].overtaken,
                   measured |-> ~run[b].blind]
<1>1. /\ run[b] \in Runs /\ run[b].pc = "push"
      /\ UNCHANGED <<treeVars, nameVars, worst, records>>
  BY DEF Push, Inv, TypeOK
<1>2. /\ pushed' \in {pushed, pushed \cup {pub}}
      /\ \/ Goes(b, To(b, "record"))
         \/ Ends(b, "error")
  BY DEF Push
<1>3. /\ pub.by = b /\ pub.image = Named(b) /\ pub.input = run[b].before
      /\ pub.undisturbed = ~run[b].overtaken /\ pub.measured = ~run[b].blind
      /\ ~pub.remedied => run[b].round = 0
  <2>1. ~(run[b].round > 0) => run[b].round = 0
    BY <1>1, BoundsAreNumbers DEF Runs
  <2>2. pub.remedied <=> run[b].round > 0
    OBVIOUS
  <2> QED
    BY <2>1, <2>2
<1> HIDE DEF pub
<1>4. Holds(b) /\ Mine(b) = Named(b) /\ Named(b) \in Images
  BY <1>1 DEF OnTag, OnTarget, Mine, Named, Holds, Inv, TypeOK, RunInv, IsEquipped
<1>5. \A p \in pushed : p.by \in Builds \ {b}
  BY <1>1 DEF Inv, PublishesOnce, Outcomes
<1>6. \A r \in records : r.by \in Builds \ {b}
  BY <1>1 DEF Inv, RecordsLast, Outcomes
<1>7. /\ \A c \in Builds \ {b} : run'[c] = run[c]
      /\ run' \in [Builds -> Runs] /\ RunInv(b)'
      /\ \/ run'[b] = [run[b] EXCEPT !.pc = "record"]
         \/ run'[b].pc \in Outcomes
  <2>1. CASE Goes(b, To(b, "record"))
    <3>1. run'[b] = [run[b] EXCEPT !.pc = "record"] /\ \A c \in Builds \ {b} : run'[c] = run[c]
      BY <2>1 DEF Goes, To, Inv, TypeOK
    <3>2. run'[b] \in Runs
      BY <1>1, <3>1 DEF Runs, Places
    <3>3. run' \in [Builds -> Runs]
      BY <2>1, <3>1, <3>2 DEF Goes, Inv, TypeOK
    <3>4. Holds(b)' /\ Mine(b)' = Mine(b) /\ (Undisturbed(b)' <=> Undisturbed(b))
      BY <1>1, <1>4, <3>1 DEF Mine, Holds, OnTag, OnTarget, Undisturbed, Runs, nameVars
    <3>5. IsEquipped(b)' /\ IsJudged(b)'
      BY <1>1, <1>4, <3>1, <3>4 DEF Inv, RunInv, IsEquipped, IsJudged, Early, Judged, Runs, Outcomes
    <3>6. RemembersMine(b)' /\ ReadBetween(b)'
      BY <1>1, <1>4, <3>1, <3>4 DEF Inv, RunInv, RemembersMine, ReadBetween, Runs, treeVars
    <3> QED
      BY <3>1, <3>3, <3>5, <3>6 DEF RunInv
  <2>2. CASE Ends(b, "error")
    <3>1. Local("error") \in Runs /\ run'[b] = Local("error") /\ RunInv(b)'
      BY <2>2, EndedIsFine DEF Inv, Outcomes
    <3>2. (\A c \in Builds \ {b} : run'[c] = run[c]) /\ run' \in [Builds -> Runs]
      BY <2>2, <3>1 DEF Ends, Goes, Inv, TypeOK
    <3> QED
      BY <3>1, <3>2 DEF Local, Outcomes
  <2> QED
    BY <1>2, <2>1, <2>2
<1>8. TypeOK'
  BY <1>1, <1>2, <1>3, <1>4, <1>7 DEF Inv, TypeOK, treeVars, nameVars
<1>9. TreeIsCounted' /\ \A c \in Builds : RunInv(c)'
  <2>1. \A c \in Builds \ {b} : OnlyOvertakes(c)
    BY <1>1, <1>7 DEF OnlyOvertakes, Inv, TypeOK, Runs, nameVars
  <2>2. run'[b].pc \in Outcomes \/ run'[b].round = run[b].round
    BY <1>1, <1>7 DEF Runs
  <2>3. Grows
    BY <1>1 DEF Grows, treeVars, Inv, TreeIsCounted
  <2> QED
    BY <1>1, <1>7, <1>8, <2>1, <2>2, <2>3, RunsKept DEF Outcomes
<1>10. PublishesOnce'
  <2> SUFFICES ASSUME NEW p \in pushed'
               PROVE  /\ p.by \in Builds /\ run'[p.by].pc \in {"record"} \cup Outcomes
                      /\ run'[p.by].pc = "record" /\ ~run'[p.by].overtaken =>
                           p.image = Named(p.by)' /\ run'[p.by].image \in {None, p.image}
    BY DEF PublishesOnce
  <2>1. CASE p \in pushed
    BY <1>1, <1>5, <1>7, <2>1 DEF Inv, PublishesOnce, Named, nameVars
  <2>2. CASE p = pub
    <3>1. run'[b].pc \in {"record"} \cup Outcomes
      BY <1>1, <1>7 DEF Runs
    <3>2. Named(b)' = Named(b)
      BY <1>1 DEF Named, nameVars
    <3>3. ~run[b].overtaken => run[b].image \in {None, Named(b)}
      BY <1>1, <1>4 DEF Inv, RunInv, RemembersMine, Undisturbed
    <3> QED
      BY <1>1, <1>3, <1>7, <2>2, <3>1, <3>2, <3>3 DEF Runs, Outcomes
  <2> QED
    BY <1>2, <2>1, <2>2
<1>11. RecordsLast'
  BY <1>1, <1>6, <1>7 DEF Inv, RecordsLast
<1>12. RecordIsOfPublished'
  BY <1>1, <1>2, <1>3, <1>6 DEF Inv, RecordIsOfPublished
<1>13. PublishedFromInput'
  <2>1. ASSUME ~run[b].overtaken, run[b].round = 0, run[b].before.context # None
        PROVE  Named(b).src = run[b].before.context
    <3>1. Undisturbed(b) /\ run[b].before = run[b].after /\ run[b].before # None
      BY <1>1, <1>4, <2>1 DEF Undisturbed, Inv, RunInv, IsJudged, Judged, IsEquipped, Early, Outcomes
    <3>2. fits /\ run[b].before.context \in 0..tree
      BY <2>1, <3>1 DEF Inv, RunInv, ReadBetween
    <3>3. Named(b).src \in run[b].before.context..tree /\ Named(b).src <= run[b].before.context
      BY <1>4, <2>1, <3>1, <3>2 DEF Inv, RunInv, ReadBetween
    <3>4. tree \in Nat
      BY DEF Inv, TreeIsCounted
    <3> QED
      BY <3>2, <3>3, <3>4
  <2> QED
    BY <1>2, <1>3, <2>1 DEF Inv, PublishedFromInput
<1>14. PublishedPassedGate'
  <2>1. ASSUME ~run[b].overtaken, ~run[b].blind
        PROVE  Deserves(request[b].gate, Named(b))
    <3>1. CASE request[b].gate = "none"
      BY <3>1 DEF Deserves
    <3>2. CASE request[b].gate # "none"
      BY <1>1, <1>4, <2>1, <3>2 DEF Inv, RunInv, IsJudged, Judged, RemembersMine, Undisturbed
    <3> QED
      BY <3>1, <3>2
  <2>2. \A p \in pushed' : p.undisturbed /\ p.measured => Deserves(request[p.by].gate, p.image)
    BY <1>2, <1>3, <2>1 DEF Inv, PublishedPassedGate
  <2> QED
    BY <1>1, <2>2 DEF PublishedPassedGate, Deserves
<1> QED
  BY <1>8, <1>9, <1>10, <1>11, <1>12, <1>13, <1>14 DEF Inv

LEMMA RecordKeeps ==
  ASSUME Inv, NEW b \in Builds, Record(b) PROVE Inv'
<1> USE DEF At
<1> DEFINE doc == [by |-> b, source |-> run[b].before, image |-> run[b].image, repo |-> Named(b),
                   status |-> StatusOf(b), undisturbed |-> ~run[b].overtaken]
<1>1. /\ run[b] \in Runs /\ run[b].pc = "record" /\ records' = records \cup {doc}
      /\ UNCHANGED <<treeVars, nameVars, worst, pushed>>
  BY DEF Record, Inv, TypeOK
<1>2. /\ doc.by = b /\ doc.source = run[b].before /\ doc.image = run[b].image
      /\ doc.repo = Named(b) /\ doc.undisturbed = ~run[b].overtaken
  OBVIOUS
<1> HIDE DEF doc
<1>3. /\ run'[b].pc \in Outcomes /\ RunInv(b)' /\ run' \in [Builds -> Runs]
      /\ \A c \in Builds \ {b} : run'[c] = run[c]
  <2>1. PICK o \in {"ok", "error"} : Ends(b, o)
    BY DEF Record
  <2>2. o \in Outcomes /\ Local(o) \in Runs /\ run'[b] = Local(o) /\ RunInv(b)'
    BY <2>1, EndedIsFine DEF Inv, Outcomes
  <2>3. (\A c \in Builds \ {b} : run'[c] = run[c]) /\ run' \in [Builds -> Runs]
    BY <2>1, <2>2 DEF Ends, Goes, Inv, TypeOK
  <2> QED
    BY <2>2, <2>3 DEF Local
<1>4. run[b].before \in Digest /\ run[b].image \in Images \cup {None}
  BY <1>1 DEF Inv, RunInv, IsEquipped, Early, Outcomes, Runs
<1>5. TypeOK'
  BY <1>1, <1>2, <1>3, <1>4 DEF Inv, TypeOK, treeVars, nameVars
<1>6. TreeIsCounted' /\ \A c \in Builds : RunInv(c)'
  <2>1. \A c \in Builds \ {b} : OnlyOvertakes(c)
    BY <1>1, <1>3 DEF OnlyOvertakes, Inv, TypeOK, Runs, nameVars
  <2>2. Grows
    BY <1>1 DEF Grows, treeVars, Inv, TreeIsCounted
  <2> QED
    BY <1>1, <1>3, <1>5, <2>1, <2>2, RunsKept DEF Outcomes
<1>7. PublishesOnce'
  BY <1>1, <1>3 DEF Inv, PublishesOnce, Named, nameVars, Outcomes
<1>8. RecordsLast'
  BY <1>1, <1>2, <1>3 DEF Inv, RecordsLast
<1>9. RecordIsOfPublished'
  <2> SUFFICES ASSUME NEW p \in pushed, NEW r \in records', p.by = r.by, r.undisturbed
               PROVE  r.image \in {None, p.image} /\ r.repo = p.image
    BY <1>1 DEF RecordIsOfPublished
  <2>1. CASE r \in records
    BY <2>1 DEF Inv, RecordIsOfPublished
  <2>2. CASE r = doc
    BY <1>1, <1>2, <2>2 DEF Inv, PublishesOnce
  <2> QED
    BY <1>1, <2>1, <2>2
<1>10. PublishedFromInput' /\ PublishedPassedGate'
  BY <1>1 DEF Inv, PublishedFromInput, PublishedPassedGate, Deserves
<1> QED
  BY <1>5, <1>6, <1>7, <1>8, <1>9, <1>10 DEF Inv

-----------------------------------------------------------------------------
LEMMA InitInv == Init => Inv
<1> SUFFICES ASSUME Init PROVE Inv
  OBVIOUS
<1> USE DEF Init
<1>1. Local("validate") \in Runs
  BY BoundsAreNumbers DEF Local, Runs, Places
<1>2. \A b \in Builds : run[b] = Local("validate")
  OBVIOUS
<1>3. TypeOK
  BY <1>1, SpacesAreFinite, BoundsAreNumbers DEF TypeOK
<1>4. TreeIsCounted
  <2>1. \A b \in Builds : Rounds(b) = 0
    BY <1>2 DEF Rounds, Local, Outcomes
  <2>2. RoundsBegun = {}
    BY <2>1, BoundsAreNumbers DEF RoundsBegun
  <2> QED
    BY <2>2, FS_EmptySet, BoundsAreNumbers DEF TreeIsCounted
<1>5. ASSUME NEW b \in Builds PROVE RunInv(b)
  <2>1. ~Holds(b)
    BY <1>2 DEF Holds, OnTag, OnTarget, At, Local
  <2>2. IsEquipped(b) /\ IsJudged(b)
    BY <1>2, <2>1 DEF IsEquipped, IsJudged, At, Local, Early, Judged, Outcomes
  <2>3. RemembersMine(b) /\ ReadBetween(b)
    BY <1>2, <2>1 DEF RemembersMine, ReadBetween, Undisturbed, Local
  <2> QED
    BY <2>2, <2>3 DEF RunInv
<1>6. PublishesOnce /\ RecordsLast /\ RecordIsOfPublished /\ PublishedFromInput /\ PublishedPassedGate
  BY DEF PublishesOnce, RecordsLast, RecordIsOfPublished, PublishedFromInput, PublishedPassedGate
<1> QED
  BY <1>3, <1>4, <1>5, <1>6 DEF Inv

LEMMA StutterKeeps == ASSUME Inv, UNCHANGED vars PROVE Inv'
<1> USE DEF Inv, vars, treeVars, nameVars, proofVars
<1>1. TypeOK'
  BY DEF TypeOK
<1>2. TreeIsCounted'
  BY DEF TreeIsCounted, RoundsBegun, Rounds
<1>3. \A b \in Builds : RunInv(b)'
  BY <1>1, OthersKeep DEF OnlyOvertakes, Grows, TypeOK, Runs, TreeIsCounted
<1>4. PublishesOnce' /\ RecordsLast'
  BY DEF PublishesOnce, RecordsLast, At, Named
<1>5. RecordIsOfPublished' /\ PublishedFromInput' /\ PublishedPassedGate'
  BY DEF RecordIsOfPublished, PublishedFromInput, PublishedPassedGate, Deserves
<1> QED
  BY <1>1, <1>2, <1>3, <1>4, <1>5

LEMMA StepKeeps == Inv /\ [Next]_vars => Inv'
<1> SUFFICES ASSUME Inv, [Next]_vars PROVE Inv'
  OBVIOUS
<1>1. CASE Edit
  BY <1>1, EditKeeps
<1>2. ASSUME NEW b \in Builds, Step(b) PROVE Inv'
  BY <1>2, ValidateKeeps, DigestBeforeKeeps, ReadTreeKeeps, NameImageKeeps, InspectKeeps,
     DigestAfterKeeps, ScanKeeps, RemedyKeeps, DecideKeeps, RetagKeeps, PushKeeps, RecordKeeps
     DEF Step
<1>3. CASE UNCHANGED vars
  BY <1>3, StutterKeeps
<1> QED
  BY <1>1, <1>2, <1>3 DEF Next

LEMMA Invariance == Spec => []Inv
<1>1. Init => Inv
  BY InitInv
<1>2. Inv /\ [Next]_vars => Inv'
  BY StepKeeps
<1> QED
  BY <1>1, <1>2, PTL DEF Spec

\* Every variable has the shape the code gives it; the tree is never ahead of
\* the edits and the rounds of remediation there were.
THEOREM TypeCorrect == Spec => []TypeOK
<1>1. Inv => TypeOK
  BY DEF Inv
<1> QED
  BY <1>1, Invariance, PTL

\* build_image.py compares the digests of the input before and after docker
\* read it: an image that was published without remediation, and that nobody
\* took the name of, was built from exactly the input that was digested.
THEOREM PublishedBuiltFromInput == Spec => []PublishedFromInput
<1>1. Inv => PublishedFromInput
  BY DEF Inv
<1> QED
  BY <1>1, Invariance, PTL

\* The provenance is closed after the push, with what the run remembers: it is
\* of the image that the same run published.
THEOREM RecordsWhatWasPublished == Spec => []RecordIsOfPublished
<1>1. Inv => RecordIsOfPublished
  BY DEF Inv
<1> QED
  BY <1>1, Invariance, PTL

\* The gate is judged on a scan that the run remembers, some commands before
\* the push: an image that was published under a gate, without another build
\* in between or a rebuild that was not scanned, is one the gate lets through.
THEOREM PublishedDeservedIt == Spec => []PublishedPassedGate
<1>1. Inv => PublishedPassedGate
  BY DEF Inv
<1> QED
  BY <1>1, Invariance, PTL
=============================================================================
