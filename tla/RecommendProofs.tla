--------------------------- MODULE RecommendProofs ---------------------------
(***************************************************************************)
(* Proofs about Recommend, for any tags, manifests, findings and options.  *)
(*                                                                         *)
(* The accounting of the tags is a matter of where each one is, step by    *)
(* step; it is lost only when a stored evaluation of another tag was       *)
(* served, so that is what it is proved relative to.                       *)
(***************************************************************************)
EXTENDS Recommend, FiniteSetTheorems, TLAPS

Places == {"search", "join", "stop", "stop and raise", "scan", "stage", "verify", "select", "check",
           "close", "closed"}
Steps == {"idle", "look", "measure", "enrich", "score", "done"}
Answers == {"true", "false", "unknown"}

Evaluations ==
  [of : Tags, origin : {"cache", "scan"}, intel : BOOLEAN, eol : Answers, tag : Answers,
   inspected : BOOLEAN, second : BOOLEAN]
Kept == [of : Tags, intel : BOOLEAN, eol : Answers]

Typed ==
  /\ opts \in Options /\ pc \in Places /\ db \in {"running", "ended"} /\ late \in BOOLEAN
  /\ work \in [Tags -> Steps]
  /\ analyses \in [Tags -> Evaluations \cup {None}]
  /\ lists \in [unverified : SUBSET Tags, excluded : SUBSET Tags, deferred : SUBSET Tags,
                timedOut : SUBSET Tags]
  /\ scans \subseteq Digests /\ rows \in [Digests -> Kept \cup {None}]
  /\ finalists \subseteq Tags

(***************************************************************************)
(* What is kept under a manifest is of a tag of that manifest, and what is *)
(* analysed as a tag is of its manifest, though perhaps of another tag.    *)
(***************************************************************************)
OfItsManifest ==
  /\ \A d \in Digests : rows[d] # None => DigestOf[rows[d].of] = d
  /\ \A t \in Measured : DigestOf[analyses[t].of] = DigestOf[t]

(***************************************************************************)
(* How far the run is, and what that says of its parts.                    *)
(***************************************************************************)
Searching == {"search", "join", "stop", "stop and raise"}
Finishing == {"verify", "select", "check"}

NothingYet ==
  pc \in Searching =>
    \A t \in Tags : /\ work[t] = "idle" /\ analyses[t] = None
                    /\ \A h \in DOMAIN lists : t \notin lists[h]
RefreshIsOver == pc \notin Searching => db = "ended"
WorkIsOver == pc \in Finishing \/ result # None => \A t \in Tags : work[t] \in {"idle", "done"}
WorkHasAnalysis == \A t \in Tags : work[t] \in {"enrich", "score"} => analyses[t] # None
StopsForDiscovery == pc = "stop" => "discovery" \in pending
ResultIsLast == result # None => pc \in {"close", "closed"}

(***************************************************************************)
(* Where a tag is counted: nowhere while it is looked for and measured.    *)
(***************************************************************************)
OnlyIn(t, h) ==
  /\ (analyses[t] # None) <=> (h = "measured")
  /\ (t \in lists.unverified) <=> (h = "unverified")
  /\ (t \in lists.excluded) <=> (h = "excluded")
  /\ (t \in lists.deferred) <=> (h = "deferred")
  /\ (t \in lists.timedOut) <=> (h = "timedOut")

Denied(t) ==
  /\ analyses[t] # None /\ analyses[t].tag = "false"
  /\ t \in lists.unverified
  /\ t \notin lists.excluded /\ t \notin lists.deferred /\ t \notin lists.timedOut

Placed(t) ==
  /\ work[t] = "idle" => \E h \in {"excluded", "deferred"} : OnlyIn(t, h)
  /\ work[t] \in {"look", "measure"} => OnlyIn(t, "nowhere")
  /\ work[t] \in {"enrich", "score"} => OnlyIn(t, "measured")
  /\ work[t] = "done" =>
       Denied(t) \/ \E h \in {"measured", "unverified", "timedOut", "excluded"} : OnlyIn(t, h)

PastDiscovery == pc \in Finishing \/ (result # None /\ "discovery" \notin result.pending)

EachIsPlaced ==
  pc \in {"scan", "stage"} \/ (PastDiscovery /\ EachTagItsOwn) => \A t \in Tags : Placed(t)

(***************************************************************************)
(* What is known of the candidates, and of the images that are shown.      *)
(***************************************************************************)
TagsAreChecked ==
  /\ pc \in {"scan", "stage"} => \A t \in Measured : analyses[t].tag = "unknown"
  /\ pc = "verify" => \A t \in finalists \ checks : analyses[t].tag # "false"
  /\ pc \in {"select", "check"} => \A t \in finalists : analyses[t].tag # "false"
  /\ result # None => \A t \in result.selected : analyses[t].tag # "false"

FinalistsAreBest ==
  pc \in Finishing =>
    finalists \subseteq IF Baseline(Measured) # {} THEN Baseline(Measured) ELSE Measured

InspectedUnlessCut ==
  pc = "check" /\ "inspection" \in opts.checks \ checks /\ pending = {}
    => \A t \in finalists : analyses[t].inspected

ResultIsOfTheRun ==
  result # None => SaysHowMuch /\ MeetsTheBaseline /\ result.selected \subseteq Measured

Inv ==
  /\ Typed /\ OfItsManifest
  /\ NothingYet /\ RefreshIsOver /\ WorkIsOver /\ WorkHasAnalysis /\ ResultIsLast
  /\ StopsForDiscovery /\ EachIsPlaced
  /\ TagsAreChecked /\ FinalistsAreBest /\ InspectedUnlessCut /\ ResultIsOfTheRun
  /\ NothingUnansweredStored

-----------------------------------------------------------------------------
LEMMA NoneIsNoRecord == None \notin Evaluations /\ None \notin Kept
<1>1. ASSUME NEW r \in Evaluations \cup Kept PROVE "of" \in DOMAIN r
  BY DEF Evaluations, Kept
<1>2. "of" \notin DOMAIN None
  BY DEF None
<1> QED
  BY <1>1, <1>2

\* A step that only moves the run on, or ends it, the clock and the refresh
\* included.
LEMMA MovesKeep ==
  ASSUME Inv,
         UNCHANGED <<opts, work, analyses, lists, rows, scans, finalists, checks, result>>,
         pc' \in Places, db' \in {"running", "ended"}, late' \in BOOLEAN,
         pc' # pc => \/ pc \in Searching /\ pc' \in Searching
                    \/ pc' \in {"close", "closed"},
         pc' \notin Searching => db' = "ended",
         pending \subseteq pending', pc' = "stop" => pc = "stop" \/ "discovery" \in pending'
  PROVE  Inv'
<1> USE DEF Inv
<1>1. Typed' /\ OfItsManifest' /\ NothingUnansweredStored'
  BY DEF Typed, OfItsManifest, NothingUnansweredStored, Measured
<1>2. result # None => pc' \in {"close", "closed"}
  BY DEF ResultIsLast, Searching
<1>3. NothingYet' /\ RefreshIsOver' /\ ResultIsLast' /\ StopsForDiscovery'
  BY <1>2 DEF NothingYet, RefreshIsOver, ResultIsLast,
              StopsForDiscovery, Searching
<1>4. WorkIsOver' /\ WorkHasAnalysis'
  BY DEF WorkIsOver, WorkHasAnalysis, Searching, Finishing
<1>5. EachIsPlaced'
  <2>1. pc' \in {"scan", "stage"} \cup Finishing => pc' = pc
    BY DEF Searching, Finishing
  <2>2. PastDiscovery' => PastDiscovery
    BY <2>1 DEF PastDiscovery
  <2>3. EachTagItsOwn' <=> EachTagItsOwn
    BY DEF EachTagItsOwn, Measured
  <2>4. \A t \in Tags : Placed(t) => Placed(t)'
    BY DEF Placed, Denied, OnlyIn
  <2> QED
    BY <2>1, <2>2, <2>3, <2>4 DEF EachIsPlaced
<1>6. TagsAreChecked' /\ FinalistsAreBest'
  BY DEF TagsAreChecked, FinalistsAreBest, Measured, Baseline, Searching, Finishing
<1>7. InspectedUnlessCut'
  BY DEF InspectedUnlessCut, Searching
<1>8. ResultIsOfTheRun'
  BY DEF ResultIsOfTheRun, SaysHowMuch, MeetsTheBaseline, Measured
<1> QED
  BY <1>1, <1>3, <1>4, <1>5, <1>6, <1>7, <1>8

LEMMA MoveStepsKeep ==
  ASSUME Inv, Expire \/ DbEnds \/ Search \/ SearchEndsBadly \/ Interrupted \/ Raised \/ Close
  PROVE  Inv'
<1> USE DEF Inv, Places, Searching
<1>0. pc \in Places /\ db \in {"running", "ended"} /\ late \in BOOLEAN
  BY DEF Typed
<1>1. CASE Expire
  BY <1>0, <1>1, MovesKeep DEF Expire, RefreshIsOver
<1>2. CASE DbEnds
  <2>1. pending \subseteq pending'
    BY <1>2 DEF DbEnds, CutBy
  <2> QED
    BY <1>0, <1>2, <2>1, MovesKeep DEF DbEnds
<1>3. CASE Search
  BY <1>0, <1>3, MovesKeep DEF Search
<1>4. CASE SearchEndsBadly
  <2>1. pending \subseteq pending' /\ (pc' = "stop" => "discovery" \in pending')
    BY <1>4 DEF SearchEndsBadly, CutBy
  <2> QED
    BY <1>0, <1>4, <2>1, MovesKeep DEF SearchEndsBadly
<1>5. CASE Interrupted
  BY <1>0, <1>5, MovesKeep DEF Interrupted
<1>6. CASE Raised
  BY <1>0, <1>6, MovesKeep DEF Raised, RefreshIsOver
<1>7. CASE Close
  BY <1>0, <1>7, MovesKeep DEF Close, RefreshIsOver
<1> QED
  BY <1>1, <1>2, <1>3, <1>4, <1>5, <1>6, <1>7

-----------------------------------------------------------------------------
(***************************************************************************)
(* analyze_tag: what one tag's steps change of the others is only a row.   *)
(***************************************************************************)
TagStep(t, a, s) ==
  /\ analyses' = [analyses EXCEPT ![t] = a]
  /\ work' = [work EXCEPT ![t] = s]
  /\ \A u \in Tags \ {t} : \A h \in {"unverified", "excluded", "deferred", "timedOut"} :
       u \in lists'[h] <=> u \in lists[h]
  /\ UNCHANGED <<opts, pc, db, late, finalists, checks, result>>

LEMMA TagStepKeeps ==
  ASSUME Inv, NEW t \in Tags, NEW a \in Evaluations \cup {None}, NEW s \in Steps,
         TagStep(t, a, s),
         result = None, pc \in {"scan", "stage", "close", "closed"},
         s \in {"enrich", "score"} => a # None,
         a # None => DigestOf[a.of] = DigestOf[t]
                     /\ (pc \in {"scan", "stage"} => a.tag = "unknown"),
         lists' \in [unverified : SUBSET Tags, excluded : SUBSET Tags, deferred : SUBSET Tags,
                    timedOut : SUBSET Tags],
         scans' \subseteq Digests, rows' \in [Digests -> Kept \cup {None}],
         \A d \in Digests : rows'[d] # rows[d] =>
           DigestOf[rows'[d].of] = d /\ (rows'[d].intel \/ ~Notable(d)),
         pc \in {"scan", "stage"} => Placed(t)'
  PROVE  Inv'
<1> USE DEF Inv, TagStep
<1>1. analyses'[t] = a /\ work'[t] = s /\
      \A u \in Tags \ {t} : analyses'[u] = analyses[u] /\ work'[u] = work[u]
  BY DEF Typed
<1>2. Typed'
  BY DEF Typed
<1>3. OfItsManifest'
  BY <1>1 DEF OfItsManifest, Measured
<1>4. NothingUnansweredStored'
  BY DEF NothingUnansweredStored
<1>5. NothingYet' /\ RefreshIsOver' /\ WorkIsOver' /\ ResultIsLast' /\ StopsForDiscovery'
  BY DEF NothingYet, RefreshIsOver, WorkIsOver, ResultIsLast,
              StopsForDiscovery, Searching, Finishing
<1>6. WorkHasAnalysis'
  BY <1>1 DEF WorkHasAnalysis
<1>7. EachIsPlaced'
  <2>1. SUFFICES ASSUME pc \in {"scan", "stage"}, NEW u \in Tags \ {t} PROVE Placed(u)'
    BY <1>1 DEF EachIsPlaced, PastDiscovery, Finishing
  <2>2. Placed(u)
    BY <2>1 DEF EachIsPlaced
  <2> QED
    BY <1>1, <2>1, <2>2 DEF Placed, OnlyIn, Denied
<1>8. TagsAreChecked'
  BY <1>1 DEF TagsAreChecked, Measured
<1>9. FinalistsAreBest' /\ InspectedUnlessCut' /\ ResultIsOfTheRun'
  BY DEF FinalistsAreBest, InspectedUnlessCut, ResultIsOfTheRun, Finishing
<1> QED
  BY <1>2, <1>3, <1>4, <1>5, <1>6, <1>7, <1>8, <1>9

\* While tags are worked on, there is no result.
LEMMA WorkIsEarly ==
  ASSUME Inv, NEW t \in Tags, work[t] \in {"look", "measure", "enrich", "score"}
  PROVE  result = None /\ pc \in {"scan", "stage", "close", "closed"}
  BY DEF Inv, WorkIsOver, NothingYet, Typed, Places, Searching, Finishing

LEMMA GetCachedKeeps == ASSUME Inv, NEW t \in Tags, GetCached(t) PROVE Inv'
<1> USE DEF Inv, GetCached
<1> DEFINE d == DigestOf[t]
           b == Analysis(rows[d].of, "cache", rows[d].intel, rows[d].eol)
<1>1. result = None /\ pc = "scan" /\ work[t] = "look"
  BY WorkIsEarly
<1>2. OnlyIn(t, "nowhere")
  BY <1>1 DEF EachIsPlaced, Placed
<1>3. CASE t \in confirmed /\ d \in scans /\ rows[d] # None
  <2>1. d \in Digests /\ rows[d] \in Kept /\ DigestOf[rows[d].of] = d
    BY <1>3 DEF Typed, Digests, OfItsManifest
  <2>2. b \in Evaluations /\ b.tag = "unknown" /\ DigestOf[b.of] = d
    BY <2>1 DEF Analysis, Evaluations, Kept, Answers
  <2>3. b # None
    BY <2>2, NoneIsNoRecord
  <2>4. analyses' = [analyses EXCEPT ![t] = b] /\ work' = [work EXCEPT ![t] = "done"]
    BY <1>3
  <2> HIDE DEF b
  <2>5. TagStep(t, b, "done")
    BY <2>4 DEF TagStep
  <2>6. Placed(t)'
    BY <1>2, <2>3, <2>4 DEF Placed, OnlyIn, Typed
  <2> QED
    BY <1>1, <2>2, <2>5, <2>6, TagStepKeeps DEF Steps, Typed
<1>4. CASE ~(t \in confirmed /\ d \in scans /\ rows[d] # None)
  <2>1. work' = [work EXCEPT ![t] = "measure"] /\ analyses' = analyses
    BY <1>4
  <2>2. analyses[t] = None
    BY <1>2 DEF OnlyIn
  <2>3. TagStep(t, None, "measure")
    BY <2>1, <2>2 DEF TagStep, Typed
  <2>4. Placed(t)'
    BY <1>2, <2>1 DEF Placed, OnlyIn, Typed
  <2> QED
    BY <1>1, <2>3, <2>4, TagStepKeeps DEF Steps, Typed
<1> QED
  BY <1>3, <1>4

LEMMA MeasureKeeps == ASSUME Inv, NEW t \in Tags, Measure(t) PROVE Inv'
<1> USE DEF Inv, Measure
<1> DEFINE d == DigestOf[t]
           origin == IF t \in confirmed /\ d \in scans THEN "cache" ELSE "scan"
           a == Analysis(t, origin, FALSE, "unknown")
           s == IF opts.staged THEN "score" ELSE "enrich"
<1>1. result = None /\ pc = "scan" /\ work[t] = "measure"
  BY WorkIsEarly
<1>2. OnlyIn(t, "nowhere")
  BY <1>1 DEF EachIsPlaced, Placed
<1>3. origin \in {"cache", "scan"} /\ s \in {"enrich", "score"}
  OBVIOUS
<1>4. analyses' = [analyses EXCEPT ![t] = a] /\ work' = [work EXCEPT ![t] = s]
  OBVIOUS
<1>5. scans' \subseteq Digests
  BY DEF Typed, Digests
<1> HIDE DEF origin, s
<1>6. a \in Evaluations /\ a.tag = "unknown" /\ a.of = t
  BY <1>3 DEF Analysis, Evaluations, Answers
<1>7. a # None
  BY <1>6, NoneIsNoRecord
<1> HIDE DEF a
<1>8. TagStep(t, a, s)
  BY <1>4 DEF TagStep
<1>9. Placed(t)'
  BY <1>2, <1>3, <1>4, <1>7 DEF Placed, OnlyIn, Typed
<1>10. /\ rows' = rows /\ rows \in [Digests -> Kept \cup {None}] /\ s \in Steps
       /\ lists' \in [unverified : SUBSET Tags, excluded : SUBSET Tags, deferred : SUBSET Tags,
                      timedOut : SUBSET Tags]
  BY <1>3 DEF Typed, Steps
<1> HIDE DEF Measure
<1> QED
  BY <1>1, <1>5, <1>6, <1>7, <1>8, <1>9, <1>10, TagStepKeeps

LEMMA SkipKeeps == ASSUME Inv, NEW t \in Tags, Skip(t) PROVE Inv'
<1> USE DEF Inv, Skip
<1>1. result = None /\ pc = "scan" /\ work[t] \in {"look", "measure", "enrich", "score"}
  BY WorkIsEarly
<1>2. OnlyIn(t, "nowhere") \/ OnlyIn(t, "measured")
  BY <1>1 DEF EachIsPlaced, Placed
<1>3. PICK h \in {"unverified", "timedOut"} : lists' = [lists EXCEPT ![h] = @ \cup {t}]
  OBVIOUS
<1>4. /\ lists' \in [unverified : SUBSET Tags, excluded : SUBSET Tags, deferred : SUBSET Tags,
                     timedOut : SUBSET Tags]
      /\ t \in lists'[h]
      /\ \A k \in {"unverified", "excluded", "deferred", "timedOut"} \ {h} : lists'[k] = lists[k]
      /\ \A u \in Tags \ {t} : u \in lists'[h] <=> u \in lists[h]
  BY <1>3 DEF Typed
<1>5. analyses' = [analyses EXCEPT ![t] = None] /\ work' = [work EXCEPT ![t] = "done"]
  OBVIOUS
<1>6. TagStep(t, None, "done")
  BY <1>4, <1>5 DEF TagStep
<1>7. Placed(t)'
  BY <1>2, <1>4, <1>5 DEF Placed, OnlyIn, Typed
<1> QED
  BY <1>1, <1>4, <1>6, <1>7, TagStepKeeps DEF Steps, Typed

LEMMA EnrichKeeps == ASSUME Inv, NEW t \in Tags, Enrich(t) PROVE Inv'
<1> USE DEF Inv
<1>1. work[t] = "enrich"
  BY DEF Enrich
<1>2. result = None /\ pc \in {"scan", "stage", "close", "closed"}
  BY <1>1, WorkIsEarly
<1>3. analyses[t] \in Evaluations /\ analyses[t] # None
  BY <1>1 DEF WorkHasAnalysis, Typed
<1>4. PICK intel \in BOOLEAN : analyses' = [analyses EXCEPT ![t].intel = intel]
  BY DEF Enrich
<1> DEFINE a == [analyses[t] EXCEPT !.intel = intel]
<1>5. a \in Evaluations /\ a.of = analyses[t].of /\ a.tag = analyses[t].tag
  BY <1>3 DEF Evaluations
<1>6. a # None
  BY <1>5, NoneIsNoRecord
<1>7. analyses' = [analyses EXCEPT ![t] = a]
  BY <1>4 DEF Typed
<1> HIDE DEF a
<1>8. TagStep(t, a, "score")
  BY <1>7 DEF TagStep, Enrich
<1>9. Placed(t)' \/ pc \notin {"scan", "stage"}
  BY <1>1, <1>3, <1>6, <1>8 DEF TagStep, EachIsPlaced, Placed, OnlyIn, Typed, Enrich
<1>10. DigestOf[a.of] = DigestOf[t] /\ (pc \in {"scan", "stage"} => a.tag = "unknown")
  BY <1>3, <1>5 DEF OfItsManifest, TagsAreChecked, Measured
<1>11. UNCHANGED <<lists, rows, scans>>
  BY DEF Enrich
<1> QED
  BY <1>2, <1>5, <1>6, <1>8, <1>9, <1>10, <1>11, TagStepKeeps DEF Steps, Typed

LEMMA ScoreItKeeps == ASSUME Inv, NEW t \in Tags, ScoreIt(t) PROVE Inv'
<1> USE DEF Inv
<1>1. work[t] = "score"
  BY DEF ScoreIt
<1>2. result = None /\ pc \in {"scan", "stage", "close", "closed"}
  BY <1>1, WorkIsEarly
<1>3. analyses[t] \in Evaluations /\ analyses[t] # None
  BY <1>1 DEF WorkHasAnalysis, Typed
<1>4. PICK eol \in Answers : analyses' = [analyses EXCEPT ![t].eol = eol]
  BY DEF ScoreIt, Answers
<1> DEFINE a == [analyses[t] EXCEPT !.eol = eol]
<1>5. a \in Evaluations /\ a.of = analyses[t].of /\ a.tag = analyses[t].tag
  BY <1>3 DEF Evaluations
<1>6. a # None
  BY <1>5, NoneIsNoRecord
<1>7. analyses' = [analyses EXCEPT ![t] = a] /\ analyses'[t] = a
  BY <1>4 DEF Typed
<1> HIDE DEF a
<1>8. TagStep(t, a, "done")
  BY <1>7 DEF TagStep, ScoreIt
<1>9. Placed(t)' \/ pc \notin {"scan", "stage"}
  BY <1>1, <1>3, <1>6, <1>8 DEF TagStep, EachIsPlaced, Placed, OnlyIn, Typed, ScoreIt
<1>10. DigestOf[a.of] = DigestOf[t] /\ (pc \in {"scan", "stage"} => a.tag = "unknown")
  BY <1>3, <1>5 DEF OfItsManifest, TagsAreChecked, Measured
<1>11. UNCHANGED <<lists, scans>>
  BY DEF ScoreIt
<1>12. rows' \in {rows, Stored(t, a)}
  BY <1>7 DEF ScoreIt
<1>13. DigestOf[t] \in Digests
  BY DEF Digests
<1>14. /\ rows' \in [Digests -> Kept \cup {None}]
       /\ \A d \in Digests : rows'[d] # rows[d] =>
            DigestOf[rows'[d].of] = d /\ (rows'[d].intel \/ ~Notable(d))
  <2> DEFINE r == [of |-> a.of, intel |-> a.intel, eol |-> a.eol]
  <2>1. r \in Kept /\ r.of = a.of /\ r.intel = a.intel
    BY <1>5 DEF Kept, Evaluations
  <2> HIDE DEF r
  <2>2. \/ rows' = rows
        \/ rows' = [rows EXCEPT ![DigestOf[t]] = r] /\ (a.intel \/ ~Notable(DigestOf[t]))
    BY <1>12 DEF Stored, r
  <2> QED
    BY <1>10, <1>13, <2>1, <2>2 DEF Typed
<1> QED
  BY <1>2, <1>5, <1>6, <1>8, <1>9, <1>10, <1>11, <1>14, TagStepKeeps DEF Steps, Typed

-----------------------------------------------------------------------------
(***************************************************************************)
(* The plan, the second stage and the pool.                                *)
(***************************************************************************)
LEMMA PlanScansKeeps == ASSUME Inv, PlanScans PROVE Inv'
<1> USE DEF Inv
<1>1. PICK excluded \in SUBSET Tags, deferred \in SUBSET Tags :
        /\ excluded \cap deferred = {}
        /\ lists' = [lists EXCEPT !.excluded = excluded, !.deferred = deferred]
        /\ work' = [t \in Tags |-> IF t \in Tags \ (excluded \cup deferred) THEN "look" ELSE "idle"]
        /\ pc' = "scan"
  BY DEF PlanScans
<1>2. /\ pc = "join" /\ db = "ended" /\ result = None
      /\ UNCHANGED <<opts, late, db, analyses, rows, scans, finalists, checks, pending,
                     result, final>>
  BY DEF PlanScans, ResultIsLast
<1>3. \A t \in Tags : analyses[t] = None /\ t \notin lists.unverified /\ t \notin lists.timedOut
  BY <1>2 DEF NothingYet, Searching, Typed
<1>4. Typed'
  BY <1>1, <1>2 DEF Typed, Places, Steps
<1>5. OfItsManifest' /\ NothingUnansweredStored'
  BY <1>2 DEF OfItsManifest, Measured, NothingUnansweredStored
<1>6. NothingYet' /\ RefreshIsOver' /\ WorkIsOver' /\ WorkHasAnalysis'
      /\ ResultIsLast' /\ StopsForDiscovery'
  BY <1>1, <1>2
     DEF NothingYet, RefreshIsOver, WorkIsOver, WorkHasAnalysis, ResultIsLast,
              StopsForDiscovery, Searching, Finishing
<1>7. EachIsPlaced'
  <2>1. SUFFICES ASSUME NEW t \in Tags PROVE Placed(t)'
    BY DEF EachIsPlaced
  <2>2. lists'.unverified = lists.unverified /\ lists'.timedOut = lists.timedOut
        /\ lists'.excluded = excluded /\ lists'.deferred = deferred
    BY <1>1 DEF Typed
  <2> QED
    BY <1>1, <1>2, <1>3, <2>2 DEF Placed, OnlyIn
<1>8. TagsAreChecked'
  BY <1>1, <1>2, <1>3 DEF TagsAreChecked, Measured
<1>9. FinalistsAreBest' /\ InspectedUnlessCut' /\ ResultIsOfTheRun'
  BY <1>1, <1>2 DEF FinalistsAreBest, InspectedUnlessCut, ResultIsOfTheRun, Finishing
<1> QED
  BY <1>4, <1>5, <1>6, <1>7, <1>8, <1>9

LEMMA EnrichStageKeeps == ASSUME Inv, EnrichStage PROVE Inv'
<1> USE DEF Inv
<1>1. /\ pc = "scan" /\ pc' = "stage" /\ result = None
      /\ \A t \in Tags : work[t] \in {"idle", "done"}
      /\ UNCHANGED <<opts, late, db, analyses, lists, rows, scans, finalists, checks, pending,
                     result, final>>
  BY DEF EnrichStage, Scanned, ResultIsLast
<1>2. \A t \in Tags : \/ work'[t] = work[t]
                      \/ work'[t] = "enrich" /\ analyses[t] # None /\ analyses[t].tag = "unknown"
  BY <1>1 DEF EnrichStage, Awaiting, Measured, TagsAreChecked
<1>3. work' \in [Tags -> Steps]
  BY DEF EnrichStage, Typed, Steps
<1>4. Typed' /\ OfItsManifest' /\ NothingUnansweredStored'
  BY <1>1, <1>3 DEF Typed, Places, OfItsManifest, Measured, NothingUnansweredStored
<1>5. NothingYet' /\ RefreshIsOver' /\ WorkIsOver' /\ WorkHasAnalysis'
      /\ ResultIsLast' /\ StopsForDiscovery'
  BY <1>1, <1>2
     DEF NothingYet, RefreshIsOver, WorkIsOver, WorkHasAnalysis, ResultIsLast,
              StopsForDiscovery, Searching, Finishing
<1>6. EachIsPlaced'
  <2>1. SUFFICES ASSUME NEW t \in Tags PROVE Placed(t)'
    BY DEF EachIsPlaced
  <2>2. Placed(t)
    BY <1>1 DEF EachIsPlaced
  <2> QED
    BY <1>1, <1>2, <2>2 DEF Placed, OnlyIn, Denied
<1>7. TagsAreChecked'
  BY <1>1 DEF TagsAreChecked, Measured
<1>8. FinalistsAreBest' /\ InspectedUnlessCut' /\ ResultIsOfTheRun'
  BY <1>1 DEF FinalistsAreBest, InspectedUnlessCut, ResultIsOfTheRun, Finishing
<1> QED
  BY <1>4, <1>5, <1>6, <1>7, <1>8

LEMMA PoolKeeps == ASSUME Inv, Pool PROVE Inv'
<1> USE DEF Inv
<1>1. PICK wrong \in SUBSET Measured :
        LET kept == Measured \ wrong
            pool == IF Baseline(kept) # {} THEN Baseline(kept) ELSE kept IN
          /\ lists' = [lists EXCEPT !.excluded = @ \cup wrong]
          /\ analyses' = [t \in Tags |-> IF t \in wrong THEN None ELSE analyses[t]]
          /\ finalists' = Best(pool, Order(kept), 2 * TopN)
  BY DEF Pool
<1>2. /\ pc \in {"scan", "stage"} /\ result = None /\ pc' \in {"verify", "select"} /\ checks' = {}
      /\ \A t \in Tags : work[t] \in {"idle", "done"}
      /\ UNCHANGED <<opts, late, db, work, rows, scans, pending, result, final>>
  BY DEF Pool, Evaluated, Scanned, ResultIsLast
<1> DEFINE kept == Measured \ wrong
<1>3. Measured' = kept /\ \A t \in kept : analyses'[t] = analyses[t]
  BY <1>1 DEF Measured
<1>4. Baseline(Measured)' = Baseline(kept)
  BY <1>3 DEF Baseline
<1>5. finalists' \subseteq IF Baseline(kept) # {} THEN Baseline(kept) ELSE kept
  BY <1>1 DEF Best
<1>6. Baseline(kept) \subseteq kept /\ kept \subseteq Tags
  BY DEF Baseline, Measured
<1> HIDE DEF kept
<1>7. Typed'
  BY <1>1, <1>2, <1>5, <1>6 DEF Typed, Places, Measured
<1>8. OfItsManifest' /\ NothingUnansweredStored'
  <2>1. kept \subseteq Measured
    BY DEF kept
  <2> QED
    BY <1>2, <1>3, <2>1 DEF OfItsManifest, NothingUnansweredStored
<1>9. NothingYet' /\ RefreshIsOver' /\ WorkIsOver' /\ WorkHasAnalysis'
      /\ ResultIsLast' /\ StopsForDiscovery'
  BY <1>2
     DEF NothingYet, RefreshIsOver, WorkIsOver, WorkHasAnalysis, ResultIsLast,
              StopsForDiscovery, Searching, Finishing
<1>10. EachIsPlaced'
  <2>1. SUFFICES ASSUME NEW t \in Tags PROVE Placed(t)'
    BY DEF EachIsPlaced
  <2>2. Placed(t) /\ ~Denied(t)
    BY <1>2 DEF EachIsPlaced, Denied, TagsAreChecked, Measured
  <2>3. /\ lists'.unverified = lists.unverified /\ lists'.timedOut = lists.timedOut
        /\ lists'.deferred = lists.deferred /\ lists'.excluded = lists.excluded \cup wrong
    BY <1>1 DEF Typed
  <2>4. CASE t \in wrong
    BY <1>1, <1>2, <2>2, <2>3, <2>4 DEF Placed, OnlyIn, Measured
  <2>5. CASE t \notin wrong
    BY <1>1, <1>2, <2>2, <2>3, <2>5 DEF Placed, OnlyIn, Measured
  <2> QED
    BY <2>4, <2>5
<1>11. TagsAreChecked'
  <2>1. \A t \in kept : analyses[t].tag = "unknown"
    BY <1>2 DEF TagsAreChecked, kept
  <2> QED
    BY <1>2, <1>3, <1>5, <1>6, <2>1 DEF TagsAreChecked
<1>12. FinalistsAreBest'
  BY <1>3, <1>4, <1>5 DEF FinalistsAreBest
<1>13. InspectedUnlessCut' /\ ResultIsOfTheRun'
  BY <1>2 DEF InspectedUnlessCut, ResultIsOfTheRun
<1> QED
  BY <1>7, <1>8, <1>9, <1>10, <1>11, <1>12, <1>13

-----------------------------------------------------------------------------
(***************************************************************************)
(* The checks of the finalists write into their analyses, and leave the    *)
(* image and its lifecycle alone.                                          *)
(***************************************************************************)
Annotated(t) ==
  /\ analyses[t] = None => analyses'[t] = None
  /\ analyses[t] # None => /\ analyses'[t] \in Evaluations
                          /\ analyses'[t].of = analyses[t].of /\ analyses'[t].eol = analyses[t].eol

LEMMA AnnotationsKeep ==
  ASSUME Typed, \A t \in Tags : Annotated(t)
  PROVE  /\ Measured' = Measured /\ Baseline(Measured)' = Baseline(Measured)
         /\ EachTagItsOwn' <=> EachTagItsOwn
         /\ OfItsManifest /\ UNCHANGED rows => OfItsManifest'
         /\ \A t \in Tags : analyses'[t] # None <=> analyses[t] # None
<1>1. \A t \in Tags : analyses'[t] # None <=> analyses[t] # None
  BY NoneIsNoRecord DEF Annotated
<1>2. Measured' = Measured /\ \A t \in Measured : analyses'[t].of = analyses[t].of
                                               /\ analyses'[t].eol = analyses[t].eol
  BY <1>1 DEF Measured, Annotated
<1> QED
  BY <1>1, <1>2 DEF Baseline, EachTagItsOwn, OfItsManifest

LEMMA VerifyTagKeeps == ASSUME Inv, NEW t \in Tags, VerifyTag(t) PROVE Inv'
<1> USE DEF Inv
<1>1. /\ pc = "verify" /\ t \in finalists /\ t \notin checks /\ result = None
      /\ checks' = checks \cup {t}
      /\ UNCHANGED <<opts, pc, late, db, confirmed, work, rows, scans, finalists, pending,
                     result, final>>
  BY DEF VerifyTag, ResultIsLast
<1>2. PICK exists \in Answers :
        /\ analyses' = [analyses EXCEPT ![t].tag = exists]
        /\ lists' = IF exists # "false" THEN lists
                    ELSE [lists EXCEPT !.unverified = @ \cup {analyses[t].of}]
  BY DEF VerifyTag, Answers
<1>3. finalists \subseteq Measured
  BY <1>1 DEF FinalistsAreBest, Finishing, Baseline
<1>4. analyses[t] \in Evaluations /\ analyses[t] # None
  BY <1>1, <1>3 DEF Measured, Typed
<1> DEFINE a == [analyses[t] EXCEPT !.tag = exists]
<1>5. a \in Evaluations /\ a.of = analyses[t].of /\ a.eol = analyses[t].eol /\ a.tag = exists
  BY <1>4 DEF Evaluations
<1>6. analyses' = [analyses EXCEPT ![t] = a]
  BY <1>2 DEF Typed
<1> HIDE DEF a
<1>7. analyses'[t] = a /\ \A u \in Tags \ {t} : analyses'[u] = analyses[u]
  BY <1>6 DEF Typed
<1>8. \A u \in Tags : Annotated(u)
  BY <1>4, <1>5, <1>7 DEF Annotated, Typed
<1>9. /\ Measured' = Measured /\ Baseline(Measured)' = Baseline(Measured)
      /\ EachTagItsOwn' <=> EachTagItsOwn
      /\ OfItsManifest' /\ \A u \in Tags : analyses'[u] # None <=> analyses[u] # None
  BY <1>1, <1>8, AnnotationsKeep
<1>10. /\ lists'.excluded = lists.excluded /\ lists'.deferred = lists.deferred
       /\ lists'.timedOut = lists.timedOut
       /\ lists'.unverified = IF exists # "false" THEN lists.unverified
                              ELSE lists.unverified \cup {analyses[t].of}
  BY <1>2 DEF Typed
<1>11. Typed'
  BY <1>1, <1>2, <1>4, <1>5, <1>6 DEF Typed, Evaluations
<1>12. NothingUnansweredStored' /\ NothingYet' /\ RefreshIsOver' /\ WorkIsOver'
      /\ ResultIsLast' /\ StopsForDiscovery'
  BY <1>1 DEF NothingUnansweredStored, NothingYet, RefreshIsOver, WorkIsOver, ResultIsLast,
              StopsForDiscovery, Searching
<1>13. WorkHasAnalysis'
  BY <1>1, <1>9 DEF WorkHasAnalysis
<1>14. EachIsPlaced'
  <2>1. SUFFICES ASSUME EachTagItsOwn, NEW u \in Tags PROVE Placed(u)'
    BY <1>1, <1>9 DEF EachIsPlaced
  <2>2. Placed(u) /\ work'[u] = work[u] /\ work[u] \in {"idle", "done"}
    BY <1>1, <2>1 DEF EachIsPlaced, PastDiscovery, Finishing, WorkIsOver
  <2>3. analyses[t].of = t
    BY <1>1, <1>3, <2>1 DEF EachTagItsOwn
  <2>4. CASE u # t
    BY <1>7, <1>10, <2>2, <2>3, <2>4 DEF Placed, OnlyIn, Denied
  <2>5. CASE u = t
    <3>1. analyses[t].tag # "false"
      BY <1>1 DEF TagsAreChecked
    <3>2. OnlyIn(t, "measured")
      BY <1>4, <2>2, <2>5, <3>1 DEF Placed, OnlyIn, Denied
    <3> QED
      BY <1>4, <1>5, <1>7, <1>9, <1>10, <2>2, <2>3, <2>5, <3>2 DEF Placed, OnlyIn, Denied
  <2> QED
    BY <2>4, <2>5
<1>15. TagsAreChecked'
  BY <1>1, <1>7 DEF TagsAreChecked, Typed
<1>16. FinalistsAreBest'
  BY <1>1, <1>9 DEF FinalistsAreBest
<1>17. InspectedUnlessCut' /\ ResultIsOfTheRun'
  BY <1>1 DEF InspectedUnlessCut, ResultIsOfTheRun
<1> QED
  BY <1>9, <1>11, <1>12, <1>13, <1>14, <1>15, <1>16, <1>17

LEMMA CheckKeeps == ASSUME Inv, NEW c \in checks, Check(c) PROVE Inv'
<1> USE DEF Inv
<1>1. /\ pc = "check" /\ result = None /\ checks' = checks \ {c} /\ pending \subseteq pending'
      /\ late => pending' # {}
      /\ UNCHANGED <<opts, pc, late, db, confirmed, work, lists, rows, scans, finalists, result,
                     final>>
  BY DEF Check, CutBy, ResultIsLast
<1>2. PICK S \in SUBSET finalists :
        /\ S = finalists \/ late \/ c = "second"
        /\ analyses' = [t \in Tags |->
             IF t \notin S THEN analyses[t]
             ELSE IF c = "second" THEN [analyses[t] EXCEPT !.second = TRUE]
                                  ELSE [analyses[t] EXCEPT !.inspected = TRUE]]
  BY DEF Check
<1>3. finalists \subseteq Measured /\ Measured \subseteq Tags
  BY <1>1 DEF FinalistsAreBest, Finishing, Baseline, Measured
<1>4. ASSUME NEW t \in Tags
      PROVE  /\ Annotated(t) /\ analyses'[t] \in Evaluations \cup {None}
             /\ analyses[t] # None => analyses'[t].tag = analyses[t].tag
             /\ t \in finalists /\ (analyses[t].inspected \/ (c # "second" /\ t \in S))
                  => analyses'[t].inspected
  <2>1. CASE t \in S
    <3>1. analyses[t] \in Evaluations /\ analyses[t] # None
      BY <1>3, <2>1 DEF Measured, Typed
    <3>2. analyses'[t] = IF c = "second" THEN [analyses[t] EXCEPT !.second = TRUE]
                                         ELSE [analyses[t] EXCEPT !.inspected = TRUE]
      BY <1>2, <2>1
    <3> QED
      BY <2>1, <3>1, <3>2 DEF Evaluations, Annotated
  <2>2. CASE t \notin S
    <3>1. analyses'[t] = analyses[t]
      BY <1>2, <2>2
    <3> QED
      BY <2>2, <3>1 DEF Annotated, Typed
  <2> QED
    BY <2>1, <2>2
<1>5. \A t \in Tags : Annotated(t) /\ (analyses[t] # None => analyses'[t].tag = analyses[t].tag)
  BY <1>4
<1>6. /\ Measured' = Measured /\ Baseline(Measured)' = Baseline(Measured)
      /\ EachTagItsOwn' <=> EachTagItsOwn
      /\ OfItsManifest' /\ \A u \in Tags : analyses'[u] # None <=> analyses[u] # None
  BY <1>1, <1>5, AnnotationsKeep
<1>7. Typed'
  <2>1. analyses' \in [Tags -> Evaluations \cup {None}]
    BY <1>2, <1>4 DEF Typed
  <2> QED
    BY <1>1, <2>1 DEF Typed
<1>8. NothingUnansweredStored' /\ NothingYet' /\ RefreshIsOver' /\ WorkIsOver'
      /\ ResultIsLast' /\ StopsForDiscovery'
  BY <1>1 DEF NothingUnansweredStored, NothingYet, RefreshIsOver, WorkIsOver, ResultIsLast,
              StopsForDiscovery, Searching
<1>9. WorkHasAnalysis'
  BY <1>1, <1>6 DEF WorkHasAnalysis
<1>10. EachIsPlaced'
  <2>1. SUFFICES ASSUME EachTagItsOwn, NEW u \in Tags PROVE Placed(u)'
    BY <1>1, <1>6 DEF EachIsPlaced
  <2>2. Placed(u)
    BY <1>1, <2>1 DEF EachIsPlaced, PastDiscovery, Finishing
  <2> QED
    BY <1>1, <1>5, <1>6, <2>2 DEF Placed, OnlyIn, Denied
<1>11. TagsAreChecked'
  BY <1>1, <1>3, <1>5 DEF TagsAreChecked, Measured
<1>12. FinalistsAreBest'
  BY <1>1, <1>6 DEF FinalistsAreBest
<1>13. InspectedUnlessCut'
  <2> SUFFICES ASSUME "inspection" \in opts.checks \ checks', pending' = {}, NEW t \in finalists
               PROVE  analyses'[t].inspected
    BY <1>1 DEF InspectedUnlessCut
  <2>1. ~late /\ pending = {} /\ t \in Tags
    BY <1>1, <1>3
  <2>2. CASE c = "second"
    <3>1. analyses[t].inspected
      BY <1>1, <2>1, <2>2 DEF InspectedUnlessCut
    <3> QED
      BY <1>4, <2>1, <3>1
  <2>3. CASE c # "second"
    BY <1>2, <1>4, <2>1, <2>3
  <2> QED
    BY <2>2, <2>3
<1>14. ResultIsOfTheRun'
  BY <1>1 DEF ResultIsOfTheRun
<1> QED
  BY <1>6, <1>7, <1>8, <1>9, <1>10, <1>11, <1>12, <1>13, <1>14

\* Of the candidates some are left; the run goes on with those.
LEMMA NarrowingKeeps ==
  ASSUME Inv, pc \in {"verify", "select"}, pc' \in {"select", "check"},
         UNCHANGED <<opts, late, db, work, analyses, lists, rows, scans, result>>,
         finalists' \subseteq finalists,
         \A t \in finalists' : analyses[t].tag # "false",
         pc' = "check" /\ "inspection" \in opts.checks \ checks' => finalists' = {}
  PROVE  Inv'
<1> USE DEF Inv
<1>1. Typed' /\ OfItsManifest' /\ NothingUnansweredStored'
  BY DEF Typed, Places, OfItsManifest, NothingUnansweredStored, Measured
<1>2. result = None
  BY DEF ResultIsLast
<1>3. NothingYet' /\ RefreshIsOver' /\ WorkIsOver' /\ WorkHasAnalysis'
      /\ ResultIsLast' /\ StopsForDiscovery'
  BY <1>2 DEF NothingYet, RefreshIsOver, WorkIsOver, WorkHasAnalysis, ResultIsLast,
              StopsForDiscovery, Searching, Finishing
<1>4. EachIsPlaced'
  BY <1>2 DEF EachIsPlaced, PastDiscovery, Finishing, Placed, OnlyIn, Denied,
              EachTagItsOwn, Measured
<1>5. TagsAreChecked'
  BY <1>2 DEF TagsAreChecked
<1>6. FinalistsAreBest'
  BY DEF FinalistsAreBest, Measured, Baseline, Finishing
<1>7. InspectedUnlessCut' /\ ResultIsOfTheRun'
  BY <1>2 DEF InspectedUnlessCut, ResultIsOfTheRun
<1> QED
  BY <1>1, <1>3, <1>4, <1>5, <1>6, <1>7

LEMMA VerifiedKeeps == ASSUME Inv, Verified PROVE Inv'
  BY NarrowingKeeps DEF Verified

LEMMA SelectKeeps == ASSUME Inv, Select PROVE Inv'
<1>1. /\ pc = "select" /\ pc' = "check" /\ finalists' = Best(finalists, Order(Measured), TopN)
      /\ checks' = {c \in {"inspection", "second"} : c \in opts.checks /\ finalists' # {}}
      /\ UNCHANGED <<opts, late, db, work, analyses, lists, rows, scans, result>>
  BY DEF Select
<1>2. finalists' \subseteq finalists
  BY <1>1 DEF Best
<1>3. \A t \in finalists : analyses[t].tag # "false"
  BY <1>1 DEF Inv, TagsAreChecked
<1> QED
  BY <1>1, <1>2, <1>3, NarrowingKeeps

-----------------------------------------------------------------------------
(***************************************************************************)
(* The answer.                                                             *)
(***************************************************************************)
LEMMA AnswerKeeps ==
  ASSUME Inv, NEW selected \in SUBSET Measured, NEW met \in BOOLEAN,
         Answer(Measured, selected, met),
         result = None, pc' = "close", db' = "ended", pending' = pending,
         UNCHANGED <<opts, late, work, analyses, lists, rows, scans, finalists>>,
         \A t \in Tags : work[t] \in {"idle", "done"},
         EachTagItsOwn => "discovery" \in pending \/ \A t \in Tags : Placed(t),
         \A t \in selected : analyses[t].tag # "false",
         met /\ selected # {} => selected \subseteq Baseline(Measured),
         pending = {} /\ "inspection" \in opts.checks => \A t \in selected : analyses[t].inspected
  PROVE  Inv'
<1> USE DEF Inv
<1>1. /\ result' # None
      /\ result'.completeness = Completeness(Measured, lists.timedOut, pending)
      /\ result'.pending = pending \cup NotAsked \cup Unfinished(selected)
      /\ result'.selected = selected
      /\ result'.met => met /\ selected # {}
  <2> DEFINE c == Completeness(Measured, lists.timedOut, pending)
             p == pending \cup NotAsked \cup Unfinished(selected)
             m == met /\ selected # {}
  <2>1. result' = [completeness |-> c, pending |-> p, selected |-> selected, met |-> m]
    BY DEF Answer
  <2>2. m \in BOOLEAN
    OBVIOUS
  <2> HIDE DEF c, p, m
  <2>3. /\ result'.completeness = c /\ result'.pending = p /\ result'.selected = selected
        /\ result'.met = m /\ "met" \in DOMAIN result'
    BY <2>1, <2>2
  <2>4. "met" \notin DOMAIN None
    BY DEF None
  <2> QED
    BY <2>3, <2>4 DEF c, p, m
<1>2. Typed' /\ OfItsManifest' /\ NothingUnansweredStored' /\ Measured' = Measured
  BY DEF Typed, Places, OfItsManifest, NothingUnansweredStored, Measured
<1>3. NothingYet' /\ RefreshIsOver' /\ WorkIsOver' /\ WorkHasAnalysis'
      /\ ResultIsLast' /\ StopsForDiscovery'
  BY DEF NothingYet, RefreshIsOver, WorkIsOver, WorkHasAnalysis, ResultIsLast,
              StopsForDiscovery, Searching
<1>4. EachIsPlaced'
  <2>1. EachTagItsOwn' <=> EachTagItsOwn
    BY <1>2 DEF EachTagItsOwn
  <2>2. \A t \in Tags : Placed(t) => Placed(t)'
    BY DEF Placed, OnlyIn, Denied
  <2>3. PastDiscovery' => "discovery" \notin pending
    BY <1>1 DEF PastDiscovery, Finishing
  <2> QED
    BY <2>1, <2>2, <2>3 DEF EachIsPlaced
<1>5. TagsAreChecked' /\ FinalistsAreBest' /\ InspectedUnlessCut'
  BY <1>1 DEF TagsAreChecked, FinalistsAreBest, InspectedUnlessCut, Finishing
<1>6. SaysHowMuch'
  <2>1. ASSUME NEW t \in selected PROVE analyses'[t].second \/ "second" \in result'.pending
    BY <1>1 DEF Unfinished
  <2>2. /\ Completeness(Measured, lists.timedOut, pending) = "COMPLETE"
              => pending = {} /\ lists.timedOut = {}
        /\ Completeness(Measured, lists.timedOut, pending) = "NO_RESULT" => Measured = {}
        /\ Completeness(Measured, lists.timedOut, pending) = "PARTIAL" => Measured # {}
    BY DEF Completeness
  <2> QED
    BY <1>1, <1>2, <2>1, <2>2 DEF SaysHowMuch
<1>7. MeetsTheBaseline'
  BY <1>1 DEF MeetsTheBaseline, Baseline
<1>8. ResultIsOfTheRun'
  BY <1>1, <1>2, <1>6, <1>7 DEF ResultIsOfTheRun
<1> QED
  BY <1>2, <1>3, <1>4, <1>5, <1>8

LEMMA FinishKeeps == ASSUME Inv, Finish PROVE Inv'
<1> USE DEF Inv
<1>1. /\ pc = "check" /\ checks = {} /\ pending' = pending /\ pc' = "close" /\ result = None
      /\ Answer(Measured, finalists, Baseline(Measured) # {})
      /\ UNCHANGED <<opts, late, db, work, analyses, lists, rows, scans, finalists, checks>>
  BY DEF Finish, ResultIsLast
<1>2. /\ finalists \subseteq Measured
      /\ Baseline(Measured) # {} => finalists \subseteq Baseline(Measured)
  BY <1>1 DEF FinalistsAreBest, Finishing, Baseline
<1>3. /\ db' = "ended" /\ \A t \in Tags : work[t] \in {"idle", "done"}
      /\ EachTagItsOwn => \A t \in Tags : Placed(t)
      /\ \A t \in finalists : analyses[t].tag # "false"
      /\ pending = {} /\ "inspection" \in opts.checks => \A t \in finalists : analyses[t].inspected
  BY <1>1 DEF RefreshIsOver, WorkIsOver, EachIsPlaced, PastDiscovery, TagsAreChecked,
              InspectedUnlessCut, Searching, Finishing
<1>4. (Baseline(Measured) # {}) \in BOOLEAN
  OBVIOUS
<1> QED
  BY <1>1, <1>2, <1>3, <1>4, AnswerKeeps

LEMMA StopKeeps == ASSUME Inv, Stop PROVE Inv'
<1> USE DEF Inv
<1>1. /\ pc \in {"stop", "stop and raise"} /\ db' = "ended" /\ pc' = "close" /\ result = None
      /\ UNCHANGED <<opts, late, work, analyses, lists, rows, scans, finalists, checks, pending>>
  BY DEF Stop, ResultIsLast
<1>2. Measured = {} /\ \A t \in Tags : work[t] = "idle"
  BY <1>1 DEF NothingYet, Searching, Measured
<1>3. CASE pc = "stop"
  <2>1. Answer({}, {}, FALSE)
    BY <1>3 DEF Stop
  <2>2. "discovery" \in pending
    BY <1>3 DEF StopsForDiscovery
  <2>3. /\ Answer(Measured, {}, FALSE) /\ {} \in SUBSET Measured /\ FALSE \in BOOLEAN
        /\ \A t \in Tags : work[t] \in {"idle", "done"}
        /\ \A t \in {} : analyses[t].tag # "false" /\ analyses[t].inspected
    BY <1>2, <2>1
  <2> QED
    BY <1>1, <2>2, <2>3, AnswerKeeps
<1>4. CASE pc = "stop and raise"
  <2>1. UNCHANGED <<result, final>>
    BY <1>4 DEF Stop
  <2> QED
    BY <1>1, <2>1, MovesKeep DEF Places, Typed
<1> QED
  BY <1>1, <1>3, <1>4
-----------------------------------------------------------------------------
LEMMA InitInv == Init => Inv
<1> SUFFICES ASSUME Init PROVE Inv
  OBVIOUS
<1> DEFINE R == {r \in [Digests -> UNION {RowsOf(d) : d \in Digests}] :
                  \A d \in Digests : r[d] \in RowsOf(d) /\ (d \notin scans => r[d] = None)}
<1>1. /\ opts \in Options /\ pc = "search" /\ db = "running" /\ late = FALSE
      /\ work = [t \in Tags |-> "idle"] /\ analyses = [t \in Tags |-> None]
      /\ lists = [unverified |-> {}, excluded |-> {}, deferred |-> {}, timedOut |-> {}]
      /\ scans \in SUBSET Digests /\ rows \in R
      /\ finalists = {} /\ checks = {} /\ pending = {} /\ result = None
  BY DEF Init
<1>2. ASSUME NEW d \in Digests, NEW r \in RowsOf(d)
      PROVE  /\ r \in Kept \cup {None}
             /\ r # None => DigestOf[r.of] = d /\ r.intel = Notable(d)
  <2>1. Notable(d) \in BOOLEAN
    BY DEF Notable
  <2>2. CASE r # None
    <3>1. r \in [of : {t \in Tags : DigestOf[t] = d}, intel : {Notable(d)},
                eol : {IF d \in Dead THEN "true" ELSE "false"}]
      BY <1>2, <2>2 DEF RowsOf
    <3>2. /\ r = [of |-> r.of, intel |-> r.intel, eol |-> r.eol] /\ r.of \in Tags
          /\ DigestOf[r.of] = d /\ r.intel = Notable(d) /\ r.eol \in Answers
      BY <3>1 DEF Answers
    <3> QED
      BY <2>1, <3>2 DEF Kept
  <2> QED
    BY <2>2
<1>3. /\ \A d \in Digests : rows[d] \in RowsOf(d)
      /\ rows = [d \in Digests |-> rows[d]]
  BY <1>1
<1>4. rows \in [Digests -> Kept \cup {None}]
  BY <1>2, <1>3
<1>5. Measured = {}
  BY <1>1 DEF Measured
<1>6. Typed
  BY <1>1, <1>4 DEF Typed, Places, Steps
<1>7. OfItsManifest /\ NothingUnansweredStored
  BY <1>2, <1>3, <1>5 DEF OfItsManifest, NothingUnansweredStored
<1>8. NothingYet
  BY <1>1 DEF NothingYet
<1>9. RefreshIsOver /\ WorkIsOver /\ WorkHasAnalysis /\ ResultIsLast /\ StopsForDiscovery
  BY <1>1 DEF RefreshIsOver, WorkIsOver, WorkHasAnalysis, ResultIsLast, StopsForDiscovery,
              Searching, Finishing
<1>10. EachIsPlaced /\ TagsAreChecked /\ FinalistsAreBest /\ InspectedUnlessCut /\ ResultIsOfTheRun
  BY <1>1 DEF EachIsPlaced, PastDiscovery, TagsAreChecked, FinalistsAreBest, InspectedUnlessCut,
              ResultIsOfTheRun, Finishing
<1> QED
  BY <1>6, <1>7, <1>8, <1>9, <1>10 DEF Inv

LEMMA StutterKeeps == ASSUME Inv, UNCHANGED vars PROVE Inv'
<1> USE DEF Inv, vars
<1>1. Typed' /\ OfItsManifest' /\ NothingUnansweredStored' /\ NothingYet'
  BY DEF Typed, OfItsManifest, NothingUnansweredStored, NothingYet, Measured
<1>2. RefreshIsOver' /\ WorkIsOver' /\ WorkHasAnalysis' /\ ResultIsLast' /\ StopsForDiscovery'
  BY DEF RefreshIsOver, WorkIsOver, WorkHasAnalysis, ResultIsLast, StopsForDiscovery
<1>3. EachIsPlaced'
  BY DEF EachIsPlaced, PastDiscovery, EachTagItsOwn, Measured, Placed, Denied, OnlyIn
<1>4. TagsAreChecked' /\ FinalistsAreBest' /\ InspectedUnlessCut'
  BY DEF TagsAreChecked, FinalistsAreBest, InspectedUnlessCut, Measured, Baseline
<1>5. ResultIsOfTheRun'
  BY DEF ResultIsOfTheRun, SaysHowMuch, MeetsTheBaseline, Measured
<1> QED
  BY <1>1, <1>2, <1>3, <1>4, <1>5

LEMMA StepKeeps == Inv /\ [Next]_vars => Inv'
<1> SUFFICES ASSUME Inv, [Next]_vars PROVE Inv'
  OBVIOUS
<1>1. ASSUME NEW t \in Tags, OfTag(t) PROVE Inv'
  BY <1>1, GetCachedKeeps, MeasureKeeps, SkipKeeps, EnrichKeeps, ScoreItKeeps, VerifyTagKeeps
     DEF OfTag
<1>2. ASSUME Work PROVE Inv'
  BY <1>1, <1>2, MoveStepsKeep, StopKeeps, PlanScansKeeps, EnrichStageKeeps, PoolKeeps,
     VerifiedKeeps, SelectKeeps, CheckKeeps, FinishKeeps DEF Work
<1> QED
  BY <1>2, MoveStepsKeep, StutterKeeps DEF Next

\* What every step of a run, its expiry and its interruption keep.
THEOREM Invariance == Spec => []Inv
  BY InitInv, StepKeeps, PTL DEF Spec

(***************************************************************************)
(* A result says how much of the run it stands for, and shows, of a run    *)
(* that met the baseline, only images of the baseline (_finalize, _stamp): *)
(* for any tags, and whichever share a manifest.                           *)
(***************************************************************************)
THEOREM SaysWhatItStandsFor == Spec => []ResultIsHonest
<1>1. Inv => ResultIsHonest
  BY DEF Inv, ResultIsOfTheRun, ResultIsHonest, Ended
<1> QED
  BY <1>1, Invariance, PTL

(***************************************************************************)
(* However a run ends, no evaluation without the answer of the feeds is in *)
(* the store (_set_cached), and the refresh is over (execute).             *)
(***************************************************************************)
THEOREM EndsCleanly == Spec => []LeavesCleanly
<1>1. Inv => LeavesCleanly
  BY DEF Inv, RefreshIsOver, Searching, LeavesCleanly, NoRefreshLeft
<1> QED
  BY <1>1, Invariance, PTL

(***************************************************************************)
(* No tag is lost or counted twice, but for what a stored evaluation of    *)
(* another tag of the same manifest does to the count.                     *)
(***************************************************************************)
LEMMA PlacesAddUp == Inv /\ EachTagItsOwn => AccountsForAll
<1> DEFINE homes(t) == {h \in DOMAIN lists : t \in lists[h]}
                         \cup {h \in {"measured"} : t \in Measured}
           denied   == {analyses[t].of : t \in {u \in Measured : analyses[u].tag = "false"}}
<1>1. SUFFICES ASSUME Inv, EachTagItsOwn, Ended, "discovery" \notin result.pending, NEW t \in Tags
               PROVE  \/ Cardinality(homes(t)) = 1
                      \/ homes(t) = {"measured", "unverified"} /\ t \in denied
                         /\ \A s \in result.selected : analyses[s].tag # "false"
  BY DEF AccountsForAll
<1>2. Placed(t) /\ work[t] \in {"idle", "done"}
  BY <1>1 DEF Inv, EachIsPlaced, PastDiscovery, Ended, WorkIsOver
<1>3. DOMAIN lists = {"unverified", "excluded", "deferred", "timedOut"}
  BY <1>1 DEF Inv, Typed
<1>4. t \in Measured <=> analyses[t] # None
  BY DEF Measured
<1>5. CASE Denied(t)
  <2>1. t \in Measured /\ homes(t) = {"measured", "unverified"}
    BY <1>3, <1>4, <1>5 DEF Denied
  <2>2. t \in denied
    BY <1>1, <1>5, <2>1 DEF Denied, EachTagItsOwn
  <2>3. \A s \in result.selected : analyses[s].tag # "false"
    BY <1>1 DEF Inv, TagsAreChecked, Ended
  <2> QED
    BY <2>1, <2>2, <2>3
<1>6. ASSUME NEW h \in {"measured", "unverified", "timedOut", "excluded", "deferred"}, OnlyIn(t, h)
      PROVE  Cardinality(homes(t)) = 1
  <2>1. homes(t) = {h}
    BY <1>3, <1>4, <1>6 DEF OnlyIn
  <2> QED
    BY <2>1, FS_Singleton
<1> QED
  BY <1>2, <1>5, <1>6 DEF Placed

\* _stamp: every tag of the search has its place in the result of a run, as
\* long as a row that GetCached served was of the tag that asked for it.
THEOREM AccountsRelativeToTags == Spec => [](EachTagItsOwn => AccountsForAll)
  BY Invariance, PlacesAddUp, PTL

\* Where no two tags share a manifest, that does not happen.
ManifestsDiffer == \A s, t \in Tags : DigestOf[s] = DigestOf[t] => s = t

\* Every tag that was found is in one place of the result, and in one only
\* (_finalize, _final_pending), where tags are of different manifests.
THEOREM AccountsOfDistinct == ManifestsDiffer => (Spec => []AccountsForAll)
<1> SUFFICES ASSUME ManifestsDiffer PROVE Spec => []AccountsForAll
  OBVIOUS
<1>1. Inv => EachTagItsOwn
  <2> SUFFICES ASSUME Inv, NEW t \in Measured PROVE analyses[t].of = t
    BY DEF EachTagItsOwn
  <2>1. t \in Tags /\ analyses[t] \in Evaluations
    BY DEF Inv, Typed, Measured
  <2>2. analyses[t].of \in Tags
    BY <2>1 DEF Evaluations
  <2> QED
    BY <2>1, <2>2 DEF Inv, OfItsManifest, ManifestsDiffer
<1>2. Inv => AccountsForAll
  BY <1>1, PlacesAddUp
<1> QED
  BY <1>2, Invariance, PTL
=============================================================================
