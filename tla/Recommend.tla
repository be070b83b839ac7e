------------------------------ MODULE Recommend ------------------------------
(***************************************************************************)
(* One run of recommend_images.py: the database refresh beside the search  *)
(* of tags, the plan, the measurement and evaluation of each tag, threat   *)
(* intelligence in the same pass or as a second stage, the pool, the       *)
(* checks of the finalists and the result, all inside a time budget that   *)
(* may end at any moment (run_within).                                     *)
(*                                                                         *)
(* The plan is chosen freely here (ScanPlan has its rules), and a scan is  *)
(* a single step (Measurement has its own).  Evaluations are stored under  *)
(* the digest, without the tag.                                            *)
(***************************************************************************)
EXTENDS Integers, FiniteSets

CONSTANTS
  Tags,        \* numbers, in the order of discovery
  DigestOf,    \* the manifest of each tag
  Criticals,   \* findings of each manifest; the baseline allows none
  Exploited,   \* manifests with a finding that KEV lists
  Dead,        \* manifests whose line is end of life
  TopN,        \* results shown
  Options      \* the profiles and modes of a run

ASSUME RecommendAssumption == TopN \in Nat \ {0} /\ Tags \subseteq Nat /\ IsFiniteSet(Tags)
ASSUME OptionsAreOptions ==
  Options \subseteq [staged : BOOLEAN, everyone : BOOLEAN, bounded : BOOLEAN, family : BOOLEAN,
                     checks : SUBSET {"tag", "inspection", "second"}]

VARIABLES
  opts,      \* what this run was asked for
  pc,        \* where `execute` stands
  late,      \* the time budget ended
  db,        \* the task of the database refresh
  confirmed, \* tags whose identity the registry confirmed
  work,      \* per selected tag: the step of its analyze_tag
  analyses,  \* per tag: its analysis, or None
  lists,     \* unverified, excluded, deferred and deferred by the clock
  rows,      \* the store: evaluations by manifest
  scans,     \* the store: manifests with a raw scan
  finalists, \* the candidates of _finalize; Order says in which order
  checks,    \* the checks still running on them
  pending,   \* _pending: what the run did not do, and _deadline_hit
  result,    \* the AnalysisResult, or None
  final      \* the status of the final event, "" before it

vars == <<opts, pc, late, db, confirmed, work, analyses, lists, rows, scans, finalists, checks,
          pending, result, final>>

None == [none |-> TRUE]
Digests == {DigestOf[t] : t \in Tags}
Notable(d) == Criticals[d] > 0
Measured == {t \in Tags : analyses[t] # None}
CutBy(what) == pending' = pending \cup {what}

\* A new analysis, of an image that the registry has not been asked about.
Analysis(t, origin, intel, eol) ==
  [of |-> t, origin |-> origin, intel |-> intel, eol |-> eol, tag |-> "unknown",
   inspected |-> FALSE, second |-> FALSE]
\* What an earlier run may have stored.
RowsOf(d) ==
  {None} \cup [of : {t \in Tags : DigestOf[t] = d}, intel : {Notable(d)},
               eol : {IF d \in Dead THEN "true" ELSE "false"}]

Init ==
  /\ opts \in Options
  /\ pc = "search" /\ db = "running" /\ late = FALSE
  /\ confirmed = {} /\ work = [t \in Tags |-> "idle"] /\ analyses = [t \in Tags |-> None]
  /\ lists = [unverified |-> {}, excluded |-> {}, deferred |-> {}, timedOut |-> {}]
  /\ scans \in SUBSET Digests
  /\ rows \in {r \in [Digests -> UNION {RowsOf(d) : d \in Digests}] :
                \A d \in Digests : r[d] \in RowsOf(d) /\ (d \notin scans => r[d] = None)}
  /\ finalists = {} /\ checks = {} /\ pending = {} /\ result = None /\ final = ""

(***************************************************************************)
(* The clock, and the refresh: within the budget, so that it ends by it.   *)
(***************************************************************************)
Expire ==
  /\ opts.bounded /\ ~late /\ pc # "closed"
  /\ late' = TRUE
  /\ UNCHANGED <<opts, pc, db, confirmed, work, analyses, lists, rows, scans, finalists, checks,
                 pending, result, final>>

DbEnds ==
  /\ db = "running"
  /\ db' = "ended"
  /\ IF late THEN CutBy("database") ELSE UNCHANGED pending
  /\ UNCHANGED <<opts, pc, late, confirmed, work, analyses, lists, rows, scans, finalists, checks,
                 result, final>>

(***************************************************************************)
(* _stamp and _final_pending.  _deadline_hit is set with every pending     *)
(* check that the clock cut off.                                           *)
(***************************************************************************)
CompletenessOfScans(measured, timedOut, cut) ==
  IF timedOut = {} THEN "COMPLETE" ELSE IF measured = {} THEN "NO_RESULT" ELSE "PARTIAL"
Completeness(measured, timedOut, cut) ==
  IF cut = {} /\ timedOut = {} THEN "COMPLETE" ELSE IF measured = {} THEN "NO_RESULT" ELSE "PARTIAL"
NotAsked == {c \in {"tag", "inspection", "second"} : c \notin opts.checks}
Unfinished(selected) ==
  {"second" : t \in {u \in selected : ~analyses[u].second}}

Answer(measured, selected, met) ==
  /\ result' = [completeness |-> Completeness(measured, lists.timedOut, pending'),
                pending |-> pending' \cup NotAsked \cup Unfinished(selected),
                selected |-> selected, met |-> met /\ selected # {}]
  /\ final' = result'.completeness

(***************************************************************************)
(* Discovery.  A deadline or a failed search stops the refresh, and waits  *)
(* for it: a cancellation that arrives meanwhile goes to the refresh and   *)
(* is lost with its outcome.                                               *)
(***************************************************************************)
Search ==
  /\ pc = "search" /\ ~late
  /\ pc' = "join"
  /\ UNCHANGED <<opts, late, db, confirmed, work, analyses, lists, rows, scans, finalists, checks,
                 pending, result, final>>

SearchEndsBadly ==
  /\ pc = "search"
  /\ \/ late /\ CutBy("discovery") /\ pc' = "stop"
     \/ pc' = "stop and raise" /\ UNCHANGED pending
  /\ UNCHANGED <<opts, late, db, confirmed, work, analyses, lists, rows, scans, finalists, checks,
                 result, final>>

StopLeaves ==
  /\ pc \in {"stop", "stop and raise"}
  /\ pc' = "close"
  /\ UNCHANGED <<opts, late, db, confirmed, work, analyses, lists, rows, scans, finalists, checks,
                 pending>>
  /\ IF pc = "stop" THEN Answer({}, {}, FALSE) ELSE UNCHANGED <<result, final>>

Stop ==
  /\ pc \in {"stop", "stop and raise"}
  /\ db' = "ended" /\ pc' = "close"
  /\ UNCHANGED <<opts, late, confirmed, work, analyses, lists, rows, scans, finalists, checks,
                 pending>>
  /\ IF pc = "stop" THEN Answer({}, {}, FALSE) ELSE UNCHANGED <<result, final>>

(***************************************************************************)
(* The plan, and the identities of the selected tags.                      *)
(***************************************************************************)
PlanScans ==
  /\ pc = "join" /\ db = "ended"
  /\ \E excluded, deferred \in SUBSET Tags, named \in SUBSET Tags :
       LET chosen == Tags \ (excluded \cup deferred) IN
         /\ excluded \cap deferred = {} /\ named \subseteq chosen
         /\ Cardinality(excluded) <= 1 /\ (deferred # {} => chosen # {})
         /\ lists' = [lists EXCEPT !.excluded = excluded, !.deferred = deferred]
         /\ confirmed' = named
         /\ work' = [t \in Tags |-> IF t \in chosen THEN "look" ELSE "idle"]
         /\ pc' = "scan"
  /\ UNCHANGED <<opts, late, db, analyses, rows, scans, finalists, checks, pending, result, final>>

(***************************************************************************)
(* analyze_tag.  A stored evaluation of the manifest is served as it is,   *)
(* with the image that it was stored for.                                  *)
(***************************************************************************)
GetCached(t) ==
  LET d == DigestOf[t] IN
  /\ pc = "scan" /\ work[t] = "look"
  /\ IF t \in confirmed /\ d \in scans /\ rows[d] # None
     THEN /\ analyses' = [analyses EXCEPT ![t] =
               Analysis(rows[d].of, "cache", rows[d].intel, rows[d].eol)]
          /\ work' = [work EXCEPT ![t] = "done"]
     ELSE work' = [work EXCEPT ![t] = "measure"] /\ UNCHANGED analyses
  /\ UNCHANGED <<opts, pc, late, db, confirmed, lists, rows, scans, finalists, checks, pending,
                 result, final>>

\* A scan that is stored says "cache" of its origin as well.  A batch may have
\* measured the tag before the time budget ended.
Measure(t) ==
  LET d == DigestOf[t] reused == t \in confirmed /\ d \in scans IN
  /\ pc = "scan" /\ work[t] = "measure"
  /\ analyses' = [analyses EXCEPT ![t] =
       Analysis(t, IF reused THEN "cache" ELSE "scan", FALSE, "unknown")]
  /\ scans' = IF t \in confirmed THEN scans \cup {d} ELSE scans
  /\ work' = [work EXCEPT ![t] = IF opts.staged THEN "score" ELSE "enrich"]
  /\ UNCHANGED <<opts, pc, late, db, confirmed, lists, rows, finalists, checks, pending, result,
                 final>>

\* _skip: a failed scan, or an exception on the way to the analysis, is
\* unverified; a scan that the clock prevented is deferred.
Skip(t) ==
  /\ pc = "scan"
  /\ \/ work[t] \in {"look", "measure", "enrich", "score"}
        /\ lists' = [lists EXCEPT !.unverified = @ \cup {t}]
     \/ work[t] = "measure" /\ late
        /\ lists' = [lists EXCEPT !.timedOut = @ \cup {t}]
  /\ work' = [work EXCEPT ![t] = "done"]
  /\ analyses' = [analyses EXCEPT ![t] = None]
  /\ UNCHANGED <<opts, pc, late, db, confirmed, rows, scans, finalists, checks, pending, result, final>>

(***************************************************************************)
(* _evaluate: threat intelligence for notable findings, answered or not,   *)
(* then the lifecycle; each is cut off by the clock and then pending.      *)
(***************************************************************************)
Enrich(t) ==
  /\ work[t] = "enrich"
  /\ \E intel \in IF late \/ ~Notable(DigestOf[t]) THEN {FALSE} ELSE BOOLEAN :
       analyses' = [analyses EXCEPT ![t].intel = intel]
  /\ IF late THEN CutBy("threat intelligence") ELSE UNCHANGED pending
  /\ work' = [work EXCEPT ![t] = "score"]
  /\ UNCHANGED <<opts, pc, late, db, confirmed, lists, rows, scans, finalists, checks, result, final>>

\* _set_cached: of a confirmed identity, unless the feeds left it unanswered.
StoredAlways(t, analysis) ==
  IF t \in confirmed
  THEN [rows EXCEPT ![DigestOf[t]] =
          [of |-> analysis.of, intel |-> analysis.intel, eol |-> analysis.eol]]
  ELSE rows
Stored(t, analysis) ==
  IF t \in confirmed /\ (analysis.intel \/ ~Notable(DigestOf[t]))
  THEN [rows EXCEPT ![DigestOf[t]] =
          [of |-> analysis.of, intel |-> analysis.intel, eol |-> analysis.eol]]
  ELSE rows

ScoreIt(t) ==
  LET answer == IF DigestOf[t] \in Dead THEN "true" ELSE "false" IN
  /\ work[t] = "score"
  /\ \E eol \in IF late THEN {"unknown"} ELSE {answer, "unknown"} :
       analyses' = [analyses EXCEPT ![t].eol = eol]
  /\ IF late THEN CutBy("end of life") ELSE UNCHANGED pending
  /\ rows' = IF pc = "scan" /\ opts.staged THEN rows ELSE Stored(t, analyses'[t])
  /\ work' = [work EXCEPT ![t] = "done"]
  /\ UNCHANGED <<opts, pc, late, db, confirmed, lists, scans, finalists, checks, result, final>>

(***************************************************************************)
(* The order by score, first discovered first, and _fallback_pool.         *)
(***************************************************************************)
Badness(t) ==
  LET a == analyses[t] d == DigestOf[a.of] IN
    4 * Criticals[d] + (IF a.eol = "true" THEN 4 ELSE 0)
    + (IF a.intel /\ d \in Exploited THEN 2 ELSE 0)
Eol(t) == IF analyses[t].eol = "true" THEN 1 ELSE 0
Less(x, y) == \E i \in DOMAIN x : x[i] < y[i] /\ \A j \in 1..(i - 1) : x[j] = y[j]
ByScore(S) == [t \in S |-> <<Badness(t), t>>]
Fallback(S) == [t \in S |-> <<Eol(t), Criticals[DigestOf[analyses[t].of]], Badness(t), t>>]
Best(S, rank, n) == {t \in S : Cardinality({s \in S : Less(rank[s], rank[t])}) < n}

(***************************************************************************)
(* _enrich_stage: after a first ranking, the analyses still awaiting       *)
(* intelligence, or those of them among the finalists.                     *)
(***************************************************************************)
Awaiting ==
  {t \in Measured :
     /\ ~analyses[t].intel /\ analyses[t].origin # "cache"
     /\ opts.everyone \/ t \in Best(Measured, ByScore(Measured), 2 * TopN)}

Scanned == pc = "scan" /\ \A t \in Tags : work[t] \in {"idle", "done"}

EnrichStage ==
  /\ Scanned /\ opts.staged
  /\ pc' = "stage"
  /\ work' = [t \in Tags |-> IF t \in Awaiting THEN "enrich" ELSE work[t]]
  /\ UNCHANGED <<opts, late, db, confirmed, analyses, lists, rows, scans, finalists, checks, pending,
                 result, final>>

(***************************************************************************)
(* The pool: the images of the baseline, or all of them; then _finalize on *)
(* twice as many as are shown.  A family filter may have taken measured    *)
(* images out again, on the scanner's own reading.                         *)
(***************************************************************************)
Baseline(S) == {t \in S : Criticals[DigestOf[analyses[t].of]] = 0 /\ analyses[t].eol # "true"}
Order(S) == IF Baseline(S) # {} THEN ByScore(S) ELSE Fallback(S)
Evaluated ==
  \/ Scanned /\ ~opts.staged
  \/ pc = "stage" /\ \A t \in Tags : work[t] \in {"idle", "done"}

Pool ==
  /\ Evaluated
  /\ \E wrong \in {S \in SUBSET Measured : Cardinality(S) <= 1 /\ (S # {} => opts.family)} :
       LET kept == Measured \ wrong
           pool == IF Baseline(kept) # {} THEN Baseline(kept) ELSE kept IN
         /\ lists' = [lists EXCEPT !.excluded = @ \cup wrong]
         /\ analyses' = [t \in Tags |-> IF t \in wrong THEN None ELSE analyses[t]]
         /\ finalists' = Best(pool, Order(kept), 2 * TopN)
  /\ pc' = IF "tag" \in opts.checks /\ finalists' # {} THEN "verify" ELSE "select"
  /\ checks' = {}
  /\ UNCHANGED <<opts, late, db, confirmed, work, rows, scans, pending, result, final>>

\* _verify_tags: the registry answers for one candidate after the other.
VerifyTag(t) ==
  /\ pc = "verify" /\ t \in finalists \ checks
  /\ \E exists \in {"true", "false", "unknown"} :
       /\ analyses' = [analyses EXCEPT ![t].tag = exists]
       /\ lists' = IF exists # "false" THEN lists
                   ELSE [lists EXCEPT !.unverified = @ \cup {analyses[t].of}]
  /\ checks' = checks \cup {t}
  /\ UNCHANGED <<opts, pc, late, db, confirmed, work, rows, scans, finalists, pending, result, final>>

VerifiedKeepsDenied ==
  /\ pc = "verify" /\ checks = finalists
  /\ pc' = "select" /\ checks' = {}
  /\ UNCHANGED <<opts, late, db, confirmed, work, analyses, lists, rows, scans, finalists, pending,
                 result, final>>

Verified ==
  /\ pc = "verify"
  /\ \/ checks = finalists /\ UNCHANGED pending
     \/ late /\ CutBy("tag")
  /\ finalists' = {t \in finalists : analyses[t].tag # "false"}
  /\ pc' = "select" /\ checks' = {}
  /\ UNCHANGED <<opts, late, db, confirmed, work, analyses, lists, rows, scans, result, final>>

\* The two checks of the selected run beside each other, each within the budget.
Select ==
  /\ pc = "select"
  /\ finalists' = Best(finalists, Order(Measured), TopN)
  /\ checks' = {c \in {"inspection", "second"} : c \in opts.checks /\ finalists' # {}}
  /\ pc' = "check"
  /\ UNCHANGED <<opts, late, db, confirmed, work, analyses, lists, rows, scans, pending, result, final>>

Check(c) ==
  /\ pc = "check" /\ c \in checks
  /\ \E S \in SUBSET finalists :
       /\ S = finalists \/ late \/ c = "second"
       /\ analyses' = [t \in Tags |->
            IF t \notin S THEN analyses[t]
            ELSE IF c = "second" THEN [analyses[t] EXCEPT !.second = TRUE]
                                 ELSE [analyses[t] EXCEPT !.inspected = TRUE]]
  /\ IF late THEN CutBy(c) ELSE UNCHANGED pending
  /\ checks' = checks \ {c}
  /\ UNCHANGED <<opts, pc, late, db, confirmed, work, lists, rows, scans, finalists, result, final>>

FinishAsked ==
  /\ pc = "check" /\ checks = {} /\ pending = {}
  /\ UNCHANGED pending
  /\ Answer(Measured, finalists, Baseline(Measured) # {})
  /\ pc' = "close"
  /\ UNCHANGED <<opts, late, db, confirmed, work, analyses, lists, rows, scans, finalists, checks>>

Finish ==
  /\ pc = "check" /\ checks = {}
  /\ UNCHANGED pending
  /\ Answer(Measured, finalists, Baseline(Measured) # {})
  /\ pc' = "close"
  /\ UNCHANGED <<opts, late, db, confirmed, work, analyses, lists, rows, scans, finalists, checks>>

(***************************************************************************)
(* execute: an interrupt emits the final event of a cancelled run, another *)
(* exception emits none; the clients are closed in any case.               *)
(***************************************************************************)
Interrupted ==
  /\ pc \notin {"close", "closed", "stop", "stop and raise"}
  /\ IF pc = "search" THEN pc' = "stop and raise" /\ UNCHANGED db
                      ELSE pc' = "close" /\ db' = "ended"
  /\ final' = "CANCELLED"
  /\ UNCHANGED <<opts, late, confirmed, work, analyses, lists, rows, scans, finalists, checks,
                 pending, result>>

\* Elsewhere an exception of a check ends the run.
Raised ==
  /\ pc \in {"stage", "verify", "check"}
  /\ pc' = "close"
  /\ UNCHANGED <<opts, late, db, confirmed, work, analyses, lists, rows, scans, finalists, checks,
                 pending, result, final>>

Close ==
  /\ pc = "close"
  /\ pc' = "closed"
  /\ UNCHANGED <<opts, late, db, confirmed, work, analyses, lists, rows, scans, finalists, checks,
                 pending, result, final>>

OfTag(t) == GetCached(t) \/ Measure(t) \/ Skip(t) \/ Enrich(t) \/ ScoreIt(t) \/ VerifyTag(t)
Work ==
  \/ DbEnds \/ Search \/ SearchEndsBadly \/ Stop \/ PlanScans
  \/ \E t \in Tags : OfTag(t)
  \/ EnrichStage \/ Pool \/ Verified \/ Select
  \/ \E c \in checks : Check(c)
  \/ Finish \/ Close
Next == Expire \/ Interrupted \/ Raised \/ Work

\* Every await has a timeout of its own, so the run's steps are taken.
Spec == Init /\ [][Next]_vars /\ WF_vars(Work)
-----------------------------------------------------------------------------
Ended == pc \in {"close", "closed"} /\ result # None /\ final # "CANCELLED"

(***************************************************************************)
(* Nothing that was discovered is lost or counted twice: a tag of a run    *)
(* that got past discovery is measured, unverified, deferred, out of time  *)
(* or excluded, and only one whose tag the registry denies is both         *)
(* measured and unverified.  That one is not shown.                        *)
(***************************************************************************)
AccountsForAll ==
  LET homes(t) == {h \in DOMAIN lists : t \in lists[h]} \cup {h \in {"measured"} : t \in Measured}
      denied   == {analyses[t].of : t \in {u \in Measured : analyses[u].tag = "false"}}
  IN  Ended /\ "discovery" \notin result.pending =>
        \A t \in Tags :
          \/ Cardinality(homes(t)) = 1
          \/ homes(t) = {"measured", "unverified"} /\ t \in denied
             /\ \A s \in result.selected : analyses[s].tag # "false"

(***************************************************************************)
(* A result says how much of the run it stands for: COMPLETE only when no  *)
(* scan and no check was cut off, PARTIAL only with a measurement; every   *)
(* finalist without a check that was asked for has that check pending; and *)
(* an image of a run that met the baseline is not known to be end of life  *)
(* and has no criticals.                                                   *)
(***************************************************************************)
SaysHowMuch ==
  /\ result.completeness = "COMPLETE" =>
       /\ lists.timedOut = {}
       /\ "inspection" \in opts.checks => \A t \in result.selected : analyses[t].inspected
  /\ result.completeness = "NO_RESULT" => Measured = {}
  /\ result.completeness = "PARTIAL" => Measured # {}
  /\ \A t \in result.selected : analyses[t].second \/ "second" \in result.pending

MeetsTheBaseline ==
  result.met =>
    \A t \in result.selected : Criticals[DigestOf[analyses[t].of]] = 0 /\ analyses[t].eol # "true"

ResultIsHonest == Ended => SaysHowMuch /\ MeetsTheBaseline

\* _set_cached: an unanswered enrichment is not frozen into the store.
NothingUnansweredStored ==
  \A d \in Digests : rows[d] # None => rows[d].intel \/ ~Notable(d)

\* execute: the refresh does not outlive the run, whatever ends it.
NoRefreshLeft == pc \in {"close", "closed"} => db # "running"

\* What a run leaves behind, however it ends: no unanswered row, no refresh.
LeavesCleanly == NothingUnansweredStored /\ NoRefreshLeft

\* Every run ends, and with its clients closed.
EveryRunEnds == <>(pc = "closed")
-----------------------------------------------------------------------------
\* _for_caller: "the scan is shared; what the caller asked for is its own".
\* The code does not keep it: an evaluation that is stored under a digest is
\* served, image and all, to any tag of that digest.
EachTagItsOwn == \A t \in Measured : analyses[t].of = t

\* _enrich_stage: "all of them, or only the best ranked": with every candidate
\* asked for and nothing cut off, the feeds were asked about all of them.
\* The code does not keep it: tags that the cache answered are not awaited.
EveryoneEnriched ==
  Ended /\ opts.everyone /\ opts.staged /\ result.completeness = "COMPLETE" =>
    \A t \in Measured : Notable(DigestOf[t]) => analyses[t].origin # "cache" \/ analyses[t].intel
==============================================================================
