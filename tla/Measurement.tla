----------------------------- MODULE Measurement -----------------------------
(***************************************************************************)
(* dockerls/application/services/measurement.py: the service every command *)
(* asks to measure an image.  One run of one command is modelled: a set of *)
(* concurrent measure() calls, the optional engine batch before them, the  *)
(* single-flight table they share, the database preparation, the scan      *)
(* slots, the time budget and the persistent store of earlier scans.       *)
(*                                                                         *)
(* The single-flight table is module SingleFlight; a measure() call is one *)
(* of its callers, and the task of a flight is _measure_once of the request *)
(* that created it.  One repository and one platform are modelled, so an   *)
(* image is a tag, the digest the user wrote (pin) and the digest the      *)
(* discovery source reported (hint).                                       *)
(***************************************************************************)
EXTENDS Naturals, FiniteSets

CONSTANTS Requests,        \* calls of measure()
          Tags, Digests,   \* what a reference can name
          None,
          ImageOf,         \* the image of a request: [tag, pin, hint]
          Stored,          \* the digests earlier runs may have filed a scan of
          MaxConcurrency,  \* scan slots
          MaxMoves,        \* bound: how often a tag is re-pointed
          MaxRevision      \* bound: revisions of the vulnerability database

ASSUME RequestsFinite == IsFiniteSet(Requests)
ASSUME NoneIsNew == None \notin Requests \cup Digests \cup Tags
ASSUME ImagesAreImages ==
  ImageOf \in [Requests -> [tag : Tags, pin : Digests \cup {None}, hint : Digests \cup {None}]]
ASSUME StoredAreDigests == Stored \subseteq Digests
ASSUME BoundsAreNumbers ==
  MaxConcurrency \in Nat \ {0} /\ MaxMoves \in Nat /\ MaxRevision \in Nat

Revisions == 0..MaxRevision

(***************************************************************************)
(* What makes two requests the same measurement within a run (_run_key).   *)
(***************************************************************************)
RunKeys == ({"confirmed", "hinted"} \X Digests) \cup ({"unconfirmed"} \X Tags)

(***************************************************************************)
(* References handed to a scanner: a digest, a tag, or the text of a run   *)
(* key, which is not an image reference.                                   *)
(***************************************************************************)
ByDigest(d) == [kind |-> "digest", name |-> d]
ByTag(t)    == [kind |-> "tag", name |-> t]
ByKey(k)    == [kind |-> "key", name |-> k]

(***************************************************************************)
(* ResolvedIdentity, as far as measuring depends on it.                    *)
(***************************************************************************)
Identities == [status : {"confirmed"}, digest : Digests]
                \cup [status : {"unresolved", "mismatch"}, digest : {None}]
Confirmed(d) == [status |-> "confirmed", digest |-> d]
Unresolved   == [status |-> "unresolved", digest |-> None]
Mismatch     == [status |-> "mismatch", digest |-> None]

(***************************************************************************)
(* A measurement: of which bytes, with which revision of the database, or  *)
(* why there is none.                                                      *)
(***************************************************************************)
Failures == {"scanner", "deadline", "platform", "reference"}
Results  == [why : {"verified"}, bytes : Digests, rev : Revisions]
              \cup [why : Failures, bytes : {None}, rev : {None}]
Verified(d, r) == [why |-> "verified", bytes |-> d, rev |-> r]
Failed(why)    == [why |-> why, bytes |-> None, rev |-> None]

Rows == [bytes : Digests, rev : Revisions, used : Revisions]

ASSUME NoneIsNoValue == None \notin RunKeys \cup Revisions \cup Identities \cup Results \cup Rows

VARIABLES
  \* SingleFlight: the table of _scan_flight and the measure() calls in it
  table, work, forgotten, waiters, pc, key, joined, cancelled,
  \* the registry, the database on disk, the clock, the store
  tagBytes, moves, revision, budget, store,
  \* the service
  known,        \* identities the resolver remembers, by tag and pin
  hint,         \* DockerImage.digest of each request
  prepared,     \* "no", "refreshing", "ready" or "failed"
  fingerprint,  \* revision of the memoised scanner fingerprint
  prefetched,   \* _prefetched
  finished,     \* _finished
  stage,        \* where the task of a flight is in _measure_once
  result,       \* what that task produced
  \* the requests
  ask,          \* a resolved request: its identity, run key and reference
  answer,       \* what measure() returned
  \* the driver
  phase,        \* "prescan", then "measure"
  looked,       \* the requests prescan has looked at
  batch,        \* what prescan collected for the engine
  stopping      \* the run has been cancelled

flightVars  == <<table, work, forgotten, waiters, pc, key, joined, cancelled>>
worldVars   == <<tagBytes, moves, revision, budget>>
idVars      == <<known, hint>>
serviceVars == <<idVars, prepared, fingerprint>>
taskVars    == <<stage, result>>
driverVars  == <<phase, looked, batch, stopping>>
vars == <<flightVars, worldVars, store, serviceVars, prefetched, finished, taskVars,
          ask, answer, driverVars>>

SF == INSTANCE SingleFlight WITH Keys <- RunKeys, Callers <- Requests

Images == {[tag |-> ImageOf[r].tag, pin |-> ImageOf[r].pin] : r \in Requests}
ImageRef(r) == [tag |-> ImageOf[r].tag, pin |-> ImageOf[r].pin]

Init ==
  /\ SF!Init
  /\ tagBytes \in [Tags -> Digests]
  /\ moves = 0
  /\ revision = 0
  /\ budget = "ample"
  /\ \E rows \in SUBSET Stored :
       store = [d \in Digests |->
                  IF d \in rows THEN [bytes |-> d, rev |-> 0, used |-> 0] ELSE None]
  /\ known = [i \in Images |-> None]
  /\ hint = [r \in Requests |-> ImageOf[r].hint]
  /\ prepared = "no"
  /\ fingerprint = None
  /\ prefetched = [k \in RunKeys |-> None]
  /\ finished = [k \in RunKeys |-> None]
  /\ stage = [r \in Requests |-> "none"]
  /\ result = [r \in Requests |-> None]
  /\ ask = [r \in Requests |-> None]
  /\ answer = [r \in Requests |-> None]
  /\ phase \in {"prescan", "measure"}
  /\ looked = {}
  /\ batch = {}
  /\ stopping = FALSE

-----------------------------------------------------------------------------
(***************************************************************************)
(* The world, while the run lasts: tags are re-pointed, the clock runs     *)
(* down.  budget is what                                                   *)
(* Deadline.allows(MIN_SCAN_SECONDS) and Deadline.remaining() can tell:    *)
(* enough to start a scan, too little to start one, nothing left.          *)
(***************************************************************************)
InProgress == \E r \in Requests : answer[r] = None /\ pc[r] \notin SF!Left

MoveTag ==
  /\ InProgress /\ ~stopping
  /\ moves < MaxMoves
  /\ moves' = moves + 1
  /\ \E t \in Tags, d \in Digests : d # tagBytes[t] /\ tagBytes' = [tagBytes EXCEPT ![t] = d]
  /\ UNCHANGED <<flightVars, revision, budget, store, serviceVars, prefetched, finished,
                 taskVars, ask, answer, driverVars>>

Spend ==
  /\ InProgress /\ ~stopping
  /\ budget # "spent"
  /\ budget' = IF budget = "ample" THEN "short" ELSE "spent"
  /\ UNCHANGED <<flightVars, tagBytes, moves, revision, store, serviceVars, prefetched,
                 finished, taskVars, ask, answer, driverVars>>

(***************************************************************************)
(* resolve(): what the registry says of an image, remembered per run by    *)
(* the resolver; without time left the registry is not asked, and an error *)
(* is not remembered.                                                      *)
(***************************************************************************)
Registry(i) == IF i.pin # None THEN i.pin ELSE tagBytes[i.tag]

Learns(i, identity) ==
  \/ budget = "spent" /\ identity = Unresolved /\ UNCHANGED known
  \/ /\ budget # "spent" /\ known[i] # None
     /\ identity = known[i]
     /\ UNCHANGED known
  \/ /\ budget # "spent" /\ known[i] = None
     /\ \/ /\ identity \in {Confirmed(Registry(i)), Unresolved, Mismatch}
           /\ known' = [known EXCEPT ![i] = identity]
        \/ identity = Unresolved /\ UNCHANGED known

\* _apply_identity: what is known of the image is written on it.
Written(r, identity) ==
  IF identity.status = "confirmed" THEN identity.digest
  ELSE IF ImageOf[r].pin # None THEN ImageOf[r].pin
  ELSE hint[r]

Resolves(r, identity) ==
  /\ Learns(ImageRef(r), identity)
  /\ hint' = [hint EXCEPT ![r] = Written(r, identity)]

\* Mutants of MeasuredReference: a tag is handed over as it is; the digest a
\* discovery source reported is believed.
MeasuredByTag(r, identity) ==
  IF ImageOf[r].pin # None THEN ByDigest(ImageOf[r].pin) ELSE ByTag(ImageOf[r].tag)

MeasuredByHint(r, identity) ==
  IF identity.status = "confirmed" THEN ByDigest(identity.digest) ELSE ByDigest(hint[r])

\* _measured_reference
MeasuredReference(r, identity) ==
  IF identity.status = "confirmed" THEN ByDigest(identity.digest)
  ELSE IF ImageOf[r].pin # None THEN ByDigest(ImageOf[r].pin)
  ELSE ByTag(ImageOf[r].tag)

\* _run_key, of an image that has its identity written on it
RunKey(r, identity) ==
  IF identity.status = "confirmed" THEN <<"confirmed", identity.digest>>
  ELSE IF Written(r, identity) # None THEN <<"hinted", Written(r, identity)>>
  ELSE <<"unconfirmed", ImageOf[r].tag>>

Askings == [identity : Identities, key : RunKeys,
             ref : {ByDigest(d) : d \in Digests} \cup {ByTag(t) : t \in Tags}]

ASSUME NoneAsksNothing == None \notin Askings

Asking(r, identity) ==
  [identity |-> identity, key |-> RunKey(r, identity), ref |-> MeasuredReference(r, identity)]

-----------------------------------------------------------------------------
(***************************************************************************)
(* The persistent store (get_scan, put_scan): a row is reused only for its *)
(* own digest and the database revision of the memoised fingerprint.       *)
(***************************************************************************)
\* Mutant of Hit: the database revision is not compared.
HitAnyRevision(d) == store[d] # None

Hit(d) == store[d] # None /\ store[d].rev = fingerprint

Put(identity, res) ==
  IF identity.status = "confirmed" /\ res.why = "verified"
    THEN \/ store' = [store EXCEPT ![identity.digest] =
                        [bytes |-> res.bytes, rev |-> fingerprint, used |-> res.rev]]
         \/ UNCHANGED store      \* the write failed; only the reuse is lost
    ELSE UNCHANGED store

\* What a scanner may report of a reference.
Scans(ref) ==
  CASE ref.kind = "digest" -> {Verified(ref.name, revision), Failed("scanner")}
    [] ref.kind = "tag"    -> {Verified(tagBytes[ref.name], revision), Failed("scanner")}
    [] ref.kind = "key"    -> {Failed("reference")}

-----------------------------------------------------------------------------
(***************************************************************************)
(* Preparation: the database is refreshed by one flight of the whole run,  *)
(* and the scanner is fingerprinted after it, whatever came of it.         *)
(***************************************************************************)
Preparing == {f \in Requests : stage[f] = "prepare" /\ work[f] \in SF!Live}

StartRefresh ==
  /\ prepared = "no"
  /\ \/ phase = "prescan" /\ ~stopping
     \/ Preparing # {} /\ budget # "spent"
  /\ prepared' = "refreshing"
  /\ UNCHANGED <<flightVars, worldVars, store, idVars, fingerprint, prefetched, finished,
                 taskVars, ask, answer, driverVars>>

RefreshEndsReading(old) ==
  /\ prepared = "refreshing"
  /\ \/ prepared' = "failed" /\ UNCHANGED revision
     \/ /\ prepared' = "ready"
        /\ \E r \in Revisions : r \in {revision, revision + 1} /\ revision' = r
  /\ fingerprint' = IF old THEN revision ELSE revision'
  /\ UNCHANGED <<flightVars, tagBytes, moves, budget, store, idVars, prefetched, finished,
                 taskVars, ask, answer, driverVars>>

\* Mutant of RefreshEnds: the scanner is fingerprinted before the refresh.
FingerprintFirst == RefreshEndsReading(TRUE)

RefreshEnds == RefreshEndsReading(FALSE)

\* The refresh is cancelled when the last of those that await it leaves.
\* Mutant of LeavesRefresh: it goes on for nobody.
RefreshGoesOn(f) == UNCHANGED prepared

LeavesRefresh(f) ==
  prepared' = IF prepared = "refreshing" /\ Preparing = {f} THEN "no" ELSE prepared

-----------------------------------------------------------------------------
(***************************************************************************)
(* prescan(): the images are pinned, stored scans are prefetched, every    *)
(* other key is sent to the engine once. What the engine is handed is the  *)
(* text of the run key. The store may fail to read a row that is there.    *)
(***************************************************************************)
Prepared == prepared \in {"ready", "failed"}

PrescanLook(r) ==
  /\ phase = "prescan" /\ ~stopping /\ Prepared
  /\ r \notin looked
  /\ looked' = looked \cup {r}
  /\ \E identity \in Identities :
       /\ Resolves(r, identity)
       /\ LET a == Asking(r, identity)
              seen == prefetched[a.key] # None \/ \E b \in batch : b.key = a.key
              row == store[identity.digest]
          IN \/ /\ identity = Mismatch \/ seen
                /\ UNCHANGED <<prefetched, batch>>
             \/ /\ identity # Mismatch /\ ~seen
                /\ identity.status = "confirmed" /\ Hit(identity.digest)
                /\ prefetched' = [prefetched EXCEPT ![a.key] = Verified(row.bytes, row.used)]
                /\ UNCHANGED batch
             \/ /\ identity # Mismatch /\ ~seen
                /\ batch' = batch \cup {a}
                /\ UNCHANGED prefetched
  /\ UNCHANGED <<flightVars, worldVars, store, prepared, fingerprint, finished, taskVars,
                 ask, answer, phase, stopping>>

BatchTarget(a) == ByKey(a.key)

EngineScans(a) ==
  /\ phase = "prescan" /\ ~stopping /\ looked = Requests
  /\ budget = "ample"
  /\ batch' = batch \ {a}
  /\ \E res \in Scans(BatchTarget(a)) :
       /\ prefetched' = [prefetched EXCEPT ![a.key] = res]
       /\ Put(a.identity, res)
  /\ UNCHANGED <<flightVars, worldVars, serviceVars, finished, taskVars, ask, answer,
                 phase, looked, stopping>>

\* Nothing is left, the budget ended, or the engine declined the rest.
PrescanEnds ==
  /\ phase = "prescan" /\ ~stopping /\ looked = Requests
  /\ phase' = "measure"
  /\ looked' = {}
  /\ batch' = {}
  /\ UNCHANGED <<flightVars, worldVars, store, serviceVars, prefetched, finished, taskVars,
                 ask, answer, stopping>>

-----------------------------------------------------------------------------
(***************************************************************************)
(* measure(): the image is pinned; then, in one step, a prefetched result  *)
(* is handed out, or a finished one, or the request creates or joins the   *)
(* flight of its key.                                                      *)
(***************************************************************************)
Resolve(r) ==
  /\ phase = "measure" /\ ~stopping
  /\ ask[r] = None
  /\ \E identity \in Identities :
       /\ Resolves(r, identity)
       /\ ask' = [ask EXCEPT ![r] = Asking(r, identity)]
  /\ UNCHANGED <<flightVars, worldVars, store, prepared, fingerprint, prefetched, finished,
                 taskVars, answer, driverVars>>

Asked(r) == ask[r] # None /\ answer[r] = None /\ pc[r] = "idle" /\ ~stopping

Answers(r, res) == answer' = [answer EXCEPT ![r] = res]

AnswerAtOnce(r) ==
  /\ Asked(r)
  /\ LET k == ask[r].key IN
     \/ /\ ask[r].identity = Mismatch
        /\ Answers(r, Failed("platform"))
        /\ UNCHANGED <<prefetched, finished>>
     \/ /\ ask[r].identity # Mismatch
        /\ prefetched[k] # None
        /\ prefetched' = [prefetched EXCEPT ![k] = None]
        /\ finished' = [finished EXCEPT ![k] = prefetched[k]]
        /\ Answers(r, prefetched[k])
     \/ /\ ask[r].identity # Mismatch
        /\ prefetched[k] = None /\ finished[k] # None
        /\ Answers(r, finished[k])
        /\ UNCHANGED <<prefetched, finished>>
  /\ UNCHANGED <<flightVars, worldVars, store, serviceVars, taskVars, ask, driverVars>>

MustMeasure(r) ==
  /\ Asked(r)
  /\ ask[r].identity # Mismatch
  /\ prefetched[ask[r].key] = None
  /\ finished[ask[r].key] = None

StartMeasuring(r) ==
  /\ MustMeasure(r)
  /\ SF!Start(r, ask[r].key)
  /\ stage' = [stage EXCEPT ![r] = "prepare"]
  /\ UNCHANGED <<worldVars, store, serviceVars, prefetched, finished, result, ask, answer,
                 driverVars>>

\* A flight that has ended but is still in the table answers at once.
Delivered(r, f) ==
  IF work[f] = "ok"
    THEN /\ Answers(r, result[f])
         /\ finished' = [finished EXCEPT ![ask[r].key] = result[f]]
    ELSE UNCHANGED <<answer, finished>>

JoinMeasuring(r) ==
  /\ MustMeasure(r)
  /\ SF!Join(r, ask[r].key)
  /\ Delivered(r, table[ask[r].key])
  /\ UNCHANGED <<worldVars, store, serviceVars, prefetched, taskVars, ask, driverVars>>

-----------------------------------------------------------------------------
(***************************************************************************)
(* _measure_once: the task of the flight request f created.                *)
(***************************************************************************)
At(f, s) == stage[f] = s /\ work[f] = "running"

GoesTo(f, s) == stage' = [stage EXCEPT ![f] = s]

TaskEnds(f, res) ==
  /\ SF!Finish(f) /\ work'[f] = "ok"
  /\ GoesTo(f, "done")
  /\ result' = [result EXCEPT ![f] = res]

PreparedOrLate(f, done) ==
  /\ At(f, "prepare")
  /\ \/ /\ budget # "spent" /\ done
        /\ GoesTo(f, "lookup")
        /\ UNCHANGED <<flightVars, prepared, result>>
     \/ /\ budget = "spent"
        /\ LeavesRefresh(f)
        /\ TaskEnds(f, Failed("deadline"))
  /\ UNCHANGED <<worldVars, store, idVars, fingerprint, prefetched, finished, ask, answer,
                 driverVars>>

\* Mutant of AfterPrepare: a refresh that failed is not taken for an answer.
OnlyWhenReady(f) == PreparedOrLate(f, prepared = "ready")

AfterPrepare(f) == PreparedOrLate(f, Prepared)

\* The store is asked about a confirmed identity; an unreadable row is a miss.
LookUp(f) ==
  LET id == ask[f].identity IN
  /\ At(f, "lookup")
  /\ \/ /\ id.status = "confirmed" /\ Hit(id.digest)
        /\ TaskEnds(f, Verified(store[id.digest].bytes, store[id.digest].used))
     \/ GoesTo(f, "queued") /\ UNCHANGED <<flightVars, result>>
  /\ UNCHANGED <<worldVars, store, serviceVars, prefetched, finished, ask, answer, driverVars>>

\* Scanner processes: those of cancelled tasks run until their task unwinds.
Scanning == {f \in Requests : stage[f] = "scanning"}

\* Mutant of SlotFree: cancelling a scan frees its slot at once.
SlotFreedEarly == Cardinality({f \in Scanning : work[f] = "running"}) < MaxConcurrency

SlotFree == Cardinality(Scanning) < MaxConcurrency

TakeSlot(f) ==
  /\ At(f, "queued")
  /\ SlotFree
  /\ \/ budget = "ample" /\ GoesTo(f, "scanning") /\ UNCHANGED <<flightVars, result>>
     \/ budget # "ample" /\ TaskEnds(f, Failed("deadline"))
  /\ UNCHANGED <<worldVars, store, serviceVars, prefetched, finished, ask, answer, driverVars>>

\* The scanner answers, or the budget ends and it is cancelled, or it raises.
ScanEnds(f) ==
  /\ At(f, "scanning")
  /\ \/ \E res \in Scans(ask[f].ref) :
          IF res.why = "verified"
            THEN /\ GoesTo(f, "storing")
                 /\ result' = [result EXCEPT ![f] = res]
                 /\ UNCHANGED flightVars
            ELSE TaskEnds(f, res)
     \/ budget = "spent" /\ TaskEnds(f, Failed("deadline"))
     \/ SF!Finish(f) /\ work'[f] = "failed" /\ GoesTo(f, "done") /\ UNCHANGED result
  /\ UNCHANGED <<worldVars, store, serviceVars, prefetched, finished, ask, answer, driverVars>>

Store(f) ==
  /\ At(f, "storing")
  /\ Put(ask[f].identity, result[f])
  /\ TaskEnds(f, result[f])
  /\ UNCHANGED <<worldVars, serviceVars, prefetched, finished, ask, answer, driverVars>>

(***************************************************************************)
(* Cancellation of the run reaches every request; the last one to leave a  *)
(* flight cancels its task, whose scanner is reaped before it unwinds.     *)
(***************************************************************************)
Unwind(f) ==
  /\ SF!Unwind(f) /\ work'[f] = "cancelled"
  /\ LeavesRefresh(f)
  /\ GoesTo(f, "done")
  /\ UNCHANGED <<worldVars, store, idVars, fingerprint, prefetched, finished, result, ask, answer,
                 driverVars>>

CancelRun ==
  /\ InProgress /\ ~stopping
  /\ stopping' = TRUE
  /\ prepared' = IF phase = "prescan" /\ prepared = "refreshing" THEN "no" ELSE prepared
  /\ UNCHANGED <<flightVars, worldVars, store, idVars, fingerprint, prefetched, finished,
                 taskVars, ask, answer, phase, looked, batch>>

Cancel(r) ==
  /\ stopping
  /\ SF!Cancel(r)
  /\ UNCHANGED <<worldVars, store, serviceVars, prefetched, finished, taskVars, ask, answer,
                 driverVars>>

\* A waiting request resumes: the result is remembered and returned.
Resume(r) ==
  /\ SF!Resume(r)
  /\ Delivered(r, joined[r])
  /\ UNCHANGED <<worldVars, store, serviceVars, prefetched, taskVars, ask, driverVars>>

OnDone(f) == SF!OnDone(f) /\ UNCHANGED <<worldVars, store, serviceVars, prefetched, finished,
                                        taskVars, ask, answer, driverVars>>

Reap(r) == SF!Reap(r) /\ UNCHANGED <<worldVars, store, serviceVars, prefetched, finished,
                                    taskVars, ask, answer, driverVars>>

-----------------------------------------------------------------------------
Task(f) == AfterPrepare(f) \/ LookUp(f) \/ TakeSlot(f) \/ ScanEnds(f) \/ Store(f)
             \/ Unwind(f) \/ OnDone(f)

Request(r) == Resolve(r) \/ AnswerAtOnce(r) \/ StartMeasuring(r) \/ JoinMeasuring(r)
                \/ Resume(r) \/ Reap(r)

Driver == StartRefresh \/ RefreshEnds \/ PrescanEnds
            \/ (\E r \in Requests : PrescanLook(r)) \/ (\E a \in batch : EngineScans(a))

Next ==
  \/ MoveTag \/ Spend \/ CancelRun
  \/ Driver
  \/ \E r \in Requests : Task(r) \/ Request(r) \/ Cancel(r)

(***************************************************************************)
(* The event loop runs what is ready; a registry, a refresh and a scanner  *)
(* each have a timeout of their own, so they end. Nothing makes the clock, *)
(* a tag or the user move.                                                 *)
(***************************************************************************)
Fairness ==
  /\ WF_vars(Driver)
  /\ \A r \in Requests : WF_vars(Task(r)) /\ WF_vars(Request(r))

Spec == Init /\ [][Next]_vars

FairSpec == Spec /\ Fairness

-----------------------------------------------------------------------------
\* Every variable has the shape the code gives it.
TypeOK ==
  /\ SF!TypeOK
  /\ tagBytes \in [Tags -> Digests]
  /\ moves \in 0..MaxMoves
  /\ revision \in Revisions
  /\ budget \in {"ample", "short", "spent"}
  /\ store \in [Digests -> Rows \cup {None}]
  /\ known \in [Images -> Identities \cup {None}]
  /\ hint \in [Requests -> Digests \cup {None}]
  /\ prepared \in {"no", "refreshing", "ready", "failed"}
  /\ fingerprint \in Revisions \cup {None}
  /\ prefetched \in [RunKeys -> Results \cup {None}]
  /\ finished \in [RunKeys -> Results \cup {None}]
  /\ stage \in [Requests -> {"none", "prepare", "lookup", "queued", "scanning", "storing", "done"}]
  /\ result \in [Requests -> Results \cup {None}]
  /\ ask \in [Requests -> Askings \cup {None}]
  /\ answer \in [Requests -> Results \cup {None}]
  /\ phase \in {"prescan", "measure"}
  /\ looked \in SUBSET Requests
  /\ batch \in SUBSET Askings
  /\ stopping \in BOOLEAN

\* A row of the store is what it is filed as: the bytes of its digest, as the
\* database revision it names saw them. A tag that is re-pointed between the
\* resolution and the scan, or a refresh between the fingerprint and the
\* scan, would make it a lie that every later run believes.
StoredIsPinned ==
  \A d \in Digests : store[d] # None => store[d].bytes = d /\ store[d].used = store[d].rev

\* Whatever way a request got its answer (its own scan, another request's,
\* the store, the prefetch), a verified answer for a confirmed identity
\* measured the bytes of that identity.
AnswerIsForIdentity ==
  \A r \in Requests :
    answer[r] # None /\ answer[r].why = "verified" /\ ask[r].identity.status = "confirmed"
      => answer[r].bytes = ask[r].identity.digest

\* A verified answer was produced with the revision of the database this run
\* prepared, also when it came from the store.
AnswerIsCurrent ==
  \A r \in Requests :
    answer[r] # None /\ answer[r].why = "verified" => answer[r].rev = fingerprint

\* Never more scanner processes than slots, those of cancelled tasks that are
\* still being reaped included.
SlotsRespected == Cardinality(Scanning) <= MaxConcurrency

\* Once the requests of a cancelled run have left, nothing is left running
\* for them: no task, no scanner, no database refresh.
NothingOutlivesTheRun ==
  stopping /\ (\A r \in Requests : pc[r] \notin {"waiting", "reaping"})
    => /\ \A f \in Requests : work[f] \notin SF!Live
       /\ Scanning = {}
       /\ prepared # "refreshing"

\* measure() ends for every request: with an answer, the exception of the
\* scanner, or because the run was cancelled.
EveryRequestAnswered ==
  \A r \in Requests : <>(answer[r] # None \/ pc[r] = "failed" \/ stopping)

\* "Concurrent calls for the same identity share one scan; the result is
\* remembered for the rest of the run": no tag is scanned by two tasks, both
\* with success. The code does not keep it: the table forgets a flight as soon
\* as its task is done, the result is remembered only when a waiting request
\* resumes, and a request that asks in between starts the scan again.
MeasuredOnce ==
  \A f, g \in Requests :
    /\ work[f] = "ok" /\ result[f].why = "verified" /\ ask[f].identity = Unresolved
    /\ work[g] = "ok" /\ result[g].why = "verified" /\ ask[g].identity = Unresolved
    /\ key[f] = key[g]
    => f = g

\* "The scanner is then handed name@sha256:..., never the tag": no image is
\* refused because what the scanner got is not a reference. The code does not
\* keep it: prescan hands the engine the text of the run key.
NoReferenceRefused == \A r \in Requests : answer[r] # None => answer[r].why # "reference"

=============================================================================
