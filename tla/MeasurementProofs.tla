-------------------------- MODULE MeasurementProofs --------------------------
(***************************************************************************)
(* Proofs about Measurement, for any requests, tags, digests, slots and    *)
(* bounds.  A run of the service is a behaviour of its single-flight       *)
(* table, so what SingleFlightProofs shows of the table holds here; on top *)
(* of it the measurement that is stored, remembered or answered under a    *)
(* key is followed from the scanner to the caller.                         *)
(***************************************************************************)
EXTENDS Measurement, FiniteSetTheorems, TLAPS

SFP == INSTANCE SingleFlightProofs WITH Keys <- RunKeys, Callers <- Requests

(***************************************************************************)
(* What may be kept under a key: a measurement made with the database of   *)
(* this run and, for a confirmed identity, of its bytes.                   *)
(***************************************************************************)
IsVerified(res) == res # None /\ res.why = "verified"

SoundFor(k, res) ==
  IsVerified(res) =>
    /\ Prepared
    /\ res.rev = fingerprint
    /\ \A d \in Digests : k = <<"confirmed", d>> => res.bytes = d

\* A resolved request is filed, and scanned, under what was confirmed of it.
AsksWhatWasConfirmed(a) ==
  \A d \in Digests :
    /\ a.key = <<"confirmed", d>> <=> a.identity = Confirmed(d)
    /\ a.identity = Confirmed(d) => a.ref = ByDigest(d)

(***************************************************************************)
(* The inductive invariant.                                                *)
(***************************************************************************)
FingerprintIsCurrent == IF Prepared THEN fingerprint = revision ELSE fingerprint = None

StageFollowsWork ==
  \A f \in Requests : /\ stage[f] = "none" <=> work[f] = "none"
                      /\ stage[f] = "done" <=> work[f] \in SF!Ended

PreparedBeforeScanning ==
  \A f \in Requests : stage[f] \in {"lookup", "queued", "scanning", "storing"} => Prepared

MeasuresWhatItAsked ==
  /\ \A r \in Requests : pc[r] # "idle" => ask[r] # None /\ ask[r].key = key[r]
  /\ \A r \in Requests : ask[r] # None => AsksWhatWasConfirmed(ask[r])

RemembersSound == \A k \in RunKeys : SoundFor(k, prefetched[k]) /\ SoundFor(k, finished[k])

ProducesSound ==
  \A f \in Requests : /\ stage[f] = "storing" => IsVerified(result[f])
                      /\ result[f] # None => ask[f] # None /\ SoundFor(ask[f].key, result[f])

AnswersSound ==
  \A r \in Requests : answer[r] # None => ask[r] # None /\ SoundFor(ask[r].key, answer[r])

\* A refresh is awaited by prescan or by a task; prescan comes after it.
RefreshIsAwaited ==
  /\ prepared = "refreshing" =>
       (phase = "prescan" /\ ~stopping) \/ Preparing # {} \/ Requests = {}
  /\ looked # {} => Prepared
  /\ stopping => Requests # {}

ServiceInv ==
  /\ TypeOK
  /\ FingerprintIsCurrent
  /\ StageFollowsWork
  /\ PreparedBeforeScanning
  /\ MeasuresWhatItAsked
  /\ RemembersSound
  /\ ProducesSound
  /\ AnswersSound
  /\ StoredIsPinned
  /\ SlotsRespected
  /\ RefreshIsAwaited

Inv == SFP!IInv /\ ServiceInv

-----------------------------------------------------------------------------
(***************************************************************************)
(* The measure() calls are callers of run(): every step of the service is  *)
(* a step of the table or leaves it alone.                                 *)
(***************************************************************************)
LEMMA FiniteCallers == SFP!IsFiniteSet(Requests)
  BY RequestsFinite DEF IsFiniteSet, SFP!IsFiniteSet

LEMMA NoneIsNoKey == None \notin Requests /\ None \notin RunKeys
  BY NoneIsNew, NoneIsNoValue

LEMMA SameTypes == SFP!TypeOK = SF!TypeOK
  BY DEF SFP!TypeOK, SF!TypeOK, SFP!WorkStates, SF!WorkStates, SFP!Live, SF!Live,
         SFP!Ended, SF!Ended, SFP!Left, SF!Left

LEMMA AskedForAKey ==
  ASSUME TypeOK, NEW r \in Requests, ask[r] # None PROVE ask[r].key \in RunKeys
  BY DEF TypeOK, Askings

LEMMA TableStep == TypeOK /\ [Next]_vars => [SF!Next]_(SF!vars)
<1> SUFFICES ASSUME TypeOK, [Next]_vars PROVE SF!Next \/ UNCHANGED SF!vars
  OBVIOUS
<1> USE DEF flightVars, SF!vars
<1>1. CASE UNCHANGED vars \/ MoveTag \/ Spend \/ CancelRun \/ Driver
  BY <1>1 DEF vars, MoveTag, Spend, CancelRun, Driver, StartRefresh, RefreshEnds,
     RefreshEndsReading, PrescanEnds, PrescanLook, EngineScans
<1>2. ASSUME NEW f \in Requests, Task(f) PROVE SF!Next \/ UNCHANGED SF!vars
  BY <1>2 DEF Task, AfterPrepare, PreparedOrLate, LookUp, TakeSlot, ScanEnds, Store, TaskEnds,
     Unwind, OnDone, SF!Next
<1>3. ASSUME NEW r \in Requests, Resolve(r) \/ AnswerAtOnce(r) PROVE UNCHANGED SF!vars
  BY <1>3 DEF Resolve, AnswerAtOnce
<1>4. ASSUME NEW r \in Requests, StartMeasuring(r) \/ JoinMeasuring(r) PROVE SF!Next
  <2>1. ask[r].key \in RunKeys
    BY <1>4, AskedForAKey DEF StartMeasuring, JoinMeasuring, MustMeasure, Asked
  <2> QED
    BY <1>4, <2>1 DEF StartMeasuring, JoinMeasuring, SF!Next
<1>5. ASSUME NEW r \in Requests, Resume(r) \/ Reap(r) \/ Cancel(r) PROVE SF!Next
  BY <1>5 DEF Resume, Reap, Cancel, SF!Next
<1> QED
  BY <1>1, <1>2, <1>3, <1>4, <1>5 DEF Next, Request

\* What SingleFlightProofs shows of the table, for the steps of the service.
LEMMA TableKeeps ==
  ASSUME SFP!IInv, TypeOK, [Next]_vars PROVE SFP!IInv'
<1>1. [SF!Next]_(SF!vars)
  BY TableStep
<1>2. SF!Next => SFP!Next
  BY DEF SF!Next, SFP!Next, SF!Start, SFP!Start, SF!Join, SFP!Join, SF!Finish, SFP!Finish,
     SF!Unwind, SFP!Unwind, SF!OnDone, SFP!OnDone, SF!Resume, SFP!Resume, SF!Cancel, SFP!Cancel,
     SF!LeaveEarly, SFP!LeaveEarly, SF!Reap, SFP!Reap, SF!Reaped, SFP!Reaped,
     SF!Live, SFP!Live, SF!Ended, SFP!Ended
<1>3. [SFP!Next]_(SFP!vars)
  BY <1>1, <1>2 DEF SF!vars, SFP!vars
<1> QED
  BY <1>3, FiniteCallers, NoneIsNoKey, SFP!StepKeeps

-----------------------------------------------------------------------------
(***************************************************************************)
(* Facts about the data.                                                   *)
(***************************************************************************)
LEMMA FailuresAreSound ==
  ASSUME NEW why \in Failures, NEW k PROVE SoundFor(k, Failed(why)) /\ Failed(why) \in Results
  BY DEF SoundFor, IsVerified, Failed, Failures, Results

LEMMA NothingIsSound == ASSUME NEW k PROVE SoundFor(k, None)
  BY DEF SoundFor, IsVerified

LEMMA VerifiedIsResult ==
  ASSUME NEW d \in Digests, NEW r \in Revisions
  PROVE  Verified(d, r) \in Results /\ IsVerified(Verified(d, r))
  BY NoneIsNoValue DEF Verified, Results, IsVerified

\* Soundness depends on the state through the preparation alone.
LEMMA SoundKept ==
  ASSUME NEW k, NEW res, SoundFor(k, res), Prepared => Prepared' /\ fingerprint' = fingerprint
  PROVE  SoundFor(k, res)'
  BY DEF SoundFor, IsVerified

\* What a resolution writes on a request is filed under what it confirmed.
LEMMA AskingIsFaithful ==
  ASSUME TypeOK, NEW r \in Requests, NEW identity \in Identities
  PROVE  Asking(r, identity) \in Askings /\ AsksWhatWasConfirmed(Asking(r, identity))
<1> USE DEF Identities, Confirmed, TypeOK
<1>1. Written(r, identity) \in Digests \cup {None}
  BY ImagesAreImages DEF Written
<1>2. RunKey(r, identity) \in RunKeys /\ (\A d \in Digests :
        RunKey(r, identity) = <<"confirmed", d>> <=> identity = Confirmed(d))
  BY <1>1, ImagesAreImages DEF RunKey, RunKeys
<1>3. MeasuredReference(r, identity) \in {ByDigest(d) : d \in Digests} \cup {ByTag(t) : t \in Tags}
  BY ImagesAreImages DEF MeasuredReference
<1>4. \A d \in Digests : identity = Confirmed(d) => MeasuredReference(r, identity) = ByDigest(d)
  BY DEF MeasuredReference
<1> QED
  BY <1>2, <1>3, <1>4 DEF Asking, Askings, AsksWhatWasConfirmed

LEMMA ResolvingKeepsTypes ==
  ASSUME TypeOK, NEW r \in Requests, NEW identity \in Identities, Resolves(r, identity)
  PROVE  known' \in [Images -> Identities \cup {None}] /\ hint' \in [Requests -> Digests \cup {None}]
<1> USE DEF Resolves, TypeOK
<1>1. Written(r, identity) \in Digests \cup {None}
  BY ImagesAreImages DEF Written, Identities
<1>2. known' \in [Images -> Identities \cup {None}]
  BY DEF Learns
<1> QED
  BY <1>1, <1>2

LEMMA TableTyped ==
  ASSUME SFP!IInv' PROVE SF!TypeOK'
  BY DEF SFP!IInv, SFP!TypeOK, SF!TypeOK, SFP!WorkStates, SF!WorkStates, SFP!Live, SF!Live,
         SFP!Ended, SF!Ended, SFP!Left, SF!Left

LEMMA InitKeeps == Init => Inv
<1> SUFFICES ASSUME Init PROVE Inv
  OBVIOUS
<1>1. SFP!IInv
  <2>1. SFP!Init
    BY DEF Init, SF!Init, SFP!Init
  <2> QED
    BY <2>1, FiniteCallers, NoneIsNoKey, SFP!InitInv
<1>2. SF!TypeOK
  BY <1>1, SameTypes DEF SFP!IInv
<1>3. TypeOK
  <2>1. store \in [Digests -> Rows \cup {None}]
    BY BoundsAreNumbers DEF Init, Rows, Revisions
  <2>2. hint \in [Requests -> Digests \cup {None}]
    BY ImagesAreImages DEF Init
  <2>3. moves \in 0..MaxMoves /\ revision \in Revisions
    BY BoundsAreNumbers DEF Init, Revisions
  <2> QED
    BY <1>2, <2>1, <2>2, <2>3 DEF Init, TypeOK
<1>4. StageFollowsWork
  BY DEF Init, SF!Init, StageFollowsWork, SF!Ended
<1>5. FingerprintIsCurrent /\ PreparedBeforeScanning
  BY DEF Init, FingerprintIsCurrent, Prepared, PreparedBeforeScanning
<1>6. MeasuresWhatItAsked
  BY DEF Init, SF!Init, MeasuresWhatItAsked
<1>7. RemembersSound /\ ProducesSound /\ AnswersSound
  BY NothingIsSound DEF Init, RemembersSound, ProducesSound, AnswersSound
<1>8. StoredIsPinned
  BY StoredAreDigests DEF Init, StoredIsPinned
<1>9. SlotsRespected
  <2>1. Scanning = {}
    BY DEF Init, Scanning
  <2> QED
    BY <2>1, FS_EmptySet, BoundsAreNumbers DEF SlotsRespected
<1>10. RefreshIsAwaited
  BY DEF Init, RefreshIsAwaited
<1> QED
  BY <1>1, <1>3, <1>4, <1>5, <1>6, <1>7, <1>8, <1>9, <1>10 DEF Inv, ServiceInv

-----------------------------------------------------------------------------
(***************************************************************************)
(* The world and the preparation of the run.                               *)
(***************************************************************************)
LEMMA WorldKeeps ==
  ASSUME Inv, SFP!IInv', MoveTag \/ Spend PROVE ServiceInv'
<1> USE DEF Inv, ServiceInv, MoveTag, Spend, flightVars, worldVars, serviceVars, idVars, taskVars,
            driverVars
<1>1. TypeOK'
  BY TableTyped, BoundsAreNumbers DEF TypeOK
<1>2. FingerprintIsCurrent' /\ PreparedBeforeScanning'
  BY DEF FingerprintIsCurrent, Prepared, PreparedBeforeScanning
<1>3. StageFollowsWork' /\ MeasuresWhatItAsked'
  BY DEF StageFollowsWork, MeasuresWhatItAsked, AsksWhatWasConfirmed
<1>4. RemembersSound' /\ ProducesSound' /\ AnswersSound'
  BY DEF RemembersSound, ProducesSound, AnswersSound, SoundFor, IsVerified, Prepared
<1>5. StoredIsPinned' /\ SlotsRespected' /\ RefreshIsAwaited'
  BY DEF StoredIsPinned, SlotsRespected, Scanning, RefreshIsAwaited, Preparing, Prepared
<1> QED
  BY <1>1, <1>2, <1>3, <1>4, <1>5

\* The refresh starts, ends, or is cancelled with the run: nothing verified
\* exists before it has ended, and the fingerprint is taken after it.
LEMMA PreparationKeeps ==
  ASSUME Inv, SFP!IInv', StartRefresh \/ RefreshEnds \/ CancelRun PROVE ServiceInv'
<1> USE DEF Inv, ServiceInv, StartRefresh, RefreshEnds, RefreshEndsReading, CancelRun,
            flightVars, worldVars, serviceVars, idVars, taskVars, driverVars
<1>1. TypeOK'
  BY TableTyped DEF TypeOK
<1>2. FingerprintIsCurrent' /\ PreparedBeforeScanning'
  BY DEF FingerprintIsCurrent, Prepared, PreparedBeforeScanning
<1>3. StageFollowsWork' /\ MeasuresWhatItAsked'
  BY DEF StageFollowsWork, MeasuresWhatItAsked, AsksWhatWasConfirmed
<1>4. Prepared => Prepared' /\ fingerprint' = fingerprint
  BY DEF Prepared
<1>5. RemembersSound' /\ ProducesSound' /\ AnswersSound'
  BY <1>4 DEF RemembersSound, ProducesSound, AnswersSound, SoundFor, IsVerified
<1>6. StoredIsPinned' /\ SlotsRespected'
  BY DEF StoredIsPinned, SlotsRespected, Scanning
<1>7. RefreshIsAwaited'
  BY DEF RefreshIsAwaited, Preparing, Prepared, InProgress
<1> QED
  BY <1>1, <1>2, <1>3, <1>5, <1>6, <1>7

-----------------------------------------------------------------------------
(***************************************************************************)
(* prescan().                                                              *)
(***************************************************************************)
\* A row that hits is a measurement of its digest with this run's database.
LEMMA HitIsSound ==
  ASSUME Inv, NEW d \in Digests, Hit(d), NEW k, \A e \in Digests : k = <<"confirmed", e>> => e = d
  PROVE  /\ Verified(store[d].bytes, store[d].used) \in Results
         /\ IsVerified(Verified(store[d].bytes, store[d].used))
         /\ SoundFor(k, Verified(store[d].bytes, store[d].used))
<1> USE DEF Inv, ServiceInv, TypeOK, Hit
<1>1. store[d] \in Rows /\ store[d].bytes = d /\ store[d].used = fingerprint
  BY DEF StoredIsPinned
<1>2. Prepared
  BY <1>1, NoneIsNoValue DEF FingerprintIsCurrent, Rows
<1>3. d \in Digests /\ fingerprint \in Revisions
  BY <1>1 DEF Rows
<1> QED
  BY <1>1, <1>2, <1>3, VerifiedIsResult DEF SoundFor, Verified

LEMMA PrescanLookKeeps ==
  ASSUME Inv, SFP!IInv', NEW r \in Requests, PrescanLook(r) PROVE ServiceInv'
<1> USE DEF Inv, ServiceInv, flightVars, worldVars, serviceVars, idVars, taskVars, driverVars
<1> PICK identity \in Identities : PrescanLook(r)!4!(identity)
  BY DEF PrescanLook
<1> DEFINE a == Asking(r, identity)
           hit == Verified(store[identity.digest].bytes, store[identity.digest].used)
<1>1. a \in Askings /\ AsksWhatWasConfirmed(a)
  BY AskingIsFaithful
<1>2. known' \in [Images -> Identities \cup {None}] /\ hint' \in [Requests -> Digests \cup {None}]
  BY ResolvingKeepsTypes
<1>3. ASSUME identity.status = "confirmed", Hit(identity.digest)
      PROVE  hit \in Results /\ SoundFor(a.key, hit)
  <2>1. identity.digest \in Digests /\ identity = Confirmed(identity.digest)
    BY <1>3 DEF Identities, Confirmed
  <2>2. ASSUME NEW e \in Digests, a.key = <<"confirmed", e>> PROVE e = identity.digest
    <3>1. a.identity = Confirmed(e) /\ a.identity = identity
      BY <1>1, <2>2 DEF AsksWhatWasConfirmed, Asking
    <3> QED
      BY <3>1 DEF Confirmed
  <2> QED
    BY <1>3, <2>1, <2>2, HitIsSound
<1>4. \/ UNCHANGED prefetched
      \/ /\ prefetched' = [prefetched EXCEPT ![a.key] = hit]
         /\ hit \in Results /\ SoundFor(a.key, hit)
  BY <1>3
<1>5. a.key \in RunKeys /\ batch' \in SUBSET Askings
  BY <1>1 DEF TypeOK, Askings
<1> HIDE DEF a, hit
<1>6. TypeOK'
  BY <1>2, <1>4, <1>5, TableTyped DEF TypeOK, PrescanLook
<1>7. FingerprintIsCurrent' /\ PreparedBeforeScanning' /\ StageFollowsWork'
  BY DEF PrescanLook, FingerprintIsCurrent, PreparedBeforeScanning, StageFollowsWork, Prepared
<1>8. MeasuresWhatItAsked'
  BY DEF PrescanLook, MeasuresWhatItAsked, AsksWhatWasConfirmed
<1>9. RemembersSound' /\ ProducesSound' /\ AnswersSound'
  BY <1>4, <1>5 DEF PrescanLook, RemembersSound, ProducesSound, AnswersSound, SoundFor,
     IsVerified, Prepared, TypeOK
<1>10. StoredIsPinned' /\ SlotsRespected' /\ RefreshIsAwaited'
  BY DEF PrescanLook, StoredIsPinned, SlotsRespected, Scanning, RefreshIsAwaited, Preparing, Prepared
<1> QED
  BY <1>6, <1>7, <1>8, <1>9, <1>10

\* What the engine is handed is no reference, so nothing it says is stored.
LEMMA EngineScansKeeps ==
  ASSUME Inv, SFP!IInv', NEW a \in batch, EngineScans(a) PROVE ServiceInv'
<1> USE DEF Inv, ServiceInv, flightVars, worldVars, serviceVars, idVars, taskVars, driverVars
<1>1. a.key \in RunKeys
  BY DEF TypeOK, Askings
<1>2. PICK res \in Scans(BatchTarget(a)) :
        prefetched' = [prefetched EXCEPT ![a.key] = res] /\ Put(a.identity, res)
  BY DEF EngineScans
<1>3. res = Failed("reference")
  BY <1>2 DEF Scans, BatchTarget, ByKey
<1>4. UNCHANGED store
  BY <1>2, <1>3 DEF Put, Failed
<1>5. res \in Results /\ SoundFor(a.key, res)
  BY <1>3, FailuresAreSound DEF Failures
<1>6. TypeOK'
  BY <1>1, <1>2, <1>4, <1>5, TableTyped DEF TypeOK, EngineScans
<1>7. FingerprintIsCurrent' /\ PreparedBeforeScanning' /\ StageFollowsWork'
  BY DEF EngineScans, FingerprintIsCurrent, PreparedBeforeScanning, StageFollowsWork, Prepared
<1>8. MeasuresWhatItAsked'
  BY DEF EngineScans, MeasuresWhatItAsked, AsksWhatWasConfirmed
<1>9. RemembersSound' /\ ProducesSound' /\ AnswersSound'
  BY <1>1, <1>2, <1>5 DEF EngineScans, RemembersSound, ProducesSound, AnswersSound, SoundFor,
     IsVerified, Prepared, TypeOK
<1>10. StoredIsPinned' /\ SlotsRespected' /\ RefreshIsAwaited'
  BY <1>4 DEF EngineScans, StoredIsPinned, SlotsRespected, Scanning, RefreshIsAwaited, Preparing,
     Prepared
<1> QED
  BY <1>6, <1>7, <1>8, <1>9, <1>10

LEMMA PrescanEndsKeeps ==
  ASSUME Inv, SFP!IInv', PrescanEnds PROVE ServiceInv'
<1> USE DEF Inv, ServiceInv, PrescanEnds, flightVars, worldVars, serviceVars, idVars, taskVars
<1>1. TypeOK'
  BY TableTyped DEF TypeOK
<1>2. FingerprintIsCurrent' /\ PreparedBeforeScanning' /\ StageFollowsWork'
  BY DEF FingerprintIsCurrent, PreparedBeforeScanning, StageFollowsWork, Prepared
<1>3. MeasuresWhatItAsked'
  BY DEF MeasuresWhatItAsked, AsksWhatWasConfirmed
<1>4. RemembersSound' /\ ProducesSound' /\ AnswersSound'
  BY DEF RemembersSound, ProducesSound, AnswersSound, SoundFor, IsVerified, Prepared
<1>5. StoredIsPinned' /\ SlotsRespected' /\ RefreshIsAwaited'
  BY DEF StoredIsPinned, SlotsRespected, Scanning, RefreshIsAwaited, Preparing, Prepared
<1> QED
  BY <1>1, <1>2, <1>3, <1>4, <1>5

-----------------------------------------------------------------------------
(***************************************************************************)
(* measure().                                                              *)
(***************************************************************************)
LEMMA ResolveKeeps ==
  ASSUME Inv, SFP!IInv', NEW r \in Requests, Resolve(r) PROVE ServiceInv'
<1> USE DEF Inv, ServiceInv, flightVars, worldVars, serviceVars, idVars, taskVars, driverVars
<1> PICK identity \in Identities :
           Resolves(r, identity) /\ ask' = [ask EXCEPT ![r] = Asking(r, identity)]
  BY DEF Resolve
<1>1. Asking(r, identity) \in Askings /\ AsksWhatWasConfirmed(Asking(r, identity))
  BY AskingIsFaithful
<1>2. known' \in [Images -> Identities \cup {None}] /\ hint' \in [Requests -> Digests \cup {None}]
  BY ResolvingKeepsTypes
<1>3. TypeOK'
  BY <1>1, <1>2, TableTyped DEF TypeOK, Resolve
<1>4. FingerprintIsCurrent' /\ PreparedBeforeScanning' /\ StageFollowsWork'
  BY DEF Resolve, FingerprintIsCurrent, PreparedBeforeScanning, StageFollowsWork, Prepared
<1>5. pc[r] = "idle" /\ answer[r] = None /\ result[r] = None
  BY DEF Resolve, MeasuresWhatItAsked, AnswersSound, ProducesSound
<1>6. \A q \in Requests : ask'[q] = IF q = r THEN Asking(r, identity) ELSE ask[q]
  BY DEF TypeOK
<1>7. ASSUME NEW q \in Requests, ask'[q] # None PROVE AsksWhatWasConfirmed(ask'[q])
  BY <1>1, <1>6, <1>7 DEF MeasuresWhatItAsked
<1>8. MeasuresWhatItAsked'
  BY <1>5, <1>6, <1>7 DEF MeasuresWhatItAsked, AsksWhatWasConfirmed, Resolve
<1>9. RemembersSound' /\ ProducesSound' /\ AnswersSound'
  BY <1>5, <1>6 DEF Resolve, RemembersSound, ProducesSound, AnswersSound, SoundFor, IsVerified,
     Prepared
<1>10. StoredIsPinned' /\ SlotsRespected' /\ RefreshIsAwaited'
  BY DEF Resolve, StoredIsPinned, SlotsRespected, Scanning, RefreshIsAwaited, Preparing, Prepared
<1> QED
  BY <1>3, <1>4, <1>8, <1>9, <1>10

LEMMA AnswerAtOnceKeeps ==
  ASSUME Inv, SFP!IInv', NEW r \in Requests, AnswerAtOnce(r) PROVE ServiceInv'
<1> USE DEF Inv, ServiceInv, flightVars, worldVars, serviceVars, idVars, taskVars, driverVars
<1> DEFINE k == ask[r].key
<1>1. k \in RunKeys /\ ask[r] # None
  BY AskedForAKey DEF AnswerAtOnce, Asked
<1>2. PICK res \in Results :
        /\ SoundFor(k, res)
        /\ answer' = [answer EXCEPT ![r] = res]
        /\ \/ UNCHANGED <<prefetched, finished>>
           \/ /\ prefetched' = [prefetched EXCEPT ![k] = None]
              /\ finished' = [finished EXCEPT ![k] = res]
  BY <1>1, FailuresAreSound DEF AnswerAtOnce, Answers, RemembersSound, Failures, TypeOK
<1> HIDE DEF k
<1>3. TypeOK'
  BY <1>1, <1>2, TableTyped DEF TypeOK, AnswerAtOnce
<1>4. FingerprintIsCurrent' /\ PreparedBeforeScanning' /\ StageFollowsWork'
  BY DEF AnswerAtOnce, FingerprintIsCurrent, PreparedBeforeScanning, StageFollowsWork, Prepared
<1>5. MeasuresWhatItAsked'
  BY DEF AnswerAtOnce, MeasuresWhatItAsked, AsksWhatWasConfirmed
<1>6. RemembersSound'
  BY <1>1, <1>2 DEF AnswerAtOnce, RemembersSound, SoundFor, IsVerified, Prepared, TypeOK
<1>7. ProducesSound'
  BY DEF AnswerAtOnce, ProducesSound, SoundFor, IsVerified, Prepared
<1>8. AnswersSound'
  BY <1>1, <1>2 DEF AnswerAtOnce, AnswersSound, SoundFor, IsVerified, Prepared, TypeOK, k
<1>9. StoredIsPinned' /\ SlotsRespected' /\ RefreshIsAwaited'
  BY DEF AnswerAtOnce, StoredIsPinned, SlotsRespected, Scanning, RefreshIsAwaited, Preparing,
     Prepared
<1> QED
  BY <1>3, <1>4, <1>5, <1>6, <1>7, <1>8, <1>9

LEMMA StartMeasuringKeeps ==
  ASSUME Inv, SFP!IInv', NEW r \in Requests, StartMeasuring(r) PROVE ServiceInv'
<1> USE DEF Inv, ServiceInv, flightVars, worldVars, serviceVars, idVars, taskVars, driverVars,
            StartMeasuring, SF!Start
<1>1. pc[r] = "idle" /\ ask[r] # None /\ work[r] = "none" /\ stage[r] = "none"
  BY DEF MustMeasure, Asked, SFP!IInv, SFP!IdleCreatedNothing, StageFollowsWork
<1>2. SF!TypeOK
  BY DEF TypeOK
<1>3. TypeOK'
  BY TableTyped DEF TypeOK
<1>4. FingerprintIsCurrent' /\ PreparedBeforeScanning'
  BY <1>2 DEF FingerprintIsCurrent, PreparedBeforeScanning, Prepared, TypeOK
<1>5. StageFollowsWork'
  BY <1>2 DEF StageFollowsWork, TypeOK, SF!TypeOK, SF!Ended
<1>6. MeasuresWhatItAsked'
  BY <1>1, <1>2 DEF MeasuresWhatItAsked, AsksWhatWasConfirmed, SF!TypeOK
<1>7. RemembersSound' /\ ProducesSound' /\ AnswersSound'
  BY <1>1 DEF RemembersSound, ProducesSound, AnswersSound, SoundFor, IsVerified, Prepared, TypeOK
<1>8. Scanning' = Scanning /\ Preparing \subseteq Preparing'
  BY <1>1 DEF Scanning, Preparing, TypeOK, SF!TypeOK, SF!Live
<1>9. StoredIsPinned' /\ SlotsRespected' /\ RefreshIsAwaited'
  BY <1>8 DEF StoredIsPinned, SlotsRespected, RefreshIsAwaited, Prepared
<1> QED
  BY <1>3, <1>4, <1>5, <1>6, <1>7, <1>9

\* What a request is handed was produced for the key it asked for.
LEMMA DeliveredKeeps ==
  ASSUME Inv, NEW r \in Requests, NEW f \in Requests, ask[r] # None, key[f] = ask[r].key,
         work[f] # "none", Delivered(r, f), UNCHANGED <<prefetched, ask, serviceVars>>
  PROVE  /\ answer' \in [Requests -> Results \cup {None}]
         /\ finished' \in [RunKeys -> Results \cup {None}]
         /\ RemembersSound' /\ AnswersSound'
<1> USE DEF Inv, ServiceInv, serviceVars, Delivered, Answers
<1>1. ask[f] # None /\ ask[f].key = ask[r].key /\ ask[r].key \in RunKeys
  BY AskedForAKey DEF SFP!IInv, SFP!IdleCreatedNothing, MeasuresWhatItAsked
<1>2. SoundFor(ask[r].key, result[f])
  BY <1>1, NothingIsSound DEF ProducesSound
<1>3. UNCHANGED <<answer, finished>> \/ (/\ answer' = [answer EXCEPT ![r] = result[f]]
                                        /\ finished' = [finished EXCEPT ![ask[r].key] = result[f]])
  OBVIOUS
<1>4. answer' \in [Requests -> Results \cup {None}] /\ finished' \in [RunKeys -> Results \cup {None}]
  BY <1>3 DEF TypeOK
<1>5. RemembersSound'
  BY <1>1, <1>2, <1>3 DEF RemembersSound, SoundFor, IsVerified, Prepared, TypeOK
<1>6. AnswersSound'
  BY <1>1, <1>2, <1>3 DEF AnswersSound, SoundFor, IsVerified, Prepared, TypeOK
<1> QED
  BY <1>4, <1>5, <1>6

LEMMA JoinMeasuringKeeps ==
  ASSUME Inv, SFP!IInv', NEW r \in Requests, JoinMeasuring(r) PROVE ServiceInv'
<1> USE DEF Inv, ServiceInv, flightVars, worldVars, serviceVars, idVars, taskVars, driverVars
<1> DEFINE f == table[ask[r].key]
<1>1. pc[r] = "idle" /\ ask[r] # None /\ ask[r].key \in RunKeys
  BY AskedForAKey DEF JoinMeasuring, MustMeasure, Asked
<1>2. f \in Requests /\ key[f] = ask[r].key /\ work[f] # "none"
  BY <1>1 DEF JoinMeasuring, SF!Join, SFP!IInv, SFP!StoredIsAlive, TypeOK, SF!TypeOK
<1>3. /\ answer' \in [Requests -> Results \cup {None}]
      /\ finished' \in [RunKeys -> Results \cup {None}]
      /\ RemembersSound' /\ AnswersSound'
  <2>1. Delivered(r, f) /\ UNCHANGED <<prefetched, ask, serviceVars>>
    BY DEF JoinMeasuring
  <2> HIDE DEF f, Inv
  <2> QED
    BY <1>1, <1>2, <2>1, DeliveredKeeps
<1>4. /\ key' = [key EXCEPT ![r] = ask[r].key]
      /\ \A q \in Requests : q # r => pc'[q] = pc[q]
      /\ UNCHANGED work
  BY DEF JoinMeasuring, SF!Join, TypeOK, SF!TypeOK
<1>5. TypeOK'
  BY <1>3, TableTyped DEF TypeOK, JoinMeasuring
<1>6. FingerprintIsCurrent' /\ PreparedBeforeScanning' /\ StageFollowsWork'
  BY <1>4 DEF JoinMeasuring, FingerprintIsCurrent, PreparedBeforeScanning, StageFollowsWork, Prepared
<1>7. MeasuresWhatItAsked'
  BY <1>1, <1>4 DEF JoinMeasuring, MeasuresWhatItAsked, AsksWhatWasConfirmed, TypeOK, SF!TypeOK
<1>8. ProducesSound'
  BY DEF JoinMeasuring, ProducesSound, SoundFor, IsVerified, Prepared
<1>9. StoredIsPinned' /\ SlotsRespected' /\ RefreshIsAwaited'
  BY <1>4 DEF JoinMeasuring, StoredIsPinned, SlotsRespected, Scanning, RefreshIsAwaited,
     Preparing, Prepared
<1> QED
  BY <1>3, <1>5, <1>6, <1>7, <1>8, <1>9

LEMMA ResumeKeeps ==
  ASSUME Inv, SFP!IInv', NEW r \in Requests, Resume(r) PROVE ServiceInv'
<1> USE DEF Inv, ServiceInv, flightVars, worldVars, serviceVars, idVars, taskVars, driverVars
<1> DEFINE f == joined[r]
<1>1. pc[r] = "waiting" /\ ask[r] # None /\ ask[r].key = key[r]
  BY DEF Resume, SF!Resume, MeasuresWhatItAsked
<1>2. f \in Requests /\ key[f] = ask[r].key /\ work[f] # "none"
  BY <1>1 DEF SFP!IInv, SFP!JoinedOwnKey
<1>3. /\ answer' \in [Requests -> Results \cup {None}]
      /\ finished' \in [RunKeys -> Results \cup {None}]
      /\ RemembersSound' /\ AnswersSound'
  <2>1. Delivered(r, f) /\ UNCHANGED <<prefetched, ask, serviceVars>>
    BY DEF Resume
  <2> HIDE DEF f, Inv
  <2> QED
    BY <1>1, <1>2, <2>1, DeliveredKeeps
<1>4. UNCHANGED <<work, key>> /\ pc' = [pc EXCEPT ![r] = work[f]]
  BY DEF Resume, SF!Resume
<1>5. TypeOK'
  BY <1>3, TableTyped DEF TypeOK, Resume
<1>6. FingerprintIsCurrent' /\ PreparedBeforeScanning' /\ StageFollowsWork'
  BY <1>4 DEF Resume, FingerprintIsCurrent, PreparedBeforeScanning, StageFollowsWork, Prepared
<1>7. MeasuresWhatItAsked'
  BY <1>1, <1>4 DEF Resume, MeasuresWhatItAsked, AsksWhatWasConfirmed, TypeOK, SF!TypeOK
<1>8. ProducesSound'
  BY DEF Resume, ProducesSound, SoundFor, IsVerified, Prepared
<1>9. StoredIsPinned' /\ SlotsRespected' /\ RefreshIsAwaited'
  BY <1>4 DEF Resume, StoredIsPinned, SlotsRespected, Scanning, RefreshIsAwaited, Preparing, Prepared
<1> QED
  BY <1>3, <1>5, <1>6, <1>7, <1>8, <1>9

\* A flight that ended is forgotten, a request that reaped it leaves, a
\* request is cancelled: nothing of the service moves.
LEMMA TableOnlyKeeps ==
  ASSUME Inv, SFP!IInv', NEW r \in Requests, OnDone(r) \/ Reap(r) \/ Cancel(r) PROVE ServiceInv'
<1> USE DEF Inv, ServiceInv, flightVars, worldVars, serviceVars, idVars, taskVars, driverVars,
            OnDone, Reap, Cancel
<1>1. UNCHANGED <<worldVars, store, serviceVars, prefetched, finished, taskVars, ask, answer,
                  driverVars>>
  OBVIOUS
<1>2. UNCHANGED key
  BY DEF SF!OnDone, SF!Reap, SF!Reaped, SF!Cancel, SF!LeaveEarly
<1>3. \A q \in Requests : pc'[q] = "idle" <=> pc[q] = "idle"
  BY DEF SF!OnDone, SF!Reap, SF!Reaped, SF!Cancel, SF!LeaveEarly, TypeOK, SF!TypeOK
<1>4. \A q \in Requests : /\ work'[q] = "none" <=> work[q] = "none"
                          /\ work'[q] \in SF!Ended <=> work[q] \in SF!Ended
                          /\ work'[q] \in SF!Live <=> work[q] \in SF!Live
  BY DEF SF!OnDone, SF!Reap, SF!Reaped, SF!Cancel, SF!LeaveEarly, TypeOK, SF!TypeOK, SF!Live, SF!Ended
<1> HIDE DEF OnDone, Reap, Cancel
<1>5. TypeOK'
  BY <1>1, TableTyped DEF TypeOK
<1>6. FingerprintIsCurrent' /\ PreparedBeforeScanning' /\ StageFollowsWork'
  BY <1>1, <1>4 DEF FingerprintIsCurrent, PreparedBeforeScanning, StageFollowsWork, Prepared
<1>7. MeasuresWhatItAsked'
  BY <1>1, <1>2, <1>3 DEF MeasuresWhatItAsked, AsksWhatWasConfirmed
<1>8. RemembersSound' /\ ProducesSound' /\ AnswersSound'
  BY <1>1 DEF RemembersSound, ProducesSound, AnswersSound, SoundFor, IsVerified, Prepared
<1>9. Scanning' = Scanning /\ Preparing' = Preparing
  BY <1>1, <1>4 DEF Scanning, Preparing
<1>10. StoredIsPinned' /\ SlotsRespected' /\ RefreshIsAwaited'
  BY <1>1, <1>9 DEF StoredIsPinned, SlotsRespected, RefreshIsAwaited, Prepared
<1> QED
  BY <1>5, <1>6, <1>7, <1>8, <1>10

-----------------------------------------------------------------------------
(***************************************************************************)
(* _measure_once.  Every step of a task moves its stage on, leaves it a    *)
(* result that is sound for its key, and may end it.                       *)
(***************************************************************************)
LEMMA SlotsKept ==
  ASSUME TypeOK, SlotsRespected, NEW f \in Requests, NEW s,
         stage' = [stage EXCEPT ![f] = s], s = "scanning" => SlotFree
  PROVE  SlotsRespected'
<1> USE BoundsAreNumbers
<1>1. IsFiniteSet(Scanning)
  BY RequestsFinite, FS_Subset DEF Scanning
<1>2. Cardinality(Scanning) \in Nat
  BY <1>1, FS_CardinalityType
<1>3. CASE s = "scanning"
  <2>1. Scanning' = Scanning \cup {f}
    BY <1>3 DEF Scanning, TypeOK
  <2>2. Cardinality(Scanning \cup {f}) \in {Cardinality(Scanning), Cardinality(Scanning) + 1}
    BY <1>1, FS_AddElement
  <2>3. Cardinality(Scanning \cup {f}) \in Nat
    BY <1>1, FS_AddElement, FS_CardinalityType
  <2> QED
    BY <1>2, <1>3, <2>1, <2>2, <2>3 DEF SlotFree, SlotsRespected
<1>4. CASE s # "scanning"
  <2>1. Scanning' \subseteq Scanning
    BY <1>4 DEF Scanning, TypeOK
  <2>2. Cardinality(Scanning') <= Cardinality(Scanning) /\ Cardinality(Scanning') \in Nat
    BY <1>1, <2>1, FS_Subset, FS_CardinalityType
  <2> QED
    BY <1>2, <2>2 DEF SlotsRespected
<1> QED
  BY <1>3, <1>4

Stages == {"lookup", "queued", "scanning", "storing", "done"}

LEMMA TaskStepKeeps ==
  ASSUME Inv, SFP!IInv', NEW f \in Requests, stage[f] \notin {"none", "done"},
         NEW s \in Stages, stage' = [stage EXCEPT ![f] = s],
         s # "done" => Prepared /\ UNCHANGED work,
         s = "done" => \E w \in SF!Ended : work' = [work EXCEPT ![f] = w],
         s = "scanning" => SlotFree,
         NEW res \in Results \cup {None}, result' = [result EXCEPT ![f] = res],
         SoundFor(ask[f].key, res), s = "storing" => IsVerified(res),
         LeavesRefresh(f) \/ (UNCHANGED prepared /\ (Prepared \/ stage[f] # "prepare")),
         store' \in [Digests -> Rows \cup {None}], StoredIsPinned',
         UNCHANGED <<pc, key, worldVars, idVars, fingerprint, prefetched, finished, ask, answer,
                     driverVars>>
  PROVE  ServiceInv'
<1> USE DEF Inv, ServiceInv, Stages, worldVars, idVars, driverVars
<1>1. work[f] \in SF!Live /\ ask[f] # None
  BY DEF StageFollowsWork, MeasuresWhatItAsked, SFP!IInv, SFP!IdleCreatedNothing, TypeOK,
     SF!TypeOK, SF!WorkStates
<1>2. UNCHANGED prepared \/ (prepared = "refreshing" /\ prepared' = "no")
  BY DEF LeavesRefresh
<1>3. TypeOK'
  BY <1>2, TableTyped DEF TypeOK
<1>4. (Prepared <=> Prepared') /\ UNCHANGED revision
  BY <1>2 DEF Prepared
<1>5. FingerprintIsCurrent'
  BY <1>4 DEF FingerprintIsCurrent
<1>6. PreparedBeforeScanning'
  BY <1>4 DEF PreparedBeforeScanning, TypeOK
<1>7. StageFollowsWork'
  BY <1>1 DEF StageFollowsWork, TypeOK, SF!TypeOK, SF!Live, SF!Ended
<1>8. MeasuresWhatItAsked'
  BY DEF MeasuresWhatItAsked, AsksWhatWasConfirmed
<1>9. RemembersSound' /\ AnswersSound'
  BY <1>4 DEF RemembersSound, AnswersSound, SoundFor, IsVerified
<1>10. ProducesSound'
  BY <1>1, <1>4 DEF ProducesSound, SoundFor, IsVerified, TypeOK
<1>11. SlotsRespected'
  BY SlotsKept
<1>12. RefreshIsAwaited'
  <2>1. \A g \in Requests \ {f} : g \in Preparing => g \in Preparing'
    BY DEF Preparing, TypeOK, SF!TypeOK
  <2>2. prepared' = "refreshing" => stage[f] # "prepare" \/ Preparing # {f}
    BY DEF LeavesRefresh, Prepared
  <2>3. stage[f] # "prepare" => f \notin Preparing
    BY DEF Preparing
  <2>4. ASSUME prepared' = "refreshing", Preparing # {} PROVE Preparing' # {}
    <3>1. PICK g \in Preparing : g # f
      BY <2>2, <2>3, <2>4
    <3>2. g \in Requests \ {f}
      BY <3>1 DEF Preparing
    <3> QED
      BY <2>1, <3>1, <3>2
  <2> QED
    BY <1>2, <1>4, <2>4 DEF RefreshIsAwaited
<1> QED
  BY <1>3, <1>5, <1>6, <1>7, <1>8, <1>9, <1>10, <1>11, <1>12

\* The task of a flight works for the key it was started under.
LEMMA TaskHasAsked ==
  ASSUME Inv, NEW f \in Requests, NEW s, At(f, s)
  PROVE  ask[f] # None /\ ask[f] \in Askings /\ AsksWhatWasConfirmed(ask[f])
  BY DEF Inv, ServiceInv, At, MeasuresWhatItAsked, SFP!IInv, SFP!IdleCreatedNothing, TypeOK

LEMMA ResultStays ==
  ASSUME Inv, NEW f \in Requests, UNCHANGED result
  PROVE  /\ result' = [result EXCEPT ![f] = result[f]]
         /\ result[f] \in Results \cup {None}
         /\ SoundFor(ask[f].key, result[f])
  BY NothingIsSound DEF Inv, ServiceInv, TypeOK, ProducesSound

LEMMA TaskEndsTheFlight ==
  ASSUME NEW f \in Requests, NEW res, TaskEnds(f, res)
  PROVE  /\ stage' = [stage EXCEPT ![f] = "done"]
         /\ result' = [result EXCEPT ![f] = res]
         /\ \E w \in SF!Ended : work' = [work EXCEPT ![f] = w]
         /\ UNCHANGED <<pc, key>>
  BY DEF TaskEnds, GoesTo, SF!Finish, SF!Ended

LEMMA AfterPrepareKeeps ==
  ASSUME Inv, SFP!IInv', NEW f \in Requests, AfterPrepare(f) PROVE ServiceInv'
<1> USE DEF AfterPrepare, PreparedOrLate, At, worldVars, idVars, driverVars
<1>1. StoredIsPinned' /\ store' \in [Digests -> Rows \cup {None}]
  BY DEF Inv, ServiceInv, TypeOK, StoredIsPinned
<1>2. CASE GoesTo(f, "lookup") /\ Prepared /\ UNCHANGED <<flightVars, prepared, result>>
  BY <1>1, <1>2, ResultStays, TaskStepKeeps DEF GoesTo, flightVars, Stages
<1>3. CASE LeavesRefresh(f) /\ TaskEnds(f, Failed("deadline"))
  BY <1>1, <1>3, FailuresAreSound, TaskEndsTheFlight, TaskStepKeeps DEF Failures, Stages
<1> QED
  BY <1>2, <1>3

LEMMA LookUpKeeps ==
  ASSUME Inv, SFP!IInv', NEW f \in Requests, LookUp(f) PROVE ServiceInv'
<1> USE DEF LookUp, At, serviceVars, worldVars, idVars, driverVars
<1> DEFINE id == ask[f].identity
           hit == Verified(store[id.digest].bytes, store[id.digest].used)
<1>1. StoredIsPinned' /\ store' \in [Digests -> Rows \cup {None}] /\ Prepared
  BY DEF Inv, ServiceInv, TypeOK, StoredIsPinned, PreparedBeforeScanning
<1>2. CASE id.status = "confirmed" /\ Hit(id.digest) /\ TaskEnds(f, hit)
  <2>1. id \in Identities /\ id.digest \in Digests /\ id = Confirmed(id.digest)
    BY <1>2, TaskHasAsked DEF Askings, Identities, Confirmed
  <2>2. ASSUME NEW e \in Digests, ask[f].key = <<"confirmed", e>> PROVE e = id.digest
    <3>1. id = Confirmed(e)
      BY <2>2, TaskHasAsked DEF AsksWhatWasConfirmed
    <3> QED
      BY <3>1 DEF Confirmed
  <2>3. hit \in Results /\ SoundFor(ask[f].key, hit)
    BY <1>2, <2>1, <2>2, HitIsSound
  <2> HIDE DEF hit
  <2> QED
    BY <1>1, <1>2, <2>3, TaskEndsTheFlight, TaskStepKeeps DEF Stages
<1>3. CASE GoesTo(f, "queued") /\ UNCHANGED <<flightVars, result>>
  BY <1>1, <1>3, ResultStays, TaskStepKeeps DEF GoesTo, flightVars, Stages
<1> QED
  BY <1>2, <1>3

LEMMA TakeSlotKeeps ==
  ASSUME Inv, SFP!IInv', NEW f \in Requests, TakeSlot(f) PROVE ServiceInv'
<1> USE DEF TakeSlot, At, serviceVars, worldVars, idVars, driverVars
<1>1. StoredIsPinned' /\ store' \in [Digests -> Rows \cup {None}] /\ Prepared
  BY DEF Inv, ServiceInv, TypeOK, StoredIsPinned, PreparedBeforeScanning
<1>2. CASE GoesTo(f, "scanning") /\ UNCHANGED <<flightVars, result>>
  BY <1>1, <1>2, ResultStays, TaskStepKeeps DEF GoesTo, flightVars, Stages
<1>3. CASE TaskEnds(f, Failed("deadline"))
  BY <1>1, <1>3, FailuresAreSound, TaskEndsTheFlight, TaskStepKeeps DEF Failures, Stages
<1> QED
  BY <1>2, <1>3

\* A scanner that is handed what was confirmed reports those bytes.
LEMMA ScansAreSound ==
  ASSUME Inv, NEW f \in Requests, At(f, "scanning"), NEW res \in Scans(ask[f].ref)
  PROVE  res \in Results /\ SoundFor(ask[f].key, res)
<1> USE DEF Inv, ServiceInv, At
<1>1. Prepared /\ fingerprint = revision /\ revision \in Revisions
  BY DEF PreparedBeforeScanning, FingerprintIsCurrent, TypeOK
<1>2. PICK b \in Digests :
        /\ res \in {Verified(b, revision), Failed("scanner")}
        /\ \A d \in Digests : ask[f].ref = ByDigest(d) => b = d
  <2>1. ask[f].ref \in {ByDigest(d) : d \in Digests} \cup {ByTag(t) : t \in Tags}
    BY TaskHasAsked DEF Askings
  <2>2. CASE \E d \in Digests : ask[f].ref = ByDigest(d)
    BY <2>2 DEF Scans, ByDigest
  <2>3. CASE \E t \in Tags : ask[f].ref = ByTag(t)
    <3>1. PICK t \in Tags : ask[f].ref = ByTag(t)
      BY <2>3
    <3>2. tagBytes[t] \in Digests /\ res \in {Verified(tagBytes[t], revision), Failed("scanner")}
      BY <3>1 DEF Scans, ByTag, TypeOK
    <3> QED
      BY <3>1, <3>2 DEF ByTag, ByDigest
  <2> QED
    BY <2>1, <2>2, <2>3
<1>3. CASE res = Failed("scanner")
  BY <1>3, FailuresAreSound DEF Failures
<1>4. CASE res = Verified(b, revision)
  <2>1. \A d \in Digests : ask[f].key = <<"confirmed", d>> => b = d
    BY <1>2, TaskHasAsked DEF AsksWhatWasConfirmed
  <2> QED
    BY <1>1, <1>4, <2>1, VerifiedIsResult DEF SoundFor, Verified
<1> QED
  BY <1>2, <1>3, <1>4

LEMMA ScanEndsKeeps ==
  ASSUME Inv, SFP!IInv', NEW f \in Requests, ScanEnds(f) PROVE ServiceInv'
<1> USE DEF ScanEnds, At, serviceVars, worldVars, idVars, driverVars
<1>1. StoredIsPinned' /\ store' \in [Digests -> Rows \cup {None}] /\ Prepared
  BY DEF Inv, ServiceInv, TypeOK, StoredIsPinned, PreparedBeforeScanning
<1>2. ASSUME NEW res \in Scans(ask[f].ref), res.why = "verified", GoesTo(f, "storing"),
             result' = [result EXCEPT ![f] = res], UNCHANGED flightVars
      PROVE  ServiceInv'
  <2>1. res \in Results /\ SoundFor(ask[f].key, res) /\ IsVerified(res)
    BY <1>2, ScansAreSound, NoneIsNoValue DEF IsVerified
  <2> QED
    BY <1>1, <1>2, <2>1, TaskStepKeeps DEF GoesTo, flightVars, Stages
<1>3. ASSUME NEW res \in Scans(ask[f].ref), TaskEnds(f, res) PROVE ServiceInv'
  <2>1. res \in Results /\ SoundFor(ask[f].key, res)
    BY <1>3, ScansAreSound
  <2> QED
    BY <1>1, <1>3, <2>1, TaskEndsTheFlight, TaskStepKeeps DEF Stages
<1>4. CASE TaskEnds(f, Failed("deadline"))
  BY <1>1, <1>4, FailuresAreSound, TaskEndsTheFlight, TaskStepKeeps DEF Failures, Stages
<1>5. CASE SF!Finish(f) /\ work'[f] = "failed" /\ GoesTo(f, "done") /\ UNCHANGED result
  <2>1. (\E w \in SF!Ended : work' = [work EXCEPT ![f] = w]) /\ UNCHANGED <<pc, key>>
    BY <1>5 DEF SF!Finish, SF!Ended
  <2> QED
    BY <1>1, <1>5, <2>1, ResultStays, TaskStepKeeps DEF GoesTo, Stages
<1> QED
  BY <1>2, <1>3, <1>4, <1>5

\* What is filed under a confirmed digest was measured under its key.
LEMMA StoreKeeps ==
  ASSUME Inv, SFP!IInv', NEW f \in Requests, Store(f) PROVE ServiceInv'
<1> USE DEF Store, At, serviceVars, worldVars, idVars, driverVars
<1> DEFINE id == ask[f].identity
           res == result[f]
           row == [bytes |-> res.bytes, rev |-> fingerprint, used |-> res.rev]
<1>1. IsVerified(res) /\ res \in Results /\ SoundFor(ask[f].key, res) /\ Prepared
  BY DEF Inv, ServiceInv, TypeOK, ProducesSound, PreparedBeforeScanning, IsVerified
<1>2. ASSUME id.status = "confirmed"
      PROVE  id.digest \in Digests /\ row \in Rows /\ row.bytes = id.digest /\ row.used = row.rev
  <2>1. id \in Identities /\ id.digest \in Digests /\ id = Confirmed(id.digest)
    BY <1>2, TaskHasAsked DEF Askings, Identities, Confirmed
  <2>2. ask[f].key = <<"confirmed", id.digest>>
    BY <2>1, TaskHasAsked DEF AsksWhatWasConfirmed
  <2>3. res.bytes = id.digest /\ res.rev = fingerprint
    BY <1>1, <2>1, <2>2 DEF SoundFor
  <2>4. res.rev \in Revisions
    BY <1>1 DEF IsVerified, Results, Failures
  <2> QED
    BY <2>1, <2>3, <2>4 DEF Rows
<1>3. UNCHANGED store \/ (id.status = "confirmed" /\ store' = [store EXCEPT ![id.digest] = row])
  BY DEF Put
<1> HIDE DEF row
<1>4. StoredIsPinned' /\ store' \in [Digests -> Rows \cup {None}]
  BY <1>2, <1>3 DEF Inv, ServiceInv, TypeOK, StoredIsPinned
<1> QED
  BY <1>1, <1>4, TaskEndsTheFlight, TaskStepKeeps DEF Stages

LEMMA UnwindKeeps ==
  ASSUME Inv, SFP!IInv', NEW f \in Requests, Unwind(f) PROVE ServiceInv'
<1> USE DEF Unwind, worldVars, idVars, driverVars
<1>1. StoredIsPinned' /\ store' \in [Digests -> Rows \cup {None}]
  BY DEF Inv, ServiceInv, TypeOK, StoredIsPinned
<1>2. stage[f] \notin {"none", "done"}
  BY DEF Inv, ServiceInv, StageFollowsWork, SF!Unwind, SF!Ended
<1>3. (\E w \in SF!Ended : work' = [work EXCEPT ![f] = w]) /\ UNCHANGED <<pc, key>>
  BY DEF SF!Unwind
<1> QED
  BY <1>1, <1>2, <1>3, ResultStays, TaskStepKeeps DEF GoesTo, Stages

LEMMA StutterKeeps ==
  ASSUME Inv, SFP!IInv', UNCHANGED vars PROVE ServiceInv'
<1> USE DEF Inv, ServiceInv, vars, flightVars, worldVars, serviceVars, idVars, taskVars, driverVars
<1>1. TypeOK'
  BY TableTyped DEF TypeOK
<1>2. FingerprintIsCurrent' /\ PreparedBeforeScanning' /\ StageFollowsWork' /\ MeasuresWhatItAsked'
  BY DEF FingerprintIsCurrent, PreparedBeforeScanning, StageFollowsWork, Prepared,
     MeasuresWhatItAsked, AsksWhatWasConfirmed
<1>3. RemembersSound' /\ ProducesSound' /\ AnswersSound'
  BY DEF RemembersSound, ProducesSound, AnswersSound, SoundFor, IsVerified, Prepared
<1>4. StoredIsPinned' /\ SlotsRespected' /\ RefreshIsAwaited'
  BY DEF StoredIsPinned, SlotsRespected, Scanning, RefreshIsAwaited, Preparing, Prepared
<1> QED
  BY <1>1, <1>2, <1>3, <1>4

LEMMA StepKeeps == Inv /\ [Next]_vars => Inv'
<1> SUFFICES ASSUME Inv, [Next]_vars PROVE Inv'
  OBVIOUS
<1>1. SFP!IInv'
  BY TableKeeps DEF Inv, ServiceInv
<1> SUFFICES ServiceInv'
  BY <1>1 DEF Inv
<1>2. CASE UNCHANGED vars
  BY <1>1, <1>2, StutterKeeps
<1>3. CASE MoveTag \/ Spend \/ CancelRun
  BY <1>1, <1>3, WorldKeeps, PreparationKeeps
<1>4. CASE Driver
  BY <1>1, <1>4, PreparationKeeps, PrescanEndsKeeps, PrescanLookKeeps, EngineScansKeeps DEF Driver
<1>5. ASSUME NEW f \in Requests, Task(f) PROVE ServiceInv'
  BY <1>1, <1>5, AfterPrepareKeeps, LookUpKeeps, TakeSlotKeeps, ScanEndsKeeps, StoreKeeps,
     UnwindKeeps, TableOnlyKeeps DEF Task
<1>6. ASSUME NEW r \in Requests, Request(r) \/ Cancel(r) PROVE ServiceInv'
  BY <1>1, <1>6, ResolveKeeps, AnswerAtOnceKeeps, StartMeasuringKeeps, JoinMeasuringKeeps,
     ResumeKeeps, TableOnlyKeeps DEF Request
<1> QED
  BY <1>2, <1>3, <1>4, <1>5, <1>6 DEF Next

LEMMA Invariance == Spec => []Inv
  BY InitKeeps, StepKeeps, PTL DEF Spec

-----------------------------------------------------------------------------
\* Every variable of the service keeps the shape the code gives it.
THEOREM TypeCorrect == Spec => []TypeOK
<1>1. Inv => TypeOK
  BY DEF Inv, ServiceInv
<1> QED
  BY <1>1, Invariance, PTL

\* The concurrent measure() calls of a run use SingleFlight as it is
\* specified: each step is one of run() or of the loop, or leaves the table.
THEOREM ImplementsSingleFlight == Spec => SF!Spec
<1>1. Init => SF!Init
  BY DEF Init
<1>2. Inv => TypeOK
  BY DEF Inv, ServiceInv
<1> QED
  BY <1>1, <1>2, TableStep, Invariance, PTL DEF Spec, SF!Spec

\* A row of the store is the measurement of its own digest, made with the
\* database revision it is filed under, whatever moves while the run lasts.
THEOREM StoreIsPinned == Spec => []StoredIsPinned
<1>1. Inv => StoredIsPinned
  BY DEF Inv, ServiceInv
<1> QED
  BY <1>1, Invariance, PTL

\* A verified answer for a confirmed identity measured the bytes of that
\* identity, by whichever of the five ways the request got it.
THEOREM AnswersTheIdentity == Spec => []AnswerIsForIdentity
<1>1. ASSUME Inv PROVE AnswerIsForIdentity
  <2> USE <1>1 DEF Inv, ServiceInv
  <2> SUFFICES ASSUME NEW r \in Requests, answer[r] # None, answer[r].why = "verified",
                      ask[r].identity.status = "confirmed"
               PROVE  answer[r].bytes = ask[r].identity.digest
    BY DEF AnswerIsForIdentity
  <2> DEFINE d == ask[r].identity.digest
  <2>1. ask[r] # None /\ SoundFor(ask[r].key, answer[r]) /\ AsksWhatWasConfirmed(ask[r])
    BY DEF AnswersSound, MeasuresWhatItAsked
  <2>2. d \in Digests /\ ask[r].identity = Confirmed(d)
    BY <2>1 DEF TypeOK, Askings, Identities, Confirmed
  <2> QED
    BY <2>1, <2>2 DEF AsksWhatWasConfirmed, SoundFor, IsVerified
<1> QED
  BY <1>1, Invariance, PTL

\* A verified answer was made with the database revision the run prepared.
THEOREM AnswersAreCurrent == Spec => []AnswerIsCurrent
<1>1. Inv => AnswerIsCurrent
  BY DEF Inv, ServiceInv, AnswersSound, SoundFor, IsVerified, AnswerIsCurrent
<1> QED
  BY <1>1, Invariance, PTL

\* There are never more scanner processes than slots.
THEOREM SlotsAreRespected == Spec => []SlotsRespected
<1>1. Inv => SlotsRespected
  BY DEF Inv, ServiceInv
<1> QED
  BY <1>1, Invariance, PTL

\* Once every request of a cancelled run has left, no task, scanner or
\* refresh is left: what was started for them has ended.
THEOREM NothingIsLeftBehind == Spec => []NothingOutlivesTheRun
<1>1. ASSUME Inv PROVE NothingOutlivesTheRun
  <2> USE <1>1 DEF Inv, ServiceInv
  <2> SUFFICES ASSUME stopping, \A r \in Requests : pc[r] \notin {"waiting", "reaping"}
               PROVE  /\ \A f \in Requests : work[f] \notin SF!Live
                      /\ Scanning = {}
                      /\ prepared # "refreshing"
    BY DEF NothingOutlivesTheRun
  <2>1. ASSUME NEW f \in Requests PROVE work[f] \notin SF!Live
    BY DEF SFP!IInv, SFP!CancellingIsReaped, SFP!NobodyAbandoned, SFP!Waiting, SF!Live
  <2>2. Scanning = {}
    BY <2>1 DEF StageFollowsWork, Scanning, TypeOK, SF!TypeOK, SF!WorkStates
  <2>3. prepared # "refreshing"
    BY <2>1 DEF RefreshIsAwaited, Preparing
  <2> QED
    BY <2>1, <2>2, <2>3
<1> QED
  BY <1>1, Invariance, PTL
=============================================================================
