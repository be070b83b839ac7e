# Formal models of DockerLs

TLA+ modules for the parts of DockerLs whose correctness depends on the order
in which things happen, the TLC configurations that check them, and the
theorems about them that TLAPS proves. Source paths are relative to the
repository root; the Python package is `dockerls/`, the Go engine `engine/`.

Run a check with `tlc -config MCSingleFlight.cfg MCSingleFlight.tla`, a proof
with `tlapm SingleFlightProofs.tla`.

## 1. The system

DockerLs is a command line program. A command asks registries for candidate
images, measures them with Trivy or Grype, judges the results and prints them;
`dockerls build` builds, scans, remediates, gates and publishes an image. One
process is one asyncio event loop with threads at its edges (docker, SQLite,
flock); what several processes share is on disk: the Trivy database, the cache
slots, a SQLite cache, a directory of saved runs.

| component | state it keeps | operations | what makes it hard | what makes it correct |
|---|---|---|---|---|
| single flight (`utils/single_flight.py`) | key -> flight: a task and a count of waiters | run, done callback | cancellation between any two steps; the counter | one live task per key; work is cancelled only when nobody needs it; nobody is left waiting |
| measurement service (`application/services/measurement.py`) | prepared flag, scanner fingerprint, identities, prefetched and finished results, flights, scan slots | prepare, resolve, measure, prescan | tags move, the database is refreshed, the budget ends, the run is cancelled, requests share work | a verified answer is for the bytes and the database revision it names, whoever measured it; slots respected; nothing outlives the run |
| measurement store (`measurement_store.py` over `cache/sqlite_cache.py`) | rows by digest, platform and scanner revision | get_scan, put_scan | rows of earlier runs, failing writes, concurrent processes | a row is what it is filed as |
| trivy cache pool (`integrations/trivy/cache_pool.py`, `scanner.py`) | lock files, slot directories, db.lock, the shared database | lease, link, prune, release, refresh | processes, kills, open-then-lock against unlink | a slot has one holder; a linked database is whole; nobody removes what is in use |
| build pipeline (`application/use_cases/build_image.py`) | digests before and after, image, scan, rounds; the tag in the docker daemon | execute | edits meanwhile, a mutable tag, scans and builds that fail, several builds | what is published passed its gate, came from the digested input and is what the record says |
| scan engine (`engine/`) | semaphore, cache directory channel, deduplication table, process groups | Run | worker pool, cancellation, kill and reap | each reference answered once and in order; no process left; no deadlock |
| engine client (`integrations/engine/client.py`) | the subprocess and its budget | scan_batch | timeout, cancellation, a short answer | as many results as targets, or the fallback |
| fallback scanner (`fallback_scanner.py`) | readiness of the secondary | scan, refresh_db | concurrent first failures | a result names the scanner that made it; the second scanner is prepared once |
| SQLite cache, tag and scan histories | rows with expiry; a list per tag | get, set, delete, sweep; observe | read-modify-write by several processes | no expired answer; no move that nobody saw |
| recommendation (`recommend_images.py`) | six lists of tags, the deadline, pending checks | execute | sources that fail, one deadline for all stages, a database refresh beside it | every tag accounted for once; a result says what it stands for |
| scores, ranking, plan of scans | none | pure functions of an analysis or a list of tags | caps, ties, missing facts | the unmeasured never outranks the measured; no tag is dropped silently |
| threat intelligence (`threat_intel/client.py`) | memoised catalogues, pending EPSS futures | kev, epss lookups | shared futures, cancellation, partial answers | an unanswered question is not a "no" |
| rate limiter, breaker, retries (`utils/rate_limit.py`, `retry.py`) | tokens; failures and opening time | acquire; check, record | many callers, elapsed time | rate kept; nobody starves |
| subprocess runner (`utils/subprocess_runner.py`) | a process group | run | cancellation at any point, also while reaping | every process is reaped |
| toolchain installer (`infrastructure/toolchain/installer.py`) | temporary files, installed binary | install | failure or kill between steps, two installers | nothing unverified is installed |
| run store (`infrastructure/run_store.py`) | files by run id | save, load, prune | concurrent runs, kills | a load sees a whole run or none; the newest survive |
| registry clients (`integrations/registry`, `dockerhub`, `dhi`) | memos of a run, mappings and facts kept between runs, listings, an index | resolve, inspect, list, tag_exists | tags move, requests fail, locks and futures are shared | what is confirmed is of the bytes and the platform; a missing answer is not a "no" |
| gates and policies (`gate.py`, `build_policy.py`) | none | evaluate, merge, check | gates that do not order, answers that are missing | a merge only tightens |
| Dockerfile analysis, base upgrade, recipes, remediation, migration | none | read, judge, rewrite, render | continuations, stages, shared ARGs | nothing hides from a rule; an edit settles; advice accounts for every finding |
| attribution, run comparison, exemptions, registry audit | none | attribute, diff, hide and state, audit | what was not measured, versions, expiry, a silent registry | nobody is blamed for what was not measured; what is hidden is also said; an alert is an answer |
| network policy, exporters, CLI, configuration | none beyond a command | - | text and wiring | - |

Interactions. A use case asks the measurement service; the service resolves
through the registry inspector, shares work through two single-flight tables
(scans, preparation), asks the store, and calls a scanner directly or, for a
batch, the Go engine. The Trivy scanner takes its cache directories from the
pool and refreshes the database under the pool's lease. The recommendation
runs discovery, measurement, enrichment and checks under one deadline. The build
use case calls docker and the scanners itself, and asks threat intelligence.

## 2. What is modelled

### SingleFlight (`dockerls/utils/single_flight.py`)

An action is what runs between two suspension points of one coroutine.
A flight is named by the caller that created it. `Start` and `Join` are the two
branches of `run()` up to the `await`; `Finish` and `Unwind` are the ends of the
task; `OnDone` is the done callback, which runs before any waiter resumes;
`Resume`, `Cancel` and `Reap` are the ways out of the `await` and its `finally`.

Properties: at most one live task per key (`OneTaskPerKey`); a caller that waits
has a task that is alive or done (`NobodyAbandoned`); a step that cancels a task
leaves no other caller waiting for it (`CancelOnlyUnneeded`); under weak
fairness of tasks, callbacks and resumptions every caller that waits leaves
(`EveryCallerLeaves`).

### Measurement (`dockerls/application/services/measurement.py`)

One run of a command: `Requests` are its `measure()` calls, and the callers of
an instance `SF` of SingleFlight whose keys are `_run_key`. The task of a flight
is `_measure_once`: prepare, look up the store, take a slot, scan, store. Around
it: the registry whose tags are re-pointed, a database that a refresh may
advance, the budget in the three classes the code tells apart (`ample`, `short`:
less than a scan needs, `spent`), rows filed by earlier runs, prescan with the
engine as one step per target, and the cancellation of the run.

Properties: `StoredIsPinned`, `AnswerIsForIdentity`, `AnswerIsCurrent` (bytes
and revision of stored rows and answers), `SlotsRespected`,
`NothingOutlivesTheRun`, `EveryRequestAnswered`.

Abstractions: one repository and one platform; a reference is a digest, a tag or
the text of a key; a scan result is whose bytes it measured, with which
revision, or why it failed. A store read or write may fail. TTL and the exact
reasons for rejecting a row are left out: rejecting is always possible.

### TrivyCachePool (`dockerls/integrations/trivy/cache_pool.py`, `scanner.py`)

Processes over one directory. A lock belongs to a file (an inode), not to its
name: `lockFile[s]` is the file that has the name `slot-s.lock` now, `fd[p]` the
one a process has open, `locked[f]` who locked it. `_try_lock` is two steps
(`OpenSlot`, `LockSlot`; `OpenVictim`, `RemoveVictim`), because another process
may run between `open` and `flock`. Linking (`PrepareSlot`) happens under the
shared lease of db.lock, a download under the exclusive one. `Crash` kills a
process: the kernel drops its locks, and the trivy it started goes on
(`OrphanEnds`). Every process may start again.

Properties: `OneVisibleHolder` (the lock excludes, as long as the file has its
name), `RemovedOnlyUnseen` (no step removes the directory of a visibly leased
slot but that of a holder of a nameless file), `NoHalfWrittenDb`,
`NoOlderRevisionClaimed`, `EveryRunGetsReady`.

Not modelled: the fallback when db.lock cannot be created at all or `fcntl` is
missing (the code goes on without the lease, or without isolation), the
rotation of slots among the scans of a run, sizes and ages (which slots are
pruned is any subset).

### BuildPipeline (`dockerls/application/use_cases/build_image.py`)

Each action is one command of the pipeline, in the order of `execute()`:
validate, digest, docker reads the context, docker names the image, inspect,
digest again, scan, remediate and rebuild, decide, retag, push, record. All of
them see the image by its tag, and `Edit` changes the context at any time. An
image is the revision of the context docker read and the number of
remediations. Gates, provenance status, policy and the comparison of the
digests are translated from `gate.py`, `provenance.py` and `build_policy.py`.

Properties: `PublishedPassedGate`, `PublishedFromInput`, `RecordIsOfPublished`,
`EveryBuildEnds`. The first and the last safety property except a build whose
name was taken by another build meanwhile: docker offers one mutable name, and
the code makes no claim about it. They hold for every other interleaving of two
builds. `PublishedPassedGate` also excepts a build whose last rebuild could not
be scanned, which is what the run `build_pipeline_scanned` is about.

Left to other modules: the generated hardened Dockerfile (Dockerfile; here an
`Edit` covers what it does to the context), the EPSS gate and the policy rules
other than scan and provenance (BuildPolicy; here they may refuse any image).
Not modelled: inheritance, the report's contents, the git state in the digest.

### ScanEngine (`engine/`, `integrations/engine/client.py`, `batch.py`)

A batch from the Python call to the placed results. A job per target goes
through `Lead` (first of its key) or `Follow`, `TakeSlot`, `TakeDir`, `Launch`,
`Exit`, `Overflow`, `Expire`, `Reap`, `GraceOver`, as the goroutine of
orchestrator.go and runCapture of runner.go do; `KillTimer` is the timer that
killGroup arms. The client may `Stop` (timeout, cancellation), the engine may
`Crash`, and a scanner lives in a group of its own, so it may outlive both.

### PythonScan (`utils/subprocess_runner.py`, `trivy/scanner.py`, `grype/scanner.py`, `fallback_scanner.py`)

Scans without the engine: taking a cache directory, run_capture with its group
kill and reaping, the second scanner behind a lock. A call may be cancelled,
several times, at every `await`.

### SqliteCache, CacheMap, StoredFacts, CacheClients

SqliteCache has each SQL statement as an action; `get` is two when the row has
expired. CacheMap is what CacheStoreInterface promises: a map that may forget.
CacheClients runs processes over it that serve evaluations and scans, store them
and record what a tag points at; StoredFacts has the rules for rows and
histories (TTL, fingerprint, refusal, pruning). The instance `Map` of CacheMap in
SqliteCache is the refinement mapping: the value of a key is that of its row
while it has not expired; the property `ServesTheMap` checks it for the cache
under its clients.

### Recommend (`use_cases/recommend_images.py`)

A run from the search to the closed clients. `Expire` is the deadline and may
come at any step; the actions are the steps of `_execute`, `_analyze_tags`,
`analyze_tag`, `_enrich_stage`, `_finalize` and the checks of the finalists, and
`Stop` is `_stop` of the refresh that runs beside the search. The finalists are
the set that the pool shows, in the order of `Order`. Which tags are scanned is
free here: ScanPlan has the rules.

### Registry, Listings, TagChecks, Catalogue (`integrations/registry`, `dockerhub`, `dhi`)

Registry: resolution of a tag and inspection of what it resolved to, with the
lock and memo of a run and the mappings and facts kept between runs, over a
registry that moves the tag, fails, or serves other bytes. Listings: list_tags
page by page, for callers that stop early and callers that need all. TagChecks:
tag_exists, whose callers share one future. Catalogue: the index and the
definitions of the hardened images over two runs and a commit between.

### Intel, Pacing, Toolchain, RunStore

Intel: catalogues loaded once behind a lock, with those that forget a failure
and those that remember it, and EPSS lookups that own some futures and join
others. Pacing: breaker, bucket, call, record and retry around one provider,
with a clock that is relative so that it need not end. Toolchain: the installer
step by step, up to the rename. RunStore: write beside, rename, prune, search.

### Verdict, ScanPlan, Dockerfile, BuildPolicy, BaseUpgrade, Recipe, Migration, Attribution, Exemptions, RegistryAudit

Pure decisions as operators, each next to the property it must have. Numbers are
scaled to integers; a Dockerfile is a sequence of lines that have traits (uses
sudo, cleans up, is continued), because which text has which trait is a regular
expression's business and what follows from it is the code's. An instruction is known by the
physical line it starts on and a stage by the line of its FROM, so that a file
that is edited can be compared with the file it was; which stage a stage is built
on is a function of the stages, and the user and the base at the end of the chain
are found by walking it, a recursive function. Versions are compared component by
component (`Before`), and the spread of a plan takes of every line (a major
version) its turns, of which each has a leader (`Line`, `Group`, `Leader`,
`Turn`). BuildPolicy has
the gates, their merge and every rule of a policy; BaseUpgrade the bases of a
file, their state and the edit; Recipe the generated files, read back by
Dockerfile's rules. Attribution has two comparisons of findings: of a build with
its base, where a finding is an advisory of a package, and of two saved runs,
where the version of the package belongs to it. Exemptions follows a rule of the
ignore file to what it hides and to the VEX statement that it becomes, over two
days. RegistryAudit has the six checks over what the registry, with or without a
login, answers or does not.

### Services and Decisions

Services that share nothing stand side by side in Services: a behaviour of it is
one service's, so the states of a run add up and do not multiply. Its variables
are slots `x1`, `x2`, ...; each service has names of its own for the slots it
uses (`level == x1` for the bucket of Pacing, `rows == x1` for the cache), and its
module is instantiated with them. Services has a constant for every constant of
its modules, and states the eight properties below; MCServices only gives the
constants their values. A theorem about Services is therefore one about each of
its modules, for all their constants. Decisions does the same for the questions
that have no state: a behaviour of it picks a question and one of its inputs,
which are constants, and judges it; MCDecisions has the inputs.

## 3. What the runs check

| run | instance | shows |
|---|---|---|
| single_flight | 3 callers, 2 keys; 74 thousand states | the four properties and liveness |
| measurement | 2 requests, a shared tag, 2 digests, 1 slot, one re-pointing, 2 revisions, old rows; 2.1 million states | the six invariants |
| measurement_live | 2 requests, smaller world; 258 thousand states | every request is answered |
| measurement_prescan | the same world | violation: the engine is handed the key instead of the reference |
| trivy_cache_pool | 2 processes that want the one slot, one kill, 2 revisions; 214 thousand states | the five properties, no deadlock |
| trivy_cache_pool_shared | the same | violation: two processes hold one slot |
| build_pipeline | 2 builds of one tag (a remediating one behind a KEV gate with a provenance policy, a plain one), 1 round, 1 edit; 675 thousand states | the four properties |
| build_pipeline_scanned | 1 build behind a severity gate | violation: a remediated image is published unscanned |
| recommend | 2 tags of two manifests (a clean one at its end of life, one with an exploited critical), 3 profiles, any stored rows, the deadline and a cancellation at any step; 1.5 million states | every tag has one home (`AccountsForAll`), the result says what it stands for (`ResultIsHonest`), no unanswered row and no refresh is left (`LeavesCleanly`), every run ends |
| recommend_siblings | the same, 2 tags of one manifest | violation: one tag is served the other's evaluation |
| services | 11 instances, 623 thousand states: engine 3 targets (2 of one key), 2 directories, 2 workers; scanners 2 calls, 1 directory, 3 cancellations; cache 2 processes, 3 keys, a clock of 3 instants; run store 3 runs, 2 kept, 1 kill; 2 installers, 1 kill; 2 callers of a provider, burst 1, 2 failures to open; registry 2 askers, 2 runs, 1 move, an index of three platforms; listing of 3 pages, 3 callers; 3 askers of a tag; catalogue 2 runs, 1 commit; 2 enrichments of 2 findings | the eight properties below |
| decisions | 239 thousand inputs and verdicts: all pairs of analyses that differ in what may mask a finding, subsets of 8 tags, files of up to 4 lines, up to 2 gates a side, policies, files of up to 3 lines with shared ARGs, all recipes, up to 2 findings, all pairs of sides, builds of up to 3 findings over bases of up to 2, pairs of runs, up to 2 exemptions on 3 days, every answer to an audit | the five properties below |

The properties of `services`: `ScanningIsContained` (a scanner has its directory
to itself and ends with its call; results are in the places of their targets;
the second scanner is prepared once), `ServesTheMap` (refinement), `StoredIsHonest`
(evaluations are of a scan that is still usable, histories tell moves that were
seen, pruning keeps the newest, runs are compared with whole runs),
`InstalledIsVerified`, `Paced` (the bound of a token bucket in every window),
`IdentityIsHonest` (what is confirmed was published under the tag and is of the
platform; one identity a run; facts that are kept are of that platform),
`AbsenceIsAnswered` (no "no" without an answer, over listings, checks, catalogues
and scores), `EveryoneServed` (liveness of the eight services that wait).

Of `decisions`: `VerdictIsEarned` (the measured before the unmeasured, fewer
criticals first, readiness needs every proof, every tag is planned or deferred,
a spread covers the lines), `DockerfileIsSound` (stages inherit to the end of
the chain, ready files have nothing to hide, the hardened file is no worse),
`PoliciesAddUp` (a merge fails whatever one side fails), `UpgradeIsSound` (an
upgrade settles in one step and violates nothing it did not before; a recipe
passes the rules), `AdviceIsHonest` (every finding has one remedy or is listed
as unresolved; every difference that both sides' facts show is named; a finding
is the build's own only if the base was measured without it; a cause is what is
known to have changed; what is hidden on a day is what the VEX document of that
day states; an alert of the audit is an answer of the registry).

Why the bounds are enough. Three callers are the one that creates a flight, one
that joins and one that comes too late; two keys show that a flight forgets only
itself. Two requests already meet in every stage of a flight; one move of a tag
and one refresh separate what was resolved from what is scanned. Two processes
and one kill reach every overlap of leasing, pruning and refreshing, since locks
are pairwise; the invariants among them are also proved for any number. Two
builds are needed for one to take the other's name, one round for a rebuild, one
edit for a change before, during or after the build. Two tags are one that is
shown and one that is not; TopN is 1 so that the ranking decides. In the engine
three targets are a leader, its sibling and a stranger over two slots. A clock
of three instants has a fresh, a just expired and an old row. Three runs over a
retention of two make one prunable. Two runs of the catalogue and the registry
are the one that stores and the one that reads. Four lines hold a stage, its
heir, an instruction and its continuation.

Fairness. The event loop and the goroutines run what is ready, and every external
command (scanner, docker, download, registry) has a timeout in the code, so the
tasks, requests and processes are weakly fair; a process waiting for the shared
lease of db.lock is strongly fair, because the kernel wakes a blocked `flock`. A
timer that is armed fires, a process that was sent SIGKILL is collected, and in
Pacing time passes. Nothing is assumed of users, tags, the clock of the cache,
deadlines, kills or cancellations, and a scanner need not heed SIGTERM.

CHECK_DEADLOCK is FALSE where a run of the program simply ends; the pool, whose
processes start again, is checked for deadlock.

## 4. What the checks found

Runs that expect a violation:

1. `prescan` hands the engine the text of the run key as the image reference
   (`measurement.py:605`).
2. `open` then `flock` against `unlink` lets two processes lease one slot
   (`cache_pool.py:59`).
3. A failed scan after a remediation leaves the previous scan in place, and
   the gate judges that one (`build_image.py:385`).
4. A stored evaluation is served to another tag of its digest with the first
   tag's image in it (`recommend_images.py:1213`).

Stated in the modules, refuted by TLC on the instances above, and not runs of
their own (a definition whose comment says "the code does not keep it"):

5. `OnlyOwnCancellation` (`single_flight.py:50`): a caller that joins a flight
   after its last waiter cancelled it, and before the task unwound, is cancelled
   too. `OnlyOwnTimeout` (`threat_intel/client.py:367`): so is an enrichment
   that awaits a bare future of another one.
6. `MeasuredOnce` (`measurement.py:404`): between the end of a shared scan and
   the resumption of its waiters a new call scans the image again.
7. `ScannersReaped` (`runner.go:136`): the engine waits for a cancelled scanner
   no longer than the timer that is to kill it, and may answer, or hand its
   directory on, while the scanner runs.
8. `VerifiedIsDigested` (`provenance.py:90`): two contexts that could not be
   digested compare equal, so the provenance is VERIFIED.
9. `TagNotFoundIsTrue` (`oci.py:561`): a listing cut short by a refused page or
   the limit of pages counts as whole, and a tag beyond it is TAG_NOT_FOUND.
10. `FactsAreOfThePlatform` (`inspector.py:444`): the facts of a tag whose
    identity could not be resolved are those of the default platform.
11. `CompleteIsWhole`, `TextsAreOfTheirRevision` (`catalog.py:275`, `225`): an
    index that was cut off is read back as complete; a definition is stored
    under the revision of the index and fetched from the head.
12. `NeverHalfABinary` (`installer.py:407`): two installers share the staging
    name, and one renames what the other still writes.
13. `PreviousIsEarlier` (`run_store.py:188`): a run may be compared with one that
    started after it.
14. `EveryoneEnriched` (`recommend_images.py:968`): with enrichment as a stage,
    evaluations from the cache are never enriched.
15. `CleanerScoresHigher` (`security_score.py:40`): a bonus of 4 and an age
    penalty of 3 together outweigh the 5 of a HIGH.
16. `Demands` without its premise (`build_policy.py:207`): merged lists of allowed
    registries are united, which allows what one side forbids.
17. `NothingHides` (`dockerfile_validator.py:337`): a comment inside a continued
    RUN swallows the lines after it.
18. `PatchIsApplicable` (`remediation.py:132`): two findings of one package pin two
    versions of it in one command.
19. `SilenceIsUnknown` (`registry_audit.py:117`): a request that fails comes back
    from the inspector as an empty digest and not as an exception, so that a
    registry which does not answer is reported as "no cosign signature is
    published", an alert. The unit test uses an inspector that raises.
20. `PublicIsAnonymous` (`registry_audit.py:61`): the check takes any answer for an
    anonymous one, and the command gives the inspector the user's credentials.
21. `StableIsCurrent` (`registry_audit.py:104`): the digest that was just resolved
    is not held against the history, so a tag that moved since it was last seen
    is reported as one that never changed.
22. `UnknownIsNoted` (`run_diff.py:173`): with a database revision unknown and a
    digest that changed, the image alone is named as the cause, without a note.

Premises that the properties carry because the code does not keep them:
`NoSharedArg` and `NoStageAsBase` in BaseUpgrade (an ARG that two tags share flips
with every upgrade; a FROM of an earlier stage is taken for a base), `AliasesOnce`
and `CommentsApart` in Dockerfile, `faults = {}` in `ScansIsolated`.

Found by proving. `AccountsForAll` does not hold for every instance: the run
`recommend` has tags of two manifests, and where two tags share one the defect of
4 loses a tag from the account; the theorem has the premise `ManifestsDiffer`. The
meaning of a confirmed identity was stated too strongly in Registry (`Means`): of
the images of an index the inspector takes one without a variant for a wanted one
as readily as one of the default variant (`inspector.py:661`), which the instance
did not show; the definition says so now.

Met while reading, without a property: the provenance of a remediated image names
the digest of the original Dockerfile (`build_image.py:302`); every call that
comes after the cooldown of an open circuit passes as a probe
(`rate_limit.py:91`, in Pacing the behaviour of `Check`); a batch for another
platform keeps the engine client of the first (`batch.py`); `USER $VAR` counts as
a user that is not root, and HEALTHCHECK NONE as a health check.

## 5. What is proved

Every safety property of the passing runs is a theorem of its specification, for
every value of the constants that satisfies the named assumptions: what TLC checks
on a small instance and no theorem states is liveness. Proofs are in modules of their own, next to the module they are
about; their shape is one lemma per group of actions (`...Keeps`), one for the
initial states, one that collects the actions, and theorems that are short.

The assumptions say what the code gives for granted, and TLC evaluates them on
each instance: callers, runs, tags, directories and installers are finite sets
where they are counted (`RequestsFinite`, `BuildsFinite`, `RunStoreAssumption`,
`EngineAssumption`); `None` and `Nobody` are not values that a program could have
(`NoneIsNoValue`, `NoneAsksNothing`, `PythonScanAssumption`, `ToolchainAssumption`,
`TagChecksAssumption`, `CatalogueAssumption`); findings, options and stored rows
are of the shapes that their modules declare (`FindingsAreFindings`,
`OptionsAreOptions`, `CacheAssumption`); a call needs at least one token
(`PacingAssumption`); a registry that answers a listing serves a first page
(`ListingsAssumption`); an index lists images and says of each the platform that
its config says (`RegistryAssumption`), without which no client could know what
a listed image is before it has pulled it. Of the inputs to the decisions: gates
have a kind and severities a position (`GatesAreGates`), ceilings and counts are
numbers (`CeilingsAreNumbers`), and so is what an analysis counts
(`CountsAreNumbers`); the tags of a plan are finitely many and have names of their
own (`TagsAreNamed`); a finding is of the system or of a language
(`FindingsHaveOrigins`), Dockerfiles and scans are lists of anything
(`FilesAreLists`, `ScansAreLists`), days follow each other (`DaysFollow`), what a
registry says of a tag is not nothing (`RegistriesSaySomething`), it could be asked
about the images that recipes start from (`BasesAreKnown`), and `None` is not an
account that a file could name (`NobodyIsNoUser`).

| module | theorems | inductive invariant, and why the property alone is not one |
|---|---|---|
| SingleFlightProofs | `TypeCorrect`, `Coalesced`, `NeverAbandoned`, `CancelsOnlyUnneeded`, `HandedOwnAnswer`, `CancellationIsAwaited` | The count of a flight is the number of callers that await it (`Counted`); what the table stores exists and is not forgotten; a flight whose callback has not run is in the table under its key. Two live flights of one key would both be stored under it. |
| TrivyCachePoolProofs | `TypeCorrect`, `VisibleLeasesExclude`, `DatabaseLinkedWhole`, `NeverOlder`, `InUseIsNotPruned` | A lease is a lock of its file (`LeaseIsLock`), an open file exists (`FdIsOpen`), the exclusive lease of db.lock excludes the shared one (`DbLock`), and the revisions a run linked, may link and reports are ordered (`Revised`). |
| MeasurementProofs | `TypeCorrect`, `ImplementsSingleFlight`, `StoreIsPinned`, `AnswersTheIdentity`, `AnswersAreCurrent`, `SlotsAreRespected`, `NothingIsLeftBehind` | The invariant of SingleFlightProofs, through the refinement, and `ServiceInv` on top: a task past its preparation sees the fingerprint of the revision; a request works under the key of what was confirmed; and whatever is prefetched, remembered, produced or handed on under a key is sound for it (`RemembersSound`, `ProducesSound`, `AnswersSound`). An answer may come from any of these places, so the property of answers says nothing about the step that makes one. |
| BuildPipelineProofs | `TypeCorrect`, `PublishedBuiltFromInput`, `RecordsWhatWasPublished`, `PublishedDeservedIt` | `RunInv` says what the image under a build's name is to it while nobody took the name: made from a tree between the two digests, scanned as remembered, let through by the gate. `PublishesOnce` and `RecordsLast` make the publication that a record names unique; `TreeIsCounted` bounds the revisions by the edits and rounds. |
| RecommendProofs | `Invariance`, `SaysWhatItStandsFor`, `EndsCleanly`, `AccountsRelativeToTags`, `AccountsOfDistinct` | Where each tag is counted at each place of the run (`EachIsPlaced`), what is under way (`WorkHasAnalysis`, `RefreshIsOver`), whose image a row or an analysis has (`OfItsManifest`), and what the finalists are among the candidates (`FinalistsAreBest`). The account is a statement about the result only. |
| CacheProofs | `Invariance`, `ImplementsTheMap`, `ServesCurrent`, `HistoriesTellTheirChain` | Values are under keys of their kind; what a run holds at each place (`Local`); and a time names one scan (`Numbering`), without which an evaluation could be served with a scan that is not its own though both reads are right. |
| ServiceProofs | `CallsArePaced` | What was given in the last w ticks, with what the bucket would hold now, is at most a full bucket and what w - 1 ticks refill (`Balance`): the bound of the property does not see what the bucket still has. |
| | `WhatIsInstalledWasVerified` | What each stage has checked of its archive (`Vetted`, `Judged`), which file the staging name and the final name stand for, and who writes it while nobody overlaps (`Alone`). |
| | `TheCacheIsAMap`, `WhatIsKeptIsHonest` | CacheProofs' invariant, and for the run store: a run that may be pruned has as many newer ones as are kept, and that set only grows (`Replaceable`), though the listing was read before. |
| | `ScannersAreContained` | PythonScan: its type, process and readiness together. ScanEngine: directories and slots are a partition (`Pooled`), a job's result was found for its key (`Entered`). |
| | `AbsenceIsNotAssumed` | Listings: what a caller has read of the pages is in what it gathered (`Gathered`), and whatever was handed out is nothing only if the first page was refused (`Told`). TagChecks: the shared future is of one who asks, is pending while that one asks, and then its answer. Catalogue: who loads has the lock and there is no index yet. Intel: an answer comes from a list that was loaded, a catalogue that remembers has given all the same answer (`Saying`), and what is filed as absent has no score. |
| | `IdentitiesAreHonest` | Who resolves has the lock of its platform and there is no identity yet (`Resolving`); what is remembered in the run, mapped or handed out is true of what the tag has pointed at (`Remembered`, `Given`); what is filed under the digest of an image is its config (`Configs`). The facts kept for later runs come from what inspection was given before, and are right only by these. |
| DecisionProofs | `NeitherSideLoosens` | The decisions have no state, so the invariant only says where the input is from. Of gates: who is stopped at a severity is stopped at every lower one, and the merge keeps the lowest; of policies: each of the six rules for itself. |
| | `WhatIsAdvisedIsHonest` | Each of the six questions for itself. The plan of work needs that its order of the groups is strict and total, so that places differ and the group with place 1 has as many criticals as any. |
| | `EveryVerdictIsEarned` | Of verdicts: the penalties are monotone in criticals and highs and outweigh every bonus, and the key is compared from its first place, where an unverified image has the lowest confidence. Of plans: preference, newness, turns and representatives are strict total orders of a finite set of tags (`Orders`); each tag has a place in its order (`EachHasItsPlace`), and so a budget takes exactly the first ones (`TheBudgetIsSpent`). |
| | `EveryDockerfileIsSound` | The validator, which joins lines before it drops comments, and the builder, which drops them before, read the same instructions where comments stand apart (`BothReadAlike`). A walk up the stages stays in every set that it starts in and that is closed under the step (`WalkStays`), so both find the same user. What is added after the last instruction leaves what was read (`AppendedReads`), and the hardened file is the old one with one instruction more. |
| | `UpgradesAndRecipesAreSound` | An upgrade changes digests only: two files with the same words are read into the same instructions up to the digests, with the same stages and the same user (`SameWordsReadAlike`, `TheUserStays`). Which lines a recipe can hold and how it begins and ends (`TheRecipeIsWritten`) bounds what can be wrong with it (`HarmlessIsReady`), without enumerating recipes. |

Two refinements are proved: a run of Measurement implements SingleFlight (every
`measure()` is a caller of `run()`), so the theorems about the table are theorems
about the service; and the SQLite rows under any number of clients implement
CacheMap, a map that may forget. Lemmas about operators of the models that the
proofs share: `MaxIsIn` and `LargestIsIn` (a finite set of numbers has its
largest), `Quotient` and `OneMore` (what ticks refill), `NewerGrow` (what is newer
than a run), `Ranking` (the place of a result is the rank of its target),
`Selected` (the platform that an index is asked for), `PagesArePublished`,
`ThePlanIsARanking` (who comes first has a place of its own, and one has the first),
`ReportedIsOfIt` (what is kept of several findings is one of them),
`LeastIsIn` (a finite set of numbers has its least), `TuplesAreOrdered` (tuples of
numbers are totally ordered by their components), `EachHasItsPlace` (in a strict
total order of a finite set no two members have the same place),
`ListsAreJoined` (the concatenation of two lists, line by line).

What made the last three theorems possible is how their models are written: no list
is built by recursion where a property only asks which members it has and in which
order. A plan is a set of tags with places, what is read of a file is a function of
line numbers, an upgraded file has the domain of the old one. The library's
induction theorems cannot be cited with an operator, so where a proof needs
induction over numbers (the walk up the stages, the places of an order, the first
difference of two versions) it takes the least counterexample (`LeastIsIn`) and
refutes it.

Only model-checked:

- liveness (`EveryCallerLeaves`, `EveryRequestAnswered`, `EveryRunGetsReady`,
  `EveryBuildEnds`, `EveryRunEnds`, `EveryoneServed`) and with it fairness and
  ENABLED, which are outside the prover;
- the runs that expect a violation, and the definitions of section 4 that TLC
  refutes.

## 6. Not modelled, and why

- Parsing and formatting: scanner output, references, the JSON of VEX, policy
  files, Dockerfile text, reports, exporters. They are data without order.
- Network policy: a predicate over hosts, stateless. Signatures: one subprocess
  per question; its three outcomes are in Toolchain.
- analyze_image, compare_images, search_images and the command line: they hand lists to services that are modelled and print the answers.
- OSV lookups: they go through SingleFlight. The rotation of cache slots among the
  scans of one process, and evidence files.

## 7. Plan

The components marked as partly modelled in PROJECT.json have operations left:
the command line's own decisions, the exporters and the settings. They are
sequential, without state, and would join Decisions as further topics. A proof of
liveness has to wait for a prover of fairness.
