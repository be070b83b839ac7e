------------------------------ MODULE Services ------------------------------
(***************************************************************************)
(* The services of a run that share nothing with each other: a behaviour   *)
(* is one service's.  Services use the same slots x1, x2, ... of the       *)
(* state, each under the names below, in the order in which its module     *)
(* declares them; the slots that a service does not need stay None.        *)
(***************************************************************************)
EXTENDS Integers, FiniteSets, Sequences

VARIABLES service, x1, x2, x3, x4, x5, x6, x7, x8, x9, x10, x11, x12, x13, x14
vars == <<service, x1, x2, x3, x4, x5, x6, x7, x8, x9, x10, x11, x12, x13, x14>>

CONSTANTS None, Nobody, MaxCrashes
-----------------------------------------------------------------------------
\* One batch of the scan engine (ScanEngine).
CONSTANTS
  NTargets, Digest, KeyOf, Dirs, Workers, Serialize
refused == x1
client == x2
engine == x3
ctx == x4
job == x5
dir == x6
scanner == x7
over == x8
found == x9
results == x10
faults == x11
Engine == INSTANCE ScanEngine WITH proc <- scanner, Keys <- Digest
-----------------------------------------------------------------------------
\* Scans of one process without the engine (PythonScan).
CONSTANTS
  Calls, CacheDirs, MaxCancels
place == x1
slot == x2
proc == x3
leaving == x4
said == x5
cancels == x6
ready == x7
lock == x8
Python == INSTANCE PythonScan WITH at <- place, answer <- said, Dirs <- CacheDirs
-----------------------------------------------------------------------------
\* The cache and the runs that read and write it (CacheClients).
CONSTANTS
  Procs, Keys, MaxNow, NoValue, Garbage, MaxObservations, ScanTtl, UnknownTtl,
  IntelMaxAge, Fingerprint, Policy, Digests, MaxMoves, MaxRounds
rows == x1
now == x2
pending == x3
answer == x4
command == x5
at == x6
mem == x7
result == x8
scans == x9
tag == x10
rounds == x11
Cache == INSTANCE CacheClients
-----------------------------------------------------------------------------
\* Saved runs (RunStore).
CONSTANTS
  Runs, Retention, Scopes
disk == x1
started == x2
phase == x3
stale == x4
listed == x5
previous == x6
saved == x7
killed == x8
Store == INSTANCE RunStore WITH crashes <- killed
-----------------------------------------------------------------------------
\* Installers of the scanners (Toolchain).
CONSTANTS
  Installers, Signed
stage == x1
archive == x2
list == x3
verdict == x4
staging == x5
final == x6
files == x7
overlap == x8
crashes == x9
Tools == INSTANCE Toolchain
-----------------------------------------------------------------------------
\* Calls of one provider (Pacing).
CONSTANTS
  Clients, CallsEach, Burst, Need, Threshold, Cooldown, Attempts, Backoff, Window
level == x1
idle == x2
state == x3
left == x4
timer == x5
attempt == x6
failures == x7
closing == x8
given == x9
Pace == INSTANCE Pacing WITH Callers <- Clients, Calls <- CallsEach
-----------------------------------------------------------------------------
\* Resolution and inspection of one tag (Registry).
CONSTANTS
  Candidates, Platform, Hints, Tops, Body, Default, MaxRuns, MaxRetags
pointsAt == x1
pointed == x2
identities == x3
inside == x4
resolved == x5
digests == x6
mappings == x7
facts == x8
inspects == x9
top == x10
identity == x11
read == x12
runs == x13
moves == x14
Identity == INSTANCE Registry WITH Askers <- Candidates, Wants <- Platform, Digests <- DOMAIN Body,
  tag <- pointsAt, holder <- inside, phase <- inspects, answer <- identity, MaxMoves <- MaxRetags
-----------------------------------------------------------------------------
\* The tags of one repository (Listings).
CONSTANTS
  Searchers, Verifiers, Asked, Pages, MaxPages, Enough, Absent
listing == x1
complete == x2
lister == x3
lists == x4
tags == x5
page == x6
payload == x7
cut == x8
unlisted == x9
Tags == INSTANCE Listings WITH holder <- lister, phase <- lists, answer <- payload, refused <- unlisted
-----------------------------------------------------------------------------
\* Whether one tag exists (TagChecks).
CONSTANTS
  Checkers
exists == x1
cached == x2
owner == x3
shared == x4
checks == x5
joined == x6
told == x7
Exists == INSTANCE TagChecks WITH Askers <- Checkers, future <- shared, phase <- checks, answer <- told
-----------------------------------------------------------------------------
\* The hardened catalogue (Catalogue).
CONSTANTS
  Seekers, Images, Wanted, MaxCommits
head == x1
holds == x2
index == x3
loaded == x4
revision == x5
loader == x6
kept == x7
texts == x8
seeks == x9
session == x10
Hardened == INSTANCE Catalogue WITH state <- loaded, holder <- loader, cache <- kept, phase <- seeks, runs <- session
-----------------------------------------------------------------------------
\* Threat intelligence of one run (Intel).
CONSTANTS
  Enrichments, Findings, Finds, Scored, Catalogues, Forgetful
memo == x1
available == x2
guard == x3
stored == x4
asks == x5
says == x6
fetching == x7
future == x8
status == x9
scores == x10
looks == x11
waits == x12
ended == x13
Threats == INSTANCE Intel WITH Askers <- Enrichments, Wants <- Finds, lock <- guard, pending <- fetching, NoAsker <- Nobody
-----------------------------------------------------------------------------
ASSUME EngineHasWorkers == Engine!EngineAssumption
ASSUME NoneIsNoCall == Python!PythonScanAssumption
ASSUME CacheIsACache == Cache!CacheAssumption
ASSUME RunsAreNumbered == Store!RunStoreAssumption
ASSUME NobodyIsNoInstaller == Tools!ToolchainAssumption
ASSUME PacingIsPossible == Pace!PacingAssumption
ASSUME IndexesSayWhatImagesSay == Identity!RegistryAssumption
ASSUME APageIsServed == Tags!ListingsAssumption
ASSUME NoneIsNoChecker == Exists!TagChecksAssumption
ASSUME NoneIsNoSeeker == Hardened!CatalogueAssumption

(***************************************************************************)
(* Beyond<k>: the slots that a service of k variables does not need.       *)
(***************************************************************************)
Beyond13 == <<x14>>
Beyond11 == <<x12, x13, Beyond13>>
Beyond10 == <<x11, Beyond11>>
Beyond9 == <<x10, Beyond10>>
Beyond8 == <<x9, Beyond9>>
Beyond7 == <<x8, Beyond8>>
Vacant13 == x14 = None
Vacant11 == x12 = None /\ x13 = None /\ Vacant13
Vacant10 == x11 = None /\ Vacant11
Vacant9 == x10 = None /\ Vacant10
Vacant8 == x9 = None /\ Vacant9
Vacant7 == x8 = None /\ Vacant8

Init ==
  \/ service = "engine" /\ Engine!Init /\ Vacant11
  \/ service = "python" /\ Python!Init /\ Vacant8
  \/ service = "cache" /\ Cache!Init /\ Vacant11
  \/ service = "runs" /\ Store!Init /\ Vacant8
  \/ service = "tools" /\ Tools!Init /\ Vacant9
  \/ service = "pacing" /\ Pace!Init /\ Vacant9
  \/ service = "identity" /\ Identity!Init
  \/ service = "listings" /\ Tags!Init /\ Vacant9
  \/ service = "checks" /\ Exists!Init /\ Vacant7
  \/ service = "catalogue" /\ Hardened!Init /\ Vacant10
  \/ service = "intel" /\ Threats!Init /\ Vacant13

Next ==
  \/ service = "engine" /\ Engine!Next /\ UNCHANGED <<service, Beyond11>>
  \/ service = "python" /\ Python!Next /\ UNCHANGED <<service, Beyond8>>
  \/ service = "cache" /\ Cache!Next /\ UNCHANGED <<service, Beyond11>>
  \/ service = "runs" /\ Store!Next /\ UNCHANGED <<service, Beyond8>>
  \/ service = "tools" /\ Tools!Next /\ UNCHANGED <<service, Beyond9>>
  \/ service = "pacing" /\ Pace!Next /\ UNCHANGED <<service, Beyond9>>
  \/ service = "identity" /\ Identity!Next /\ UNCHANGED service
  \/ service = "listings" /\ Tags!Next /\ UNCHANGED <<service, Beyond9>>
  \/ service = "checks" /\ Exists!Next /\ UNCHANGED <<service, Beyond7>>
  \/ service = "catalogue" /\ Hardened!Next /\ UNCHANGED <<service, Beyond10>>
  \/ service = "intel" /\ Threats!Next /\ UNCHANGED <<service, Beyond13>>

(***************************************************************************)
(* The fairness of each module: see its Spec.                              *)
(***************************************************************************)
Fairness ==
  /\ WF_(Engine!vars)(service = "engine" /\ Engine!ClientStep)
  /\ WF_(Engine!vars)(service = "engine" /\ Engine!Answer)
  /\ \A p \in Engine!Targets :
       /\ WF_(Engine!vars)(service = "engine" /\ Engine!Advance(p))
       /\ WF_(Engine!vars)(service = "engine" /\ Engine!Expire(p))
  /\ \A c \in Calls : /\ WF_(Python!vars)(service = "python" /\ Python!Step(c))
                      /\ WF_(Python!vars)(service = "python" /\ Python!Collected(c))
  /\ \A c \in Clients : WF_(Pace!vars)(service = "pacing" /\ Pace!Step(c))
  /\ WF_(Pace!vars)(service = "pacing" /\ Pace!Tick)
  /\ \A a \in Candidates : WF_(Identity!vars)(service = "identity" /\ Identity!Step(a))
  /\ \A c \in Tags!Callers : WF_(Tags!vars)(service = "listings" /\ Tags!Step(c))
  /\ \A a \in Checkers : WF_(Exists!vars)(service = "checks" /\ Exists!Step(a))
  /\ \A s \in Seekers : WF_(Hardened!vars)(service = "catalogue" /\ Hardened!Step(s))
  /\ \A a \in Enrichments : WF_(Threats!vars)(service = "intel" /\ Threats!Lookup(a))

Spec == Init /\ [][Next]_vars /\ Fairness
-----------------------------------------------------------------------------
\* A scanner has its directory to itself and ends with its call or its engine,
\* results come back in the place of their targets, and the second scanner is
\* prepared once (ScanEngine, PythonScan).
ScanningIsContained ==
  /\ service = "engine" => Engine!ScansIsolated /\ Engine!AnswersInPlace
  /\ service = "python" => Python!NoProcessLeft /\ Python!SecondaryPreparedOnce

\* Two runs that read, write, expire, delete and clean up rows of the cache see
\* a map that may forget and never what was overwritten (SqliteCache).
ServesTheMap == [][service = "cache" => [Cache!Map!Next]_(Cache!Map!vars)]_vars

\* What is kept from run to run is what it says: a stored evaluation is of a
\* usable scan, histories tell the chain they come from, pruning leaves the
\* newest runs, and runs are compared with whole ones (CacheClients, RunStore).
StoredIsHonest ==
  /\ service = "cache" => Cache!ServedIsCurrent /\ Cache!HistoriesAreHonest
  /\ service = "runs" => Store!NewestSurvive /\ Store!ComparedWithWhole

\* An altered scanner is not put in place by an installer that could tell, and
\* installers that follow each other put whole binaries there (Toolchain).
InstalledIsVerified == service = "tools" => Tools!InstalledIsVerified

\* In any window a provider is called a burst and what the rate refills, at
\* most, by any number of callers (Pacing).
Paced == service = "pacing" => Pace!Paced

\* A confirmed identity, and facts kept under it, are of what the tag pointed
\* at and of the platform; a run has one answer for a tag (Registry).
IdentityIsHonest ==
  service = "identity" =>
    Identity!ConfirmedIsPublished /\ Identity!OneIdentityPerRun /\ Identity!StoredFactsAreOfThePlatform

\* A missing answer is not a negative one: of a listing, a tag check, the
\* hardened catalogue, KEV, Exploit-DB, EPSS or end of life (Listings,
\* TagChecks, Catalogue, Intel).
AbsenceIsAnswered ==
  /\ service = "listings" => Tags!DeniedIfAbsent
  /\ service = "checks" => Exists!SilenceDeniesNothing
  /\ service = "catalogue" => Hardened!FreshIndexIsHonest
  /\ service = "intel" => Threats!NegativeIsAnswered /\ Threats!OneAnswerPerRun

\* Whoever waits in a service, for a lock, a slot, a token, a future of another
\* caller, a process or an answer, is let go in the end.
Settled ==
  CASE service = "engine" -> Engine!Settled
    [] service = "python" -> Python!Settled
    [] service = "pacing" -> Pace!Settled
    [] service = "identity" -> Identity!Settled
    [] service = "listings" -> Tags!Settled
    [] service = "checks" -> Exists!Settled
    [] service = "catalogue" -> Hardened!Settled
    [] service = "intel" -> Threats!Settled
    [] OTHER -> TRUE
EveryoneServed == []<>Settled
=============================================================================
