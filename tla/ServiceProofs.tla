--------------------------- MODULE ServiceProofs ---------------------------
(***************************************************************************)
(* What the services of a run promise, proved for every number of callers, *)
(* installers, runs and scans, and every value of their limits.  Each      *)
(* service is a module of its own; here they stand side by side.           *)
(***************************************************************************)
EXTENDS Services, FiniteSetTheorems, TLAPS

-----------------------------------------------------------------------------
(***************************************************************************)
(* A behaviour is one service's: its steps are that service's, and nothing *)
(* else moves.  Invariants of a service are invariants of Spec by these.   *)
(***************************************************************************)
LEMMA Starts ==
  ASSUME Init
  PROVE  /\ service = "engine" => Engine!Init
         /\ service = "python" => Python!Init
         /\ service = "cache" => Cache!Init
         /\ service = "runs" => Store!Init
         /\ service = "tools" => Tools!Init
         /\ service = "pacing" => Pace!Init
         /\ service = "identity" => Identity!Init
         /\ service = "listings" => Tags!Init
         /\ service = "checks" => Exists!Init
         /\ service = "catalogue" => Hardened!Init
         /\ service = "intel" => Threats!Init
BY DEF Init

LEMMA OneService ==
  ASSUME [Next]_vars
  PROVE  /\ service' = service
         /\ service = "engine" => [Engine!Next]_(Engine!vars)
         /\ service = "python" => [Python!Next]_(Python!vars)
         /\ service = "cache" => [Cache!Next]_(Cache!vars)
         /\ service = "runs" => [Store!Next]_(Store!vars)
         /\ service = "tools" => [Tools!Next]_(Tools!vars)
         /\ service = "pacing" => [Pace!Next]_(Pace!vars)
         /\ service = "identity" => [Identity!Next]_(Identity!vars)
         /\ service = "listings" => [Tags!Next]_(Tags!vars)
         /\ service = "checks" => [Exists!Next]_(Exists!vars)
         /\ service = "catalogue" => [Hardened!Next]_(Hardened!vars)
         /\ service = "intel" => [Threats!Next]_(Threats!vars)
<1>1. service' = service
  BY DEF Next, vars
<1>2. CASE UNCHANGED vars
  <2>1. UNCHANGED <<x1, x2, x3, x4, x5, x6, x7, x8, x9, x10, x11, x12, x13, x14>>
    BY <1>2 DEF vars
  <2>2. UNCHANGED Engine!vars
    BY <2>1 DEF Engine!vars, Engine!engineVars, refused, client, engine, ctx, job, dir,
                scanner, over, found, results, faults
  <2>3. UNCHANGED Python!vars
    BY <2>1 DEF Python!vars, place, slot, proc, leaving, said, cancels, ready, lock
  <2>4. UNCHANGED Cache!vars
    BY <2>1 DEF Cache!vars, Cache!cacheVars, Cache!runVars, rows, now, pending, answer,
                command, at, mem, result, scans, tag, rounds
  <2>5. UNCHANGED Store!vars
    BY <2>1 DEF Store!vars, disk, started, phase, stale, listed, previous, saved, killed
  <2>6. UNCHANGED Tools!vars
    BY <2>1 DEF Tools!vars, stage, archive, list, verdict, staging, final, files, overlap, crashes
  <2>7. UNCHANGED Pace!vars
    BY <2>1 DEF Pace!vars, level, idle, state, left, timer, attempt, failures, closing, given
  <2>8. UNCHANGED Identity!vars
    BY <2>1 DEF Identity!vars, Identity!world, Identity!memos, pointsAt, pointed, identities, inside,
                resolved, digests, mappings, facts, inspects, top, identity, read, runs, moves
  <2>9. UNCHANGED Tags!vars
    BY <2>1 DEF Tags!vars, listing, complete, lister, lists, tags, page, payload, cut, unlisted
  <2>10. UNCHANGED Exists!vars
    BY <2>1 DEF Exists!vars, exists, cached, owner, shared, checks, joined, told
  <2>11. UNCHANGED Hardened!vars
    BY <2>1 DEF Hardened!vars, head, holds, index, loaded, revision, loader, kept, texts, seeks, session
  <2>12. UNCHANGED Threats!vars
    BY <2>1 DEF Threats!vars, Threats!catVars, Threats!epssVars, memo, available, guard, stored,
                asks, says, fetching, future, status, scores, looks, waits, ended
  <2> QED BY <1>1, <2>2, <2>3, <2>4, <2>5, <2>6, <2>7, <2>8, <2>9, <2>10, <2>11, <2>12
<1> QED BY <1>1, <1>2 DEF Next
-----------------------------------------------------------------------------
(***************************************************************************)
(* The token bucket.  What was given in the last w ticks, together with    *)
(* what the bucket would hold if it were asked now, is at most a full      *)
(* bucket and what w - 1 ticks refill.  The bound on the tokens alone is   *)
(* not inductive: it does not see what the bucket still holds.             *)
(***************************************************************************)
BucketType ==
  /\ level \in 0..Pace!Capacity /\ idle \in Nat
  /\ given \in [1..Window -> Nat]
Balance ==
  \A w \in 1..Window :
    Need * given[w] + Pace!Refilled(level, idle) <= Pace!Capacity + (w - 1)
BucketInv == BucketType /\ Balance

LEMMA CapacityIsNat ==
  ASSUME Pace!PacingAssumption PROVE Pace!Capacity \in Nat
BY SMT DEF Pace!PacingAssumption, Pace!Capacity

\* Whole tokens: a bound in units of time is one in tokens, rounded down.
LEMMA Quotient ==
  ASSUME NEW b \in Nat, NEW n \in Nat \ {0}, NEW g \in Nat, NEW m \in Nat,
         n * g <= b * n + m
  PROVE  g <= b + m \div n
<1> DEFINE q == m \div n
           r == m % n
<1>1. q \in Nat /\ r \in 0..(n - 1) /\ m = n * q + r
  BY SMT
<1> HIDE DEF q, r
<1>2. SUFFICES ASSUME g >= b + q + 1 PROVE FALSE
  BY <1>1 DEF q
<1>3. PICK k \in Nat : g = b + q + 1 + k
  <2>1. g - (b + q + 1) \in Nat
    BY <1>1, <1>2
  <2> QED BY <2>1, <1>1
<1>4. n * g = n * b + n * q + n + n * k
  BY <1>3, <1>1, SMT
<1>5. n * k \in Nat /\ n * b \in Nat /\ n * q \in Nat /\ b * n = n * b
  BY <1>1, SMT
<1> QED BY <1>1, <1>4, <1>5, SMT

LEMMA OneMore ==
  ASSUME NEW n \in Nat, NEW g \in Nat
  PROVE  n * g \in Nat /\ n * (g + 1) = n * g + n /\ n * 0 = 0
BY SMT

\* A bucket is never more than full, and a tick adds one unit at most.
LEMMA Refilling ==
  ASSUME Pace!PacingAssumption, NEW u \in 0..Pace!Capacity, NEW e \in Nat
  PROVE  /\ Pace!Refilled(u, e) \in 0..Pace!Capacity
         /\ Pace!Refilled(u, 0) = u
         /\ \A f \in Nat : f <= e + 1 => Pace!Refilled(u, f) <= Pace!Refilled(u, e) + 1
<1>1. Pace!Capacity \in Nat
  BY CapacityIsNat
<1> QED BY <1>1 DEF Pace!Refilled, Pace!Lesser

LEMMA BucketStarts ==
  ASSUME Pace!PacingAssumption, Pace!Init PROVE BucketInv
<1>1. Window \in Nat /\ Need \in Nat /\ Pace!Capacity \in Nat
  BY CapacityIsNat DEF Pace!PacingAssumption
<1>2. level = Pace!Capacity /\ idle = 0 /\ given = [w \in 1..Window |-> 0]
  BY DEF Pace!Init
<1>3. BucketType
  BY <1>1, <1>2 DEF BucketType
<1>4. level \in 0..Pace!Capacity /\ 0 \in Nat
  BY <1>1, <1>2
<1>5. Pace!Refilled(level, 0) = Pace!Capacity
  BY <1>2, <1>4, Refilling
<1>6. Balance
  <2> SUFFICES ASSUME NEW w \in 1..Window
               PROVE  Need * given[w] + Pace!Refilled(level, idle) <= Pace!Capacity + (w - 1)
    BY DEF Balance
  <2>1. Need * given[w] = 0
    BY <1>1, <1>2, OneMore
  <2> QED BY <2>1, <1>1, <1>2, <1>5
<1> QED BY <1>3, <1>6 DEF BucketInv

LEMMA BucketStays ==
  ASSUME Pace!PacingAssumption, BucketInv, [Pace!Next]_(Pace!vars) PROVE BucketInv'
<1>1. Window \in Nat /\ Need \in Nat /\ Pace!Capacity \in Nat
  BY CapacityIsNat DEF Pace!PacingAssumption
<1> DEFINE R == Pace!Refilled(level, idle)
<1>2. level \in 0..Pace!Capacity /\ idle \in Nat /\ given \in [1..Window -> Nat]
  BY DEF BucketInv, BucketType
<1>3. R \in 0..Pace!Capacity
  BY <1>2, Refilling
<1>4. \A w \in 1..Window : Need * given[w] + R <= Pace!Capacity + (w - 1)
  BY DEF BucketInv, Balance
<1>5. CASE Pace!Tick
  <2>1. /\ idle' = Pace!Lesser(idle + 1, Pace!Capacity) /\ level' = level
        /\ given' = [w \in 1..Window |-> IF w = 1 THEN 0 ELSE given[w - 1]]
    BY <1>5 DEF Pace!Tick
  <2>2. idle' \in Nat /\ idle' <= idle + 1
    BY <2>1, <1>1, <1>2 DEF Pace!Lesser
  <2>3. R' \in 0..Pace!Capacity /\ R' <= R + 1
    BY <1>2, <2>1, <2>2, Refilling
  <2>4. BucketType'
    BY <1>1, <1>2, <2>1, <2>2 DEF BucketType
  <2>5. ASSUME NEW w \in 1..Window
        PROVE  Need * given'[w] + R' <= Pace!Capacity + (w - 1)
    <3>1. CASE w = 1
      <4>1. Need * given'[w] = 0
        BY <1>1, <2>1, <3>1, OneMore
      <4> HIDE DEF R
      <4> QED BY <1>1, <4>1, <2>3, <3>1
    <3>2. CASE w # 1
      <4>1. w - 1 \in 1..Window /\ given'[w] = given[w - 1] /\ given[w - 1] \in Nat
        BY <1>1, <1>2, <2>1, <3>2
      <4>2. Need * given[w - 1] + R <= Pace!Capacity + (w - 1 - 1)
        BY <1>4, <4>1
      <4>3. Need * given[w - 1] \in Nat
        BY <1>1, <4>1, OneMore
      <4> HIDE DEF R
      <4> DEFINE n == Need * given[w - 1]
      <4> HIDE DEF n
      <4>4. n + R' <= Pace!Capacity + (w - 1)
        BY <4>2, <4>3, <2>3, <1>1, <1>3 DEF n
      <4> QED BY <4>1, <4>4 DEF n
    <3> QED BY <3>1, <3>2
  <2> QED BY <2>4, <2>5 DEF BucketInv, Balance
<1>6. ASSUME NEW c \in Clients, Pace!Acquire(c) PROVE BucketInv'
  <2>1. CASE /\ R >= Need /\ level' = R - Need /\ idle' = 0
             /\ given' = [w \in 1..Window |-> given[w] + 1]
    <3>1. level' \in 0..Pace!Capacity
      <4> HIDE DEF R
      <4> QED BY <1>1, <1>3, <2>1
    <3>2. R' = R - Need
      BY <2>1, <3>1, Refilling
    <3>3. BucketType'
      BY <1>1, <1>2, <2>1, <3>1 DEF BucketType
    <3>4. ASSUME NEW w \in 1..Window
          PROVE  Need * given'[w] + R' <= Pace!Capacity + (w - 1)
      <4>1. given[w] \in Nat /\ given'[w] = given[w] + 1
        BY <1>2, <2>1
      <4> DEFINE n == Need * given[w]
      <4>2. Need * given'[w] = n + Need /\ n \in Nat
        BY <1>1, <4>1, OneMore
      <4>3. n + R <= Pace!Capacity + (w - 1)
        BY <1>4
      <4> HIDE DEF R, n
      <4> QED BY <4>2, <4>3, <3>2, <1>1, <1>3
    <3> QED BY <3>3, <3>4 DEF BucketInv, Balance
  <2>2. CASE level' = R /\ idle' = 0 /\ UNCHANGED given
    <3>1. level' \in 0..Pace!Capacity /\ R' = R
      BY <1>3, <2>2, Refilling
    <3>2. BucketType'
      BY <1>1, <1>2, <2>2, <3>1 DEF BucketType
    <3> QED BY <3>1, <3>2, <1>4, <2>2 DEF BucketInv, Balance
  <2> QED BY <1>6, <2>1, <2>2 DEF Pace!Acquire
<1>7. CASE UNCHANGED <<level, idle, given>>
  BY <1>7 DEF BucketInv, BucketType, Balance, Pace!Refilled, Pace!Lesser
<1>8. ASSUME NEW c \in Clients, Pace!Step(c), ~Pace!Acquire(c)
      PROVE  UNCHANGED <<level, idle, given>>
  BY <1>8 DEF Pace!Step, Pace!Check, Pace!Answered, Pace!Failed, Pace!Retry, Pace!Again
<1>9. UNCHANGED Pace!vars => UNCHANGED <<level, idle, given>>
  BY DEF Pace!vars
<1> QED BY <1>5, <1>6, <1>7, <1>8, <1>9 DEF Pace!Next

(***************************************************************************)
(* Whatever the callers do, in every window of w ticks a provider gets a   *)
(* full bucket and what w ticks refill, and no more (AsyncRateLimiter).    *)
(***************************************************************************)
THEOREM CallsArePaced == Spec => []Paced
<1> DEFINE Inv == service = "pacing" => BucketInv
<1>1. Init => Inv
  BY PacingIsPossible, BucketStarts, Starts
<1>2. Inv /\ [Next]_vars => Inv'
  BY PacingIsPossible, BucketStays, OneService
<1>3. Inv => Paced
  <2> SUFFICES ASSUME BucketInv, NEW w \in 1..Window
               PROVE  given[w] <= Burst + (w - 1) \div Need
    BY DEF Paced, Pace!Paced
  <2>1. Burst \in Nat /\ Need \in Nat \ {0} /\ Window \in Nat
    BY PacingIsPossible DEF Pace!PacingAssumption
  <2>2. given[w] \in Nat /\ Pace!Refilled(level, idle) \in Nat
    <3>1. level \in 0..Pace!Capacity /\ idle \in Nat /\ given \in [1..Window -> Nat]
      BY DEF BucketInv, BucketType
    <3>2. Pace!Refilled(level, idle) \in 0..Pace!Capacity
      BY <3>1, PacingIsPossible, Refilling
    <3> QED BY <3>1, <3>2, PacingIsPossible, CapacityIsNat
  <2>3. Need * given[w] <= Burst * Need + (w - 1)
    <3>1. Need * given[w] + Pace!Refilled(level, idle) <= Pace!Capacity + (w - 1)
      BY DEF BucketInv, Balance
    <3>2. Need * given[w] \in Nat /\ Pace!Capacity = Burst * Need
      BY <2>1, <2>2 DEF Pace!Capacity
    <3> QED BY <3>1, <3>2, <2>1, <2>2, PacingIsPossible, CapacityIsNat
  <2>4. w - 1 \in Nat
    BY <2>1
  <2> QED BY <2>1, <2>2, <2>3, <2>4, Quotient
<1> QED BY <1>1, <1>2, <1>3, PTL DEF Spec
-----------------------------------------------------------------------------

(***************************************************************************)
(* The installers.  What an installer holds passed its checks before it    *)
(* touches the directory of the tools, and an inode says whose it is; an   *)
(* installer has one inode at a time, which it alone created or truncated  *)
(* while nobody overlapped.  The property alone is not inductive: it does  *)
(* not say what the staging file holds that is renamed next.               *)
(***************************************************************************)
Early == {"policy", "archive", "checksums", "signature", "digest"}
Before == Early \cup {"extract", "copy"}
Active == {"copying", "replace"}
Stages == Before \cup Active \cup {"installed", "killed", "failed"}
Contents == {"none", "genuine", "altered"}
Inode == [holds : Contents, writers : SUBSET Installers, torn : BOOLEAN,
          from : Installers \cup {Nobody}]

ToolsType ==
  /\ stage \in [Installers -> Stages]
  /\ archive \in [Installers -> Contents] /\ list \in [Installers -> Contents]
  /\ verdict \in [Installers -> {"none", "unverified", "valid", "invalid"}]
  /\ staging \in Installers \cup {Nobody} /\ final \in Installers \cup {Nobody}
  /\ files \in [Installers -> Inode] /\ overlap \in BOOLEAN

Vetted(i) ==
  /\ archive[i] # "none" /\ list[i] = archive[i]
  /\ archive[i] = "altered" => verdict[i] \notin {"valid", "invalid"}

Judged(i) ==
  /\ stage[i] \in {"policy", "archive", "checksums", "signature"} => verdict[i] = "none"
  /\ stage[i] \in {"checksums", "signature", "digest"} => archive[i] # "none"
  /\ stage[i] = "digest" =>
       verdict[i] # "invalid" /\ (verdict[i] = "valid" => list[i] = "genuine")
  /\ stage[i] \notin Early \cup {"failed"} => Vetted(i)

Named ==
  /\ staging # Nobody => staging # final /\ files[staging].from # Nobody
  /\ final # Nobody => files[final].from # Nobody
  /\ \A i \in Installers : stage[i] \in Before => staging # i /\ final # i

Sourced(n) ==
  files[n].from # Nobody =>
    Vetted(files[n].from) /\ stage[files[n].from] \notin Before

Writing ==
  /\ \A i, n \in Installers : i \in files[n].writers =>
       stage[i] = "copying" /\ files[n].from # Nobody
  /\ \A i, n, m \in Installers : i \in files[n].writers /\ i \in files[m].writers => n = m
  /\ \A i \in Installers : stage[i] = "copying" => \E n \in Installers : i \in files[n].writers

Alone ==
  /\ \A i, j \in Installers : stage[i] \in Active /\ stage[j] \in Active => i = j
  /\ \A i \in Installers : stage[i] \in Active =>
       staging # Nobody /\ files[staging].from = i /\ ~files[staging].torn
  /\ \A i \in Installers : stage[i] = "copying" => i \in files[staging].writers
  /\ \A i \in Installers : stage[i] = "replace" => files[staging].holds = archive[i]
  /\ final # Nobody =>
       Tools!Whole(final) /\ files[final].holds = archive[files[final].from]

ToolsInv ==
  /\ ToolsType /\ \A i \in Installers : Judged(i) /\ Sourced(i)
  /\ Named /\ Writing /\ (~overlap => Alone)

LEMMA ToolsStart ==
  ASSUME Tools!ToolchainAssumption, Tools!Init PROVE ToolsInv
BY DEF Tools!ToolchainAssumption, Tools!Init, Tools!Empty, ToolsInv, ToolsType, Stages, Before,
       Early, Active, Contents, Inode, Judged, Vetted, Named, Sourced, Writing, Alone

\* An installer that has not opened the staging file is nobody's neighbour.
LEMMA Preparing ==
  ASSUME ToolsInv, NEW i \in Installers, NEW s \in Before \cup {"failed"},
         stage[i] \in Before, stage' = [stage EXCEPT ![i] = s],
         UNCHANGED <<staging, final, files, overlap>>,
         NEW a \in Contents, archive' = [archive EXCEPT ![i] = a],
         NEW l \in Contents, list' = [list EXCEPT ![i] = l],
         NEW v \in {"none", "unverified", "valid", "invalid"},
         verdict' = [verdict EXCEPT ![i] = v], Judged(i)'
  PROVE  ToolsInv'
<1>1. /\ ToolsType /\ Named /\ Writing /\ (~overlap => Alone)
      /\ \A j \in Installers : Judged(j) /\ Sourced(j)
  BY DEF ToolsInv
<1>2. ToolsType'
  BY <1>1 DEF ToolsType, Stages
<1>3. \A j \in Installers \ {i} :
        /\ stage'[j] = stage[j] /\ archive'[j] = archive[j]
        /\ list'[j] = list[j] /\ verdict'[j] = verdict[j]
  BY <1>1 DEF ToolsType
<1>4. stage'[i] = s
  BY <1>1 DEF ToolsType
<1>5. \A j \in Installers : Judged(j)'
  BY <1>1, <1>3 DEF Judged, Vetted
<1>6. ASSUME NEW n \in Installers PROVE Sourced(n)'
  <2>1. files[n] \in Inode
    BY <1>1 DEF ToolsType
  <2>2. files[n].from # Nobody =>
          files[n].from \in Installers \ {i} /\ Vetted(files[n].from)
          /\ stage[files[n].from] \notin Before
    BY <1>1, <2>1 DEF Sourced, Inode
  <2> QED BY <2>2, <1>3 DEF Sourced, Vetted
<1>7. Named'
  BY <1>1, <1>3 DEF Named
<1>8. \A j \in Installers : stage'[j] \in Active <=> stage[j] \in Active /\ j # i
  BY <1>3, <1>4 DEF Active, Before, Early
<1>9. i \notin {j \in Installers : stage[j] \in Active}
  BY DEF Active, Before, Early
<1>10. Writing'
  BY <1>1, <1>3, <1>4 DEF Writing, Before, Early
<1>11. Alone => Alone'
  <2> SUFFICES ASSUME Alone PROVE Alone'
    OBVIOUS
  <2>1. \A j \in Installers :
          stage'[j] \in Active => j # i /\ stage[j] = stage'[j] /\ archive'[j] = archive[j]
    BY <1>3, <1>8
  <2>2. final # Nobody => Tools!Whole(final)' /\ files[final].holds = archive'[files[final].from]
    <3> SUFFICES ASSUME final # Nobody
                 PROVE  Tools!Whole(final)' /\ files[final].holds = archive'[files[final].from]
      OBVIOUS
    <3>1. Tools!Whole(final)' /\ files[final].holds = archive[files[final].from]
      BY DEF Alone, Tools!Whole
    <3>2. final \in Installers /\ files[final] \in Inode /\ files[final].from # Nobody
      BY <1>1 DEF ToolsType, Named
    <3>3. files[final].from \in Installers /\ files[final].from # i
      BY <1>1, <3>2 DEF Sourced, Inode
    <3> QED BY <3>1, <3>3, <1>3
  <2> QED BY <2>1, <2>2 DEF Alone, Active
<1> QED BY <1>1, <1>2, <1>5, <1>6, <1>7, <1>10, <1>11 DEF ToolsInv

LEMMA ToolsPrepare ==
  ASSUME ToolsInv, NEW i \in Installers,
         \/ Tools!CheckPolicy(i) \/ Tools!Download(i) \/ Tools!FetchChecksums(i)
         \/ Tools!VerifyChecksums(i) \/ Tools!CompareDigest(i) \/ Tools!Extract(i)
  PROVE  ToolsInv'
<1> DEFINE Verdicts == {"none", "unverified", "valid", "invalid"}
<1>1. /\ archive[i] \in Contents /\ list[i] \in Contents /\ verdict[i] \in Verdicts
      /\ stage \in [Installers -> Stages]
      /\ archive \in [Installers -> Contents] /\ list \in [Installers -> Contents]
      /\ verdict \in [Installers -> Verdicts]
  BY DEF ToolsInv, ToolsType
<1>2. Judged(i)
  BY DEF ToolsInv
<1>3. /\ archive = [archive EXCEPT ![i] = archive[i]] /\ list = [list EXCEPT ![i] = list[i]]
      /\ verdict = [verdict EXCEPT ![i] = verdict[i]]
  BY <1>1
<1>4. CASE Tools!CheckPolicy(i)
  <2>1. PICK s \in {"archive", "failed"} : stage' = [stage EXCEPT ![i] = s]
    BY <1>4 DEF Tools!CheckPolicy, Tools!To
  <2>2. UNCHANGED <<archive, list, verdict, staging, final, files, overlap>>
    BY <1>4 DEF Tools!CheckPolicy, Tools!disk
  <2>3. Judged(i)'
    BY <1>1, <1>2, <1>4, <2>1, <2>2 DEF Tools!CheckPolicy, Judged, Early
  <2> QED BY <1>1, <1>3, <1>4, <2>1, <2>2, <2>3, Preparing DEF Tools!CheckPolicy, Before, Early
<1>5. CASE Tools!Download(i)
  <2>1. PICK s \in {"checksums", "failed"}, a \in Contents :
          /\ stage' = [stage EXCEPT ![i] = s] /\ archive' = [archive EXCEPT ![i] = a]
          /\ s = "checksums" => a # "none"
    BY <1>1, <1>3, <1>5 DEF Tools!Download, Tools!To, Contents
  <2>2. UNCHANGED <<list, verdict, staging, final, files, overlap>>
    BY <1>5 DEF Tools!Download, Tools!disk
  <2>3. Judged(i)'
    BY <1>1, <1>2, <1>5, <2>1, <2>2 DEF Tools!Download, Judged, Early
  <2> QED BY <1>1, <1>3, <1>5, <2>1, <2>2, <2>3, Preparing DEF Tools!Download, Before, Early
<1>6. CASE Tools!FetchChecksums(i)
  <2>1. PICK s \in {"signature", "digest", "failed"}, l \in Contents :
          stage' = [stage EXCEPT ![i] = s] /\ list' = [list EXCEPT ![i] = l]
    BY <1>1, <1>3, <1>6 DEF Tools!FetchChecksums, Tools!To, Contents
  <2>2. UNCHANGED <<archive, verdict, staging, final, files, overlap>>
    BY <1>6 DEF Tools!FetchChecksums, Tools!disk
  <2>3. Judged(i)'
    BY <1>1, <1>2, <1>6, <2>1, <2>2 DEF Tools!FetchChecksums, Judged, Early
  <2> QED BY <1>1, <1>3, <1>6, <2>1, <2>2, <2>3, Preparing DEF Tools!FetchChecksums, Before, Early
<1>7. CASE Tools!VerifyChecksums(i)
  <2>1. PICK v \in {"unverified", IF list[i] = "genuine" THEN "valid" ELSE "invalid"} :
          /\ verdict' = [verdict EXCEPT ![i] = v]
          /\ stage' = [stage EXCEPT ![i] = IF v = "invalid" THEN "failed" ELSE "digest"]
    BY <1>7 DEF Tools!VerifyChecksums, Tools!To, Tools!AfterSignature
  <2>2. UNCHANGED <<archive, list, staging, final, files, overlap>> /\ stage[i] = "signature"
    BY <1>7 DEF Tools!VerifyChecksums, Tools!disk
  <2>3. Judged(i)'
    BY <1>1, <1>2, <2>1, <2>2 DEF Judged, Early
  <2>4. PICK s \in {"failed", "digest"} : stage' = [stage EXCEPT ![i] = s]
    BY <2>1
  <2>5. v \in Verdicts
    BY <2>1
  <2> QED BY <1>1, <1>3, <2>1, <2>2, <2>3, <2>4, <2>5, Preparing DEF Before, Early
<1>8. CASE Tools!CompareDigest(i)
  <2>1. PICK s \in {"extract", "failed"} :
          stage' = [stage EXCEPT ![i] = s] /\ (s = "extract" => list[i] = archive[i])
    BY <1>8 DEF Tools!CompareDigest, Tools!To
  <2>2. /\ UNCHANGED <<archive, list, verdict, staging, final, files, overlap>>
        /\ stage[i] = "digest"
    BY <1>8 DEF Tools!CompareDigest, Tools!disk
  <2>3. Judged(i)'
    BY <1>1, <1>2, <2>1, <2>2 DEF Judged, Vetted, Early
  <2> QED BY <1>1, <1>3, <2>1, <2>2, <2>3, Preparing DEF Before, Early
<1>9. CASE Tools!Extract(i)
  <2>1. PICK s \in {"copy", "failed"} : stage' = [stage EXCEPT ![i] = s]
    BY <1>9 DEF Tools!Extract, Tools!To
  <2>2. /\ UNCHANGED <<archive, list, verdict, staging, final, files, overlap>>
        /\ stage[i] = "extract"
    BY <1>9 DEF Tools!Extract, Tools!disk
  <2>3. Judged(i)'
    BY <1>1, <1>2, <2>1, <2>2 DEF Judged, Vetted, Early
  <2> QED BY <1>1, <1>3, <2>1, <2>2, <2>3, Preparing DEF Before, Early
<1> QED BY <1>4, <1>5, <1>6, <1>7, <1>8, <1>9

\* The staging file that is opened is not the one in place, whoever left it.
LEMMA ToolsOpen ==
  ASSUME Tools!ToolchainAssumption, ToolsInv, NEW i \in Installers, Tools!Open(i)
  PROVE  ToolsInv'
<1>1. /\ ToolsType /\ Named /\ Writing /\ (~overlap => Alone)
      /\ \A j \in Installers : Judged(j) /\ Sourced(j)
  BY DEF ToolsInv
<1> DEFINE n == IF staging = Nobody THEN i ELSE staging
<1>2. /\ stage[i] = "copy" /\ staging' = n
      /\ files' = [files EXCEPT ![n] =
           [holds |-> "none", writers |-> @.writers \cup {i}, torn |-> FALSE, from |-> i]]
      /\ overlap' = (overlap \/ \E j \in Installers \ {i} : stage[j] \in Active)
      /\ stage' = [stage EXCEPT ![i] = "copying"]
      /\ UNCHANGED <<archive, list, verdict, final>>
  BY DEF Tools!Open, Tools!Opened, Tools!To, Active
<1>3. n \in Installers /\ n # final /\ n # Nobody
  BY <1>1, <1>2 DEF ToolsType, Named, Tools!ToolchainAssumption, Before
<1>4. files[n] \in Inode
  BY <1>1, <1>3 DEF ToolsType
<1> HIDE DEF n
<1>5. /\ files' \in [Installers -> Inode]
      /\ files'[n] = [holds |-> "none", writers |-> files[n].writers \cup {i},
                      torn |-> FALSE, from |-> i]
      /\ \A m \in Installers \ {n} : files'[m] = files[m]
  <2> DEFINE f == [holds |-> "none", writers |-> files[n].writers \cup {i},
                   torn |-> FALSE, from |-> i]
  <2>1. f \in Inode
    BY <1>4 DEF Inode, Contents
  <2> HIDE DEF f
  <2>2. files' = [files EXCEPT ![n] = f]
    BY <1>2 DEF f
  <2>3. files' \in [Installers -> Inode] /\ files'[n] = f
        /\ \A m \in Installers \ {n} : files'[m] = files[m]
    BY <1>1, <1>3, <2>1, <2>2 DEF ToolsType
  <2> QED BY <2>3 DEF f
<1>6. stage'[i] = "copying" /\ \A j \in Installers \ {i} : stage'[j] = stage[j]
  BY <1>1, <1>2 DEF ToolsType
<1>7. ToolsType'
  BY <1>1, <1>2, <1>3, <1>5 DEF ToolsType, Stages, Active
<1>8. \A j \in Installers : Judged(j)'
  BY <1>1, <1>2, <1>6 DEF Judged, Vetted, Early
<1>9. ASSUME NEW m \in Installers PROVE Sourced(m)'
  <2>1. files[m] \in Inode
    BY <1>1 DEF ToolsType
  <2>2. CASE m = n
    <3>1. Vetted(i)
      BY <1>1, <1>2 DEF Judged, Early
    <3> QED BY <2>2, <3>1, <1>2, <1>5, <1>6 DEF Sourced, Vetted, Before, Early
  <2>3. CASE m # n
    <3>1. files[m].from # Nobody =>
            files[m].from \in Installers \ {i} /\ Vetted(files[m].from)
            /\ stage[files[m].from] \notin Before
      BY <1>1, <1>2, <2>1 DEF Sourced, Inode, Before
    <3> QED BY <2>3, <3>1, <1>2, <1>5, <1>6 DEF Sourced, Vetted
  <2> QED BY <2>2, <2>3
<1>10. Named'
  <2>1. final # Nobody => files'[final].from # Nobody
    BY <1>1, <1>3, <1>5 DEF Named, ToolsType
  <2>2. files'[n].from # Nobody
    BY <1>5 DEF Tools!ToolchainAssumption
  <2>3. \A j \in Installers : stage'[j] \in Before => n # j /\ final # j
    BY <1>1, <1>6 DEF Named, Before, Early, n
  <2> QED BY <1>2, <1>3, <2>1, <2>2, <2>3 DEF Named
<1>11. Writing'
  <2>1. \A m \in Installers : i \notin files[m].writers
    BY <1>1, <1>2 DEF Writing
  <2>2. \A j, m \in Installers :
          j \in files'[m].writers <=> j \in files[m].writers \/ (j = i /\ m = n)
    BY <1>3, <1>5
  <2>3. \A m \in Installers : files[m].from # Nobody \/ m = n => files'[m].from # Nobody
    BY <1>5 DEF Tools!ToolchainAssumption
  <2> QED BY <1>1, <1>3, <1>6, <2>1, <2>2, <2>3 DEF Writing
<1>12. ASSUME ~overlap' PROVE Alone'
  <2>1. Alone /\ \A j \in Installers \ {i} : stage[j] \notin Active
    BY <1>1, <1>2, <1>12 DEF ToolsType
  <2>2. \A j \in Installers : stage'[j] \in Active => j = i
    BY <1>6, <2>1
  <2>3. final # Nobody =>
          Tools!Whole(final)' /\ files'[final].holds = archive'[files'[final].from]
    BY <1>1, <1>2, <1>3, <1>5, <2>1 DEF Alone, Tools!Whole, ToolsType
  <2>4. /\ files'[n].from = i /\ ~files'[n].torn /\ i \in files'[n].writers
    BY <1>5
  <2> QED BY <1>2, <1>3, <1>6, <2>2, <2>3, <2>4 DEF Alone, Active
<1> QED BY <1>7, <1>8, <1>9, <1>10, <1>11, <1>12 DEF ToolsInv

\* Everything a writer leaves: its inode changes, and it writes no more.
LEMMA ToolsLeave ==
  ASSUME Tools!ToolchainAssumption, ToolsInv, NEW i \in Installers, stage[i] = "copying",
         Tools!Copied(i) \/ Tools!CannotCopy(i)
  PROVE  ToolsInv'
<1>1. /\ ToolsType /\ Named /\ Writing /\ (~overlap => Alone)
      /\ \A j \in Installers : Judged(j) /\ Sourced(j)
  BY DEF ToolsInv
<1> DEFINE n == Tools!WrittenBy(i)
<1>2. n \in Installers /\ i \in files[n].writers
  BY <1>1 DEF Writing, Tools!WrittenBy
<1>3. files[n] \in Inode
  BY <1>1, <1>2 DEF ToolsType
<1> HIDE DEF n
<1>4. PICK s \in {"replace", "failed"}, f \in Inode :
        /\ files' = [files EXCEPT ![n] = f]
        /\ f.writers = files[n].writers \ {i} /\ f.from # Nobody
        /\ f.from \in {i, files[n].from}
        /\ stage' = [stage EXCEPT ![i] = s]
        /\ s = "failed" => staging' = Nobody
        /\ s = "replace" => /\ f.holds = archive[i] /\ f.from = i /\ UNCHANGED staging
                            /\ f.torn = files[n].torn
        /\ UNCHANGED <<archive, list, verdict, final, overlap>>
  <2>1. CASE Tools!Copied(i)
    <3> DEFINE f == [files[n] EXCEPT !.writers = @ \ {i}, !.holds = archive[i], !.from = i]
    <3>1. f \in Inode
      BY <1>1, <1>3 DEF Inode, ToolsType
    <3>2. f.writers = files[n].writers \ {i} /\ f.from = i /\ f.holds = archive[i]
          /\ f.torn = files[n].torn
      BY <1>3 DEF Inode
    <3>3. i # Nobody
      BY DEF Tools!ToolchainAssumption
    <3>4. /\ stage' = [stage EXCEPT ![i] = "replace"]
          /\ UNCHANGED <<archive, list, verdict, staging, final, overlap>>
      BY <2>1 DEF Tools!Copied, Tools!To
    <3>5. files' = [files EXCEPT ![n] = f]
      BY <2>1, <1>1, <1>2, <1>3 DEF Tools!Copied, n, Inode, ToolsType
    <3> HIDE DEF f
    <3> QED BY <3>1, <3>2, <3>3, <3>4, <3>5
  <2>2. CASE Tools!CannotCopy(i)
    <3> DEFINE f == [files[n] EXCEPT !.writers = @ \ {i}, !.torn = TRUE]
    <3>1. f \in Inode
      BY <1>1, <1>3 DEF Inode, ToolsType
    <3>2. f.writers = files[n].writers \ {i} /\ f.from = files[n].from
      BY <1>3 DEF Inode
    <3>3. f.from # Nobody
      BY <1>1, <1>2, <3>2 DEF Writing
    <3>4. /\ stage' = [stage EXCEPT ![i] = "failed"] /\ staging' = Nobody
          /\ UNCHANGED <<archive, list, verdict, final, overlap>>
      BY <2>2 DEF Tools!CannotCopy, Tools!To
    <3>5. files' = [files EXCEPT ![n] = f]
      BY <2>2, <1>1, <1>2, <1>3 DEF Tools!CannotCopy, n, Inode, ToolsType
    <3> HIDE DEF f
    <3> QED BY <3>1, <3>2, <3>3, <3>4, <3>5
  <2> QED BY <2>1, <2>2
<1>5. /\ files' \in [Installers -> Inode] /\ files'[n] = f
      /\ \A m \in Installers \ {n} : files'[m] = files[m]
  BY <1>1, <1>2, <1>4 DEF ToolsType
<1>6. stage'[i] = s /\ \A j \in Installers \ {i} : stage'[j] = stage[j]
  BY <1>1, <1>4 DEF ToolsType
<1>7. ToolsType'
  BY <1>1, <1>4, <1>5 DEF ToolsType, Stages, Active
<1>8. Vetted(i)
  BY <1>1 DEF Judged, Early
<1>9. \A j \in Installers : Judged(j)'
  BY <1>1, <1>4, <1>6, <1>8 DEF Judged, Vetted, Early
<1>10. ASSUME NEW m \in Installers PROVE Sourced(m)'
  <2>1. \A k \in Installers : stage[k] \notin Before => stage'[k] \notin Before
    BY <1>6 DEF Before, Early
  <2>2. stage[i] \notin Before
    BY DEF Before, Early
  <2>3. files'[m].from # Nobody =>
          /\ files'[m].from \in Installers /\ Vetted(files'[m].from)
          /\ stage[files'[m].from] \notin Before
    <3>1. files[m] \in Inode /\ Sourced(m)
      BY <1>1 DEF ToolsType
    <3>2. files'[m].from \in {i, files[m].from}
      BY <1>4, <1>5
    <3> QED BY <3>1, <3>2, <2>2, <1>8 DEF Sourced, Inode
  <2> QED BY <2>1, <2>3, <1>4 DEF Sourced, Vetted
<1>11. Named'
  <2>1. \A m \in Installers : files[m].from # Nobody => files'[m].from # Nobody
    BY <1>4, <1>5
  <2>2. staging' # Nobody => staging' = staging
    BY <1>4
  <2>3. \A j \in Installers : stage'[j] \in Before => stage[j] \in Before
    BY <1>6 DEF Before, Early
  <2> QED BY <1>1, <1>4, <2>1, <2>2, <2>3 DEF Named, ToolsType, Tools!ToolchainAssumption
<1>12. Writing'
  <2>1. \A m \in Installers : i \in files[m].writers => m = n
    BY <1>1, <1>2 DEF Writing
  <2>2. \A j, m \in Installers :
          j \in files'[m].writers <=> j \in files[m].writers /\ j # i
    BY <1>2, <1>4, <1>5, <2>1
  <2>3. \A j \in Installers : stage'[j] = "copying" <=> stage[j] = "copying" /\ j # i
    BY <1>6
  <2>4. \A m \in Installers : files[m].from # Nobody => files'[m].from # Nobody
    BY <1>4, <1>5
  <2> QED BY <1>1, <2>2, <2>3, <2>4 DEF Writing
<1>13. ASSUME ~overlap' PROVE Alone'
  <2>1. Alone /\ staging # Nobody /\ i \in files[staging].writers
    BY <1>1, <1>4, <1>13 DEF Alone, Active
  <2>2. n = staging /\ n # final
    BY <1>1, <1>2, <2>1 DEF Writing, ToolsType, Named
  <2>3. \A j \in Installers : stage'[j] \in Active => j = i /\ s = "replace"
    BY <1>6, <2>1 DEF Alone, Active
  <2>4. final # Nobody =>
          Tools!Whole(final)' /\ files'[final].holds = archive'[files'[final].from]
    BY <1>1, <1>4, <1>5, <2>1, <2>2 DEF Alone, Tools!Whole, ToolsType
  <2>5. s = "replace" => files'[n].from = i /\ ~files'[n].torn /\ files'[n].holds = archive[i]
    BY <1>4, <1>5, <2>1, <2>2 DEF Alone, Active
  <2>6. \A j \in Installers : stage'[j] # "copying"
    BY <1>6, <2>3 DEF Active
  <2> QED BY <1>4, <2>2, <2>3, <2>4, <2>5, <2>6, <2>1 DEF Alone, Active
<1> QED BY <1>7, <1>9, <1>10, <1>11, <1>12, <1>13 DEF ToolsInv

LEMMA ToolsReplace ==
  ASSUME Tools!ToolchainAssumption, ToolsInv, NEW i \in Installers, Tools!Replace(i)
  PROVE  ToolsInv'
<1>1. /\ ToolsType /\ Named /\ Writing /\ (~overlap => Alone)
      /\ \A j \in Installers : Judged(j) /\ Sourced(j)
  BY DEF ToolsInv
<1>2. /\ stage[i] = "replace" /\ staging' = Nobody
      /\ final' = (IF staging = Nobody THEN final ELSE staging)
      /\ UNCHANGED <<archive, list, verdict, files, overlap>>
  BY DEF Tools!Replace
<1>3. PICK s \in {"failed", "installed"} :
        /\ stage' = [stage EXCEPT ![i] = s]
        /\ s = "installed" <=> staging # Nobody
  BY DEF Tools!Replace, Tools!To
<1>4. stage'[i] = s /\ \A j \in Installers \ {i} : stage'[j] = stage[j]
  BY <1>1, <1>3 DEF ToolsType
<1>5. ToolsType'
  BY <1>1, <1>2, <1>3 DEF ToolsType, Stages
<1>6. \A j \in Installers : Judged(j)'
  BY <1>1, <1>2, <1>4 DEF Judged, Vetted, Early
<1>7. \A j \in Installers : stage'[j] \in Before => stage[j] \in Before
  BY <1>4 DEF Before, Early
<1>8. ASSUME NEW m \in Installers PROVE Sourced(m)'
  <2>1. files[m] \in Inode /\ Sourced(m)
    BY <1>1 DEF ToolsType
  <2> QED BY <1>2, <1>7, <2>1 DEF Sourced, Vetted, Inode
<1>9. Named'
  BY <1>1, <1>2, <1>7 DEF Named, Tools!ToolchainAssumption
<1>10. Writing'
  BY <1>1, <1>2, <1>4 DEF Writing
<1>11. ASSUME ~overlap' PROVE Alone'
  <2>1. Alone /\ \A j \in Installers : stage[j] \in Active <=> j = i
    BY <1>1, <1>2, <1>11 DEF Alone, Active
  <2>2. \A j \in Installers : stage'[j] \notin Active
    BY <1>4, <2>1 DEF Active
  <2>3. staging # Nobody /\ files[staging].from = i /\ ~files[staging].torn
        /\ files[staging].holds = archive[i]
    BY <1>2, <2>1 DEF Alone
  <2>4. files[staging].writers = {}
    <3>1. staging \in Installers /\ files[staging] \in Inode
      BY <1>1, <2>3 DEF ToolsType
    <3>2. \A j \in files[staging].writers : j \in Installers /\ stage[j] = "copying"
      BY <1>1, <3>1 DEF Writing, Inode
    <3> QED BY <1>2, <2>1, <3>2 DEF Active
  <2>5. archive[i] # "none"
    BY <1>1, <1>2 DEF Judged, Vetted, Early
  <2> QED BY <1>2, <2>2, <2>3, <2>4, <2>5 DEF Alone, Tools!Whole, Active
<1> QED BY <1>5, <1>6, <1>8, <1>9, <1>10, <1>11 DEF ToolsInv

\* Killed, an installer leaves the staging file as it is.
LEMMA ToolsKilled ==
  ASSUME ToolsInv, NEW i \in Installers, Tools!Killed(i)
  PROVE  ToolsInv'
<1>1. /\ ToolsType /\ Named /\ Writing /\ (~overlap => Alone)
      /\ \A j \in Installers : Judged(j) /\ Sourced(j)
  BY DEF ToolsInv
<1>2. /\ stage[i] \in {"copy", "copying", "replace"}
      /\ stage' = [stage EXCEPT ![i] = "killed"]
      /\ files' = [n \in Installers |-> IF i \in files[n].writers
           THEN [files[n] EXCEPT !.writers = @ \ {i}, !.torn = TRUE] ELSE files[n]]
      /\ UNCHANGED <<archive, list, verdict, staging, final, overlap>>
  BY DEF Tools!Killed, Tools!To
<1>3. ASSUME NEW m \in Installers
      PROVE  /\ files'[m] \in Inode /\ files'[m].writers = files[m].writers \ {i}
             /\ files'[m].from = files[m].from /\ files[m] \in Inode
             /\ i \notin files[m].writers => files'[m] = files[m]
  <2>1. files[m] \in Inode
    BY <1>1 DEF ToolsType
  <2>2. files'[m] = IF i \in files[m].writers
           THEN [files[m] EXCEPT !.writers = @ \ {i}, !.torn = TRUE] ELSE files[m]
    BY <1>2
  <2> QED BY <2>1, <2>2 DEF Inode
<1>4. stage'[i] = "killed" /\ \A j \in Installers \ {i} : stage'[j] = stage[j]
  BY <1>1, <1>2 DEF ToolsType
<1>5. ToolsType'
  <2>1. files' \in [Installers -> Inode]
    BY <1>2, <1>3
  <2> QED BY <1>1, <1>2, <2>1 DEF ToolsType, Stages
<1>6. \A j \in Installers : Judged(j)'
  BY <1>1, <1>2, <1>4 DEF Judged, Vetted, Early
<1>7. \A j \in Installers : stage'[j] \in Before => stage[j] \in Before
  BY <1>4 DEF Before, Early
<1>8. ASSUME NEW m \in Installers PROVE Sourced(m)'
  <2>1. files'[m].from = files[m].from /\ files[m] \in Inode /\ Sourced(m)
    BY <1>1, <1>3
  <2>2. files[m].from # Nobody => files[m].from \in Installers
    BY <2>1 DEF Inode
  <2> QED BY <1>2, <1>7, <2>1, <2>2 DEF Sourced, Vetted
<1>9. Named'
  BY <1>1, <1>2, <1>3, <1>7 DEF Named, ToolsType
<1>10. Writing'
  <2>1. \A j, m \in Installers : j \in files'[m].writers <=> j \in files[m].writers /\ j # i
    BY <1>3
  <2>2. \A m \in Installers : files'[m].from = files[m].from
    BY <1>3
  <2>3. \A j \in Installers : stage'[j] = "copying" <=> stage[j] = "copying" /\ j # i
    BY <1>4
  <2> QED BY <1>1, <2>1, <2>2, <2>3 DEF Writing
<1>11. ASSUME ~overlap' PROVE Alone'
  <2>1. Alone
    BY <1>1, <1>2, <1>11
  <2>2. \A j \in Installers : stage'[j] \in Active => j # i /\ stage[j] = stage'[j]
    BY <1>4 DEF Active
  <2>3. final # Nobody =>
          Tools!Whole(final)' /\ files'[final].holds = archive'[files'[final].from]
    BY <1>1, <1>2, <1>3, <2>1 DEF Alone, Tools!Whole, ToolsType
  <2>4. ASSUME NEW j \in Installers, stage'[j] \in Active
        PROVE  staging \in Installers /\ files'[staging] = files[staging]
    <3>1. stage[j] \in Active /\ j # i /\ staging \in Installers
      BY <1>1, <2>1, <2>2, <2>4 DEF Alone, ToolsType
    <3>2. stage[i] \notin Active
      BY <2>1, <3>1 DEF Alone
    <3>3. i \notin files[staging].writers
      BY <1>1, <3>1, <3>2 DEF Writing, Active
    <3> QED BY <1>3, <3>1, <3>3
  <2>5. \A j, k \in Installers : stage'[j] \in Active /\ stage'[k] \in Active => j = k
    BY <2>1, <2>2 DEF Alone
  <2>6. \A j \in Installers : stage'[j] \in Active =>
          /\ staging # Nobody /\ files'[staging].from = j /\ ~files'[staging].torn
          /\ stage'[j] = "copying" => j \in files'[staging].writers
          /\ stage'[j] = "replace" => files'[staging].holds = archive[j]
    BY <2>1, <2>2, <2>4 DEF Alone
  <2>7. /\ \A j \in Installers : stage'[j] = "copying" => j \in files'[staging].writers
        /\ \A j \in Installers : stage'[j] = "replace" => files'[staging].holds = archive[j]
    BY <2>6 DEF Active
  <2>8. staging' = staging /\ final' = final /\ archive' = archive
    BY <1>2
  <2> QED BY <2>3, <2>5, <2>6, <2>7, <2>8 DEF Alone
<1> QED BY <1>5, <1>6, <1>8, <1>9, <1>10, <1>11 DEF ToolsInv

LEMMA ToolsStay ==
  ASSUME Tools!ToolchainAssumption, ToolsInv, [Tools!Next]_(Tools!vars)
  PROVE  ToolsInv'
<1>1. ASSUME NEW i \in Installers, Tools!Step(i) PROVE ToolsInv'
  <2>1. CASE Tools!Copied(i) \/ Tools!CannotCopy(i)
    BY <2>1, ToolsLeave DEF Tools!Copied, Tools!CannotCopy
  <2> QED BY <1>1, <2>1, ToolsPrepare, ToolsOpen, ToolsReplace DEF Tools!Step
<1>2. CASE UNCHANGED Tools!vars
  BY <1>2 DEF Tools!vars, ToolsInv, ToolsType, Judged, Vetted, Named, Sourced, Writing, Alone,
              Tools!Whole
<1> QED BY <1>1, <1>2, ToolsKilled DEF Tools!Next

(***************************************************************************)
(* An altered binary is put in place only with its list altered too and no *)
(* signature that said anything of it; installers that follow each other,  *)
(* killed or not, put whole binaries there (ToolchainInstaller).           *)
(***************************************************************************)
THEOREM WhatIsInstalledWasVerified == Spec => []InstalledIsVerified
<1> DEFINE Inv == service = "tools" => ToolsInv
<1>1. Init => Inv
  BY NobodyIsNoInstaller, ToolsStart, Starts
<1>2. Inv /\ [Next]_vars => Inv'
  BY NobodyIsNoInstaller, ToolsStay, OneService
<1>3. Inv => InstalledIsVerified
  BY DEF ToolsInv, ToolsType, Named, Sourced, Vetted, Alone, Tools!InstalledIsVerified,
         InstalledIsVerified
<1> QED BY <1>1, <1>2, <1>3, PTL DEF Spec
-----------------------------------------------------------------------------
CP == INSTANCE CacheProofs


(***************************************************************************)
(* The run store.  A run that lost its document, or is about to, has as    *)
(* many newer ones as are kept: of those that were ever saved, which only  *)
(* become more.  What a run still has to unlink was listed in some earlier *)
(* state, so the property alone does not say that unlinking it is right.   *)
(***************************************************************************)
Phases == {"idle", "work", "write", "prune", "compare", "done", "killed"}
StoreType ==
  /\ disk \in [Runs -> {"none", "whole"}] /\ saved \subseteq Runs
  /\ phase \in [Runs -> Phases] /\ stale \in [Runs -> (SUBSET Runs) \cup {{0}}]
  /\ listed \in [Runs -> SUBSET Runs] /\ previous \in [Runs -> Runs \cup {0}]

Replaceable(A, r) == Cardinality({s \in A : s > r}) >= Retention
Notes(r) ==
  /\ \A s \in stale[r] : s # 0 => Replaceable(saved, s)
  /\ listed[r] \subseteq saved \ {r}
  /\ previous[r] # 0 => previous[r] \in saved \ {r} /\ Scopes[previous[r]] = Scopes[r]
StoreInv ==
  /\ StoreType /\ Store!Ids \subseteq saved
  /\ \A r \in saved : r \in Store!Ids \/ Replaceable(saved, r)
  /\ \A r \in Runs : Notes(r)

\* Each service brings its own FiniteSets; they are the one of the library.
LEMMA SameFiniteSets ==
  ASSUME NEW S
  PROVE  /\ Store!IsFiniteSet(S) <=> IsFiniteSet(S)
         /\ CP!IsFiniteSet(S) <=> IsFiniteSet(S)
         /\ Store!Cardinality(S) = Cardinality(S)
<1>1. Store!IsFiniteSet(S) <=> IsFiniteSet(S)
  BY DEF Store!IsFiniteSet, IsFiniteSet
<1>2. CP!IsFiniteSet(S) <=> IsFiniteSet(S)
  BY DEF CP!IsFiniteSet, IsFiniteSet
<1>3. Store!Cardinality(S) = Cardinality(S)
  BY DEF Store!Cardinality, Cardinality
<1> QED BY <1>1, <1>2, <1>3

LEMMA StoreConstants ==
  ASSUME Store!RunStoreAssumption
  PROVE  Runs \subseteq Nat /\ 0 \notin Runs /\ IsFiniteSet(Runs) /\ Retention \in Nat
BY SameFiniteSets DEF Store!RunStoreAssumption

LEMMA LargestIsIn ==
  ASSUME Store!RunStoreAssumption, NEW S \in SUBSET Runs, S # {}
  PROVE  Store!Max(S) \in S
<1>1. S \in SUBSET Nat /\ IsFiniteSet(S)
  BY StoreConstants, FS_Subset
<1>2. CP!Max(S) \in S
  BY <1>1, SameFiniteSets, CP!MaxIsIn
<1> QED BY <1>2 DEF CP!Max, Store!Max

\* A set of saved runs that grows counts as many newer ones as before, or more.
LEMMA NewerGrow ==
  ASSUME Store!RunStoreAssumption, NEW A \in SUBSET Runs, NEW B \in SUBSET Runs, A \subseteq B,
         NEW r \in Runs, Replaceable(A, r)
  PROVE  Replaceable(B, r)
<1> DEFINE a == {s \in A : s > r}
           b == {s \in B : s > r}
<1>1. a \subseteq b /\ b \subseteq Runs /\ IsFiniteSet(Runs) /\ Retention \in Nat
  BY StoreConstants
<1>2. IsFiniteSet(b) /\ IsFiniteSet(a)
  BY <1>1, FS_Subset
<1>3. Cardinality(a) <= Cardinality(b) /\ Cardinality(a) \in Nat /\ Cardinality(b) \in Nat
  BY <1>1, <1>2, FS_Subset, FS_CardinalityType
<1>4. Cardinality(a) >= Retention
  BY DEF Replaceable
<1> HIDE DEF a, b
<1>5. Cardinality(b) >= Retention
  BY <1>1, <1>3, <1>4
<1> QED BY <1>5 DEF Replaceable, b

LEMMA StoreStarts == ASSUME Store!RunStoreAssumption, Store!Init PROVE StoreInv
BY StoreConstants DEF Store!Init, StoreInv, StoreType, Store!Ids, Notes, Phases

LEMMA StoreStays ==
  ASSUME Store!RunStoreAssumption, StoreInv, [Store!Next]_(Store!vars) PROVE StoreInv'
<1>1. Runs \subseteq Nat /\ 0 \notin Runs
  BY StoreConstants
<1>2. /\ StoreType /\ Store!Ids \subseteq saved
      /\ \A r \in saved : r \in Store!Ids \/ Replaceable(saved, r)
      /\ \A r \in Runs : Notes(r)
  BY DEF StoreInv
<1>3. saved \in SUBSET Runs
  BY <1>2 DEF StoreType
<1>4. ASSUME UNCHANGED <<disk, saved, stale, listed, previous>>, phase' \in [Runs -> Phases]
      PROVE  StoreInv'
  BY <1>2, <1>4 DEF StoreInv, StoreType, Store!Ids, Notes
<1>5. CASE UNCHANGED Store!vars
  BY <1>2, <1>4, <1>5 DEF Store!vars, StoreType
<1>6. ASSUME NEW r \in Runs,
             Store!NewRunId(r) \/ Store!Write(r) \/ Store!Unwritable(r) \/ Store!Crash(r)
      PROVE  StoreInv'
  <2>1. UNCHANGED <<disk, saved, stale, listed, previous>>
    BY <1>6 DEF Store!NewRunId, Store!Write, Store!Unwritable, Store!Crash
  <2>2. PICK p \in Phases : phase' = [phase EXCEPT ![r] = p]
    BY <1>6 DEF Store!NewRunId, Store!Write, Store!Unwritable, Store!Crash, Store!To, Phases
  <2>3. phase' \in [Runs -> Phases]
    BY <1>2, <2>2 DEF StoreType
  <2> QED BY <1>4, <2>1, <2>3
<1>7. ASSUME NEW r \in Runs, Store!Rename(r) PROVE StoreInv'
  <2>1. /\ disk' = [disk EXCEPT ![r] = "whole"] /\ saved' = saved \cup {r}
        /\ phase' = [phase EXCEPT ![r] = "prune"] /\ stale' = [stale EXCEPT ![r] = {0}]
        /\ UNCHANGED <<listed, previous>>
    BY <1>7 DEF Store!Rename, Store!To
  <2>2. StoreType'
    BY <1>2, <2>1 DEF StoreType, Phases
  <2>3. Store!Ids' = Store!Ids \cup {r}
    BY <1>2, <2>1 DEF StoreType, Store!Ids
  <2>4. saved' \in SUBSET Runs /\ saved \subseteq saved'
    BY <1>3, <2>1
  <2>5. \A s \in Runs : Replaceable(saved, s) => Replaceable(saved', s)
    BY <1>3, <2>4, NewerGrow
  <2>6. ASSUME NEW q \in Runs PROVE Notes(q)'
    <3>1. Notes(q) /\ stale[q] \in (SUBSET Runs) \cup {{0}}
      BY <1>2 DEF StoreType
    <3>2. stale'[q] = {0} \/ stale'[q] = stale[q]
      BY <1>2, <2>1 DEF StoreType
    <3>3. \A s \in stale'[q] : s # 0 => Replaceable(saved', s)
      BY <2>5, <3>1, <3>2 DEF Notes
    <3> QED BY <2>1, <3>1, <3>3 DEF Notes
  <2> QED BY <1>2, <1>3, <2>1, <2>2, <2>3, <2>5, <2>6 DEF StoreInv
<1>8. ASSUME NEW r \in Runs, Store!ListStale(r) PROVE StoreInv'
  <2>1. stale' = [stale EXCEPT ![r] = Store!Beyond(Store!Ids)]
        /\ UNCHANGED <<disk, saved, phase, listed, previous>>
    BY <1>8 DEF Store!ListStale
  <2>2. Store!Ids \subseteq saved /\ Store!Ids \in SUBSET Runs
    BY <1>2, <1>3
  <2>3. ASSUME NEW s \in Store!Beyond(Store!Ids) PROVE s \in Runs /\ Replaceable(saved, s)
    <3>1. s \in Store!Ids /\ Replaceable(Store!Ids, s)
      BY SameFiniteSets DEF Store!Beyond, Replaceable
    <3> QED BY <1>3, <2>2, <3>1, NewerGrow
  <2>4. Store!Beyond(Store!Ids) \in SUBSET Runs
    BY <2>3
  <2>5. StoreType' /\ Store!Ids' = Store!Ids
    BY <1>2, <2>1, <2>4 DEF StoreType, Store!Ids
  <2>6. ASSUME NEW q \in Runs PROVE Notes(q)'
    <3>1. stale'[q] = Store!Beyond(Store!Ids) \/ stale'[q] = stale[q]
      BY <1>2, <2>1 DEF StoreType
    <3> QED BY <1>2, <2>1, <2>3, <3>1 DEF Notes
  <2> QED BY <1>2, <2>1, <2>5, <2>6 DEF StoreInv
<1>9. ASSUME NEW r \in Runs, Store!Unlink(r) PROVE StoreInv'
  <2> DEFINE s == Store!Max(stale[r])
  <2>1. s \in stale[r] /\ s \in Runs
    <3>1. stale[r] \in SUBSET Runs /\ stale[r] # {}
      BY <1>2, <1>9 DEF Store!Unlink, StoreType
    <3> QED BY <3>1, LargestIsIn
  <2>2. /\ disk' = [disk EXCEPT ![s] = "none"] /\ stale' = [stale EXCEPT ![r] = @ \ {s}]
        /\ UNCHANGED <<saved, phase, listed, previous>> /\ stale[r] # {0}
    BY <1>9 DEF Store!Unlink
  <2> HIDE DEF s
  <2>3. Store!Ids' = Store!Ids \ {s} /\ Replaceable(saved, s)
    <3>1. Replaceable(saved, s)
      BY <1>1, <1>2, <2>1 DEF Notes
    <3> QED BY <1>2, <2>1, <2>2, <3>1 DEF StoreType, Store!Ids
  <2>4. stale'[r] \in SUBSET Runs
    BY <1>2, <2>2 DEF StoreType
  <2>5. \A q \in Runs : stale'[q] \subseteq stale[q]
    BY <1>2, <2>2 DEF StoreType
  <2>6. StoreType'
    BY <1>2, <2>1, <2>2, <2>4 DEF StoreType
  <2>7. \A q \in Runs : Notes(q)'
    BY <1>2, <2>2, <2>5 DEF Notes
  <2> QED BY <1>2, <2>2, <2>3, <2>6, <2>7 DEF StoreInv
<1>10. ASSUME NEW r \in Runs, Store!Search(r) PROVE StoreInv'
  <2>1. /\ listed' = [listed EXCEPT ![r] = Store!Ids \ {r}] \/ UNCHANGED listed
        /\ UNCHANGED <<disk, saved, stale, previous>>
        /\ \E p \in Phases : phase' = [phase EXCEPT ![r] = p]
    BY <1>10 DEF Store!Search, Store!To, Phases
  <2>2. \A q \in Runs :
          listed'[q] = listed[q] \/ (q = r /\ listed'[q] = Store!Ids \ {r})
    BY <1>2, <2>1 DEF StoreType
  <2>3. Store!Ids \subseteq Runs /\ Store!Ids' = Store!Ids
    BY <1>2, <1>3, <2>1 DEF Store!Ids
  <2>4. StoreType'
    BY <1>2, <2>1, <2>3 DEF StoreType
  <2>5. \A q \in Runs : Notes(q)'
    BY <1>2, <2>1, <2>2 DEF Notes
  <2> QED BY <1>2, <2>1, <2>3, <2>4, <2>5 DEF StoreInv
<1>11. ASSUME NEW r \in Runs, Store!Load(r) PROVE StoreInv'
  <2> DEFINE s == Store!Max(listed[r])
  <2>1. s \in listed[r] /\ s \in Runs
    <3>1. listed[r] \in SUBSET Runs /\ listed[r] # {}
      BY <1>2, <1>11 DEF Store!Load, StoreType
    <3> QED BY <3>1, LargestIsIn
  <2>2. /\ \/ /\ Scopes[s] = Scopes[r]
              /\ previous' = [previous EXCEPT ![r] = s] /\ listed' = [listed EXCEPT ![r] = {}]
           \/ listed' = [listed EXCEPT ![r] = @ \ {s}] /\ UNCHANGED previous
        /\ UNCHANGED <<disk, phase, saved, stale>>
    BY <1>11 DEF Store!Load
  <2> HIDE DEF s
  <2>3. s \in saved \ {r}
    BY <1>2, <2>1 DEF Notes
  <2>4. \A q \in Runs : listed'[q] \subseteq listed[q]
    BY <1>2, <2>2 DEF StoreType
  <2>5. \A q \in Runs :
          previous'[q] = previous[q] \/ (q = r /\ previous'[q] = s /\ Scopes[s] = Scopes[r])
    BY <1>2, <2>2 DEF StoreType
  <2>6. StoreType' /\ Store!Ids' = Store!Ids
    BY <1>2, <2>1, <2>2 DEF StoreType, Store!Ids
  <2>7. \A q \in Runs : Notes(q)'
    BY <1>2, <2>2, <2>3, <2>4, <2>5 DEF Notes
  <2> QED BY <1>2, <2>2, <2>6, <2>7 DEF StoreInv
<1> QED BY <1>5, <1>6, <1>7, <1>8, <1>9, <1>10, <1>11 DEF Store!Next

LEMMA StoreIsHonest ==
  ASSUME Store!RunStoreAssumption, StoreInv
  PROVE  Store!NewestSurvive /\ Store!ComparedWithWhole
<1>1. Store!ComparedWithWhole
  BY DEF StoreInv, StoreType, Store!ComparedWithWhole, Store!Ids, Notes
<1>2. ASSUME NEW r \in saved, Cardinality({s \in saved : s > r}) < Retention
      PROVE  r \in Store!Ids
  <2>1. IsFiniteSet({s \in saved : s > r}) /\ Retention \in Nat
    BY StoreConstants, FS_Subset DEF StoreInv, StoreType
  <2>2. Cardinality({s \in saved : s > r}) \in Nat
    BY <2>1, FS_CardinalityType
  <2>3. ~Replaceable(saved, r)
    BY <1>2, <2>1, <2>2 DEF Replaceable
  <2> QED BY <2>3 DEF StoreInv
<1> QED BY <1>1, <1>2, SameFiniteSets DEF Store!NewestSurvive

(***************************************************************************)
(* CacheProofs is about CacheClients, which is the cache of Services: the  *)
(* two instances have the same definitions.                                *)
(***************************************************************************)
LEMMA SameRuns ==
  ASSUME NEW p \in Procs, Cache!Run(p) PROVE CP!Run(p)
<1>1. Cache!AskEvaluation(p) => CP!AskEvaluation(p)
  BY DEF CP!AskEvaluation, Cache!AskEvaluation, CP!Begin, Cache!Begin, CP!Asks, Cache!Asks,
         CP!Get, Cache!Get, CP!Unreadable, Cache!Unreadable, CP!Read, Cache!Read,
         CP!Present, Cache!Present, CP!Expired, Cache!Expired, CP!Goto, Cache!Goto,
         CP!cacheVars, Cache!cacheVars
<1>2. Cache!ScanForEvaluation(p) => CP!ScanForEvaluation(p)
  BY DEF CP!ScanForEvaluation, Cache!ScanForEvaluation, CP!Asks, Cache!Asks, CP!Get,
         Cache!Get, CP!Unreadable, Cache!Unreadable, CP!Read, Cache!Read, CP!Present,
         Cache!Present, CP!Expired, Cache!Expired, CP!Goto, Cache!Goto, CP!Discard,
         Cache!Discard, CP!Refused, Cache!Refused, CP!ScanRefused, Cache!ScanRefused,
         CP!Delete, Cache!Delete, CP!cacheVars, Cache!cacheVars, CP!Rest, Cache!Rest,
         CP!Returned, Cache!Returned, CP!EvalKey, Cache!EvalKey, CP!Keeps, Cache!Keeps
<1>3. Cache!Serve(p) => CP!Serve(p)
  BY DEF CP!Serve, Cache!Serve, CP!Rest, Cache!Rest, CP!Returned, Cache!Returned,
         CP!EvaluationRefused, Cache!EvaluationRefused, CP!Done, Cache!Done, CP!Goto,
         Cache!Goto, CP!Keeps, Cache!Keeps, CP!cacheVars, Cache!cacheVars
<1>4. Cache!AskScan(p) => CP!AskScan(p)
  BY DEF CP!AskScan, Cache!AskScan, CP!Asks, Cache!Asks, CP!Get, Cache!Get, CP!Unreadable,
         Cache!Unreadable, CP!Read, Cache!Read, CP!Present, Cache!Present, CP!Expired,
         Cache!Expired, CP!Goto, Cache!Goto, CP!Rest, Cache!Rest
<1>5. Cache!LookUp(p) => CP!LookUp(p)
  BY DEF CP!LookUp, Cache!LookUp, CP!Discard, Cache!Discard, CP!Refused, Cache!Refused,
         CP!ScanRefused, Cache!ScanRefused, CP!Delete, Cache!Delete, CP!cacheVars,
         Cache!cacheVars, CP!Rest, Cache!Rest, CP!Returned, Cache!Returned, CP!Goto,
         Cache!Goto, CP!Keeps, Cache!Keeps
<1>6. Cache!Scan(p) => CP!Scan(p)
  BY DEF CP!Scan, Cache!Scan, CP!Keeps, Cache!Keeps, CP!Goto, Cache!Goto, CP!Done,
         Cache!Done, CP!cacheVars, Cache!cacheVars
<1>7. Cache!PutScan(p) => CP!PutScan(p)
  BY DEF CP!PutScan, Cache!PutScan, CP!Writes, Cache!Writes, CP!Set, Cache!Set, CP!NextId,
         Cache!NextId, CP!Max, Cache!Max, CP!Present, Cache!Present, CP!cacheVars,
         Cache!cacheVars, CP!Rest, Cache!Rest, CP!ScanRow, Cache!ScanRow, CP!TtlOf,
         Cache!TtlOf, CP!Keeps, Cache!Keeps, CP!Goto, Cache!Goto
<1>8. Cache!PutEvaluation(p) => CP!PutEvaluation(p)
  BY DEF CP!PutEvaluation, Cache!PutEvaluation, CP!Writes, Cache!Writes, CP!Set, Cache!Set,
         CP!NextId, Cache!NextId, CP!Max, Cache!Max, CP!Present, Cache!Present,
         CP!cacheVars, Cache!cacheVars, CP!Rest, Cache!Rest, CP!Storable, Cache!Storable,
         CP!EvalKey, Cache!EvalKey, CP!EvaluationRow, Cache!EvaluationRow, CP!Done,
         Cache!Done, CP!Goto, Cache!Goto, CP!Keeps, Cache!Keeps
<1>9. Cache!Resolve(p) => CP!Resolve(p)
  BY DEF CP!Resolve, Cache!Resolve, CP!Begin, Cache!Begin, CP!Keeps, Cache!Keeps, CP!Goto,
         Cache!Goto, CP!cacheVars, Cache!cacheVars
<1>10. Cache!AskHistory(p) => CP!AskHistory(p)
  BY DEF CP!AskHistory, Cache!AskHistory, CP!Asks, Cache!Asks, CP!Get, Cache!Get,
         CP!Unreadable, Cache!Unreadable, CP!Read, Cache!Read, CP!Present, Cache!Present,
         CP!Expired, Cache!Expired, CP!Goto, Cache!Goto, CP!Rest, Cache!Rest
<1>11. Cache!Observe(p) => CP!Observe(p)
  BY DEF CP!Observe, Cache!Observe, CP!Rest, Cache!Rest, CP!Returned, Cache!Returned,
         CP!HistoryFrom, Cache!HistoryFrom, CP!NoHistory, Cache!NoHistory, CP!Record,
         Cache!Record, CP!Unchanged, Cache!Unchanged, CP!Last, Cache!Last, CP!Pruned,
         Cache!Pruned, CP!Done, Cache!Done, CP!Goto, Cache!Goto, CP!Keeps, Cache!Keeps,
         CP!cacheVars, Cache!cacheVars
<1>12. Cache!Save(p) => CP!Save(p)
  BY DEF CP!Save, Cache!Save, CP!Writes, Cache!Writes, CP!Set, Cache!Set, CP!NextId,
         Cache!NextId, CP!Max, Cache!Max, CP!Present, Cache!Present, CP!cacheVars,
         Cache!cacheVars, CP!Rest, Cache!Rest, CP!Done, Cache!Done, CP!Goto, Cache!Goto,
         CP!Keeps, Cache!Keeps
<1>13. Cache!DropExpired(p) => CP!DropExpired(p)
  BY DEF CP!DropExpired, Cache!DropExpired, CP!Present, Cache!Present
<1>14. UNCHANGED Cache!runVars => UNCHANGED CP!runVars
  BY DEF Cache!runVars, CP!runVars
<1> QED BY <1>1, <1>2, <1>3, <1>4, <1>5, <1>6, <1>7, <1>8, <1>9, <1>10, <1>11, <1>12, <1>13,
           <1>14 DEF Cache!Run, CP!Run

LEMMA SameSteps == [Cache!Next]_(Cache!vars) => [CP!Next]_(CP!vars)
<1>1. Cache!MoveTag => CP!MoveTag
  BY DEF Cache!MoveTag, CP!MoveTag, Cache!cacheVars, CP!cacheVars
<1>2. Cache!Clear => CP!Clear
  BY DEF Cache!Clear, CP!Clear, Cache!Delete, CP!Delete
<1>3. Cache!CleanupExpired => CP!CleanupExpired
  BY DEF Cache!CleanupExpired, CP!CleanupExpired, Cache!Delete, CP!Delete, Cache!Present,
         CP!Present, Cache!Expired, CP!Expired
<1>4. Cache!Tick => CP!Tick
  BY DEF Cache!Tick, CP!Tick
<1>5. UNCHANGED Cache!vars => UNCHANGED CP!vars
  BY DEF Cache!vars, CP!vars, Cache!cacheVars, CP!cacheVars, Cache!runVars, CP!runVars
<1>6. UNCHANGED Cache!runVars => UNCHANGED CP!runVars
  BY DEF Cache!runVars, CP!runVars
<1>7. Cache!Housekeeping => CP!Housekeeping
  BY <1>2, <1>3, <1>4, <1>6 DEF Cache!Housekeeping, CP!Housekeeping
<1>8. Cache!Next => CP!Next
  BY <1>1, <1>7, SameRuns DEF Cache!Next, CP!Next
<1> QED BY <1>5, <1>8

LEMMA SameCache ==
  /\ Cache!CacheAssumption => CP!CacheAssumption
  /\ Cache!Init => CP!Init
  /\ CP!MapStep => [Cache!Map!Next]_(Cache!Map!vars)
  /\ CP!ServedIsCurrent /\ CP!HistoriesAreHonest =>
       Cache!ServedIsCurrent /\ Cache!HistoriesAreHonest
<1>1. Cache!CacheAssumption => CP!CacheAssumption
  BY DEF CP!CacheAssumption, Cache!CacheAssumption, CP!RowKeys, Cache!RowKeys, CP!EvalKey,
         Cache!EvalKey, CP!IsFiniteSet, Cache!IsFiniteSet, CP!Values, Cache!Values,
         CP!Scans, Cache!Scans, CP!Evaluations, Cache!Evaluations, CP!Histories,
         Cache!Histories, CP!Observations, Cache!Observations
<1>2. Cache!Init => CP!Init
  BY DEF Cache!Init, CP!Init, Cache!CacheInit, CP!CacheInit
<1>3. CP!MapStep => [Cache!Map!Next]_(Cache!Map!vars)
  BY DEF CP!MapStep, CP!Map!Next, Cache!Map!Next, CP!Map!vars, Cache!Map!vars, CP!Map!Get,
                     Cache!Map!Get, CP!Map!Put, Cache!Map!Put, CP!Map!Forget,
                     Cache!Map!Forget, CP!Read, Cache!Read, CP!Present, Cache!Present,
                     CP!Expired, Cache!Expired
<1>4. CP!ServedIsCurrent => Cache!ServedIsCurrent
  BY DEF Cache!ServedIsCurrent, CP!ServedIsCurrent, Cache!ScanRefused, CP!ScanRefused
<1>5. CP!HistoriesAreHonest => Cache!HistoriesAreHonest
  BY DEF Cache!HistoriesAreHonest, CP!HistoriesAreHonest, Cache!Honest, CP!Honest,
         Cache!Moves, CP!Moves
<1> QED BY <1>1, <1>2, <1>3, <1>4, <1>5

LEMMA CacheStarts == ASSUME service = "cache", Init PROVE CP!Inv
BY CacheIsACache, Starts, SameCache, CP!InitInv

LEMMA CacheStays ==
  ASSUME service = "cache", CP!Inv, [Next]_vars
  PROVE  CP!Inv' /\ [Cache!Map!Next]_(Cache!Map!vars)
BY CacheIsACache, OneService, SameSteps, SameCache, CP!StepKeeps

LEMMA CacheIsHonest ==
  ASSUME CP!Inv PROVE Cache!ServedIsCurrent /\ Cache!HistoriesAreHonest
BY SameCache DEF CP!Inv, CP!Local, CP!Served, CP!Usable, CP!Told, CP!ServedIsCurrent,
                 CP!HistoriesAreHonest

(***************************************************************************)
(* SQLiteCache: with any number of runs that read, write, expire, delete   *)
(* by id and clean up, the rows are a map that may forget and serves only  *)
(* what was last written under a key.                                      *)
(***************************************************************************)
THEOREM TheCacheIsAMap == Spec => ServesTheMap
<1> DEFINE Inv == service = "cache" => CP!Inv
<1>1. Init => Inv
  BY CacheStarts
<1>2. Inv /\ [Next]_vars => Inv' /\ (service = "cache" => [Cache!Map!Next]_(Cache!Map!vars))
  BY CacheStays, OneService
<1> QED BY <1>1, <1>2, PTL DEF Spec, ServesTheMap

(***************************************************************************)
(* What is kept from run to run is what it says.  What is served is of a   *)
(* scan that the run could use, though rows change between its two reads,  *)
(* and a history tells the chain that it comes from (measurement_store.py, *)
(* tag_history_store.py).  Whoever prunes and whenever it listed, the      *)
(* newest runs that were ever saved are there, up to the retention, and a  *)
(* run is compared with a saved one of the same question (run_store.py).   *)
(***************************************************************************)
THEOREM WhatIsKeptIsHonest == Spec => []StoredIsHonest
<1> DEFINE Inv == /\ service = "cache" => CP!Inv
                  /\ service = "runs" => StoreInv
<1>1. Init => Inv
  BY RunsAreNumbered, CacheStarts, StoreStarts, Starts
<1>2. Inv /\ [Next]_vars => Inv'
  BY RunsAreNumbered, CacheStays, StoreStays, OneService
<1>3. Inv => StoredIsHonest
  BY RunsAreNumbered, CacheIsHonest, StoreIsHonest DEF StoredIsHonest
<1> QED BY <1>1, <1>2, <1>3, PTL DEF Spec
-----------------------------------------------------------------------------

(***************************************************************************)
(* Scans without the engine.  The two properties and the types are         *)
(* inductive together: a process that lives is where run_capture can reap  *)
(* it, and whoever holds the lock is preparing the second scanner.         *)
(***************************************************************************)
PythonInv == Python!TypeOK /\ Python!NoProcessLeft /\ Python!SecondaryPreparedOnce

LEMMA PythonStarts == ASSUME Python!PythonScanAssumption, Python!Init PROVE PythonInv
<1> USE DEF Python!PythonScanAssumption, Python!Init, Python!Tools
<1>1. Python!TypeOK
  <2>1. 0 \in 0..MaxCancels
    OBVIOUS
  <2>2. /\ place \in [Calls -> {"new", "acquire", "fallback", "lock", "done"} \cup Python!Tools]
        /\ proc \in [Calls -> {"none", "alive", "signalled", "killed", "ended"}]
        /\ leaving \in [Calls -> {None, "fault", "cancel"}]
        /\ slot \in [Calls -> CacheDirs \cup {None}]
    OBVIOUS
  <2>3. cancels \in [Calls -> 0..MaxCancels]
    BY <2>1
  <2> QED BY <2>2, <2>3 DEF Python!TypeOK
<1>2. Python!NoProcessLeft /\ Python!SecondaryPreparedOnce
  BY DEF Python!NoProcessLeft, Python!SecondaryPreparedOnce
<1> QED BY <1>1, <1>2 DEF PythonInv

LEMMA PythonSteps ==
  ASSUME Python!PythonScanAssumption, PythonInv, NEW c \in Calls, Python!Step(c)
  PROVE  PythonInv'
<1> USE DEF Python!PythonScanAssumption, PythonInv, Python!TypeOK, Python!NoProcessLeft,
       Python!SecondaryPreparedOnce, Python!Tools, Python!Goto, Python!Answers, Python!Clear,
       Python!Returned, Python!Unwound, Python!Kinds, Python!Reaped
<1>1. CASE Python!Call(c)
  BY <1>1 DEF Python!Call
<1>2. CASE Python!Acquire(c)
  BY <1>2 DEF Python!Acquire
<1>3. CASE Python!Spawn(c)
  BY <1>3 DEF Python!Spawn
<1>4. CASE Python!GiveUp(c)
  BY <1>4 DEF Python!GiveUp
<1>5. CASE Python!Kill(c)
  BY <1>5 DEF Python!Kill
<1>6. CASE Python!TrivyEnds(c)
  BY <1>6 DEF Python!TrivyEnds
<1>7. CASE Python!Second(c)
  BY <1>7 DEF Python!Second
<1>8. CASE Python!Lock(c)
  BY <1>8 DEF Python!Lock
<1>9. CASE Python!RefreshEnds(c)
  BY <1>9 DEF Python!RefreshEnds
<1>10. CASE Python!GrypeEnds(c)
  BY <1>10 DEF Python!GrypeEnds
<1>11. CASE Python!Unwind(c)
  BY <1>11 DEF Python!Unwind
<1> QED BY <1>1, <1>2, <1>3, <1>4, <1>5, <1>6, <1>7, <1>8, <1>9, <1>10, <1>11 DEF Python!Step

LEMMA PythonCancels ==
  ASSUME Python!PythonScanAssumption, PythonInv, NEW c \in Calls, Python!Cancel(c)
  PROVE  PythonInv'
<1> USE DEF Python!PythonScanAssumption, PythonInv, Python!TypeOK, Python!NoProcessLeft,
       Python!SecondaryPreparedOnce, Python!Tools, Python!Goto, Python!Answers, Python!Clear,
       Python!Returned, Python!Unwound, Python!Kinds
<1>1. cancels' \in [Calls -> 0..MaxCancels]
  BY DEF Python!Cancel
<1>2. CASE Python!CancelWaiting(c)
  BY <1>1, <1>2 DEF Python!CancelWaiting
<1>3. CASE Python!CancelRunning(c)
  BY <1>1, <1>3 DEF Python!CancelRunning
<1>4. CASE Python!CancelReaping(c)
  BY <1>1, <1>4 DEF Python!CancelReaping
<1>5. CASE Python!CancelKilled(c)
  <2> USE <1>1, <1>5 DEF Python!CancelKilled
  <2>1. CASE leaving[c] = "cancel"
    BY <2>1
  <2>2. CASE leaving[c] = "fault" /\ place[c] = "trivy"
    BY <2>2
  <2>3. CASE leaving[c] = "fault" /\ place[c] = "refresh"
    BY <2>3
  <2>4. CASE leaving[c] = "fault" /\ place[c] = "grype"
    <3>1. Python!TypeOK'
      BY <2>4
    <3>2. Python!NoProcessLeft'
      BY <2>4
    <3>3. Python!SecondaryPreparedOnce'
      BY <2>4
    <3> QED BY ONLY <3>1, <3>2, <3>3 DEF PythonInv
  <2> QED BY <2>1, <2>2, <2>3, <2>4
<1> QED BY <1>2, <1>3, <1>4, <1>5 DEF Python!Cancel

LEMMA PythonStays ==
  ASSUME Python!PythonScanAssumption, PythonInv, [Python!Next]_(Python!vars) PROVE PythonInv'
<1> USE DEF PythonInv, Python!TypeOK, Python!NoProcessLeft, Python!SecondaryPreparedOnce,
       Python!Tools
<1>1. CASE UNCHANGED Python!vars
  BY <1>1 DEF Python!vars
<1>2. ASSUME NEW c \in Calls, Python!Exit(c) PROVE PythonInv'
  BY <1>2 DEF Python!Exit
<1>3. ASSUME NEW c \in Calls, Python!TrivyMissing(c) PROVE PythonInv'
  BY <1>3 DEF Python!TrivyMissing, Python!Returned, Python!Goto, Python!Answers
<1>4. ASSUME NEW c \in Calls, Python!NoSecond(c) PROVE PythonInv'
  BY <1>4 DEF Python!NoSecond, Python!Goto, Python!Answers, Python!Kinds
<1> QED BY <1>1, <1>2, <1>3, <1>4, PythonSteps, PythonCancels DEF Python!Next

-----------------------------------------------------------------------------

LEMMA SameInEngine ==
  ASSUME NEW S
  PROVE  /\ Engine!IsFiniteSet(S) <=> IsFiniteSet(S)
         /\ Engine!Cardinality(S) = Cardinality(S)
<1>1. Engine!IsFiniteSet(S) <=> IsFiniteSet(S)
  BY DEF Engine!IsFiniteSet, IsFiniteSet
<1>2. Engine!Cardinality(S) = Cardinality(S)
  BY DEF Engine!Cardinality, Cardinality
<1> QED BY <1>1, <1>2

LEMMA TargetsAreFinite ==
  ASSUME Engine!EngineAssumption
  PROVE  /\ IsFiniteSet(Engine!Targets) /\ Engine!Targets \subseteq Nat
         /\ NTargets \in Nat /\ Cardinality(Engine!Targets) = NTargets
         /\ Engine!AtOnce \in Nat
<1>1. NTargets \in Nat /\ Workers \in Nat /\ IsFiniteSet(Dirs)
  BY SameInEngine DEF Engine!EngineAssumption
<1>2. IsFiniteSet(1..NTargets) /\ Cardinality(1..NTargets) = NTargets
  BY <1>1, FS_Interval
<1>3. IsFiniteSet(Engine!Slots)
  <2>1. IsFiniteSet({0})
    BY FS_Singleton
  <2>2. 1 \in Int /\ Workers \in Int
    BY <1>1
  <2>3. IsFiniteSet(1..Workers)
    BY <2>2, FS_Interval
  <2> QED BY <1>1, <2>1, <2>3 DEF Engine!Slots
<1>4. Engine!AtOnce \in Nat
  BY <1>1, <1>3, SameInEngine, FS_CardinalityType DEF Engine!AtOnce
<1> QED BY <1>1, <1>2, <1>4 DEF Engine!Targets

(***************************************************************************)
(* The request numbers the targets that are allowed: the place of a target *)
(* is its rank, no two share one, and every position is somebody's.        *)
(***************************************************************************)
LEMMA Ranking ==
  ASSUME Engine!EngineAssumption
  PROVE  /\ Engine!Positions \subseteq Engine!Targets
         /\ \A i \in Engine!Sent :
              Engine!PlaceOf(i) \in Engine!Positions /\ Engine!Allowed[Engine!PlaceOf(i)] = i
         /\ \A p \in Engine!Positions :
              Engine!Allowed[p] \in Engine!Sent /\ Engine!PlaceOf(Engine!Allowed[p]) = p
<1> DEFINE S == Engine!Sent
           n == Cardinality(S)
           below(i) == {j \in S : j <= i}
           f == [i \in S |-> Cardinality(below(i))]
<1>1. S \subseteq Engine!Targets /\ S \subseteq Nat /\ IsFiniteSet(S)
  BY TargetsAreFinite, FS_Subset DEF Engine!Sent
<1>2. n \in Nat /\ n <= NTargets /\ NTargets \in Nat
  BY <1>1, TargetsAreFinite, FS_CardinalityType, FS_Subset
<1>3. ASSUME NEW i \in S
      PROVE  IsFiniteSet(below(i)) /\ Cardinality(below(i)) \in 1..n
  <2>1. below(i) \in SUBSET S /\ i \in below(i)
    BY <1>1, <1>3
  <2>2. IsFiniteSet(below(i)) /\ Cardinality(below(i)) <= n
    BY <1>1, <2>1, FS_Subset
  <2>3. Cardinality(below(i)) \in Nat /\ Cardinality(below(i)) # 0
    BY <2>1, <2>2, FS_CardinalityType, FS_EmptySet
  <2> HIDE DEF below, n
  <2> QED BY <1>2, <2>2, <2>3
<1>4. ASSUME NEW i \in S, NEW j \in S, i < j
      PROVE  Cardinality(below(i)) # Cardinality(below(j))
  <2>1. below(i) \in SUBSET below(j) /\ j \in below(j) /\ j \notin below(i)
    <3>1. i \in Nat /\ j \in Nat /\ \A k \in S : k \in Nat
      BY <1>1, <1>4
    <3> HIDE DEF S
    <3>2. ASSUME NEW k \in S, k <= i PROVE k <= j
      BY <1>4, <3>1, <3>2
    <3>3. ~(j <= i) /\ j <= j
      BY <1>4, <3>1
    <3> QED BY <3>2, <3>3
  <2>2. below(i) # below(j)
    BY <2>1
  <2> QED BY <1>3, <2>1, <2>2, FS_Subset
<1>5. f \in Injection(S, 1..n)
  <2>1. f \in [S -> 1..n]
    BY <1>3
  <2>2. ASSUME NEW i \in S, NEW j \in S, i # j PROVE f[i] # f[j]
    <3>1. i < j \/ j < i
      BY <1>1, <2>2
    <3> QED BY <1>4, <3>1
  <2> QED BY <2>1, <2>2 DEF Injection, IsInjective
<1>6. IsFiniteSet(1..n) /\ Cardinality(1..n) = n
  BY <1>2, FS_Interval
<1>7. f \in Surjection(S, 1..n)
  BY <1>5, <1>6, FS_Injection
<1>8. Engine!Positions = 1..n /\ \A i \in S : Engine!PlaceOf(i) = f[i]
  BY SameInEngine DEF Engine!Positions, Engine!PlaceOf
<1>9. \A i, j \in S : f[i] = f[j] => i = j
  BY <1>5 DEF Injection, IsInjective
<1>10. \A p \in 1..n : \E i \in S : f[i] = p
  BY <1>7 DEF Surjection
<1>11. \A i \in S : f[i] \in 1..n
  BY <1>3
<1>12. 1..n \subseteq Engine!Targets
  <2> HIDE DEF n
  <2> QED BY <1>2 DEF Engine!Targets
<1>13. \A p \in 1..n : Engine!Allowed[p] = CHOOSE i \in S : f[i] = p
  BY <1>8 DEF Engine!Allowed
<1> HIDE DEF f, S, n
<1>14. \A p \in 1..n : Engine!Allowed[p] \in S /\ f[Engine!Allowed[p]] = p
  BY <1>10, <1>13
<1>15. \A i \in S : Engine!Allowed[f[i]] = i
  BY <1>9, <1>11, <1>14
<1> QED BY <1>8, <1>11, <1>12, <1>14, <1>15 DEF S

(***************************************************************************)
(* The pool: no more jobs hold a slot than run at once, and those that     *)
(* took a directory took different ones.  A process lives in a job that    *)
(* runs or reaps it, as long as nothing went wrong; the property speaks of *)
(* processes, the slots and directories belong to the jobs.                *)
(***************************************************************************)
Jobs == {"new", "once", "slot", "ready", "run", "reap", "done"}
Living == {"alive", "signalled"}
EngineType ==
  /\ refused \subseteq Engine!Targets /\ job \in [Engine!Targets -> Jobs]
  /\ dir = [p \in Engine!Targets |-> dir[p]]
  /\ scanner \in [Engine!Targets -> {"none", "ended"} \cup Living]
  /\ found = [p \in Engine!Targets |-> found[p]]

Pooled ==
  /\ Cardinality(Engine!InSlot) <= Engine!AtOnce
  /\ \A p, q \in Engine!InSlot :
       p # q /\ job[p] # "slot" /\ job[q] # "slot" => dir[p] # dir[q]
  /\ faults = {} => \A p \in Engine!Targets : scanner[p] \in Living => job[p] \in {"run", "reap"}

(***************************************************************************)
(* The entries: a job that is done found something of its own image, and   *)
(* its raw document is its own, of which there is one.                     *)
(***************************************************************************)
FoundFor(p) ==
  /\ found[p] \in [of : Engine!Positions, why : {"ok", "failed", "timeout"}, raw : {None, p}]
  /\ Engine!Entry(found[p].of) = Engine!Entry(p)
Entered ==
  /\ \A p \in Engine!Targets : job[p] # "new" => p \in Engine!Positions
  /\ \A p \in Engine!Targets : job[p] = "done" => FoundFor(p)
  /\ engine = "answered" => \A p \in Engine!Positions : job[p] = "done"
EngineInv == EngineType /\ Pooled /\ Entered /\ Engine!AnswersInPlace

\* Whoever keeps its directory and takes no slot keeps the pool.
LEMMA PoolShrinks ==
  ASSUME Engine!EngineAssumption, Pooled,
         Engine!InSlot' \subseteq Engine!InSlot, UNCHANGED dir,
         \A p \in Engine!InSlot' : job'[p] # "slot" => job[p] # "slot",
         faults' = {} => /\ faults = {}
                         /\ \A p \in Engine!Targets :
                              scanner'[p] \in Living => job'[p] \in {"run", "reap"}
  PROVE  Pooled'
<1>1. IsFiniteSet(Engine!InSlot)
  BY TargetsAreFinite, FS_Subset DEF Engine!InSlot
<1>2. /\ Cardinality(Engine!InSlot') <= Cardinality(Engine!InSlot)
      /\ Cardinality(Engine!InSlot') \in Nat /\ Cardinality(Engine!InSlot) \in Nat
  BY <1>1, FS_Subset, FS_CardinalityType
<1>3. Engine!AtOnce' = Engine!AtOnce /\ Engine!AtOnce \in Nat /\ Engine!Targets' = Engine!Targets
  BY TargetsAreFinite DEF Engine!AtOnce, Engine!Slots, Engine!Targets
<1>4. Cardinality(Engine!InSlot') <= Engine!AtOnce
  BY <1>2, <1>3 DEF Pooled
<1> QED BY <1>3, <1>4 DEF Pooled

LEMMA SameRequest ==
  ASSUME UNCHANGED refused
  PROVE  /\ Engine!Positions' = Engine!Positions /\ Engine!Allowed' = Engine!Allowed
         /\ Engine!Sent' = Engine!Sent /\ Engine!Targets' = Engine!Targets
         /\ \A p : Engine!Entry(p)' = Engine!Entry(p)
BY DEF Engine!Positions, Engine!Allowed, Engine!Sent, Engine!PlaceOf, Engine!Entry, Engine!Targets

LEMMA AnswersStay ==
  ASSUME Engine!AnswersInPlace, UNCHANGED <<refused, results>>,
         client' = "results" => client = "results"
  PROVE  Engine!AnswersInPlace'
BY DEF Engine!AnswersInPlace, Engine!SameImage, Engine!Targets

\* Steps that leave the jobs where they are: processes, the client, a crash.
LEMMA JobsStay ==
  ASSUME Engine!EngineAssumption, EngineInv, UNCHANGED <<refused, job, dir, found>>,
         scanner' \in [Engine!Targets -> {"none", "ended"} \cup Living],
         faults' = {} => faults = {},
         \A p \in Engine!Targets :
           scanner'[p] \in Living => scanner[p] \in Living,
         engine' = "answered" => engine = "answered" \/ \A p \in Engine!Positions : job[p] = "done",
         Engine!AnswersInPlace'
  PROVE  EngineInv'
<1>1. EngineType /\ Pooled /\ Entered
  BY DEF EngineInv
<1>2. EngineType'
  BY <1>1, SameRequest DEF EngineType
<1>3. Engine!InSlot' = Engine!InSlot
  BY DEF Engine!InSlot, Engine!Targets
<1>4. Pooled'
  BY <1>1, <1>3, PoolShrinks DEF Pooled
<1>5. Entered'
  BY <1>1, SameRequest DEF Entered, FoundFor
<1> QED BY <1>2, <1>4, <1>5 DEF EngineInv

\* Steps of one job.
LEMMA JobSteps ==
  ASSUME Engine!EngineAssumption, EngineInv, NEW p \in Engine!Targets, NEW s \in Jobs,
         job[p] # "done", p \in Engine!Positions, engine # "answered",
         job' = [job EXCEPT ![p] = s],
         UNCHANGED <<refused, client, engine, results>>,
         dir' = [q \in Engine!Targets |-> dir'[q]],
         scanner' \in [Engine!Targets -> {"none", "ended"} \cup Living],
         found' = [q \in Engine!Targets |-> found'[q]],
         \A q \in Engine!Targets \ {p} : found'[q] = found[q],
         s = "done" => FoundFor(p)',
         Pooled'
  PROVE  EngineInv'
<1>1. EngineType /\ Entered /\ Engine!AnswersInPlace
  BY DEF EngineInv
<1>2. EngineType'
  BY <1>1, SameRequest DEF EngineType
<1>3. job'[p] = s /\ \A q \in Engine!Targets \ {p} : job'[q] = job[q]
  BY <1>1 DEF EngineType
<1>4. ASSUME NEW q \in Engine!Targets, job'[q] = "done" PROVE FoundFor(q)'
  <2>1. CASE q = p
    BY <1>3, <1>4, <2>1
  <2>2. CASE q # p
    BY <1>1, <1>3, <1>4, <2>2, SameRequest DEF Entered, FoundFor
  <2> QED BY <2>1, <2>2
<1>5. Entered'
  BY <1>1, <1>3, <1>4, SameRequest DEF Entered
<1>6. Engine!AnswersInPlace'
  BY <1>1, AnswersStay
<1> QED BY <1>2, <1>5, <1>6 DEF EngineInv

LEMMA SlotIsTaken ==
  ASSUME Engine!EngineAssumption, EngineInv, NEW p \in Engine!Targets, Engine!TakeSlot(p)
  PROVE  Pooled'
<1>1. EngineType /\ Pooled
  BY DEF EngineInv
<1>2. /\ Cardinality(Engine!InSlot) < Engine!AtOnce /\ job[p] = "once"
      /\ job' = [job EXCEPT ![p] = "slot"] /\ UNCHANGED <<dir, scanner, faults>>
  BY SameInEngine DEF Engine!TakeSlot
<1>3. Engine!InSlot' = Engine!InSlot \cup {p}
  BY <1>1, <1>2 DEF Engine!InSlot, Engine!Targets, EngineType
<1>4. IsFiniteSet(Engine!InSlot)
  BY TargetsAreFinite, FS_Subset DEF Engine!InSlot
<1>5. Cardinality(Engine!InSlot) \in Nat
  BY <1>4, FS_CardinalityType
<1>6. Cardinality(Engine!InSlot') <= Cardinality(Engine!InSlot) + 1
      /\ Cardinality(Engine!InSlot') \in Nat
  <2>1. Cardinality(Engine!InSlot \cup {p}) =
          IF p \in Engine!InSlot THEN Cardinality(Engine!InSlot) ELSE Cardinality(Engine!InSlot) + 1
    BY <1>4, FS_AddElement
  <2> QED BY <1>3, <1>5, <2>1
<1>7. Engine!AtOnce' = Engine!AtOnce /\ Engine!AtOnce \in Nat /\ Engine!Targets' = Engine!Targets
  BY TargetsAreFinite DEF Engine!AtOnce, Engine!Slots, Engine!Targets
<1>8. Cardinality(Engine!InSlot') <= Engine!AtOnce
  BY <1>2, <1>5, <1>6, <1>7
<1>9. job'[p] = "slot" /\ \A q \in Engine!Targets \ {p} : job'[q] = job[q]
  BY <1>1, <1>2 DEF EngineType
<1>10. \A q, r \in Engine!InSlot' :
         q # r /\ job'[q] # "slot" /\ job'[r] # "slot" => dir'[q] # dir'[r]
  BY <1>1, <1>2, <1>3, <1>9 DEF Pooled, Engine!InSlot
<1>11. faults' = {} => \A q \in Engine!Targets : scanner'[q] \in Living => job'[q] \in {"run", "reap"}
  BY <1>1, <1>2, <1>9 DEF Pooled
<1> QED BY <1>7, <1>8, <1>10, <1>11 DEF Pooled

LEMMA DirIsTaken ==
  ASSUME Engine!EngineAssumption, EngineInv, NEW p \in Engine!Targets, Engine!TakeDir(p)
  PROVE  Pooled'
<1>1. EngineType /\ Pooled
  BY DEF EngineInv
<1>2. /\ job[p] = "slot" /\ job' = [job EXCEPT ![p] = "ready"]
      /\ UNCHANGED <<scanner, faults>>
  BY DEF Engine!TakeDir
<1>3. PICK d \in Engine!Slots \ Engine!Busy : dir' = [dir EXCEPT ![p] = d]
  BY DEF Engine!TakeDir
<1>4. job'[p] = "ready" /\ \A q \in Engine!Targets \ {p} : job'[q] = job[q]
  BY <1>1, <1>2 DEF EngineType
<1>5. dir'[p] = d /\ \A q \in Engine!Targets \ {p} : dir'[q] = dir[q]
  BY <1>1, <1>3 DEF EngineType
<1>6. Engine!InSlot' = Engine!InSlot /\ Engine!InSlot \subseteq Engine!Targets /\ p \in Engine!InSlot
  BY <1>2, <1>4 DEF Engine!InSlot, Engine!Targets
<1>7. \A q \in Engine!InSlot : job[q] # "slot" => dir[q] # d
  BY <1>3 DEF Engine!Busy
<1>8. Engine!AtOnce' = Engine!AtOnce /\ Engine!Targets' = Engine!Targets
  BY DEF Engine!AtOnce, Engine!Slots, Engine!Targets
<1>9. \A q, r \in Engine!InSlot' :
         q # r /\ job'[q] # "slot" /\ job'[r] # "slot" => dir'[q] # dir'[r]
  BY <1>1, <1>2, <1>4, <1>5, <1>6, <1>7 DEF Pooled
<1>10. faults' = {} => \A q \in Engine!Targets : scanner'[q] \in Living => job'[q] \in {"run", "reap"}
  BY <1>1, <1>2, <1>4 DEF Pooled
<1> QED BY <1>1, <1>6, <1>8, <1>9, <1>10 DEF Pooled

\* A job in its slot that ends, starts its process or is to be reaped.
LEMMA SlotIsKept ==
  ASSUME Engine!EngineAssumption, EngineInv, NEW p \in Engine!Targets, NEW s \in Jobs,
         job' = [job EXCEPT ![p] = s], UNCHANGED dir,
         s \in {"ready", "run", "reap"} => job[p] \in {"ready", "run", "reap"},
         s # "slot", faults' = {} => faults = {},
         \A q \in Engine!Targets \ {p} : scanner'[q] = scanner[q],
         faults' = {} => (scanner'[p] \in Living => s \in {"run", "reap"})
  PROVE  Pooled'
<1>1. EngineType /\ Pooled
  BY DEF EngineInv
<1>2. job'[p] = s /\ \A q \in Engine!Targets \ {p} : job'[q] = job[q]
  BY <1>1 DEF EngineType
<1>3. Engine!InSlot' \subseteq Engine!InSlot
  BY <1>2 DEF Engine!InSlot, Engine!Targets
<1>4. \A q \in Engine!InSlot' : job'[q] # "slot" => job[q] # "slot"
  BY <1>2 DEF Engine!InSlot, Engine!Targets, Jobs
<1>5. faults' = {} => /\ faults = {}
                      /\ \A q \in Engine!Targets :
                           scanner'[q] \in Living => job'[q] \in {"run", "reap"}
  BY <1>1, <1>2 DEF Pooled
<1> QED BY <1>1, <1>3, <1>4, <1>5, PoolShrinks

LEMMA ScanEnds ==
  ASSUME Engine!EngineAssumption, EngineInv, NEW p \in Engine!Targets,
         NEW why \in {"ok", "failed", "timeout"}, Engine!Finished(p, why), engine = "up",
         job[p] \in {"ready", "run", "reap"}, UNCHANGED scanner, faults' = {} => faults = {},
         faults' = {} => scanner[p] \notin Living
  PROVE  EngineInv'
<1>1. EngineType /\ Entered
  BY DEF EngineInv
<1>2. /\ job' = [job EXCEPT ![p] = "done"]
      /\ found' = [found EXCEPT ![p] =
                     [of |-> p, why |-> why, raw |-> IF why = "ok" THEN p ELSE None]]
      /\ UNCHANGED <<refused, client, engine, dir, results>>
  BY DEF Engine!Finished
<1>3. p \in Engine!Positions
  BY <1>1 DEF Entered
<1>4. /\ found'[p] = [of |-> p, why |-> why, raw |-> IF why = "ok" THEN p ELSE None]
      /\ \A q \in Engine!Targets \ {p} : found'[q] = found[q]
      /\ found' = [q \in Engine!Targets |-> found'[q]]
  BY <1>1, <1>2 DEF EngineType
<1>5. FoundFor(p)'
  BY <1>2, <1>3, <1>4, SameRequest DEF FoundFor
<1>6. Pooled'
  BY <1>1, <1>2, SlotIsKept DEF Jobs
<1> QED BY <1>1, <1>2, <1>3, <1>4, <1>5, <1>6, JobSteps DEF Jobs, EngineType

LEMMA EngineGoes ==
  ASSUME Engine!EngineAssumption, EngineInv, Engine!EngineStep
  PROVE  EngineInv'
<1>1. EngineType /\ Pooled /\ Entered /\ Engine!AnswersInPlace
  BY DEF EngineInv
<1>2. \A q \in Engine!Targets : job[q] \in Jobs /\ scanner[q] \in {"none", "ended"} \cup Living
  BY <1>1 DEF EngineType
<1>3. ASSUME NEW p \in Engine!Targets, Engine!Lead(p) PROVE EngineInv'
  <2>1. /\ engine = "up" /\ p \in Engine!Positions /\ job[p] = "new"
        /\ job' = [job EXCEPT ![p] = "once"]
        /\ UNCHANGED <<refused, client, engine, dir, scanner, found, results, faults>>
    BY <1>3 DEF Engine!Lead, Engine!Siblings
  <2>2. Pooled'
    BY <1>1, <2>1, SlotIsKept DEF Jobs, Pooled
  <2> QED BY <1>1, <2>1, <2>2, JobSteps DEF Jobs, EngineType
<1>4. ASSUME NEW p \in Engine!Targets, Engine!TakeSlot(p) PROVE EngineInv'
  <2>1. /\ engine = "up" /\ job[p] = "once" /\ job' = [job EXCEPT ![p] = "slot"]
        /\ UNCHANGED <<refused, client, engine, dir, scanner, found, results>>
    BY <1>4 DEF Engine!TakeSlot
  <2>2. p \in Engine!Positions
    BY <1>1, <2>1 DEF Entered
  <2> QED BY <1>1, <1>4, <2>1, <2>2, SlotIsTaken, JobSteps DEF Jobs, EngineType
<1>5. ASSUME NEW p \in Engine!Targets, Engine!TakeDir(p) PROVE EngineInv'
  <2>1. /\ engine = "up" /\ job[p] = "slot" /\ job' = [job EXCEPT ![p] = "ready"]
        /\ \E d \in Engine!Slots : dir' = [dir EXCEPT ![p] = d]
        /\ UNCHANGED <<refused, client, engine, scanner, found, results>>
    BY <1>5 DEF Engine!TakeDir
  <2>2. p \in Engine!Positions
    BY <1>1, <2>1 DEF Entered
  <2>3. dir' = [q \in Engine!Targets |-> dir'[q]]
    BY <1>1, <2>1 DEF EngineType
  <2> QED BY <1>1, <1>5, <2>1, <2>2, <2>3, DirIsTaken, JobSteps DEF Jobs, EngineType
<1>6. ASSUME NEW p \in Engine!Targets, Engine!Follow(p) PROVE EngineInv'
  <2>1. /\ engine = "up" /\ p \in Engine!Positions /\ job[p] = "new"
        /\ job' = [job EXCEPT ![p] = "done"]
        /\ UNCHANGED <<refused, client, engine, dir, scanner, results, faults>>
    BY <1>6 DEF Engine!Follow
  <2>2. PICK q \in Engine!Siblings(p) :
          job[q] = "done" /\ found' = [found EXCEPT ![p] = [found[q] EXCEPT !.raw = None]]
    BY <1>6 DEF Engine!Follow
  <2>3. q \in Engine!Targets /\ Engine!Entry(q) = Engine!Entry(p)
    BY Ranking DEF Engine!Siblings
  <2>4. FoundFor(q)
    BY <1>1, <2>2, <2>3 DEF Entered
  <2>5. found'[p] = [found[q] EXCEPT !.raw = None]
    BY <1>1, <2>2 DEF EngineType
  <2>6. FoundFor(p)'
    BY <2>1, <2>3, <2>4, <2>5, SameRequest DEF FoundFor
  <2>7. Pooled'
    BY <1>1, <2>1, SlotIsKept DEF Jobs, Pooled
  <2>8. \A r \in Engine!Targets \ {p} : found'[r] = found[r]
    BY <1>1, <2>2 DEF EngineType
  <2>9. /\ dir' = [r \in Engine!Targets |-> dir'[r]] /\ "done" \in Jobs
        /\ scanner' \in [Engine!Targets -> {"none", "ended"} \cup Living]
    BY <1>1, <2>1 DEF EngineType, Jobs
  <2>10. job[p] # "done" /\ engine # "answered" /\ p \in Engine!Positions
        /\ job' = [job EXCEPT ![p] = "done"]
        /\ UNCHANGED <<refused, client, engine, results>>
    BY <2>1
  <2>11. found' = [r \in Engine!Targets |-> found'[r]]
    BY <1>1, <2>2 DEF EngineType
  <2> QED BY <2>6, <2>7, <2>9, <2>10, <2>11, <2>8, JobSteps
<1>7. ASSUME NEW p \in Engine!Targets,
             Engine!NotStarted(p) \/ Engine!Waited(p) \/ Engine!Reap(p) \/ Engine!GraceOver(p)
      PROVE  EngineInv'
  <2>1. CASE Engine!NotStarted(p)
    BY <1>1, <2>1, ScanEnds DEF Engine!NotStarted, Pooled
  <2>2. CASE Engine!Waited(p)
    BY <1>1, <2>2, ScanEnds DEF Engine!Waited, Living
  <2>3. CASE Engine!Reap(p)
    BY <1>1, <2>3, ScanEnds DEF Engine!Reap, Living
  <2>4. CASE Engine!GraceOver(p)
    BY <1>1, <2>4, ScanEnds DEF Engine!GraceOver
  <2> QED BY <1>7, <2>1, <2>2, <2>3, <2>4
<1>8. ASSUME NEW p \in Engine!Targets, Engine!Launch(p) PROVE EngineInv'
  <2>1. /\ engine = "up" /\ job[p] = "ready" /\ job' = [job EXCEPT ![p] = "run"]
        /\ scanner' = [scanner EXCEPT ![p] = "alive"]
        /\ UNCHANGED <<refused, client, engine, dir, found, results, faults>>
    BY <1>8 DEF Engine!Launch
  <2>2. p \in Engine!Positions
    BY <1>1, <2>1 DEF Entered
  <2>3. /\ scanner' \in [Engine!Targets -> {"none", "ended"} \cup Living]
        /\ \A q \in Engine!Targets \ {p} : scanner'[q] = scanner[q]
    BY <1>1, <2>1 DEF EngineType, Living
  <2>4. Pooled'
    BY <2>1, <2>3, SlotIsKept DEF Jobs
  <2> QED BY <1>1, <2>1, <2>2, <2>3, <2>4, JobSteps DEF Jobs, EngineType
<1>9. ASSUME NEW p \in Engine!Targets, Engine!Overflow(p) \/ Engine!KillTimer(p)
      PROVE  EngineInv'
  <2>1. PICK x \in {"signalled", "ended"} : scanner' = [scanner EXCEPT ![p] = x]
    BY <1>9 DEF Engine!Overflow, Engine!KillTimer
  <2>2. /\ UNCHANGED <<refused, client, engine, job, dir, found, results, faults>>
        /\ scanner[p] \in Living
    BY <1>9 DEF Engine!Overflow, Engine!KillTimer, Living
  <2>3. /\ scanner' \in [Engine!Targets -> {"none", "ended"} \cup Living]
        /\ \A q \in Engine!Targets : scanner'[q] \in Living => scanner[q] \in Living
    BY <1>1, <2>1, <2>2 DEF EngineType, Living
  <2> QED BY <1>1, <2>2, <2>3, AnswersStay, JobsStay
<1>10. ASSUME Engine!Answer PROVE EngineInv'
  BY <1>1, <1>10, AnswersStay, JobsStay DEF Engine!Answer, EngineType
<1> QED BY <1>3, <1>4, <1>5, <1>6, <1>7, <1>8, <1>9, <1>10 DEF Engine!EngineStep

\* The answer is put back in the places of the targets.
LEMMA AnswerIsRead ==
  ASSUME Engine!EngineAssumption, EngineInv, Engine!Read
  PROVE  Engine!AnswersInPlace'
<1> DEFINE At(i) == Engine!PlaceOf(i)
<1>1. /\ engine = "answered" /\ UNCHANGED refused
      /\ results' = [i \in Engine!Targets |->
           IF i \in refused THEN Engine!Refusal(i)
           ELSE [found[At(i)] EXCEPT !.of = Engine!Allowed[@]]]
  BY DEF Engine!Read
<1>2. ASSUME NEW i \in refused, i \in Engine!Targets
      PROVE  results'[i].of = i /\ results'[i].why = "refused" /\ results'[i].raw = None
  BY <1>1, <1>2 DEF Engine!Refusal
<1>3. ASSUME NEW i \in Engine!Sent
      PROVE  /\ results'[i].why # "refused" /\ results'[i].raw \in {None, At(i)}
             /\ Engine!SameImage(i, results'[i].of)
  <2>1. /\ At(i) \in Engine!Positions /\ At(i) \in Engine!Targets
        /\ Engine!Allowed[At(i)] = i /\ i \in Engine!Targets /\ i \notin refused
    BY Ranking DEF Engine!Sent
  <2>2. FoundFor(At(i))
    BY <1>1, <2>1 DEF EngineInv, Entered
  <2>3. results'[i] = [found[At(i)] EXCEPT !.of = Engine!Allowed[@]]
    BY <1>1, <2>1
  <2> DEFINE q == found[At(i)].of
  <2>4. /\ results'[i].of = Engine!Allowed[q] /\ results'[i].raw \in {None, At(i)}
        /\ results'[i].why \in {"ok", "failed", "timeout"}
        /\ Engine!Entry(q) = Engine!Entry(At(i))
    BY <2>2, <2>3 DEF FoundFor
  <2> HIDE DEF q
  <2>5. Engine!SameImage(i, Engine!Allowed[q])
    BY <2>1, <2>4 DEF Engine!Entry, Engine!SameImage
  <2> QED BY <2>4, <2>5
<1>4. \A i \in Engine!Targets : i \in refused \/ i \in Engine!Sent
  BY DEF Engine!Sent
<1>5. \A i, j \in Engine!Sent : i # j => At(i) # At(j)
  BY Ranking
<1>6. ASSUME NEW i \in Engine!Targets
      PROVE  /\ (results'[i].why = "refused") <=> (i \in refused)
             /\ Engine!SameImage(i, results'[i].of)
  <2>1. i \in Engine!Sent => i \notin refused
    BY DEF Engine!Sent
  <2> QED BY <1>2, <1>3, <1>4, <1>6, <2>1 DEF Engine!SameImage
<1>7. ASSUME NEW i \in Engine!Targets, NEW j \in Engine!Targets \ {i}, results'[i].raw # None
      PROVE  results'[i].raw # results'[j].raw
  <2>1. i \in Engine!Sent /\ results'[i].raw = At(i)
    BY <1>2, <1>3, <1>4, <1>7
  <2>2. CASE j \in refused
    BY <1>2, <1>7, <2>2
  <2>3. CASE j \in Engine!Sent
    BY <1>3, <1>5, <1>7, <2>1, <2>3
  <2> QED BY <1>4, <2>2, <2>3
<1> HIDE DEF At
<1> QED BY <1>1, <1>6, <1>7 DEF Engine!AnswersInPlace, Engine!SameImage, Engine!Targets

LEMMA NobodyIsAsked ==
  ASSUME Engine!EngineAssumption, EngineInv, Engine!NothingToAsk
  PROVE  Engine!AnswersInPlace'
<1>1. /\ Engine!Positions = {} /\ UNCHANGED refused
      /\ results' = [i \in Engine!Targets |-> Engine!Refusal(i)]
  BY DEF Engine!NothingToAsk
<1>2. Engine!Sent = {}
  BY <1>1, Ranking
<1>3. \A i \in Engine!Targets : i \in refused
  BY <1>2 DEF Engine!Sent
<1> QED BY <1>1, <1>3 DEF Engine!AnswersInPlace, Engine!SameImage, Engine!Refusal, Engine!Targets

LEMMA EngineStarts == ASSUME Engine!EngineAssumption, Engine!Init PROVE EngineInv
<1>1. /\ refused \in SUBSET Engine!Targets /\ job = [p \in Engine!Targets |-> "new"]
      /\ dir = [p \in Engine!Targets |-> None] /\ scanner = [p \in Engine!Targets |-> "none"]
      /\ found = [p \in Engine!Targets |-> None] /\ client = "idle" /\ engine = "off"
  BY DEF Engine!Init
<1>2. EngineType
  BY <1>1 DEF EngineType, Jobs
<1>3. Engine!InSlot = {}
  BY <1>1 DEF Engine!InSlot
<1>4. Cardinality(Engine!InSlot) <= Engine!AtOnce
  BY <1>3, FS_EmptySet, TargetsAreFinite
<1>5. Pooled
  BY <1>1, <1>3, <1>4 DEF Pooled, Living
<1>6. Entered /\ Engine!AnswersInPlace
  BY <1>1 DEF Entered, Engine!AnswersInPlace
<1> QED BY <1>2, <1>5, <1>6 DEF EngineInv

LEMMA EngineStays ==
  ASSUME Engine!EngineAssumption, EngineInv, [Engine!Next]_(Engine!vars) PROVE EngineInv'
<1>1. EngineType /\ Pooled /\ Entered /\ Engine!AnswersInPlace
  BY DEF EngineInv
<1>2. scanner \in [Engine!Targets -> {"none", "ended"} \cup Living]
  BY <1>1 DEF EngineType
<1>3. CASE UNCHANGED Engine!vars
  <2>1. UNCHANGED <<refused, client, engine, job, dir, scanner, found, results, faults>>
    BY <1>3 DEF Engine!vars, Engine!engineVars
  <2> QED BY <1>1, <1>2, <2>1, AnswersStay, JobsStay
<1>4. CASE Engine!Read \/ Engine!NothingToAsk
  <2>1. /\ UNCHANGED <<refused, engine, job, dir, scanner, found, faults>>
        /\ Engine!AnswersInPlace'
    BY <1>4, AnswerIsRead, NobodyIsAsked DEF Engine!Read, Engine!NothingToAsk, Engine!engineVars
  <2> QED BY <1>2, <2>1, JobsStay
<1>5. CASE \/ Engine!Start \/ Engine!NoAnswer \/ Engine!Stopped \/ Engine!Declines
           \/ Engine!Stop \/ Engine!Crash
  <2>1. /\ UNCHANGED <<refused, job, dir, scanner, found, results>>
        /\ faults' = {} => faults = {}
        /\ client' = "results" => client = "results"
        /\ engine' = "answered" => engine = "answered"
    BY <1>5 DEF Engine!Start, Engine!NoAnswer, Engine!Stopped, Engine!Declines, Engine!Stop,
                Engine!Crash, Engine!engineVars, Engine!Ends
  <2> QED BY <1>1, <1>2, <2>1, AnswersStay, JobsStay
<1>6. ASSUME NEW p \in Engine!Targets, Engine!Exit(p) PROVE EngineInv'
  <2>1. /\ scanner' = [scanner EXCEPT ![p] = "ended"]
        /\ UNCHANGED <<refused, client, engine, job, dir, found, results, faults>>
    BY <1>6 DEF Engine!Exit
  <2>2. /\ scanner' \in [Engine!Targets -> {"none", "ended"} \cup Living]
        /\ \A q \in Engine!Targets : scanner'[q] \in Living => scanner[q] \in Living
    BY <1>2, <2>1 DEF Living
  <2> QED BY <1>1, <2>1, <2>2, AnswersStay, JobsStay
<1>7. ASSUME NEW p \in Engine!Targets, Engine!Expire(p) PROVE EngineInv'
  <2>1. /\ engine = "up" /\ job[p] = "run" /\ job' = [job EXCEPT ![p] = "reap"]
        /\ scanner' = [scanner EXCEPT ![p] = IF @ = "alive" THEN "signalled" ELSE @]
        /\ UNCHANGED <<refused, client, engine, dir, found, results, faults>>
    BY <1>7 DEF Engine!Expire
  <2>2. /\ scanner' \in [Engine!Targets -> {"none", "ended"} \cup Living]
        /\ \A q \in Engine!Targets \ {p} : scanner'[q] = scanner[q]
    BY <1>2, <2>1 DEF Living
  <2>3. Pooled'
    BY <2>1, <2>2, SlotIsKept DEF Jobs
  <2>4. p \in Engine!Positions
    BY <1>1, <2>1 DEF Entered
  <2> QED BY <1>1, <2>1, <2>2, <2>3, <2>4, JobSteps DEF Jobs, EngineType
<1> QED BY <1>3, <1>4, <1>5, <1>6, <1>7, EngineGoes DEF Engine!Next, Engine!ClientStep

LEMMA EngineIsContained ==
  ASSUME Engine!EngineAssumption, EngineInv
  PROVE  Engine!ScansIsolated /\ Engine!AnswersInPlace
<1> SUFFICES ASSUME faults = {}
             PROVE  /\ Engine!Cardinality(Engine!Running) <= Engine!AtOnce
                    /\ \A p, q \in Engine!Running : p # q => dir[p] # dir[q]
  BY DEF EngineInv, Engine!ScansIsolated
<1>1. Engine!Running \in SUBSET Engine!InSlot /\ \A p \in Engine!Running : job[p] # "slot"
  BY DEF EngineInv, Pooled, Living, Engine!Running, Engine!InSlot
<1>2. IsFiniteSet(Engine!InSlot)
  BY TargetsAreFinite, FS_Subset DEF Engine!InSlot
<1>3. /\ Cardinality(Engine!Running) <= Cardinality(Engine!InSlot)
      /\ Cardinality(Engine!Running) \in Nat /\ Cardinality(Engine!InSlot) \in Nat
  BY <1>1, <1>2, FS_Subset, FS_CardinalityType
<1>4. Cardinality(Engine!InSlot) <= Engine!AtOnce /\ Engine!AtOnce \in Nat
  BY TargetsAreFinite DEF EngineInv, Pooled
<1>5. Engine!Cardinality(Engine!Running) <= Engine!AtOnce
  BY <1>3, <1>4, SameInEngine
<1> QED BY <1>1, <1>5 DEF EngineInv, Pooled

(***************************************************************************)
(* The scanners of a run are contained, whichever of the two sides starts  *)
(* them.  In the engine a scanner has its directory to itself and the pool *)
(* is respected, as long as nothing was abandoned, killed or deaf; every   *)
(* result is in the place of its target and of its image, whatever was     *)
(* refused and whatever was shared (engine/internal/scan,                  *)
(* integrations/engine).  In Python no call leaves run_capture with a      *)
(* process that nobody reaps or kills, and the second scanner is prepared  *)
(* once, however calls fail and however often they are cancelled.          *)
(***************************************************************************)
THEOREM ScannersAreContained == Spec => []ScanningIsContained
<1> DEFINE Inv == /\ service = "engine" => EngineInv
                  /\ service = "python" => PythonInv
<1>1. Init => Inv
  BY EngineHasWorkers, NoneIsNoCall, EngineStarts, PythonStarts, Starts
<1>2. Inv /\ [Next]_vars => Inv'
  BY EngineHasWorkers, NoneIsNoCall, EngineStays, PythonStays, OneService
<1>3. Inv => ScanningIsContained
  BY EngineHasWorkers, EngineIsContained DEF PythonInv, ScanningIsContained
<1> QED BY <1>1, <1>2, <1>3, PTL DEF Spec
-----------------------------------------------------------------------------
(***************************************************************************)
(* The listings of a repository.  Whatever a verifier was given, and what  *)
(* is remembered as complete, has every tag unless a page was refused, and *)
(* is nothing only if the first one was.  The pages that a caller is going *)
(* through are needed for it: what it has read is in what it gathered.     *)
(***************************************************************************)
Told(x, isCut, isRefused) ==
  /\ x # Absent /\ (x = None => isRefused)
  /\ x # None /\ ~isCut => Tags!Published \subseteq x
Payloads == {None, Absent} \cup SUBSET Tags!Published

ListsType ==
  /\ listing \in Payloads /\ complete \in BOOLEAN /\ cut \in BOOLEAN /\ unlisted \in BOOLEAN
  /\ lists \in [Tags!Callers -> {"start", "waiting", "first", "paging", "done"}]
  /\ tags \in [Tags!Callers -> SUBSET Tags!Published]
  /\ page \in [Tags!Callers -> 0..Len(Pages)] /\ payload \in [Tags!Callers -> Payloads]

Gathered(c) ==
  lists[c] = "paging" => page[c] > 0 /\ \A i \in 1..page[c] : Pages[i] \subseteq tags[c]
ListsInv ==
  /\ ListsType /\ \A c \in Tags!Callers : Gathered(c)
  /\ listing = None => unlisted
  /\ complete /\ listing # Absent => Told(listing, cut, unlisted)
  /\ \A v \in Verifiers : lists[v] = "done" => Told(payload[v], cut, unlisted)

LEMMA ListsStart == ASSUME Tags!ListingsAssumption, Tags!Init PROVE ListsInv
<1>1. /\ listing = Absent /\ complete = FALSE /\ cut = FALSE /\ unlisted = FALSE
      /\ lists = [c \in Tags!Callers |-> "start"] /\ tags = [c \in Tags!Callers |-> {}]
      /\ page = [c \in Tags!Callers |-> 0] /\ payload = [c \in Tags!Callers |-> Absent]
  BY DEF Tags!Init
<1>2. 0 \in 0..Len(Pages) /\ None # Absent
  BY DEF Tags!ListingsAssumption
<1>3. ListsType
  BY <1>1, <1>2 DEF ListsType, Payloads
<1>4. \A c \in Tags!Callers : lists[c] = "start"
  BY <1>1
<1> QED BY <1>1, <1>2, <1>3, <1>4 DEF ListsInv, Gathered, Tags!Callers

LEMMA PagesArePublished ==
  ASSUME Tags!ListingsAssumption
  PROVE  /\ Len(Pages) \in Nat \ {0} /\ Searchers \cap Verifiers = {}
         /\ \A i \in 1..Len(Pages) : Pages[i] \in SUBSET Tags!Published
         /\ \A S : (\A i \in 1..Len(Pages) : Pages[i] \subseteq S) => Tags!Published \subseteq S
         /\ None # Absent /\ None \notin SUBSET Tags!Published
         /\ Absent \notin SUBSET Tags!Published
<1>1. /\ Pages \in Seq(SUBSET Tags!Published) /\ Pages # <<>>
      /\ DOMAIN Pages = 1..Len(Pages)
  BY DEF Tags!ListingsAssumption
<1>2. \A i \in 1..Len(Pages) : Pages[i] \in SUBSET Tags!Published
  BY <1>1
<1>3. \A S : (\A i \in 1..Len(Pages) : Pages[i] \subseteq S) => Tags!Published \subseteq S
  BY <1>1 DEF Tags!Published
<1>4. Len(Pages) \in Nat \ {0}
  BY <1>1
<1> QED BY <1>2, <1>3, <1>4 DEF Tags!ListingsAssumption

\* A caller ends with a payload that it may be told, if it is a verifier.
LEMMA PayloadIsGiven ==
  ASSUME ListsInv, NEW c \in Tags!Callers, NEW x \in Payloads, Tags!Give(c, x),
         cut => cut', unlisted => unlisted', cut' \in BOOLEAN, unlisted' \in BOOLEAN,
         listing' \in Payloads, complete' \in BOOLEAN, listing' = None => unlisted',
         complete' /\ listing' # Absent => Told(listing', cut', unlisted'),
         c \in Verifiers => Told(x, cut', unlisted'), UNCHANGED <<tags, page>>
  PROVE  ListsInv'
<1>1. /\ payload' = [payload EXCEPT ![c] = x] /\ lists' = [lists EXCEPT ![c] = "done"]
  BY DEF Tags!Give, Tags!To
<1>2. ListsType'
  BY <1>1 DEF ListsInv, ListsType
<1>3. \A d \in Tags!Callers : Gathered(d)'
  BY <1>1 DEF ListsInv, ListsType, Gathered
<1>4. \A v \in Verifiers \ {c} : payload'[v] = payload[v] /\ lists'[v] = lists[v]
  BY <1>1 DEF ListsInv, ListsType, Tags!Callers
<1>5. \A v \in Verifiers : lists'[v] = "done" => Told(payload'[v], cut', unlisted')
  BY <1>1, <1>4 DEF ListsInv, ListsType, Told
<1> QED BY <1>2, <1>3, <1>5 DEF ListsInv

LEMMA ListsGoOn ==
  ASSUME ListsInv, NEW c \in Tags!Callers, lists[c] # "done" \/ UNCHANGED lists,
         NEW l \in {"waiting", "first", "paging"}, lists' = [lists EXCEPT ![c] = l] \/ UNCHANGED lists,
         tags' \in [Tags!Callers -> SUBSET Tags!Published],
         page' \in [Tags!Callers -> 0..Len(Pages)],
         \A d \in Tags!Callers \ {c} : tags'[d] = tags[d] /\ page'[d] = page[d], Gathered(c)',
         UNCHANGED <<listing, complete, payload, cut, unlisted>>
  PROVE  ListsInv'
<1>1. ListsType'
  BY DEF ListsInv, ListsType
<1>2. \A d \in Tags!Callers \ {c} : lists'[d] = lists[d]
  BY DEF ListsInv, ListsType
<1>3. \A d \in Tags!Callers : Gathered(d)'
  BY <1>2 DEF ListsInv, Gathered
<1>4. \A v \in Verifiers : lists'[v] = "done" => lists[v] = "done"
  BY DEF ListsInv, ListsType, Tags!Callers
<1> QED BY <1>1, <1>3, <1>4 DEF ListsInv

LEMMA ListsStay ==
  ASSUME Tags!ListingsAssumption, ListsInv, [Tags!Next]_(Tags!vars) PROVE ListsInv'
<1>1. /\ ListsType /\ \A c \in Tags!Callers : Gathered(c)
      /\ listing = None => unlisted
      /\ complete /\ listing # Absent => Told(listing, cut, unlisted)
      /\ \A v \in Verifiers : lists[v] = "done" => Told(payload[v], cut, unlisted)
  BY DEF ListsInv
<1>2. CASE UNCHANGED Tags!vars
  BY <1>1, <1>2 DEF Tags!vars, ListsInv, ListsType, Gathered
<1>3. ASSUME NEW c \in Tags!Callers, Tags!CachedIfUsable(c)
      PROVE  /\ listing \in Payloads
             /\ c \in Verifiers => Told(listing, cut, unlisted)
  BY <1>1, <1>3, PagesArePublished DEF Tags!CachedIfUsable, Tags!StopWhen, ListsType, Told
<1>4. ASSUME NEW c \in Tags!Callers, Tags!FromCache(c) PROVE ListsInv'
  BY <1>1, <1>3, <1>4, PayloadIsGiven DEF Tags!FromCache, ListsType
<1>5. ASSUME NEW c \in Tags!Callers, Tags!Lock(c) PROVE ListsInv'
  <2>1. Gathered(c)'
    BY <1>1, <1>5 DEF Tags!Lock, Tags!To, Gathered, ListsType
  <2> QED BY <1>1, <1>5, <2>1, ListsGoOn DEF Tags!Lock, Tags!To, ListsType
<1>6. ASSUME NEW c \in Tags!Callers, Tags!LookAgain(c) PROVE ListsInv'
  <2>1. CASE Tags!CachedIfUsable(c)
    BY <1>1, <1>3, <1>6, <2>1, PayloadIsGiven DEF Tags!LookAgain, ListsType
  <2>2. CASE ~Tags!CachedIfUsable(c)
    <3>1. Gathered(c)'
      BY <1>1, <1>6, <2>2 DEF Tags!LookAgain, Tags!To, Gathered, ListsType
    <3> QED BY <1>1, <1>6, <2>2, <3>1, ListsGoOn DEF Tags!LookAgain, Tags!To, ListsType
  <2> QED BY <2>1, <2>2
<1>7. ASSUME NEW c \in Tags!Callers, NEW next \in BOOLEAN, Tags!Cached(c, None, next),
             unlisted', UNCHANGED <<tags, page, cut>>
      PROVE  ListsInv'
  <2>1. None \in Payloads /\ Told(None, cut', unlisted')
    BY <1>7, PagesArePublished DEF Payloads, Told
  <2>2. /\ Tags!Give(c, None) /\ listing' = None /\ complete' = Tags!Complete(c, next)
    BY <1>7 DEF Tags!Cached
  <2>3. complete' \in BOOLEAN
    BY <2>2 DEF Tags!Complete
  <2>4. cut' \in BOOLEAN /\ unlisted' \in BOOLEAN
    BY <1>1, <1>7 DEF ListsType
  <2> QED BY <1>7, <2>1, <2>2, <2>3, <2>4, PayloadIsGiven
<1>8. ASSUME NEW c \in Tags!Callers, lists[c] = "paging", NEW next \in BOOLEAN,
             Tags!Cached(c, tags[c], next), cut' \in BOOLEAN, cut => cut',
             ~next => ~Tags!HasNext(page[c]), c \in Verifiers /\ next => cut',
             UNCHANGED <<tags, page, unlisted>>
      PROVE  ListsInv'
  <2>1. tags[c] \in Payloads /\ tags[c] \notin {None, Absent}
    BY <1>1, PagesArePublished DEF ListsType, Payloads
  <2>2. ASSUME ~next PROVE Tags!Published \subseteq tags[c]
    <3>1. page[c] \in 0..Len(Pages) /\ ~(page[c] < Len(Pages))
      BY <1>1, <1>8, <2>2 DEF ListsType, Tags!HasNext
    <3>2. page[c] = Len(Pages)
      BY <3>1, PagesArePublished
    <3> QED BY <1>1, <1>8, <3>2, PagesArePublished DEF Gathered
  <2>3. /\ Tags!Give(c, tags[c]) /\ listing' = tags[c] /\ complete' = Tags!Complete(c, next)
    BY <1>8 DEF Tags!Cached
  <2>4. complete' => Told(tags[c], cut', unlisted')
    BY <1>8, <2>1, <2>2, <2>3 DEF Tags!Complete, Told
  <2>5. c \in Verifiers => Told(tags[c], cut', unlisted')
    BY <2>3, <2>4 DEF Tags!Complete
  <2>6. unlisted' \in BOOLEAN /\ complete' \in BOOLEAN
    BY <1>1, <1>8, <2>3 DEF ListsType, Tags!Complete
  <2> QED BY <1>8, <2>1, <2>3, <2>4, <2>5, <2>6, PayloadIsGiven
<1>9. ASSUME NEW c \in Tags!Callers, lists[c] \in {"first", "paging"},
             NEW n \in 1..Len(Pages), n = 1 \/ (n = page[c] + 1 /\ lists[c] = "paging"),
             tags'[c] = IF n = 1 THEN Pages[1] ELSE tags[c] \cup Pages[n],
             tags' = [tags EXCEPT ![c] = tags'[c]], page' = [page EXCEPT ![c] = n],
             lists' = [lists EXCEPT ![c] = "paging"],
             UNCHANGED <<listing, complete, payload, cut, unlisted>>
      PROVE  ListsInv'
  <2>1. tags[c] \in SUBSET Tags!Published /\ page[c] \in 0..Len(Pages) /\ page'[c] = n
    BY <1>1, <1>9 DEF ListsType
  <2>2. /\ tags' \in [Tags!Callers -> SUBSET Tags!Published]
        /\ \A d \in Tags!Callers \ {c} : tags'[d] = tags[d]
    BY <1>1, <1>9, <2>1, PagesArePublished DEF ListsType
  <2>3. /\ page' \in [Tags!Callers -> 0..Len(Pages)]
        /\ \A d \in Tags!Callers \ {c} : page'[d] = page[d]
    BY <1>1, <1>9, PagesArePublished DEF ListsType
  <2>4. \A i \in 1..n : Pages[i] \subseteq tags'[c]
    BY <1>1, <1>9, <2>1, PagesArePublished DEF Gathered
  <2>5. Gathered(c)'
    BY <2>1, <2>4, <1>9, PagesArePublished DEF Gathered
  <2> QED BY <1>9, <2>2, <2>3, <2>5, ListsGoOn
<1>10. ASSUME NEW c \in Tags!Callers, Tags!First(c) PROVE ListsInv'
  <2>1. CASE Tags!Cached(c, None, FALSE) /\ unlisted' = TRUE /\ UNCHANGED <<tags, page>>
    BY <1>7, <1>10, <2>1 DEF Tags!First
  <2>2. CASE /\ tags' = [tags EXCEPT ![c] = Pages[1]] /\ page' = [page EXCEPT ![c] = 1]
             /\ Tags!To(c, "paging")
             /\ UNCHANGED <<listing, complete, lister, payload, unlisted>>
    <3>1. tags'[c] = Pages[1]
      BY <1>1, <2>2 DEF ListsType
    <3>2. 1 \in 1..Len(Pages)
      BY PagesArePublished
    <3> QED BY <1>9, <1>10, <2>2, <3>1, <3>2 DEF Tags!First, Tags!To
  <2> QED BY <1>10, <2>1, <2>2 DEF Tags!First
<1>11. ASSUME NEW c \in Tags!Callers, Tags!NextPage(c) PROVE ListsInv'
  <2> DEFINE n == page[c] + 1
  <2>1. /\ page[c] \in 0..Len(Pages) /\ page[c] > 0 /\ lists[c] = "paging"
        /\ page[c] < Len(Pages)
    BY <1>1, <1>11 DEF Tags!NextPage, Tags!HasNext, ListsType, Gathered
  <2>2. n \in 1..Len(Pages) /\ n # 1
    BY <2>1, PagesArePublished
  <2>3. CASE /\ tags' = [tags EXCEPT ![c] = @ \cup Pages[page[c] + 1]]
             /\ page' = [page EXCEPT ![c] = @ + 1]
             /\ UNCHANGED <<listing, complete, lister, lists, payload, cut, unlisted>>
    <3>1. tags'[c] = tags[c] \cup Pages[n] /\ tags' = [tags EXCEPT ![c] = tags'[c]]
      BY <1>1, <2>3 DEF ListsType
    <3>2. page' = [page EXCEPT ![c] = n]
      BY <1>1, <2>3 DEF ListsType
    <3>3. lists' = [lists EXCEPT ![c] = "paging"]
      BY <1>1, <2>1, <2>3 DEF ListsType
    <3> HIDE DEF n
    <3>4. n = page[c] + 1
      BY DEF n
    <3> QED BY <1>9, <2>1, <2>2, <2>3, <3>1, <3>2, <3>3, <3>4
  <2>4. CASE Tags!Cached(c, tags[c], TRUE) /\ cut' = TRUE /\ UNCHANGED <<tags, page, unlisted>>
    BY <1>8, <2>1, <2>4
  <2>5. CASE Tags!Cached(c, None, FALSE) /\ unlisted' = TRUE /\ UNCHANGED <<tags, page, cut>>
    BY <1>7, <2>5
  <2> QED BY <1>11, <2>3, <2>4, <2>5 DEF Tags!NextPage
<1>12. ASSUME NEW c \in Tags!Callers, Tags!LastPage(c) PROVE ListsInv'
  <2> DEFINE next == Tags!HasNext(page[c])
  <2>1. /\ lists[c] = "paging" /\ Tags!Cached(c, tags[c], next)
        /\ cut' = (cut \/ (next /\ ~Tags!StopWhen(c, tags[c])))
        /\ UNCHANGED <<tags, page, unlisted>>
    BY <1>12 DEF Tags!LastPage
  <2>2. next \in BOOLEAN /\ cut' \in BOOLEAN /\ (cut => cut')
    BY <1>1, <2>1 DEF Tags!HasNext, ListsType
  <2>3. c \in Verifiers => ~Tags!StopWhen(c, tags[c])
    BY PagesArePublished DEF Tags!StopWhen
  <2> HIDE DEF next
  <2>4. ~next => ~Tags!HasNext(page[c])
    BY DEF next
  <2> QED BY <1>8, <2>1, <2>2, <2>3, <2>4
<1> QED BY <1>2, <1>4, <1>5, <1>6, <1>10, <1>11, <1>12 DEF Tags!Next, Tags!Step

LEMMA DenialsAreTrue ==
  ASSUME Tags!ListingsAssumption, ListsInv PROVE Tags!DeniedIfAbsent
<1> SUFFICES ASSUME NEW v \in Verifiers, lists[v] = "done"
             PROVE  /\ Tags!TagExists(v) = "no" /\ ~cut => Asked[v] \notin Tags!Published
                    /\ Tags!TagExists(v) = "unknown" => unlisted
  BY DEF Tags!DeniedIfAbsent, Tags!Ended
<1>1. Told(payload[v], cut, unlisted)
  BY DEF ListsInv
<1> QED BY <1>1 DEF Tags!TagExists, Told
-----------------------------------------------------------------------------
(***************************************************************************)
(* The check of a tag.  The future that is waited for is of one who asks,  *)
(* is pending while that one asks, and is then its answer or its end; the  *)
(* property alone does not say what a joiner will be told.                 *)
(***************************************************************************)
Words == {exists, "unknown"}
Asking == {"asking", "storing"}
Checked(a) ==
  /\ checks[a] \in Asking <=> owner = a
  /\ checks[a] \in Asking => shared[a] = "pending"
  /\ checks[a] = "storing" => told[a] \in Words
  /\ checks[a] = "joined" => joined[a] \in Checkers /\ shared[joined[a]] # None
ChecksInv ==
  /\ exists \in {"yes", "no"} /\ cached \in {None, exists} /\ owner \in Checkers \cup {None}
  /\ shared \in [Checkers -> Words \cup {None, "pending", "raised"}]
  /\ checks \in [Checkers -> Asking \cup {"start", "looked", "joined", "done", "raised", "cancelled"}]
  /\ joined \in [Checkers -> Checkers \cup {None}]
  /\ told \in [Checkers -> Words \cup {None}]
  /\ \A a \in Checkers : Checked(a)

LEMMA ChecksStart == ASSUME Exists!TagChecksAssumption, Exists!Init PROVE ChecksInv
BY DEF Exists!TagChecksAssumption, Exists!Init, ChecksInv, Checked, Words, Asking

LEMMA ChecksStay ==
  ASSUME Exists!TagChecksAssumption, ChecksInv, [Exists!Next]_(Exists!vars) PROVE ChecksInv'
<1> USE DEF Words, Asking
<1>1. /\ exists \in {"yes", "no"} /\ cached \in {None, exists} /\ owner \in Checkers \cup {None}
      /\ shared \in [Checkers -> Words \cup {None, "pending", "raised"}]
      /\ checks \in [Checkers -> Asking \cup {"start", "looked", "joined", "done", "raised", "cancelled"}]
      /\ joined \in [Checkers -> Checkers \cup {None}]
      /\ told \in [Checkers -> Words \cup {None}]
      /\ \A a \in Checkers : Checked(a)
  BY DEF ChecksInv
<1>2. None \notin Checkers \cup {"yes", "no", "unknown", "pending", "raised"}
  BY DEF Exists!TagChecksAssumption
<1>3. CASE UNCHANGED Exists!vars
  BY <1>1, <1>3 DEF Exists!vars, ChecksInv, Checked
<1>4. ASSUME NEW a \in Checkers, Exists!LookUp(a) PROVE ChecksInv'
  BY <1>1, <1>2, <1>4 DEF Exists!LookUp, Exists!Return, Exists!To, ChecksInv, Checked
<1>5. ASSUME NEW a \in Checkers, Exists!AskOrJoin(a) PROVE ChecksInv'
  BY <1>1, <1>2, <1>5 DEF Exists!AskOrJoin, Exists!To, ChecksInv, Checked
<1>6. ASSUME NEW a \in Checkers, Exists!Check(a) PROVE ChecksInv'
  BY <1>1, <1>2, <1>6 DEF Exists!Check, Exists!Answers, Exists!Definite, Exists!To, ChecksInv, Checked
<1>7. ASSUME NEW a \in Checkers, Exists!Stored(a) PROVE ChecksInv'
  BY <1>1, <1>2, <1>7 DEF Exists!Stored, Exists!Settle, Exists!To, ChecksInv, Checked
<1>8. ASSUME NEW a \in Checkers, Exists!Raise(a) PROVE ChecksInv'
  BY <1>1, <1>2, <1>8 DEF Exists!Raise, Exists!Settle, Exists!To, ChecksInv, Checked
<1>9. ASSUME NEW a \in Checkers, Exists!LeaveJoined(a) \/ Exists!Join(a) PROVE ChecksInv'
  BY <1>1, <1>2, <1>9 DEF Exists!LeaveJoined, Exists!Join, Exists!Return, Exists!To, ChecksInv, Checked
<1> QED BY <1>3, <1>4, <1>5, <1>6, <1>7, <1>8, <1>9 DEF Exists!Next, Exists!Step

LEMMA SilenceIsNoAnswer ==
  ASSUME Exists!TagChecksAssumption, ChecksInv PROVE Exists!SilenceDeniesNothing
<1> DEFINE S == {a \in Checkers : checks[a] \in Asking}
<1>1. Exists!Cardinality(S) = Cardinality(S)
  BY DEF Exists!Cardinality, Cardinality
<1>2. S \subseteq {owner}
  BY DEF ChecksInv, Checked
<1>3. IsFiniteSet({owner}) /\ Cardinality({owner}) = 1
  BY FS_Singleton
<1>4. Cardinality(S) <= 1
  BY <1>2, <1>3, FS_Subset
<1>5. \A a \in Checkers : told[a] = "no" => exists = "no"
  BY DEF ChecksInv, Words, Exists!TagChecksAssumption
<1> QED BY <1>1, <1>4, <1>5 DEF ChecksInv, Exists!SilenceDeniesNothing, Asking

-----------------------------------------------------------------------------
(***************************************************************************)
(* The hardened catalogue.  Whoever loads has the lock and there is no     *)
(* index; in the first run nothing is stored before it was loaded, which   *)
(* is why a truncated listing is not yet read back as a whole one.         *)
(***************************************************************************)
CatalogueInv ==
  /\ head \in Hardened!Revisions /\ holds \in [Hardened!Revisions -> SUBSET Images]
  /\ session \in Nat /\ session > 0
  /\ seeks \in [Seekers -> {"start", "waiting", "loading", "reading", "done"}]
  /\ \A s \in Seekers : seeks[s] = "loading" => loader = s /\ index = None
  /\ session = 1 /\ index = None => kept = None
  /\ Hardened!FreshIndexIsHonest

LEMMA CatalogueStarts == ASSUME Hardened!CatalogueAssumption, Hardened!Init PROVE CatalogueInv
<1>1. 0 \in Hardened!Revisions
  BY DEF Hardened!CatalogueAssumption, Hardened!Revisions
<1> QED BY <1>1 DEF Hardened!Init, CatalogueInv, Hardened!FreshIndexIsHonest

LEMMA CatalogueStays ==
  ASSUME Hardened!CatalogueAssumption, CatalogueInv, [Hardened!Next]_(Hardened!vars)
  PROVE  CatalogueInv'
<1> USE DEF CatalogueInv, Hardened!FreshIndexIsHonest
<1>1. /\ None \notin Seekers /\ None \notin SUBSET Images /\ None \notin Hardened!Revisions
      /\ \A r \in Hardened!Revisions : r + 1 <= MaxCommits => r + 1 \in Hardened!Revisions
      /\ \A r \in Hardened!Revisions : r < MaxCommits => r + 1 <= MaxCommits
  BY DEF Hardened!CatalogueAssumption, Hardened!Revisions
<1>2. CASE UNCHANGED Hardened!vars
  BY <1>2 DEF Hardened!vars, Hardened!memory
<1>3. CASE Hardened!Commit
  BY <1>1, <1>3 DEF Hardened!Commit, Hardened!memory
<1>4. CASE Hardened!NextRun
  BY <1>4 DEF Hardened!NextRun
<1>5. ASSUME NEW s \in Seekers, Hardened!Ask(s) \/ Hardened!Lock(s) \/ Hardened!Definition(s)
      PROVE  CatalogueInv'
  BY <1>1, <1>5 DEF Hardened!Ask, Hardened!Lock, Hardened!Definition, Hardened!Seek, Hardened!To,
     Hardened!memory
<1>6. ASSUME NEW s \in Seekers, Hardened!Load(s) PROVE CatalogueInv'
  <2>1. /\ seeks[s] = "loading" /\ loader = s /\ index = None
        /\ UNCHANGED <<head, holds, session>>
    BY <1>6 DEF Hardened!Load
  <2>2. PICK known, st, rev : Hardened!Loaded(s, known, st, rev)
    BY <1>6 DEF Hardened!Load
  <2>3. \A t \in Seekers \ {s} : seeks[t] # "loading"
    BY <2>1
  <2>4. seeks' \in [Seekers -> {"start", "waiting", "loading", "reading", "done"}]
        /\ \A t \in Seekers : seeks'[t] # "loading"
    BY <2>2, <2>3 DEF Hardened!Loaded, Hardened!Seek, Hardened!To
  <2>5. CASE kept # None
    <3>1. session # 1
      BY <2>1, <2>5
    <3> QED BY <1>6, <2>1, <2>4, <2>5, <3>1 DEF Hardened!Load, Hardened!Loaded
  <2>6. CASE kept = None
    <3>1. CASE Hardened!Loaded(s, {}, Hardened!Unreadable, revision)
      BY <2>1, <2>4, <3>1, <1>1 DEF Hardened!Loaded, Hardened!Unreadable
    <3>2. ASSUME NEW k \in SUBSET holds[head],
                 Hardened!Loaded(s, k, Hardened!StateOf(k # holds[head]), head)
          PROVE  CatalogueInv'
      <4>1. /\ index' = k /\ loaded' = Hardened!StateOf(k # holds[head]) /\ revision' = head
            /\ k # None /\ head # None
        BY <1>1, <3>2 DEF Hardened!Loaded
      <4>2. Hardened!FreshIndexIsHonest'
        BY <2>1, <4>1 DEF Hardened!StateOf
      <4> QED BY <2>1, <2>4, <4>1, <4>2
    <3> QED BY <1>6, <2>6, <3>1, <3>2 DEF Hardened!Load
  <2> QED BY <2>5, <2>6
<1> QED BY <1>2, <1>3, <1>4, <1>5, <1>6 DEF Hardened!Next, Hardened!Step
-----------------------------------------------------------------------------
(***************************************************************************)
(* Threat intelligence.  A catalogue is available if and only if it was    *)
(* listed; what was said of one that keeps its failures is what it says    *)
(* now, and a load is never followed by another.                           *)
(***************************************************************************)
Loadings == [Catalogues -> {"none", "listed", "empty"}]
Saying(k, a) ==
  /\ says[k][a] = "answers" => memo[k] = "listed"
  /\ k \notin Forgetful /\ says[k][a] # "unasked" =>
       memo[k] # "none" /\ says[k][a] = Threats!Answer(k)
IntelInv ==
  /\ memo \in Loadings /\ available \in [Catalogues -> {"none", "yes", "no"}]
  /\ says \in [Catalogues -> [Enrichments -> {"unasked", "answers", "unknown"}]]
  /\ \A k \in Catalogues : available[k] = "yes" <=> memo[k] = "listed"
  /\ \A k \in Catalogues, a \in Enrichments : Saying(k, a)
  /\ stored = [lists |-> stored.lists, found |-> stored.found, absent |-> stored.absent]
  /\ \A c \in Findings : status[c] = "ABSENT" => c \notin Scored
  /\ \A c \in stored.absent : c \notin Scored
  /\ scores \cup stored.found \subseteq Scored

LEMMA IntelStarts == ASSUME Threats!Init PROVE IntelInv
BY DEF Threats!Init, IntelInv, Loadings, Saying

LEMMA IntelStays == ASSUME IntelInv, [Threats!Next]_(Threats!vars) PROVE IntelInv'
<1>1. CASE UNCHANGED <<memo, available, says, stored, status, scores>>
  BY <1>1 DEF IntelInv, Saying, Threats!Answer
<1>2. UNCHANGED Threats!vars => UNCHANGED <<memo, available, says, stored, status, scores>>
  BY DEF Threats!vars, Threats!catVars, Threats!epssVars
<1>3. ASSUME NEW a \in Enrichments, Threats!TimeOut(a) \/ Threats!Join(a) \/ Threats!Finish(a)
      PROVE  UNCHANGED <<memo, available, says, stored, status, scores>>
  BY <1>3 DEF Threats!TimeOut, Threats!Join, Threats!Finish, Threats!catVars, Threats!epssVars
<1>4. ASSUME NEW a \in Enrichments, NEW k \in Catalogues, Threats!Lock(k, a)
      PROVE  UNCHANGED <<memo, available, says, stored, status, scores>>
  BY <1>4 DEF Threats!Lock, Threats!epssVars
<1>5. ASSUME NEW a \in Enrichments, NEW k \in Catalogues, Threats!ReadMemo(k, a) PROVE IntelInv'
  <2>1. /\ memo[k] # "none" /\ says' = [says EXCEPT ![k][a] = Threats!Answer(k)]
        /\ UNCHANGED <<memo, available, stored, status, scores>>
    BY <1>5 DEF Threats!ReadMemo, Threats!epssVars
  <2>2. Threats!Answer(k) \in {"answers", "unknown"}
    BY DEF Threats!Answer
  <2> QED BY <2>1, <2>2 DEF IntelInv, Saying, Threats!Answer
<1>6. ASSUME NEW a \in Enrichments, NEW k \in Catalogues, Threats!Load(k, a) PROVE IntelInv'
  <2>1. PICK outcome \in {"listed", "empty", "failed"} :
          /\ Threats!Loads(k, outcome)
          /\ stored' = IF outcome = "listed" THEN [stored EXCEPT !.lists = @ \cup {k}] ELSE stored
    BY <1>6 DEF Threats!Load
  <2>2. /\ memo[k] = "none" /\ UNCHANGED <<status, scores>>
        /\ says' = [says EXCEPT ![k][a] = IF available'[k] = "yes" THEN "answers" ELSE "unknown"]
    BY <1>6 DEF Threats!Load, Threats!epssVars
  <2>3. /\ stored' = [lists |-> stored'.lists, found |-> stored'.found, absent |-> stored'.absent]
        /\ stored'.found = stored.found /\ stored'.absent = stored.absent
    BY <2>1 DEF IntelInv
  <2>4. /\ memo' \in Loadings /\ available' \in [Catalogues -> {"none", "yes", "no"}]
        /\ \A l \in Catalogues \ {k} : memo'[l] = memo[l] /\ available'[l] = available[l]
        /\ available'[k] = "yes" <=> memo'[k] = "listed"
        /\ k \notin Forgetful => memo'[k] # "none"
    BY <2>1, <2>2 DEF Threats!Loads, IntelInv, Loadings
  <2>5. says' \in [Catalogues -> [Enrichments -> {"unasked", "answers", "unknown"}]]
    BY <2>2 DEF IntelInv
  <2>6. \A l \in Catalogues, b \in Enrichments : Saying(l, b)'
    <3> SUFFICES ASSUME NEW l \in Catalogues, NEW b \in Enrichments PROVE Saying(l, b)'
      OBVIOUS
    <3>1. CASE l # k
      BY <2>2, <2>4, <3>1 DEF IntelInv, Saying, Threats!Answer
    <3>2. CASE l = k /\ b # a
      BY <2>2, <2>4, <3>2 DEF IntelInv, Saying, Threats!Answer
    <3>3. CASE l = k /\ b = a
      BY <2>2, <2>4, <3>3 DEF IntelInv, Saying, Threats!Answer
    <3> QED BY <3>1, <3>2, <3>3
  <2> QED BY <2>2, <2>3, <2>4, <2>5, <2>6 DEF IntelInv
<1>7. ASSUME NEW a \in Enrichments, Threats!Ask(a) PROVE IntelInv'
  <2>1. UNCHANGED <<memo, available, says, stored>>
    BY <1>7 DEF Threats!Ask, Threats!catVars
  <2>2. PICK known \in SUBSET (scores \cup stored.found), absent \in SUBSET stored.absent :
          /\ scores' = scores \cup known
          /\ status' = [c \in Findings |-> IF c \in known \ scores THEN "FOUND"
                                           ELSE IF c \in absent THEN "ABSENT" ELSE status[c]]
    BY <1>7 DEF Threats!Ask
  <2> QED BY <2>1, <2>2 DEF IntelInv, Saying, Threats!Answer
<1>8. ASSUME NEW a \in Enrichments, Threats!Fetch(a) PROVE IntelInv'
  <2>1. UNCHANGED <<memo, available, says>>
    BY <1>8 DEF Threats!Fetch, Threats!catVars
  <2> DEFINE batch == Threats!Owned(a)
  <2>2. PICK outcome \in {"answered", "RATE_LIMITED", "NETWORK_ERROR", "UNAVAILABLE",
                          "INVALID_RESPONSE"}, hits \in SUBSET (batch \cap Scored) :
          LET absent == Threats!Absences(outcome, batch, hits) IN
          /\ hits # {} => hits = batch \cap Scored
          /\ scores' = scores \cup hits
          /\ stored' = [stored EXCEPT !.found = @ \cup hits, !.absent = @ \cup absent]
          /\ status' = [c \in Findings |->
               IF c \notin batch THEN status[c]
               ELSE IF c \in hits THEN "FOUND"
               ELSE IF c \in absent THEN "ABSENT"
               ELSE IF outcome = "answered" THEN "INVALID_RESPONSE" ELSE outcome]
    <3>1. PICK outcome \in {"answered", "RATE_LIMITED", "NETWORK_ERROR", "UNAVAILABLE",
                            "INVALID_RESPONSE"}, garbage \in BOOLEAN :
            LET hits   == IF outcome = "answered" /\ ~garbage THEN batch \cap Scored ELSE {}
                absent == Threats!Absences(outcome, batch, hits)
            IN
            /\ scores' = scores \cup hits
            /\ stored' = [stored EXCEPT !.found = @ \cup hits, !.absent = @ \cup absent]
            /\ status' = [c \in Findings |->
                 IF c \notin batch THEN status[c]
                 ELSE IF c \in hits THEN "FOUND"
                 ELSE IF c \in absent THEN "ABSENT"
                 ELSE IF outcome = "answered" THEN "INVALID_RESPONSE" ELSE outcome]
      BY <1>8 DEF Threats!Fetch
    <3> HIDE DEF batch
    <3> QED BY <3>1
  <2> DEFINE absent == Threats!Absences(outcome, batch, hits)
  <2>3. \A c \in absent : c \notin Scored
    BY <2>2 DEF Threats!Absences
  <2> HIDE DEF absent, batch
  <2>4. /\ stored' = [lists |-> stored.lists, found |-> stored.found \cup hits,
                      absent |-> stored.absent \cup absent]
        /\ scores' = scores \cup hits /\ hits \subseteq Scored
    BY <2>2 DEF IntelInv, absent
  <2>5. \A c \in Findings : status'[c] = "ABSENT" => c \notin Scored
    BY <2>2, <2>3 DEF IntelInv, absent
  <2>6. \A c \in stored'.absent : c \notin Scored
    BY <2>3, <2>4 DEF IntelInv
  <2> QED BY <2>1, <2>4, <2>5, <2>6 DEF IntelInv, Saying, Threats!Answer
<1> QED BY <1>1, <1>2, <1>3, <1>4, <1>5, <1>6, <1>7, <1>8 DEF Threats!Next, Threats!Lookup

LEMMA NegativesAreAnswered ==
  ASSUME IntelInv PROVE Threats!NegativeIsAnswered /\ Threats!OneAnswerPerRun
BY DEF IntelInv, Saying, Threats!NegativeIsAnswered, Threats!OneAnswerPerRun
-----------------------------------------------------------------------------
(***************************************************************************)
(* The identities of a tag.  Whoever resolves has the lock of its platform *)
(* and there is no identity yet; whatever is remembered, in the run or for *)
(* the next ones, is true of what the tag has pointed at; and what was     *)
(* read under the digest of an image is the config of that image.  The     *)
(* property does not say who may still write, nor what inspection was      *)
(* given earlier, which is what it stores for later runs.                  *)
(***************************************************************************)
Within == {"head", "manifest", "config"}
Pairs == (DOMAIN Body) \X Identity!Platforms
MaybeIdentity == Identity!Identities \cup {None}

IdentityType ==
  /\ pointsAt \in Tops /\ pointsAt \in pointed
  /\ identities \in [Identity!Platforms -> MaybeIdentity]
  /\ inside \in [Identity!Platforms -> Candidates \cup {None}]
  /\ mappings \in [Pairs -> MaybeIdentity]
  /\ resolved = [k \in ((DOMAIN Body) \cup {"tag"}) \X Identity!Platforms |-> resolved[k]]
  /\ facts = [k \in Pairs |-> facts[k]]
  /\ inspects \in [Candidates -> Within \cup {"start", "inspect", "reading", "done"}]
  /\ top \in [Candidates -> Tops \cup {None}]
  /\ identity \in [Candidates -> MaybeIdentity]

Resolving(a) ==
  /\ inspects[a] \in Within => inside[Platform[a]] = a /\ identities[Platform[a]] = None
  /\ inspects[a] \in {"manifest", "config"} => top[a] \in Tops /\ top[a] \in pointed
  /\ inspects[a] = "config" => Body[top[a]].kind = "image"
Given(a) ==
  /\ identity[a] # None => identities[Platform[a]] = identity[a]
  /\ inspects[a] \in {"inspect", "reading"} => identity[a] # None

\* Identity!Means(i, p), of a set of digests, and that the manifest is an image.
Holds(S, i, p) ==
  /\ i.manifest \in DOMAIN Body /\ Body[i.manifest].kind = "image"
  /\ IF i.index = None THEN i.manifest \in S
     ELSE i.index \in S /\ \E e \in Body[i.index].entries : e.digest = i.manifest
  /\ Identity!Satisfies(p, Body[i.manifest])
  /\ i.index # None =>
       \A e \in Identity!Matching(Body[i.index], p) :
         e.digest # i.manifest => Body[i.manifest].variant \in {"", Default[p.arch]}
Remembered ==
  /\ \A p \in Identity!Platforms :
       identities[p] # None /\ Identity!Confirmed(identities[p]) => Holds(pointed, identities[p], p)
  /\ \A d \in DOMAIN Body, p \in Identity!Platforms :
       mappings[<<d, p>>] # None =>
         Holds(pointed, mappings[<<d, p>>], p) /\ d \in {mappings[<<d, p>>].index, mappings[<<d, p>>].manifest}
ConfigIs(d, config) == config[1] \in {None, d}
Configs ==
  \A d \in DOMAIN Body, p \in Identity!Platforms :
    Body[d].kind = "image" /\ resolved[<<d, p>>] # None => ConfigIs(d, resolved[<<d, p>>])

IdentityInv ==
  /\ IdentityType /\ \A a \in Candidates : Resolving(a) /\ Given(a)
  /\ Remembered /\ Configs /\ Identity!StoredFactsAreOfThePlatform

LEMMA PlatformOf == ASSUME NEW a \in Candidates PROVE Platform[a] \in Identity!Platforms
BY DEF Identity!Platforms

\* The entry that SelectPlatform takes is of the platform, and unambiguous.
LEMMA Selected ==
  ASSUME Identity!RegistryAssumption, NEW d \in DOMAIN Body, Body[d].kind = "index",
         NEW p, NEW m, m = Identity!SelectPlatform(Body[d], p), m # None
  PROVE  /\ m \in DOMAIN Body /\ Body[m].kind = "image" /\ Identity!Satisfies(p, Body[m])
         /\ \E e \in Body[d].entries : e.digest = m
         /\ \A e \in Identity!Matching(Body[d], p) :
              e.digest # m => Body[m].variant \in {"", Default[p.arch]}
<1> DEFINE Match == Identity!Matching(Body[d], p)
           Preferred == Identity!Preferred(Body[d], p)
<1>1. IsFiniteSet(Body[d].entries)
  <2>1. Identity!IsFiniteSet(Body[d].entries)
    BY DEF Identity!RegistryAssumption
  <2> QED BY <2>1 DEF Identity!IsFiniteSet, IsFiniteSet
<1>2. Match \subseteq Body[d].entries /\ Preferred \subseteq Match
  BY DEF Identity!Matching, Identity!Preferred
<1>3. IsFiniteSet(Match) /\ IsFiniteSet(Preferred)
  BY <1>1, <1>2, FS_Subset
<1>4. \A S : Identity!Cardinality(S) = Cardinality(S)
  BY DEF Identity!Cardinality, Cardinality
<1>5. ASSUME NEW S, IsFiniteSet(S), Identity!Cardinality(S) = 1
      PROVE  (CHOOSE e \in S : TRUE) \in S /\ \A e \in S : e = CHOOSE f \in S : TRUE
  BY <1>4, <1>5, FS_Singleton
<1>6. ASSUME NEW e \in Match
      PROVE  /\ e.digest \in DOMAIN Body /\ Body[e.digest].kind = "image"
             /\ Body[e.digest].variant = e.variant
             /\ Identity!Satisfies(p, Body[e.digest]) /\ e \in Body[d].entries
  BY <1>2 DEF Identity!RegistryAssumption, Identity!Matching, Identity!Satisfies
<1>7. CASE Identity!Cardinality(Match) = 1
  <2>1. m = (CHOOSE e \in Match : TRUE).digest
    BY <1>7 DEF Identity!SelectPlatform
  <2> HIDE DEF Match
  <2>2. (CHOOSE e \in Match : TRUE) \in Match /\ \A e \in Match : e.digest = m
    BY <1>3, <1>5, <1>7, <2>1
  <2>3. /\ m \in DOMAIN Body /\ Body[m].kind = "image" /\ Identity!Satisfies(p, Body[m])
        /\ \E e \in Body[d].entries : e.digest = m
    BY <1>6, <2>1, <2>2
  <2> QED BY <2>2, <2>3 DEF Match
<1>8. CASE Identity!Cardinality(Match) # 1
  <2>1. /\ Identity!Cardinality(Preferred) = 1 /\ m = (CHOOSE e \in Preferred : TRUE).digest
    BY <1>8 DEF Identity!SelectPlatform
  <2> HIDE DEF Preferred
  <2>2. PICK e \in Preferred : e.digest = m
    BY <1>3, <1>5, <2>1
  <2>3. e \in Match /\ e.variant \in {"", Default[p.arch]}
    BY <1>2, <2>2 DEF Preferred, Identity!Preferred
  <2> HIDE DEF Match
  <2> QED BY <1>6, <2>2, <2>3
<1> QED BY <1>7, <1>8

\* A tag that moves takes nothing back of what it pointed at.
LEMMA RememberedStays ==
  ASSUME Remembered, pointed \subseteq pointed', UNCHANGED <<identities, mappings>>
  PROVE  Remembered'
<1>1. \A i, p : Holds(pointed, i, p) => Holds(pointed', i, p)
  BY DEF Holds
<1> QED BY <1>1 DEF Remembered, Identity!Confirmed

LEMMA IndexHolds ==
  ASSUME Identity!RegistryAssumption, NEW d \in DOMAIN Body, Body[d].kind = "index",
         d \in pointed, NEW p
  PROVE  LET i == Identity!FromIndex(d, p) IN
           /\ i \in Identity!Identities /\ d \in {i.index, i.manifest}
           /\ Identity!Confirmed(i) => Holds(pointed, i, p)
<1> DEFINE m == Identity!SelectPlatform(Body[d], p)
<1>1. None \notin DOMAIN Body
  BY DEF Identity!RegistryAssumption
<1>2. CASE m = None
  BY <1>2 DEF Identity!FromIndex, Identity!Identity, Identity!Identities, Identity!Confirmed
<1>3. CASE m # None
  <2>1. Identity!FromIndex(d, p) = [status |-> "CONFIRMED", index |-> d, manifest |-> m]
    BY <1>3 DEF Identity!FromIndex, Identity!Identity
  <2>2. /\ m \in DOMAIN Body /\ Body[m].kind = "image" /\ Identity!Satisfies(p, Body[m])
        /\ \E e \in Body[d].entries : e.digest = m
        /\ \A e \in Identity!Matching(Body[d], p) :
             e.digest # m => Body[m].variant \in {"", Default[p.arch]}
    BY <1>3, Selected
  <2> HIDE DEF m
  <2> DEFINE i == Identity!FromIndex(d, p)
  <2>3. i.index = d /\ i.manifest = m /\ i \in Identity!Identities
    <3>1. m \in DOMAIN Body
      BY <2>2
    <3> QED BY ONLY <2>1, <3>1, d \in DOMAIN Body DEF Identity!Identities
  <2> HIDE DEF i
  <2>4. Holds(pointed, i, p)
    BY <1>1, <2>2, <2>3 DEF Holds
  <2>5. i \in Identity!Identities /\ d \in {i.index, i.manifest} /\ Holds(pointed, i, p)
    BY <2>3, <2>4
  <2> QED BY <2>5 DEF i
<1> QED BY <1>2, <1>3

LEMMA ManifestHolds ==
  ASSUME Identity!RegistryAssumption, NEW d \in DOMAIN Body, Body[d].kind = "image",
         d \in pointed, NEW p, NEW config \in {d, None}
  PROVE  LET i == Identity!FromManifest(d, p, config) IN
           /\ i \in Identity!Identities /\ d \in {i.index, i.manifest}
           /\ Identity!Confirmed(i) => Holds(pointed, i, p)
<1>1. None \notin DOMAIN Body
  BY DEF Identity!RegistryAssumption
<1> DEFINE i == Identity!FromManifest(d, p, config)
<1>2. /\ i.index = None /\ i.manifest = d /\ i \in Identity!Identities
      /\ i.status = "CONFIRMED" => Identity!Satisfies(p, Body[d])
  BY <1>1 DEF Identity!FromManifest, Identity!Identity, Identity!Identities
<1> HIDE DEF i
<1>3. i.status = "CONFIRMED" => Holds(pointed, i, p)
  BY <1>2 DEF Holds
<1>4. i \in Identity!Identities /\ d \in {i.index, i.manifest}
      /\ (Identity!Confirmed(i) => Holds(pointed, i, p))
  BY <1>2, <1>3 DEF Identity!Confirmed
<1> QED BY <1>4 DEF i

LEMMA IdentityStarts == ASSUME Identity!RegistryAssumption, Identity!Init PROVE IdentityInv
<1> USE DEF Identity!Init, Identity!NoIdentity, Identity!NothingRead, Identity!OfNobody
<1>1. IdentityType
  BY DEF IdentityType, MaybeIdentity, Pairs, Within
<1>2. \A a \in Candidates : Resolving(a) /\ Given(a)
  BY DEF Resolving, Given, Within
<1>3. Remembered /\ Configs
  BY DEF Remembered, Configs, Identity!Platforms
<1>4. Identity!StoredFactsAreOfThePlatform
  BY DEF Identity!StoredFactsAreOfThePlatform
<1> QED BY <1>1, <1>2, <1>3, <1>4 DEF IdentityInv

\* What Conclude writes: the identity, for the run, and its mapping if it is sure.
LEMMA ConcludeKeeps ==
  ASSUME Identity!RegistryAssumption, IdentityInv, NEW a \in Candidates, inspects[a] \in Within,
         NEW i \in Identity!Identities, Identity!Conclude(a, i),
         Identity!Confirmed(i) => /\ Holds(pointed, i, Platform[a]) /\ top[a] \in DOMAIN Body
                                  /\ top[a] \in {i.index, i.manifest},
         resolved' = [k \in ((DOMAIN Body) \cup {"tag"}) \X Identity!Platforms |-> resolved'[k]],
         Configs', UNCHANGED <<pointsAt, pointed, facts, top>>
  PROVE  IdentityInv'
<1> DEFINE p == Platform[a]
<1>1. /\ identity' = [identity EXCEPT ![a] = i] /\ inspects' = [inspects EXCEPT ![a] = "inspect"]
      /\ identities' = [identities EXCEPT ![p] = i] /\ inside' = [inside EXCEPT ![p] = None]
      /\ mappings' = IF Identity!Confirmed(i) THEN [mappings EXCEPT ![<<top[a], p>>] = i]
                                              ELSE mappings
  BY DEF Identity!Conclude, Identity!To
<1>2. p \in Identity!Platforms /\ None \notin Candidates /\ None \notin Identity!Identities
  BY PlatformOf DEF Identity!RegistryAssumption
<1>3. /\ IdentityType /\ Remembered /\ Identity!StoredFactsAreOfThePlatform
      /\ \A b \in Candidates : Resolving(b) /\ Given(b)
  BY DEF IdentityInv
<1>4. inside[p] = a /\ identities[p] = None
  BY <1>3 DEF Resolving
<1>5. mappings' \in [Pairs -> MaybeIdentity]
  BY <1>1, <1>2, <1>3 DEF IdentityType, Pairs, MaybeIdentity
<1>6. /\ identities' \in [Identity!Platforms -> MaybeIdentity]
      /\ inside' \in [Identity!Platforms -> Candidates \cup {None}]
      /\ identity' \in [Candidates -> MaybeIdentity]
      /\ inspects' \in [Candidates -> Within \cup {"start", "inspect", "reading", "done"}]
  BY <1>1, <1>2, <1>3 DEF IdentityType, MaybeIdentity
<1>7. IdentityType'
  BY <1>3, <1>5, <1>6 DEF IdentityType
<1>8. \A q \in Identity!Platforms \ {p} : identities'[q] = identities[q] /\ inside'[q] = inside[q]
  BY <1>1, <1>3 DEF IdentityType
<1>9. identities'[p] = i /\ inside'[p] = None
  BY <1>1, <1>2, <1>3 DEF IdentityType
<1>10. ASSUME NEW b \in Candidates PROVE Resolving(b)' /\ Given(b)'
  <2>1. Platform[b] \in Identity!Platforms
    BY PlatformOf
  <2>2. Resolving(b) /\ Given(b)
    BY <1>3
  <2>3. CASE b = a
    BY <1>1, <1>2, <1>3, <1>9, <2>3 DEF Resolving, Given, Within, IdentityType
  <2>4. CASE b # a
    <3>1. inspects'[b] = inspects[b] /\ identity'[b] = identity[b]
      BY <1>1, <1>3, <2>4 DEF IdentityType
    <3>2. Platform[b] = p => inspects[b] \notin Within /\ identity[b] = None
      BY <1>4, <2>2, <2>4 DEF Resolving, Given
    <3> QED BY <1>8, <2>1, <2>2, <3>1, <3>2 DEF Resolving, Given, Within
  <2> QED BY <2>3, <2>4
<1>11. \A q \in Identity!Platforms :
         identities'[q] # None /\ Identity!Confirmed(identities'[q]) => Holds(pointed, identities'[q], q)
  BY <1>3, <1>8, <1>9 DEF Remembered
<1>12. ASSUME NEW d \in DOMAIN Body, NEW q \in Identity!Platforms, mappings'[<<d, q>>] # None
       PROVE  /\ Holds(pointed, mappings'[<<d, q>>], q)
              /\ d \in {mappings'[<<d, q>>].index, mappings'[<<d, q>>].manifest}
  <2>1. CASE mappings'[<<d, q>>] = mappings[<<d, q>>]
    BY <1>3, <1>12, <2>1 DEF Remembered
  <2>2. CASE mappings'[<<d, q>>] # mappings[<<d, q>>]
    <3>1. Identity!Confirmed(i) /\ <<d, q>> = <<top[a], p>> /\ mappings'[<<d, q>>] = i
      BY <1>1, <1>3, <2>2 DEF IdentityType, Pairs
    <3> QED BY <3>1
  <2> QED BY <2>1, <2>2
<1>13. Remembered'
  BY <1>11, <1>12 DEF Remembered, Identity!Confirmed
<1>14. Identity!StoredFactsAreOfThePlatform'
  BY <1>3 DEF Identity!StoredFactsAreOfThePlatform
<1> QED BY <1>7, <1>10, <1>13, <1>14 DEF IdentityInv

\* What is read under the digest of an image is its config, or nothing.
LEMMA ConfigsStay ==
  ASSUME IdentityInv, NEW k \in ((DOMAIN Body) \cup {"tag"}) \X Identity!Platforms, NEW config,
         \A d \in DOMAIN Body : Body[d].kind = "image" /\ k[1] = d => config \in {None, d},
         resolved' = [resolved EXCEPT ![k] = <<config>>]
  PROVE  /\ Configs'
         /\ resolved' = [l \in ((DOMAIN Body) \cup {"tag"}) \X Identity!Platforms |-> resolved'[l]]
<1>1. resolved = [l \in ((DOMAIN Body) \cup {"tag"}) \X Identity!Platforms |-> resolved[l]]
  BY DEF IdentityInv, IdentityType
<1>2. ASSUME NEW d \in DOMAIN Body, NEW p \in Identity!Platforms, Body[d].kind = "image",
             resolved'[<<d, p>>] # None
      PROVE  ConfigIs(d, resolved'[<<d, p>>])
  <2>1. CASE k = <<d, p>>
    BY <1>1, <1>2, <2>1 DEF ConfigIs
  <2>2. CASE k # <<d, p>>
    BY <1>1, <1>2, <2>2 DEF IdentityInv, Configs
  <2> QED BY <2>1, <2>2
<1> QED BY <1>1, <1>2 DEF Configs

LEMMA EnterKeeps ==
  ASSUME Identity!RegistryAssumption, IdentityInv, NEW a \in Candidates, Identity!Enter(a)
  PROVE  IdentityInv'
<1> DEFINE p == Platform[a]
<1>1. /\ IdentityType /\ Remembered /\ Configs /\ Identity!StoredFactsAreOfThePlatform
      /\ \A b \in Candidates : Resolving(b) /\ Given(b)
  BY DEF IdentityInv
<1>2. p \in Identity!Platforms /\ None \notin Candidates /\ inside[p] = None
      /\ inspects[a] = "start"
      /\ UNCHANGED <<pointsAt, pointed, identities, resolved, mappings, facts, top>>
  BY PlatformOf DEF Identity!RegistryAssumption, Identity!Enter, Identity!world
<1>3. Remembered' /\ Configs' /\ Identity!StoredFactsAreOfThePlatform'
  <2>1. Remembered'
    BY <1>1, <1>2, RememberedStays
  <2>2. Configs' /\ Identity!StoredFactsAreOfThePlatform'
    BY <1>1, <1>2 DEF Configs, Identity!StoredFactsAreOfThePlatform
  <2> QED BY <2>1, <2>2
<1>4. CASE identities[p] # None
  <2>1. /\ identity' = [identity EXCEPT ![a] = identities[p]]
        /\ inspects' = [inspects EXCEPT ![a] = "inspect"] /\ UNCHANGED inside
    BY <1>4 DEF Identity!Enter, Identity!To
  <2>2. IdentityType'
    BY <1>1, <1>2, <2>1 DEF IdentityType
  <2>3. \A b \in Candidates : Resolving(b)' /\ Given(b)'
    BY <1>1, <1>2, <1>4, <2>1 DEF Resolving, Given, IdentityType, Within
  <2> QED BY <1>3, <2>2, <2>3 DEF IdentityInv
<1>5. CASE identities[p] = None
  <2>1. /\ inside' = [inside EXCEPT ![p] = a]
        /\ inspects' = [inspects EXCEPT ![a] = "head"] /\ UNCHANGED identity
    BY <1>5 DEF Identity!Enter, Identity!To
  <2>2. IdentityType'
    BY <1>1, <1>2, <2>1 DEF IdentityType, Within
  <2>3. ASSUME NEW b \in Candidates PROVE Resolving(b)' /\ Given(b)'
    <3>1. CASE b = a
      BY <1>1, <1>2, <1>5, <2>1, <3>1 DEF Resolving, Given, IdentityType, Within
    <3>2. CASE b # a
      <4>1. Platform[b] \in Identity!Platforms /\ inspects'[b] = inspects[b]
        BY <1>1, <2>1, <3>2, PlatformOf DEF IdentityType
      <4>2. inspects[b] \in Within => Platform[b] # p
        BY <1>1, <1>2 DEF Resolving
      <4>3. Platform[b] # p => inside'[Platform[b]] = inside[Platform[b]]
        BY <1>1, <2>1, <4>1 DEF IdentityType
      <4> QED BY <1>1, <1>2, <2>1, <4>1, <4>2, <4>3 DEF Resolving, Given, Within
    <3> QED BY <3>1, <3>2
  <2> QED BY <1>3, <2>2, <2>3 DEF IdentityInv
<1> QED BY <1>4, <1>5

\* A step of one asker that touches nothing that the others rely on.
LEMMA AskerGoesOn ==
  ASSUME IdentityInv, NEW a \in Candidates,
         NEW s \in {"manifest", "config", "reading", "done"},
         inspects' = [inspects EXCEPT ![a] = s],
         s \in Within => inspects[a] \in Within, s = "reading" => inspects[a] = "inspect",
         s \in {"manifest", "config"} => top'[a] \in Tops /\ top'[a] \in pointed,
         s = "config" => Body[top'[a]].kind = "image",
         top' \in [Candidates -> Tops \cup {None}],
         \A b \in Candidates \ {a} : top'[b] = top[b],
         resolved' = [k \in ((DOMAIN Body) \cup {"tag"}) \X Identity!Platforms |-> resolved'[k]],
         facts' = [k \in Pairs |-> facts'[k]], Configs', Identity!StoredFactsAreOfThePlatform',
         UNCHANGED <<pointsAt, pointed, identities, inside, mappings, identity>>
  PROVE  IdentityInv'
<1>1. IdentityType /\ Remembered /\ \A b \in Candidates : Resolving(b) /\ Given(b)
  BY DEF IdentityInv
<1>2. IdentityType'
  BY <1>1 DEF IdentityType, Within
<1>3. Remembered'
  BY <1>1, RememberedStays
<1>4. ASSUME NEW b \in Candidates PROVE Resolving(b)' /\ Given(b)'
  <2>1. CASE b = a
    BY <1>1, <2>1 DEF Resolving, Given, Within, IdentityType
  <2>2. CASE b # a
    BY <1>1, <2>2 DEF Resolving, Given, Within, IdentityType
  <2> QED BY <2>1, <2>2
<1> QED BY <1>2, <1>3, <1>4 DEF IdentityInv

LEMMA HeadKeeps ==
  ASSUME Identity!RegistryAssumption, IdentityInv, NEW a \in Candidates, Identity!Head(a)
  PROVE  IdentityInv'
<1>1. /\ IdentityType /\ Configs /\ Identity!StoredFactsAreOfThePlatform
      /\ inspects[a] = "head" /\ UNCHANGED <<pointsAt, pointed, resolved, facts>>
  BY DEF IdentityInv, Identity!Head, Identity!world
<1>2. Configs' /\ Identity!StoredFactsAreOfThePlatform'
  BY <1>1 DEF Configs, Identity!StoredFactsAreOfThePlatform
<1>3. CASE /\ top' = [top EXCEPT ![a] = pointsAt] /\ Identity!To(a, "manifest")
           /\ UNCHANGED <<identity, identities, inside, digests, mappings>>
  <2>1. /\ top' \in [Candidates -> Tops \cup {None}] /\ top'[a] \in Tops /\ top'[a] \in pointed
        /\ \A b \in Candidates \ {a} : top'[b] = top[b]
    BY <1>1, <1>3 DEF IdentityType
  <2> QED BY <1>1, <1>2, <1>3, <2>1, AskerGoesOn DEF Identity!To, Within, IdentityType
<1>4. CASE Identity!Conclude(a, Identity!Unresolved) /\ UNCHANGED top
  <2>1. /\ Identity!Unresolved \in Identity!Identities
        /\ ~Identity!Confirmed(Identity!Unresolved)
    BY DEF Identity!Unresolved, Identity!Identity, Identity!Identities, Identity!Confirmed
  <2> QED BY <1>1, <1>2, <1>4, <2>1, ConcludeKeeps DEF Within, IdentityType
<1> QED BY <1>3, <1>4 DEF Identity!Head

LEMMA FetchKeeps ==
  ASSUME Identity!RegistryAssumption, IdentityInv, NEW a \in Candidates, Identity!Fetch(a)
  PROVE  IdentityInv'
<1> DEFINE p == Platform[a]
           known == mappings[<<top[a], p>>]
<1>1. /\ IdentityType /\ Remembered /\ Configs /\ Identity!StoredFactsAreOfThePlatform
      /\ inspects[a] = "manifest" /\ Resolving(a)
      /\ UNCHANGED <<pointsAt, pointed, resolved, facts, top>>
  BY DEF IdentityInv, Identity!Fetch, Identity!world
<1>2. Configs' /\ Identity!StoredFactsAreOfThePlatform'
      /\ resolved' = [k \in ((DOMAIN Body) \cup {"tag"}) \X Identity!Platforms |-> resolved'[k]]
  BY <1>1 DEF Configs, Identity!StoredFactsAreOfThePlatform, IdentityType
<1>3. top[a] \in Tops /\ top[a] \in pointed /\ top[a] \in DOMAIN Body
      /\ p \in Identity!Platforms /\ None \notin Identity!Identities
  BY <1>1, PlatformOf DEF Resolving, Identity!RegistryAssumption
<1>4. ASSUME NEW i \in Identity!Identities, Identity!Conclude(a, i),
             Identity!Confirmed(i) => Holds(pointed, i, p) /\ top[a] \in {i.index, i.manifest}
      PROVE  IdentityInv'
  BY <1>1, <1>2, <1>3, <1>4, ConcludeKeeps DEF Within
<1>5. CASE known # None /\ Identity!Conclude(a, known)
  <2>1. known \in Identity!Identities
    BY <1>1, <1>3, <1>5 DEF IdentityType, Pairs, MaybeIdentity
  <2>2. Holds(pointed, known, p) /\ top[a] \in {known.index, known.manifest}
    BY <1>1, <1>3, <1>5 DEF Remembered
  <2> HIDE DEF known
  <2> QED BY <1>4, <1>5, <2>1, <2>2
<1>6. CASE Identity!Conclude(a, Identity!Unresolved)
  <2>1. /\ Identity!Unresolved \in Identity!Identities
        /\ ~Identity!Confirmed(Identity!Unresolved)
    BY DEF Identity!Unresolved, Identity!Identity, Identity!Identities, Identity!Confirmed
  <2> QED BY <1>4, <1>6, <2>1
<1>7. CASE Body[top[a]].kind = "index" /\ Identity!Conclude(a, Identity!FromIndex(top[a], p))
  <2> DEFINE i == Identity!FromIndex(top[a], p)
  <2>1. /\ i \in Identity!Identities /\ top[a] \in {i.index, i.manifest}
        /\ Identity!Confirmed(i) => Holds(pointed, i, p)
    BY <1>3, <1>7, IndexHolds
  <2> HIDE DEF i
  <2>2. Identity!Conclude(a, i)
    BY <1>7 DEF i
  <2> QED BY <1>4, <2>1, <2>2
<1>8. CASE /\ Body[top[a]].kind = "image" /\ Identity!To(a, "config")
           /\ UNCHANGED <<identity, identities, inside, digests, mappings>>
  BY <1>1, <1>2, <1>3, <1>8, AskerGoesOn DEF Identity!To, Within, IdentityType
<1> QED BY <1>5, <1>6, <1>7, <1>8 DEF Identity!Fetch, Identity!Accepts

LEMMA FetchConfigKeeps ==
  ASSUME Identity!RegistryAssumption, IdentityInv, NEW a \in Candidates, Identity!FetchConfig(a)
  PROVE  IdentityInv'
<1> DEFINE p == Platform[a]
           k == <<top[a], p>>
<1>1. /\ IdentityType /\ Configs /\ Identity!StoredFactsAreOfThePlatform
      /\ inspects[a] = "config" /\ Resolving(a) /\ UNCHANGED <<pointsAt, pointed, facts, top>>
  BY DEF IdentityInv, Identity!FetchConfig, Identity!world
<1>2. /\ top[a] \in Tops /\ top[a] \in pointed /\ top[a] \in DOMAIN Body
      /\ Body[top[a]].kind = "image" /\ p \in Identity!Platforms
  BY <1>1, PlatformOf DEF Resolving, Identity!RegistryAssumption
<1>3. PICK config \in {top[a], None} :
        /\ Identity!Conclude(a, Identity!FromManifest(top[a], p, config))
        /\ resolved' = [resolved EXCEPT ![k] = IF @ = None THEN <<config>> ELSE @]
  BY DEF Identity!FetchConfig
<1>4. k \in ((DOMAIN Body) \cup {"tag"}) \X Identity!Platforms /\ k[1] = top[a]
  BY <1>2
<1>5. /\ Configs'
      /\ resolved' = [l \in ((DOMAIN Body) \cup {"tag"}) \X Identity!Platforms |-> resolved'[l]]
  <2>1. resolved = [l \in ((DOMAIN Body) \cup {"tag"}) \X Identity!Platforms |-> resolved[l]]
    BY <1>1 DEF IdentityType
  <2>2. CASE resolved[k] = None
    <3>1. resolved' = [resolved EXCEPT ![k] = <<config>>]
      BY <1>3, <2>2
    <3>2. \A d \in DOMAIN Body : Body[d].kind = "image" /\ k[1] = d => config \in {None, d}
      BY <1>3, <1>4
    <3> HIDE DEF k
    <3> QED BY <1>4, <3>1, <3>2, ConfigsStay
  <2>3. CASE resolved[k] # None
    <3>1. resolved' = resolved
      BY <1>3, <1>4, <2>1, <2>3
    <3> QED BY <1>1, <2>1, <3>1 DEF Configs
  <2> QED BY <2>2, <2>3
<1> DEFINE i == Identity!FromManifest(top[a], p, config)
<1>6. /\ i \in Identity!Identities /\ top[a] \in {i.index, i.manifest}
      /\ Identity!Confirmed(i) => Holds(pointed, i, p)
  BY <1>2, ManifestHolds
<1>7. Identity!Conclude(a, i)
  BY <1>3
<1> HIDE DEF i
<1> QED BY <1>1, <1>2, <1>5, <1>6, <1>7, ConcludeKeeps DEF Within

\* What inspection reads under the reference of an asker, and what it stores.
LEMMA References ==
  ASSUME Identity!RegistryAssumption, IdentityInv, NEW a \in Candidates, identity[a] # None
  PROVE  /\ Identity!Key(a) = <<Identity!Reference(a), Platform[a]>>
         /\ Identity!Key(a) \in ((DOMAIN Body) \cup {"tag"}) \X Identity!Platforms
         /\ Identity!Confirmed(identity[a]) =>
              /\ Identity!Reference(a) = identity[a].manifest
              /\ Identity!Reference(a) \in DOMAIN Body
              /\ Body[Identity!Reference(a)].kind = "image"
              /\ Identity!Satisfies(Platform[a], Body[Identity!Reference(a)])
<1>1. /\ Platform[a] \in Identity!Platforms /\ None \notin DOMAIN Body
      /\ Hints[a] \in (DOMAIN Body) \cup {None}
  BY PlatformOf DEF Identity!RegistryAssumption
<1>2. Identity!Confirmed(identity[a]) => Holds(pointed, identity[a], Platform[a])
  BY <1>1 DEF IdentityInv, Given, Remembered
<1>3. Identity!Confirmed(identity[a]) =>
        /\ identity[a].manifest \in DOMAIN Body
        /\ Body[identity[a].manifest].kind = "image"
        /\ Identity!Satisfies(Platform[a], Body[identity[a].manifest])
  BY <1>2 DEF Holds
<1>4. Identity!Confirmed(identity[a]) => Identity!Reference(a) = identity[a].manifest
  BY <1>1, <1>3 DEF Identity!Reference, Identity!ImageDigest
<1>5. Identity!Reference(a) \in (DOMAIN Body) \cup {"tag"}
  BY <1>1, <1>3 DEF Identity!Reference, Identity!ImageDigest
<1> QED BY <1>1, <1>3, <1>4, <1>5 DEF Identity!Key

LEMMA InspectKeeps ==
  ASSUME IdentityInv, NEW a \in Candidates, Identity!Inspect(a)
  PROVE  IdentityInv'
<1>1. /\ IdentityType /\ Configs /\ Identity!StoredFactsAreOfThePlatform
      /\ inspects[a] = "inspect"
      /\ UNCHANGED <<pointsAt, pointed, identities, inside, resolved, mappings, facts, top, identity>>
  BY DEF IdentityInv, Identity!Inspect, Identity!world, Identity!memos
<1>2. PICK s \in {"done", "reading"} : inspects' = [inspects EXCEPT ![a] = s]
  BY DEF Identity!Inspect, Identity!Facts, Identity!To
<1>3. Configs' /\ Identity!StoredFactsAreOfThePlatform'
  BY <1>1 DEF Configs, Identity!StoredFactsAreOfThePlatform
<1> QED BY <1>1, <1>2, <1>3, AskerGoesOn DEF Within, IdentityType

LEMMA ResolveKeeps ==
  ASSUME Identity!RegistryAssumption, IdentityInv, NEW a \in Candidates, Identity!Resolve(a)
  PROVE  IdentityInv'
<1> DEFINE k == Identity!Key(a)
           d == Identity!Reference(a)
           asked == IF d = "tag" THEN pointsAt ELSE d
<1>1. /\ IdentityType /\ Configs /\ Identity!StoredFactsAreOfThePlatform
      /\ inspects[a] = "reading" /\ Given(a)
      /\ UNCHANGED <<pointsAt, pointed, identities, inside, mappings, top, identity>>
  BY DEF IdentityInv, Identity!Resolve, Identity!world
<1>2. identity[a] # None /\ "tag" \notin DOMAIN Body
  BY <1>1 DEF Given, Identity!RegistryAssumption
<1>3. PICK config \in {Identity!ConfigOf(asked, Platform[a]), None} :
        LET row == IF resolved[k] # None THEN resolved[k][1] ELSE config IN
        /\ resolved' = [resolved EXCEPT ![k] = <<row>>]
        /\ inspects' = [inspects EXCEPT ![a] = "done"]
        /\ facts' = IF Identity!Confirmed(identity[a]) /\ row # None
                    THEN [facts EXCEPT ![k] = row] ELSE facts
  BY DEF Identity!Resolve, Identity!Facts, Identity!To, Identity!Storable
<1> DEFINE row == IF resolved[k] # None THEN resolved[k][1] ELSE config
<1>4. /\ k = <<d, Platform[a]>> /\ k \in ((DOMAIN Body) \cup {"tag"}) \X Identity!Platforms
      /\ Identity!Confirmed(identity[a]) =>
           /\ d \in DOMAIN Body /\ Body[d].kind = "image"
           /\ Identity!Satisfies(Platform[a], Body[d])
  BY <1>2, References
<1>5. d \in DOMAIN Body /\ Body[d].kind = "image" => row \in {None, d}
  <2> SUFFICES ASSUME d \in DOMAIN Body, Body[d].kind = "image" PROVE row \in {None, d}
    OBVIOUS
  <2>1. Identity!ConfigOf(asked, Platform[a]) = d
    BY <1>2 DEF Identity!ConfigOf
  <2> HIDE DEF d, asked, k
  <2>2. resolved[k] # None => resolved[k][1] \in {None, d}
    BY <1>1, <1>4 DEF Configs, ConfigIs
  <2> QED BY <1>3, <2>1, <2>2
<1>6. \A e \in DOMAIN Body : Body[e].kind = "image" /\ k[1] = e => row \in {None, e}
  BY <1>4, <1>5
<1>7. /\ resolved' = [resolved EXCEPT ![k] = <<row>>]
      /\ inspects' = [inspects EXCEPT ![a] = "done"]
      /\ facts' = IF Identity!Confirmed(identity[a]) /\ row # None
                  THEN [facts EXCEPT ![k] = row] ELSE facts
  BY <1>3
<1> HIDE DEF k, d, asked, row
<1>8. k \in ((DOMAIN Body) \cup {"tag"}) \X Identity!Platforms
  BY <1>4
<1>9. /\ Configs'
      /\ resolved' = [l \in ((DOMAIN Body) \cup {"tag"}) \X Identity!Platforms |-> resolved'[l]]
  BY <1>6, <1>7, <1>8, ConfigsStay
<1>10. facts = [l \in Pairs |-> facts[l]]
  BY <1>1 DEF IdentityType
<1>11. facts' = [l \in Pairs |-> facts'[l]]
  BY <1>7, <1>10
<1>12. ASSUME NEW e \in DOMAIN Body, NEW p \in Identity!Platforms, facts'[<<e, p>>] # None
       PROVE  facts'[<<e, p>>] = e /\ Identity!Satisfies(p, Body[e])
  <2>1. CASE facts'[<<e, p>>] = facts[<<e, p>>]
    BY <1>1, <1>12, <2>1 DEF Identity!StoredFactsAreOfThePlatform
  <2>2. CASE facts'[<<e, p>>] # facts[<<e, p>>]
    <3>1. k = <<e, p>> /\ Identity!Confirmed(identity[a]) /\ row # None /\ facts'[<<e, p>>] = row
      BY <1>7, <1>10, <2>2 DEF Pairs
    <3> QED BY <1>4, <1>5, <3>1
  <2> QED BY <2>1, <2>2
<1>13. Identity!StoredFactsAreOfThePlatform'
  BY <1>12 DEF Identity!StoredFactsAreOfThePlatform
<1> QED BY <1>1, <1>7, <1>9, <1>11, <1>13, AskerGoesOn DEF Within, IdentityType

LEMMA IdentityStays ==
  ASSUME Identity!RegistryAssumption, IdentityInv, [Identity!Next]_(Identity!vars)
  PROVE  IdentityInv'
<1>1. /\ IdentityType /\ Remembered /\ Configs /\ Identity!StoredFactsAreOfThePlatform
      /\ \A a \in Candidates : Resolving(a) /\ Given(a)
  BY DEF IdentityInv
<1>2. ASSUME UNCHANGED <<identities, inside, resolved, mappings, facts, inspects, top, identity>>,
             pointed \subseteq pointed', pointsAt' \in Tops, pointsAt' \in pointed'
      PROVE  IdentityInv'
  <2>1. IdentityType'
    BY <1>1, <1>2 DEF IdentityType
  <2>2. \A a \in Candidates : Resolving(a)' /\ Given(a)'
    BY <1>1, <1>2 DEF Resolving, Given
  <2>3. Remembered'
    BY <1>1, <1>2, RememberedStays
  <2>4. Configs' /\ Identity!StoredFactsAreOfThePlatform'
    BY <1>1, <1>2 DEF Configs, Identity!StoredFactsAreOfThePlatform
  <2> QED BY <2>1, <2>2, <2>3, <2>4 DEF IdentityInv
<1>3. CASE UNCHANGED Identity!vars
  BY <1>1, <1>2, <1>3 DEF Identity!vars, Identity!world, Identity!memos, IdentityType
<1>4. CASE Identity!MoveTag
  BY <1>1, <1>2, <1>4 DEF Identity!MoveTag, Identity!memos, IdentityType
<1>5. CASE Identity!NextRun
  <2>1. /\ identities' = [p \in Identity!Platforms |-> None]
        /\ inside' = [p \in Identity!Platforms |-> None]
        /\ resolved' = [k \in ((DOMAIN Body) \cup {"tag"}) \X Identity!Platforms |-> None]
        /\ inspects' = [a \in Candidates |-> "start"]
        /\ top' = [a \in Candidates |-> None] /\ identity' = [a \in Candidates |-> None]
        /\ UNCHANGED <<pointsAt, pointed, mappings, facts>>
    BY <1>5 DEF Identity!NextRun, Identity!NoIdentity, Identity!NothingRead, Identity!OfNobody
  <2>2. IdentityType'
    BY <1>1, <2>1 DEF IdentityType, MaybeIdentity
  <2>3. \A a \in Candidates : Resolving(a)' /\ Given(a)'
    BY <2>1 DEF Resolving, Given, Within
  <2>4. Remembered'
    BY <1>1, <2>1 DEF Remembered
  <2>5. Configs' /\ Identity!StoredFactsAreOfThePlatform'
    BY <1>1, <2>1 DEF Configs, Identity!StoredFactsAreOfThePlatform
  <2> QED BY <2>2, <2>3, <2>4, <2>5 DEF IdentityInv
<1>6. ASSUME NEW a \in Candidates, Identity!Step(a) PROVE IdentityInv'
  BY <1>6, EnterKeeps, HeadKeeps, FetchKeeps, FetchConfigKeeps, InspectKeeps, ResolveKeeps
     DEF Identity!Step
<1> QED BY <1>3, <1>4, <1>5, <1>6 DEF Identity!Next

LEMMA IdentitiesAreTrue ==
  ASSUME IdentityInv
  PROVE  /\ Identity!ConfirmedIsPublished /\ Identity!OneIdentityPerRun
         /\ Identity!StoredFactsAreOfThePlatform
<1>1. \A i, p : Holds(pointed, i, p) => Identity!Means(i, p)
  BY DEF Holds, Identity!Means
<1>2. Remembered /\ \A a \in Candidates : Given(a) /\ Platform[a] \in Identity!Platforms
  BY PlatformOf DEF IdentityInv
<1>3. Identity!ConfirmedIsPublished
  BY <1>1, <1>2 DEF Identity!ConfirmedIsPublished, Remembered, Given
<1>4. Identity!OneIdentityPerRun
  BY <1>2 DEF Identity!OneIdentityPerRun, Given
<1> QED BY <1>3, <1>4 DEF IdentityInv
-----------------------------------------------------------------------------
(***************************************************************************)
(* Nobody who was refused an answer is told no: a verifier is not told     *)
(* that a tag is missing because a page was refused (registry/client.py,   *)
(* list_tags), a caller that joined another one's check is told what that  *)
(* one was told (tag_exists), the hardened catalogue does not say "no      *)
(* image" for an index it could not load, and the catalogues of threats    *)
(* say "not exploited" only if they were loaded, once for a run.           *)
(***************************************************************************)
THEOREM AbsenceIsNotAssumed == Spec => []AbsenceIsAnswered
<1> DEFINE Inv == /\ service = "listings" => ListsInv
                  /\ service = "checks" => ChecksInv
                  /\ service = "catalogue" => CatalogueInv
                  /\ service = "intel" => IntelInv
<1>1. Init => Inv
  BY Starts, ListsStart, ChecksStart, CatalogueStarts, IntelStarts, APageIsServed,
     NoneIsNoChecker, NoneIsNoSeeker
<1>2. Inv /\ [Next]_vars => Inv'
  BY OneService, ListsStay, ChecksStay, CatalogueStays, IntelStays, APageIsServed,
     NoneIsNoChecker, NoneIsNoSeeker
<1>3. Inv => AbsenceIsAnswered
  BY DenialsAreTrue, SilenceIsNoAnswer, NegativesAreAnswered, APageIsServed, NoneIsNoChecker
     DEF CatalogueInv, AbsenceIsAnswered
<1> QED BY <1>1, <1>2, <1>3, PTL DEF Spec

(***************************************************************************)
(* What is decided about an image is decided about the image that the tag  *)
(* pointed at: a confirmed identity has its digests and its platform, the  *)
(* candidates of a run that ask for a platform get one identity, and what  *)
(* inspection stores for later runs under a digest is of that digest       *)
(* (identity resolution and inspector.py).                                 *)
(***************************************************************************)
THEOREM IdentitiesAreHonest == Spec => []IdentityIsHonest
<1> DEFINE Inv == service = "identity" => IdentityInv
<1>1. Init => Inv
  BY Starts, IdentityStarts, IndexesSayWhatImagesSay
<1>2. Inv /\ [Next]_vars => Inv'
  BY OneService, IdentityStays, IndexesSayWhatImagesSay
<1>3. Inv => IdentityIsHonest
  BY IdentitiesAreTrue DEF IdentityIsHonest
<1> QED BY <1>1, <1>2, <1>3, PTL DEF Spec
=============================================================================
