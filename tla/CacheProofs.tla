----------------------------- MODULE CacheProofs -----------------------------
(***************************************************************************)
(* Proofs about CacheClients, for any runs, rows, fingerprints, policies   *)
(* and lifetimes: the rows are the map that the cache promises; what is    *)
(* served is current; and histories are honest.                            *)
(***************************************************************************)
EXTENDS CacheClients, FiniteSetTheorems, WellFoundedInduction, TLAPS

Places == {"idle", "evaluation", "served", "measure", "lookup", "scan", "put", "evaluate",
           "observe", "record", "save"}
Rows == [id : Nat, value : Values, expires : Nat]

Typed ==
  /\ rows \in [Keys -> Rows \cup {None}] /\ now \in Nat /\ scans \in Nat
  /\ pending \in [Procs -> Nat \cup {None}] /\ answer \in [Procs -> Values \cup {None}]
  /\ command \in {"recommend", "base"} /\ at \in [Procs -> Places]
  /\ mem = [p \in Procs |-> mem[p]] /\ result = [p \in Procs |-> result[p]]
  /\ tag.digest \in Digests

(***************************************************************************)
(* An evaluation names the time of the scan that it is of.  A history is   *)
(* told so far when it is honest, in order, and not ahead of the clock.    *)
(***************************************************************************)
EvaluationsOfScans == {e \in Evaluations : e.measured = e.of.measured}
InOrder(h, t) ==
  \A i, j \in 1..Len(h.seen) : i <= j => h.seen[i].at <= h.seen[j].at /\ h.seen[j].at <= t
Told(h, t) ==
  /\ h \in Histories /\ Honest(h) /\ InOrder(h, t)
  /\ h.seen = <<>> => h.chain = <<>> /\ h.dropped = 0

UnderTheirKeys ==
  /\ <<"scan">> \in Present => rows[<<"scan">>].value \in Scans \cup {Garbage}
  /\ <<"history">> \in Present =>
       rows[<<"history">>].value = Garbage \/ Told(rows[<<"history">>].value, now)
  /\ \A p \in Procs : EvalKey(p) \in Present => rows[EvalKey(p)].value \in EvaluationsOfScans

(***************************************************************************)
(* What a run holds, by where it is: what it was answered, the scan it is  *)
(* about to evaluate or was about to use, and what it was served.          *)
(***************************************************************************)
Usable(p, scan, t) == ScanRefused(scan, Fingerprint[p], t) = "HIT"
Served(p, r) ==
  /\ Usable(p, r.row.of, r.read)
  /\ r.row.intel # None => r.at - r.row.intel <= IntelMaxAge

Local(p) ==
  /\ at[p] \in {"observe", "record", "save"} => command = "base"
  /\ at[p] \notin {"idle", "observe", "record", "save"} => command = "recommend"
  /\ at[p] \in {"evaluation", "lookup"} => answer[p] \in Scans \cup {Garbage, None}
  /\ at[p] = "served" =>
       /\ answer[p] \in EvaluationsOfScans \cup {None}
       /\ mem[p].scan \in Scans /\ Usable(p, mem[p].scan, mem[p].read)
  /\ at[p] = "put" => mem[p] \in 1..scans
  /\ at[p] = "evaluate" => mem[p] \in Scans
  /\ at[p] \in {"observe", "record"} => mem[p] \in Digests \cup {None}
  /\ at[p] = "record" => answer[p] \in {Garbage, None} \/ Told(answer[p], now)
  /\ at[p] = "save" => Told(result[p], now)
  /\ command = "recommend" /\ result[p] # None => Served(p, result[p])
  /\ command = "base" /\ result[p] # None => Told(result[p], now)

(***************************************************************************)
(* The scans that are still in a row or in a run's hands, and their        *)
(* numbers: a time tells one scan from all others.                         *)
(***************************************************************************)
InRows ==
  {s \in Scans : \/ <<"scan">> \in Present /\ rows[<<"scan">>].value = s
                 \/ \E p \in Procs : EvalKey(p) \in Present /\ rows[EvalKey(p)].value.of = s}
KnownTo(p) ==
  {s \in Scans : \/ at[p] \in {"evaluation", "lookup"} /\ answer[p] = s
                 \/ at[p] = "served" /\ mem[p].scan = s
                 \/ at[p] = "served" /\ answer[p] # None /\ answer[p].of = s
                 \/ at[p] = "evaluate" /\ mem[p] = s}
Known == InRows \cup UNION {KnownTo(p) : p \in Procs}

Numbering ==
  /\ \A s, z \in Known : s.measured = z.measured => s = z
  /\ \A s \in Known : s.measured <= scans
  /\ \A s \in Known, p \in Procs : at[p] = "put" => mem[p] # s.measured
  /\ \A p, q \in Procs : at[p] = "put" /\ at[q] = "put" /\ mem[p] = mem[q] => p = q

Inv == Typed /\ UnderTheirKeys /\ Numbering /\ \A p \in Procs : Local(p)

-----------------------------------------------------------------------------
(***************************************************************************)
(* Of finitely many numbers one is the largest; so a new row has an id.    *)
(***************************************************************************)
LEMMA MaxIsIn ==
  ASSUME NEW S \in SUBSET Nat, IsFiniteSet(S), S # {}
  PROVE  Max(S) \in S /\ \A x \in S : Max(S) >= x
<1> DEFINE Bounded(X) == \E x \in X : \A y \in X : x >= y
           T == {X \in SUBSET S : X # {} /\ ~Bounded(X)}
<1>1. T = {}
  <2> SUFFICES ASSUME T # {} PROVE FALSE
    OBVIOUS
  <2>1. IsWellFoundedOn(StrictSubsetOrdering(S), SUBSET S)
    BY FS_StrictSubsetOrderingWellFounded, FS_FiniteSubsetsOfFinite
  <2>2. PICK X \in T : \A Y \in T : <<Y, X>> \notin StrictSubsetOrdering(S)
    BY <2>1, WFMin
  <2>3. PICK x \in X : x \in Nat
    OBVIOUS
  <2> DEFINE Y == X \ {x}
  <2>4. <<Y, X>> \in StrictSubsetOrdering(S)
    BY DEF StrictSubsetOrdering
  <2>5. Y \notin T
    BY <2>2, <2>4
  <2>6. CASE Y = {}
    <3>1. \A y \in X : y = x
      BY <2>6
    <3> QED
      BY <2>3, <3>1
  <2>7. CASE Y # {}
    <3>1. PICK z \in Y : \A y \in Y : z >= y
      BY <2>5, <2>7
    <3>2. z \in Nat /\ \A y \in X : y = x \/ z >= y
      BY <3>1
    <3>3. CASE z >= x
      BY <3>1, <3>2, <3>3
    <3>4. CASE x >= z
      <4>1. \A y \in X : y \in Nat /\ x >= y
        BY <2>3, <3>2, <3>4
      <4> QED
        BY <4>1
    <3> QED
      BY <2>3, <3>2, <3>3, <3>4
  <2> QED
    BY <2>6, <2>7
<1>2. \E x \in S : \A y \in S : x >= y
  BY <1>1
<1> QED
  BY <1>2 DEF Max

LEMMA IdsAreNumbers == ASSUME CacheAssumption, Typed PROVE NextId \in Nat
<1> DEFINE P == Present
           f == [k \in P |-> rows[k].id]
           ids == {rows[k].id : k \in P}
<1>1. P \in SUBSET Keys /\ IsFiniteSet(P)
  BY FS_Subset DEF CacheAssumption, Present
<1>2. \A k \in P : rows[k] \in Rows
  BY DEF Typed, Present
<1>3. ids \in SUBSET Nat
  BY <1>2 DEF Rows
<1>4. f \in Surjection(P, ids)
  BY DEF Surjection
<1>5. IsFiniteSet(ids)
  BY <1>1, <1>4, FS_Surjection
<1>6. {0} \cup ids \in SUBSET Nat /\ {0} \cup ids # {}
  BY <1>3
<1>7. Max({0} \cup ids) \in Nat
  <2> HIDE DEF ids
  <2>1. IsFiniteSet({0} \cup ids)
    BY <1>5, FS_Singleton, FS_Union
  <2> QED
    BY <1>6, <2>1, MaxIsIn
<1> QED
  BY <1>7 DEF NextId

-----------------------------------------------------------------------------
(***************************************************************************)
(* Every statement on the rows is a step of the map: a get answers with    *)
(* what is there or a miss, a set puts under its key, and what deletes or  *)
(* expires forgets.                                                        *)
(***************************************************************************)
RowsTyped == rows \in [Keys -> Rows \cup {None}] /\ now \in Nat
MapStep == [Map!Next]_(Map!vars)

LEMMA NoneIsNothing == CacheAssumption => None \notin Values /\ None \notin Rows /\ None \notin Nat
  BY DEF CacheAssumption, Rows

LEMMA GetIsGet ==
  ASSUME NEW p \in Procs, NEW k \in Keys, Get(p, k) \/ Unreadable(p)
  PROVE  Map!Next
<1>1. Read(k) = [j \in Keys |-> Read(j)][k]
  OBVIOUS
<1>2. /\ answer' = [answer EXCEPT ![p] = Read(k)] \/ answer' = [answer EXCEPT ![p] = None]
      /\ UNCHANGED <<rows, now>>
  BY DEF Get, Unreadable
<1>3. UNCHANGED [j \in Keys |-> Read(j)]
  BY <1>2 DEF Read, Present, Expired
<1>4. Map!Get(p, k)
  BY <1>1, <1>2, <1>3 DEF Map!Get
<1> QED
  BY <1>4 DEF Map!Next

LEMMA ForgettingIsForget ==
  ASSUME UNCHANGED answer, \A k \in Keys : Read(k)' \in {Read(k), None}
  PROVE  Map!Next
<1> DEFINE m == [k \in Keys |-> Read(k)]
<1>1. \A k \in Keys : m[k] = Read(k) /\ m'[k] = Read(k)'
  OBVIOUS
<1>2. Map!Forget
  BY <1>1 DEF Map!Forget
<1> QED
  BY <1>2 DEF Map!Next

LEMMA DeleteIsForget == ASSUME NEW gone, Delete(gone) PROVE Map!Next
<1>1. UNCHANGED <<now, answer>> /\ rows' = [k \in Keys |-> IF k \in gone THEN None ELSE rows[k]]
  BY DEF Delete
<1>2. \A k \in Keys : Read(k)' \in {Read(k), None}
  BY <1>1 DEF Read, Present, Expired
<1> QED
  BY <1>1, <1>2, ForgettingIsForget

LEMMA DropIsForget == ASSUME NEW p \in Procs, DropExpired(p) PROVE Map!Next
<1> DEFINE gone == {k \in Present : rows[k].id = pending[p]}
<1>1. /\ UNCHANGED <<now, answer>>
      /\ rows' = [k \in Keys |-> IF k \in gone THEN None ELSE rows[k]]
  BY DEF DropExpired
<1>2. \A k \in Keys : Read(k)' \in {Read(k), None}
  <2> HIDE DEF gone
  <2> QED
    BY <1>1 DEF Read, Present, Expired
<1> QED
  BY <1>1, <1>2, ForgettingIsForget

LEMMA TickIsForget == ASSUME RowsTyped, None \notin Rows, Tick PROVE Map!Next
<1>1. UNCHANGED <<rows, answer>> /\ now' = now + 1 /\ now \in Nat
  BY DEF Tick, RowsTyped
<1>2. ASSUME NEW k \in Keys PROVE Read(k)' \in {Read(k), None}
  <2>1. CASE rows[k] = None
    BY <1>1, <2>1 DEF Read, Present
  <2>2. CASE rows[k] # None
    <3>1. rows[k].expires \in Nat
      BY <2>2 DEF RowsTyped, Rows
    <3>2. Expired(k) => Expired(k)'
      BY <1>1, <3>1 DEF Expired
    <3> QED
      BY <1>1, <3>2 DEF Read, Present
  <2> QED
    BY <2>1, <2>2
<1> QED
  BY <1>1, <1>2, ForgettingIsForget

LEMMA SetIsPut ==
  ASSUME CacheAssumption, Typed, NEW k \in Keys, NEW v \in Values, NEW ttl \in Nat, Set(k, v, ttl)
  PROVE  Map!Next /\ rows' \in [Keys -> Rows \cup {None}]
<1> DEFINE i == IF rows[k] = None THEN NextId ELSE rows[k].id
           row == [id |-> i, value |-> v, expires |-> now + ttl]
<1>1. i \in Nat
  BY IdsAreNumbers DEF Typed, Rows
<1>2. rows' = [rows EXCEPT ![k] = row] /\ UNCHANGED <<now, answer>>
  BY DEF Set
<1>3. row \in Rows /\ row.value = v /\ row.expires = now + ttl
  BY <1>1 DEF Rows, Typed
<1> HIDE DEF row
<1>4. /\ rows' \in [Keys -> Rows \cup {None}] /\ rows'[k] = row
      /\ \A j \in Keys \ {k} : rows'[j] = rows[j]
  BY <1>2, <1>3 DEF Typed
<1>5. Read(k)' = v /\ v # None
  BY <1>2, <1>3, <1>4, NoneIsNothing DEF Read, Present, Expired, Typed
<1>6. \A j \in Keys \ {k} : Read(j)' = Read(j)
  BY <1>2, <1>4 DEF Read, Present, Expired
<1> DEFINE m == [j \in Keys |-> Read(j)]
<1>7. \A j \in Keys : m[j] = Read(j) /\ m'[j] = Read(j)'
  OBVIOUS
<1>8. Map!Put(k)
  BY <1>2, <1>5, <1>6, <1>7 DEF Map!Put
<1> QED
  BY <1>4, <1>8 DEF Map!Next

-----------------------------------------------------------------------------
(***************************************************************************)
(* What a step of one run, or of none, leaves as it was.                   *)
(***************************************************************************)
LEMMA KeysDiffer ==
  ASSUME CacheAssumption
  PROVE  /\ <<"scan">> \in Keys /\ <<"history">> \in Keys /\ <<"scan">> # <<"history">>
         /\ \A p \in Procs : /\ EvalKey(p) \in Keys
                            /\ EvalKey(p) # <<"scan">> /\ EvalKey(p) # <<"history">>
  BY DEF CacheAssumption, RowKeys, EvalKey

LEMMA ToldStays ==
  \A h : \A t, u \in Nat : t <= u /\ Told(h, t) => Told(h, u)
<1> SUFFICES ASSUME NEW h, NEW t \in Nat, NEW u \in Nat, t <= u, Told(h, t) PROVE Told(h, u)
  OBVIOUS
<1>1. h.seen \in Seq(Observations) /\ Len(h.seen) \in Nat
  BY DEF Told, Histories
<1> DEFINE seen == h.seen
<1>2. ASSUME NEW j \in 1..Len(seen) PROVE seen[j].at \in Nat
  <2> HIDE DEF seen
  <2>1. seen \in Seq(Observations)
    BY <1>1 DEF seen
  <2>2. seen[j] \in Observations
    BY <2>1
  <2> QED
    BY <2>2 DEF Observations
<1>3. InOrder(h, u)
  <2>1. SUFFICES ASSUME NEW i \in 1..Len(seen), NEW j \in 1..Len(seen), i <= j
                 PROVE  seen[i].at <= seen[j].at /\ seen[j].at <= u
    BY DEF InOrder
  <2>2. seen[i].at <= seen[j].at /\ seen[j].at <= t /\ seen[j].at \in Nat
    BY <1>2, <2>1 DEF Told, InOrder
  <2> QED
    BY <2>2
<1> QED
  BY <1>3 DEF Told

LEMMA RowsGoing ==
  ASSUME CacheAssumption, Typed, UnderTheirKeys, now' \in Nat, now <= now',
         \A k \in Keys : rows'[k] \in {rows[k], None}
  PROVE  UnderTheirKeys' /\ InRows' \subseteq InRows
<1>1. \A k \in Keys : k \in Present' => k \in Present /\ rows'[k] = rows[k]
  BY DEF Present
<1>2. \A h : Told(h, now) => Told(h, now')
  BY ToldStays DEF Typed
<1>3. UnderTheirKeys'
  BY <1>1, <1>2, KeysDiffer DEF UnderTheirKeys
<1>4. InRows' \subseteq InRows
  BY <1>1, KeysDiffer DEF InRows
<1> QED
  BY <1>3, <1>4

OnlyMoves(p) ==
  \A q \in Procs \ {p} :
    at'[q] = at[q] /\ mem'[q] = mem[q] /\ result'[q] = result[q] /\ answer'[q] = answer[q]

LEMMA OthersKeep ==
  ASSUME Inv, Typed', NEW p \in Procs, OnlyMoves(p), UNCHANGED command, now <= now', scans <= scans'
  PROVE  /\ \A q \in Procs \ {p} : Local(q)' /\ KnownTo(q)' = KnownTo(q)
         /\ Known' = InRows' \cup KnownTo(p)' \cup UNION {KnownTo(q) : q \in Procs \ {p}}
<1>1. \A h : Told(h, now) => Told(h, now')
  BY ToldStays DEF Inv, Typed
<1>2. ASSUME NEW q \in Procs \ {p} PROVE Local(q)' /\ KnownTo(q)' = KnownTo(q)
  <2>1. /\ Local(q) /\ at'[q] = at[q] /\ mem'[q] = mem[q] /\ result'[q] = result[q]
        /\ answer'[q] = answer[q] /\ scans \in Nat /\ scans' \in Nat
    BY DEF Inv, OnlyMoves, Typed
  <2>2. KnownTo(q)' = KnownTo(q)
    BY <2>1 DEF KnownTo
  <2>3. Local(q)'
    BY <1>1, <2>1 DEF Local
  <2> QED
    BY <2>2, <2>3
<1> QED
  BY <1>2 DEF Known

LEMMA RunStepKeeps ==
  ASSUME Inv, Typed', NEW p \in Procs, OnlyMoves(p), UNCHANGED <<command, scans>>, now <= now',
         UnderTheirKeys', Local(p)', InRows' \subseteq Known, KnownTo(p)' \subseteq Known,
         at'[p] = "put" => at[p] = "put" /\ mem'[p] = mem[p]
  PROVE  Inv'
<1>1. \A q \in Procs : Local(q)'
  BY OthersKeep DEF Inv, Typed
<1>2. Known' \subseteq Known
  BY OthersKeep DEF Known, Inv, Typed
<1>3. \A q \in Procs : at'[q] = "put" => at[q] = "put" /\ mem'[q] = mem[q]
  BY DEF OnlyMoves
<1>4. Numbering'
  BY <1>2, <1>3 DEF Numbering, Inv
<1> QED
  BY <1>1, <1>4 DEF Inv

LEMMA QuietIsStutter == ASSUME UNCHANGED <<rows, now, answer>> PROVE MapStep
  BY DEF MapStep, Map!vars, Read, Present, Expired

LEMMA Asked ==
  ASSUME CacheAssumption, Inv, NEW p \in Procs, NEW k \in Keys, NEW l \in Places, Asks(p, k, l)
  PROVE  /\ MapStep /\ UNCHANGED <<rows, now>> /\ UnderTheirKeys' /\ InRows' = InRows
         /\ at' = [at EXCEPT ![p] = l]
         /\ answer' \in [Procs -> Values \cup {None}] /\ pending' \in [Procs -> Nat \cup {None}]
         /\ \A q \in Procs \ {p} : answer'[q] = answer[q]
         /\ answer'[p] # None => k \in Present /\ answer'[p] = rows[k].value
<1>1. /\ Get(p, k) \/ Unreadable(p)
      /\ at' = [at EXCEPT ![p] = l] /\ UNCHANGED <<rows, now>>
  BY DEF Asks, Goto, Get, Unreadable
<1>2. /\ answer' = [answer EXCEPT ![p] = Read(k)] \/ answer' = [answer EXCEPT ![p] = None]
      /\ \/ pending' = pending
         \/ k \in Present /\ pending' = [pending EXCEPT ![p] = rows[k].id]
         \/ pending' = [pending EXCEPT ![p] = None]
  BY <1>1 DEF Get, Unreadable
<1>3. Read(k) # None => k \in Present /\ Read(k) = rows[k].value
  BY DEF Read
<1>4. k \in Present => rows[k] \in Rows /\ rows[k].value \in Values /\ rows[k].id \in Nat
  BY DEF Present, Inv, Typed, Rows
<1>5. answer' \in [Procs -> Values \cup {None}] /\ pending' \in [Procs -> Nat \cup {None}]
  BY <1>2, <1>3, <1>4 DEF Inv, Typed
<1>6. /\ \A q \in Procs \ {p} : answer'[q] = answer[q]
      /\ answer'[p] # None => k \in Present /\ answer'[p] = rows[k].value
  BY <1>2, <1>3 DEF Inv, Typed
<1>7. UnderTheirKeys' /\ InRows' = InRows
  BY <1>1 DEF Inv, UnderTheirKeys, InRows, Present
<1> QED
  BY <1>1, <1>5, <1>6, <1>7, GetIsGet DEF MapStep

LEMMA Wrote ==
  ASSUME CacheAssumption, Inv, NEW k \in Keys, NEW v \in Values, NEW ttl \in Nat, Writes(k, v, ttl)
  PROVE  /\ MapStep /\ rows' \in [Keys -> Rows \cup {None}] /\ UNCHANGED <<now, pending, answer>>
         /\ \A j \in Keys \ {k} : rows'[j] = rows[j]
         /\ rows'[k] = rows[k] \/ (rows'[k] # None /\ rows'[k].value = v)
<1>1. CASE Set(k, v, ttl)
  <2>1. Map!Next /\ rows' \in [Keys -> Rows \cup {None}]
    BY <1>1, SetIsPut DEF Inv
  <2>2. /\ UNCHANGED <<now, pending, answer>>
        /\ rows' = [rows EXCEPT ![k] = [id |-> IF rows[k] = None THEN NextId ELSE rows[k].id,
                                        value |-> v, expires |-> now + ttl]]
    BY <1>1 DEF Set
  <2>3. rows'[k].value = v /\ \A j \in Keys \ {k} : rows'[j] = rows[j]
    BY <2>2 DEF Inv, Typed
  <2>4. rows'[k] # None
    <3>1. NextId \in Nat /\ now + ttl \in Nat /\ (rows[k] # None => rows[k].id \in Nat)
      BY IdsAreNumbers DEF Inv, Typed, Rows
    <3>2. rows'[k] \in Rows
      BY <2>2, <3>1 DEF Inv, Typed, Rows
    <3> QED
      BY <3>2, NoneIsNothing
  <2> QED
    BY <2>1, <2>2, <2>3, <2>4 DEF MapStep
<1>2. CASE UNCHANGED cacheVars
  BY <1>2, QuietIsStutter DEF cacheVars, Inv, Typed
<1> QED
  BY <1>1, <1>2 DEF Writes

\* Rows go, or nothing happens to them.
Gone ==
  /\ MapStep /\ UNCHANGED answer /\ now' \in Nat /\ now <= now'
  /\ rows' \in [Keys -> Rows \cup {None}] /\ pending' \in [Procs -> Nat \cup {None}]
  /\ UnderTheirKeys' /\ InRows' \subseteq InRows

LEMMA GoneWhen ==
  ASSUME CacheAssumption, Inv,
         \/ (\E gone : Delete(gone)) \/ (\E p \in Procs : DropExpired(p))
         \/ Tick \/ UNCHANGED cacheVars
  PROVE  Gone
<1>1. now \in Nat /\ rows \in [Keys -> Rows \cup {None}] /\ pending \in [Procs -> Nat \cup {None}]
  BY DEF Inv, Typed
<1>2. MapStep /\ UNCHANGED answer
  BY DeleteIsForget, DropIsForget, TickIsForget, QuietIsStutter, NoneIsNothing, <1>1
     DEF MapStep, RowsTyped, Delete, DropExpired, Tick, cacheVars
<1>3. /\ now' \in Nat /\ now <= now' /\ pending' \in [Procs -> Nat \cup {None}]
      /\ rows' = [k \in Keys |-> rows'[k]]
      /\ \A k \in Keys : rows'[k] \in {rows[k], None}
  <2>1. CASE \E gone : Delete(gone)
    BY <1>1, <2>1 DEF Delete
  <2>2. CASE \E p \in Procs : DropExpired(p)
    <3>1. PICK p \in Procs : DropExpired(p)
      BY <2>2
    <3> DEFINE gone == {k \in Present : rows[k].id = pending[p]}
    <3>2. UNCHANGED now /\ pending' = [pending EXCEPT ![p] = None]
          /\ rows' = [k \in Keys |-> IF k \in gone THEN None ELSE rows[k]]
      BY <3>1 DEF DropExpired
    <3> HIDE DEF gone
    <3> QED
      BY <1>1, <3>2
  <2>3. CASE Tick
    BY <1>1, <2>3 DEF Tick
  <2>4. CASE UNCHANGED cacheVars
    BY <1>1, <2>4 DEF cacheVars
  <2> QED
    BY <2>1, <2>2, <2>3, <2>4
<1>4. rows' \in [Keys -> Rows \cup {None}]
  BY <1>1, <1>3
<1>5. UnderTheirKeys' /\ InRows' \subseteq InRows
  BY <1>3, RowsGoing DEF Inv
<1> QED
  BY <1>2, <1>3, <1>4, <1>5 DEF Gone

LEMMA NobodyMovesKeeps ==
  ASSUME Inv, Gone, UNCHANGED <<command, at, mem, result, scans>>, tag'.digest \in Digests
  PROVE  Inv'
<1>1. Typed'
  BY DEF Inv, Typed, Gone
<1>2. CASE Procs = {}
  <2>1. Known' \subseteq Known
    BY <1>2 DEF Known, Gone
  <2> QED
    BY <1>1, <1>2, <2>1 DEF Inv, Gone, Numbering
<1>3. ASSUME NEW p \in Procs PROVE Inv'
  <2>1. \A h : Told(h, now) => Told(h, now')
    BY ToldStays DEF Inv, Typed, Gone
  <2>2. Local(p) /\ UNCHANGED <<at, mem, result, answer, scans, command>>
    BY DEF Inv, Gone
  <2>3. Local(p)'
    BY <2>1, <2>2 DEF Local
  <2>4. KnownTo(p)' = KnownTo(p)
    BY <2>2 DEF KnownTo
  <2> QED
    BY <1>1, <2>2, <2>3, <2>4, RunStepKeeps DEF OnlyMoves, Gone, Known
<1> QED
  BY <1>2, <1>3

-----------------------------------------------------------------------------
(***************************************************************************)
(* get_evaluation and measure, up to a scan that may be used.              *)
(***************************************************************************)
LEMMA AskEvaluationKeeps ==
  ASSUME CacheAssumption, Inv, NEW p \in Procs, AskEvaluation(p) PROVE Inv' /\ MapStep
<1> USE DEF Inv
<1>1. /\ command = "recommend" /\ Asks(p, <<"scan">>, "evaluation")
      /\ result' = [result EXCEPT ![p] = None] /\ UNCHANGED <<command, scans, tag, mem>>
  BY DEF AskEvaluation, Begin
<1>2. /\ MapStep /\ UNCHANGED <<rows, now>> /\ UnderTheirKeys' /\ InRows' = InRows
      /\ at' = [at EXCEPT ![p] = "evaluation"]
      /\ answer' \in [Procs -> Values \cup {None}] /\ pending' \in [Procs -> Nat \cup {None}]
      /\ \A q \in Procs \ {p} : answer'[q] = answer[q]
      /\ answer'[p] # None => <<"scan">> \in Present /\ answer'[p] = rows[<<"scan">>].value
  BY <1>1, Asked, KeysDiffer DEF Places
<1>3. Typed' /\ OnlyMoves(p)
  BY <1>1, <1>2 DEF Typed, OnlyMoves, Places
<1>4. at'[p] = "evaluation" /\ result'[p] = None
  BY <1>1, <1>2 DEF Typed
<1>5. answer'[p] \in Scans \cup {Garbage, None}
  BY <1>2 DEF UnderTheirKeys
<1>6. Local(p)'
  BY <1>1, <1>4, <1>5 DEF Local
<1>7. KnownTo(p)' \subseteq Known
  BY <1>2, <1>4, NoneIsNothing DEF KnownTo, Known, InRows, Values
<1> QED
  BY <1>1, <1>2, <1>3, <1>4, <1>6, <1>7, RunStepKeeps DEF Known, Typed

LEMMA AskScanKeeps ==
  ASSUME CacheAssumption, Inv, NEW p \in Procs, AskScan(p) PROVE Inv' /\ MapStep
<1> USE DEF Inv
<1>1. /\ at[p] = "measure" /\ Asks(p, <<"scan">>, "lookup")
      /\ UNCHANGED <<command, scans, tag, mem, result>>
  BY DEF AskScan, Rest
<1>2. /\ MapStep /\ UNCHANGED <<rows, now>> /\ UnderTheirKeys' /\ InRows' = InRows
      /\ at' = [at EXCEPT ![p] = "lookup"]
      /\ answer' \in [Procs -> Values \cup {None}] /\ pending' \in [Procs -> Nat \cup {None}]
      /\ \A q \in Procs \ {p} : answer'[q] = answer[q]
      /\ answer'[p] # None => <<"scan">> \in Present /\ answer'[p] = rows[<<"scan">>].value
  BY <1>1, Asked, KeysDiffer DEF Places
<1>3. Typed' /\ OnlyMoves(p)
  BY <1>1, <1>2 DEF Typed, OnlyMoves, Places
<1>4. at'[p] = "lookup" /\ command = "recommend" /\ Local(p)
  BY <1>1, <1>2 DEF Typed, Local
<1>5. answer'[p] \in Scans \cup {Garbage, None}
  BY <1>2 DEF UnderTheirKeys
<1>6. Local(p)'
  BY <1>1, <1>4, <1>5 DEF Local
<1>7. KnownTo(p)' \subseteq Known
  BY <1>2, <1>4, NoneIsNothing DEF KnownTo, Known, InRows, Values
<1> QED
  BY <1>1, <1>2, <1>3, <1>4, <1>6, <1>7, RunStepKeeps DEF Known, Typed

LEMMA Discarded == ASSUME CacheAssumption, Inv, NEW p \in Procs, Discard(p) PROVE Gone
  BY GoneWhen DEF Discard

\* A raw scan that is accepted is a scan: damage and absence are refused.
LEMMA HitIsScan ==
  ASSUME CacheAssumption, NEW p \in Procs, NEW s \in Scans \cup {Garbage, None}, NEW t,
         Usable(p, s, t)
  PROVE  s \in Scans
  BY DEF Usable, ScanRefused, CacheAssumption

LEMMA ScanForEvaluationKeeps ==
  ASSUME CacheAssumption, Inv, NEW p \in Procs, ScanForEvaluation(p) PROVE Inv' /\ MapStep
<1> USE DEF Inv
<1>1. /\ at[p] = "evaluation" /\ Local(p) /\ command = "recommend"
      /\ answer[p] \in Scans \cup {Garbage, None}
      /\ UNCHANGED <<command, scans, tag, result>>
  BY DEF ScanForEvaluation, Returned, Rest, Local
<1>2. CASE Refused(p) = "HIT"
  <2>1. /\ Asks(p, EvalKey(p), "served")
        /\ mem' = [mem EXCEPT ![p] = [scan |-> answer[p], read |-> now]]
    BY <1>2 DEF ScanForEvaluation, Keeps
  <2>2. /\ MapStep /\ UNCHANGED <<rows, now>> /\ UnderTheirKeys' /\ InRows' = InRows
        /\ at' = [at EXCEPT ![p] = "served"]
        /\ answer' \in [Procs -> Values \cup {None}] /\ pending' \in [Procs -> Nat \cup {None}]
        /\ \A q \in Procs \ {p} : answer'[q] = answer[q]
        /\ answer'[p] # None => EvalKey(p) \in Present /\ answer'[p] = rows[EvalKey(p)].value
    BY <2>1, Asked, KeysDiffer DEF Places
  <2>3. Typed' /\ OnlyMoves(p)
    BY <1>1, <2>1, <2>2 DEF Typed, OnlyMoves, Places
  <2>4. at'[p] = "served" /\ mem'[p] = [scan |-> answer[p], read |-> now]
    BY <2>1, <2>2 DEF Typed
  <2>5. answer'[p] \in EvaluationsOfScans \cup {None}
    BY <2>2 DEF UnderTheirKeys
  <2>6. mem'[p].scan = answer[p] /\ answer[p] \in Scans /\ Usable(p, mem'[p].scan, mem'[p].read)
    BY <1>1, <1>2, <2>4, HitIsScan DEF Refused, Usable
  <2>7. Local(p)'
    BY <1>1, <2>4, <2>5, <2>6 DEF Local
  <2>8. answer[p] \in KnownTo(p)
    BY <1>1, <2>6 DEF KnownTo
  <2>9. KnownTo(p)' \subseteq Known
    BY <2>2, <2>4, <2>6, <2>8 DEF KnownTo, Known, InRows
  <2> QED
    BY <1>1, <2>2, <2>3, <2>4, <2>7, <2>9, RunStepKeeps DEF Known, Typed
<1>3. CASE Refused(p) # "HIT"
  <2>1. Discard(p) /\ at' = [at EXCEPT ![p] = "measure"] /\ UNCHANGED mem
    BY <1>3 DEF ScanForEvaluation, Goto
  <2>2. Gone
    BY <2>1, Discarded
  <2>3. Typed' /\ OnlyMoves(p) /\ at'[p] = "measure"
    BY <1>1, <2>1, <2>2 DEF Typed, OnlyMoves, Places, Gone
  <2>4. Local(p)'
    BY <1>1, <2>1, <2>3 DEF Local
  <2>5. KnownTo(p)' = {}
    BY <2>3 DEF KnownTo
  <2> QED
    BY <1>1, <2>2, <2>3, <2>4, <2>5, RunStepKeeps DEF Known, Gone
<1> QED
  BY <1>2, <1>3

LEMMA LookUpKeeps ==
  ASSUME CacheAssumption, Inv, NEW p \in Procs, LookUp(p) PROVE Inv' /\ MapStep
<1> USE DEF Inv
<1>1. /\ at[p] = "lookup" /\ Local(p) /\ command = "recommend" /\ Discard(p)
      /\ answer[p] \in Scans \cup {Garbage, None}
      /\ UNCHANGED <<command, scans, tag, result>>
  BY DEF LookUp, Returned, Rest, Local
<1>2. Gone
  BY <1>1, Discarded
<1>3. CASE Refused(p) = "HIT"
  <2>1. at' = [at EXCEPT ![p] = "evaluate"] /\ mem' = [mem EXCEPT ![p] = answer[p]]
    BY <1>3 DEF LookUp, Goto, Keeps
  <2>2. Typed' /\ OnlyMoves(p) /\ at'[p] = "evaluate" /\ mem'[p] = answer[p]
    BY <1>1, <1>2, <2>1 DEF Typed, OnlyMoves, Places, Gone
  <2>3. answer[p] \in Scans
    BY <1>1, <1>3, HitIsScan DEF Refused, Usable
  <2>4. Local(p)'
    BY <1>1, <2>2, <2>3 DEF Local
  <2>5. answer[p] \in KnownTo(p)
    BY <1>1, <2>3 DEF KnownTo
  <2>6. KnownTo(p)' \subseteq Known
    BY <2>2, <2>5 DEF KnownTo, Known
  <2> QED
    BY <1>1, <1>2, <2>2, <2>4, <2>6, RunStepKeeps DEF Known, Gone
<1>4. CASE Refused(p) # "HIT"
  <2>1. at' = [at EXCEPT ![p] = "scan"] /\ UNCHANGED mem
    BY <1>4 DEF LookUp, Goto
  <2>2. Typed' /\ OnlyMoves(p) /\ at'[p] = "scan"
    BY <1>1, <1>2, <2>1 DEF Typed, OnlyMoves, Places, Gone
  <2>3. Local(p)'
    BY <1>1, <2>1, <2>2 DEF Local
  <2>4. KnownTo(p)' = {}
    BY <2>2 DEF KnownTo
  <2> QED
    BY <1>1, <1>2, <2>2, <2>3, <2>4, RunStepKeeps DEF Known, Gone
<1> QED
  BY <1>3, <1>4
-----------------------------------------------------------------------------
(***************************************************************************)
(* Histories.  Pruning keeps the first observation and the latest ones.    *)
(***************************************************************************)
LEMMA PruningKeepsEnds ==
  ASSUME MaxObservations \in Nat, NEW S, NEW s \in Seq(S), s # <<>>
  PROVE  /\ Pruned(s) \in Seq(S) /\ Len(Pruned(s)) \in 1..Len(s) /\ Pruned(s)[1] = s[1]
         /\ \A i \in 2..Len(Pruned(s)) : Pruned(s)[i] = s[Len(s) - Len(Pruned(s)) + i]
<1> DEFINE n == Len(s)
           over == n - MaxObservations
           rest == SubSeq(s, over + 2, n)
<1>1. n \in Nat /\ n >= 1 /\ over \in Int /\ over <= n
  OBVIOUS
<1>2. CASE over <= 0
  BY <1>1, <1>2 DEF Pruned
<1>3. CASE over > 0
  <2>1. Pruned(s) = <<Head(s)>> \o rest
    BY <1>3 DEF Pruned
  <2>2. /\ rest \in Seq(S) /\ Len(rest) = IF over = n THEN 0 ELSE n - over - 1
        /\ \A i \in 1..Len(rest) : rest[i] = s[over + 1 + i]
    BY <1>1, <1>3
  <2> HIDE DEF rest
  <2>3. Head(s) = s[1] /\ Head(s) \in S
    BY <1>1
  <2>4. /\ Pruned(s) \in Seq(S) /\ Len(Pruned(s)) = 1 + Len(rest) /\ Pruned(s)[1] = s[1]
        /\ \A i \in 2..Len(Pruned(s)) : Pruned(s)[i] = rest[i - 1]
    BY <2>1, <2>2, <2>3
  <2>5. Len(Pruned(s)) \in 1..n
    BY <1>1, <1>3, <2>2, <2>4
  <2>6. ASSUME NEW i \in 2..Len(Pruned(s)) PROVE Pruned(s)[i] = s[n - Len(Pruned(s)) + i]
    <3>1. Len(rest) # 0 /\ Len(Pruned(s)) = n - over
      BY <1>1, <1>3, <2>2, <2>4
    <3>2. i - 1 \in 1..Len(rest) /\ over + 1 + (i - 1) = n - Len(Pruned(s)) + i
      BY <1>1, <2>2, <2>4, <3>1
    <3> QED
      BY <2>2, <2>4, <3>2
  <2> QED
    BY <2>4, <2>5, <2>6
<1> QED
  BY <1>1, <1>2, <1>3

\* record: what is recorded, the history tells.
LEMMA RecordTells ==
  ASSUME CacheAssumption, NEW t \in Nat, NEW what \in Digests \cup {None}, NEW h, Told(h, t)
  PROVE  Told(Record(h, what, t), t)
<1>1. CASE what = NoValue \/ Unchanged(h, what)
  BY <1>1 DEF Record
<1>2. CASE ~(what = NoValue \/ Unchanged(h, what))
  <2> DEFINE o == [what |-> what, at |-> t]
             seen == Append(h.seen, o)
             new == Pruned(seen)
             chain == Append(h.chain, o)
             n == Len(h.seen)
             m == Len(h.chain)
             k == Len(new)
             record == [seen |-> new, dropped |-> h.dropped + Len(seen) - k, chain |-> chain]
  <2>1. Record(h, what, t) = record
    BY <1>2 DEF Record
  <2>2. o \in Observations /\ o.at = t
    BY <1>2 DEF Observations, CacheAssumption
  <2>3. /\ h.seen \in Seq(Observations) /\ h.chain \in Seq(Observations) /\ h.dropped \in Nat
        /\ n \in Nat /\ m \in Nat
    BY DEF Told, Histories
  <2>4. m = n + h.dropped /\ (n = 0 => h.seen = <<>>)
    <3>1. n = 0 => h.seen = <<>>
      BY <2>3
    <3>2. n = 0 => m = 0 /\ h.dropped = 0
      BY <3>1 DEF Told
    <3>3. n # 0 => h.seen # <<>> /\ n > 0
      BY <2>3
    <3>4. n # 0 => m - 1 = n - 1 + h.dropped
      BY <3>3 DEF Told, Honest, Moves
    <3>5. n \in Nat /\ m \in Nat /\ h.dropped \in Nat
      BY <2>3
    <3> HIDE DEF n, m
    <3> QED
      BY <3>1, <3>2, <3>4, <3>5
  <2>5. /\ seen \in Seq(Observations) /\ Len(seen) = n + 1 /\ seen # <<>> /\ seen[n + 1] = o
        /\ \A i \in 1..n : seen[i] = h.seen[i]
    BY <2>2, <2>3
  <2>6. /\ chain \in Seq(Observations) /\ Len(chain) = m + 1 /\ chain[m + 1] = o
        /\ \A i \in 1..m : chain[i] = h.chain[i]
    BY <2>2, <2>3
  <2> HIDE DEF o, seen, chain
  <2>7. /\ new \in Seq(Observations) /\ k \in 1..(n + 1) /\ new[1] = seen[1]
        /\ \A i \in 2..k : new[i] = seen[n + 1 - k + i]
    <3>1. MaxObservations \in Nat
      BY DEF CacheAssumption
    <3>2. /\ new \in Seq(Observations) /\ k \in 1..Len(seen) /\ new[1] = seen[1]
          /\ \A i \in 2..k : new[i] = seen[Len(seen) - k + i]
      BY <2>5, <3>1, PruningKeepsEnds
    <3> QED
      BY <2>5, <3>2
  <2> HIDE DEF new
  <2>8. record \in Histories /\ record.seen = new /\ record.chain = chain
        /\ record.dropped = h.dropped + (n + 1 - k)
    <3> DEFINE d == h.dropped + Len(seen) - k
    <3>1. d = h.dropped + (n + 1 - k) /\ d \in Nat
      <4>1. Len(seen) = n + 1 /\ k \in 1..(n + 1) /\ n \in Nat /\ h.dropped \in Nat
        BY <2>3, <2>5, <2>7
      <4> HIDE DEF n, k
      <4> QED
        BY <4>1
    <3>2. record = [seen |-> new, dropped |-> d, chain |-> chain]
      OBVIOUS
    <3> HIDE DEF d, record
    <3> QED
      BY <2>6, <2>7, <3>1, <3>2 DEF Histories
  <2> HIDE DEF record
  <2>9a. /\ n = 0 => h.seen = <<>> /\ h.chain = <<>>
         /\ n # 0 => h.seen[1] = h.chain[1] /\ m >= 1
         /\ \A i \in 2..n : h.seen[i] = h.chain[m - n + i]
         /\ \A i, j \in 1..n : i <= j => h.seen[i].at <= h.seen[j].at /\ h.seen[j].at <= t
    <3>1. n = 0 => h.seen = <<>> /\ h.chain = <<>>
      BY <2>4 DEF Told
    <3>2. n # 0 => h.seen[1] = h.chain[1] /\ m >= 1
      <4>1. n # 0 => n > 0 /\ h.seen # <<>> /\ m >= 1
        BY <2>3, <2>4
      <4>2. n # 0 => Head(h.seen) = Head(h.chain)
        BY <4>1 DEF Told, Honest
      <4> QED
        BY <2>3, <4>1, <4>2
    <3>3. \A i \in 2..n : h.seen[i] = h.chain[m - n + i]
      BY DEF Told, Honest
    <3>4. \A i, j \in 1..n : i <= j => h.seen[i].at <= h.seen[j].at /\ h.seen[j].at <= t
      BY DEF Told, InOrder
    <3> QED
      BY <3>1, <3>2, <3>3, <3>4
  <2>9b. /\ Len(new) = k /\ Len(chain) = m + 1 /\ n \in Nat /\ m \in Nat /\ k \in Nat
         /\ h.dropped \in Nat /\ (n = 0 => m = 0)
    BY <2>3, <2>6, <2>7, <2>9a
  <2> HIDE DEF n, m, k
  <2>9. new[1] = chain[1]
    <3>1. CASE n = 0
      BY <2>5, <2>6, <2>7, <2>9b, <3>1
    <3>2. CASE n # 0
      <4>1. 1 \in 1..n /\ 1 \in 1..m
        BY <2>9a, <2>9b, <3>2
      <4> QED
        BY <2>5, <2>6, <2>7, <2>9a, <3>2, <4>1
    <3> QED
      BY <3>1, <3>2
  <2>10. ASSUME NEW i \in 2..k PROVE new[i] = chain[m + 1 - k + i]
    <3> DEFINE j == n + 1 - k + i
    <3>1. new[i] = seen[j] /\ j \in 2..(n + 1) /\ m + 1 - k + i = m - n + j
      BY <2>7, <2>9b
    <3> HIDE DEF j
    <3>2. CASE j = n + 1
      BY <2>5, <2>6, <2>9b, <3>1, <3>2
    <3>3. CASE j # n + 1
      <4>1. j \in 2..n /\ m - n + j \in 1..m
        <5>1. m = n + h.dropped /\ h.dropped \in Nat /\ n \in Nat /\ m \in Nat
          BY <2>4, <2>9b
        <5> QED
          BY <3>1, <3>3, <5>1
      <4>2. h.seen[j] = h.chain[m - n + j]
        BY <2>9a, <4>1
      <4> QED
        BY <2>5, <2>6, <3>1, <4>1, <4>2
    <3> QED
      BY <3>2, <3>3
  <2>11. ASSUME NEW i \in 1..(n + 1), NEW j \in 1..(n + 1), i <= j
         PROVE  seen[i].at <= seen[j].at /\ seen[j].at <= t
    <3>1. CASE j = n + 1
      <4>1. CASE i = n + 1
        BY <2>2, <2>5, <2>9b, <3>1, <4>1
      <4>2. CASE i # n + 1
        <5>1. i \in 1..n
          BY <2>9b, <4>2
        <5>2. h.seen[i].at <= t
          BY <2>9a, <5>1
        <5> QED
          BY <2>2, <2>5, <3>1, <5>1, <5>2
      <4> QED
        BY <4>1, <4>2
    <3>2. CASE j # n + 1
      <4>1. i \in 1..n /\ j \in 1..n
        BY <2>9b, <2>11, <3>2
      <4> QED
        BY <2>5, <2>9a, <2>11, <4>1
    <3> QED
      BY <3>1, <3>2
  <2>12. ASSUME NEW i \in 1..k, NEW j \in 1..k, i <= j
         PROVE  new[i].at <= new[j].at /\ new[j].at <= t
    <3> DEFINE place(x) == IF x = 1 THEN 1 ELSE n + 1 - k + x
    <3>1. /\ new[i] = seen[place(i)] /\ new[j] = seen[place(j)]
          /\ place(i) \in 1..(n + 1) /\ place(j) \in 1..(n + 1) /\ place(i) <= place(j)
      BY <2>7, <2>9b, <2>12
    <3> QED
      BY <2>11, <3>1
  <2>13. InOrder(record, t)
    BY <2>8, <2>9b, <2>12 DEF InOrder
  <2>14. Honest(record)
    <3>1. Head(new) = Head(chain) /\ new # <<>>
      BY <2>6, <2>7, <2>9b, <2>9
    <3>2. Moves(record) = m + 1 - 1
      BY <2>3, <2>4, <2>7, <2>8, <2>9b, <3>1 DEF Moves
    <3>3. \A i \in 2..k : new[i - 1].at <= new[i].at
      BY <2>9b, <2>12
    <3> QED
      BY <2>8, <2>9b, <2>10, <3>1, <3>2, <3>3 DEF Honest
  <2> QED
    BY <2>1, <2>7, <2>8, <2>9b, <2>13, <2>14 DEF Told
<1> QED
  BY <1>1, <1>2
-----------------------------------------------------------------------------
(***************************************************************************)
(* Serving, scanning and storing.                                          *)
(***************************************************************************)
LEMMA RowsStay ==
  ASSUME Inv, UNCHANGED <<rows, now>>
  PROVE  UnderTheirKeys' /\ InRows' = InRows
  BY DEF Inv, UnderTheirKeys, InRows, Present

LEMMA ServeKeeps ==
  ASSUME CacheAssumption, Inv, NEW p \in Procs, Serve(p) PROVE Inv' /\ MapStep
<1> USE DEF Inv
<1>1. /\ at[p] = "served" /\ Local(p) /\ command = "recommend"
      /\ answer[p] \in EvaluationsOfScans \cup {None}
      /\ mem[p].scan \in Scans /\ Usable(p, mem[p].scan, mem[p].read)
      /\ UNCHANGED <<rows, now, pending, answer, command, scans, tag>>
  BY DEF Serve, Returned, Rest, Local, cacheVars
<1>2. MapStep /\ UnderTheirKeys' /\ InRows' = InRows
  BY <1>1, QuietIsStutter, RowsStay
<1>3. CASE EvaluationRefused(answer[p], mem[p].scan, now) = "HIT"
  <2> DEFINE r == [row |-> answer[p], read |-> mem[p].read, at |-> now]
  <2>1. result' = [result EXCEPT ![p] = r] /\ at' = [at EXCEPT ![p] = "idle"]
        /\ mem' = [mem EXCEPT ![p] = None]
    BY <1>3 DEF Serve, Done, Goto, Keeps
  <2>2. r.row = answer[p] /\ r.read = mem[p].read /\ r.at = now
    OBVIOUS
  <2> HIDE DEF r
  <2>3. Typed' /\ OnlyMoves(p) /\ at'[p] = "idle" /\ result'[p] = r
    BY <1>1, <2>1 DEF Typed, OnlyMoves, Places
  <2>4. answer[p] \in EvaluationsOfScans /\ answer[p] # None
    BY <1>1, <1>3 DEF EvaluationRefused, CacheAssumption, EvaluationsOfScans, Values
  <2>5. answer[p].measured = mem[p].scan.measured
    BY <1>3, <2>4 DEF EvaluationRefused
  <2>6. answer[p].of \in KnownTo(p) /\ mem[p].scan \in KnownTo(p)
    BY <1>1, <2>4 DEF KnownTo, EvaluationsOfScans, Evaluations
  <2>7. answer[p].of = mem[p].scan
    BY <2>4, <2>5, <2>6 DEF Numbering, Known, EvaluationsOfScans
  <2>8. answer[p].intel # None => now - answer[p].intel <= IntelMaxAge
    <3>1. answer[p].intel # None => ~(now - answer[p].intel > IntelMaxAge)
      BY <1>3, <2>4 DEF EvaluationRefused, CacheAssumption, EvaluationsOfScans
    <3>2. answer[p].intel \in Nat \cup {None} /\ now \in Nat /\ IntelMaxAge \in Nat
      BY <2>4 DEF EvaluationsOfScans, Evaluations, Typed, CacheAssumption
    <3> QED
      BY <3>1, <3>2
  <2>9. Served(p, r)
    BY <1>1, <2>2, <2>7, <2>8 DEF Served
  <2>10. Local(p)'
    BY <1>1, <2>3, <2>9 DEF Local
  <2>11. KnownTo(p)' = {}
    BY <2>3 DEF KnownTo
  <2> QED
    BY <1>1, <1>2, <2>3, <2>10, <2>11, RunStepKeeps DEF Known, Typed
<1>4. CASE EvaluationRefused(answer[p], mem[p].scan, now) # "HIT"
  <2>1. UNCHANGED result /\ at' = [at EXCEPT ![p] = "measure"] /\ mem' = [mem EXCEPT ![p] = None]
    BY <1>4 DEF Serve, Goto, Keeps
  <2>2. Typed' /\ OnlyMoves(p) /\ at'[p] = "measure"
    BY <1>1, <2>1 DEF Typed, OnlyMoves, Places
  <2>3. Local(p)'
    BY <1>1, <2>1, <2>2 DEF Local
  <2>4. KnownTo(p)' = {}
    BY <2>2 DEF KnownTo
  <2> QED
    BY <1>1, <1>2, <2>2, <2>3, <2>4, RunStepKeeps DEF Known, Typed
<1> QED
  BY <1>3, <1>4

LEMMA ScanKeeps ==
  ASSUME CacheAssumption, Inv, NEW p \in Procs, Scan(p) PROVE Inv' /\ MapStep
<1> USE DEF Inv
<1>1. /\ at[p] = "scan" /\ Local(p) /\ command = "recommend"
      /\ UNCHANGED <<rows, now, pending, answer, command, result, tag>>
  BY DEF Scan, Local, cacheVars
<1>2. MapStep /\ UnderTheirKeys' /\ InRows' = InRows
  BY <1>1, QuietIsStutter, RowsStay
<1>3. CASE scans' = scans + 1 /\ Keeps(p, scans + 1) /\ Goto(p, "put")
  <2>1. scans' = scans + 1 /\ at' = [at EXCEPT ![p] = "put"] /\ mem' = [mem EXCEPT ![p] = scans + 1]
    BY <1>3 DEF Keeps, Goto
  <2>2. Typed' /\ OnlyMoves(p) /\ at'[p] = "put" /\ mem'[p] = scans + 1 /\ scans \in Nat
    <3>1. scans \in Nat /\ scans' \in Nat
      BY <2>1 DEF Typed
    <3>2. at' \in [Procs -> Places] /\ mem' = [q \in Procs |-> mem'[q]]
      BY <2>1 DEF Typed, Places
    <3>3. Typed'
      BY <1>1, <3>1, <3>2 DEF Typed
    <3>4. /\ at'[p] = "put" /\ mem'[p] = scans + 1
          /\ \A q \in Procs \ {p} : at'[q] = at[q] /\ mem'[q] = mem[q]
      BY <2>1 DEF Typed
    <3> QED
      BY <1>1, <3>1, <3>3, <3>4 DEF OnlyMoves
  <2>3. Local(p)'
    BY <1>1, <2>1, <2>2 DEF Local
  <2>4. KnownTo(p)' = {}
    BY <2>2 DEF KnownTo
  <2>5. /\ \A q \in Procs \ {p} : Local(q)' /\ KnownTo(q)' = KnownTo(q)
        /\ Known' = InRows' \cup KnownTo(p)' \cup UNION {KnownTo(q) : q \in Procs \ {p}}
    BY <1>1, <2>1, <2>2, OthersKeep DEF Typed
  <2>6. Known' \subseteq Known /\ \A s \in Known : s.measured \in Nat /\ s.measured <= scans
    BY <1>2, <2>4, <2>5 DEF Known, Numbering, InRows, KnownTo, Scans
  <2>7. \A q \in Procs \ {p} :
          at'[q] = "put" => at[q] = "put" /\ mem'[q] = mem[q] /\ mem[q] \in 1..scans
    BY <2>2 DEF OnlyMoves, Local
  <2>8. Numbering'
    <3>1. \A s, z \in Known' : s.measured = z.measured => s = z
      BY <2>6 DEF Numbering
    <3>2. \A s \in Known' : s.measured <= scans'
      BY <2>1, <2>2, <2>6
    <3>3. ASSUME NEW s \in Known', NEW q \in Procs, at'[q] = "put" PROVE mem'[q] # s.measured
      BY <2>2, <2>6, <2>7, <3>3 DEF Numbering
    <3>4. ASSUME NEW q \in Procs, NEW o \in Procs,
                 at'[q] = "put", at'[o] = "put", mem'[q] = mem'[o]
          PROVE  q = o
      BY <2>2, <2>7, <3>4 DEF Numbering
    <3> QED
      BY <3>1, <3>2, <3>3, <3>4 DEF Numbering
  <2> QED
    BY <1>2, <2>2, <2>3, <2>5, <2>8
<1>4. CASE Done(p) /\ UNCHANGED scans
  <2>1. at' = [at EXCEPT ![p] = "idle"] /\ mem' = [mem EXCEPT ![p] = None] /\ UNCHANGED scans
    BY <1>4 DEF Done, Keeps, Goto
  <2>2. Typed' /\ OnlyMoves(p) /\ at'[p] = "idle"
    BY <1>1, <2>1 DEF Typed, OnlyMoves, Places
  <2>3. Local(p)'
    BY <1>1, <2>1, <2>2 DEF Local
  <2>4. KnownTo(p)' = {}
    BY <2>2 DEF KnownTo
  <2>5. InRows' \subseteq Known /\ KnownTo(p)' \subseteq Known /\ now <= now'
    BY <1>1, <1>2, <2>4 DEF Known, Typed
  <2> QED
    BY <1>1, <1>2, <2>1, <2>2, <2>3, <2>5, RunStepKeeps
<1> QED
  BY <1>3, <1>4 DEF Scan

LEMMA PutScanKeeps ==
  ASSUME CacheAssumption, Inv, NEW p \in Procs, PutScan(p) PROVE Inv' /\ MapStep
<1> USE DEF Inv
<1> DEFINE new == ScanRow(Fingerprint[p], mem[p], now)
           ttl == TtlOf(Fingerprint[p])
<1>1. /\ at[p] = "put" /\ Local(p) /\ command = "recommend" /\ mem[p] \in 1..scans
      /\ UNCHANGED <<command, scans, tag, result>>
      /\ Writes(<<"scan">>, new, ttl)
      /\ at' = [at EXCEPT ![p] = "evaluate"] /\ mem' = [mem EXCEPT ![p] = new]
  BY DEF PutScan, Goto, Keeps, Rest, Local
<1>2. ttl \in Nat /\ now \in Nat /\ scans \in Nat
  BY DEF TtlOf, CacheAssumption, Typed
<1>3. new \in Scans /\ new \in Values /\ new.measured = mem[p]
  <2>1. mem[p] \in Nat /\ now + ttl \in Nat
    BY <1>1, <1>2
  <2> HIDE DEF ttl
  <2>2. new = [version |-> Fingerprint[p].version, rev |-> Fingerprint[p].rev, measured |-> mem[p],
               stored |-> now, until |-> now + ttl]
    BY DEF ScanRow, ttl
  <2> HIDE DEF new
  <2> QED
    BY <1>2, <2>1, <2>2 DEF Scans, Values
<1> HIDE DEF new, ttl
<1>4. /\ MapStep /\ rows' \in [Keys -> Rows \cup {None}] /\ UNCHANGED <<now, pending, answer>>
      /\ \A j \in Keys \ {<<"scan">>} : rows'[j] = rows[j]
      /\ \/ rows'[<<"scan">>] = rows[<<"scan">>]
         \/ rows'[<<"scan">>] # None /\ rows'[<<"scan">>].value = new
  BY <1>1, <1>2, <1>3, Wrote, KeysDiffer
<1>5. Typed' /\ OnlyMoves(p) /\ at'[p] = "evaluate" /\ mem'[p] = new
  BY <1>1, <1>4 DEF Typed, OnlyMoves, Places
<1>6. UnderTheirKeys'
  BY <1>3, <1>4, KeysDiffer DEF UnderTheirKeys, Present
<1>7. Local(p)'
  BY <1>1, <1>3, <1>5 DEF Local
<1>8. InRows' \subseteq InRows \cup {new} /\ KnownTo(p)' \subseteq {new}
  BY <1>4, <1>5, KeysDiffer DEF InRows, Present, KnownTo
<1>9. /\ \A q \in Procs \ {p} : Local(q)' /\ KnownTo(q)' = KnownTo(q)
      /\ Known' = InRows' \cup KnownTo(p)' \cup UNION {KnownTo(q) : q \in Procs \ {p}}
  BY <1>1, <1>2, <1>4, <1>5, OthersKeep
<1>10. Known' \subseteq Known \cup {new}
  BY <1>8, <1>9 DEF Known
<1>11. \A q \in Procs : at'[q] = "put" => q # p /\ at[q] = "put" /\ mem'[q] = mem[q]
  BY <1>5 DEF OnlyMoves
<1>12. \A s \in Known : s.measured # new.measured
  BY <1>1, <1>3 DEF Numbering
<1>13. Numbering'
  <2>1. \A s, z \in Known' : s.measured = z.measured => s = z
    BY <1>10, <1>12 DEF Numbering
  <2>2. \A s \in Known' : s.measured <= scans'
    BY <1>1, <1>3, <1>10 DEF Numbering
  <2>3. \A s \in Known', q \in Procs : at'[q] = "put" => mem'[q] # s.measured
    BY <1>1, <1>3, <1>10, <1>11 DEF Numbering
  <2>4. \A q, o \in Procs : at'[q] = "put" /\ at'[o] = "put" /\ mem'[q] = mem'[o] => q = o
    BY <1>11 DEF Numbering
  <2> QED
    BY <2>1, <2>2, <2>3, <2>4 DEF Numbering
<1> QED
  BY <1>4, <1>5, <1>6, <1>7, <1>9, <1>13

LEMMA PutEvaluationKeeps ==
  ASSUME CacheAssumption, Inv, NEW p \in Procs, PutEvaluation(p) PROVE Inv' /\ MapStep
<1> USE DEF Inv
<1>1. /\ at[p] = "evaluate" /\ Local(p) /\ command = "recommend" /\ mem[p] \in Scans
      /\ UNCHANGED <<command, scans, tag, result>>
      /\ at' = [at EXCEPT ![p] = "idle"] /\ mem' = [mem EXCEPT ![p] = None]
  BY DEF PutEvaluation, Done, Goto, Keeps, Rest, Local
<1>2. mem[p] \in KnownTo(p)
  BY <1>1 DEF KnownTo
<1>3. PICK intel \in {None, now} :
        Writes(EvalKey(p), EvaluationRow(mem[p], intel), ScanTtl) \/ UNCHANGED cacheVars
  BY DEF PutEvaluation
<1> DEFINE e == EvaluationRow(mem[p], intel)
<1>4. e \in EvaluationsOfScans /\ e \in Values /\ e.of = mem[p]
  <2>1. mem[p].measured \in Nat /\ intel \in Nat \cup {None}
    BY <1>1, <1>3 DEF Scans, Typed
  <2>2. e = [measured |-> mem[p].measured, intel |-> intel, of |-> mem[p]]
    BY DEF EvaluationRow
  <2> HIDE DEF e
  <2>3. e \in Evaluations /\ e.of = mem[p] /\ e.measured = mem[p].measured
    BY <1>1, <2>1, <2>2 DEF Evaluations
  <2> QED
    BY <2>3 DEF EvaluationsOfScans, Values
<1> HIDE DEF e
<1>5. /\ MapStep /\ rows' \in [Keys -> Rows \cup {None}] /\ UNCHANGED <<now, pending, answer>>
      /\ \A j \in Keys \ {EvalKey(p)} : rows'[j] = rows[j]
      /\ \/ rows'[EvalKey(p)] = rows[EvalKey(p)]
         \/ rows'[EvalKey(p)] # None /\ rows'[EvalKey(p)].value = e
  <2>1. CASE Writes(EvalKey(p), e, ScanTtl)
    <3>1. ScanTtl \in Nat
      BY DEF CacheAssumption
    <3> QED
      BY <1>4, <2>1, <3>1, Wrote, KeysDiffer
  <2>2. CASE UNCHANGED cacheVars
    BY <2>2, QuietIsStutter DEF cacheVars, Typed
  <2> QED
    BY <1>3, <2>1, <2>2 DEF e
<1>6. Typed' /\ OnlyMoves(p) /\ at'[p] = "idle"
  BY <1>1, <1>5 DEF Typed, OnlyMoves, Places
<1>7. UnderTheirKeys'
  BY <1>4, <1>5, KeysDiffer DEF UnderTheirKeys, Present
<1>8. Local(p)'
  BY <1>1, <1>6 DEF Local
<1>9. InRows' \subseteq InRows \cup {mem[p]} /\ KnownTo(p)' = {}
  BY <1>4, <1>5, <1>6, KeysDiffer DEF InRows, Present, KnownTo
<1>10. InRows' \subseteq Known /\ KnownTo(p)' \subseteq Known /\ now <= now'
  BY <1>2, <1>5, <1>9 DEF Known, Typed
<1> QED
  BY <1>1, <1>5, <1>6, <1>7, <1>8, <1>10, RunStepKeeps

-----------------------------------------------------------------------------
(***************************************************************************)
(* observe, and what is no run's step.                                     *)
(***************************************************************************)
LEMMA ResolveKeeps ==
  ASSUME CacheAssumption, Inv, NEW p \in Procs, Resolve(p) PROVE Inv' /\ MapStep
<1> USE DEF Inv
<1>1. /\ command = "base" /\ result' = [result EXCEPT ![p] = None]
      /\ at' = [at EXCEPT ![p] = "observe"]
      /\ UNCHANGED <<rows, now, pending, answer, command, scans, tag>>
  BY DEF Resolve, Begin, Goto, cacheVars
<1>2. PICK d \in Digests \cup {None} : mem' = [mem EXCEPT ![p] = d]
  BY DEF Resolve, Keeps, Typed
<1>3. MapStep /\ UnderTheirKeys' /\ InRows' = InRows
  BY <1>1, QuietIsStutter, RowsStay
<1>4. Typed' /\ OnlyMoves(p) /\ at'[p] = "observe" /\ result'[p] = None /\ mem'[p] = d
  BY <1>1, <1>2 DEF Typed, OnlyMoves, Places
<1>5. Local(p)'
  BY <1>1, <1>4 DEF Local
<1>6. InRows' \subseteq Known /\ KnownTo(p)' \subseteq Known /\ now <= now'
  BY <1>1, <1>3, <1>4 DEF Known, KnownTo, Typed
<1> QED
  BY <1>1, <1>3, <1>4, <1>5, <1>6, RunStepKeeps

LEMMA AskHistoryKeeps ==
  ASSUME CacheAssumption, Inv, NEW p \in Procs, AskHistory(p) PROVE Inv' /\ MapStep
<1> USE DEF Inv
<1>1. /\ at[p] = "observe" /\ Local(p) /\ command = "base" /\ Asks(p, <<"history">>, "record")
      /\ UNCHANGED <<command, scans, tag, mem, result>>
  BY DEF AskHistory, Rest, Local
<1>2. /\ MapStep /\ UNCHANGED <<rows, now>> /\ UnderTheirKeys' /\ InRows' = InRows
      /\ at' = [at EXCEPT ![p] = "record"]
      /\ answer' \in [Procs -> Values \cup {None}] /\ pending' \in [Procs -> Nat \cup {None}]
      /\ \A q \in Procs \ {p} : answer'[q] = answer[q]
      /\ answer'[p] # None => <<"history">> \in Present /\ answer'[p] = rows[<<"history">>].value
  BY <1>1, Asked, KeysDiffer DEF Places
<1>3. Typed' /\ OnlyMoves(p) /\ at'[p] = "record"
  BY <1>1, <1>2 DEF Typed, OnlyMoves, Places
<1>4. answer'[p] \in {Garbage, None} \/ Told(answer'[p], now')
  BY <1>2 DEF UnderTheirKeys
<1>5. Local(p)'
  BY <1>1, <1>2, <1>3, <1>4 DEF Local
<1>6. InRows' \subseteq Known /\ KnownTo(p)' \subseteq Known /\ now <= now'
  BY <1>2, <1>3 DEF Known, KnownTo, Typed
<1> QED
  BY <1>1, <1>2, <1>3, <1>5, <1>6, RunStepKeeps

LEMMA NoHistoryTells == ASSUME NEW t \in Nat PROVE Told(NoHistory, t)
<1>1. NoHistory \in Histories
  BY DEF NoHistory, Histories
<1>2. NoHistory.seen = <<>> /\ NoHistory.chain = <<>> /\ NoHistory.dropped = 0
  BY DEF NoHistory
<1>3. Len(NoHistory.seen) = 0 /\ 1..0 = {} /\ 2..0 = {}
  BY <1>2
<1>4. Honest(NoHistory) /\ InOrder(NoHistory, t)
  BY <1>3 DEF Honest, InOrder
<1> QED
  BY <1>1, <1>2, <1>4 DEF Told

LEMMA ObserveKeeps ==
  ASSUME CacheAssumption, Inv, NEW p \in Procs, Observe(p) PROVE Inv' /\ MapStep
<1> USE DEF Inv
<1> DEFINE old == HistoryFrom(answer[p])
           new == Record(old, mem[p], now)
<1>1. /\ at[p] = "record" /\ Local(p) /\ command = "base" /\ mem[p] \in Digests \cup {None}
      /\ answer[p] \in {Garbage, None} \/ Told(answer[p], now)
      /\ result' = [result EXCEPT ![p] = new]
      /\ UNCHANGED <<rows, now, pending, answer, command, scans, tag>>
  BY DEF Observe, Returned, Rest, Local, cacheVars
<1>2. \/ at' = [at EXCEPT ![p] = "idle"] /\ mem' = [mem EXCEPT ![p] = None]
      \/ at' = [at EXCEPT ![p] = "save"] /\ UNCHANGED mem
  BY DEF Observe, Done, Goto, Keeps
<1>3. now \in Nat /\ Told(old, now)
  BY <1>1, NoHistoryTells DEF HistoryFrom, CacheAssumption, Typed
<1>4. Told(new, now)
  BY <1>1, <1>3, RecordTells
<1> HIDE DEF old, new
<1>5. MapStep /\ UnderTheirKeys' /\ InRows' = InRows
  BY <1>1, QuietIsStutter, RowsStay
<1>6. Typed' /\ OnlyMoves(p) /\ at'[p] \in {"idle", "save"} /\ result'[p] = new
  BY <1>1, <1>2 DEF Typed, OnlyMoves, Places
<1>7. Local(p)'
  BY <1>1, <1>4, <1>6 DEF Local
<1>8. InRows' \subseteq Known /\ KnownTo(p)' \subseteq Known /\ now <= now'
  BY <1>1, <1>3, <1>5, <1>6 DEF Known, KnownTo
<1> QED
  BY <1>1, <1>5, <1>6, <1>7, <1>8, RunStepKeeps

LEMMA SaveKeeps ==
  ASSUME CacheAssumption, Inv, NEW p \in Procs, Save(p) PROVE Inv' /\ MapStep
<1> USE DEF Inv
<1>1. /\ at[p] = "save" /\ Local(p) /\ command = "base" /\ Told(result[p], now)
      /\ Writes(<<"history">>, result[p], MaxNow)
      /\ at' = [at EXCEPT ![p] = "idle"] /\ mem' = [mem EXCEPT ![p] = None]
      /\ UNCHANGED <<command, scans, tag, result>>
  BY DEF Save, Done, Goto, Keeps, Rest, Local
<1>2. result[p] \in Values /\ MaxNow \in Nat
  BY <1>1 DEF Told, Values, CacheAssumption
<1>3. /\ MapStep /\ rows' \in [Keys -> Rows \cup {None}] /\ UNCHANGED <<now, pending, answer>>
      /\ \A j \in Keys \ {<<"history">>} : rows'[j] = rows[j]
      /\ \/ rows'[<<"history">>] = rows[<<"history">>]
         \/ rows'[<<"history">>] # None /\ rows'[<<"history">>].value = result[p]
  BY <1>1, <1>2, Wrote, KeysDiffer
<1>4. Typed' /\ OnlyMoves(p) /\ at'[p] = "idle"
  BY <1>1, <1>3 DEF Typed, OnlyMoves, Places
<1>5. UnderTheirKeys'
  BY <1>1, <1>3, KeysDiffer DEF UnderTheirKeys, Present
<1>6. Local(p)'
  BY <1>1, <1>3, <1>4 DEF Local
<1>7. InRows' \subseteq Known /\ KnownTo(p)' \subseteq Known /\ now <= now'
  BY <1>3, <1>4, KeysDiffer DEF Known, KnownTo, InRows, Present, Typed
<1> QED
  BY <1>1, <1>3, <1>4, <1>5, <1>6, <1>7, RunStepKeeps

LEMMA OthersStepKeeps ==
  ASSUME CacheAssumption, Inv,
         MoveTag \/ Housekeeping \/ \E p \in Procs : DropExpired(p) /\ UNCHANGED runVars
  PROVE  Inv' /\ MapStep
<1>1. CASE MoveTag
  <2>1. Gone
    BY <1>1, GoneWhen DEF MoveTag
  <2> QED
    BY <1>1, <2>1, NobodyMovesKeeps DEF MoveTag, Gone
<1>2. CASE Housekeeping
  <2>1. Gone
    BY <1>2, GoneWhen DEF Housekeeping, Clear, CleanupExpired
  <2> QED
    BY <1>2, <2>1, NobodyMovesKeeps DEF Housekeeping, runVars, Gone, Inv, Typed
<1>3. CASE \E p \in Procs : DropExpired(p) /\ UNCHANGED runVars
  <2>1. Gone
    BY <1>3, GoneWhen
  <2> QED
    BY <1>3, <2>1, NobodyMovesKeeps DEF runVars, Gone, Inv, Typed
<1> QED
  BY <1>1, <1>2, <1>3

-----------------------------------------------------------------------------
LEMMA InitInv == CacheAssumption /\ Init => Inv /\ Map!Init
<1> SUFFICES ASSUME CacheAssumption, Init PROVE Inv /\ Map!Init
  OBVIOUS
<1> DEFINE damaged == [id |-> 1, value |-> Garbage, expires |-> MaxNow]
           key == IF command = "base" THEN <<"history">> ELSE <<"scan">>
<1>1. /\ command \in {"recommend", "base"} /\ now = 0 /\ scans = 0
      /\ pending = [p \in Procs |-> None] /\ answer = [p \in Procs |-> None]
      /\ at = [p \in Procs |-> "idle"] /\ mem = [p \in Procs |-> None]
      /\ result = [p \in Procs |-> None] /\ tag.digest \in Digests
  BY DEF Init, CacheInit, CacheAssumption
<1>2. PICK row \in {None, damaged} : rows = [k \in Keys |-> IF k = key THEN row ELSE None]
  BY DEF Init, CacheInit
<1>3. damaged \in Rows /\ damaged.value = Garbage
  BY DEF Rows, Values, CacheAssumption
<1> HIDE DEF damaged
<1>4. rows \in [Keys -> Rows \cup {None}]
  BY <1>2, <1>3
<1>5. Typed
  BY <1>1, <1>4 DEF Typed, Places
<1>6. \A k \in Present : k \in Keys /\ k = key /\ rows[k].value = Garbage
  BY <1>2, <1>3 DEF Present
<1>7. UnderTheirKeys
  BY <1>6, KeysDiffer DEF UnderTheirKeys
<1>8. Known = {}
  <2>1. \A s \in Scans : s # Garbage
    BY DEF CacheAssumption
  <2>2. InRows = {}
    BY <1>6, <2>1, KeysDiffer DEF InRows
  <2> QED
    BY <1>1, <2>2 DEF Known, KnownTo
<1>9. Numbering /\ \A p \in Procs : Local(p)
  BY <1>1, <1>8 DEF Numbering, Local
<1>10. Map!Init
  BY <1>1 DEF Map!Init
<1> QED
  BY <1>5, <1>7, <1>9, <1>10 DEF Inv

LEMMA StutterKeeps == ASSUME CacheAssumption, Inv, UNCHANGED vars PROVE Inv' /\ MapStep
<1>1. Gone
  BY GoneWhen DEF vars
<1> QED
  BY <1>1, NobodyMovesKeeps DEF vars, runVars, Gone, Inv, Typed

LEMMA StepKeeps == CacheAssumption /\ Inv /\ [Next]_vars => Inv' /\ MapStep
<1> SUFFICES ASSUME CacheAssumption, Inv, [Next]_vars PROVE Inv' /\ MapStep
  OBVIOUS
<1>1. ASSUME NEW p \in Procs, Run(p) PROVE Inv' /\ MapStep
  BY <1>1, AskEvaluationKeeps, ScanForEvaluationKeeps, ServeKeeps, AskScanKeeps, LookUpKeeps,
     ScanKeeps, PutScanKeeps, PutEvaluationKeeps, ResolveKeeps, AskHistoryKeeps, ObserveKeeps,
     SaveKeeps, OthersStepKeeps DEF Run
<1> QED
  BY <1>1, OthersStepKeeps, StutterKeeps DEF Next

\* What the statements of SQLiteCache and every read and write of a run keep.
THEOREM Invariance == CacheAssumption => (Spec => []Inv)
<1> SUFFICES ASSUME CacheAssumption PROVE Spec => []Inv
  OBVIOUS
<1> QED
  BY InitInv, StepKeeps, PTL DEF Spec

(***************************************************************************)
(* SQLiteCache: with any number of runs that read, write, expire, delete   *)
(* by id and clean up, the rows are a map that may forget and serves only  *)
(* what was last written under a key.                                      *)
(***************************************************************************)
THEOREM ImplementsTheMap == CacheAssumption => (Spec => ServesTheMap)
<1> SUFFICES ASSUME CacheAssumption PROVE Spec => ServesTheMap
  OBVIOUS
<1>1. Init => Inv /\ Map!Init
  BY InitInv
<1>2. Inv /\ [Next]_vars => Inv' /\ [Map!Next]_(Map!vars)
  BY StepKeeps DEF MapStep
<1> QED
  BY <1>1, <1>2, PTL DEF Spec, ServesTheMap, Map!Spec

(***************************************************************************)
(* get_evaluation: what is served is of a scan that this run could use,    *)
(* though the rows may change between its two reads.  One time of scanning *)
(* names one scan, so an evaluation of another scan is not taken for it.   *)
(***************************************************************************)
THEOREM ServesCurrent == CacheAssumption => (Spec => []ServedIsCurrent)
<1> SUFFICES ASSUME CacheAssumption PROVE Spec => []ServedIsCurrent
  OBVIOUS
<1>1. Inv => ServedIsCurrent
  BY DEF Inv, Local, Served, Usable, ServedIsCurrent
<1> QED
  BY <1>1, Invariance, PTL

(***************************************************************************)
(* observe: a history tells the chain of observations that it comes from,  *)
(* whatever was pruned and whoever wrote in between.                       *)
(***************************************************************************)
THEOREM HistoriesTellTheirChain == CacheAssumption => (Spec => []HistoriesAreHonest)
<1> SUFFICES ASSUME CacheAssumption PROVE Spec => []HistoriesAreHonest
  OBVIOUS
<1>1. Inv => HistoriesAreHonest
  BY DEF Inv, Local, Told, HistoriesAreHonest
<1> QED
  BY <1>1, Invariance, PTL
=============================================================================
