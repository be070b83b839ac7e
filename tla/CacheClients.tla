----------------------------- MODULE CacheClients -----------------------------
(***************************************************************************)
(* Concurrent runs over one cache: a run asks for the stored evaluation of *)
(* an image, then for its stored scan, and otherwise scans, evaluates and  *)
(* stores both (RecommendImagesUseCase._get_cached, measure, _set_cached); *)
(* or it records what a tag points to (TagHistoryStore.observe).  One      *)
(* image; the fingerprint of its scanner and its policy are a run's own.   *)
(***************************************************************************)
EXTENDS SqliteCache, StoredFacts

CONSTANTS Fingerprint,  \* of each run
          Policy,       \* of each run: ignore rules, feeds, scanner, version
          Digests, MaxMoves,
          MaxRounds     \* bound of each run

VARIABLES command,  \* what the runs do: "recommend" or "base"
          at,       \* where each run is
          mem,      \* its locals: the scan it evaluates or the digest it saw
          result,   \* the evaluation it was served, or the history it wrote
          scans,    \* counts the scans: their timestamps differ
          tag,      \* the digest of the tag and how often it moved
          rounds    \* bound: operations of a run
runVars == <<command, at, mem, result, scans, tag, rounds>>
vars == <<cacheVars, runVars>>

EvalKey(p) == <<"eval", Policy[p]>>
RowKeys == {<<"scan">>, <<"history">>} \cup {EvalKey(p) : p \in Procs}

(***************************************************************************)
(* What is stored under each key, but for damage; and the constants.       *)
(***************************************************************************)
Scans ==
  [version : {Fingerprint[p].version : p \in Procs}, rev : {Fingerprint[p].rev : p \in Procs},
   measured : Nat, stored : Nat, until : Nat]
Evaluations == [measured : Nat, intel : Nat \cup {None}, of : Scans]
Observations == [what : Digests, at : Nat]
Histories == [seen : Seq(Observations), dropped : Nat, chain : Seq(Observations)]
Values == Scans \cup Evaluations \cup Histories \cup {Garbage}

CacheAssumption ==
  /\ RowKeys \subseteq Keys /\ IsFiniteSet(Keys) /\ Digests # {}
  /\ {MaxNow, ScanTtl, UnknownTtl, MaxObservations, IntelMaxAge} \subseteq Nat
  /\ NoValue = None
  /\ None \notin Nat \cup Digests \cup Values \cup [id : Nat, value : Values, expires : Nat]
  /\ Garbage \notin Scans \cup Evaluations \cup Histories

Init ==
  /\ command \in {"recommend", "base"}
  /\ LET key == IF command = "base" THEN <<"history">> ELSE <<"scan">>
         damaged == [id |-> 1, value |-> Garbage, expires |-> MaxNow]
     IN  \E row \in {None, damaged} :
           CacheInit([k \in Keys |-> IF k = key THEN row ELSE None])
  /\ at = [p \in Procs |-> "idle"]
  /\ mem = [p \in Procs |-> None]
  /\ result = [p \in Procs |-> None]
  /\ scans = 0
  /\ tag = [digest |-> CHOOSE d \in Digests : TRUE, moves |-> 0]
  /\ rounds = [p \in Procs |-> 0]

Goto(p, l) == at' = [at EXCEPT ![p] = l]
Keeps(p, v) == mem' = [mem EXCEPT ![p] = v]
Done(p) == Goto(p, "idle") /\ Keeps(p, None)

\* The next statement of a run waits for its get to return.
Returned(p, l) == at[p] = l /\ pending[p] = None
Asks(p, k, l) == (Get(p, k) \/ Unreadable(p)) /\ Goto(p, l)
\* A write may fail: the run goes on, only the reuse is lost.
Writes(k, v, ttl) == Set(k, v, ttl) \/ UNCHANGED cacheVars

Begin(p, c) ==
  /\ at[p] = "idle" /\ command = c /\ rounds[p] < MaxRounds[p]
  /\ rounds' = [rounds EXCEPT ![p] = @ + 1]
  /\ result' = [result EXCEPT ![p] = None]
  /\ UNCHANGED <<command, scans, tag>>
Rest == UNCHANGED <<command, scans, tag, rounds>>

(***************************************************************************)
(* get_evaluation: the scan under it is read and validated first.  A       *)
(* damaged row is deleted, whatever is under its key by then.              *)
(***************************************************************************)
AskEvaluation(p) ==
  /\ Begin(p, "recommend")
  /\ Asks(p, <<"scan">>, "evaluation") /\ UNCHANGED mem

Refused(p) == ScanRefused(answer[p], Fingerprint[p], now)
Discard(p) ==
  IF Refused(p) = "CORRUPT" THEN Delete({<<"scan">>}) \/ UNCHANGED cacheVars
                            ELSE UNCHANGED cacheVars

ScanForEvaluation(p) ==
  /\ Returned(p, "evaluation")
  /\ IF Refused(p) = "HIT"
     THEN Asks(p, EvalKey(p), "served") /\ Keeps(p, [scan |-> answer[p], read |-> now])
     ELSE Discard(p) /\ Goto(p, "measure") /\ UNCHANGED mem
  /\ Rest /\ UNCHANGED result

Serve(p) ==
  /\ Returned(p, "served")
  /\ IF EvaluationRefused(answer[p], mem[p].scan, now) = "HIT"
     THEN /\ result' = [result EXCEPT ![p] = [row |-> answer[p], read |-> mem[p].read, at |-> now]]
          /\ Done(p)
     ELSE UNCHANGED result /\ Goto(p, "measure") /\ Keeps(p, None)
  /\ Rest /\ UNCHANGED cacheVars

(***************************************************************************)
(* measure: the stored scan, or a new one that is put when it is verified. *)
(***************************************************************************)
AskScan(p) ==
  /\ at[p] = "measure"
  /\ Asks(p, <<"scan">>, "lookup")
  /\ Rest /\ UNCHANGED <<mem, result>>

LookUp(p) ==
  /\ Returned(p, "lookup")
  /\ Discard(p)
  /\ IF Refused(p) = "HIT" THEN Goto(p, "evaluate") /\ Keeps(p, answer[p])
                           ELSE Goto(p, "scan") /\ UNCHANGED mem
  /\ Rest /\ UNCHANGED result

Scan(p) ==
  /\ at[p] = "scan"
  /\ \/ /\ scans' = scans + 1
        /\ Keeps(p, scans + 1) /\ Goto(p, "put")
     \/ Done(p) /\ UNCHANGED scans
  /\ UNCHANGED <<cacheVars, command, result, tag, rounds>>

PutScan(p) ==
  /\ at[p] = "put"
  /\ LET row == ScanRow(Fingerprint[p], mem[p], now) IN
       Writes(<<"scan">>, row, TtlOf(Fingerprint[p])) /\ Keeps(p, row)
  /\ Goto(p, "evaluate")
  /\ Rest /\ UNCHANGED result

PutEvaluation(p) ==
  /\ at[p] = "evaluate"
  /\ \E notable \in BOOLEAN, intel \in {None, now} :
       IF Storable(notable, intel)
       THEN Writes(EvalKey(p), EvaluationRow(mem[p], intel), ScanTtl)
       ELSE UNCHANGED cacheVars
  /\ Done(p)
  /\ Rest /\ UNCHANGED result

(***************************************************************************)
(* observe: read, record, write; the digest was resolved before.           *)
(***************************************************************************)
Resolve(p) ==
  /\ Begin(p, "base")
  /\ \E d \in {tag.digest, None} : Keeps(p, d)
  /\ Goto(p, "observe")
  /\ UNCHANGED cacheVars

AskHistory(p) ==
  /\ at[p] = "observe"
  /\ Asks(p, <<"history">>, "record")
  /\ Rest /\ UNCHANGED <<mem, result>>

Observe(p) ==
  /\ Returned(p, "record")
  /\ LET old == HistoryFrom(answer[p])
         new == Record(old, mem[p], now) IN
       /\ result' = [result EXCEPT ![p] = new]
       /\ IF new = old THEN Done(p) ELSE Goto(p, "save") /\ UNCHANGED mem
  /\ Rest /\ UNCHANGED cacheVars

Save(p) ==
  /\ at[p] = "save"
  /\ Writes(<<"history">>, result[p], MaxNow)
  /\ Done(p)
  /\ Rest /\ UNCHANGED result

MoveTag ==
  /\ command = "base" /\ tag.moves < MaxMoves
  /\ \E d \in Digests \ {tag.digest} : tag' = [digest |-> d, moves |-> tag.moves + 1]
  /\ UNCHANGED <<cacheVars, command, at, mem, result, scans, rounds>>

\* `cache clear` and `cache cleanup`, and the clock.
Housekeeping == (Clear \/ CleanupExpired \/ Tick) /\ UNCHANGED runVars

Run(p) ==
  \/ AskEvaluation(p) \/ ScanForEvaluation(p) \/ Serve(p)
  \/ AskScan(p) \/ LookUp(p) \/ Scan(p) \/ PutScan(p) \/ PutEvaluation(p)
  \/ Resolve(p) \/ AskHistory(p) \/ Observe(p) \/ Save(p)
  \/ DropExpired(p) /\ UNCHANGED runVars
Next == MoveTag \/ Housekeeping \/ \E p \in Procs : Run(p)
Spec == Init /\ [][Next]_vars
-----------------------------------------------------------------------------
(***************************************************************************)
(* The rows behave as the map the cache promises, also when a get deletes  *)
(* by id what another run has replaced: nothing forgotten, overwritten or  *)
(* of another key is ever read (SQLiteCache).                              *)
(***************************************************************************)
ServesTheMap == Map!Spec

(***************************************************************************)
(* An evaluation that is served is of a scan this run could use itself:    *)
(* same scanner, same database revision, not expired when it was looked    *)
(* up, and its threat intelligence is not too old; however the rows of     *)
(* scan and evaluation were replaced between the two reads of              *)
(* get_evaluation.                                                         *)
(***************************************************************************)
ServedIsCurrent ==
  command = "recommend" =>
    \A p \in Procs : result[p] # None =>
      LET e == result[p].row IN
        /\ ScanRefused(e.of, Fingerprint[p], result[p].read) = "HIT"
        /\ e.intel # None => result[p].at - e.intel <= IntelMaxAge

(***************************************************************************)
(* A history tells the chain of observations it comes from, however much   *)
(* was pruned and whoever wrote in between: it starts with the first one,  *)
(* ends with the latest ones, its moves are all that were recorded, and    *)
(* its times never go back (tag_history.record, observe).                  *)
(***************************************************************************)
Honest(h) ==
  LET n == Len(h.seen) m == Len(h.chain) IN
    /\ n > 0 => Head(h.seen) = Head(h.chain) /\ Moves(h) = m - 1
    /\ \A i \in 2..n : h.seen[i] = h.chain[m - n + i] /\ h.seen[i - 1].at <= h.seen[i].at
HistoriesAreHonest ==
  command = "base" => \A p \in Procs : result[p] # None => Honest(result[p])
=============================================================================
