----------------------------- MODULE ScanEngine -----------------------------
(***************************************************************************)
(* One batch of scans through the Go engine: the Python side that asks for *)
(* it (integrations/engine/batch.py and client.py), the engine's           *)
(* orchestrator and the scanner processes its runner starts.               *)
(*                                                                         *)
(* The targets are numbered as the caller gave them; the engine knows the  *)
(* allowed ones by their position in its request.  Time is abstract: a     *)
(* timer may fire whenever it is armed.  A scanner process lives in a      *)
(* process group of its own, so it outlives an engine that dies.           *)
(***************************************************************************)
EXTENDS Naturals, FiniteSets

CONSTANTS NTargets,   \* targets of the batch
          Keys,       \* digests that targets may share
          KeyOf,      \* the dedup key of each target, None without a digest
          Dirs,       \* the slots of TrivyCachePool, empty when there are none
          Workers,    \* the request's workers, at least one
          Serialize,  \* the scanner locks its cache: trivy does, grype does not
          None

Targets == 1..NTargets
EngineAssumption == NTargets \in Nat /\ Workers \in Nat \ {0} /\ IsFiniteSet(Dirs)

VARIABLES
  refused,  \* targets the policy or the sanitizer refused
  client,   \* "idle", "waiting", "stopping", "results", "none" or "cancelled"
  engine,   \* "off", "up", "answered" or "dead"
  ctx,      \* the engine was told to stop: its context is done
  job,      \* goroutine of each position of the request
  dir,      \* the directory it took
  proc,     \* its scanner: "none", "alive", "signalled" or "ended"
  over,     \* its scanner wrote beyond the limit
  found,    \* entry of a key: what its scan produced
  results,  \* what scan_batch returns, per target
  faults    \* what went wrong: "deaf", "abandoned", "crash"

engineVars == <<engine, ctx, job, dir, proc, over, found>>
vars == <<refused, client, engineVars, results, faults>>

(***************************************************************************)
(* The request: the allowed targets in order; `position` is an index of it. *)
(***************************************************************************)
Sent      == Targets \ refused
PlaceOf(i) == Cardinality({j \in Sent : j <= i})
Positions == 1..Cardinality(Sent)
Allowed   == [p \in Positions |-> CHOOSE i \in Sent : PlaceOf(i) = p]

\* Without a digest every reference answers for itself.
Entry(p) == IF KeyOf[Allowed[p]] = None THEN <<"ref", Allowed[p]>> ELSE <<"key", KeyOf[Allowed[p]]>>
Siblings(p) == {q \in Positions : Entry(q) = Entry(p)}

(***************************************************************************)
(* NewOrchestrator: a scanner that locks its cache never runs more scans   *)
(* than there are directories, and without directories there is one slot.  *)
(***************************************************************************)
Slots  == IF Dirs # {} THEN Dirs ELSE IF Serialize THEN {0} ELSE 1..Workers
AtOnce == IF Serialize /\ Workers > Cardinality(Slots) THEN Cardinality(Slots) ELSE Workers

InSlot  == {p \in Targets : job[p] \in {"slot", "ready", "run", "reap"}}
Busy    == {dir[p] : p \in {q \in InSlot : job[q] # "slot"}}
Running == {p \in Targets : proc[p] \in {"alive", "signalled"}}

Init ==
  /\ refused \in SUBSET Targets
  /\ client = "idle" /\ engine = "off" /\ ctx = FALSE
  /\ job = [p \in Targets |-> "new"]
  /\ dir = [p \in Targets |-> None]
  /\ proc = [p \in Targets |-> "none"]
  /\ over = {}
  /\ found = [p \in Targets |-> None]
  /\ results = [i \in Targets |-> None]
  /\ faults = {}

(***************************************************************************)
(* The client starts the engine, or cannot: no binary, another protocol    *)
(* version, no scanner.  An empty request is answered without the engine.  *)
(***************************************************************************)
Refusal(i)  == [of |-> i, why |-> "refused", raw |-> None]
Start ==
  /\ client = "idle" /\ Positions # {}
  /\ client' = "waiting" /\ engine' = "up"
  /\ UNCHANGED <<refused, ctx, job, dir, proc, over, found, results, faults>>

NothingToAsk ==
  /\ client = "idle" /\ Positions = {}
  /\ client' = "results"
  /\ results' = [i \in Targets |-> Refusal(i)]
  /\ UNCHANGED <<refused, engineVars, faults>>

Declines ==
  /\ client = "idle"
  /\ client' = "none"
  /\ UNCHANGED <<refused, engineVars, results, faults>>

(***************************************************************************)
(* The orchestrator: once per entry, a worker slot, then a directory.      *)
(***************************************************************************)
Lead(p) ==
  /\ engine = "up" /\ p \in Positions
  /\ \A q \in Siblings(p) : job[q] = "new"
  /\ job' = [job EXCEPT ![p] = "once"]
  /\ UNCHANGED <<refused, client, engine, ctx, dir, proc, over, found, results, faults>>

TakeSlot(p) ==
  /\ engine = "up" /\ job[p] = "once"
  /\ Cardinality(InSlot) < AtOnce
  /\ job' = [job EXCEPT ![p] = "slot"]
  /\ UNCHANGED <<refused, client, engine, ctx, dir, proc, over, found, results, faults>>

TakeDir(p) ==
  /\ engine = "up" /\ job[p] = "slot"
  /\ \E d \in Slots \ Busy : dir' = [dir EXCEPT ![p] = d]
  /\ job' = [job EXCEPT ![p] = "ready"]
  /\ UNCHANGED <<refused, client, engine, ctx, proc, over, found, results, faults>>

\* A sibling of a key that was measured reads the entry.
FollowWithRaw(p) ==
  /\ engine = "up" /\ p \in Positions /\ job[p] = "new"
  /\ \E q \in Siblings(p) : job[q] = "done" /\ found' = [found EXCEPT ![p] = found[q]]
  /\ job' = [job EXCEPT ![p] = "done"]
  /\ UNCHANGED <<refused, client, engine, ctx, dir, proc, over, results, faults>>
Follow(p) ==
  /\ engine = "up" /\ p \in Positions /\ job[p] = "new"
  /\ \E q \in Siblings(p) :
       /\ job[q] = "done" /\ found[q].of = q
       /\ found' = [found EXCEPT ![p] = [found[q] EXCEPT !.raw = None]]
  /\ job' = [job EXCEPT ![p] = "done"]
  /\ UNCHANGED <<refused, client, engine, ctx, dir, proc, over, results, faults>>

(***************************************************************************)
(* The runner.  Finished(p, why): Scan returns, the directory and the slot *)
(* are handed back.  The raw document is kept only of a scan that parsed.  *)
(***************************************************************************)
Finished(p, why) ==
  /\ job' = [job EXCEPT ![p] = "done"]
  /\ found' = [found EXCEPT ![p] =
                 [of |-> p, why |-> why, raw |-> IF why = "ok" THEN p ELSE None]]
  /\ UNCHANGED <<refused, client, engine, ctx, dir, over, results>>

\* The scan does not start: a reference the engine rejects, no executable.
NotStarted(p) ==
  /\ engine = "up" /\ job[p] = "ready"
  /\ Finished(p, "failed") /\ UNCHANGED <<proc, faults>>

\* The context is not looked at before the process starts.
Launch(p) ==
  /\ engine = "up" /\ job[p] = "ready"
  /\ job' = [job EXCEPT ![p] = "run"]
  /\ proc' = [proc EXCEPT ![p] = "alive"]
  /\ UNCHANGED <<refused, client, engine, ctx, dir, over, found, results, faults>>

\* A process ends by itself, or because it heeds SIGTERM.
Exit(p) ==
  /\ proc[p] \in {"alive", "signalled"}
  /\ proc' = [proc EXCEPT ![p] = "ended"]
  /\ UNCHANGED <<refused, client, engine, ctx, job, dir, over, found, results, faults>>

\* Beyond the limit the writer discards and signals the group once.
Overflow(p) ==
  /\ engine = "up" /\ job[p] = "run" /\ proc[p] = "alive"
  /\ over' = over \cup {p}
  /\ proc' = [proc EXCEPT ![p] = "signalled"]
  /\ UNCHANGED <<refused, client, engine, ctx, job, dir, found, results, faults>>

\* Wait returned: the output is complete, or the scan is not a measurement.
Waited(p) ==
  /\ engine = "up" /\ job[p] = "run" /\ proc[p] = "ended"
  /\ \E why \in IF p \in over THEN {"failed"} ELSE {"ok", "failed"} : Finished(p, why)
  /\ UNCHANGED <<proc, faults>>

\* The scan's timeout, or the end of the engine's context.
Expire(p) ==
  /\ engine = "up" /\ job[p] = "run"
  /\ job' = [job EXCEPT ![p] = "reap"]
  /\ proc' = [proc EXCEPT ![p] = IF @ = "alive" THEN "signalled" ELSE @]
  /\ UNCHANGED <<refused, client, engine, ctx, dir, over, found, results, faults>>

Reap(p) ==
  /\ engine = "up" /\ job[p] = "reap" /\ proc[p] = "ended"
  /\ Finished(p, IF p \in over THEN "failed" ELSE "timeout")
  /\ UNCHANGED <<proc, faults>>

\* The grace of the select and the timer of SIGKILL are armed together: the
\* scan may return before the process is killed, and only a process that
\* ignored SIGTERM for that long is there to be left.  Its writers still run:
\* whether the limit was exceeded is read while they may change it.
GraceOver(p) ==
  /\ engine = "up" /\ job[p] = "reap" /\ proc[p] = "signalled"
  /\ \E why \in IF p \in over THEN {"failed", "timeout"} ELSE {"timeout"} : Finished(p, why)
  /\ faults' = faults \cup {"deaf"}
  /\ UNCHANGED proc

\* SIGKILL is sent by a goroutine of the engine: it needs the engine alive.
KillTimer(p) ==
  /\ engine = "up" /\ proc[p] = "signalled"
  /\ proc' = [proc EXCEPT ![p] = "ended"]
  /\ UNCHANGED <<refused, client, engine, ctx, job, dir, over, found, results, faults>>

(***************************************************************************)
(* The engine answers when every goroutine is done; it may also be killed. *)
(***************************************************************************)
Answer ==
  /\ engine = "up" /\ \A p \in Positions : job[p] = "done"
  /\ engine' = "answered"
  /\ UNCHANGED <<refused, client, ctx, job, dir, proc, over, found, results, faults>>

Crash ==
  /\ engine = "up"
  /\ engine' = "dead" /\ faults' = faults \cup {"crash"}
  /\ UNCHANGED <<refused, client, ctx, job, dir, proc, over, found, results>>

(***************************************************************************)
(* The client reads the answer: results by position are put back in the    *)
(* place of their target.  A document it does not accept is no answer.     *)
(***************************************************************************)
Read ==
  /\ client = "waiting" /\ engine = "answered"
  /\ client' = "results"
  /\ results' = [i \in Targets |->
                   IF i \in refused THEN Refusal(i)
                   ELSE [found[PlaceOf(i)] EXCEPT !.of = Allowed[@]]]
  /\ UNCHANGED <<refused, engineVars, faults>>

NoAnswer ==
  /\ client = "waiting" /\ engine \in {"answered", "dead"}
  /\ client' = "none"
  /\ UNCHANGED <<refused, engineVars, results, faults>>

\* Its budget is over, or the caller was cancelled: SIGTERM to the engine.
Stop ==
  /\ client = "waiting"
  /\ client' \in {"stopping", "cancelling"}
  /\ ctx' = (engine = "up")
  /\ UNCHANGED <<refused, engine, job, dir, proc, over, found, results, faults>>

\* Waits for the engine, and no longer than a fixed time.
Ends(c) == IF c = "cancelling" THEN "cancelled" ELSE "none"
Stopped ==
  /\ client \in {"stopping", "cancelling"}
  /\ client' = Ends(client)
  /\ faults' = IF engine = "up" THEN faults \cup {"abandoned"} ELSE faults
  /\ UNCHANGED <<refused, engineVars, results>>

EngineStep ==
  \/ \E p \in Targets :
       \/ Lead(p) \/ TakeSlot(p) \/ TakeDir(p) \/ Follow(p)
       \/ NotStarted(p) \/ Launch(p) \/ Overflow(p) \/ Waited(p)
       \/ Reap(p) \/ GraceOver(p) \/ KillTimer(p)
  \/ Answer
ClientStep == Start \/ NothingToAsk \/ Read \/ NoAnswer \/ Stopped
\* A step of the goroutine of p.
Advance(p) == EngineStep /\ job'[p] # job[p]
Next ==
  \/ EngineStep \/ ClientStep \/ Declines \/ Stop \/ Crash
  \/ \E p \in Targets : Exit(p) \/ Expire(p)

(***************************************************************************)
(* Fairness: goroutines and the client's event loop run; a scan ends or    *)
(* its timeout fires, and a timer that is armed fires.                     *)
(***************************************************************************)
Fairness ==
  /\ WF_vars(ClientStep) /\ WF_vars(Answer)
  /\ \A p \in Targets : WF_vars(Advance(p)) /\ WF_vars(Expire(p))
Spec == Init /\ [][Next]_vars /\ Fairness
-----------------------------------------------------------------------------
(***************************************************************************)
(* A scanner has its cache directory for itself, and no more scanners run  *)
(* than the pool allows, as long as scanners heed SIGTERM and nobody was   *)
(* abandoned or killed: the pool of Orchestrator.Run, whose directories    *)
(* and slots are taken and handed back by goroutines that may time out.    *)
(***************************************************************************)
ScansIsolated ==
  faults = {} =>
    /\ Cardinality(Running) <= AtOnce
    /\ \A p, q \in Running : p # q => dir[p] # dir[q]

(***************************************************************************)
(* The batch puts every result in the place of its target, whatever was    *)
(* refused and shared between: the result of an allowed target is of its   *)
(* own image, a refused target has its refusal, and the raw document of a  *)
(* scan is claimed once, for it is removed when it is read.                *)
(***************************************************************************)
SameImage(i, j) == i = j \/ (KeyOf[i] = KeyOf[j] /\ KeyOf[i] # None)
AnswersInPlace ==
  client = "results" =>
    \A i \in Targets :
      /\ (results[i].why = "refused") <=> (i \in refused)
      /\ SameImage(i, results[i].of)
      /\ \A j \in Targets \ {i} : results[i].raw # None => results[i].raw # results[j].raw

(***************************************************************************)
(* runCapture "garante que o processo e encerrado e colhido por todo       *)
(* caminho de saida": no scanner runs when the engine has answered.  The   *)
(* code does not keep it: runCapture waits for a cancelled process no      *)
(* longer than the timer that is to kill it.                               *)
(***************************************************************************)
ScannersReaped == engine = "answered" => Running = {}

(***************************************************************************)
(* scan_batch always returns: with results, without, or cancelled; slots,  *)
(* directories and siblings never wait on each other for ever.             *)
(***************************************************************************)
Settled == client \in {"results", "none", "cancelled"}
EveryBatchEnds == []<>Settled
=============================================================================
