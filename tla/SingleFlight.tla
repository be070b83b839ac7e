---------------------------- MODULE SingleFlight ----------------------------
(***************************************************************************)
(* dockerls/utils/single_flight.py: a table that lets the callers that ask *)
(* the same question share one computation.                                *)
(*                                                                         *)
(* The program is one asyncio event loop, so an action is what runs        *)
(* between two suspension points of one coroutine.  A flight is created by *)
(* exactly one call of run(), so a flight is named by the caller that      *)
(* created it: table[k] is the creator of the flight stored under k.       *)
(* The work itself (the factory) is abstract: it ends with a result, ends  *)
(* with an exception, or unwinds after task.cancel().                      *)
(***************************************************************************)
EXTENDS Integers, FiniteSets

CONSTANTS Keys,     \* the questions
          Callers,  \* calls of run(); each calls once
          None      \* no flight, no key

ASSUME CallersFinite == IsFiniteSet(Callers)
ASSUME NoneIsNothing == None \notin Callers /\ None \notin Keys

VARIABLES
  table,      \* SingleFlight._flights: the flight stored under a key
  work,       \* state of the task of the flight a caller created
  forgotten,  \* flights whose done callback (_on_done) has run
  waiters,    \* _Flight.waiters, by creator
  pc,         \* where each caller is inside run()
  key,        \* the key each caller asked for
  joined,     \* the flight each caller awaits, by creator
  cancelled   \* the callers whose own task was cancelled from outside

vars == <<table, work, forgotten, waiters, pc, key, joined, cancelled>>

Live       == {"running", "cancelling"}
Ended      == {"ok", "failed", "cancelled"}
WorkStates == {"none"} \cup Live \cup Ended
Left       == {"ok", "failed", "cancelled"}   \* how run() ended for a caller

(***************************************************************************)
(* The callers counted by a flight: those that await its shielded task.    *)
(***************************************************************************)
Waiting(f) == {c \in Callers : pc[c] = "waiting" /\ joined[c] = f}

Init ==
  /\ table = [k \in Keys |-> None]
  /\ work = [f \in Callers |-> "none"]
  /\ forgotten = {}
  /\ waiters = [f \in Callers |-> 0]
  /\ pc = [c \in Callers |-> "idle"]
  /\ key = [c \in Callers |-> None]
  /\ joined = [c \in Callers |-> None]
  /\ cancelled = {}

(***************************************************************************)
(* run(): no flight under k, so this caller creates the task, registers    *)
(* _on_done and awaits it.                                                 *)
(***************************************************************************)
Start(c, k) ==
  /\ pc[c] = "idle"
  /\ table[k] = None
  /\ table' = [table EXCEPT ![k] = c]
  /\ work' = [work EXCEPT ![c] = "running"]
  /\ waiters' = [waiters EXCEPT ![c] = 1]
  /\ key' = [key EXCEPT ![c] = k]
  /\ joined' = [joined EXCEPT ![c] = c]
  /\ pc' = [pc EXCEPT ![c] = "waiting"]
  /\ UNCHANGED <<forgotten, cancelled>>

(***************************************************************************)
(* run(): a flight is stored under k.  While its task is not done the      *)
(* caller suspends on the shield; a task that is done but whose callback   *)
(* has not run yet is still in the table, and awaiting it returns at once. *)
(***************************************************************************)
Join(c, k) ==
  LET f == table[k] IN
  /\ pc[c] = "idle"
  /\ f # None
  /\ key' = [key EXCEPT ![c] = k]
  /\ joined' = [joined EXCEPT ![c] = f]
  /\ \/ /\ work[f] \in Live
        /\ waiters' = [waiters EXCEPT ![f] = @ + 1]
        /\ pc' = [pc EXCEPT ![c] = "waiting"]
     \/ /\ work[f] \in Ended
        /\ pc' = [pc EXCEPT ![c] = work[f]]
        /\ UNCHANGED waiters
  /\ UNCHANGED <<table, work, forgotten, cancelled>>

(***************************************************************************)
(* The task ends: by itself, or unwinding after task.cancel() (the         *)
(* clean-up may still produce a result or raise something else).           *)
(***************************************************************************)
Finish(f) ==
  /\ work[f] = "running"
  /\ \E outcome \in {"ok", "failed"} : work' = [work EXCEPT ![f] = outcome]
  /\ UNCHANGED <<table, forgotten, waiters, pc, key, joined, cancelled>>

Unwind(f) ==
  /\ work[f] = "cancelling"
  /\ \E outcome \in Ended : work' = [work EXCEPT ![f] = outcome]
  /\ UNCHANGED <<table, forgotten, waiters, pc, key, joined, cancelled>>

(***************************************************************************)
(* _on_done / _forget: the callback registered first on the task, so it    *)
(* runs before any caller that was waiting resumes.                        *)
(***************************************************************************)
OnDone(f) ==
  /\ work[f] \in Ended
  /\ f \notin forgotten
  /\ forgotten' = forgotten \cup {f}
  /\ table' = IF table[key[f]] = f THEN [table EXCEPT ![key[f]] = None] ELSE table
  /\ UNCHANGED <<work, waiters, pc, key, joined, cancelled>>

(***************************************************************************)
(* A waiting caller resumes with what the task ended with; the finally     *)
(* block decrements the counter and, the task being done, does no more.    *)
(***************************************************************************)
Resume(c) ==
  LET f == joined[c] IN
  /\ pc[c] = "waiting"
  /\ f \in forgotten
  /\ waiters' = [waiters EXCEPT ![f] = @ - 1]
  /\ pc' = [pc EXCEPT ![c] = work[f]]
  /\ UNCHANGED <<table, work, forgotten, key, joined, cancelled>>

(***************************************************************************)
(* The caller's own task is cancelled while it waits: the finally block    *)
(* decrements the counter, and the last one to leave a task that is not    *)
(* done cancels it and awaits its end ("reaping").                         *)
(***************************************************************************)
LeaveEarly(c, last) ==
  LET f == joined[c] IN
  /\ pc[c] = "waiting"
  /\ cancelled' = cancelled \cup {c}
  /\ waiters' = [waiters EXCEPT ![f] = @ - 1]
  /\ IF last /\ work[f] \in Live
       THEN /\ work' = [work EXCEPT ![f] = "cancelling"]
            /\ pc' = [pc EXCEPT ![c] = "reaping"]
       ELSE /\ pc' = [pc EXCEPT ![c] = "cancelled"]
            /\ UNCHANGED work
  /\ UNCHANGED <<table, forgotten, key, joined>>

\* Mutants of Cancel: the counter tested before it is decremented; the task
\* cancelled by whoever leaves; the flight dropped from the table at once.
CancelTestsTooEarly(c) == LeaveEarly(c, waiters[joined[c]] = 0)

CancelAnyway(c) == LeaveEarly(c, TRUE)

CancelForgets(c) ==
  LET f == joined[c] IN
  /\ pc[c] = "waiting"
  /\ waiters[f] = 1
  /\ work[f] \in Live
  /\ cancelled' = cancelled \cup {c}
  /\ waiters' = [waiters EXCEPT ![f] = 0]
  /\ work' = [work EXCEPT ![f] = "cancelling"]
  /\ pc' = [pc EXCEPT ![c] = "reaping"]
  /\ table' = [table EXCEPT ![key[f]] = None]
  /\ UNCHANGED <<forgotten, key, joined>>

Cancel(c) == LeaveEarly(c, waiters[joined[c]] = 1)

(***************************************************************************)
(* `await flight.task` of the finally block ends, whatever the task ended  *)
(* with is suppressed, and the caller's own CancelledError propagates.     *)
(***************************************************************************)
Reaped(c, ends) ==
  /\ pc[c] = "reaping"
  /\ joined[c] \in forgotten
  /\ work[joined[c]] \in ends
  /\ pc' = [pc EXCEPT ![c] = "cancelled"]
  /\ UNCHANGED <<table, work, forgotten, waiters, key, joined, cancelled>>

\* Mutants of Reap: only a task that ended as cancelled is awaited properly;
\* the counter is decremented a second time.
ReapLeavesAgain(c) ==
  /\ pc[c] = "reaping"
  /\ joined[c] \in forgotten
  /\ waiters' = [waiters EXCEPT ![joined[c]] = @ - 1]
  /\ pc' = [pc EXCEPT ![c] = "cancelled"]
  /\ UNCHANGED <<table, work, forgotten, key, joined, cancelled>>

ReapOnlyCancelled(c) == Reaped(c, {"cancelled"})

Reap(c) == Reaped(c, Ended)

(***************************************************************************)
(* Steps of the event loop; only Cancel and the calls come from outside.   *)
(***************************************************************************)
Next ==
  \/ \E c \in Callers, k \in Keys : Start(c, k) \/ Join(c, k)
  \/ \E f \in Callers : Finish(f) \/ Unwind(f) \/ OnDone(f)
  \/ \E c \in Callers : Resume(c) \/ Cancel(c) \/ Reap(c)

(***************************************************************************)
(* The loop runs every callback and every coroutine that is ready, and the *)
(* work is bounded by its own timeout, so it ends.                         *)
(***************************************************************************)
Fairness ==
  /\ \A f \in Callers : WF_vars(Finish(f)) /\ WF_vars(Unwind(f)) /\ WF_vars(OnDone(f))
  /\ \A c \in Callers : WF_vars(Resume(c)) /\ WF_vars(Reap(c))

Spec == Init /\ [][Next]_vars

FairSpec == Spec /\ Fairness

-----------------------------------------------------------------------------
\* Every variable has the shape the code gives it.
TypeOK ==
  /\ table \in [Keys -> Callers \cup {None}]
  /\ work \in [Callers -> WorkStates]
  /\ forgotten \in SUBSET Callers
  /\ waiters \in [Callers -> Nat]
  /\ pc \in [Callers -> {"idle", "waiting", "reaping"} \cup Left]
  /\ key \in [Callers -> Keys \cup {None}]
  /\ joined \in [Callers -> Callers \cup {None}]
  /\ cancelled \in SUBSET Callers

\* Two tasks never work on the same key at the same time, a task that is
\* still unwinding after its cancellation included: this is what keeps two
\* scanner processes from running for one image.
OneTaskPerKey ==
  \A f, g \in Callers :
    work[f] \in Live /\ work[g] \in Live /\ key[f] = key[g] => f = g

\* Work that is running has somebody waiting for it: no path leaves a scanner
\* running for nobody, however the callers leave.
NobodyAbandoned == \A f \in Callers : work[f] = "running" => Waiting(f) # {}

\* "one waiter being cancelled does not cancel the work the others still
\* need; the task is cancelled only when the last waiter leaves": a step that
\* cancels a task leaves nobody waiting for it.
CancelOnlyUnneeded ==
  [][\A f \in Callers : work[f] = "running" /\ work'[f] = "cancelling" => Waiting(f)' = {}]_vars

\* Whoever called run() gets out of it: with a result, an exception or its
\* own cancellation, whichever callers leave first.
EveryCallerLeaves == \A c \in Callers : pc[c] \in {"waiting", "reaping"} ~> pc[c] \in Left

\* "one waiter being cancelled does not cancel the work the others still
\* need": run() ends with CancelledError only for callers that were
\* themselves cancelled.  The code does not keep it: a caller that joins a
\* flight whose last waiter has just left finds it in the table, cancelled but
\* not yet done, and is handed the cancellation of that task.
OnlyOwnCancellation == \A c \in Callers : pc[c] = "cancelled" => c \in cancelled

=============================================================================
