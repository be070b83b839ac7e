------------------------------ MODULE RunStore ------------------------------
(***************************************************************************)
(* The saved runs of infrastructure/run_store.py, shared by concurrent     *)
(* commands of one user: a document is written beside and renamed, the     *)
(* oldest are pruned, others list, load and compare.                       *)
(*                                                                         *)
(* A run's id is the moment it started; a later start is a larger number.  *)
(***************************************************************************)
EXTENDS Integers, FiniteSets, FiniteSetsExt

CONSTANTS
  Runs,       \* the ids, numbers in the order of starting
  Retention,  \* how many are kept
  Scopes,     \* per run, the question it asked
  MaxCrashes

VARIABLES
  disk,     \* documents that have their final name: run -> "whole", "half", "none"
  started,  \* the runs that have their id
  phase,    \* per run: "idle", "work", "write", "prune", "compare", "done", "killed"
  stale,    \* per run: what its pruning still has to unlink
  listed,   \* per run: ids that its search for a previous run still has to load
  previous, \* per run: the run that it was compared with, 0 for none
  saved,    \* history: every run that was ever given its name
  crashes

vars == <<disk, started, phase, stale, listed, previous, saved, crashes>>

RunStoreAssumption == Runs \subseteq Nat \ {0} /\ IsFiniteSet(Runs) /\ Retention \in Nat

Init ==
  /\ disk = [r \in Runs |-> "none"]
  /\ started = {} /\ saved = {} /\ crashes = 0
  /\ phase = [r \in Runs |-> "idle"]
  /\ stale = [r \in Runs |-> {}] /\ listed = [r \in Runs |-> {}]
  /\ previous = [r \in Runs |-> 0]

To(r, p) == phase' = [phase EXCEPT ![r] = p]
\* Files that are runs; the temporary ones are not.
Ids == {r \in Runs : disk[r] # "none"}

NewRunId(r) ==
  /\ phase[r] = "idle" /\ \A s \in Runs : s < r => s \in started
  /\ started' = started \cup {r} /\ To(r, "work")
  /\ UNCHANGED <<disk, stale, listed, previous, saved, crashes>>

WriteInPlace(r) ==
  /\ phase[r] = "work"
  /\ disk' = [disk EXCEPT ![r] = "half"] /\ To(r, "write")
  /\ UNCHANGED <<started, stale, listed, previous, saved, crashes>>

\* The document is written under a temporary name and gets its own at once;
\* what cannot be written leaves nothing and nothing is pruned after it.
Write(r) ==
  /\ phase[r] = "work"
  /\ To(r, "write")
  /\ UNCHANGED <<disk, started, stale, listed, previous, saved, crashes>>

Rename(r) ==
  /\ phase[r] = "write"
  /\ disk' = [disk EXCEPT ![r] = "whole"] /\ saved' = saved \cup {r}
  /\ To(r, "prune")
  /\ stale' = [stale EXCEPT ![r] = {0}]
  /\ UNCHANGED <<started, listed, previous, crashes>>

Unwritable(r) ==
  /\ phase[r] = "write"
  /\ To(r, "done")
  /\ UNCHANGED <<disk, started, stale, listed, previous, saved, crashes>>

\* ids()[retention:], listed once and unlinked one by one; 0 stands for the list to come.
BeyondOldest(ids) == {r \in ids : Cardinality({s \in ids : s < r}) >= Retention}
Beyond(ids) == {r \in ids : Cardinality({s \in ids : s > r}) >= Retention}

ListStale(r) ==
  /\ phase[r] = "prune" /\ stale[r] = {0}
  /\ stale' = [stale EXCEPT ![r] = Beyond(Ids)]
  /\ UNCHANGED <<disk, started, phase, listed, previous, saved, crashes>>

Unlink(r) ==
  /\ phase[r] = "prune" /\ stale[r] # {} /\ stale[r] # {0}
  /\ LET s == Max(stale[r]) IN
       /\ disk' = [disk EXCEPT ![s] = "none"]
       /\ stale' = [stale EXCEPT ![r] = @ \ {s}]
  /\ UNCHANGED <<started, phase, listed, previous, saved, crashes>>

\* The run reads its own document back; another one's pruning may have taken it.
\* previous_compatible: newest first, past itself, the first that loads.
Search(r) ==
  /\ phase[r] = "prune" /\ stale[r] = {}
  /\ IF r \in Ids THEN listed' = [listed EXCEPT ![r] = Ids \ {r}] /\ To(r, "compare")
     ELSE UNCHANGED listed /\ To(r, "done")
  /\ UNCHANGED <<disk, started, stale, previous, saved, crashes>>

Load(r) ==
  /\ phase[r] = "compare" /\ listed[r] # {}
  /\ LET s == Max(listed[r]) IN
       IF disk[s] = "whole" /\ Scopes[s] = Scopes[r]
       THEN previous' = [previous EXCEPT ![r] = s] /\ listed' = [listed EXCEPT ![r] = {}]
       ELSE listed' = [listed EXCEPT ![r] = @ \ {s}] /\ UNCHANGED previous
  /\ UNCHANGED <<disk, started, phase, stale, saved, crashes>>

Crash(r) ==
  /\ phase[r] \in {"work", "write", "prune", "compare"} /\ crashes < MaxCrashes
  /\ crashes' = crashes + 1 /\ To(r, "killed")
  /\ UNCHANGED <<disk, started, stale, listed, previous, saved>>

Next == \E r \in Runs : \/ NewRunId(r) \/ Write(r) \/ Rename(r) \/ Unwritable(r)
                        \/ ListStale(r) \/ Unlink(r) \/ Search(r) \/ Load(r) \/ Crash(r)
Spec == Init /\ [][Next]_vars
-----------------------------------------------------------------------------
\* Whoever prunes, and whenever it listed: the newest runs that were ever
\* saved are still there, up to the number that is kept.
NewestSurvive ==
  \A r \in saved : Cardinality({s \in saved : s > r}) < Retention => r \in Ids

\* A document that has its name is whole, also after a crash, and what a run
\* was compared with was a whole run of the same question that was saved.
ComparedWithWhole ==
  /\ \A r \in Ids : disk[r] = "whole"
  /\ \A r \in Runs : previous[r] # 0 =>
       previous[r] \in saved \ {r} /\ Scopes[previous[r]] = Scopes[r]
-----------------------------------------------------------------------------
\* "The most recent earlier run": what a run is compared with started before it.
\* The code does not keep it: the newest saved run is taken, also one that began
\* later and was quicker.
PreviousIsEarlier == \A r \in Runs : previous[r] < r
==============================================================================
