----------------------------- MODULE Catalogue ------------------------------
(***************************************************************************)
(* The index of the DHI catalogue and its definitions, over the runs of a  *)
(* user: dhi/catalog.py with the shared cache, and dhi/repository.py that  *)
(* turns them into candidates.  Meanwhile the catalogue changes.           *)
(***************************************************************************)
EXTENDS Integers, FiniteSets

CONSTANTS
  Seekers,   \* the queries of a run
  Images,    \* all that one may ask for
  Wanted,    \* seeker -> the image it asks for
  MaxRuns, MaxCommits, None

CatalogueAssumption ==
  /\ None \notin Seekers /\ None \notin Nat /\ \A S \in SUBSET Images : S # None
  /\ MaxRuns \in Nat /\ MaxCommits \in Nat

VARIABLES
  head,      \* the catalogue: the revision that it is at
  holds,     \* revision -> the images that it defines
  index,     \* _index, None before it is loaded
  state,     \* _index_state
  revision,  \* _revision, None if unknown
  holder,    \* _index_lock
  cache,     \* stored index: None or [index, revision], and per
  texts,     \*   <<revision, image>> the revision whose text is stored, or None
  phase,     \* seeker: "start", "waiting", "loading", "reading", "done"
  runs

vars == <<head, holds, index, state, revision, holder, cache, texts, phase, runs>>
memory == <<index, state, revision>>
Revisions == 0..MaxCommits

Init ==
  /\ head = 0 /\ holds \in [Revisions -> SUBSET Images]
  /\ index = None /\ state = "NOT_LOADED" /\ revision = None /\ holder = None
  /\ cache = None /\ texts = [k \in Revisions \X Images |-> None]
  /\ phase = [s \in Seekers |-> "start"] /\ runs = 1

To(s, p) == phase' = [phase EXCEPT ![s] = p]
Seek(s, known) ==
  IF Wanted[s] \in known THEN To(s, "reading") ELSE To(s, "done")

Ask(s) ==
  /\ phase[s] = "start"
  /\ IF index # None THEN Seek(s, index) ELSE To(s, "waiting")
  /\ UNCHANGED <<head, holds, memory, holder, cache, texts, runs>>

Lock(s) ==
  /\ phase[s] = "waiting" /\ holder = None
  /\ IF index # None THEN Seek(s, index) /\ UNCHANGED holder
     ELSE holder' = s /\ To(s, "loading")
  /\ UNCHANGED <<head, holds, memory, cache, texts, runs>>

Loaded(s, known, st, rev) ==
  /\ index' = known /\ state' = st /\ revision' = rev
  /\ holder' = None /\ Seek(s, known)
StateOf(truncated) == IF truncated THEN "TRUNCATED" ELSE "COMPLETE"
UnreadableIsEmpty == "COMPLETE"

Unreadable == "UNAVAILABLE"

\* The stored index, else one call, which may fail or be truncated.  Whatever
\* was fetched is stored; what could not be had is remembered for this run.
Load(s) ==
  /\ phase[s] = "loading"
  /\ \/ /\ cache # None
        /\ Loaded(s, cache.index, "COMPLETE", cache.revision)
        /\ UNCHANGED cache
     \/ /\ cache = None
        /\ \/ \E known \in SUBSET holds[head] :
                /\ Loaded(s, known, StateOf(known # holds[head]), head)
                /\ cache' = [index |-> known, revision |-> head]
           \/ Loaded(s, {}, Unreadable, revision) /\ UNCHANGED cache
  /\ UNCHANGED <<head, holds, texts, runs>>

\* A definition is fetched from the branch and stored under the index's revision.
TextKey(s) == <<revision, Wanted[s]>>
Definition(s) ==
  /\ phase[s] = "reading" /\ To(s, "done")
  /\ \/ /\ texts[TextKey(s)] = None /\ Wanted[s] \in holds[head]
        /\ texts' = [texts EXCEPT ![TextKey(s)] = head]
     \/ UNCHANGED texts \* known already, or it could not be had
  /\ UNCHANGED <<head, holds, memory, holder, cache, runs>>

Commit ==
  /\ head < MaxCommits /\ head' = head + 1
  /\ UNCHANGED <<holds, memory, holder, cache, texts, phase, runs>>

\* The next run; the index may have expired by then.
NextRun ==
  /\ runs < MaxRuns /\ runs' = runs + 1 /\ \A s \in Seekers : phase[s] = "done"
  /\ index' = None /\ state' = "NOT_LOADED" /\ revision' = None
  /\ cache' \in {cache, None}
  /\ phase' = [s \in Seekers |-> "start"]
  /\ UNCHANGED <<head, holds, holder, texts>>

Step(s) == Ask(s) \/ Lock(s) \/ Load(s) \/ Definition(s)
Next == Commit \/ NextRun \/ \E s \in Seekers : Step(s)
Spec == Init /\ [][Next]_vars /\ \A s \in Seekers : WF_vars(Step(s))
-----------------------------------------------------------------------------
\* In the run that asked the catalogue, an index said to be whole is whole,
\* and one that could not be had is not an empty one.
FreshIndexIsHonest ==
  runs = 1 /\ state = "COMPLETE" => revision # None /\ index = holds[revision]

\* Every query is answered, from one load of the index.
Settled == \A s \in Seekers : phase[s] = "done"
EverySeekerEnds == []<>Settled
-----------------------------------------------------------------------------
\* "COMPLETE: Loaded, and it describes the whole catalogue."
\* The code does not keep it: a listing that is cut off is stored, and read back
\* by the next run as complete.
CompleteIsWhole == state = "COMPLETE" => index = holds[revision]
\* What is kept under a revision is that revision's.
\* The code does not keep it: a definition is fetched from the head of the
\* repository and stored under the revision of the index.
TextsAreOfTheirRevision ==
  \A r \in Revisions, i \in Images : texts[r, i] # None => texts[r, i] = r
==============================================================================
