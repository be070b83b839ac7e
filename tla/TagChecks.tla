----------------------------- MODULE TagChecks ------------------------------
(***************************************************************************)
(* Does this tag exist on Docker Hub?  dockerhub/client.py's tag_exists,   *)
(* asked by several candidates of a run at once: the cache, one request    *)
(* for whoever asks meanwhile, and askers that are cancelled.              *)
(***************************************************************************)
EXTENDS Integers, FiniteSets

CONSTANTS Askers, None

TagChecksAssumption ==
  None \notin Askers /\ None \notin {"yes", "no", "unknown", "pending", "raised"}

VARIABLES
  exists,  \* the truth, which does not change meanwhile
  cached,  \* the cache: "yes", "no" or None
  owner,   \* _tag_checks: whose future is there, or None
  future,  \* asker: its future: None, "pending", an answer or "raised"
  phase,   \* asker: "start", "looked", "asking", "storing", "joined", "done", "raised", "cancelled"
  joined,  \* asker: whose future it waits for
  answer   \* asker: "yes", "no", "unknown", or None

vars == <<exists, cached, owner, future, phase, joined, answer>>

Init ==
  /\ exists \in {"yes", "no"} /\ cached = None /\ owner = None
  /\ future = [a \in Askers |-> None] /\ phase = [a \in Askers |-> "start"]
  /\ joined = [a \in Askers |-> None] /\ answer = [a \in Askers |-> None]

To(a, p) == phase' = [phase EXCEPT ![a] = p]
Return(a, v) == answer' = [answer EXCEPT ![a] = v] /\ To(a, "done")

\* The cache is awaited; what was there when it was read is what counts.
LookUp(a) ==
  /\ phase[a] = "start"
  /\ IF cached # None THEN Return(a, cached) ELSE To(a, "looked") /\ UNCHANGED answer
  /\ UNCHANGED <<exists, cached, owner, future, joined>>

\* From here to the request nothing is awaited: one owner at a time.
AskOrJoin(a) ==
  /\ phase[a] = "looked"
  /\ IF owner # None
     THEN joined' = [joined EXCEPT ![a] = owner] /\ To(a, "joined") /\ UNCHANGED <<owner, future>>
     ELSE owner' = a /\ future' = [future EXCEPT ![a] = "pending"] /\ To(a, "asking") /\ UNCHANGED joined
  /\ UNCHANGED <<exists, cached, answer>>

\* 404, a success, or anything else and anything that fails, which says nothing.
AnswersOrNo == {exists, "no"}
Answers == {exists, "unknown"}
Definite(v) == v \in {"yes", "no"}

SettleIfAnswered(a, v) ==
  /\ future' = IF v = "raised" THEN future ELSE [future EXCEPT ![a] = v]
  /\ owner' = None
Settle(a, v) == future' = [future EXCEPT ![a] = v] /\ owner' = None

\* Only what is definite is stored; the future is settled after that.
Check(a) ==
  /\ phase[a] = "asking"
  /\ \E v \in Answers :
       /\ answer' = [answer EXCEPT ![a] = v] /\ To(a, "storing")
       /\ cached' = IF Definite(v) THEN v ELSE cached
  /\ UNCHANGED <<exists, owner, future, joined>>
Stored(a) ==
  /\ phase[a] = "storing"
  /\ Settle(a, answer[a]) /\ To(a, "done")
  /\ UNCHANGED <<exists, cached, joined, answer>>

\* What ends the owner, a cancellation included, is its future's outcome.
Raise(a) == \* a cache that raises, or the asker is cancelled
  /\ phase[a] \in {"asking", "storing"}
  /\ Settle(a, "raised") /\ To(a, "raised")
  /\ answer' = [answer EXCEPT ![a] = None]
  /\ UNCHANGED <<exists, cached, joined>>

\* The future is shielded: a joiner that is cancelled leaves it alone.
LeaveJoined(a) ==
  /\ phase[a] = "joined" /\ To(a, "cancelled")
  /\ UNCHANGED <<exists, cached, owner, future, joined, answer>>
Join(a) ==
  /\ phase[a] = "joined" /\ future[joined[a]] # "pending"
  /\ IF future[joined[a]] = "raised" THEN To(a, "raised") /\ UNCHANGED answer
     ELSE Return(a, future[joined[a]])
  /\ UNCHANGED <<exists, cached, owner, future, joined>>

Step(a) == LookUp(a) \/ AskOrJoin(a) \/ Check(a) \/ Stored(a) \/ Join(a)
Next == \E a \in Askers : Step(a) \/ Raise(a) \/ LeaveJoined(a)
Spec == Init /\ [][Next]_vars /\ \A a \in Askers : WF_vars(Step(a))
-----------------------------------------------------------------------------
\* Silence is never an answer: a tag is denied, now or to a later run from the
\* cache, only if Docker Hub said so, and at most one request is under way.
SilenceDeniesNothing ==
  /\ cached # None => cached = exists
  /\ \A a \in Askers : answer[a] = "no" => exists = "no"
  /\ Cardinality({a \in Askers : phase[a] \in {"asking", "storing"}}) <= 1

\* Whoever asked is answered or told, also when the one that asked the
\* network was cancelled while the others waited.
Settled == \A a \in Askers : phase[a] \in {"done", "raised", "cancelled"}
EveryCheckEnds == []<>Settled
==============================================================================
