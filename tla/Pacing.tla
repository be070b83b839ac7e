------------------------------- MODULE Pacing -------------------------------
(***************************************************************************)
(* Calls of one process to one provider: the circuit breaker, the token    *)
(* bucket and the retries around each call (utils/rate_limit.py,           *)
(* utils/retry.py, as threat_intel/client.py and the other clients         *)
(* combine them: check, acquire, call, record).                            *)
(*                                                                         *)
(* Time is counted in ticks and every clock is relative, so that it need   *)
(* not end: a bucket fills by one unit a tick and a token is Need units.   *)
(***************************************************************************)
EXTENDS Integers

CONSTANTS
  Callers,    \* the coroutines that call the provider
  Calls,      \* calls that each of them makes
  Burst,      \* tokens that the bucket holds
  Need,       \* ticks for one token: period / rate
  Threshold,  \* consecutive failures that open the breaker
  Cooldown,   \* ticks for which it stays open
  Attempts,   \* attempts of the retry policy
  Backoff,    \* ticks between two of them
  Window      \* how long a token is remembered, for the property

VARIABLES
  level,    \* _tokens, in units
  idle,     \* ticks since _updated, up to a full bucket
  state,    \* per caller: "start", "asking", "asleep", "calling", "backoff", "refused", "over"
  left,     \* per caller: calls still to make
  timer,    \* per caller: ticks that it still sleeps
  attempt,  \* per caller: attempts of this call
  failures, \* _failures, counted up to the threshold
  closing,  \* ticks until the breaker lets calls through again
  given     \* history: the tokens given within the last w ticks, for every w

vars == <<level, idle, state, left, timer, attempt, failures, closing, given>>
breaker == <<failures, closing>>

Capacity == Burst * Need
PacingAssumption == Burst \in Nat /\ Need \in Nat \ {0} /\ Window \in Nat

Init ==
  /\ level = Capacity /\ idle = 0
  /\ state = [c \in Callers |-> "start"] /\ left = [c \in Callers |-> Calls]
  /\ timer = [c \in Callers |-> 0] /\ attempt = [c \in Callers |-> 0]
  /\ failures = 0 /\ closing = 0
  /\ given = [w \in 1..Window |-> 0]

IsOpen == failures >= Threshold /\ closing > 0

To(c, s) == state' = [state EXCEPT ![c] = s]

\* check() comes before acquire(): what sleeps below has passed it already.
Check(c) ==
  /\ state[c] = "start" /\ left[c] > 0
  /\ left' = [left EXCEPT ![c] = @ - 1]
  /\ To(c, IF IsOpen THEN "refused" ELSE "asking")
  /\ UNCHANGED <<level, idle, timer, attempt, breaker, given>>

Lesser(a, b) == IF a < b THEN a ELSE b
RefilledPastFull(units, elapsed) == units + elapsed
RefilledByToken(units, elapsed) == Lesser(Capacity, units + Need * (elapsed \div Need))
Refilled(units, elapsed) == Lesser(Capacity, units + elapsed)

\* Whoever wakes looks again: another caller may have taken the token.
Acquire(c) ==
  /\ state[c] \in {"asking", "asleep"} /\ timer[c] = 0
  /\ idle' = 0
  /\ LET units == Refilled(level, idle) IN
       \/ /\ units >= Need
          /\ level' = units - Need
          /\ given' = [w \in 1..Window |-> given[w] + 1]
          /\ To(c, "calling") /\ attempt' = [attempt EXCEPT ![c] = 1]
          /\ UNCHANGED timer
       \/ /\ units < Need
          /\ level' = units
          /\ \E jitter \in 0..1 : timer' = [timer EXCEPT ![c] = Need - units + jitter]
          /\ To(c, "asleep")
          /\ UNCHANGED <<attempt, given>>
  /\ UNCHANGED <<left, breaker>>

RecordSuccess == failures' = 0 /\ closing' = 0

\* Stamped anew by every failure past the threshold.
RecordFailure ==
  /\ failures' = Lesser(failures + 1, Threshold)
  /\ closing' = IF failures + 1 >= Threshold THEN Cooldown ELSE closing

Answered(c) ==
  /\ state[c] = "calling"
  /\ To(c, "over") /\ RecordSuccess
  /\ UNCHANGED <<level, idle, left, timer, attempt, given>>

\* A transient failure is retried on the same token; the last one is reraised.
Failed(c) ==
  /\ state[c] = "calling"
  /\ \/ /\ attempt[c] < Attempts
        /\ timer' = [timer EXCEPT ![c] = Backoff]
        /\ To(c, "backoff")
        /\ UNCHANGED breaker
     \/ /\ attempt[c] = Attempts
        /\ To(c, "over") /\ RecordFailure
        /\ UNCHANGED timer
  /\ UNCHANGED <<level, idle, left, attempt, given>>

Retry(c) ==
  /\ state[c] = "backoff" /\ timer[c] = 0
  /\ attempt' = [attempt EXCEPT ![c] = @ + 1]
  /\ To(c, "calling")
  /\ UNCHANGED <<level, idle, left, timer, breaker, given>>

Again(c) ==
  /\ state[c] \in {"refused", "over"} /\ left[c] > 0
  /\ To(c, "start")
  /\ UNCHANGED <<level, idle, left, timer, attempt, breaker, given>>

Tick ==
  /\ idle' = Lesser(idle + 1, Capacity)
  /\ timer' = [c \in Callers |-> IF timer[c] > 0 THEN timer[c] - 1 ELSE 0]
  /\ closing' = IF closing > 0 THEN closing - 1 ELSE 0
  /\ given' = [w \in 1..Window |-> IF w = 1 THEN 0 ELSE given[w - 1]]
  /\ UNCHANGED <<level, state, left, attempt, failures>>

Step(c) == Check(c) \/ Acquire(c) \/ Answered(c) \/ Failed(c) \/ Retry(c) \/ Again(c)
Next == Tick \/ \E c \in Callers : Step(c)

\* Time passes, the loop runs what is ready, and a call answers or times out.
Spec == Init /\ [][Next]_vars /\ WF_vars(Tick) /\ \A c \in Callers : WF_vars(Step(c))
-----------------------------------------------------------------------------
(***************************************************************************)
(* At most `rate` operations a period, after one burst: in any window of   *)
(* w ticks the tokens given are a full bucket and what w ticks refill,     *)
(* whatever the callers, their jitter and their pauses.                    *)
(***************************************************************************)
Paced ==
  \A w \in 1..Window : given[w] <= Burst + (w - 1) \div Need

\* Nobody starves: every caller gets all its calls made, or refused at once
\* by the breaker, although a token goes to whoever wakes first.
Settled == \A c \in Callers : left[c] = 0 /\ state[c] \in {"over", "refused"}
EveryCallerServed == []<>Settled
==============================================================================
